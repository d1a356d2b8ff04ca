\* One job. Three scenarios: the loop with a crash and a database fault, edits under
\* the loop, and test sends of two handlers under one key.
CONSTANTS
    h1 = h1  h2 = h2  k1 = k1
    Jobs = {1}
    Testers = {h1, h2}
    Keys = {k1}
    Offset = 0
    MaxDay = 2
    MaxRuns = 2
    MaxRevision = 2
    MaxRequests = 3
    MaxFaults = 1
    MaxCrashes = 1
SPECIFICATION MCSpec
INVARIANTS
    SendsAreNotRepeated RecordTellsTruth
PROPERTIES
    SendsForLiveJobs JobsProgress
