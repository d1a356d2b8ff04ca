\* One job, one client: is a finished test send replayed?
CONSTANTS
    h1 = h1  h2 = h2  k1 = k1
    Jobs = {1}
    Testers = {h1, h2}
    Keys = {k1}
    Offset = 0
    MaxDay = 1
    MaxRuns = 2
    MaxRevision = 1
    MaxRequests = 2
    MaxFaults = 0
    MaxCrashes = 0
SPECIFICATION MCSpec
PROPERTIES
    RepeatsAreReplayed
