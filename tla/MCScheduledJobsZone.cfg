\* One job, a scheduler whose time zone is ahead of UTC.
CONSTANTS
    h1 = h1  h2 = h2  k1 = k1
    Jobs = {1}
    Testers = {h1, h2}
    Keys = {k1}
    Offset = 1
    MaxDay = 2
    MaxRuns = 2
    MaxRevision = 1
    MaxRequests = 0
    MaxFaults = 0
    MaxCrashes = 0
SPECIFICATION MCSpec
PROPERTIES
    OnceJobsAreNotEarly
