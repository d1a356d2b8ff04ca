\* Restarts, updates and reloads, each under faults, signals and crashes, and a
\* reload under a restart of the bot.
CONSTANTS
    k1 = k1  k2 = k2  h1 = h1  h2 = h2
    Keys = {k1, k2}
    Handlers = {h1, h2}
    MaxOps = 3
    MaxUpdates = 2
    MaxFaults = 1
    MaxStops = 1
    MaxExpiries = 1
    ReloadKeys = {k1, k2}
    Requests = {h1}
    MaxReloads = 2
    MaxSource = 2
    MaxAged = 1
SPECIFICATION FairAdministration
CONSTRAINT Scenarios
CHECK_DEADLOCK FALSE
INVARIANTS
    KeysBeginOneOperation ResultsTellTruth UpdatesAreNotLost
PROPERTIES
    KnowledgeIsServed OperationsEnd
