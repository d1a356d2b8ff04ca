\* One administrator's requests under one key: can the process always be started?
CONSTANTS
    k1 = k1  k2 = k2  h1 = h1  h2 = h2
    Keys = {k1}
    Handlers = {h1}
    MaxOps = 2
    MaxUpdates = 0
    MaxFaults = 1
    MaxStops = 1
    MaxExpiries = 1
    ReloadKeys = {}
    Requests = {}
    MaxReloads = 0
    MaxSource = 1
    MaxAged = 0
SPECIFICATION AdministrationSpec
CHECK_DEADLOCK FALSE
INVARIANTS
    StartsAgain
