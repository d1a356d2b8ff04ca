\* Settings under two administrators, messages under a change of the settings,
\* telemetry, staging, review and the rule for student numbers, each under crashes and starts.
CONSTANTS
    a1 = a1  a2 = a2  g1 = g1
    w1 = w1  w2 = w2  c1 = c1  c2 = c2  f1 = f1  f2 = f2  r1 = r1  r2 = r2
    Inherit = "inherit"
    Groups = {g1}
    Fields = {"keyword"}
    Values = {"on", "off"}
    Admins = {a1, a2}
    MaxRevision = 2
    MaxFaults = 1
    Workers = {w1, w2}
    AiSlots = {s1}
    Messages <- AllMessages
    MaxMessages = 2
    MaxSessions = 2
    Capacity = 2
    BatchSize = 2
    RetentionDays = 1
    Windows <- MCWindows
    MaxEvents = 2
    MaxTime = 4
    Callers = {c1, c2}
    Files = {f1, f2}
    Slots = 2
    MaxFiles = 2
    StaleAfter = 2
    CleanupGrace = 2
    MaxDownloads = 3
    MaxClock = 7
    Applications = {r1, r2}
    Comments <- MCComments
    Datasets <- MCDatasets
    ImportKeys = {i1}
    RebuildKeys = {k1}
    AutoReject = TRUE
    MinSamples = 1
    MaxAttempts = 1
    MaxSightings = 2
    MaxDecided = 1
    IdLength = 3
    YearLength = 1
    RulePatches <- MCRulePatches
    Numbers <- MCNumbers
    MaxRuleVersion = 4
SPECIFICATION MCSpec
CHECK_DEADLOCK FALSE
INVARIANTS
    SettingsAreServed AnswersAreSound SessionsDoNotOverlap
    EventsAreAccounted FilesAreKept
    ApprovedBecomesEvidence CorrectionsSurvive ReviewNamesItsEvidence RuleKeepsPatches
PROPERTIES
    AcknowledgedIsServed 
