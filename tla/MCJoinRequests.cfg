\* Two scenarios: a client deciding two requests as a batch, and a client beside the
\* automatic approver, with policy updates and a crash.
CONSTANTS
    r1 = r1  r2 = r2  g1 = g1  d1 = d1  d2 = d2
    h1 = h1  k1 = k1  auto = auto
    None = None
    Requests = {r1, r2}
    Groups = {g1}
    GroupOf <- GroupOfTwo
    Decisions = {d1, d2}
    Handlers = {h1}
    Worker = auto
    Keys = {k1}
    MaxPolicyRevision = 3
    MaxCrashes = 1
SPECIFICATION MCSpec
INVARIANTS
    TablesAgree SentAtMostOnce EffectsTellTruth
PROPERTIES
    AutomaticHonoursPolicy ImplementsJoinDecision ProcessingEnds
