\* A client that comes and goes, falls behind, changes its role or loses its session.
SPECIFICATION LiveSpec
CONSTANTS
  c1 = c1  c2 = c2
  Clients = {c1, c2}
  Topics = {"auth", "groups"}
  Roles <- MCRoles
  Requested <- MCRequested
  Capacity = 2
  SubscriberBuffer = 1
  MaxEvents = 3
  MaxRestarts = 1
CONSTRAINT Scenarios
INVARIANTS
    StreamsAreSound
PROPERTIES
    RevokedStreamsEnd
CHECK_DEADLOCK FALSE
