\* Administrators change, reset, revoke and retry while sessions are rotated and touched.
SPECIFICATION Spec
CONSTANTS
  u1 = u1  u2 = u2  p1 = p1  p2 = p2  k1 = k1
  Users = {u1, u2}
  Sessions = {1, 2, 3}
  Calls = {p1, p2}
  Keys = {k1}
  Passwords = {"a", "b"}
  Roles = {"super_admin", "maintainer"}
  IdleTTL = 3
  AbsoluteTTL = 5
  TouchInterval = 1
  MaxTime = 5
  MaxRevision = 3
SYMMETRY Symmetric
CONSTRAINT Scenarios
INVARIANTS
    SomeSuperAdmin SessionsAreSound
PROPERTIES
    EndedIsFinal ChangesReplaceWhatTheyVerified RepetitionsAreSafe
CHECK_DEADLOCK FALSE
