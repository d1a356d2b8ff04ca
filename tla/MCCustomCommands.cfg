\* Three scenarios in one graph: handlers one after the other, with a message; two
\* handlers at the same time; a message whose command changes, over faults and a restart.
SPECIFICATION LiveSpec
CONSTANTS
  c1 = c1  c2 = c2  n1 = n1  n2 = n2  e1 = e1  e2 = e2  m1 = m1
  Commands = {c1, c2}
  Names = {n1, n2}
  Permissions = {"everyone", "group_admin", "maintenance_allowlist"}
  Scripts = {{"reply"}, {"send"}, {"reply", "send"}}
  Editors = {e1, e2}
  SuperAdmins = {e1}
  Messages = {m1}
  SendTargets = 2
  MaxVersion = 3
  MaxFaults = 2
  MaxRestarts = 1
CONSTRAINT Scenarios
INVARIANTS
    RegistryIsSound ActingIsAllowed ResultTellsTruth
PROPERTIES
    RunsAreRecorded
CHECK_DEADLOCK FALSE
