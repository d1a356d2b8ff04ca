\* Two handlers update one command at the same time.
SPECIFICATION Spec
CONSTANTS
  c1 = c1  c2 = c2  n1 = n1  n2 = n2  e1 = e1  e2 = e2  m1 = m1
  Commands = {c1}
  Names = {n1}
  Permissions = {"everyone"}
  Scripts = {{"reply"}, {"reply", "send"}}
  Editors = {e1, e2}
  SuperAdmins = {e1, e2}
  Messages = {m1}
  SendTargets = 2
  MaxVersion = 4
  MaxFaults = 0
  MaxRestarts = 0
PROPERTY NeverStale
CHECK_DEADLOCK FALSE
