\* Two scenarios in one graph: concurrent syncs of two keys while the bot joins and
\* leaves groups, and publications of two handlers under one key.
SPECIFICATION LiveSpec
CONSTANTS
  g1 = g1  g2 = g2  h1 = h1  h2 = h2  k1 = k1  k2 = k2
  Groups = {g1, g2}
  Handlers = {h1, h2}
  Keys = {k1, k2}
  MaxVersion = 2
  MaxOps = 3
  MaxFaults = 1
  MaxCrashes = 1
CONSTRAINT Scenarios
INVARIANTS
    NoticesAreSound
PROPERTIES
    DirectoryNeverGoesBack SyncsEnd
CHECK_DEADLOCK FALSE
