-------------------------- MODULE MCGroupDirectory --------------------------
(* Bounded instances of GroupDirectory for TLC.                            *)
EXTENDS GroupDirectory

CONSTANTS g1, g2, h1, h2, k1, k2

\* Syncs of two handlers under two keys, with a fault and a crash.
Syncing ==
    /\ notices = <<>>
    /\ \A h \in Handlers : call[h].phase # "reserving"
    /\ remote.version = 1 => remote.groups = Groups

\* Publications of two handlers under one key, with a fault or a crash.
Posting ==
    /\ issued <= 2 /\ faults + crashes <= 1
    /\ syncs = <<>> /\ remote.version = 1 /\ remote.groups = Groups
    /\ \A h \in Handlers : "key" \in DOMAIN call[h] => call[h].key = k1

Scenarios == Syncing \/ Posting
=============================================================================
