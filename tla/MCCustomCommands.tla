-------------------------- MODULE MCCustomCommands --------------------------
(* Bounded instances of CustomCommands for TLC.                            *)
EXTENDS CustomCommands

CONSTANTS c1, c2, n1, n2, e1, e2, m1

Alone == task[e2] = Idle
Member == \A m \in Messages : standing[m] = "member"

\* Every definition in the table or on its way there.
Definitions ==
    {rows[c] : c \in DOMAIN rows}
      \cup {task[e].patch : e \in {x \in Editors : "patch" \in DOMAIN task[x]}}
Within(field, values) == \A d \in Definitions : field \in DOMAIN d => d[field] \in values

\* Commands are alike, and so are names: c1 may as well be drawn first, with n1.
InOrder ==
    /\ c2 \in used => c1 \in used
    /\ used = {} => Within("name", {n1})
    /\ c2 \in DOMAIN rows => rows[c2].version <= 2

Plain == Within("permission", {"everyone"}) /\ Within("actions", {{"reply"}})

\* One handler at a time, two commands, a lost answer or a restart, and a message
\* up to the definition it starts.
Serial ==
    /\ Alone /\ Member /\ Plain /\ faults + restarts <= 1
    /\ \A m \in Messages : msg[m].phase \in {"waiting", "probed", "asked"}

\* Two handlers at the same time: two commands that differ in their names, or one
\* whose permission and actions change.
Editing ==
    /\ Member /\ faults = 0 /\ restarts = 0 /\ \A m \in Messages : msg[m] = Waiting
    /\ \/ Plain
       \/ /\ used \subseteq {c1} /\ Within("name", {n1})
          /\ Within("permission", {"everyone", "group_admin"}) /\ Within("actions", {{"reply"}, {"send"}})

\* One message runs a command while a handler changes it, with database faults and a restart.
Running ==
    /\ Alone /\ used \subseteq {c1} /\ Within("name", {n1})
    /\ Within("actions", {{"reply"}, {"reply", "send"}})

Scenarios == InOrder /\ (Serial \/ Editing \/ Running)
=============================================================================
