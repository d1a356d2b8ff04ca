----------------------------- MODULE MCEventHub -----------------------------
(* A bounded instance of EventHub for TLC: a client that asks for          *)
(* everything it may read, and one that asks for the groups topic only.    *)
EXTENDS EventHub, TLC

CONSTANTS c1, c2

MCRequested == [c \in Clients |-> IF c = c2 THEN {"groups"} ELSE {}]
MCRoles == {{"auth", "groups"}, {"auth"}}

Absent(c) ==
    /\ stream[c] = Off /\ client[c].id = NoId /\ client[c].base = 0
    /\ granted[c] = {"auth", "groups"} /\ revoking[c] = "no"

\* One client at a time; the second is there for its revocations.
Scenarios == Absent(c2) \/ (Absent(c1) /\ Len(log) <= 1)
=============================================================================
