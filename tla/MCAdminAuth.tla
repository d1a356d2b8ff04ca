---------------------------- MODULE MCAdminAuth ----------------------------
(* A bounded instance of AdminAuth for TLC: the union of the scenarios.    *)
EXTENDS AdminAuth, TLC

CONSTANTS u1, u2, p1, p2, k1

Symmetric == Permutations({p1, p2})

Staged(stages) == {p \in DOMAIN call : call[p].stage \in stages}
Opened1 == Cardinality(DOMAIN session)
\* The first administrator is u1; its password is "a".
Usual ==
    /\ DOMAIN user # {u2} /\ \A u \in DOMAIN user : era[u] = 0 => user[u].password = "a"
    /\ \A p \in Staged({"login"}) : call[p].upgrade => call[p].prior = NotReplaced
    /\ Cardinality(Staged({"login"})) <= 1 /\ \A r \in DOMAIN applied : applied[r] <= 2

\* Time passes for one administrator, who logs in, browses and logs out.
Browsing ==
    /\ DOMAIN user \subseteq {u1} /\ applied = Empty
    /\ \A u \in DOMAIN user : user[u].revision = 1
    /\ Opened1 <= 1

\* One administrator logs in, changes and resets its password and retries.
Changing ==
    /\ clock = 0 /\ DOMAIN user \subseteq {u1}
    /\ \A u \in DOMAIN user : user[u].enabled /\ user[u].role = "super_admin"
    /\ Cardinality(DOMAIN applied) <= 2
    /\ \A r \in DOMAIN applied : r.op \in {"change", "reset"}

\* Two administrators edit each other and end each other's sessions.
Editing ==
    /\ clock = 0 /\ Opened1 <= 2 /\ (Staged({"login"}) = {} \/ Opened1 <= 1)
    /\ Staged({"verify", "commit", "rotating"}) = {}
    /\ Cardinality(DOMAIN applied) <= 1
    /\ \A r \in DOMAIN applied : r.op \in {"revoke_user", "revoke_session"}
    /\ \A u \in DOMAIN user : era[u] = 0

Scenarios == Usual /\ (Browsing \/ Changing \/ Editing)
=============================================================================
