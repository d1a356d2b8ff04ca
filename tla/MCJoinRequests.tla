--------------------------- MODULE MCJoinRequests ---------------------------
(* Small instances of JoinRequests: one group, so any requests can form a   *)
(* batch.                                                                   *)
EXTENDS JoinRequests, TLC

CONSTANTS r1, r2, g1, d1, d2, h1, k1, auto

VARIABLE scenario

GroupOfTwo == [r \in {r1, r2} |-> g1]

\* Ids are alike: the first one is used first, in a batch for the first request.
FirstId ==
    attempts'[d2].status # "unused" /\ attempts[d2].status = "unused" =>
        /\ attempts'[d1].status # "unused"
        /\ attempts[d1].status = "unused" => attempts'[d1].request = r1

\* Approval of two requests that are there from the start, as a batch.  The policy
\* is off and nobody is parsed, so the automatic approver only recovers leases.
Batches ==
    /\ scenario = "batch" /\ crashes' = 0
    /\ \A r \in Requests : ~parsed'[r] /\ policy'[g1].revision = 1
    /\ \A h \in Handlers : batch'[h] # "single" /\ (ask'[h] # None => ask'[h].action = "approve")

\* One request decided by a client or by the automatic approver, with a crash or
\* with a policy that is switched off or changed, twice.
Automatic ==
    /\ scenario = "automatic"
    /\ decision'[r2] = "absent"
    /\ \A h \in Handlers : batch'[h] \in {"none", "single"}
    /\ crashes' = 0 \/ policy'[g1].revision = 1

MCInit ==
    /\ Init /\ scenario \in {"batch", "automatic"}
    /\ scenario = "batch" <=> decision[r2] # "absent"
    /\ scenario = "batch" => decision[r1] # "absent"

MCNext == Next /\ (Batches \/ Automatic) /\ FirstId /\ UNCHANGED scenario

\* Only the environment is restricted, so the fairness is that of JoinRequests.
MCSpec == MCInit /\ [][MCNext]_<<vars, scenario>> /\ Fairness
=============================================================================
