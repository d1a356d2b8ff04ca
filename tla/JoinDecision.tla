---------------------------- MODULE JoinDecision ----------------------------
(***************************************************************************)
(* What deciding join requests promises, without attempts, leases, keys or *)
(* processes: a request is claimed before anybody acts on it, the bot acts *)
(* at most once with effect per request, and it is open again only when it *)
(* is certain that nothing was done.  JoinRequests implements this.        *)
(***************************************************************************)
CONSTANT Requests

VARIABLES
    status,   \* the decision status shown to administrators
    claim,    \* somebody holds the right to act on the request once
    effect    \* what the bot did to the applicant: "maybe" when nobody knows

vars == <<status, claim, effect>>

Statuses == {"absent", "pending", "processing", "approved", "rejected",
             "external_processed", "unknown"}
Effects == {"none", "approve", "reject", "maybe"}

TypeOK ==
    /\ status \in [Requests -> Statuses]
    /\ claim \in [Requests -> BOOLEAN]
    /\ effect \in [Requests -> Effects]

Init ==
    /\ status \in [Requests -> {"absent", "pending"}]
    /\ claim = [r \in Requests |-> FALSE]
    /\ effect = [r \in Requests |-> "none"]

\* The request becomes known, or somebody else has processed it.
Arrive(r) ==
    /\ status[r] = "absent"
    /\ \E s \in {"pending", "external_processed"} : status' = [status EXCEPT ![r] = s]
    /\ UNCHANGED <<claim, effect>>

Observe(r) ==
    /\ status[r] \in {"pending", "unknown"}
    /\ status' = [status EXCEPT ![r] = "external_processed"]
    /\ UNCHANGED <<claim, effect>>

\* All of a batch is claimed, or nothing.
Claim(S) ==
    /\ \A r \in S : status[r] = "pending" /\ ~claim[r] /\ effect[r] = "none"
    /\ status' = [r \in Requests |-> IF r \in S THEN "processing" ELSE status[r]]
    /\ claim' = [r \in Requests |-> claim[r] \/ r \in S]
    /\ UNCHANGED effect

\* A claim is used up by acting on it, whatever the status has become.
Act(r) ==
    /\ claim[r] /\ effect[r] = "none"
    /\ claim' = [claim EXCEPT ![r] = FALSE]
    /\ \E e \in Effects : effect' = [effect EXCEPT ![r] = e]
    /\ UNCHANGED status

Settle(r) ==
    /\ status[r] = "processing"
    /\ \/ effect[r] = "approve" /\ status' = [status EXCEPT ![r] = "approved"]
       \/ effect[r] = "reject" /\ status' = [status EXCEPT ![r] = "rejected"]
       \/ /\ effect[r] = "none" /\ ~claim[r]
          /\ status' = [status EXCEPT ![r] = "pending"]
    /\ UNCHANGED <<claim, effect>>

\* Nobody knows any more how the processing of these requests ended.
LoseTrack(S) ==
    /\ \A r \in S : status[r] = "processing"
    /\ status' = [r \in Requests |-> IF r \in S THEN "unknown" ELSE status[r]]
    /\ UNCHANGED <<claim, effect>>

Next ==
    \/ \E r \in Requests : Arrive(r) \/ Observe(r) \/ Act(r) \/ Settle(r)
    \/ \E S \in SUBSET Requests : Claim(S) \/ LoseTrack(S)

Spec == Init /\ [][Next]_vars

-----------------------------------------------------------------------------
\* What administrators may conclude from the status: an open request was not
\* acted on and nobody is about to, a decided one was acted on accordingly, and
\* nobody may act on a request that was acted on.
StatusTellsTruth ==
    \A r \in Requests :
        /\ status[r] \in {"absent", "pending"} => ~claim[r] /\ effect[r] = "none"
        /\ status[r] = "approved" => effect[r] = "approve"
        /\ status[r] = "rejected" => effect[r] = "reject"
        /\ claim[r] => effect[r] = "none"
=============================================================================
