---------------------------- MODULE JoinRequests ----------------------------
(***************************************************************************)
(* Decisions on group join requests: src/internal/groups/joinrequests and  *)
(* the transactions of src/internal/platform/storage that it runs on.      *)
(*                                                                         *)
(* A decision is a two-step affair: one transaction reserves the request   *)
(* (BeginDecisions), the NapCat gateway is called outside any transaction, *)
(* a second transaction records what came of it (CompleteDecision).  Three *)
(* kinds of process do this against one database: HTTP handlers deciding   *)
(* one request or a batch, the automatic approver's worker, and the        *)
(* goroutines that repeat a completion which could not be stored.  The     *)
(* worker also turns reservations whose lease ran out into "unknown", and  *)
(* NapCat's system messages report requests somebody processed elsewhere.  *)
(***************************************************************************)
EXTENDS Integers, FiniteSets

CONSTANTS
    Requests,           \* join request flags
    Groups,             \* QQ groups
    GroupOf,            \* the group each request asks to join
    Decisions,          \* ids of rows of group_join_decisions
    Handlers,           \* concurrent management requests
    Worker,             \* the automatic approver
    Keys,               \* idempotency keys chosen by clients
    None,
    MaxPolicyRevision,  \* bound: policy updates explored
    MaxCrashes          \* bound: process crashes explored

ASSUME ConstantsAssumption ==
    /\ GroupOf \in [Requests -> Groups]
    /\ Worker \notin Handlers
    /\ None \notin Requests \cup Groups \cup Decisions \cup Handlers
    /\ MaxPolicyRevision \in Nat /\ MaxCrashes \in Nat

VARIABLES
    \* Rows of group_join_requests
    decision,       \* decision_status, or "absent" before the row exists
    observed,       \* observed_status: has NapCat reported it as processed
    source,         \* decision_source
    revision,
    lastDecision,   \* last_decision_id
    lease,          \* processing_expires_at: none, in the future or past
    parsed,         \* ai_parse_status = succeeded
    fresh,          \* first seen after the policy's and the rule's start
    \* Rows of group_join_decisions and group_join_policies
    attempts,
    policy,
    \* Memory of the process: lost by a crash
    up,
    ask,            \* the reservation a process is about to request
    batch,          \* the kind of request a handler serves
    todo,           \* reserved items not yet sent to the gateway
    current,        \* the item sent, whose completion is not yet stored
    candidates,     \* listed by the worker and not yet reviewed in this round
    retries,        \* completions being repeated in the background
    crashes,
    \* History: what the gateway was asked and what it answered
    sent,
    outcome

rows == <<decision, observed, source, revision, lastDecision, lease, parsed, fresh>>
memory == <<ask, batch, todo, current, candidates, retries>>
history == <<sent, outcome>>
vars == <<rows, attempts, policy, up, memory, crashes, history>>

Processes == Handlers \cup {Worker}
Actions == {"approve", "reject"}
DecisionStatuses == {"absent", "pending", "processing", "approved", "rejected",
                     "external_processed", "unknown"}
AttemptStatuses == {"unused", "started", "confirmed", "failed", "unknown"}
Answers == {"confirmed", "failed", "unavailable", "unknown"}
\* "canceled" stands for an item completed without any gateway call.
Outcomes == Answers \cup {"none", "canceled"}

AutoKey(r, version, action) == <<r, version, action>>
KeySpace == Keys \cup (Requests \X Nat \X Actions)

NoAttempt == [request |-> None, key |-> None, action |-> None,
              source |-> None, status |-> "unused", error |-> "none"]

Attempt == [request: Requests \cup {None}, key: KeySpace \cup {None},
            action: Actions \cup {None}, source: {"manual", "automatic", None},
            status: AttemptStatuses, error: Outcomes \cup {"lease_expired"}]

Policy == [enabled: BOOLEAN, auto_reject: BOOLEAN, revision: Nat]

\* BeginMutation: the items with the versions their client or the worker saw.
BeginMutation ==
    [items: SUBSET Requests, version: [Requests -> Nat], group: Groups \cup {None},
     action: Actions, key: KeySpace, source: {"manual", "automatic"},
     policyRevision: Nat \cup {None}]

-----------------------------------------------------------------------------
(* The answer of the gateway decides how an attempt ends.                   *)

\* A completion follows from the attempt and from what the gateway answered.
\* An automatic attempt that is not confirmed ends unknown, never pending.
AttemptStatus(d) ==
    IF outcome[d] = "confirmed" THEN "confirmed"
    ELSE IF attempts[d].source = "automatic" \/ outcome[d] = "unknown" THEN "unknown"
    ELSE "failed"

DecisionStatus(d) ==
    CASE AttemptStatus(d) = "confirmed" ->
            IF attempts[d].action = "approve" THEN "approved" ELSE "rejected"
      [] AttemptStatus(d) = "unknown" -> "unknown"
      [] OTHER -> "pending"

\* The transaction of CompleteDecision for an attempt still started.
CompletionApplies(d) ==
    LET r == attempts[d].request
    IN  /\ attempts[d].status = "started"
        /\ decision[r] = "processing"
        /\ lastDecision[r] = d

StoreCompletion(d) ==
    LET r == attempts[d].request
    IN  /\ attempts' = [attempts EXCEPT ![d].status = AttemptStatus(d),
                                        ![d].error = outcome[d]]
        /\ decision' = [decision EXCEPT ![r] = DecisionStatus(d)]
        /\ revision' = [revision EXCEPT ![r] = @ + 1]
        /\ lease' = [lease EXCEPT ![r] = "none"]
        /\ UNCHANGED <<observed, source, lastDecision, parsed, fresh>>

\* Repeating a completion that was stored already succeeds without a change.
AlreadyCompleted(d) ==
    LET r == attempts[d].request
    IN  /\ attempts[d].status = AttemptStatus(d)
        /\ attempts[d].error = outcome[d]
        /\ lastDecision[r] = d
        /\ decision[r] = DecisionStatus(d)

-----------------------------------------------------------------------------
(* Requests arrive and are observed through NapCat.                         *)

\* The first upsert of a flag.  A system message may report it processed.
Record(r, processed) ==
    /\ up /\ decision[r] = "absent"
    /\ decision' = [decision EXCEPT ![r] = IF processed THEN "external_processed" ELSE "pending"]
    /\ observed' = [observed EXCEPT ![r] = IF processed THEN "checked" ELSE "pending"]
    /\ source' = [source EXCEPT ![r] = IF processed THEN "external" ELSE "none"]
    /\ fresh' = [fresh EXCEPT ![r] = TRUE]
    /\ UNCHANGED <<revision, lastDecision, lease, parsed, attempts, policy, up, memory, crashes, history>>

\* The AI parser extracts the applicant's fields.
ParseApplicant(r) ==
    /\ up /\ decision[r] # "absent" /\ ~parsed[r]
    /\ parsed' = [parsed EXCEPT ![r] = TRUE]
    /\ UNCHANGED <<decision, observed, source, revision, lastDecision, lease, fresh,
                   attempts, policy, up, memory, crashes, history>>

\* Mutant: an observation overrides a decision being processed.
MergeObservedWhileProcessing(status) ==
    IF status \in {"pending", "processing", "unknown"} THEN "external_processed" ELSE status

MergeObservedDecisionStatus(status) ==
    IF status \in {"pending", "unknown"} THEN "external_processed" ELSE status

\* A system message reports as processed a request the bot knows.  The row's
\* revision stays as it is.
ObserveProcessed(r) ==
    /\ up /\ decision[r] # "absent"
    /\ observed' = [observed EXCEPT ![r] = "checked"]
    /\ decision' = [decision EXCEPT ![r] = MergeObservedDecisionStatus(@)]
    /\ source' = [source EXCEPT ![r] =
                    IF decision[r] \in {"pending", "unknown", "external_processed"}
                    THEN "external" ELSE @]
    /\ UNCHANGED <<revision, lastDecision, lease, parsed, fresh,
                   attempts, policy, up, memory, crashes, history>>

\* Updating a policy makes every request seen before it ineligible.  A patch
\* that changes nothing leaves the row alone.
UpdatePolicy(g, enabled, autoReject) ==
    /\ up /\ policy[g].revision < MaxPolicyRevision
    /\ <<enabled, autoReject>> # <<policy[g].enabled, policy[g].auto_reject>>
    /\ policy' = [policy EXCEPT ![g] = [enabled |-> enabled, auto_reject |-> autoReject,
                                        revision |-> @.revision + 1]]
    /\ fresh' = [r \in Requests |-> fresh[r] /\ GroupOf[r] # g]
    /\ UNCHANGED <<decision, observed, source, revision, lastDecision, lease, parsed,
                   attempts, up, memory, crashes, history>>

-----------------------------------------------------------------------------
(* Reserving requests.                                                      *)

\* A handler receives Decide (one request) or BulkDecide (some of a group)
\* naming the versions its client saw; the client may reuse a key.
Submit(h, items, kind, action, key) ==
    /\ up /\ batch[h] = "none"
    /\ items # {} /\ \A r \in items : decision[r] # "absent"
    /\ kind = "single" => Cardinality(items) = 1
    /\ batch' = [batch EXCEPT ![h] = kind]
    /\ \E group \in Groups \cup {None} :
        /\ IF kind = "bulk" THEN \A r \in items : group = GroupOf[r] ELSE group = None
        /\ ask' = [ask EXCEPT ![h] =
             [items |-> items, version |-> [r \in Requests |-> IF r \in items THEN revision[r] ELSE 0],
              group |-> group, action |-> action, key |-> key, source |-> "manual",
              policyRevision |-> None]]
    /\ UNCHANGED <<rows, attempts, policy, up, todo, current, candidates,
                   retries, crashes, history>>

\* Attempts of these requests that were made under the same key.
Earlier(m) ==
    {d \in Decisions : attempts[d].request \in m.items /\ attempts[d].key = m.key}

\* Mutant: the policy the worker listed is trusted, not locked and compared.
PolicyTrusted(m) == TRUE

\* lockAutomaticDecisionPolicy
PolicyAllows(m) ==
    m.source = "automatic" =>
        /\ policy[m.group].revision = m.policyRevision
        /\ m.action = "approve" => policy[m.group].enabled
        /\ m.action = "reject" => policy[m.group].auto_reject

\* Mutant: one reservable request is enough for its batch.
ReservableAny(m) ==
    \E r \in m.items :
        /\ revision[r] = m.version[r]
        /\ decision[r] = "pending"
        /\ m.group \in {None, GroupOf[r]}

\* All the requests are still what the caller saw, or none is reserved.
Reservable(m) ==
    \A r \in m.items :
        /\ revision[r] = m.version[r]
        /\ decision[r] = "pending"
        /\ m.group \in {None, GroupOf[r]}

\* Any distinct unused ids: the code draws them at random.
FreshIds(items) ==
    {f \in [items -> {d \in Decisions : attempts[d].status = "unused"}] :
        \A r, s \in items : f[r] = f[s] => r = s}

\* The requests are reserved.  The caller is told what it may execute, or only sees
\* an error or an item it does not accept: then nobody executes the reservation.
BeginDecisions(p) ==
    /\ ask[p] # None
    /\ LET m == ask[p]
           items == m.items
       IN  /\ PolicyAllows(m) /\ Earlier(m) = {} /\ Reservable(m)
           /\ \E id \in FreshIds(items) :
                /\ attempts' = [d \in Decisions |->
                     IF \E r \in items : id[r] = d
                     THEN [request |-> CHOOSE r \in items : id[r] = d, key |-> m.key,
                           action |-> m.action, source |-> m.source,
                           status |-> "started", error |-> "none"]
                     ELSE attempts[d]]
                /\ lastDecision' = [r \in Requests |-> IF r \in items THEN id[r] ELSE lastDecision[r]]
                /\ \E told \in {{id[r] : r \in items}, {}} : todo' = [todo EXCEPT ![p] = told]
           /\ decision' = [r \in Requests |-> IF r \in items THEN "processing" ELSE decision[r]]
           /\ source' = [r \in Requests |-> IF r \in items THEN m.source ELSE source[r]]
           /\ revision' = [r \in Requests |-> IF r \in items THEN revision[r] + 1 ELSE revision[r]]
           /\ lease' = [r \in Requests |-> IF r \in items THEN "running" ELSE lease[r]]
    /\ ask' = [ask EXCEPT ![p] = None]
    /\ UNCHANGED <<observed, parsed, fresh, policy, up, batch, current, candidates,
                   retries, crashes, history>>

\* Mutant: a replayed reservation is executed like a new one.
ReplayExecutes(p) ==
    /\ ask[p] # None /\ Earlier(ask[p]) # {}
    /\ ask' = [ask EXCEPT ![p] = None]
    /\ todo' = [todo EXCEPT ![p] = Earlier(ask[p])]
    /\ UNCHANGED <<rows, attempts, policy, up, batch, current, candidates,
                   retries, crashes, history>>

\* The key was used before: the caller is told about the earlier attempts, and
\* nothing is executed.
ReplayDecisions(p) ==
    /\ ask[p] # None /\ Earlier(ask[p]) # {}
    /\ ask' = [ask EXCEPT ![p] = None]
    /\ UNCHANGED <<rows, attempts, policy, up, batch, todo, current, candidates,
                   retries, crashes, history>>

\* A conflict, or the database fails: the transaction leaves no trace.
RefuseDecisions(p) ==
    /\ ask[p] # None
    /\ ask' = [ask EXCEPT ![p] = None]
    /\ UNCHANGED <<rows, attempts, policy, up, batch, todo, current, candidates,
                   retries, crashes, history>>

-----------------------------------------------------------------------------
(* Executing what was reserved.                                             *)

\* execute, first half: the gateway is called and answers.
CallGateway(p, d, answer) ==
    /\ current[p] = None /\ d \in todo[p]
    /\ p \in Handlers => batch[p] # "canceled"
    /\ sent' = [sent EXCEPT ![d] = @ + 1]
    /\ outcome' = [outcome EXCEPT ![d] = answer]
    /\ todo' = [todo EXCEPT ![p] = @ \ {d}]
    /\ current' = [current EXCEPT ![p] = d]
    /\ UNCHANGED <<rows, attempts, policy, up, ask, batch, candidates, retries, crashes>>

\* The client goes away while a batch is being executed.
CancelBatch(h) ==
    /\ batch[h] = "bulk" /\ (todo[h] # {} \/ current[h] # None)
    /\ batch' = [batch EXCEPT ![h] = "canceled"]
    /\ UNCHANGED <<rows, attempts, policy, up, ask, todo, current, candidates,
                   retries, crashes, history>>

\* completeWithoutExternal: the remaining items are given back.
SkipItem(h, d) ==
    /\ batch[h] = "canceled" /\ current[h] = None /\ d \in todo[h]
    /\ outcome' = [outcome EXCEPT ![d] = "canceled"]
    /\ todo' = [todo EXCEPT ![h] = @ \ {d}]
    /\ current' = [current EXCEPT ![h] = d]
    /\ UNCHANGED <<rows, attempts, policy, up, ask, batch, candidates, retries,
                   crashes, sent>>

\* execute, second half.  When the transaction commits but its answer is lost,
\* the completion is repeated in the background.
CompleteDecision(p) ==
    /\ current[p] # None
    /\ CompletionApplies(current[p])
    /\ StoreCompletion(current[p])
    /\ retries' \in {retries, retries \cup {current[p]}}
    /\ current' = [current EXCEPT ![p] = None]
    /\ UNCHANGED <<policy, up, ask, batch, todo, candidates, crashes, history>>

\* The transaction fails or finds that the attempt is no longer its own:
\* either way the completion is repeated in the background.
FailCompletion(p) ==
    /\ current[p] # None
    /\ retries' = retries \cup {current[p]}
    /\ current' = [current EXCEPT ![p] = None]
    /\ UNCHANGED <<rows, attempts, policy, up, ask, batch, todo, candidates,
                   crashes, history>>

\* A handler answers its client.
Return(h) ==
    /\ batch[h] # "none" /\ ask[h] = None /\ todo[h] = {} /\ current[h] = None
    /\ batch' = [batch EXCEPT ![h] = "none"]
    /\ UNCHANGED <<rows, attempts, policy, up, ask, todo, current, candidates,
                   retries, crashes, history>>

\* One turn of the loop of scheduleCompletionRetry that changes something: it
\* ends when the completion is stored or proves to be stored; on any error,
\* a conflict included, the loop goes on.
RetryCompletion(d) ==
    /\ d \in retries
    /\ \/ /\ CompletionApplies(d)
          /\ StoreCompletion(d)
          /\ retries' \in {retries, retries \ {d}}
       \/ /\ AlreadyCompleted(d)
          /\ retries' = retries \ {d}
          /\ UNCHANGED <<rows, attempts>>
    /\ UNCHANGED <<policy, up, ask, batch, todo, current, candidates, crashes, history>>

-----------------------------------------------------------------------------
(* The automatic approver: a round recovers, lists, then decides in turn.   *)

LeaseLapses(r) ==
    /\ lease[r] = "running"
    /\ lease' = [lease EXCEPT ![r] = "lapsed"]
    /\ UNCHANGED <<decision, observed, source, revision, lastDecision, parsed, fresh,
                   attempts, policy, up, memory, crashes, history>>

\* Mutant: a lease that ran out gives the request back as pending.
RecoverAsPending(found) ==
    /\ \A r \in found : /\ decision[r] = "processing" /\ lease[r] = "lapsed"
                          /\ attempts[lastDecision[r]].status = "started"
    /\ attempts' = [d \in Decisions |->
          IF \E r \in found : lastDecision[r] = d
          THEN [attempts[d] EXCEPT !.status = "unknown", !.error = "lease_expired"]
          ELSE attempts[d]]
    /\ decision' = [r \in Requests |-> IF r \in found THEN "pending" ELSE decision[r]]
    /\ revision' = [r \in Requests |-> IF r \in found THEN revision[r] + 1 ELSE revision[r]]
    /\ lease' = [r \in Requests |-> IF r \in found THEN "none" ELSE lease[r]]
    /\ UNCHANGED <<observed, source, lastDecision, parsed, fresh, policy>>

\* RecoverExpiredDecisions over the requests found, which a lock held
\* elsewhere may hide for this round.
Recover(found) ==
    /\ \A r \in found : /\ decision[r] = "processing" /\ lease[r] = "lapsed"
                          /\ attempts[lastDecision[r]].status = "started"
    /\ attempts' = [d \in Decisions |->
          IF \E r \in found : lastDecision[r] = d
          THEN [attempts[d] EXCEPT !.status = "unknown", !.error = "lease_expired"]
          ELSE attempts[d]]
    /\ decision' = [r \in Requests |-> IF r \in found THEN "unknown" ELSE decision[r]]
    /\ revision' = [r \in Requests |-> IF r \in found THEN revision[r] + 1 ELSE revision[r]]
    /\ lease' = [r \in Requests |-> IF r \in found THEN "none" ELSE lease[r]]
    /\ UNCHANGED <<observed, source, lastDecision, parsed, fresh, policy>>

WorkerFree == ask[Worker] = None /\ todo[Worker] = {} /\ current[Worker] = None

\* Mutant: the worker recovers only the attempts of automatic decisions.
RecoverOwnOnly(found) ==
    /\ up /\ WorkerFree /\ candidates = {} /\ found # {}
    /\ \A r \in found : source[r] = "automatic"
    /\ Recover(found)
    /\ UNCHANGED <<up, memory, crashes, history>>

\* A round starts by recovering; it then lists candidates, unless the gateway
\* is unavailable.
RecoverInterrupted(found) ==
    /\ up /\ WorkerFree /\ candidates = {} /\ found # {}
    /\ Recover(found)
    /\ UNCHANGED <<up, memory, crashes, history>>

AutoCandidate(r) ==
    LET g == GroupOf[r]
    IN  /\ observed[r] = "pending" /\ decision[r] = "pending" /\ parsed[r] /\ fresh[r]
        /\ policy[g].enabled \/ policy[g].auto_reject
        /\ ~ \E d \in Decisions : /\ attempts[d].request = r
                                  /\ attempts[d].source = "automatic"
                                  /\ attempts[d].status = "failed"

ListAutoCandidates ==
    /\ up /\ WorkerFree /\ candidates = {}
    /\ candidates' = {[request |-> r, version |-> revision[r], policy |-> policy[GroupOf[r]]] :
                        r \in {s \in Requests : AutoCandidate(s)}}
    /\ UNCHANGED <<rows, attempts, policy, up, ask, batch, todo, current, retries, crashes, history>>

\* Only an action that the policy read with the candidate allows is eligible.
Eligible(c, action) ==
    IF action = "approve" THEN c.policy.enabled ELSE c.policy.auto_reject

\* automaticDecision reviews one candidate; the review is not modelled here.
Review(c, action) ==
    /\ up /\ WorkerFree /\ c \in candidates /\ Eligible(c, action)
    /\ candidates' = candidates \ {c}
    /\ ask' = [ask EXCEPT ![Worker] =
          [items |-> {c.request},
           version |-> [r \in Requests |-> IF r = c.request THEN c.version ELSE 0],
           group |-> GroupOf[c.request], action |-> action,
           key |-> AutoKey(c.request, c.version, action), source |-> "automatic",
           policyRevision |-> c.policy.revision]]
    /\ UNCHANGED <<rows, attempts, policy, up, batch, todo, current, retries, crashes, history>>

\* The review asks for a human, or the reviewer could not be reached.
PassOver(c) ==
    /\ up /\ WorkerFree /\ c \in candidates
    /\ candidates' = candidates \ {c}
    /\ UNCHANGED <<rows, attempts, policy, up, ask, batch, todo, current, retries, crashes, history>>

-----------------------------------------------------------------------------
(* The process.                                                             *)

EmptyMemory ==
    /\ ask' = [p \in Processes |-> None]
    /\ batch' = [h \in Handlers |-> "none"]
    /\ todo' = [p \in Processes |-> {}]
    /\ current' = [p \in Processes |-> None]
    /\ candidates' = {}
    /\ retries' = {}

\* Start-up recovers the leases that ran out while the process was down.
Start(found) ==
    /\ ~up /\ up' = TRUE
    /\ Recover(found)
    /\ UNCHANGED <<memory, crashes, history>>

Crash ==
    /\ up /\ crashes < MaxCrashes
    /\ up' = FALSE
    /\ crashes' = crashes + 1
    /\ EmptyMemory
    /\ UNCHANGED <<rows, attempts, policy, history>>

-----------------------------------------------------------------------------
\* The table may hold requests recorded before decisions were introduced.
Init ==
    /\ decision \in [Requests -> {"absent", "pending"}]
    /\ observed = [r \in Requests |-> "pending"]
    /\ source = [r \in Requests |-> "none"]
    /\ revision = [r \in Requests |-> 1]
    /\ lastDecision = [r \in Requests |-> None]
    /\ lease = [r \in Requests |-> "none"]
    /\ parsed = [r \in Requests |-> FALSE]
    /\ fresh = [r \in Requests |-> FALSE]
    /\ attempts = [d \in Decisions |-> NoAttempt]
    /\ policy = [g \in Groups |-> [enabled |-> FALSE, auto_reject |-> FALSE, revision |-> 1]]
    /\ up = FALSE
    /\ ask = [p \in Processes |-> None]
    /\ batch = [h \in Handlers |-> "none"]
    /\ todo = [p \in Processes |-> {}]
    /\ current = [p \in Processes |-> None]
    /\ candidates = {}
    /\ retries = {}
    /\ crashes = 0
    /\ sent = [d \in Decisions |-> 0]
    /\ outcome = [d \in Decisions |-> "none"]

Execute(p) ==
    \/ BeginDecisions(p) \/ ReplayDecisions(p) \/ RefuseDecisions(p)
    \/ \E d \in Decisions, answer \in Answers : CallGateway(p, d, answer)
    \/ CompleteDecision(p) \/ FailCompletion(p)

Next ==
    \/ \E r \in Requests, processed \in BOOLEAN : Record(r, processed)
    \/ \E r \in Requests : ParseApplicant(r) \/ ObserveProcessed(r) \/ LeaseLapses(r)
    \/ \E g \in Groups, enabled, autoReject \in BOOLEAN : UpdatePolicy(g, enabled, autoReject)
    \/ \E h \in Handlers, items \in SUBSET Requests, kind \in {"single", "bulk"},
          action \in Actions, key \in Keys : Submit(h, items, kind, action, key)
    \/ \E p \in Processes : Execute(p)
    \/ \E h \in Handlers : \/ CancelBatch(h) \/ Return(h)
                           \/ \E d \in Decisions : SkipItem(h, d)
    \/ \E d \in Decisions : RetryCompletion(d)
    \/ \E found \in SUBSET Requests : RecoverInterrupted(found) \/ Start(found)
    \/ ListAutoCandidates
    \/ \E c \in candidates : PassOver(c) \/ (\E action \in Actions : Review(c, action))
    \/ Crash

Spec == Init /\ [][Next]_vars

\* What the runtime owes: a process that is down is restarted, a lease runs
\* out, every call and transaction has a timeout and so ends, the worker's
\* ticker fires, and a database that is asked again and again answers.
Fairness ==
    /\ WF_vars(\E found \in SUBSET Requests : Start(found))
    /\ \A r \in Requests :
        /\ WF_vars(LeaseLapses(r))
        /\ SF_vars(\E found \in SUBSET Requests : (r \in found) /\ RecoverInterrupted(found))
    /\ WF_vars(\E c \in candidates : PassOver(c) \/ \E action \in Actions : Review(c, action))
    /\ \A p \in Processes : WF_vars(Execute(p))

FairSpec == Spec /\ Fairness

-----------------------------------------------------------------------------
(* What must never happen.                                                  *)

TypeOK ==
    /\ decision \in [Requests -> DecisionStatuses]
    /\ observed \in [Requests -> {"pending", "checked"}]
    /\ source \in [Requests -> {"none", "manual", "automatic", "external"}]
    /\ revision \in [Requests -> Nat]
    /\ lastDecision \in [Requests -> Decisions \cup {None}]
    /\ lease \in [Requests -> {"none", "running", "lapsed"}]
    /\ parsed \in [Requests -> BOOLEAN] /\ fresh \in [Requests -> BOOLEAN]
    /\ attempts \in [Decisions -> Attempt]
    /\ policy \in [Groups -> Policy]
    /\ up \in BOOLEAN
    /\ ask \in [Processes -> {None} \cup BeginMutation]
    /\ batch \in [Handlers -> {"none", "single", "bulk", "canceled"}]
    /\ todo \in [Processes -> SUBSET Decisions]
    /\ current \in [Processes -> Decisions \cup {None}]
    /\ candidates \subseteq [request: Requests, version: Nat, policy: Policy]
    /\ retries \subseteq Decisions
    /\ crashes \in Nat
    /\ sent \in [Decisions -> Nat]
    /\ outcome \in [Decisions -> Outcomes]

\* The two tables agree: a request is being processed exactly while the
\* attempt it names is started, and only then holds a lease, so that at most
\* one attempt on a request is ever open.
TablesAgree ==
    /\ \A d \in Decisions : attempts[d].status = "started" =>
          LET r == attempts[d].request
          IN  decision[r] = "processing" /\ lastDecision[r] = d
    /\ \A r \in Requests :
          /\ decision[r] = "processing" =>
                /\ lastDecision[r] # None
                /\ attempts[lastDecision[r]].request = r
                /\ attempts[lastDecision[r]].status = "started"
          /\ lease[r] # "none" <=> decision[r] = "processing"

\* No attempt reaches the gateway twice: not by a repeated idempotency key,
\* a background retry, a recovery or a restart.
SentAtMostOnce == \A d \in Decisions : sent[d] <= 1

\* An answer that may mean that QQ has approved or rejected the applicant.
MayHaveTakenEffect(d) == outcome[d] \in {"confirmed", "unknown"}

\* A request is open for a decision only while no earlier call for it can
\* have taken effect ("must never restore pending because the external call
\* may already have run").
OpenMeansUntouched ==
    \A d \in Decisions : attempts[d].status # "unused" =>
        (decision[attempts[d].request] = "pending" => ~MayHaveTakenEffect(d))

\* So the applicant is decided at most once through the bot, whatever
\* crashes, retries, expired leases and competing clients do.
SingleEffect ==
    \A d, e \in Decisions :
        (/\ attempts[d].status # "unused" /\ attempts[e].status # "unused"
         /\ attempts[d].request = attempts[e].request
         /\ MayHaveTakenEffect(d) /\ MayHaveTakenEffect(e)) => d = e

\* The table says approved or rejected only when the gateway confirmed
\* just that for the request's last attempt.
DecidedMeansConfirmed ==
    \A r \in Requests : decision[r] \in {"approved", "rejected"} =>
        LET d == lastDecision[r]
        IN  /\ d # None /\ attempts[d].request = r /\ outcome[d] = "confirmed"
            /\ attempts[d].action = (IF decision[r] = "approved" THEN "approve" ELSE "reject")

\* What the table says of a request is what was done about it: it is open only if
\* nothing was done, decided only if just that was confirmed, and nothing is done
\* twice: CompleteDecision, RecoverInterrupted.
EffectsTellTruth == OpenMeansUntouched /\ SingleEffect /\ DecidedMeansConfirmed

-----------------------------------------------------------------------------
(* What a step may never do.                                                *)

\* The worker starts an attempt only when, in the same transaction, the
\* policy still allows the action and the request is not older than it, even
\* if the policy was changed since the candidate was listed.
AutomaticHonoursPolicy ==
    [][\A d \in Decisions :
         (/\ attempts[d].status = "unused" /\ attempts'[d].status # "unused"
          /\ attempts'[d].source = "automatic") =>
            LET r == attempts'[d].request
                g == policy[GroupOf[r]]
            IN  /\ fresh[r] /\ parsed[r]
                /\ IF attempts'[d].action = "approve" THEN g.enabled ELSE g.auto_reject]_vars

-----------------------------------------------------------------------------
(* What must happen.                                                        *)

\* No request stays reserved: it is completed, or its lease is recovered.
ProcessingEnds ==
    \A r \in Requests : decision[r] = "processing" ~> decision[r] # "processing"

-----------------------------------------------------------------------------
(* The promise this protocol keeps.                                         *)

AttemptsOn(r) == {d \in Decisions : attempts[d].status # "unused" /\ attempts[d].request = r}

EffectOn(r) ==
    IF \E d \in AttemptsOn(r) : outcome[d] = "confirmed"
    THEN attempts[CHOOSE d \in AttemptsOn(r) : outcome[d] = "confirmed"].action
    ELSE IF \E d \in AttemptsOn(r) : outcome[d] = "unknown" THEN "maybe" ELSE "none"

Lifecycle == INSTANCE JoinDecision WITH
    status <- decision,
    claim <- [r \in Requests |-> \E d \in AttemptsOn(r) : outcome[d] = "none"],
    effect <- [r \in Requests |-> EffectOn(r)]

\* The attempts, leases, keys and processes of this module implement the
\* life of a request as JoinDecision promises it.
ImplementsJoinDecision == Lifecycle!Spec
=============================================================================
