------------------------- MODULE JoinRequestsProofs -------------------------
(***************************************************************************)
(* Proofs about JoinRequests for any sets of requests, clients, keys and   *)
(* attempts, and any number of policy updates and crashes: nothing is sent *)
(* twice, what the tables say of a decision is what was done, the          *)
(* automatic approver keeps to the policy of the moment it reserves, and   *)
(* JoinRequests implements JoinDecision: each step of a process is a step  *)
(* of the promise or a stutter.                                            *)
(***************************************************************************)
EXTENDS JoinRequests, TLAPS

-----------------------------------------------------------------------------
(* Type correctness.                                                        *)

LEMMA InitType == Init => TypeOK
  <1> SUFFICES ASSUME Init PROVE TypeOK
    OBVIOUS
  <1>1. NoAttempt \in Attempt
    BY DEF NoAttempt, Attempt, AttemptStatuses, Outcomes, Answers
  <1>2. attempts \in [Decisions -> Attempt]
    BY <1>1 DEF Init
  <1> QED
    BY <1>2 DEF Init, TypeOK, DecisionStatuses, Policy, Outcomes, Processes

\* A completion writes a status of the table, and ends the attempt.
LEMMA CompletionType ==
  ASSUME TypeOK, NEW d \in Decisions
  PROVE  /\ AttemptStatus(d) \in {"confirmed", "failed", "unknown"}
         /\ DecisionStatus(d) \in {"approved", "rejected", "unknown", "pending"}
  BY DEF AttemptStatus, DecisionStatus

LEMMA StoreCompletionType ==
  ASSUME TypeOK, NEW d \in Decisions, CompletionApplies(d), StoreCompletion(d)
  PROVE  /\ decision' \in [Requests -> DecisionStatuses]
         /\ revision' \in [Requests -> Nat]
         /\ lease' \in [Requests -> {"none", "running", "lapsed"}]
         /\ attempts' \in [Decisions -> Attempt]
         /\ UNCHANGED <<observed, source, lastDecision, parsed, fresh>>
  <1>1. /\ AttemptStatus(d) \in AttemptStatuses
        /\ DecisionStatus(d) \in DecisionStatuses
    BY CompletionType DEF AttemptStatuses, DecisionStatuses
  <1>2. attempts' \in [Decisions -> Attempt]
    <2>1. attempts[d] \in Attempt /\ outcome[d] \in Outcomes
      BY DEF TypeOK
    <2>2. attempts' = [attempts EXCEPT ![d] =
                         [attempts[d] EXCEPT !.status = AttemptStatus(d), !.error = outcome[d]]]
      BY DEF TypeOK, StoreCompletion
    <2>3. [attempts[d] EXCEPT !.status = AttemptStatus(d), !.error = outcome[d]] \in Attempt
      BY <1>1, <2>1 DEF Attempt
    <2> QED
      BY <2>2, <2>3 DEF TypeOK
  <1>3. /\ decision' \in [Requests -> DecisionStatuses]
        /\ lease' \in [Requests -> {"none", "running", "lapsed"}]
    BY <1>1 DEF TypeOK, StoreCompletion
  <1>4. revision' \in [Requests -> Nat]
    <2>1. \A x \in Requests : revision[x] \in Nat /\ revision[x] + 1 \in Nat
      BY DEF TypeOK
    <2>2. /\ revision' = [x \in Requests |-> revision'[x]]
          /\ \A x \in Requests : revision'[x] \in {revision[x], revision[x] + 1}
      BY DEF TypeOK, StoreCompletion
    <2> QED
      BY <2>1, <2>2
  <1> QED
    BY <1>2, <1>3, <1>4 DEF StoreCompletion

LEMMA RecoverType ==
  ASSUME TypeOK, NEW found \in SUBSET Requests, Recover(found)
  PROVE  /\ decision' \in [Requests -> DecisionStatuses]
         /\ revision' \in [Requests -> Nat]
         /\ lease' \in [Requests -> {"none", "running", "lapsed"}]
         /\ attempts' \in [Decisions -> Attempt]
         /\ UNCHANGED <<observed, source, lastDecision, parsed, fresh, policy>>
  <1>1. attempts' \in [Decisions -> Attempt]
    <2> SUFFICES ASSUME NEW d \in Decisions PROVE attempts'[d] \in Attempt
      BY DEF Recover
    <2>1. attempts[d] \in Attempt
      BY DEF TypeOK
    <2>2. [attempts[d] EXCEPT !.status = "unknown", !.error = "lease_expired"] \in Attempt
      BY <2>1 DEF Attempt, AttemptStatuses
    <2> QED
      BY <2>1, <2>2 DEF Recover
  <1>2. /\ decision' \in [Requests -> DecisionStatuses]
        /\ lease' \in [Requests -> {"none", "running", "lapsed"}]
    BY DEF TypeOK, Recover, DecisionStatuses
  <1>3. revision' \in [Requests -> Nat]
    <2>1. \A x \in Requests : revision[x] \in Nat /\ revision[x] + 1 \in Nat
      BY DEF TypeOK
    <2>2. /\ revision' = [x \in Requests |-> revision'[x]]
          /\ \A x \in Requests : revision'[x] \in {revision[x], revision[x] + 1}
      BY DEF TypeOK, Recover
    <2> QED
      BY <2>1, <2>2
  <1> QED
    BY <1>1, <1>2, <1>3 DEF Recover

\* What a reservation writes, for the ids that were drawn.
LEMMA BeginType ==
  ASSUME ConstantsAssumption, TypeOK, NEW p \in Processes, BeginDecisions(p)
  PROVE  /\ decision' \in [Requests -> DecisionStatuses]
         /\ source' \in [Requests -> {"none", "manual", "automatic", "external"}]
         /\ revision' \in [Requests -> Nat]
         /\ lease' \in [Requests -> {"none", "running", "lapsed"}]
         /\ lastDecision' \in [Requests -> Decisions \cup {None}]
         /\ attempts' \in [Decisions -> Attempt]
         /\ ask' \in [Processes -> {None} \cup BeginMutation]
         /\ todo' \in [Processes -> SUBSET Decisions]
  <1> DEFINE m == ask[p]
  <1>1. m \in BeginMutation /\ m.items \in SUBSET Requests
    BY DEF TypeOK, BeginDecisions, BeginMutation
  <1>2. PICK id \in FreshIds(m.items) :
          /\ attempts' = [d \in Decisions |->
               IF \E r \in m.items : id[r] = d
               THEN [request |-> CHOOSE r \in m.items : id[r] = d, key |-> m.key,
                     action |-> m.action, source |-> m.source,
                     status |-> "started", error |-> "none"]
               ELSE attempts[d]]
          /\ lastDecision' = [r \in Requests |-> IF r \in m.items THEN id[r] ELSE lastDecision[r]]
          /\ \E told \in {{id[r] : r \in m.items}, {}} : todo' = [todo EXCEPT ![p] = told]
    BY DEF BeginDecisions
  <1>3. \A r \in m.items : id[r] \in Decisions
    BY <1>2 DEF FreshIds
  <1>4. attempts' \in [Decisions -> Attempt]
    <2> SUFFICES ASSUME NEW d \in Decisions PROVE attempts'[d] \in Attempt
      BY <1>2
    <2>1. CASE \E r \in m.items : id[r] = d
      <3>1. (CHOOSE r \in m.items : id[r] = d) \in Requests
        BY <1>1, <2>1
      <3> QED
        BY <1>1, <1>2, <2>1, <3>1 DEF BeginMutation, Attempt, AttemptStatuses, Outcomes
    <2>2. CASE ~ \E r \in m.items : id[r] = d
      BY <1>2, <2>2 DEF TypeOK
    <2> QED
      BY <2>1, <2>2
  <1>5. source' \in [Requests -> {"none", "manual", "automatic", "external"}]
    BY <1>1 DEF TypeOK, BeginDecisions, BeginMutation
  <1>6. /\ lastDecision' \in [Requests -> Decisions \cup {None}]
        /\ todo' \in [Processes -> SUBSET Decisions]
    BY <1>2, <1>3 DEF TypeOK
  <1> QED
    BY <1>4, <1>5, <1>6 DEF TypeOK, BeginDecisions, DecisionStatuses

LEMMA NextType ==
  ASSUME ConstantsAssumption, TypeOK, [Next]_vars
  PROVE  TypeOK'
  <1> USE DEF rows, memory, history
  <1>1. ASSUME NEW r \in Requests, NEW processed \in BOOLEAN, Record(r, processed) PROVE TypeOK'
    BY <1>1 DEF TypeOK, Record, DecisionStatuses
  <1>2. ASSUME NEW r \in Requests, ParseApplicant(r) PROVE TypeOK'
    BY <1>2 DEF TypeOK, ParseApplicant
  <1>3. ASSUME NEW r \in Requests, ObserveProcessed(r) PROVE TypeOK'
    BY <1>3 DEF TypeOK, ObserveProcessed, MergeObservedDecisionStatus, DecisionStatuses
  <1>4. ASSUME NEW r \in Requests, LeaseLapses(r) PROVE TypeOK'
    BY <1>4 DEF TypeOK, LeaseLapses
  <1>5. ASSUME NEW g \in Groups, NEW enabled \in BOOLEAN, NEW autoReject \in BOOLEAN,
               UpdatePolicy(g, enabled, autoReject) PROVE TypeOK'
    <2>1. policy' \in [Groups -> Policy]
      BY <1>5 DEF TypeOK, UpdatePolicy, Policy
    <2>2. fresh' \in [Requests -> BOOLEAN]
      BY <1>5, Zenon DEF UpdatePolicy
    <2> QED
      BY <1>5, <2>1, <2>2 DEF TypeOK, UpdatePolicy
  <1>6. ASSUME NEW h \in Handlers, NEW items \in SUBSET Requests, NEW kind \in {"single", "bulk"},
               NEW action \in Actions, NEW key \in Keys, Submit(h, items, kind, action, key)
        PROVE TypeOK'
    <2>1. PICK group \in Groups \cup {None} :
            ask' = [ask EXCEPT ![h] =
             [items |-> items, version |-> [r \in Requests |-> IF r \in items THEN revision[r] ELSE 0],
              group |-> group, action |-> action, key |-> key, source |-> "manual",
              policyRevision |-> None]]
      BY <1>6 DEF Submit
    <2>2. ask' \in [Processes -> {None} \cup BeginMutation]
      BY <2>1 DEF TypeOK, BeginMutation, KeySpace
    <2> QED
      BY <1>6, <2>2 DEF TypeOK, Submit
  <1>7. ASSUME NEW p \in Processes, BeginDecisions(p) PROVE TypeOK'
    BY <1>7, BeginType DEF TypeOK, BeginDecisions
  <1>8. ASSUME NEW p \in Processes, ReplayDecisions(p) \/ RefuseDecisions(p) PROVE TypeOK'
    BY <1>8 DEF TypeOK, ReplayDecisions, RefuseDecisions
  <1>9. ASSUME NEW p \in Processes, NEW d \in Decisions, NEW answer \in Answers,
               CallGateway(p, d, answer) PROVE TypeOK'
    BY <1>9 DEF TypeOK, CallGateway, Outcomes
  <1>10. ASSUME NEW p \in Processes, CompleteDecision(p) PROVE TypeOK'
    <2>1. current[p] \in Decisions
      BY <1>10 DEF TypeOK, CompleteDecision
    <2> QED
      BY <1>10, <2>1, StoreCompletionType DEF TypeOK, CompleteDecision
  <1>11. ASSUME NEW p \in Processes, FailCompletion(p) PROVE TypeOK'
    BY <1>11 DEF TypeOK, FailCompletion
  <1>12. ASSUME NEW h \in Handlers, CancelBatch(h) \/ Return(h) PROVE TypeOK'
    BY <1>12 DEF TypeOK, CancelBatch, Return
  <1>13. ASSUME NEW h \in Handlers, NEW d \in Decisions, SkipItem(h, d) PROVE TypeOK'
    BY <1>13 DEF TypeOK, SkipItem, Outcomes, Processes
  <1>14. ASSUME NEW d \in Decisions, RetryCompletion(d) PROVE TypeOK'
    <2>1. CASE CompletionApplies(d) /\ StoreCompletion(d)
      BY <1>14, <2>1, StoreCompletionType DEF TypeOK, RetryCompletion
    <2>2. CASE AlreadyCompleted(d) /\ UNCHANGED <<rows, attempts>>
      BY <1>14, <2>2 DEF TypeOK, RetryCompletion
    <2> QED
      BY <1>14, <2>1, <2>2 DEF RetryCompletion
  <1>15. ASSUME NEW found \in SUBSET Requests, RecoverInterrupted(found) \/ Start(found) PROVE TypeOK'
    <2>1. Recover(found)
      BY <1>15 DEF RecoverInterrupted, Start
    <2> QED
      BY <1>15, <2>1, RecoverType DEF TypeOK, RecoverInterrupted, Start
  <1>16. CASE ListAutoCandidates
    <2>1. candidates' \subseteq [request: Requests, version: Nat, policy: Policy]
      BY <1>16 DEF TypeOK, ListAutoCandidates, ConstantsAssumption
    <2> QED
      BY <1>16, <2>1 DEF TypeOK, ListAutoCandidates
  <1>17. ASSUME NEW c \in candidates, PassOver(c) PROVE TypeOK'
    BY <1>17 DEF TypeOK, PassOver
  <1>18. ASSUME NEW c \in candidates, NEW action \in Actions, Review(c, action) PROVE TypeOK'
    <2>1. /\ c.request \in Requests /\ c.version \in Nat /\ c.policy.revision \in Nat
          /\ GroupOf[c.request] \in Groups
      BY DEF TypeOK, ConstantsAssumption, Policy
    <2>2. AutoKey(c.request, c.version, action) \in KeySpace
      BY <2>1 DEF AutoKey, KeySpace
    <2>3. ask' \in [Processes -> {None} \cup BeginMutation]
      BY <1>18, <2>1, <2>2 DEF TypeOK, Review, BeginMutation
    <2> QED
      BY <1>18, <2>3 DEF TypeOK, Review
  <1>19. CASE Crash
    <2>1. crashes' \in Nat
      BY <1>19 DEF TypeOK, Crash
    <2> QED
      BY <1>19, <2>1 DEF TypeOK, Crash, EmptyMemory
  <1>20. CASE UNCHANGED vars
    BY <1>20 DEF TypeOK, vars
  <1> QED
    BY <1>1, <1>2, <1>3, <1>4, <1>5, <1>6, <1>7, <1>8, <1>9, <1>10, <1>11, <1>12, <1>13,
       <1>14, <1>15, <1>16, <1>17, <1>18, <1>19, <1>20 DEF Next, Execute

\* The tables and the memory of every process keep their types.
THEOREM TypeCorrect == Spec => []TypeOK
  <1>1. ConstantsAssumption
    BY ConstantsAssumption
  <1> QED
    BY InitType, NextType, <1>1, PTL DEF Spec

-----------------------------------------------------------------------------
(* The inductive invariant.  An attempt is settled when its answer proves   *)
(* that nothing was done.  The heart of the argument is that a request has  *)
(* at most one attempt that is not settled, and none while it is pending:   *)
(* a completion gives a request back only when its attempt is settled, and  *)
(* only an attempt not yet sent can still change its answer.                *)

Used(d) == attempts[d].status # "unused"
Settled(d) == outcome[d] \in {"failed", "unavailable", "canceled"}

\* What the processes hold in memory, and what was sent so far.
Ownership ==
    /\ \A p \in Processes : \A d \in todo[p] :
          /\ Used(d) /\ outcome[d] = "none"
          /\ \A q \in Processes : d \in todo[q] => p = q
    /\ \A p \in Processes : current[p] # None =>
          Used(current[p]) /\ outcome[current[p]] # "none"
    /\ \A d \in retries : Used(d) /\ outcome[d] # "none"
    /\ \A d \in Decisions :
          /\ Used(d) => attempts[d].request \in Requests
          /\ ~Used(d) => outcome[d] = "none"
          /\ sent[d] <= 1
          /\ outcome[d] = "none" => sent[d] = 0

AtMostOneUnsettled ==
    \A d, e \in Decisions :
        (/\ Used(d) /\ Used(e) /\ attempts[d].request = attempts[e].request
         /\ ~Settled(d) /\ ~Settled(e)) => d = e

OpenIsSettled ==
    \A d \in Decisions : Used(d) =>
        LET r == attempts[d].request
        IN  /\ decision[r] # "absent"
            /\ decision[r] = "pending" => Settled(d)
            /\ (decision[r] = "processing" /\ lastDecision[r] # d) => Settled(d)

Inv == TypeOK /\ TablesAgree /\ Ownership /\ AtMostOneUnsettled /\ OpenIsSettled

Tables == TablesAgree /\ AtMostOneUnsettled /\ OpenIsSettled

LEMMA InitInv == Init => Inv
  <1> SUFFICES ASSUME Init PROVE Inv
    OBVIOUS
  <1>1. TypeOK
    BY InitType
  <1>2. \A d \in Decisions : ~Used(d) /\ attempts[d] = NoAttempt
    BY DEF Init, Used, NoAttempt
  <1>3. TablesAgree
    BY <1>2 DEF Init, TablesAgree, NoAttempt
  <1>4. Ownership
    BY <1>2 DEF Init, Ownership
  <1>5. AtMostOneUnsettled /\ OpenIsSettled
    BY <1>2 DEF AtMostOneUnsettled, OpenIsSettled
  <1> QED
    BY <1>1, <1>3, <1>4, <1>5 DEF Inv

\* Storing the completion of an attempt that was answered.
LEMMA StoreTables ==
  ASSUME Inv, NEW d \in Decisions, Used(d), outcome[d] # "none",
         CompletionApplies(d), StoreCompletion(d), UNCHANGED outcome
  PROVE  /\ Tables'
         /\ \A e \in Decisions : (Used(e)' <=> Used(e)) /\ attempts'[e].request = attempts[e].request
  <1> DEFINE r == attempts[d].request
  <1>1. /\ r \in Requests /\ decision[r] = "processing" /\ lastDecision[r] = d
        /\ attempts[d].status = "started"
    BY DEF Inv, Ownership, CompletionApplies
  <1>2. /\ AttemptStatus(d) \in {"confirmed", "failed", "unknown"}
        /\ DecisionStatus(d) \in {"approved", "rejected", "unknown", "pending"}
        /\ DecisionStatus(d) = "pending" => Settled(d)
    <2>1. outcome[d] \in Outcomes
      BY DEF Inv, TypeOK
    <2> QED
      BY <2>1 DEF AttemptStatus, DecisionStatus, Settled, Outcomes, Answers
  <1>3. /\ attempts'[d].status = AttemptStatus(d) /\ attempts'[d].request = r
        /\ \A e \in Decisions : e # d => attempts'[e] = attempts[e]
        /\ decision'[r] = DecisionStatus(d) /\ lease'[r] = "none"
        /\ \A x \in Requests : x # r => decision'[x] = decision[x] /\ lease'[x] = lease[x]
        /\ lastDecision' = lastDecision
    BY <1>1 DEF StoreCompletion, Inv, TypeOK, Attempt
  <1>4. \A e \in Decisions : (Used(e)' <=> Used(e)) /\ attempts'[e].request = attempts[e].request
    BY <1>1, <1>2, <1>3 DEF Used
  <1>5. \A e \in Decisions : Settled(e)' <=> Settled(e)
    BY DEF Settled
  <1>6. TablesAgree'
    <2>1. ASSUME NEW e \in Decisions, attempts'[e].status = "started"
          PROVE  /\ decision'[attempts'[e].request] = "processing"
                 /\ lastDecision'[attempts'[e].request] = e
      <3>1. e # d /\ attempts'[e] = attempts[e]
        BY <1>2, <1>3, <2>1
      <3>2. /\ decision[attempts[e].request] = "processing"
            /\ lastDecision[attempts[e].request] = e /\ attempts[e].request \in Requests
        BY <2>1, <3>1 DEF Inv, TablesAgree, Ownership, Used
      <3>3. attempts[e].request # r
        BY <1>1, <3>1, <3>2
      <3> QED
        BY <1>3, <3>1, <3>2, <3>3
    <2>2. ASSUME NEW x \in Requests
          PROVE  /\ decision'[x] = "processing" =>
                      /\ lastDecision'[x] # None
                      /\ attempts'[lastDecision'[x]].request = x
                      /\ attempts'[lastDecision'[x]].status = "started"
                 /\ lease'[x] # "none" <=> decision'[x] = "processing"
      <3>1. CASE x = r
        BY <1>2, <1>3, <3>1
      <3>2. CASE x # r
        <4>1. /\ decision[x] = "processing" =>
                   /\ lastDecision[x] \in Decisions
                   /\ lastDecision[x] # None
                   /\ attempts[lastDecision[x]].request = x
                   /\ attempts[lastDecision[x]].status = "started"
              /\ lease[x] # "none" <=> decision[x] = "processing"
          BY DEF Inv, TablesAgree, TypeOK
        <4> QED
          BY <1>3, <3>2, <4>1
      <3> QED
        BY <3>1, <3>2
    <2> QED
      BY <2>1, <2>2 DEF TablesAgree
  <1>7. AtMostOneUnsettled'
    BY <1>4, <1>5 DEF Inv, AtMostOneUnsettled
  <1>8. OpenIsSettled'
    <2> SUFFICES ASSUME NEW e \in Decisions, Used(e)
                 PROVE  /\ decision'[attempts[e].request] # "absent"
                        /\ decision'[attempts[e].request] = "pending" => Settled(e)
                        /\ (decision'[attempts[e].request] = "processing"
                              /\ lastDecision[attempts[e].request] # e) => Settled(e)
      BY <1>3, <1>4, <1>5 DEF OpenIsSettled
    <2>1. attempts[e].request \in Requests
      BY DEF Inv, Ownership
    <2>2. CASE attempts[e].request # r
      BY <1>3, <2>1, <2>2 DEF Inv, OpenIsSettled
    <2>3. CASE attempts[e].request = r
      <3>1. e # d => Settled(e)
        BY <1>1, <2>3 DEF Inv, OpenIsSettled
      <3> QED
        BY <1>1, <1>2, <1>3, <2>3, <3>1
    <2> QED
      BY <2>2, <2>3
  <1> QED
    BY <1>4, <1>6, <1>7, <1>8 DEF Tables

\* Recovering leases.
LEMMA RecoverTables ==
  ASSUME Inv, NEW found \in SUBSET Requests, Recover(found), UNCHANGED outcome
  PROVE  /\ Tables'
         /\ \A e \in Decisions : (Used(e)' <=> Used(e)) /\ attempts'[e].request = attempts[e].request
  <1>1. \A r \in found : /\ decision[r] = "processing" /\ lastDecision[r] \in Decisions
                         /\ attempts[lastDecision[r]].request = r
    <2>1. ASSUME NEW r \in found PROVE r \in Requests /\ decision[r] = "processing"
      BY DEF Recover
    <2>2. \A r \in Requests : lastDecision[r] \in Decisions \cup {None}
      BY DEF Inv, TypeOK
    <2> QED
      BY <2>1, <2>2 DEF Inv, TablesAgree
  <1>2. \A e \in Decisions :
          /\ attempts'[e].request = attempts[e].request
          /\ IF attempts[e].request \in found /\ lastDecision[attempts[e].request] = e
             THEN attempts'[e].status = "unknown"
             ELSE attempts'[e] = attempts[e]
    <2> SUFFICES ASSUME NEW e \in Decisions
                 PROVE  /\ attempts'[e].request = attempts[e].request
                        /\ IF attempts[e].request \in found /\ lastDecision[attempts[e].request] = e
                           THEN attempts'[e].status = "unknown"
                           ELSE attempts'[e] = attempts[e]
      OBVIOUS
    <2>1. attempts[e] \in Attempt
      BY DEF Inv, TypeOK
    <2>2. (\E r \in found : lastDecision[r] = e)
             <=> (attempts[e].request \in found /\ lastDecision[attempts[e].request] = e)
      BY <1>1
    <2> QED
      BY <2>1, <2>2 DEF Recover, Attempt
  <1>3. /\ \A r \in Requests : /\ decision'[r] = IF r \in found THEN "unknown" ELSE decision[r]
                               /\ lease'[r] = IF r \in found THEN "none" ELSE lease[r]
        /\ lastDecision' = lastDecision
    BY DEF Recover
  <1>4. \A e \in Decisions : (Used(e)' <=> Used(e)) /\ attempts'[e].request = attempts[e].request
    <2>1. \A e \in Decisions :
            (attempts[e].request \in found /\ lastDecision[attempts[e].request] = e) => Used(e)
      BY DEF Recover, Used
    <2> QED
      BY <1>2, <2>1 DEF Used
  <1>5. \A e \in Decisions : Settled(e)' <=> Settled(e)
    BY DEF Settled
  <1>6. TablesAgree'
    <2>1. ASSUME NEW e \in Decisions, attempts'[e].status = "started"
          PROVE  /\ decision'[attempts'[e].request] = "processing"
                 /\ lastDecision'[attempts'[e].request] = e
      <3>1. attempts'[e] = attempts[e]
        BY <1>2, <2>1
      <3>2. /\ decision[attempts[e].request] = "processing"
            /\ lastDecision[attempts[e].request] = e /\ attempts[e].request \in Requests
        BY <2>1, <3>1 DEF Inv, TablesAgree, Ownership, Used
      <3>3. attempts[e].request \notin found
        BY <1>2, <2>1, <3>2
      <3> QED
        BY <1>3, <3>1, <3>2, <3>3
    <2>2. ASSUME NEW r \in Requests
          PROVE  /\ decision'[r] = "processing" =>
                      /\ lastDecision'[r] # None
                      /\ attempts'[lastDecision'[r]].request = r
                      /\ attempts'[lastDecision'[r]].status = "started"
                 /\ lease'[r] # "none" <=> decision'[r] = "processing"
      <3>1. CASE r \in found
        BY <1>3, <3>1
      <3>2. CASE r \notin found
        <4>1. /\ decision[r] = "processing" =>
                   /\ lastDecision[r] \in Decisions
                   /\ lastDecision[r] # None
                   /\ attempts[lastDecision[r]].request = r
                   /\ attempts[lastDecision[r]].status = "started"
              /\ lease[r] # "none" <=> decision[r] = "processing"
          BY DEF Inv, TablesAgree, TypeOK
        <4> QED
          BY <1>2, <1>3, <3>2, <4>1
      <3> QED
        BY <3>1, <3>2
    <2> QED
      BY <2>1, <2>2 DEF TablesAgree
  <1>7. AtMostOneUnsettled'
    BY <1>4, <1>5 DEF Inv, AtMostOneUnsettled
  <1>8. OpenIsSettled'
    BY <1>3, <1>4, <1>5 DEF Inv, OpenIsSettled, Ownership
  <1> QED
    BY <1>4, <1>6, <1>7, <1>8 DEF Tables

\* Reserving requests: all of them were pending, so all their attempts are
\* settled, and each gets one new attempt.
LEMMA BeginTables ==
  ASSUME ConstantsAssumption, Inv, NEW p \in Processes, BeginDecisions(p)
  PROVE  /\ Tables'
         /\ \A d \in Decisions : /\ Used(d) => Used(d)' /\ attempts'[d] = attempts[d]
                                 /\ Used(d)' => attempts'[d].request \in Requests
         /\ todo' = [todo EXCEPT ![p] = todo'[p]]
         /\ \A d \in todo'[p] : d \in Decisions /\ ~Used(d) /\ Used(d)'
  <1> DEFINE items == ask[p].items
  <1>1. /\ items \in SUBSET Requests
        /\ \A r \in items : decision[r] = "pending"
    BY DEF Inv, TypeOK, BeginDecisions, BeginMutation, Reservable
  <1>2. PICK id \in FreshIds(items) :
          /\ attempts' = [d \in Decisions |->
               IF \E r \in items : id[r] = d
               THEN [request |-> CHOOSE r \in items : id[r] = d, key |-> ask[p].key,
                     action |-> ask[p].action, source |-> ask[p].source,
                     status |-> "started", error |-> "none"]
               ELSE attempts[d]]
          /\ lastDecision' = [r \in Requests |-> IF r \in items THEN id[r] ELSE lastDecision[r]]
          /\ \E told \in {{id[r] : r \in items}, {}} : todo' = [todo EXCEPT ![p] = told]
    BY DEF BeginDecisions
  <1>3. /\ \A r \in items : id[r] \in Decisions /\ ~Used(id[r])
        /\ \A r, x \in items : id[r] = id[x] => r = x
    BY <1>2 DEF FreshIds, Used
  <1>4. /\ \A r \in Requests : /\ decision'[r] = IF r \in items THEN "processing" ELSE decision[r]
                               /\ lease'[r] = IF r \in items THEN "running" ELSE lease[r]
                               /\ lastDecision'[r] = IF r \in items THEN id[r] ELSE lastDecision[r]
        /\ outcome' = outcome
    BY <1>2 DEF BeginDecisions, history
  <1>5. \A r \in items : attempts'[id[r]].request = r /\ attempts'[id[r]].status = "started"
    <2> SUFFICES ASSUME NEW r \in items
                 PROVE attempts'[id[r]].request = r /\ attempts'[id[r]].status = "started"
      OBVIOUS
    <2>1. (CHOOSE x \in items : id[x] = id[r]) = r
      BY <1>3
    <2> QED
      BY <1>2, <1>3, <2>1
  <1>6. \A d \in Decisions : (\A r \in items : id[r] # d) => attempts'[d] = attempts[d]
    BY <1>2
  <1>7. \A d \in Decisions : Used(d) => Used(d)' /\ attempts'[d] = attempts[d]
    BY <1>3, <1>6 DEF Used
  <1>8. \A d \in Decisions : Used(d)' => \/ Used(d)
                                         \/ \E r \in items : id[r] = d
    BY <1>6 DEF Used
  <1>9. \A d \in Decisions : Used(d)' => attempts'[d].request \in Requests
    BY <1>1, <1>5, <1>7, <1>8 DEF Inv, Ownership
  <1>10. \A d \in Decisions : (Used(d) /\ attempts[d].request \in items) => Settled(d)
    BY <1>1 DEF Inv, OpenIsSettled
  <1>11. \A d \in Decisions : Settled(d)' <=> Settled(d)
    BY <1>4 DEF Settled
  <1>12. TablesAgree'
    <2>1. ASSUME NEW d \in Decisions, attempts'[d].status = "started"
          PROVE  /\ decision'[attempts'[d].request] = "processing"
                 /\ lastDecision'[attempts'[d].request] = d
      <3>1. CASE \E r \in items : id[r] = d
        BY <1>1, <1>4, <1>5, <3>1
      <3>2. CASE \A r \in items : id[r] # d
        <4>1. attempts'[d] = attempts[d]
          BY <1>6, <3>2
        <4>2. /\ decision[attempts[d].request] = "processing"
              /\ lastDecision[attempts[d].request] = d /\ attempts[d].request \in Requests
          BY <2>1, <4>1 DEF Inv, TablesAgree, Ownership, Used
        <4> QED
          BY <1>1, <1>4, <4>1, <4>2
      <3> QED
        BY <3>1, <3>2
    <2>2. ASSUME NEW r \in Requests
          PROVE  /\ decision'[r] = "processing" =>
                      /\ lastDecision'[r] # None
                      /\ attempts'[lastDecision'[r]].request = r
                      /\ attempts'[lastDecision'[r]].status = "started"
                 /\ lease'[r] # "none" <=> decision'[r] = "processing"
      <3>1. CASE r \in items
        BY <1>3, <1>4, <1>5, <3>1 DEF ConstantsAssumption
      <3>2. CASE r \notin items
        <4>1. /\ decision[r] = "processing" =>
                   /\ lastDecision[r] \in Decisions
                   /\ lastDecision[r] # None
                   /\ attempts[lastDecision[r]].request = r
                   /\ attempts[lastDecision[r]].status = "started"
              /\ lease[r] # "none" <=> decision[r] = "processing"
          BY DEF Inv, TablesAgree, TypeOK
        <4> QED
          BY <1>4, <1>7, <3>2, <4>1 DEF Used
      <3> QED
        BY <3>1, <3>2
    <2> QED
      BY <2>1, <2>2 DEF TablesAgree
  <1>13. AtMostOneUnsettled'
    <2> SUFFICES ASSUME NEW d \in Decisions, NEW e \in Decisions, Used(d)', Used(e)',
                        attempts'[d].request = attempts'[e].request, ~Settled(d), ~Settled(e)
                 PROVE d = e
      BY <1>11 DEF AtMostOneUnsettled
    <2>1. CASE Used(d) /\ Used(e)
      BY <1>7, <2>1 DEF Inv, AtMostOneUnsettled
    <2>2. CASE ~Used(d) /\ Used(e)
      <3>1. PICK r \in items : id[r] = d
        BY <1>8, <2>2
      <3> QED
        BY <1>5, <1>7, <1>10, <2>2, <3>1
    <2>3. CASE Used(d) /\ ~Used(e)
      <3>1. PICK r \in items : id[r] = e
        BY <1>8, <2>3
      <3> QED
        BY <1>5, <1>7, <1>10, <2>3, <3>1
    <2>4. CASE ~Used(d) /\ ~Used(e)
      <3>1. PICK r \in items : id[r] = d
        BY <1>8, <2>4
      <3>2. PICK x \in items : id[x] = e
        BY <1>8, <2>4
      <3> QED
        BY <1>5, <3>1, <3>2
    <2> QED
      BY <2>1, <2>2, <2>3, <2>4
  <1>14. OpenIsSettled'
    <2> SUFFICES ASSUME NEW d \in Decisions, Used(d)'
                 PROVE  /\ decision'[attempts'[d].request] # "absent"
                        /\ decision'[attempts'[d].request] = "pending" => Settled(d)
                        /\ (decision'[attempts'[d].request] = "processing"
                              /\ lastDecision'[attempts'[d].request] # d) => Settled(d)
      BY <1>11 DEF OpenIsSettled
    <2>1. CASE \E r \in items : id[r] = d
      BY <1>1, <1>4, <1>5, <2>1
    <2>2. CASE Used(d)
      <3>1. attempts'[d] = attempts[d] /\ attempts[d].request \in Requests
        BY <1>7, <2>2 DEF Inv, Ownership
      <3> QED
        BY <1>4, <1>10, <2>2, <3>1 DEF Inv, OpenIsSettled
    <2> QED
      BY <1>8, <2>1, <2>2
  <1>15. /\ todo' = [todo EXCEPT ![p] = todo'[p]]
         /\ \A d \in todo'[p] : d \in Decisions /\ ~Used(d) /\ Used(d)'
    <2>1. /\ todo'[p] \subseteq {id[r] : r \in items}
          /\ todo' = [todo EXCEPT ![p] = todo'[p]]
      BY <1>2 DEF Inv, TypeOK
    <2>2. ASSUME NEW d \in todo'[p] PROVE d \in Decisions /\ ~Used(d) /\ Used(d)'
      <3>1. PICK r \in items : id[r] = d
        BY <2>1, <2>2
      <3> QED
        BY <1>3, <1>5, <3>1 DEF Used
    <2> QED
      BY <2>1, <2>2
  <1> QED
    BY <1>7, <1>9, <1>12, <1>13, <1>14, <1>15 DEF Tables

\* Steps that leave the attempts, the answers, the decisions and the leases
\* alone leave the agreement of the tables alone.
LEMMA FrameTables ==
  ASSUME Inv, UNCHANGED <<attempts, outcome, decision, lastDecision, lease>>
  PROVE  Tables' /\ (\A d \in Decisions : (Used(d)' <=> Used(d)))
  BY DEF Inv, Tables, TablesAgree, AtMostOneUnsettled, OpenIsSettled, Used, Settled

\* Steps that send nothing and only take items away from the processes.
LEMMA FrameOwnership ==
  ASSUME Inv, UNCHANGED history,
         \A d \in Decisions : (Used(d)' <=> Used(d)) /\ attempts'[d].request = attempts[d].request,
         \A p \in Processes : todo'[p] \subseteq todo[p],
         \A p \in Processes : current'[p] \in {current[p], None},
         \A d \in retries' : d \in retries \/ \E p \in Processes : current[p] = d /\ d # None
  PROVE  Ownership'
  <1>1. \A p \in Processes : todo[p] \subseteq Decisions /\ current[p] \in Decisions \cup {None}
    BY DEF Inv, TypeOK
  <1>2. retries \subseteq Decisions
    BY DEF Inv, TypeOK
  <1> QED
    BY <1>1, <1>2 DEF Inv, Ownership, history

LEMMA NextInv ==
  ASSUME ConstantsAssumption, Inv, [Next]_vars
  PROVE  Inv'
  <1>type. TypeOK'
    BY NextType DEF Inv
  <1> SUFFICES Tables' /\ Ownership'
    BY <1>type DEF Inv, Tables
  <1>none. None \notin Decisions
    BY DEF ConstantsAssumption
  <1>same. ASSUME UNCHANGED <<attempts, history>>
           PROVE \A d \in Decisions : (Used(d)' <=> Used(d)) /\ attempts'[d].request = attempts[d].request
    BY <1>same DEF Used
  <1> USE DEF rows, memory, history
  <1>1. ASSUME NEW r \in Requests, NEW processed \in BOOLEAN, Record(r, processed)
        PROVE Tables' /\ Ownership'
    <2>1. \A d \in Decisions : Used(d) => attempts[d].request # r /\ attempts[d].request \in Requests
      BY <1>1 DEF Record, Inv, OpenIsSettled, Ownership
    <2>2. /\ decision[r] = "absent" /\ decision'[r] \in {"pending", "external_processed"}
          /\ \A x \in Requests : x # r => decision'[x] = decision[x]
          /\ UNCHANGED <<attempts, outcome, lastDecision, lease>>
      BY <1>1 DEF Record, Inv, TypeOK
    <2>3. TablesAgree'
      BY <2>1, <2>2 DEF Inv, TablesAgree, Used
    <2>4. AtMostOneUnsettled' /\ OpenIsSettled'
      BY <2>1, <2>2 DEF Inv, AtMostOneUnsettled, OpenIsSettled, Used, Settled
    <2>5. Ownership'
      BY <1>1 DEF Record, Inv, Ownership, Used
    <2> QED
      BY <2>3, <2>4, <2>5 DEF Tables
  <1>2. ASSUME NEW r \in Requests, ParseApplicant(r) PROVE Tables' /\ Ownership'
    BY <1>2, <1>same, FrameTables, FrameOwnership DEF ParseApplicant
  <1>3. ASSUME NEW r \in Requests, ObserveProcessed(r) PROVE Tables' /\ Ownership'
    <2>1. /\ decision'[r] = MergeObservedDecisionStatus(decision[r])
          /\ \A x \in Requests : x # r => decision'[x] = decision[x]
          /\ UNCHANGED <<attempts, outcome, lastDecision, lease>>
      BY <1>3 DEF ObserveProcessed, Inv, TypeOK
    <2>2. \A x \in Requests : \/ decision'[x] = decision[x]
                              \/ /\ decision[x] \in {"pending", "unknown"}
                                 /\ decision'[x] = "external_processed"
      BY <2>1 DEF MergeObservedDecisionStatus
    <2>3. \A d \in Decisions : Used(d) => attempts[d].request \in Requests
      BY DEF Inv, Ownership
    <2>4. TablesAgree'
      BY <2>1, <2>2, <2>3 DEF Inv, TablesAgree, Used
    <2>5. AtMostOneUnsettled' /\ OpenIsSettled'
      BY <2>1, <2>2, <2>3 DEF Inv, AtMostOneUnsettled, OpenIsSettled, Used, Settled
    <2>6. Ownership'
      BY <1>3, <1>same, FrameOwnership DEF ObserveProcessed
    <2> QED
      BY <2>4, <2>5, <2>6 DEF Tables
  <1>4. ASSUME NEW r \in Requests, LeaseLapses(r) PROVE Tables' /\ Ownership'
    <2>1. /\ \A x \in Requests : lease'[x] # "none" <=> lease[x] # "none"
          /\ UNCHANGED <<attempts, outcome, lastDecision, decision>>
      BY <1>4 DEF LeaseLapses, Inv, TypeOK
    <2>2. TablesAgree'
      BY <2>1 DEF Inv, TablesAgree
    <2>3. AtMostOneUnsettled' /\ OpenIsSettled'
      BY <2>1 DEF Inv, AtMostOneUnsettled, OpenIsSettled, Used, Settled
    <2>4. Ownership'
      BY <1>4, <1>same, FrameOwnership DEF LeaseLapses
    <2> QED
      BY <2>2, <2>3, <2>4 DEF Tables
  <1>5. ASSUME NEW g \in Groups, NEW enabled \in BOOLEAN, NEW autoReject \in BOOLEAN,
               UpdatePolicy(g, enabled, autoReject) PROVE Tables' /\ Ownership'
    BY <1>5, <1>same, FrameTables, FrameOwnership DEF UpdatePolicy
  <1>6. ASSUME NEW h \in Handlers, NEW items \in SUBSET Requests, NEW kind \in {"single", "bulk"},
               NEW action \in Actions, NEW key \in Keys, Submit(h, items, kind, action, key)
        PROVE Tables' /\ Ownership'
    BY <1>6, <1>same, FrameTables, FrameOwnership DEF Submit
  <1>7. ASSUME NEW p \in Processes, BeginDecisions(p) PROVE Tables' /\ Ownership'
    <2>1. UNCHANGED <<current, retries, sent, outcome>>
      BY <1>7 DEF BeginDecisions
    <2>2. \A d \in Decisions : ~Used(d) => outcome[d] = "none"
      BY DEF Inv, Ownership
    <2>3. ASSUME NEW q \in Processes, NEW d \in todo'[q]
          PROVE  /\ Used(d)' /\ outcome[d] = "none"
                 /\ \A x \in Processes : d \in todo'[x] => q = x
      <3>1. todo' = [todo EXCEPT ![p] = todo'[p]] /\ todo \in [Processes -> SUBSET Decisions]
        BY <1>7, BeginTables DEF Inv, TypeOK
      <3>2. CASE q = p
        <4>1. d \in Decisions /\ ~Used(d) /\ Used(d)'
          BY <1>7, <2>3, <3>2, BeginTables
        <4>2. \A x \in Processes : d \notin todo[x]
          BY <4>1 DEF Inv, Ownership
        <4> QED
          BY <2>2, <3>1, <3>2, <4>1, <4>2
      <3>3. CASE q # p
        <4>1. d \in todo[q] /\ d \in Decisions
          BY <2>3, <3>1, <3>3
        <4>2. Used(d) /\ outcome[d] = "none" /\ \A x \in Processes : d \in todo[x] => q = x
          BY <4>1 DEF Inv, Ownership
        <4>3. d \notin todo'[p]
          BY <1>7, <4>2, BeginTables
        <4> QED
          BY <1>7, <3>1, <4>1, <4>2, <4>3, BeginTables
      <3> QED
        BY <3>2, <3>3
    <2>4. /\ \A d \in Decisions : Used(d) => Used(d)'
          /\ \A d \in Decisions : Used(d)' => attempts'[d].request \in Requests
      BY <1>7, BeginTables
    <2>5. \A q \in Processes : current[q] \in Decisions \cup {None}
      BY DEF Inv, TypeOK
    <2>6. retries \subseteq Decisions
      BY DEF Inv, TypeOK
    <2>7. Ownership'
      BY <2>1, <2>3, <2>4, <2>5, <2>6 DEF Inv, Ownership
    <2> QED
      BY <1>7, <2>7, BeginTables
  <1>8. ASSUME NEW p \in Processes, ReplayDecisions(p) \/ RefuseDecisions(p)
        PROVE Tables' /\ Ownership'
    BY <1>8, <1>same, FrameTables, FrameOwnership DEF ReplayDecisions, RefuseDecisions
  \* Answering an attempt: it was not settled, so nothing else on its request
  \* is open, and it can only become settled or stay the unsettled one.
  <1>answer. ASSUME NEW p \in Processes, NEW d \in todo[p], d \in Decisions, outcome'[d] # "none",
                    sent'[d] \in {0, 1}, outcome' = [outcome EXCEPT ![d] = outcome'[d]],
                    sent' = [sent EXCEPT ![d] = sent'[d]],
                    todo' = [todo EXCEPT ![p] = todo[p] \ {d}],
                    current' = [current EXCEPT ![p] = d],
                    UNCHANGED <<attempts, decision, lastDecision, lease, retries>>
             PROVE Tables' /\ Ownership'
    <2>1. Used(d) /\ outcome[d] = "none" /\ ~Settled(d)
      BY DEF Inv, Ownership, Settled
    <2>2. /\ \A e \in Decisions : Used(e)' <=> Used(e)
          /\ \A e \in Decisions : Settled(e) => Settled(e)'
      BY <1>answer, <2>1 DEF Used, Settled, Inv, TypeOK
    <2>3. TablesAgree'
      BY <1>answer DEF Inv, TablesAgree
    <2>4. AtMostOneUnsettled' /\ OpenIsSettled'
      BY <1>answer, <2>2 DEF Inv, AtMostOneUnsettled, OpenIsSettled
    <2>5. /\ \A e \in Decisions : e # d => outcome'[e] = outcome[e] /\ sent'[e] = sent[e]
          /\ todo'[p] = todo[p] \ {d} /\ current'[p] = d
          /\ \A q \in Processes : q # p => todo'[q] = todo[q] /\ current'[q] = current[q]
      BY <1>answer DEF Inv, TypeOK
    <2>6. \A q \in Processes : d \notin todo'[q]
      BY <2>5 DEF Inv, Ownership
    <2>7. \A q \in Processes : todo[q] \subseteq Decisions /\ current[q] \in Decisions \cup {None}
      BY DEF Inv, TypeOK
    <2>8. retries \subseteq Decisions
      BY DEF Inv, TypeOK
    <2>9. \A e \in Decisions : outcome[e] # "none" => outcome'[e] # "none"
      BY <1>answer, <2>5
    <2>10. ASSUME NEW q \in Processes, NEW e \in todo'[q]
           PROVE  /\ Used(e)' /\ outcome'[e] = "none"
                  /\ \A x \in Processes : e \in todo'[x] => q = x
      <3>1. e \in todo[q] /\ e # d /\ e \in Decisions
        BY <2>5, <2>6, <2>7, <2>10
      <3>2. Used(e) /\ outcome[e] = "none" /\ \A x \in Processes : e \in todo[x] => q = x
        BY <3>1 DEF Inv, Ownership
      <3> QED
        BY <2>2, <2>5, <3>1, <3>2
    <2>11. ASSUME NEW q \in Processes, current'[q] # None
           PROVE  attempts'[current'[q]].status # "unused" /\ outcome'[current'[q]] # "none"
      <3>1. CASE q = p
        BY <1>answer, <2>1, <2>5, <3>1 DEF Used
      <3>2. CASE q # p
        <4>1. current'[q] = current[q] /\ current[q] \in Decisions
          BY <2>5, <2>7, <2>11, <3>2
        <4>2. Used(current[q]) /\ outcome[current[q]] # "none"
          BY <2>11, <4>1 DEF Inv, Ownership
        <4> QED
          BY <1>answer, <2>9, <4>1, <4>2 DEF Used
      <3> QED
        BY <3>1, <3>2
    <2>12. \A e \in retries' : Used(e)' /\ outcome'[e] # "none"
      BY <1>answer, <2>2, <2>8, <2>9 DEF Inv, Ownership
    <2>13. \A e \in Decisions :
             /\ Used(e)' => attempts'[e].request \in Requests
             /\ ~Used(e)' => outcome'[e] = "none"
             /\ sent'[e] <= 1
             /\ outcome'[e] = "none" => sent'[e] = 0
      <3> SUFFICES ASSUME NEW e \in Decisions
                   PROVE  /\ Used(e)' => attempts'[e].request \in Requests
                          /\ ~Used(e)' => outcome'[e] = "none"
                          /\ sent'[e] <= 1
                          /\ outcome'[e] = "none" => sent'[e] = 0
        OBVIOUS
      <3>1. /\ Used(e) => attempts[e].request \in Requests
            /\ ~Used(e) => outcome[e] = "none"
            /\ sent[e] <= 1
            /\ outcome[e] = "none" => sent[e] = 0
        BY DEF Inv, Ownership
      <3>2. CASE e = d
        BY <1>answer, <2>1, <2>2, <3>1, <3>2
      <3>3. CASE e # d
        BY <1>answer, <2>2, <2>5, <3>1, <3>3
      <3> QED
        BY <3>2, <3>3
    <2>14. Ownership'
      BY <2>10, <2>11, <2>12, <2>13 DEF Ownership, Used
    <2> QED
      BY <2>3, <2>4, <2>14 DEF Tables
  <1>9. ASSUME NEW p \in Processes, NEW d \in Decisions, NEW answer \in Answers,
               CallGateway(p, d, answer) PROVE Tables' /\ Ownership'
    <2>1. d \in todo[p] /\ sent[d] = 0
      BY <1>9 DEF CallGateway, Inv, Ownership
    <2>2. sent'[d] = 1 /\ outcome'[d] = answer /\ answer # "none"
      BY <1>9, <2>1 DEF CallGateway, Inv, TypeOK, Answers
    <2> QED
      BY <1>9, <1>answer, <2>1, <2>2 DEF CallGateway
  <1>13. ASSUME NEW h \in Handlers, NEW d \in Decisions, SkipItem(h, d)
         PROVE Tables' /\ Ownership'
    <2>1. h \in Processes /\ d \in todo[h] /\ sent[d] = 0
      BY <1>13 DEF SkipItem, Processes, Inv, Ownership
    <2>2. sent'[d] = 0 /\ outcome'[d] = "canceled" /\ sent' = [sent EXCEPT ![d] = sent'[d]]
      BY <1>13, <2>1 DEF SkipItem, Inv, TypeOK
    <2> QED
      BY <1>13, <1>answer, <2>1, <2>2 DEF SkipItem
  <1>10. ASSUME NEW p \in Processes, CompleteDecision(p) PROVE Tables' /\ Ownership'
    <2>1. current[p] \in Decisions /\ Used(current[p]) /\ outcome[current[p]] # "none"
      BY <1>10 DEF CompleteDecision, Inv, TypeOK, Ownership
    <2>2. /\ Tables'
          /\ \A e \in Decisions : (Used(e)' <=> Used(e)) /\ attempts'[e].request = attempts[e].request
      BY <1>10, <2>1, StoreTables DEF CompleteDecision
    <2>3. Ownership'
      BY <1>10, <2>1, <2>2, <1>none, FrameOwnership DEF CompleteDecision, Inv, TypeOK
    <2> QED
      BY <2>2, <2>3
  <1>11. ASSUME NEW p \in Processes, FailCompletion(p) PROVE Tables' /\ Ownership'
    <2>1. Tables'
      BY <1>11, FrameTables DEF FailCompletion
    <2>2. \A d \in retries' : d \in retries \/ \E q \in Processes : current[q] = d /\ d # None
      BY <1>11 DEF FailCompletion
    <2>3. \A q \in Processes : current'[q] \in {current[q], None}
      BY <1>11 DEF FailCompletion, Inv, TypeOK
    <2> QED
      BY <1>11, <1>same, <2>1, <2>2, <2>3, FrameOwnership DEF FailCompletion
  <1>12. ASSUME NEW h \in Handlers, CancelBatch(h) \/ Return(h) PROVE Tables' /\ Ownership'
    BY <1>12, <1>same, FrameTables, FrameOwnership DEF CancelBatch, Return
  <1>14. ASSUME NEW d \in Decisions, RetryCompletion(d) PROVE Tables' /\ Ownership'
    <2>1. d \in retries /\ Used(d) /\ outcome[d] # "none" /\ retries' \subseteq retries
      BY <1>14 DEF RetryCompletion, Inv, Ownership
    <2>2. CASE CompletionApplies(d) /\ StoreCompletion(d)
      <3>1. /\ Tables'
            /\ \A e \in Decisions : (Used(e)' <=> Used(e)) /\ attempts'[e].request = attempts[e].request
        BY <1>14, <2>1, <2>2, StoreTables DEF RetryCompletion
      <3> QED
        BY <1>14, <2>1, <3>1, FrameOwnership DEF RetryCompletion
    <2>3. CASE UNCHANGED <<rows, attempts>>
      BY <1>14, <1>same, <2>1, <2>3, FrameTables, FrameOwnership DEF RetryCompletion
    <2> QED
      BY <1>14, <2>2, <2>3 DEF RetryCompletion
  <1>15. ASSUME NEW found \in SUBSET Requests, RecoverInterrupted(found) \/ Start(found)
         PROVE Tables' /\ Ownership'
    <2>1. Recover(found) /\ UNCHANGED <<memory, history>>
      BY <1>15 DEF RecoverInterrupted, Start
    <2> QED
      BY <2>1, RecoverTables, FrameOwnership
  <1>16. CASE ListAutoCandidates
    BY <1>16, <1>same, FrameTables, FrameOwnership DEF ListAutoCandidates
  <1>17. ASSUME NEW c \in candidates, PassOver(c) PROVE Tables' /\ Ownership'
    BY <1>17, <1>same, FrameTables, FrameOwnership DEF PassOver
  <1>18. ASSUME NEW c \in candidates, NEW action \in Actions, Review(c, action)
         PROVE Tables' /\ Ownership'
    BY <1>18, <1>same, FrameTables, FrameOwnership DEF Review
  <1>19. CASE Crash
    BY <1>19, <1>same, FrameTables, FrameOwnership DEF Crash, EmptyMemory
  <1>20. CASE UNCHANGED vars
    BY <1>20, <1>same, FrameTables, FrameOwnership DEF vars
  <1> QED
    BY <1>1, <1>2, <1>3, <1>4, <1>5, <1>6, <1>7, <1>8, <1>9, <1>10, <1>11, <1>12, <1>13,
       <1>14, <1>15, <1>16, <1>17, <1>18, <1>19, <1>20 DEF Next, Execute

THEOREM InvHolds == Spec => []Inv
  <1>1. ConstantsAssumption
    BY ConstantsAssumption
  <1> QED
    BY InitInv, NextInv, <1>1, PTL DEF Spec

\* The request and attempt tables always agree.
THEOREM TablesAlwaysAgree == Spec => []TablesAgree
  <1>1. Inv => TablesAgree
    BY DEF Inv
  <1> QED
    BY <1>1, InvHolds, PTL

\* No attempt is ever sent to the gateway twice.
THEOREM NothingSentTwice == Spec => []SentAtMostOnce
  <1>1. Inv => SentAtMostOnce
    BY DEF Inv, Ownership, SentAtMostOnce
  <1> QED
    BY <1>1, InvHolds, PTL

\* While a request is open for a decision, nothing can have been done to the
\* applicant yet.
THEOREM OpenRequestsUntouched == Spec => []OpenMeansUntouched
  <1>1. Inv => OpenMeansUntouched
    BY DEF Inv, OpenIsSettled, OpenMeansUntouched, MayHaveTakenEffect, Used, Settled
  <1> QED
    BY <1>1, InvHolds, PTL

\* At most one call per request can have had an effect on the applicant.
THEOREM OneEffectPerRequest == Spec => []SingleEffect
  <1>1. Inv => SingleEffect
    BY DEF Inv, AtMostOneUnsettled, SingleEffect, MayHaveTakenEffect, Used, Settled
  <1> QED
    BY <1>1, InvHolds, PTL

-----------------------------------------------------------------------------
(* What the three transactions do to attempts, in the terms that are needed *)
(* below: which attempts there are, on which requests, and what they do.    *)

Same(d) == /\ Used(d)' <=> Used(d)
           /\ attempts'[d].request = attempts[d].request
           /\ attempts'[d].action = attempts[d].action

LEMMA StoreAttempts ==
  ASSUME Inv, NEW d \in Decisions, Used(d), CompletionApplies(d), StoreCompletion(d)
  PROVE  /\ \A e \in Decisions : Same(e)
         /\ attempts[d].request \in Requests
         /\ decision' = [decision EXCEPT ![attempts[d].request] = DecisionStatus(d)]
         /\ lastDecision' = lastDecision /\ lastDecision[attempts[d].request] = d
         /\ decision[attempts[d].request] = "processing"
  <1>1. AttemptStatus(d) \in {"confirmed", "failed", "unknown"}
    BY CompletionType DEF Inv
  <1>2. attempts[d].request \in Requests
    BY DEF Inv, Ownership
  <1>3. attempts' = [attempts EXCEPT ![d].status = AttemptStatus(d), ![d].error = outcome[d]]
    BY DEF StoreCompletion
  <1>4. ASSUME NEW e \in Decisions PROVE Same(e)
    <2>1. attempts[e] \in Attempt
      BY DEF Inv, TypeOK
    <2>2. CASE e = d
      BY <1>1, <1>3, <2>1, <2>2 DEF Same, Used, Attempt, Inv, TypeOK
    <2>3. CASE e # d
      BY <1>3, <2>3 DEF Same, Used, Inv, TypeOK
    <2> QED
      BY <2>2, <2>3
  <1> QED
    BY <1>2, <1>4 DEF StoreCompletion, CompletionApplies

LEMMA RecoverAttempts ==
  ASSUME Inv, NEW found \in SUBSET Requests, Recover(found), UNCHANGED outcome
  PROVE  /\ \A e \in Decisions : Same(e)
         /\ \A r \in found : decision[r] = "processing"
         /\ decision' = [r \in Requests |-> IF r \in found THEN "unknown" ELSE decision[r]]
         /\ lastDecision' = lastDecision
  <1>1. ASSUME NEW e \in Decisions PROVE Same(e)
    <2>1. attempts[e] \in Attempt
      BY DEF Inv, TypeOK
    <2>2. attempts'[e].action = attempts[e].action
      BY <2>1 DEF Recover, Attempt
    <2> QED
      BY <2>2, RecoverTables DEF Same
  <1> QED
    BY <1>1 DEF Recover

LEMMA BeginAttempts ==
  ASSUME ConstantsAssumption, Inv, NEW p \in Processes, BeginDecisions(p)
  PROVE  LET items == ask[p].items
         IN  /\ items \in SUBSET Requests
             /\ \A r \in items : decision[r] = "pending"
             /\ decision' = [r \in Requests |-> IF r \in items THEN "processing" ELSE decision[r]]
             /\ \A r \in Requests \ items : lastDecision'[r] = lastDecision[r]
             /\ outcome' = outcome
             /\ \A d \in Decisions : Used(d) => Used(d)' /\ attempts'[d] = attempts[d]
             /\ \A d \in Decisions : Used(d)' /\ ~Used(d) =>
                   /\ attempts'[d].request \in items /\ attempts'[d].action = ask[p].action
                   /\ attempts'[d].source = ask[p].source
             /\ \A r \in items : \E d \in Decisions :
                   ~Used(d) /\ Used(d)' /\ attempts'[d].request = r
  <1> DEFINE items == ask[p].items
  <1>1. /\ items \in SUBSET Requests
        /\ \A r \in items : decision[r] = "pending"
    BY DEF Inv, TypeOK, BeginDecisions, BeginMutation, Reservable
  <1>2. PICK id \in FreshIds(items) :
          /\ attempts' = [d \in Decisions |->
               IF \E r \in items : id[r] = d
               THEN [request |-> CHOOSE r \in items : id[r] = d, key |-> ask[p].key,
                     action |-> ask[p].action, source |-> ask[p].source,
                     status |-> "started", error |-> "none"]
               ELSE attempts[d]]
          /\ lastDecision' = [r \in Requests |-> IF r \in items THEN id[r] ELSE lastDecision[r]]
    BY DEF BeginDecisions
  <1>3. /\ \A r \in items : id[r] \in Decisions /\ ~Used(id[r])
        /\ \A r, x \in items : id[r] = id[x] => r = x
    BY <1>2 DEF FreshIds, Used
  <1>4. ASSUME NEW r \in items
        PROVE  /\ attempts'[id[r]].request = r /\ Used(id[r])'
               /\ attempts'[id[r]].action = ask[p].action
               /\ attempts'[id[r]].source = ask[p].source
    <2>1. (CHOOSE x \in items : id[x] = id[r]) = r
      BY <1>3
    <2> QED
      BY <1>2, <1>3, <2>1 DEF Used
  <1>5. \A d \in Decisions : Used(d)' /\ ~Used(d) => \E r \in items : id[r] = d
    BY <1>2 DEF Used
  <1>6. \A d \in Decisions : Used(d)' /\ ~Used(d) =>
           /\ attempts'[d].request \in items /\ attempts'[d].action = ask[p].action
           /\ attempts'[d].source = ask[p].source
    BY <1>4, <1>5
  <1>7. \A r \in items : \E d \in Decisions : ~Used(d) /\ Used(d)' /\ attempts'[d].request = r
    BY <1>3, <1>4
  <1>8. \A r \in Requests \ items : lastDecision'[r] = lastDecision[r]
    BY <1>2
  <1>9. /\ decision' = [r \in Requests |-> IF r \in items THEN "processing" ELSE decision[r]]
        /\ outcome' = outcome
    BY DEF BeginDecisions, history
  <1> QED
    BY <1>1, <1>6, <1>7, <1>8, <1>9, BeginTables

\* Giving an attempt its answer, by the gateway or without it.
Answered(p, d) ==
    /\ d \in todo[p] /\ outcome'[d] # "none" /\ outcome'[d] \in Outcomes
    /\ outcome' = [outcome EXCEPT ![d] = outcome'[d]]
    /\ UNCHANGED <<attempts, decision, lastDecision>>

LEMMA AnswerAttempts ==
  ASSUME Inv, NEW p \in Processes, NEW d \in Decisions, Answered(p, d)
  PROVE  /\ Used(d) /\ outcome[d] = "none"
         /\ \A e \in Decisions : Same(e)
         /\ \A e \in Decisions : e # d => outcome'[e] = outcome[e]
         /\ \A e \in Decisions :
               Used(e) /\ e # d /\ attempts[e].request = attempts[d].request => Settled(e)
         /\ attempts[d].request \in Requests
  <1>1. Used(d) /\ outcome[d] = "none" /\ ~Settled(d) /\ attempts[d].request \in Requests
    BY DEF Answered, Inv, Ownership, Settled
  <1>2. \A e \in Decisions : e # d => outcome'[e] = outcome[e]
    BY DEF Answered, Inv, TypeOK
  <1>3. \A e \in Decisions : Same(e)
    BY DEF Answered, Same, Used
  <1> QED
    BY <1>1, <1>2, <1>3 DEF Inv, AtMostOneUnsettled

\* A step of any other kind changes neither attempts nor answers, and no decision
\* but to a status that is not decided.
Calm ==
    /\ UNCHANGED <<outcome, lastDecision>>
    /\ \A e \in Decisions : Same(e)
    /\ \A r \in Requests :
          decision'[r] = decision[r] \/ decision'[r] \notin {"approved", "rejected"}

LEMMA UnchangedIsCalm ==
  ASSUME UNCHANGED <<attempts, outcome, lastDecision, decision>>
  PROVE  Calm
  BY DEF Calm, Same, Used

-----------------------------------------------------------------------------
(* The tables tell the truth.  Decided requests stay decided, their last    *)
(* attempt has its answer, and answers are never replaced.                  *)

\* What an attempt does is known as long as there is one.
ActionsKnown == \A d \in Decisions : Used(d) => attempts[d].action \in Actions

Known == DecidedMeansConfirmed /\ ActionsKnown

LEMMA CalmKnown ==
  ASSUME Inv, Known, Calm, TypeOK'
  PROVE  Known'
  <1>1. ActionsKnown'
    BY DEF Known, ActionsKnown, Calm, Same
  <1>2. DecidedMeansConfirmed'
    <2> SUFFICES ASSUME NEW r \in Requests, decision'[r] \in {"approved", "rejected"}
                 PROVE  /\ lastDecision'[r] # None /\ attempts'[lastDecision'[r]].request = r
                        /\ outcome'[lastDecision'[r]] = "confirmed"
                        /\ attempts'[lastDecision'[r]].action =
                              (IF decision'[r] = "approved" THEN "approve" ELSE "reject")
      BY DEF DecidedMeansConfirmed
    <2>1. decision'[r] = decision[r] /\ lastDecision'[r] = lastDecision[r] /\ outcome' = outcome
      BY DEF Calm
    <2>2. /\ lastDecision[r] # None /\ attempts[lastDecision[r]].request = r
          /\ outcome[lastDecision[r]] = "confirmed"
          /\ attempts[lastDecision[r]].action =
                (IF decision[r] = "approved" THEN "approve" ELSE "reject")
      BY <2>1 DEF Known, DecidedMeansConfirmed
    <2>3. lastDecision[r] \in Decisions
      BY <2>2 DEF Inv, TypeOK
    <2> QED
      BY <2>1, <2>2, <2>3 DEF Calm, Same
  <1> QED
    BY <1>1, <1>2 DEF Known

LEMMA AnswerKnown ==
  ASSUME Inv, Known, NEW p \in Processes, NEW d \in Decisions, Answered(p, d)
  PROVE  Known'
  <1>1. ActionsKnown'
    BY DEF Known, ActionsKnown, Answered, Used
  <1>2. DecidedMeansConfirmed'
    <2>1. outcome[d] = "none" /\ \A e \in Decisions : e # d => outcome'[e] = outcome[e]
      BY AnswerAttempts
    <2>2. \A r \in Requests : lastDecision[r] \in Decisions \cup {None}
      BY DEF Inv, TypeOK
    <2> QED
      BY <2>1, <2>2 DEF Known, DecidedMeansConfirmed, Answered
  <1> QED
    BY <1>1, <1>2 DEF Known

LEMMA StoreKnown ==
  ASSUME Inv, Known, NEW d \in Decisions, Used(d), UNCHANGED outcome, d # None,
         CompletionApplies(d), StoreCompletion(d)
  PROVE  Known'
  <1> DEFINE r == attempts[d].request
  <1>1. /\ \A e \in Decisions : Same(e)
        /\ r \in Requests /\ lastDecision' = lastDecision /\ lastDecision[r] = d
        /\ decision' = [decision EXCEPT ![r] = DecisionStatus(d)]
    BY StoreAttempts
  <1>2. ActionsKnown'
    BY <1>1 DEF Known, ActionsKnown, Same
  <1>3. ASSUME NEW x \in Requests, decision'[x] \in {"approved", "rejected"}
        PROVE  /\ lastDecision'[x] # None /\ attempts'[lastDecision'[x]].request = x
               /\ outcome'[lastDecision'[x]] = "confirmed"
               /\ attempts'[lastDecision'[x]].action =
                     (IF decision'[x] = "approved" THEN "approve" ELSE "reject")
    <2>1. CASE x = r
      <3>1. decision'[x] = DecisionStatus(d) /\ attempts[d].action \in Actions
        BY <1>1, <2>1 DEF Inv, TypeOK, Known, ActionsKnown
      <3>2. AttemptStatus(d) = "confirmed" /\ outcome[d] = "confirmed"
        BY <1>3, <3>1 DEF DecisionStatus, AttemptStatus
      <3>3. attempts[d].action = (IF decision'[x] = "approved" THEN "approve" ELSE "reject")
        BY <3>1, <3>2 DEF DecisionStatus, Actions
      <3> QED
        BY <1>1, <2>1, <3>2, <3>3 DEF Same
    <2>2. CASE x # r
      <3>1. decision'[x] = decision[x]
        BY <1>1, <2>2 DEF Inv, TypeOK
      <3>2. /\ lastDecision[x] # None /\ attempts[lastDecision[x]].request = x
            /\ outcome[lastDecision[x]] = "confirmed"
            /\ attempts[lastDecision[x]].action =
                  (IF decision[x] = "approved" THEN "approve" ELSE "reject")
        BY <1>3, <3>1 DEF Known, DecidedMeansConfirmed
      <3>3. lastDecision[x] \in Decisions
        BY <3>2 DEF Inv, TypeOK
      <3> QED
        BY <1>1, <3>1, <3>2, <3>3 DEF Same
    <2> QED
      BY <2>1, <2>2
  <1> QED
    BY <1>2, <1>3 DEF Known, DecidedMeansConfirmed

LEMMA BeginKnown ==
  ASSUME ConstantsAssumption, Inv, Known, NEW p \in Processes, BeginDecisions(p)
  PROVE  Known'
  <1> DEFINE items == ask[p].items
  <1>1. /\ items \in SUBSET Requests
        /\ decision' = [r \in Requests |-> IF r \in items THEN "processing" ELSE decision[r]]
        /\ \A r \in Requests \ items : lastDecision'[r] = lastDecision[r]
        /\ outcome' = outcome
        /\ \A d \in Decisions : Used(d) => Used(d)' /\ attempts'[d] = attempts[d]
        /\ \A d \in Decisions : Used(d)' /\ ~Used(d) => attempts'[d].action = ask[p].action
    BY BeginAttempts
  <1>2. ask[p].action \in Actions
    BY DEF Inv, TypeOK, BeginDecisions, BeginMutation
  <1>3. ActionsKnown'
    BY <1>1, <1>2 DEF Known, ActionsKnown
  <1>4. ASSUME NEW x \in Requests, decision'[x] \in {"approved", "rejected"}
        PROVE  /\ lastDecision'[x] # None /\ attempts'[lastDecision'[x]].request = x
               /\ outcome'[lastDecision'[x]] = "confirmed"
               /\ attempts'[lastDecision'[x]].action =
                     (IF decision'[x] = "approved" THEN "approve" ELSE "reject")
    <2>1. x \notin items /\ decision'[x] = decision[x] /\ lastDecision'[x] = lastDecision[x]
      BY <1>1, <1>4
    <2>2. /\ lastDecision[x] # None /\ attempts[lastDecision[x]].request = x
          /\ outcome[lastDecision[x]] = "confirmed"
          /\ attempts[lastDecision[x]].action =
                (IF decision[x] = "approved" THEN "approve" ELSE "reject")
      BY <1>4, <2>1 DEF Known, DecidedMeansConfirmed
    <2>3. lastDecision[x] \in Decisions
      BY <2>2 DEF Inv, TypeOK
    <2>4. Used(lastDecision[x])
      BY <2>2, <2>3 DEF Inv, Ownership
    <2> QED
      BY <1>1, <2>1, <2>2, <2>3, <2>4
  <1> QED
    BY <1>3, <1>4 DEF Known, DecidedMeansConfirmed

-----------------------------------------------------------------------------
(* The kinds of steps, as far as attempts and decisions go.                 *)

Quiet == UNCHANGED <<attempts, outcome, lastDecision, decision>>

\* A request becomes known, or is found to be processed elsewhere.
Noted(r) ==
    /\ UNCHANGED <<attempts, outcome, lastDecision>>
    /\ decision' = [decision EXCEPT ![r] = decision'[r]]
    /\ \/ decision[r] = "absent" /\ decision'[r] \in {"pending", "external_processed"}
       \/ decision[r] \in {"pending", "unknown"} /\ decision'[r] = "external_processed"

Stored(d) ==
    /\ Used(d) /\ outcome[d] # "none" /\ UNCHANGED outcome
    /\ CompletionApplies(d) /\ StoreCompletion(d)

Recovered(found) == Recover(found) /\ UNCHANGED outcome

LEMMA KindsOfSteps ==
  ASSUME Inv, [Next]_vars
  PROVE  \/ Quiet
         \/ \E r \in Requests : Noted(r)
         \/ \E p \in Processes : BeginDecisions(p)
         \/ \E p \in Processes, d \in Decisions : Answered(p, d)
         \/ \E d \in Decisions : Stored(d)
         \/ \E found \in SUBSET Requests : Recovered(found)
  <1> DEFINE Kind == \/ Quiet
                     \/ \E r \in Requests : Noted(r)
                     \/ \E p \in Processes : BeginDecisions(p)
                     \/ \E p \in Processes, d \in Decisions : Answered(p, d)
                     \/ \E d \in Decisions : Stored(d)
                     \/ \E found \in SUBSET Requests : Recovered(found)
  <1> USE DEF rows, memory, history
  <1>1. ASSUME NEW r \in Requests, NEW processed \in BOOLEAN, Record(r, processed) PROVE Kind
    <2>1. Noted(r)
      BY <1>1 DEF Record, Noted, Inv, TypeOK
    <2> QED
      BY <2>1
  <1>2. ASSUME NEW r \in Requests, ParseApplicant(r) \/ LeaseLapses(r) PROVE Kind
    BY <1>2 DEF ParseApplicant, LeaseLapses, Quiet
  <1>3. ASSUME NEW r \in Requests, ObserveProcessed(r) PROVE Kind
    <2>1. CASE decision[r] \in {"pending", "unknown"}
      <3>1. Noted(r)
        BY <1>3, <2>1 DEF ObserveProcessed, MergeObservedDecisionStatus, Noted, Inv, TypeOK
      <3> QED
        BY <3>1
    <2>2. CASE decision[r] \notin {"pending", "unknown"}
      <3>1. decision' = decision
        BY <1>3, <2>2 DEF ObserveProcessed, MergeObservedDecisionStatus, Inv, TypeOK
      <3> QED
        BY <1>3, <3>1 DEF ObserveProcessed, Quiet
    <2> QED
      BY <2>1, <2>2
  <1>4. ASSUME NEW g \in Groups, NEW enabled \in BOOLEAN, NEW autoReject \in BOOLEAN,
               UpdatePolicy(g, enabled, autoReject) PROVE Kind
    BY <1>4 DEF UpdatePolicy, Quiet
  <1>5. ASSUME NEW h \in Handlers, NEW items \in SUBSET Requests, NEW kind \in {"single", "bulk"},
               NEW action \in Actions, NEW key \in Keys, Submit(h, items, kind, action, key)
        PROVE Kind
    BY <1>5 DEF Submit, Quiet
  <1>6. ASSUME NEW p \in Processes, ReplayDecisions(p) \/ RefuseDecisions(p) \/ FailCompletion(p)
        PROVE Kind
    BY <1>6 DEF ReplayDecisions, RefuseDecisions, FailCompletion, Quiet
  <1>7. ASSUME NEW p \in Processes, NEW d \in Decisions, NEW answer \in Answers,
               CallGateway(p, d, answer) PROVE Kind
    <2>1. Answered(p, d)
      BY <1>7 DEF CallGateway, Answered, Answers, Outcomes, Inv, TypeOK
    <2> QED
      BY <2>1
  <1>8. ASSUME NEW h \in Handlers, NEW d \in Decisions, SkipItem(h, d) PROVE Kind
    <2>1. Answered(h, d) /\ h \in Processes
      BY <1>8 DEF SkipItem, Answered, Outcomes, Inv, TypeOK, Processes
    <2> QED
      BY <2>1
  <1>9. ASSUME NEW p \in Processes, CompleteDecision(p) PROVE Kind
    <2>1. current[p] \in Decisions /\ Used(current[p]) /\ outcome[current[p]] # "none"
      BY <1>9 DEF CompleteDecision, Inv, TypeOK, Ownership
    <2>2. Stored(current[p])
      BY <1>9, <2>1 DEF CompleteDecision, Stored
    <2> QED
      BY <2>1, <2>2
  <1>10. ASSUME NEW h \in Handlers, CancelBatch(h) \/ Return(h) PROVE Kind
    BY <1>10 DEF CancelBatch, Return, Quiet
  <1>11. ASSUME NEW d \in Decisions, RetryCompletion(d) PROVE Kind
    <2>1. Used(d) /\ outcome[d] # "none" /\ outcome' = outcome
      BY <1>11 DEF RetryCompletion, Inv, Ownership
    <2>2. CASE CompletionApplies(d) /\ StoreCompletion(d)
      BY <2>1, <2>2 DEF Stored
    <2>3. CASE UNCHANGED <<rows, attempts>>
      BY <2>1, <2>3 DEF Quiet
    <2> QED
      BY <1>11, <2>2, <2>3 DEF RetryCompletion
  <1>12. ASSUME NEW found \in SUBSET Requests, RecoverInterrupted(found) \/ Start(found) PROVE Kind
    BY <1>12 DEF RecoverInterrupted, Start, Recovered
  <1>13. CASE ListAutoCandidates \/ Crash
    BY <1>13 DEF ListAutoCandidates, Crash, Quiet
  <1>14. ASSUME NEW c \in candidates, PassOver(c) PROVE Kind
    BY <1>14 DEF PassOver, Quiet
  <1>15. ASSUME NEW c \in candidates, NEW action \in Actions, Review(c, action) PROVE Kind
    BY <1>15 DEF Review, Quiet
  <1>16. CASE UNCHANGED vars
    BY <1>16 DEF vars, Quiet
  <1> QED
    BY <1>1, <1>2, <1>3, <1>4, <1>5, <1>6, <1>7, <1>8, <1>9, <1>10, <1>11, <1>12, <1>13,
       <1>14, <1>15, <1>16 DEF Next, Execute

LEMMA NotedIsCalm ==
  ASSUME Inv, NEW r \in Requests, Noted(r)
  PROVE  Calm
  BY DEF Noted, Calm, Same, Used, Inv, TypeOK

LEMMA RecoveredIsCalm ==
  ASSUME Inv, NEW found \in SUBSET Requests, Recovered(found)
  PROVE  Calm
  <1>1. /\ \A e \in Decisions : Same(e)
        /\ decision' = [r \in Requests |-> IF r \in found THEN "unknown" ELSE decision[r]]
        /\ lastDecision' = lastDecision /\ outcome' = outcome
    BY RecoverAttempts DEF Recovered
  <1> QED
    BY <1>1 DEF Calm

LEMMA InitKnown == Init => Known
  BY DEF Init, Known, DecidedMeansConfirmed, ActionsKnown, Used, NoAttempt

LEMMA NextKnown ==
  ASSUME ConstantsAssumption, Inv, Known, TypeOK', [Next]_vars
  PROVE  Known'
  <1>1. CASE Quiet
    BY <1>1, UnchangedIsCalm, CalmKnown DEF Quiet
  <1>2. ASSUME NEW r \in Requests, Noted(r) PROVE Known'
    BY <1>2, NotedIsCalm, CalmKnown
  <1>3. ASSUME NEW p \in Processes, BeginDecisions(p) PROVE Known'
    BY <1>3, BeginKnown
  <1>4. ASSUME NEW p \in Processes, NEW d \in Decisions, Answered(p, d) PROVE Known'
    BY <1>4, AnswerKnown
  <1>5. ASSUME NEW d \in Decisions, Stored(d) PROVE Known'
    BY <1>5, StoreKnown DEF Stored, ConstantsAssumption
  <1>6. ASSUME NEW found \in SUBSET Requests, Recovered(found) PROVE Known'
    BY <1>6, RecoveredIsCalm, CalmKnown
  <1> QED
    BY <1>1, <1>2, <1>3, <1>4, <1>5, <1>6, KindsOfSteps

LEMMA KnownHolds == Spec => [](Inv /\ Known)
  <1>1. ConstantsAssumption
    BY ConstantsAssumption
  <1>2. Inv /\ Known /\ [Next]_vars => Inv' /\ Known'
    <2> SUFFICES ASSUME Inv, Known, [Next]_vars PROVE Inv' /\ Known'
      OBVIOUS
    <2>1. Inv'
      BY <1>1, NextInv
    <2> QED
      BY <1>1, <2>1, NextKnown DEF Inv
  <1> QED
    BY InitInv, InitKnown, <1>2, PTL DEF Spec

\* A request is open only if nothing was done about it, decided only if just that
\* was confirmed, and at most one call per request can have had an effect.
THEOREM EffectsAreTold == Spec => []EffectsTellTruth
  <1>1. Inv => OpenMeansUntouched
    BY DEF Inv, OpenIsSettled, OpenMeansUntouched, MayHaveTakenEffect, Used, Settled
  <1>2. Inv => SingleEffect
    BY DEF Inv, AtMostOneUnsettled, SingleEffect, MayHaveTakenEffect, Used, Settled
  <1>3. Inv /\ Known => EffectsTellTruth
    BY <1>1, <1>2 DEF Known, EffectsTellTruth
  <1> QED
    BY <1>3, KnownHolds, PTL

-----------------------------------------------------------------------------
(* The refinement of JoinDecision.                                          *)

\* What the mapping makes of the attempts.
Claim == [r \in Requests |-> \E d \in AttemptsOn(r) : outcome[d] = "none"]
Effect == [r \in Requests |-> EffectOn(r)]

LEMMA MappingUnchanged ==
  ASSUME Inv, \A d \in Decisions : Same(d), outcome' = outcome
  PROVE  Claim' = Claim /\ Effect' = Effect
  <1>1. ASSUME NEW r \in Requests PROVE AttemptsOn(r)' = AttemptsOn(r)
    BY DEF AttemptsOn, Same, Used
  <1>2. Claim' = Claim
    BY <1>1 DEF Claim
  <1>3. ASSUME NEW r \in Requests PROVE EffectOn(r)' = EffectOn(r)
    <2> DEFINE C == {d \in AttemptsOn(r) : outcome[d] = "confirmed"}
    <2>1. CASE \E d \in AttemptsOn(r) : outcome[d] = "confirmed"
      <3> DEFINE c == CHOOSE d \in AttemptsOn(r) : outcome[d] = "confirmed"
      <3>1. c \in AttemptsOn(r) /\ c \in Decisions
        BY <2>1 DEF AttemptsOn
      <3>2. attempts'[c].action = attempts[c].action
        BY <3>1 DEF Same
      <3>3. EffectOn(r) = attempts[c].action /\ EffectOn(r)' = attempts'[c].action
        BY <1>1, <2>1 DEF EffectOn
      <3> QED
        BY <3>2, <3>3
    <2>2. CASE ~ \E d \in AttemptsOn(r) : outcome[d] = "confirmed"
      BY <1>1, <2>2 DEF EffectOn
    <2> QED
      BY <2>1, <2>2
  <1> QED
    BY <1>2, <1>3 DEF Effect

LEMMA SettledMaps ==
  ASSUME NEW r \in Requests, \A d \in AttemptsOn(r) : Settled(d)
  PROVE  Claim[r] = FALSE /\ Effect[r] = "none"
  BY DEF Claim, Effect, EffectOn, Settled

\* The one attempt that is not settled makes the effect.
LEMMA UnsettledMaps ==
  ASSUME Inv, Known, NEW d \in Decisions, Used(d), outcome[d] # "none",
         \A e \in Decisions :
            Used(e) /\ e # d /\ attempts[e].request = attempts[d].request => Settled(e)
  PROVE  LET r == attempts[d].request
         IN  /\ Claim[r] = FALSE
             /\ Effect[r] \in {"none", "approve", "reject", "maybe"}
             /\ outcome[d] = "confirmed" => Effect[r] = attempts[d].action
             /\ Settled(d) => Effect[r] = "none"
  <1> DEFINE r == attempts[d].request
  <1>1. r \in Requests /\ d \in AttemptsOn(r) /\ attempts[d].action \in Actions
    BY DEF Inv, Ownership, Used, AttemptsOn, Known, ActionsKnown
  <1>2. \A e \in AttemptsOn(r) : e \in Decisions /\ (e = d \/ Settled(e))
    BY DEF AttemptsOn, Used
  <1>3. Claim[r] = FALSE
    BY <1>1, <1>2 DEF Claim, Settled
  <1>4. CASE outcome[d] = "confirmed"
    <2>1. (CHOOSE e \in AttemptsOn(r) : outcome[e] = "confirmed") = d
      BY <1>1, <1>2, <1>4 DEF Settled
    <2>2. Effect[r] = attempts[d].action
      BY <1>1, <1>4, <2>1 DEF Effect, EffectOn
    <2> QED
      BY <1>1, <1>3, <1>4, <2>2 DEF Settled, Actions
  <1>5. CASE outcome[d] # "confirmed"
    <2>1. \A e \in AttemptsOn(r) : outcome[e] # "confirmed"
      BY <1>2, <1>5 DEF Settled
    <2>2. Effect[r] = IF \E e \in AttemptsOn(r) : outcome[e] = "unknown" THEN "maybe" ELSE "none"
      BY <1>1, <2>1 DEF Effect, EffectOn
    <2>3. Settled(d) => \A e \in AttemptsOn(r) : outcome[e] # "unknown"
      BY <1>2 DEF Settled
    <2> QED
      BY <1>3, <1>5, <2>2, <2>3
  <1> QED
    BY <1>4, <1>5

LEMMA NotedRefines ==
  ASSUME Inv, NEW r \in Requests, Noted(r)
  PROVE  Lifecycle!Arrive(r) \/ Lifecycle!Observe(r)
  <1>1. Claim' = Claim /\ Effect' = Effect
    BY NotedIsCalm, MappingUnchanged DEF Calm
  <1> QED
    BY <1>1 DEF Noted, Claim, Effect, Lifecycle!Arrive, Lifecycle!Observe

LEMMA RecoveredRefines ==
  ASSUME Inv, NEW found \in SUBSET Requests, Recovered(found)
  PROVE  Lifecycle!LoseTrack(found)
  <1>1. Claim' = Claim /\ Effect' = Effect
    BY RecoverAttempts, MappingUnchanged DEF Recovered
  <1> QED
    BY <1>1, RecoverAttempts DEF Recovered, Claim, Effect, Lifecycle!LoseTrack

LEMMA BeginRefines ==
  ASSUME ConstantsAssumption, Inv, NEW p \in Processes, BeginDecisions(p),
         NEW items \in SUBSET Requests, items = ask[p].items
  PROVE  Lifecycle!Claim(items)
  <1>1. /\ items \in SUBSET Requests
        /\ \A r \in items : decision[r] = "pending"
        /\ decision' = [r \in Requests |-> IF r \in items THEN "processing" ELSE decision[r]]
        /\ outcome' = outcome
        /\ \A d \in Decisions : Used(d) => Used(d)' /\ attempts'[d] = attempts[d]
        /\ \A d \in Decisions : Used(d)' /\ ~Used(d) => attempts'[d].request \in items
        /\ \A r \in items : \E d \in Decisions :
              ~Used(d) /\ Used(d)' /\ attempts'[d].request = r
    BY BeginAttempts
  <1>2. \A d \in Decisions : ~Used(d) => outcome[d] = "none"
    BY DEF Inv, Ownership
  <1>3. ASSUME NEW r \in items
        PROVE  /\ Claim[r] = FALSE /\ Effect[r] = "none"
               /\ Claim'[r] = TRUE /\ Effect'[r] = "none"
    <2>1. \A d \in AttemptsOn(r) : Settled(d)
      BY <1>1 DEF AttemptsOn, Inv, OpenIsSettled, Used
    <2>2. \A d \in AttemptsOn(r)' : d \in AttemptsOn(r) \/ outcome[d] = "none"
      BY <1>1, <1>2 DEF AttemptsOn, Used
    <2>3. \E d \in AttemptsOn(r)' : outcome[d] = "none"
      BY <1>1, <1>2 DEF AttemptsOn, Used
    <2>4. Claim'[r] = TRUE
      BY <1>1, <2>3 DEF Claim
    <2>5. Effect'[r] = "none"
      BY <1>1, <2>1, <2>2 DEF Effect, EffectOn, Settled
    <2> QED
      BY <1>1, <2>1, <2>4, <2>5, SettledMaps
  <1>4. ASSUME NEW r \in Requests \ items
        PROVE  Claim'[r] = Claim[r] /\ Effect'[r] = Effect[r]
    <2>1. AttemptsOn(r)' = AttemptsOn(r)
      BY <1>1 DEF AttemptsOn, Used
    <2>2. Claim'[r] = Claim[r]
      BY <1>1, <2>1 DEF Claim
    <2>3. CASE \E d \in AttemptsOn(r) : outcome[d] = "confirmed"
      <3> DEFINE c == CHOOSE d \in AttemptsOn(r) : outcome[d] = "confirmed"
      <3>1. attempts'[c] = attempts[c]
        BY <1>1, <2>3 DEF AttemptsOn, Used
      <3>2. EffectOn(r) = attempts[c].action /\ EffectOn(r)' = attempts'[c].action
        BY <1>1, <2>1, <2>3 DEF EffectOn
      <3> QED
        BY <2>2, <3>1, <3>2 DEF Effect
    <2>4. CASE ~ \E d \in AttemptsOn(r) : outcome[d] = "confirmed"
      BY <1>1, <2>1, <2>2, <2>4 DEF Effect, EffectOn
    <2> QED
      BY <2>3, <2>4
  <1>5. Claim' = [r \in Requests |-> Claim[r] \/ r \in items]
    <2>1. \A r \in Requests : Claim'[r] = (Claim[r] \/ r \in items)
      BY <1>3, <1>4 DEF Claim
    <2> QED
      BY <2>1 DEF Claim
  <1>6. Effect' = Effect
    BY <1>3, <1>4 DEF Effect
  <1>7. \A r \in items : decision[r] = "pending" /\ ~Claim[r] /\ Effect[r] = "none"
    BY <1>1, <1>3
  <1> QED
    BY <1>1, <1>5, <1>6, <1>7 DEF Claim, Effect, Lifecycle!Claim

LEMMA AnsweredRefines ==
  ASSUME Inv, Inv', Known', NEW p \in Processes, NEW d \in Decisions, Answered(p, d),
         NEW r \in Requests, r = attempts[d].request
  PROVE  Lifecycle!Act(r)
  <1>1. /\ Used(d) /\ outcome[d] = "none" /\ r \in Requests
        /\ \A e \in Decisions : Same(e)
        /\ \A e \in Decisions : e # d => outcome'[e] = outcome[e]
        /\ \A e \in Decisions : Used(e) /\ e # d /\ attempts[e].request = r => Settled(e)
    BY AnswerAttempts
  <1>2. /\ UNCHANGED <<attempts, decision>> /\ outcome'[d] # "none"
        /\ \A e \in Decisions :
              Used(e)' /\ e # d /\ attempts'[e].request = attempts'[d].request => Settled(e)'
    BY <1>1 DEF Answered, Settled, Used
  <1>3. Claim[r] /\ Effect[r] = "none"
    <2>1. \A e \in AttemptsOn(r) : outcome[e] # "confirmed" /\ outcome[e] # "unknown"
      BY <1>1 DEF AttemptsOn, Used, Settled
    <2>2. d \in AttemptsOn(r)
      BY <1>1 DEF AttemptsOn, Used
    <2> QED
      BY <1>1, <2>1, <2>2 DEF Claim, Effect, EffectOn
  <1>4. Claim'[r] = FALSE /\ Effect'[r] \in {"none", "approve", "reject", "maybe"}
    <2>1. Used(d)' /\ attempts'[d].request = r
      BY <1>1, <1>2 DEF Used
    <2>2. \A e \in AttemptsOn(r)' : e = d \/ Settled(e)'
      BY <1>2, <2>1 DEF AttemptsOn, Used
    <2>3. Claim'[r] = FALSE
      BY <1>1, <1>2, <2>2 DEF Claim, Settled
    <2>4. attempts'[d].action \in Actions
      BY <2>1 DEF Known, ActionsKnown
    <2>5. Effect'[r] = EffectOn(r)'
      BY <1>1 DEF Effect
    <2>6. EffectOn(r)' \in {"none", "approve", "reject", "maybe"}
      <3>1. CASE \E e \in AttemptsOn(r)' : outcome'[e] = "confirmed"
        <4>1. (CHOOSE e \in AttemptsOn(r)' : outcome'[e] = "confirmed") = d
          BY <2>2, <3>1 DEF Settled
        <4>2. EffectOn(r)' = attempts'[d].action
          BY <3>1, <4>1 DEF EffectOn
        <4> QED
          BY <2>4, <4>2 DEF Actions
      <3>2. CASE ~ \E e \in AttemptsOn(r)' : outcome'[e] = "confirmed"
        BY <3>2 DEF EffectOn
      <3> QED
        BY <3>1, <3>2
    <2> QED
      BY <2>3, <2>5, <2>6
  <1>5. ASSUME NEW x \in Requests, x # r PROVE Claim'[x] = Claim[x] /\ Effect'[x] = Effect[x]
    <2>1. AttemptsOn(x)' = AttemptsOn(x) /\ \A e \in AttemptsOn(x) : outcome'[e] = outcome[e]
      BY <1>1, <1>2, <1>5 DEF AttemptsOn
    <2>2. {e \in AttemptsOn(x)' : outcome'[e] = "confirmed"} = {e \in AttemptsOn(x) : outcome[e] = "confirmed"}
      BY <2>1
    <2>3. (CHOOSE e \in AttemptsOn(x)' : outcome'[e] = "confirmed")
             = (CHOOSE e \in AttemptsOn(x) : outcome[e] = "confirmed")
      BY <2>1
    <2> QED
      BY <1>2, <2>1, <2>3 DEF Claim, Effect, EffectOn
  <1>6. Claim' = [Claim EXCEPT ![r] = FALSE]
    BY <1>1, <1>4, <1>5 DEF Claim
  <1>7. Effect' = [Effect EXCEPT ![r] = Effect'[r]]
    BY <1>1, <1>5 DEF Effect
  <1> QED
    BY <1>2, <1>3, <1>4, <1>6, <1>7 DEF Claim, Effect, Lifecycle!Act, Lifecycle!Effects

LEMMA StoredRefines ==
  ASSUME Inv, Known, NEW d \in Decisions, Stored(d), NEW r \in Requests, r = attempts[d].request
  PROVE  Lifecycle!Settle(r) \/ Lifecycle!LoseTrack({r})
  <1>1. /\ \A e \in Decisions : Same(e)
        /\ r \in Requests /\ lastDecision[r] = d /\ decision[r] = "processing"
        /\ decision' = [decision EXCEPT ![r] = DecisionStatus(d)]
    BY StoreAttempts DEF Stored
  <1>2. Claim' = Claim /\ Effect' = Effect
    BY <1>1, MappingUnchanged DEF Stored
  <1>3. \A e \in Decisions : Used(e) /\ e # d /\ attempts[e].request = r => Settled(e)
    BY <1>1 DEF Inv, OpenIsSettled
  <1>4. /\ Claim[r] = FALSE
        /\ outcome[d] = "confirmed" => Effect[r] = attempts[d].action
        /\ Settled(d) => Effect[r] = "none"
    BY <1>3, UnsettledMaps DEF Stored
  <1>5. outcome[d] \in Outcomes /\ outcome[d] # "none" /\ attempts[d].action \in Actions
    BY DEF Stored, Inv, TypeOK, Known, ActionsKnown
  <1>6. CASE AttemptStatus(d) = "confirmed"
    <2>1. outcome[d] = "confirmed"
      BY <1>6 DEF AttemptStatus
    <2>2. \/ Effect[r] = "approve" /\ DecisionStatus(d) = "approved"
          \/ Effect[r] = "reject" /\ DecisionStatus(d) = "rejected"
      BY <1>4, <1>5, <1>6, <2>1 DEF DecisionStatus, Actions
    <2> QED
      BY <1>1, <1>2, <2>2 DEF Claim, Effect, Lifecycle!Settle
  <1>7. CASE AttemptStatus(d) = "unknown"
    <2>1. decision' = [x \in Requests |-> IF x \in {r} THEN "unknown" ELSE decision[x]]
      BY <1>1, <1>7 DEF DecisionStatus, Inv, TypeOK
    <2> QED
      BY <1>1, <1>2, <2>1 DEF Claim, Effect, Lifecycle!LoseTrack
  <1>8. CASE AttemptStatus(d) \notin {"confirmed", "unknown"}
    <2>1. Settled(d) /\ DecisionStatus(d) = "pending"
      BY <1>5, <1>8 DEF AttemptStatus, DecisionStatus, Settled, Outcomes, Answers
    <2> QED
      BY <1>1, <1>2, <1>4, <2>1 DEF Claim, Effect, Lifecycle!Settle
  <1> QED
    BY <1>6, <1>7, <1>8

LEMMA NextRefines ==
  ASSUME ConstantsAssumption, Inv, Known, Inv', Known', [Next]_vars
  PROVE  [Lifecycle!Next]_(Lifecycle!vars)
  <1> DEFINE Step == [Lifecycle!Next]_(Lifecycle!vars)
  <1>1. CASE Quiet
    <2>1. Claim' = Claim /\ Effect' = Effect /\ decision' = decision
      BY <1>1, UnchangedIsCalm, MappingUnchanged DEF Calm, Quiet
    <2> QED
      BY <2>1 DEF Claim, Effect, Lifecycle!vars
  <1>2. ASSUME NEW r \in Requests, Noted(r) PROVE Step
    BY <1>2, NotedRefines DEF Lifecycle!Next
  <1>3. ASSUME NEW p \in Processes, BeginDecisions(p) PROVE Step
    <2>1. PICK items \in SUBSET Requests : items = ask[p].items
      BY <1>3, BeginAttempts
    <2>2. Lifecycle!Claim(items)
      BY <1>3, <2>1, BeginRefines
    <2> QED
      BY <2>1, <2>2 DEF Lifecycle!Next
  <1>4. ASSUME NEW p \in Processes, NEW d \in Decisions, Answered(p, d) PROVE Step
    <2>1. PICK r \in Requests : r = attempts[d].request
      BY <1>4, AnswerAttempts
    <2>2. Lifecycle!Act(r)
      BY <1>4, <2>1, AnsweredRefines
    <2> QED
      BY <2>1, <2>2 DEF Lifecycle!Next
  <1>5. ASSUME NEW d \in Decisions, Stored(d) PROVE Step
    <2>1. PICK r \in Requests : r = attempts[d].request
      BY <1>5 DEF Stored, Inv, Ownership
    <2>2. Lifecycle!Settle(r) \/ Lifecycle!LoseTrack({r})
      BY <1>5, <2>1, StoredRefines
    <2> QED
      BY <2>1, <2>2 DEF Lifecycle!Next
  <1>6. ASSUME NEW found \in SUBSET Requests, Recovered(found) PROVE Step
    BY <1>6, RecoveredRefines DEF Lifecycle!Next
  <1> QED
    BY <1>1, <1>2, <1>3, <1>4, <1>5, <1>6, KindsOfSteps

LEMMA InitRefines == Init => Lifecycle!Init
  <1> SUFFICES ASSUME Init PROVE Lifecycle!Init
    OBVIOUS
  <1>1. \A r \in Requests : AttemptsOn(r) = {}
    BY DEF Init, AttemptsOn, NoAttempt
  <1> QED
    BY <1>1 DEF Init, EffectOn, Lifecycle!Init

\* The attempts, keys, leases and processes implement what JoinDecision promises.
THEOREM KeepsThePromise == Spec => ImplementsJoinDecision
  <1>1. ConstantsAssumption
    BY ConstantsAssumption
  <1>2. Inv /\ Known /\ Inv' /\ Known' /\ [Next]_vars => [Lifecycle!Next]_(Lifecycle!vars)
    BY <1>1, NextRefines
  <1> QED
    BY InitRefines, KnownHolds, <1>2, PTL DEF Spec, ImplementsJoinDecision, Lifecycle!Spec

-----------------------------------------------------------------------------
(* What the promise is worth: whatever keeps it stores a status that tells  *)
(* what was done.                                                           *)

Promised == Lifecycle!TypeOK /\ Lifecycle!StatusTellsTruth

\* A request arrives, is observed or is settled without anybody acting on it.
LEMMA PromiseOfOne ==
  ASSUME Promised, NEW r \in Requests, Lifecycle!Arrive(r) \/ Lifecycle!Observe(r) \/ Lifecycle!Settle(r)
  PROVE  Promised'
  <1>1. CASE Lifecycle!Arrive(r)
    BY <1>1 DEF Promised, Lifecycle!TypeOK, Lifecycle!StatusTellsTruth, Lifecycle!Statuses, Lifecycle!Arrive
  <1>2. CASE Lifecycle!Observe(r)
    BY <1>2 DEF Promised, Lifecycle!TypeOK, Lifecycle!StatusTellsTruth, Lifecycle!Statuses, Lifecycle!Observe
  <1>3. CASE Lifecycle!Settle(r)
    BY <1>3 DEF Promised, Lifecycle!TypeOK, Lifecycle!StatusTellsTruth, Lifecycle!Statuses, Lifecycle!Settle
  <1> QED
    BY <1>1, <1>2, <1>3

LEMMA PromiseOfSet ==
  ASSUME Promised, NEW S \in SUBSET Requests, Lifecycle!Claim(S) \/ Lifecycle!LoseTrack(S)
  PROVE  Promised'
  <1>1. CASE Lifecycle!Claim(S)
    BY <1>1 DEF Promised, Lifecycle!TypeOK, Lifecycle!StatusTellsTruth, Lifecycle!Statuses, Lifecycle!Claim
  <1>2. CASE Lifecycle!LoseTrack(S)
    BY <1>2 DEF Promised, Lifecycle!TypeOK, Lifecycle!StatusTellsTruth, Lifecycle!Statuses, Lifecycle!LoseTrack
  <1> QED
    BY <1>1, <1>2

\* Acting uses up a claim, and what is claimed is neither open nor decided.
LEMMA PromiseOfAct ==
  ASSUME Promised, NEW r \in Requests, Lifecycle!Act(r)
  PROVE  Promised'
  <1> DEFINE claims == [x \in Requests |-> \E d \in AttemptsOn(x) : outcome[d] = "none"]
             effects == [x \in Requests |-> EffectOn(x)]
  <1>1. /\ decision' = decision /\ claims[r] /\ effects[r] = "none"
        /\ claims' = [claims EXCEPT ![r] = FALSE]
        /\ \E e \in Lifecycle!Effects : effects' = [effects EXCEPT ![r] = e]
    BY DEF Lifecycle!Act
  <1>2. decision \in [Requests -> Lifecycle!Statuses] /\ claims \in [Requests -> BOOLEAN]
        /\ effects \in [Requests -> Lifecycle!Effects]
        /\ \A x \in Requests : /\ decision[x] \in {"absent", "pending"} => ~claims[x] /\ effects[x] = "none"
                               /\ decision[x] = "approved" => effects[x] = "approve"
                               /\ decision[x] = "rejected" => effects[x] = "reject"
                               /\ claims[x] => effects[x] = "none"
    BY DEF Promised, Lifecycle!TypeOK, Lifecycle!StatusTellsTruth
  <1>3. (decision' \in [Requests -> Lifecycle!Statuses] /\ claims' \in [Requests -> BOOLEAN]
         /\ effects' \in [Requests -> Lifecycle!Effects]
         /\ \A x \in Requests : /\ decision'[x] \in {"absent", "pending"} => ~claims'[x] /\ effects'[x] = "none"
                                /\ decision'[x] = "approved" => effects'[x] = "approve"
                                /\ decision'[x] = "rejected" => effects'[x] = "reject"
                                /\ claims'[x] => effects'[x] = "none") => Promised'
    BY DEF Promised, Lifecycle!TypeOK, Lifecycle!StatusTellsTruth
  <1> HIDE DEF claims, effects
  <1>4. decision[r] \notin {"absent", "pending", "approved", "rejected"}
    BY <1>1, <1>2
  <1> QED
    BY <1>1, <1>2, <1>3, <1>4

\* An open request was not acted on and a decided one was, as decided: what the
\* status column of group_join_requests promises to administrators, and what attempts,
\* leases and keys keep.
THEOREM StatusIsTrue == Spec => []Lifecycle!StatusTellsTruth
  <1>1. Lifecycle!Init => Promised
    BY DEF Lifecycle!Init, Promised, Lifecycle!TypeOK, Lifecycle!StatusTellsTruth, Lifecycle!Statuses,
           Lifecycle!Effects
  <1>2. Promised /\ [Lifecycle!Next]_(Lifecycle!vars) => Promised'
    <2> SUFFICES ASSUME Promised, [Lifecycle!Next]_(Lifecycle!vars) PROVE Promised'
      OBVIOUS
    <2>1. CASE Lifecycle!Next
      BY <2>1, PromiseOfOne, PromiseOfSet, PromiseOfAct DEF Lifecycle!Next
    <2>2. CASE UNCHANGED Lifecycle!vars
      BY <2>2 DEF Promised, Lifecycle!TypeOK, Lifecycle!StatusTellsTruth, Lifecycle!vars
    <2> QED
      BY <2>1, <2>2
  <1>3. Promised => Lifecycle!StatusTellsTruth
    BY DEF Promised
  <1> QED
    BY <1>1, <1>2, <1>3, KeepsThePromise, PTL DEF ImplementsJoinDecision, Lifecycle!Spec

-----------------------------------------------------------------------------
(* The policy of the moment.  What the worker has listed or asks for is as  *)
(* old as the revision of the policy that came with it; if the policy still *)
(* has that revision, no update has made the request too old meanwhile.     *)

Current(r, n) ==
    /\ parsed[r] /\ n <= policy[GroupOf[r]].revision
    /\ n = policy[GroupOf[r]].revision => fresh[r]

Standing ==
    /\ \A c \in candidates : Current(c.request, c.policy.revision)
    /\ \A p \in Processes : ask[p] # None /\ ask[p].source = "automatic" =>
          \A r \in ask[p].items : /\ ask[p].group = GroupOf[r] /\ ask[p].policyRevision \in Nat
                                  /\ Current(r, ask[p].policyRevision)

LEMMA InitStanding == Init => Standing
  BY DEF Init, Standing

LEMMA CurrentStays ==
  ASSUME ConstantsAssumption, Inv, [Next]_vars, NEW r \in Requests, NEW n \in Nat, Current(r, n)
  PROVE  Current(r, n)'
  <1> USE DEF rows, memory, history
  <1>1. CASE UNCHANGED <<parsed, fresh, policy>>
    BY <1>1 DEF Current
  <1>2. ASSUME NEW x \in Requests, NEW processed \in BOOLEAN, Record(x, processed)
        PROVE Current(r, n)'
    BY <1>2 DEF Record, Current, Inv, TypeOK
  <1>3. ASSUME NEW x \in Requests, ParseApplicant(x) PROVE Current(r, n)'
    BY <1>3 DEF ParseApplicant, Current, Inv, TypeOK
  <1>4. ASSUME NEW g \in Groups, NEW enabled \in BOOLEAN, NEW autoReject \in BOOLEAN,
               UpdatePolicy(g, enabled, autoReject) PROVE Current(r, n)'
    <2>1. GroupOf[r] \in Groups /\ policy[GroupOf[r]].revision \in Nat
      BY DEF ConstantsAssumption, Inv, TypeOK, Policy
    <2>2. parsed'[r] /\ fresh'[r] = (fresh[r] /\ GroupOf[r] # g)
      BY <1>4 DEF UpdatePolicy, Current
    <2>3. CASE GroupOf[r] = g
      <3>1. policy'[GroupOf[r]].revision = policy[GroupOf[r]].revision + 1
        BY <1>4, <2>1, <2>3 DEF UpdatePolicy, Inv, TypeOK
      <3> QED
        BY <2>1, <2>2, <3>1 DEF Current
    <2>4. CASE GroupOf[r] # g
      <3>1. policy'[GroupOf[r]] = policy[GroupOf[r]]
        BY <1>4, <2>1, <2>4 DEF UpdatePolicy, Inv, TypeOK
      <3> QED
        BY <2>2, <2>4, <3>1 DEF Current
    <2> QED
      BY <2>3, <2>4
  <1>5. ASSUME NEW d \in Decisions, RetryCompletion(d) PROVE Current(r, n)'
    <2>1. UNCHANGED <<parsed, fresh, policy>>
      BY <1>5 DEF RetryCompletion, StoreCompletion
    <2> QED
      BY <1>1, <2>1
  <1>6. ASSUME NEW p \in Processes, Execute(p) PROVE Current(r, n)'
    <2>1. UNCHANGED <<parsed, fresh, policy>>
      BY <1>6 DEF Execute, BeginDecisions, ReplayDecisions, RefuseDecisions, CallGateway,
                  CompleteDecision, StoreCompletion, FailCompletion
    <2> QED
      BY <1>1, <2>1
  <1> QED
    BY <1>1, <1>2, <1>3, <1>4, <1>5, <1>6
       DEF Next, ObserveProcessed, LeaseLapses, Submit, CancelBatch, Return, SkipItem,
           RecoverInterrupted, Start, Recover, ListAutoCandidates, PassOver, Review, Crash, vars

LEMMA NextStanding ==
  ASSUME ConstantsAssumption, Inv, Standing, [Next]_vars
  PROVE  Standing'
  <1> USE DEF rows, memory, history
  <1>type. /\ \A c \in candidates : c.request \in Requests /\ c.policy.revision \in Nat
           /\ \A p \in Processes : ask[p] # None => ask[p].items \in SUBSET Requests
    BY DEF Inv, TypeOK, Policy, BeginMutation
  <1>stays. /\ \A c \in candidates : Current(c.request, c.policy.revision)'
            /\ \A p \in Processes : ask[p] # None /\ ask[p].source = "automatic" =>
                  \A r \in ask[p].items :
                     /\ ask[p].group = GroupOf[r] /\ ask[p].policyRevision \in Nat
                     /\ \A n \in Nat : n = ask[p].policyRevision => Current(r, n)'
    <2>1. ASSUME NEW c \in candidates PROVE Current(c.request, c.policy.revision)'
      <3>1. PICK r \in Requests, n \in Nat : r = c.request /\ n = c.policy.revision
        BY <1>type
      <3>2. Current(r, n)
        BY <3>1 DEF Standing
      <3>3. Current(r, n)'
        BY <3>2, CurrentStays
      <3> QED
        BY <3>1, <3>3
    <2>2. ASSUME NEW p \in Processes, ask[p] # None, ask[p].source = "automatic",
                 NEW r \in ask[p].items
          PROVE  /\ ask[p].group = GroupOf[r] /\ ask[p].policyRevision \in Nat
                 /\ \A n \in Nat : n = ask[p].policyRevision => Current(r, n)'
      <3>1. /\ r \in Requests /\ ask[p].group = GroupOf[r] /\ ask[p].policyRevision \in Nat
            /\ Current(r, ask[p].policyRevision)
        BY <1>type, <2>2 DEF Standing
      <3>2. ASSUME NEW n \in Nat, n = ask[p].policyRevision PROVE Current(r, n)'
        <4>1. Current(r, n)
          BY <3>1, <3>2
        <4> QED
          BY <3>1, <4>1, CurrentStays
      <3> QED
        BY <3>1, <3>2
    <2> QED
      BY <2>1, <2>2
  <1>less. ASSUME candidates' \subseteq candidates,
                  \A p \in Processes : ask'[p] = ask[p] \/ ask'[p] = None
           PROVE  Standing'
    BY <1>stays, <1>less DEF Standing, Current
  <1>1. ASSUME NEW h \in Handlers, NEW items \in SUBSET Requests, NEW kind \in {"single", "bulk"},
               NEW action \in Actions, NEW key \in Keys, Submit(h, items, kind, action, key)
        PROVE Standing'
    <2>1. /\ ask'[h].source = "manual" /\ candidates' = candidates
          /\ \A p \in Processes : p # h => ask'[p] = ask[p]
      BY <1>1 DEF Submit, Inv, TypeOK, Processes
    <2> QED
      BY <1>stays, <2>1 DEF Standing, Current
  <1>2. CASE ListAutoCandidates
    <2>1. ask' = ask /\ UNCHANGED <<parsed, fresh, policy>>
      BY <1>2 DEF ListAutoCandidates
    <2>2. ASSUME NEW c \in candidates' PROVE Current(c.request, c.policy.revision)'
      <3>1. PICK r \in Requests : AutoCandidate(r) /\ c.request = r /\ c.policy = policy[GroupOf[r]]
        BY <1>2, <2>2 DEF ListAutoCandidates
      <3>2. policy[GroupOf[r]].revision \in Nat
        BY DEF ConstantsAssumption, Inv, TypeOK, Policy
      <3> QED
        BY <2>1, <3>1, <3>2 DEF AutoCandidate, Current
    <2> QED
      BY <1>stays, <2>1, <2>2 DEF Standing
  <1>3. ASSUME NEW c \in candidates, NEW action \in Actions, Review(c, action) PROVE Standing'
    <2>1. /\ ask'[Worker].items = {c.request} /\ ask'[Worker].group = GroupOf[c.request]
          /\ ask'[Worker].policyRevision = c.policy.revision /\ candidates' \subseteq candidates
          /\ \A p \in Processes : p # Worker => ask'[p] = ask[p]
      BY <1>3 DEF Review, Inv, TypeOK, Processes
    <2> QED
      BY <1>type, <1>stays, <2>1 DEF Standing, Current
  <1>4. ASSUME NEW p \in Processes, Execute(p) PROVE Standing'
    <2>1. candidates' = candidates /\ \A q \in Processes : ask'[q] = ask[q] \/ ask'[q] = None
      BY <1>4 DEF Execute, BeginDecisions, ReplayDecisions, RefuseDecisions, CallGateway,
                  CompleteDecision, FailCompletion, Inv, TypeOK
    <2> QED
      BY <1>less, <2>1
  <1>5. CASE Crash
    <2>1. candidates' = {} /\ \A q \in Processes : ask'[q] = None
      BY <1>5 DEF Crash, EmptyMemory
    <2> QED
      BY <1>less, <2>1
  <1>6. ASSUME NEW d \in Decisions, RetryCompletion(d) PROVE Standing'
    BY <1>6, <1>less DEF RetryCompletion
  <1> QED
    BY <1>1, <1>2, <1>3, <1>4, <1>5, <1>6, <1>less
       DEF Next, Record, ParseApplicant, ObserveProcessed, LeaseLapses, UpdatePolicy, CancelBatch,
           Return, SkipItem, RecoverInterrupted, Start, PassOver, vars

LEMMA BeginHonours ==
  ASSUME ConstantsAssumption, Inv, Standing, NEW p \in Processes, BeginDecisions(p),
         NEW d \in Decisions, ~Used(d), Used(d)', attempts'[d].source = "automatic"
  PROVE  LET r == attempts'[d].request
             g == policy[GroupOf[r]]
         IN  /\ fresh[r] /\ parsed[r]
             /\ IF attempts'[d].action = "approve" THEN g.enabled ELSE g.auto_reject
  <1> DEFINE m == ask[p]
  <1>1. /\ attempts'[d].request \in m.items /\ attempts'[d].action = m.action
        /\ m.source = "automatic"
    BY BeginAttempts
  <1>2. m # None /\ PolicyAllows(m) /\ m.action \in Actions
    BY DEF BeginDecisions, Inv, TypeOK, BeginMutation
  <1>3. PICK r \in m.items : r = attempts'[d].request
    BY <1>1
  <1>4. m.group = GroupOf[r] /\ Current(r, m.policyRevision)
    BY <1>1, <1>2 DEF Standing
  <1> QED
    BY <1>1, <1>2, <1>3, <1>4 DEF PolicyAllows, Current, Actions

\* The worker starts an attempt only under the policy that is in force, on a request
\* that is not older than it.
THEOREM PolicyIsHonoured == Spec => AutomaticHonoursPolicy
  <1>1. ConstantsAssumption
    BY ConstantsAssumption
  <1> DEFINE Honours ==
        \A d \in Decisions :
          (/\ attempts[d].status = "unused" /\ attempts'[d].status # "unused"
           /\ attempts'[d].source = "automatic") =>
             LET r == attempts'[d].request
                 g == policy[GroupOf[r]]
             IN  /\ fresh[r] /\ parsed[r]
                 /\ IF attempts'[d].action = "approve" THEN g.enabled ELSE g.auto_reject
  <1>2. ASSUME Inv, Standing, [Next]_vars PROVE Honours
    <2> SUFFICES ASSUME NEW d \in Decisions, ~Used(d), Used(d)', attempts'[d].source = "automatic"
                 PROVE  LET r == attempts'[d].request
                            g == policy[GroupOf[r]]
                        IN  /\ fresh[r] /\ parsed[r]
                            /\ IF attempts'[d].action = "approve" THEN g.enabled ELSE g.auto_reject
      BY DEF Used
    <2>1. PICK p \in Processes : BeginDecisions(p)
      <3>1. ASSUME \A e \in Decisions : Same(e) PROVE FALSE
        BY <3>1 DEF Same
      <3>2. Quiet => \A e \in Decisions : Same(e)
        BY UnchangedIsCalm DEF Quiet, Calm
      <3>3. \A r \in Requests : Noted(r) => \A e \in Decisions : Same(e)
        BY <1>2, NotedIsCalm DEF Calm
      <3>4. \A q \in Processes, x \in Decisions : Answered(q, x) => \A e \in Decisions : Same(e)
        BY <1>2, AnswerAttempts
      <3>5. \A x \in Decisions : Stored(x) => \A e \in Decisions : Same(e)
        BY <1>2, StoreAttempts DEF Stored
      <3>6. \A found \in SUBSET Requests : Recovered(found) => \A e \in Decisions : Same(e)
        BY <1>2, RecoverAttempts DEF Recovered
      <3> QED
        BY <1>2, <3>1, <3>2, <3>3, <3>4, <3>5, <3>6, KindsOfSteps
    <2> QED
      BY <1>1, <1>2, <2>1, BeginHonours
  <1>3. Inv /\ Standing /\ [Next]_vars => Standing'
    BY <1>1, NextStanding
  <1>4. Inv /\ Standing /\ [Next]_vars => [Honours]_vars
    BY <1>2
  <1> QED
    BY InitStanding, InvHolds, <1>3, <1>4, PTL DEF Spec, AutomaticHonoursPolicy
=============================================================================
