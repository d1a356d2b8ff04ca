--------------------------- MODULE GroupDirectory ---------------------------
(***************************************************************************)
(* The directory of QQ groups and what administrators do with it: syncs    *)
(* that replace it by the list NapCat gives, one at a time, and notices    *)
(* published to groups it shows (groups/service.go, groups/notices.go and  *)
(* the transactions of storage/manager_core_groups.go).                    *)
(*                                                                         *)
(* Both reserve an idempotency key in one transaction, call NapCat outside *)
(* any, and record the result in a second one.  A sync whose second        *)
(* transaction fails is repeated in the background; a publication is not.  *)
(* A row of the directory stands for its group and for the join policy     *)
(* that is created with it; names, roles and counts are left out.          *)
(***************************************************************************)
EXTENDS Integers

CONSTANTS
    Groups,
    Handlers,       \* concurrent management requests
    Keys,           \* idempotency keys, each of one administrator
    MaxVersion,     \* bound: changes of the groups the bot is in
    MaxOps,         \* bound: reservations made
    MaxFaults,      \* bound: transactions that fail or lose their answer
    MaxCrashes      \* bound: crashes

ASSUME GroupDirectoryAssumption == {MaxVersion, MaxOps, MaxFaults, MaxCrashes} \subseteq Nat

VARIABLES
    remote,     \* the groups the bot is in, and how often that changed
    managed,    \* managed_groups: shown or archived, and the version it was read at
    syncs,      \* rows of idempotency_keys by execution id, operation groups.sync
    notices,    \* the same of operation groups.notice.publish, with the audited result
    issued,     \* ids handed out
    up,
    call,       \* what each handler is doing
    retries,    \* completions and failures of syncs repeated in the background
    faults, crashes,
    orphans,    \* history: syncs reserved by a transaction whose answer was lost
    sent,       \* history: requests to publish, per key in its present life and group
    posted      \* history: <<publication, group>> where the notice appeared

\* What NapCat holds, and the history of it.
outside == <<remote, orphans, sent, posted>>
vars == <<remote, managed, syncs, notices, issued, up, call, retries,
          faults, crashes, orphans, sent, posted>>

Ids == 1..MaxOps
Idle == [phase |-> "idle"]
Become(h, state) == call' = [call EXCEPT ![h] = state]
Shown == {g \in DOMAIN managed : managed[g].shown}
Without(f, ids) == [i \in DOMAIN f \ ids |-> f[i]]
With(f, i, row) == [j \in DOMAIN f \cup {i} |-> IF j = i THEN row ELSE f[j]]

\* A transaction commits, fails, or commits and its answer is lost.
Db(outcome) ==
    IF outcome = "done" THEN UNCHANGED faults
    ELSE faults < MaxFaults /\ faults' = faults + 1

-----------------------------------------------------------------------------
(* Syncs.                                                                  *)

\* Mutant: a sync is refused only while one of its own key is active.
ActiveOfKey(rows, k) == {i \in DOMAIN rows : rows[i].state = "open" /\ rows[i].key = k}

\* Syncs in progress, of whatever key and administrator.
Active(rows, k) == {i \in DOMAIN rows : rows[i].state = "open"}

SyncsOf(k) == {i \in DOMAIN syncs : syncs[i].key = k}

\* Service.Sync up to BeginGroupSync.  An unexpired row of the key is replayed
\* and nothing changes; an expired one is deleted even if it is in progress.
BeginGroupSync(h, k, outcome) ==
    LET kept == Without(syncs, SyncsOf(k))
        i == issued + 1
    IN  /\ up /\ call[h] = Idle /\ i <= MaxOps
        /\ \A j \in SyncsOf(k) : syncs[j].expired
        /\ Active(kept, k) = {}
        /\ outcome # "failed" /\ Db(outcome)
        /\ issued' = i
        /\ syncs' = With(kept, i, [key |-> k, state |-> "open", expired |-> FALSE])
        /\ IF outcome = "lost" THEN orphans' = orphans \cup {i} /\ UNCHANGED call
           ELSE Become(h, [phase |-> "loading", id |-> i]) /\ UNCHANGED orphans
        /\ UNCHANGED <<remote, managed, notices, up, retries, crashes, sent, posted>>

\* loadRemoteGroups.  Without a connection or a usable list the sync fails.
LoadRemoteGroups(h) ==
    /\ call[h].phase = "loading"
    /\ \E found \in {{}, {remote}} :
         Become(h, [phase |-> "settling", id |-> call[h].id, found |-> found])
    /\ UNCHANGED <<outside, managed, syncs, notices, issued, up, retries, faults, crashes>>

\* The directory after a sync: what is not listed is archived.
Replaced(list) ==
    [g \in DOMAIN managed \cup list.groups |->
        IF g \in list.groups THEN [shown |-> TRUE, from |-> list.version]
        ELSE IF managed[g].shown THEN [shown |-> FALSE, from |-> list.version]
        ELSE managed[g]]

Open(i) == i \in DOMAIN syncs /\ syncs[i].state = "open"

\* CompleteGroupSync replays a success; FailGroupSync accepts what failed already.
Accepted(i, found) ==
    /\ i \in DOMAIN syncs
    /\ syncs[i].state \in IF found = {} THEN {"open", "failed", "unknown"} ELSE {"open", "succeeded"}

\* CompleteGroupSync if a list was found, FailGroupSync otherwise.
Settle(i, found, outcome) ==
    /\ Db(outcome)
    /\ IF outcome = "failed" \/ ~Open(i) THEN UNCHANGED <<syncs, managed>>
       ELSE /\ syncs' = [syncs EXCEPT ![i].state = IF found = {} THEN "failed" ELSE "succeeded"]
            /\ IF found = {} THEN UNCHANGED managed
               ELSE \E list \in found : managed' = Replaced(list)

\* Mutant: nobody repeats what could not be recorded.
RepeatedNever(i, found, accepted) == retries

\* scheduleCompletionRetry, scheduleFailureRetry
Repeated(i, found, accepted) ==
    IF accepted THEN retries ELSE retries \cup {[id |-> i, found |-> found]}

SettleSync(h, outcome) ==
    /\ call[h].phase = "settling"
    /\ LET i == call[h].id
           found == call[h].found
       IN  /\ Settle(i, found, outcome)
           /\ retries' = Repeated(i, found, outcome = "done" /\ Accepted(i, found))
    /\ Become(h, Idle)
    /\ UNCHANGED <<outside, notices, issued, up, crashes>>

\* startRetryWorker: until an attempt succeeds.
RetrySync(r, outcome) ==
    /\ r \in retries
    /\ Settle(r.id, r.found, outcome)
    /\ retries' = IF outcome = "done" /\ Accepted(r.id, r.found) THEN retries \ {r} ELSE retries
    /\ UNCHANGED <<outside, notices, issued, up, call, crashes>>

-----------------------------------------------------------------------------
(* Notices.                                                                *)

\* resolveNoticeTargets: every target is in the directory.
ResolveNoticeTargets(h, k, targets) ==
    /\ up /\ call[h] = Idle
    /\ targets # {} /\ targets \subseteq Shown
    /\ Become(h, [phase |-> "reserving", key |-> k, targets |-> targets])
    /\ UNCHANGED <<outside, managed, syncs, notices, issued, up, retries, faults, crashes>>

\* A row holds its key until it has expired, and while it is in progress.
Holds(i) == notices[i].state = "open" \/ ~notices[i].expired

NoticesOf(k) == {i \in DOMAIN notices : notices[i].key = k}

\* BeginGroupNoticePublication.  A key that is held is replayed if it is
\* completed, and refused if it is in progress or was used for other targets.
BeginGroupNoticePublication(h, outcome) ==
    LET k == call[h].key
        i == issued + 1
        gone == {j \in NoticesOf(k) : notices[j].state # "open"}
    IN  /\ call[h].phase = "reserving"
        /\ \A j \in NoticesOf(k) : ~Holds(j)
        /\ i <= MaxOps /\ Db(outcome)
        /\ IF outcome = "failed" THEN UNCHANGED <<issued, notices, sent>>
           ELSE /\ issued' = i
                /\ notices' = With(Without(notices, gone), i,
                     [key |-> k, targets |-> call[h].targets, state |-> "open",
                      items |-> <<>>, expired |-> FALSE])
                /\ sent' = IF gone = {} THEN sent
                           ELSE [x \in DOMAIN sent |-> IF x[1] = k THEN 0 ELSE sent[x]]
        /\ Become(h, IF outcome = "done"
                     THEN [phase |-> "publishing", id |-> i, key |-> k,
                           targets |-> call[h].targets, items |-> <<>>]
                     ELSE Idle)
        /\ UNCHANGED <<remote, managed, syncs, up, retries, crashes, orphans, posted>>

ReplayNotices(h) ==
    /\ call[h].phase = "reserving"
    /\ \E j \in NoticesOf(call[h].key) : Holds(j)
    /\ Become(h, Idle)
    /\ UNCHANGED <<outside, managed, syncs, notices, issued, up, retries, faults, crashes>>

\* What becomes of one target: "refused" stands for every failure before or
\* instead of publishing, "timeout" for all that ends a publication in the air: a
\* canceled request, a lost connection, an answer nobody understands.
Answers == {"confirmed", "denied", "refused", "timeout"}
Appears(answer) == CASE answer = "confirmed" -> {TRUE}
                     [] answer = "timeout" -> BOOLEAN
                     [] OTHER -> {FALSE}

\* Mutant: a timeout counts as a failure while the notice was being sent, too.
ItemStatusTimeoutFails(answer) ==
    CASE answer = "confirmed" -> "success" [] answer = "denied" -> "denied" [] OTHER -> "failed"

\* noticeFailureItem
ItemStatus(answer) ==
    CASE answer = "confirmed" -> "success"
      [] answer = "denied" -> "denied"
      [] answer = "timeout" -> "unknown"
      [] answer = "refused" -> "failed"

\* publishNoticeItems: its workers take the targets in any order.
PublishNoticeItem(h, g, answer) ==
    /\ call[h].phase = "publishing"
    /\ g \in call[h].targets \ DOMAIN call[h].items
    /\ Become(h, [call[h] EXCEPT !.items = With(@, g, ItemStatus(answer))])
    /\ sent' = IF answer \in {"confirmed", "timeout"}
               THEN [sent EXCEPT ![<<call[h].key, g>>] = @ + 1] ELSE sent
    /\ \E appears \in Appears(answer) :
         posted' = IF appears THEN posted \cup {<<call[h].id, g>>} ELSE posted
    /\ UNCHANGED <<remote, managed, syncs, notices, issued, up, retries, faults, crashes, orphans>>

Statuses(items) == {items[g] : g \in DOMAIN items}

\* summarizeNoticeResult and managerNoticeOutcome
NoticeOutcome(items) ==
    IF "success" \in Statuses(items) THEN "succeeded"
    ELSE IF "unknown" \in Statuses(items) THEN "unknown" ELSE "failed"

\* CompleteGroupNoticePublication, in the context of the request: if that has
\* ended, the transaction fails.
CompleteGroupNoticePublication(h, outcome) ==
    /\ call[h].phase = "publishing" /\ DOMAIN call[h].items = call[h].targets
    /\ Db(outcome)
    /\ LET i == call[h].id
       IN  IF outcome = "failed" \/ i \notin DOMAIN notices \/ notices[i].state # "open"
           THEN UNCHANGED notices
           ELSE notices' = [notices EXCEPT ![i].items = call[h].items,
                                           ![i].state = NoticeOutcome(call[h].items)]
    /\ Become(h, Idle)
    /\ UNCHANGED <<outside, managed, syncs, issued, up, retries, crashes>>

-----------------------------------------------------------------------------
(* Time, the groups the bot is in, and the process.                        *)

Busy(i) == \E h \in Handlers : "id" \in DOMAIN call[h] /\ call[h].id = i

\* A day has passed, longer than any request lasts.
Expire(i) ==
    /\ ~Busy(i)
    /\ \/ /\ i \in DOMAIN syncs /\ ~syncs[i].expired
          /\ syncs' = [syncs EXCEPT ![i].expired = TRUE] /\ UNCHANGED notices
       \/ /\ i \in DOMAIN notices /\ ~notices[i].expired
          /\ notices' = [notices EXCEPT ![i].expired = TRUE] /\ UNCHANGED syncs
    /\ UNCHANGED <<outside, managed, issued, up, call, retries, faults, crashes>>

ChangeRemote(groups) ==
    /\ remote.version < MaxVersion
    /\ remote' = [groups |-> groups, version |-> remote.version + 1]
    /\ UNCHANGED <<managed, syncs, notices, issued, up, call, retries, faults, crashes,
                   orphans, sent, posted>>

Crash ==
    /\ up /\ crashes < MaxCrashes
    /\ up' = FALSE /\ crashes' = crashes + 1
    /\ call' = [h \in Handlers |-> Idle] /\ retries' = {}
    /\ UNCHANGED <<outside, managed, syncs, notices, issued, faults>>

\* RecoverInterruptedOperations, before any request is served.
Start ==
    /\ ~up /\ up' = TRUE
    /\ syncs' = [i \in DOMAIN syncs |->
         IF syncs[i].state = "open" THEN [syncs[i] EXCEPT !.state = "unknown"] ELSE syncs[i]]
    /\ notices' = [i \in DOMAIN notices |->
         IF notices[i].state = "open"
         THEN [notices[i] EXCEPT !.state = "unknown",
                                 !.items = [g \in notices[i].targets |-> "unknown"]]
         ELSE notices[i]]
    /\ UNCHANGED <<outside, managed, issued, call, retries, faults, crashes>>

-----------------------------------------------------------------------------
\* The directory is empty before its first sync.
Init ==
    /\ remote \in [groups : SUBSET Groups, version : {1}]
    /\ managed \in {<<>>, [g \in Groups |-> [shown |-> TRUE, from |-> 0]]}
    /\ syncs = <<>> /\ notices = <<>> /\ issued = 0
    /\ up = TRUE
    /\ call = [h \in Handlers |-> Idle] /\ retries = {}
    /\ faults = 0 /\ crashes = 0
    /\ orphans = {} /\ posted = {}
    /\ sent = [x \in Keys \X Groups |-> 0]

Outcomes == {"done", "failed", "lost"}

Begin(h) ==
    \E k \in Keys :
        \/ \E o \in Outcomes : BeginGroupSync(h, k, o)
        \/ \E targets \in SUBSET Groups : ResolveNoticeTargets(h, k, targets)

Serve(h) ==
    \/ LoadRemoteGroups(h) \/ ReplayNotices(h)
    \/ \E o \in Outcomes : \/ SettleSync(h, o)
                           \/ BeginGroupNoticePublication(h, o)
                           \/ CompleteGroupNoticePublication(h, o)
    \/ \E g \in Groups, answer \in Answers : PublishNoticeItem(h, g, answer)

Retry(r) == \E o \in Outcomes : RetrySync(r, o)

Next ==
    \/ \E h \in Handlers : Begin(h) \/ Serve(h)
    \/ \E r \in retries : Retry(r)
    \/ \E i \in Ids : Expire(i)
    \/ \E groups \in SUBSET Groups : ChangeRemote(groups)
    \/ Crash \/ Start

Spec == Init /\ [][Next]_vars

\* Handlers run on, since their calls have deadlines; retry workers have a timer;
\* a process that is down is started.  Nothing makes administrators act.
Fairness ==
    /\ \A h \in Handlers : WF_vars(Serve(h))
    /\ WF_vars(\E r \in retries : Retry(r))
    /\ WF_vars(Start)

LiveSpec == Spec /\ Fairness

-----------------------------------------------------------------------------
(* Properties.                                                             *)

States == {"open", "succeeded", "failed", "unknown"}
ItemStatuses == {"success", "denied", "failed", "unknown"}

\* What each variable holds; a completed publication says something of every
\* target, and states are those the table knows (managed_groups, idempotency_keys).
TypeOK ==
    /\ remote.groups \subseteq Groups /\ remote.version \in Nat
    /\ DOMAIN managed \subseteq Groups
    /\ \A g \in DOMAIN managed : managed[g] \in [shown : BOOLEAN, from : Nat]
    /\ DOMAIN syncs \subseteq 1..issued /\ DOMAIN notices \subseteq 1..issued
    /\ \A i \in DOMAIN syncs : syncs[i] \in [key : Keys, state : States, expired : BOOLEAN]
    /\ \A i \in DOMAIN notices :
         /\ notices[i].state \in States /\ notices[i].key \in Keys
         /\ notices[i].targets \subseteq Groups
         /\ notices[i].state # "open" => notices[i].items \in [notices[i].targets -> ItemStatuses]
    /\ \A h \in Handlers :
         call[h].phase \in {"idle", "loading", "settling", "reserving", "publishing"}
    /\ \A r \in retries : r.id \in 1..issued

\* A list that was read earlier never replaces a later one, whichever handler,
\* retry or repetition brings it (BeginGroupSync, CompleteGroupSync).
DirectoryNeverGoesBack ==
    [][\A g \in DOMAIN managed' :
         \/ g \in DOMAIN managed /\ managed'[g] = managed[g]
         \/ \A e \in DOMAIN managed : managed'[g].from >= managed[e].from]_vars

\* Under one key a group is asked to show a notice at most once, however often
\* the request is repeated while the key is kept (BeginGroupNoticePublication).
NoticesOnce == \A x \in DOMAIN sent : sent[x] <= 1

\* What a completed publication says of a group is true: a success appeared, a
\* denial or failure did not, and the status of the whole follows from the groups;
\* only "unknown" leaves it open (noticeFailureItem, the recovery of the start).
NoticesTellTruth ==
    \A i \in DOMAIN notices : notices[i].state # "open" =>
        /\ \A g \in notices[i].targets :
             CASE notices[i].items[g] = "success" -> <<i, g>> \in posted
               [] notices[i].items[g] = "unknown" -> TRUE
               [] OTHER -> <<i, g>> \notin posted
        /\ notices[i].state = "succeeded" <=> \E g \in notices[i].targets : notices[i].items[g] = "success"
        /\ notices[i].state = "failed" => \A g \in notices[i].targets : <<i, g>> \notin posted

\* A notice is shown once under its key, and its record tells what was shown:
\* BeginGroupNoticePublication, CompleteGroupNoticePublication.
NoticesAreSound == TypeOK /\ NoticesOnce /\ NoticesTellTruth

\* A sync does not stay in progress, where it would shut out all others, unless
\* the answer to its reservation was lost (failSync, scheduleCompletionRetry,
\* RecoverInterruptedGroupSyncs).
SyncsEnd == \A i \in Ids : Open(i) /\ i \notin orphans ~> ~(Open(i) /\ i \notin orphans)

=============================================================================
