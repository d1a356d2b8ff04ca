--------------------------- MODULE KnowledgeReload --------------------------
(***************************************************************************)
(* The knowledge base and its reloads: src/internal/knowledge (Syncer),    *)
(* src/internal/knowledge/knowledgeadmin and the transactions of           *)
(* src/internal/platform/storage/manager_knowledge.go.                     *)
(*                                                                         *)
(* The workbook is downloaded, saved as the cache file and put into the    *)
(* index that answers questions.  An administrator's reload is a row of    *)
(* system_operations that a goroutine moves from accepted over running to  *)
(* a result; the bot's /reload command downloads without a row.  Both go   *)
(* through the mutex of RuntimeStore.                                      *)
(*                                                                         *)
(* Versions of the workbook are counted; 0 is no content at all.  The      *)
(* status page shows the latest operation over the state of the store.     *)
(***************************************************************************)
EXTENDS Integers, Sequences, FiniteSets

CONSTANTS
    ReloadKeys,     \* idempotency keys
    Requests,       \* concurrent requests to reload
    MaxReloads,     \* bound: rows of system_operations
    MaxSource,      \* bound: versions of the workbook
    MaxFaults,      \* bound: database calls that fail or lose their answer
    MaxAged         \* bound: keys that grow a day old

ReloadAssumption ==
    /\ IsFiniteSet(ReloadKeys) /\ IsFiniteSet(Requests)
    /\ {MaxReloads, MaxFaults, MaxAged} \subseteq Nat /\ MaxSource \in Nat \ {0}

VARIABLES
    process,        \* the process runs: "up", "stopping" or "down"
    faults,
    source,         \* the workbook at WPS
    cache,          \* the cache file
    reloads,        \* system_operations, with their idempotency rows
    index,          \* IndexRef: what questions are answered from
    syncing,        \* Syncer.Sync of each caller, and the version it downloaded
    request,        \* StartReload in progress
    reloader,       \* the goroutine of each reload: runReload
    bot,            \* the bot's /reload command
    latest,         \* the operation the status page shows: reloadOverlay
    aged

knowledgeVars == <<source, cache, reloads, index, syncing, request, reloader, bot, latest, aged>>
reloadVars == <<process, faults, knowledgeVars>>

-----------------------------------------------------------------------------
(* Types.                                                                   *)

ReloadStatuses == {"accepted", "running", "succeeded", "failed"}
Done == {"succeeded", "failed"}

\* since is history: the version of the workbook when the reload was asked for.
Reload == [key: ReloadKeys, status: ReloadStatuses, since: Nat,
           idem: {"in_progress", "completed", "none"}, aged: BOOLEAN]

NoRequest == [pc |-> "idle", op |-> 0, status |-> "accepted", fresh |-> FALSE]
NoOverlay == [op |-> 0, status |-> "accepted"]
NotSyncing == [pc |-> "free", got |-> 0]

\* Who reloads: the goroutine of an operation, or the bot.
Bot == -1
Syncers == 1..MaxReloads \cup {Bot}

ReloadTypeOK ==
    /\ source \in 1..MaxSource /\ cache \in 0..MaxSource /\ index \in 0..MaxSource
    /\ reloads \in Seq(Reload) /\ aged \in 0..MaxAged
    /\ syncing \in [Syncers -> [pc: {"free", "save", "store"}, got: 0..MaxSource]]
    /\ request \in [Requests -> [pc: {"idle", "begun"}, op: Nat, status: ReloadStatuses, fresh: BOOLEAN]]
    /\ reloader \in [1..MaxReloads -> {"none", "starting", "waiting", "syncing", "succeeded", "failed"}]
    /\ bot \in {"idle", "waiting", "syncing"}
    /\ latest \in [op: Nat, status: ReloadStatuses]

-----------------------------------------------------------------------------
(* The operations.                                                          *)

DbReplies == {"done", "lost", "refused"}

Store(o) ==
    \/ o = "done" /\ UNCHANGED faults
    \/ o # "done" /\ faults < MaxFaults /\ faults' = faults + 1

\* The operations whose key is still stored: at most one for a key.  A key that
\* is a day old is deleted when it is used again, if its operation is complete.
KeyHolders(k) ==
    {o \in DOMAIN reloads :
        /\ reloads[o].key = k /\ reloads[o].idem # "none"
        /\ ~(reloads[o].aged /\ reloads[o].idem = "completed")}

OpenReloads == {o \in DOMAIN reloads : reloads[o].status \in {"accepted", "running"}}

MayBegin == OpenReloads = {}

\* BeginKnowledgeReload with a key that is not stored.
BegunReload(k) ==
    Append([o \in DOMAIN reloads |->
              IF reloads[o].key = k THEN [reloads[o] EXCEPT !.idem = "none"] ELSE reloads[o]],
           [key |-> k, status |-> "accepted", since |-> source, idem |-> "in_progress", aged |-> FALSE])

\* managerValidKnowledgeTransition: accepted may become running or failed,
\* running may become a result.  TransitionKnowledgeReload agrees to a result
\* that is already there.
ReloadAccepts(o, from, to) ==
    \/ reloads[o].status = to /\ to \in Done /\ reloads[o].idem = "completed"
    \/ /\ reloads[o].status = from /\ reloads[o].idem = "in_progress"
       /\ \/ from = "accepted" /\ to \in {"running", "failed"}
          \/ from = "running" /\ to \in Done

MovedReload(o, to) ==
    [reloads EXCEPT ![o].status = to, ![o].idem = IF to \in Done THEN "completed" ELSE @]

\* setLatest: an operation never replaces one that was requested after it.
Shown(o, status) ==
    IF latest.op > o THEN latest ELSE [op |-> o, status |-> status]

\* StartReload: the operation of the key is returned, or a reload begins unless
\* another one is open.
StartReload(h, k, o) ==
    LET holders == KeyHolders(k) IN
    /\ process = "up" /\ request[h] = NoRequest
    /\ IF holders # {}
          THEN /\ \E p \in holders :
                     request' = [request EXCEPT ![h] = [pc |-> "begun", op |-> p, fresh |-> FALSE,
                                                        status |-> reloads[p].status]]
               /\ o = "done" /\ UNCHANGED <<reloads, faults>>
          ELSE /\ MayBegin /\ Len(reloads) < MaxReloads
               /\ o # "refused" /\ Store(o)
               /\ reloads' = BegunReload(k)
               /\ request' = IF o = "done"
                                THEN [request EXCEPT ![h] = [pc |-> "begun", op |-> Len(reloads) + 1,
                                                             fresh |-> TRUE, status |-> "accepted"]]
                                ELSE request
    /\ UNCHANGED <<process, source, cache, index, syncing, reloader, bot, latest, aged>>

\* After its transaction the request shows what it read there, and starts the
\* goroutine of a reload that it began.
ShowRequest(h) ==
    /\ process # "down" /\ request[h].pc = "begun"
    /\ latest' = Shown(request[h].op, request[h].status)
    /\ reloader' = IF request[h].fresh THEN [reloader EXCEPT ![request[h].op] = "starting"] ELSE reloader
    /\ request' = [request EXCEPT ![h] = NoRequest]
    /\ UNCHANGED <<process, faults, source, cache, reloads, index, syncing, bot, aged>>

\* persistTransition tries until the transition is agreed to, or the process
\* stops.  When the answer of a transition to running is lost it never is.
BeginRunning(o, r) ==
    /\ process = "up" /\ reloader[o] = "starting"
    /\ ReloadAccepts(o, "accepted", "running")
    /\ r # "refused" /\ Store(r)
    /\ reloads' = MovedReload(o, "running")
    /\ IF r = "done"
          THEN reloader' = [reloader EXCEPT ![o] = "waiting"] /\ latest' = Shown(o, "running")
          ELSE UNCHANGED <<reloader, latest>>
    /\ UNCHANGED <<process, source, cache, index, syncing, request, bot, aged>>

FinishReload(o, r) ==
    /\ process = "up" /\ reloader[o] \in Done
    /\ ReloadAccepts(o, "running", reloader[o])
    /\ r # "refused" /\ Store(r)
    /\ reloads' = MovedReload(o, reloader[o])
    /\ IF r = "done"
          THEN reloader' = [reloader EXCEPT ![o] = "none"] /\ latest' = Shown(o, reloader[o])
          ELSE UNCHANGED <<reloader, latest>>
    /\ UNCHANGED <<process, source, cache, index, syncing, request, bot, aged>>

-----------------------------------------------------------------------------
(* The reload itself: RuntimeStore.Reload and Syncer.Sync.                  *)

\* The goroutine of who goes on with its reload in this state.
Moves(who, state) ==
    /\ reloader' = IF who = Bot THEN reloader ELSE [reloader EXCEPT ![who] = state]
    /\ bot' = IF who # Bot THEN bot ELSE IF state \in Done THEN "idle" ELSE state

WaitsForMutex(who) ==
    IF who = Bot THEN bot = "waiting" ELSE reloader[who] = "waiting"

\* The /reload command.
AskBot ==
    /\ process = "up" /\ bot = "idle"
    /\ bot' = "waiting"
    /\ UNCHANGED <<process, faults, source, cache, reloads, index, syncing, request, reloader, latest, aged>>

MutexIsFree == \A who \in Syncers : syncing[who] = NotSyncing

\* With the mutex the workbook is downloaded and parsed.
Download(who) ==
    /\ process = "up" /\ WaitsForMutex(who) /\ MutexIsFree
    /\ syncing' = [syncing EXCEPT ![who] = [pc |-> "save", got |-> source]]
    /\ Moves(who, "syncing")
    /\ UNCHANGED <<process, faults, source, cache, reloads, index, request, latest, aged>>

\* The download, the workbook or the deadline of the reload is at fault: nothing
\* changed.  (Every such error is the result "failed" of an operation.)
FailDownload(who) ==
    /\ process # "down" /\ WaitsForMutex(who) /\ MutexIsFree
    /\ Moves(who, "failed")
    /\ UNCHANGED <<process, faults, source, cache, reloads, index, syncing, request, latest, aged>>

\* saveAtomic, then the index.
SaveCache(who) ==
    /\ process # "down" /\ syncing[who].pc = "save"
    /\ cache' = syncing[who].got
    /\ syncing' = [syncing EXCEPT ![who].pc = "store"]
    /\ UNCHANGED <<process, faults, source, reloads, index, request, reloader, bot, latest, aged>>

\* Mutant: the index is stored whether the file was saved or not.
KeptOnFailure(who) == syncing[who].got

\* What the index holds when the file could not be saved.
IndexOnFailure(who) == index

FailSave(who) ==
    /\ process # "down" /\ syncing[who].pc = "save"
    /\ syncing' = [syncing EXCEPT ![who] = NotSyncing]
    /\ index' = IndexOnFailure(who)
    /\ Moves(who, "failed")
    /\ UNCHANGED <<process, faults, source, cache, reloads, request, latest, aged>>

StoreIndex(who) ==
    /\ process # "down" /\ syncing[who].pc = "store"
    /\ index' = syncing[who].got
    /\ syncing' = [syncing EXCEPT ![who] = NotSyncing]
    /\ Moves(who, "succeeded")
    /\ UNCHANGED <<process, faults, source, cache, reloads, request, latest, aged>>

\* Somebody edits the workbook.
EditWorkbook ==
    /\ source < MaxSource /\ source' = source + 1
    /\ UNCHANGED <<process, faults, cache, reloads, index, syncing, request, reloader, bot, latest, aged>>

AgeKey(o) ==
    /\ o \in DOMAIN reloads /\ ~reloads[o].aged /\ aged < MaxAged
    /\ reloads' = [reloads EXCEPT ![o].aged = TRUE] /\ aged' = aged + 1
    /\ UNCHANGED <<process, faults, source, cache, index, syncing, request, reloader, bot, latest>>

-----------------------------------------------------------------------------
(* The life of the process.  These say what a crash and a start do here.    *)

\* Memory is lost; the cache file and the tables stay.
ForgetReloads ==
    /\ index' = 0 /\ latest' = NoOverlay
    /\ syncing' = [who \in Syncers |-> NotSyncing]
    /\ request' = [h \in Requests |-> NoRequest]
    /\ reloader' = [o \in 1..MaxReloads |-> "none"]
    /\ bot' = "idle"
    /\ UNCHANGED <<source, cache, reloads, aged>>

Interrupted(o) == o \in OpenReloads

\* initializeKnowledge downloads the workbook or falls back on the cache file; when it
\* cannot be loaded either the process runs with an empty index.
\* RecoverInterruptedKnowledgeReloads fails what an earlier process left open.
LoadReloads ==
    /\ \/ index' = source /\ cache' = source
       \/ index' \in {cache, 0} /\ UNCHANGED cache
    /\ reloads' = [o \in DOMAIN reloads |->
                     IF Interrupted(o) THEN [reloads[o] EXCEPT !.status = "failed", !.idem = "completed"]
                                       ELSE reloads[o]]
    /\ latest' = IF OpenReloads = {} THEN NoOverlay
                 ELSE [op |-> CHOOSE o \in OpenReloads : \A p \in OpenReloads : p <= o, status |-> "failed"]
    /\ UNCHANGED <<source, syncing, request, reloader, bot, aged>>

-----------------------------------------------------------------------------

ReloadInit ==
    /\ source = 1 /\ cache = 1 /\ index = 1
    /\ reloads = <<>> /\ latest = NoOverlay
    /\ syncing = [who \in Syncers |-> NotSyncing]
    /\ request = [h \in Requests |-> NoRequest]
    /\ reloader = [o \in 1..MaxReloads |-> "none"]
    /\ bot = "idle" /\ aged = 0

Syncing(who) ==
    Download(who) \/ FailDownload(who) \/ SaveCache(who) \/ FailSave(who) \/ StoreIndex(who)

ReloadNext ==
    \/ \E h \in Requests : ShowRequest(h)
    \/ \E h \in Requests, k \in ReloadKeys, o \in DbReplies : StartReload(h, k, o)
    \/ \E o \in 1..MaxReloads, r \in DbReplies : BeginRunning(o, r) \/ FinishReload(o, r)
    \/ \E who \in Syncers : Syncing(who)
    \/ \E o \in 1..MaxReloads : AgeKey(o)
    \/ AskBot \/ EditWorkbook

-----------------------------------------------------------------------------
(* Properties.                                                              *)

\* At most one reload of the administrators is open, and a key that is less
\* than a day old, or whose reload is open, stands for one operation:
\* BeginKnowledgeReload.
OneReloadAtATime ==
    /\ Cardinality(OpenReloads) <= 1
    /\ \A o, p \in DOMAIN reloads :
          (o < p /\ reloads[o].key = reloads[p].key) => reloads[o].aged /\ o \notin OpenReloads

\* Questions are answered from the workbook as it was when a finished reload was
\* asked for, or as it was later, across failures, crashes and starts from the
\* cache file: Syncer.Sync saves the file before it replaces the index.  (They are
\* not answered from it at all while the index is empty: after a start that could
\* load neither the workbook nor the file, until something is reloaded.)
ReloadsAreServed ==
    \A o \in DOMAIN reloads :
        reloads[o].status = "succeeded" => process = "down" \/ index = 0 \/ index >= reloads[o].since

\* The index never goes back to an earlier workbook, whoever reloads it, and
\* not over a start either: the cache file never goes back and is never behind
\* the index.  (The index is empty from the end of a process to its next start,
\* or, when that can load nothing, to the next reload.)
IndexNeverGoesBack ==
    [][/\ index # 0 /\ index' # 0 => index' >= index
       /\ cache' >= cache /\ index' <= cache']_reloadVars

\* The goroutine of an open reload is there, or the process ends.
ReloadKnown(o) ==
    o \in OpenReloads /\ (reloader[o] # "none" \/ process # "up")

\* The answer of a transition to running was lost: it is repeated for ever, and
\* no other reload can begin before the process ends.
ReloadLost(o) == reloader[o] = "starting" /\ ~ReloadAccepts(o, "accepted", "running")

\* A mutex of Go is given to whoever waits long enough; downloads have a
\* deadline; a database that answers again lets a transition through.
ReloadFairness ==
    /\ \A o \in 1..MaxReloads :
          WF_reloadVars(BeginRunning(o, "done")) /\ WF_reloadVars(FinishReload(o, "done"))
    /\ \A who \in Syncers : SF_reloadVars(Download(who) \/ FailDownload(who)) /\ WF_reloadVars(Syncing(who))
=============================================================================
