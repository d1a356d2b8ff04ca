-------------------------- MODULE SystemOperations --------------------------
(***************************************************************************)
(* Restarts and configuration: src/internal/management/system, the file    *)
(* editor of src/internal/platform/config, the transactions of             *)
(* src/internal/platform/storage/manager_core_system.go and the life of    *)
(* the process (src/cmd/bot, src/internal/platform/app).                   *)
(*                                                                         *)
(* An administrator restarts NapCat or the bot under an idempotency key,   *)
(* or edits the configuration file.  A restart of NapCat is a row of       *)
(* system_operations that a goroutine moves from accepted over running to  *)
(* a result, one goroutine at a time; a restart of the bot is a row that   *)
(* the next start of the process completes; an edit is an audit row with   *)
(* the result unknown, then the file, then the audit row's result.         *)
(*                                                                         *)
(* Keys belong to one administrator.  The hash of a NapCat request (its    *)
(* reason) is left out: a mismatch changes nothing.                        *)
(***************************************************************************)
EXTENDS Integers, Sequences, FiniteSets

CONSTANTS
    Keys,           \* idempotency keys
    Handlers,       \* concurrent HTTP requests
    MaxOps,         \* bound: rows of system_operations
    MaxUpdates,     \* bound: audit rows of configuration updates
    MaxFaults,      \* bound: database calls that fail or lose their answer
    MaxStops,       \* bound: crashes and signals
    MaxExpiries     \* bound: keys that grow a day old

ASSUME ConstantsAssumption ==
    /\ IsFiniteSet(Keys) /\ IsFiniteSet(Handlers)
    /\ {MaxOps, MaxUpdates, MaxFaults, MaxStops, MaxExpiries} \subseteq Nat

VARIABLES
    \* Kept
    ops,        \* system_operations, each with its row of admin_idempotency_keys
    audits,     \* admin_audit_logs of configuration updates
    file,       \* the version of the configuration file
    \* Memory of the process
    process,    \* "up", "stopping" (its context is cancelled) or "down"
    applied,    \* the version the process was started with
    handler,    \* requests in progress
    worker,     \* the goroutine of each NapCat restart: runRestart
    retries,    \* completions of audit rows repeated in the background
    \* Counters
    faults, stops, expiries

kept == <<ops, audits, file>>
memory == <<handler, worker, retries>>
counters == <<faults, stops, expiries>>
systemVars == <<kept, applied, memory, faults, expiries>>
vars == <<kept, process, applied, memory, counters>>

-----------------------------------------------------------------------------
(* Types.                                                                   *)

Statuses == {"accepted", "running", "succeeded", "failed", "unknown"}
Terminal == {"succeeded", "failed", "unknown"}

\* What NapCat's answer to set_restart is for the process: an undecodable one may
\* come of a restart that happened or of one that did not.
Answers == {"confirmed", "rejected", "unknown", "undecodable"}

\* idem follows the row's key: "none" once the key's row is deleted, which sets
\* the reference to NULL.  The last three fields are history: how often NapCat
\* was asked, whether it restarted, and what the caller learned.
Op == [type: {"bot", "napcat"}, key: Keys, version: Nat, status: Statuses,
       idem: {"in_progress", "completed", "none"}, expired: BOOLEAN,
       asked: Nat, happened: BOOLEAN, answer: Answers \cup {"none"}]

NewOp(type, k, version) ==
    [type |-> type, key |-> k, version |-> version, status |-> "accepted",
     idem |-> "in_progress", expired |-> FALSE,
     asked |-> 0, happened |-> FALSE, answer |-> "none"]

Codes == {"none", "conflict", "invalid", "unavailable"}

\* replaced is history: did this update replace the file?
Audit == [expected: Nat, result: {"unknown", "success", "failed"}, code: Codes, replaced: BOOLEAN]

NoWorker == [pc |-> "none", from |-> "accepted", to |-> "unknown"]
Worker == [pc: {"none", "waiting", "starting", "sending", "asked", "finishing"},
           from: {"accepted", "running"}, to: Terminal]

Idle == [pc |-> "idle", key |-> 0, version |-> 0, op |-> 0, audit |-> 0,
         result |-> "unknown", code |-> "none"]
Handler == [pc: {"idle", "checked", "accepted", "editing", "completing"},
            key: Keys \cup {0}, version: Nat, op: Nat, audit: Nat,
            result: {"unknown", "success", "failed"}, code: Codes]

Completion == [audit: Nat, result: {"success", "failed"}, code: Codes, left: 1..3]

TypeOK ==
    /\ ops \in Seq(Op) /\ audits \in Seq(Audit) /\ file \in Nat
    /\ process \in {"up", "stopping", "down"} /\ applied \in Nat
    /\ handler \in [Handlers -> Handler] /\ worker \in [1..MaxOps -> Worker]
    /\ retries \subseteq Completion
    /\ faults \in 0..MaxFaults /\ stops \in 0..MaxStops /\ expiries \in 0..MaxExpiries

-----------------------------------------------------------------------------
(* The tables.                                                              *)

\* The database may refuse a transaction, or commit it and lose the answer.
\* The caller's effect happens unless o = "refused".
DbOutcomes == {"done", "lost", "refused"}

Db(o) ==
    \/ o = "done" /\ UNCHANGED faults
    \/ o # "done" /\ faults < MaxFaults /\ faults' = faults + 1

\* Mutant: a key is looked up without the operation it was used for.
KeyRowsAny(type, k) == {}

\* The operations whose row of admin_idempotency_keys holds this key: at most one.
KeyRows(type, k) ==
    {o \in DOMAIN ops : ops[o].type = type /\ ops[o].key = k /\ ops[o].idem # "none"}

LiveRows(type, k) == {o \in KeyRows(type, k) : ~ops[o].expired}

\* A new operation: BeginBotRestart, BeginNapCatRestart.  An expired key is
\* deleted first, whatever its state, and its operation loses its reference.
Begin(type, k, version) ==
    Append([o \in DOMAIN ops |->
               IF o \in KeyRows(type, k) THEN [ops[o] EXCEPT !.idem = "none"] ELSE ops[o]],
           NewOp(type, k, version))

\* managerValidRestartTransition.
ValidTransition(from, to) ==
    \/ from = "accepted" /\ to \in {"running", "unknown"}
    \/ from = "running" /\ to \in Terminal

\* Does TransitionNapCatRestart agree?  What is already so is agreed to if it is
\* a result: the error code, left out here, is the same then.
Accepts(o, from, to) ==
    \/ ops[o].status = to /\ to \in Terminal /\ ops[o].idem = "completed"
    \/ ops[o].status = from /\ ops[o].idem = "in_progress" /\ ValidTransition(from, to)

\* TransitionNapCatRestart moves an operation, and its key with a result.
Moved(o, to) ==
    [ops EXCEPT ![o].status = to,
                ![o].idem = IF to \in Terminal THEN "completed" ELSE @]

Open(o) == ops[o].status \in {"accepted", "running"}
OpenOps(type) == {o \in DOMAIN ops : ops[o].type = type /\ Open(o)}

\* Mutant: only operations that were running are recovered.
RecoveredRunning(type, status) ==
    [o \in DOMAIN ops |->
        IF o \in OpenOps(type) /\ ops[o].status = "running"
            THEN [ops[o] EXCEPT !.status = status, !.idem = "completed"] ELSE ops[o]]

\* RecoverInterruptedNapCatRestarts and RecoverInterruptedBotRestarts: what an
\* earlier process left open gets this status, whatever became of it.
Recovered(type, status) ==
    [o \in DOMAIN ops |->
        IF o \in OpenOps(type)
            THEN [ops[o] EXCEPT !.status = status, !.idem = "completed"] ELSE ops[o]]

\* One open operation without a key makes the recovery fail as a whole.
Recoverable(type) == \A o \in OpenOps(type) : ops[o].idem # "none"

-----------------------------------------------------------------------------
(* Restart of the bot.                                                      *)

\* AcceptBotRestart reads the file: the request must name its version.
AskBotRestart(h, k) ==
    /\ process = "up" /\ handler[h] = Idle
    /\ handler' = [handler EXCEPT ![h] = [Idle EXCEPT !.pc = "checked", !.key = k, !.version = file]]
    /\ UNCHANGED <<kept, process, applied, worker, retries, counters>>

\* FindBotRestart or BeginBotRestart: an earlier operation of the key is
\* returned (or refused, if it named another version), otherwise one begins.
BeginBotRestart(h, o) ==
    LET k == handler[h].key
        fresh == LiveRows("bot", k) = {}
    IN
    /\ handler[h].pc = "checked" /\ process # "down"
    /\ fresh => Len(ops) < MaxOps
    /\ Db(o)
    /\ ops' = IF fresh /\ o # "refused" THEN Begin("bot", k, handler[h].version) ELSE ops
    /\ handler' = [handler EXCEPT ![h] =
                     IF fresh /\ o = "done"
                        THEN [Idle EXCEPT !.pc = "accepted", !.op = Len(ops) + 1]
                        ELSE Idle]
    /\ UNCHANGED <<audits, file, process, applied, worker, retries, stops, expiries>>

\* The answer is written, then ScheduleBotRestart cancels the process.
ScheduleBotRestart(h) ==
    /\ handler[h].pc = "accepted" /\ process # "down"
    /\ process' = "stopping"
    /\ handler' = [handler EXCEPT ![h] = Idle]
    /\ UNCHANGED <<kept, applied, worker, retries, counters>>

-----------------------------------------------------------------------------
(* Restart of NapCat.                                                       *)

\* RestartNapCat while NapCat is connected and the key is not in use.  When the
\* answer of the transaction is lost nobody runs the operation.
RestartNapCat(k, o) ==
    /\ process = "up" /\ Len(ops) < MaxOps
    /\ LiveRows("napcat", k) = {}
    /\ o # "refused" /\ Db(o)
    /\ ops' = Begin("napcat", k, 0)
    /\ worker' = IF o = "done" THEN [worker EXCEPT ![Len(ops) + 1].pc = "waiting"] ELSE worker
    /\ UNCHANGED <<audits, file, process, applied, handler, retries, stops, expiries>>

\* The single slot of the workers is held from TakeSlot to the end of Finish.
\* (A worker that StopWaiting sent to finish without it counts as well: a
\* stopping process has no more use for the slot.)
SlotIsFree == \A o \in DOMAIN worker : worker[o].pc \in {"none", "waiting"}

TakeSlot(o) ==
    /\ process = "up" /\ worker[o].pc = "waiting" /\ SlotIsFree
    /\ worker' = [worker EXCEPT ![o].pc = "starting"]
    /\ UNCHANGED <<kept, process, applied, handler, retries, counters>>

Finishing(from, to) == [pc |-> "finishing", from |-> from, to |-> to]

\* The process stops while the worker waits for its slot.
StopWaiting(o) ==
    /\ process = "stopping" /\ worker[o].pc = "waiting"
    /\ worker' = [worker EXCEPT ![o] = Finishing("accepted", "unknown")]
    /\ UNCHANGED <<kept, process, applied, handler, retries, counters>>

\* Accepted to running.  Any error leads to "unknown", expected to be accepted.
StartRunning(o, r) ==
    /\ process # "down" /\ worker[o].pc = "starting"
    /\ Db(r) \/ (process = "stopping" /\ r = "refused" /\ UNCHANGED faults)
    /\ LET taken == r # "refused" /\ Accepts(o, "accepted", "running") IN
          /\ ops' = IF taken THEN Moved(o, "running") ELSE ops
          /\ worker' = [worker EXCEPT ![o] =
                          IF taken /\ r = "done" THEN [@ EXCEPT !.pc = "sending"]
                                                 ELSE Finishing("accepted", "unknown")]
    /\ UNCHANGED <<audits, file, process, applied, handler, retries, stops, expiries>>

\* set_restart is sent and NapCat restarts or not.
SetRestart(o) ==
    /\ process # "down" /\ worker[o].pc = "sending"
    /\ \E happened \in BOOLEAN :
          ops' = [ops EXCEPT ![o].asked = @ + 1, ![o].happened = @ \/ happened]
    /\ worker' = [worker EXCEPT ![o].pc = "asked"]
    /\ UNCHANGED <<audits, file, process, applied, handler, retries, counters>>

\* Mutant: a timeout is taken for a refusal.
ClassifyTimeoutFails(answer) ==
    IF answer = "confirmed" THEN "succeeded" ELSE "failed"

\* classifyRestartResult: a timeout, a lost or missing connection proves nothing; an
\* answer that cannot be decoded (FailureInvalidResponse) is taken for a refusal.
Classify(answer) ==
    CASE answer = "confirmed" -> "succeeded"
      [] answer \in {"rejected", "undecodable"} -> "failed"
      [] answer = "unknown" -> "unknown"

\* Any answer may be lost, late or impossible to decode.
Answerable(happened) ==
    {"unknown", "undecodable"} \cup (IF happened THEN {"confirmed"} ELSE {"rejected"})

Answer(o, answer) ==
    /\ process # "down" /\ worker[o].pc = "asked"
    /\ answer \in Answerable(ops[o].happened)
    /\ ops' = [ops EXCEPT ![o].answer = answer]
    /\ worker' = [worker EXCEPT ![o] = Finishing("running", Classify(answer))]
    /\ UNCHANGED <<audits, file, process, applied, handler, retries, counters>>

\* finish repeats the transition until it is agreed to.
Finish(o, r) ==
    /\ process # "down" /\ worker[o].pc = "finishing"
    /\ Accepts(o, worker[o].from, worker[o].to)
    /\ r # "refused" /\ Db(r)
    /\ ops' = Moved(o, worker[o].to)
    /\ worker' = IF r = "done" THEN [worker EXCEPT ![o] = NoWorker] ELSE worker
    /\ UNCHANGED <<audits, file, process, applied, handler, retries, stops, expiries>>

\* Once the process stops, one refusal ends the worker.
GiveUp(o) ==
    /\ process = "stopping" /\ worker[o].pc = "finishing"
    /\ \/ ~Accepts(o, worker[o].from, worker[o].to) /\ UNCHANGED faults
       \/ Db("refused")
    /\ worker' = [worker EXCEPT ![o] = NoWorker]
    /\ UNCHANGED <<kept, process, applied, handler, retries, stops, expiries>>

-----------------------------------------------------------------------------
(* The configuration file.                                                  *)

\* BeginConfigurationUpdate leaves an audit row with the result unknown.  The
\* client may have read any earlier version of the file.
BeginUpdate(h, expected, o) ==
    /\ process = "up" /\ handler[h] = Idle
    /\ expected \in 1..file /\ Len(audits) < MaxUpdates
    /\ o # "refused" /\ Db(o)
    /\ audits' = Append(audits, [expected |-> expected, result |-> "unknown",
                                 code |-> "none", replaced |-> FALSE])
    /\ handler' = [handler EXCEPT ![h] =
                     IF o = "done" THEN [Idle EXCEPT !.pc = "editing", !.version = expected,
                                                     !.audit = Len(audits) + 1]
                                   ELSE Idle]
    /\ UNCHANGED <<ops, file, process, applied, worker, retries, stops, expiries>>

\* Mutant: the version is not compared under the lock.
MayReplaceAny(expected) == TRUE

\* FileEditor.Update compares the version under the lock, and again before the
\* file is replaced.
MayReplace(expected) == expected = file

\* validatePatch: what the request's fields are on their own.
PatchVerdicts == {"invalid", "valid"}

\* The lock or the file is not to be had, a field is managed by the environment,
\* or the settings that would result are not right: settingsFromDocument.
Refusals == {"invalid", "unavailable"}

\* What the fields of a request do to the document: applySettingsPatch.
PatchOutcomes == {"invalid", "unchanged", "changed"}

\* replaceFileAtomic reports an error before or after the rename (it sets the mode
\* and flushes the directory after it); then Update reads the file again.
ReplaceOutcomes == {"unavailable", "replaced", "replaced_unsure"}

\* The outcomes of FileEditor.Update under its locks.
EditOutcomes(expected) ==
    (PatchVerdicts \ {"valid"}) \cup Refusals \cup
    (IF MayReplace(expected) THEN (PatchOutcomes \ {"changed"}) \cup ReplaceOutcomes ELSE {"conflict"})

EditSucceeds(e) == e \in {"unchanged", "replaced"}
EditReplaces(e) == e \in {"replaced", "replaced_unsure"}

\* configurationErrorCode.
ErrorCode(e) ==
    CASE EditSucceeds(e) -> "none"
      [] e \in {"conflict", "invalid"} -> e
      [] OTHER -> "unavailable"

\* A new version: versions are digests of the file's content, counted here.
Edit(h, e) ==
    /\ handler[h].pc = "editing" /\ process # "down"
    /\ e \in EditOutcomes(handler[h].version)
    /\ file' = IF EditReplaces(e) THEN file + 1 ELSE file
    /\ audits' = [audits EXCEPT ![handler[h].audit].replaced = EditReplaces(e)]
    /\ handler' = [handler EXCEPT ![h].pc = "completing", ![h].code = ErrorCode(e),
                                  ![h].result = IF EditSucceeds(e) THEN "success" ELSE "failed"]
    /\ UNCHANGED <<ops, process, applied, worker, retries, counters>>

\* CompleteConfigurationUpdate stores a result once; the same again is agreed to.
Completed(a, result, code) ==
    IF audits[a].result = "unknown"
        THEN [audits EXCEPT ![a].result = result, ![a].code = code]
        ELSE audits

\* completeConfigurationAudit; on an error it goes on in the background while
\* the request is answered.
CompleteUpdate(h, o) ==
    LET c == handler[h] IN
    /\ c.pc = "completing" /\ process # "down"
    /\ Db(o)
    /\ audits' = IF o # "refused" THEN Completed(c.audit, c.result, c.code) ELSE audits
    /\ retries' = IF o = "done" THEN retries
                  ELSE retries \cup {[audit |-> c.audit, result |-> c.result, code |-> c.code, left |-> 3]}
    /\ handler' = [handler EXCEPT ![h] = Idle]
    /\ UNCHANGED <<ops, file, process, applied, worker, stops, expiries>>

\* Three attempts, then the result stays unknown for good.
RetryUpdate(c, o) ==
    /\ c \in retries /\ process = "up"
    /\ Db(o)
    /\ audits' = IF o # "refused" THEN Completed(c.audit, c.result, c.code) ELSE audits
    /\ retries' = (retries \ {c}) \cup
                  (IF o = "done" \/ c.left = 1 THEN {} ELSE {[c EXCEPT !.left = @ - 1]})
    /\ UNCHANGED <<ops, file, process, applied, handler, worker, stops, expiries>>

-----------------------------------------------------------------------------
(* The process.                                                             *)

Forget ==
    /\ handler' = [h \in Handlers |-> Idle]
    /\ worker' = [o \in 1..MaxOps |-> NoWorker]
    /\ retries' = {}

\* A signal cancels the context as well.
Terminate ==
    /\ process = "up" /\ stops < MaxStops
    /\ process' = "stopping" /\ stops' = stops + 1
    /\ UNCHANGED <<kept, applied, memory, faults, expiries>>

\* App.Run waits for its components and closes its resources, each for a bounded
\* time, so the process ends whatever its goroutines do.
Exit ==
    /\ process = "stopping"
    /\ process' = "down" /\ Forget
    /\ UNCHANGED <<kept, applied, counters>>

Crash ==
    /\ process # "down" /\ stops < MaxStops
    /\ process' = "down" /\ stops' = stops + 1 /\ Forget
    /\ UNCHANGED <<kept, applied, faults, expiries>>

\* The supervisor starts the process again.  It reads the file, then
\* RecoverInterrupted ends what was left open: NapCat restarts are unknown, bot
\* restarts succeeded.
Start ==
    /\ process = "down" /\ Recoverable("napcat") /\ Recoverable("bot")
    /\ process' = "up" /\ applied' = file
    /\ ops' = [o \in DOMAIN ops |->
                  IF ops[o].type = "bot" THEN Recovered("bot", "succeeded")[o]
                                         ELSE Recovered("napcat", "unknown")[o]]
    /\ UNCHANGED <<audits, file, memory, counters>>

\* A start whose second recovery fails leaves the first one behind and exits.
FailStart ==
    /\ process = "down" /\ Recoverable("napcat") /\ ~Recoverable("bot")
    /\ OpenOps("napcat") # {}
    /\ ops' = Recovered("napcat", "unknown")
    /\ UNCHANGED <<audits, file, process, applied, memory, counters>>

\* The key of an operation that nothing moves at the moment is a day old.
Expire(o) ==
    /\ o \in DOMAIN ops /\ ops[o].idem # "none" /\ ~ops[o].expired
    /\ worker[o].pc \in {"none", "waiting", "finishing"}
    /\ expiries < MaxExpiries /\ expiries' = expiries + 1
    /\ ops' = [ops EXCEPT ![o].expired = TRUE]
    /\ UNCHANGED <<audits, file, process, applied, memory, faults, stops>>

-----------------------------------------------------------------------------

SystemInit ==
    /\ ops = <<>> /\ audits = <<>> /\ file = 1
    /\ process = "up" /\ applied = 1
    /\ handler = [h \in Handlers |-> Idle]
    /\ worker = [o \in 1..MaxOps |-> NoWorker]
    /\ retries = {}
    /\ faults = 0 /\ stops = 0 /\ expiries = 0

Work(o) ==
    \/ TakeSlot(o) \/ StopWaiting(o) \/ SetRestart(o) \/ GiveUp(o)
    \/ \E r \in DbOutcomes : StartRunning(o, r) \/ Finish(o, r)
    \/ \E answer \in Answers : Answer(o, answer)

Handle(h) ==
    \/ ScheduleBotRestart(h)
    \/ \E k \in Keys : AskBotRestart(h, k)
    \/ \E r \in DbOutcomes : BeginBotRestart(h, r) \/ CompleteUpdate(h, r)
    \/ \E r \in DbOutcomes, v \in 1..file : BeginUpdate(h, v, r)
    \/ \E e \in EditOutcomes(handler[h].version) : Edit(h, e)

\* Everything but the life of the process, which other parts share.
SystemNext ==
    \/ \E h \in Handlers : Handle(h)
    \/ \E k \in Keys, r \in DbOutcomes : RestartNapCat(k, r)
    \/ \E o \in 1..MaxOps : Work(o)
    \/ \E c \in retries, r \in DbOutcomes : RetryUpdate(c, r)
    \/ \E o \in 1..MaxOps : Expire(o)
    \/ FailStart

Next == SystemNext \/ Terminate \/ Exit \/ Crash \/ Start

Spec == SystemInit /\ [][Next]_vars

-----------------------------------------------------------------------------
(* Properties.                                                              *)

\* While a key is less than a day old it stands for one operation, however the
\* requests that carry it overlap or lose their answers, and NapCat is asked to
\* restart at most once for an operation: BeginNapCatRestart, BeginBotRestart,
\* runRestart.
KeysActOnce ==
    /\ \A o, p \in DOMAIN ops :
          (o < p /\ ops[o].type = ops[p].type /\ ops[o].key = ops[p].key) => ops[o].expired
    /\ \A o \in DOMAIN ops : ops[o].asked <= 1

\* What a finished operation says is true.  A NapCat restart that succeeded
\* happened and one that failed did not, but one whose answer could not be decoded
\* is stored as failed and may have happened; a bot restart that succeeded put at
\* least the version in force that its administrator confirmed; and one that
\* still waits was not sent.  classifyRestartResult, finish, RecoverInterrupted.
ResultsTellTruth ==
    \A o \in DOMAIN ops :
        IF ops[o].type = "bot"
            THEN ops[o].status = "succeeded" => applied >= ops[o].version
            ELSE /\ ops[o].status = "succeeded" => ops[o].happened
                 /\ ops[o].status = "failed" => ~ops[o].happened \/ ops[o].answer = "undecodable"
                 /\ ops[o].status = "accepted" => ops[o].asked = 0

\* Of two updates that were based on the same version of the file only one
\* replaces it, and what the audit log says is true: an update recorded with a
\* refusal did not touch the file.  (dependency_unavailable is no refusal: the
\* file may have been replaced, and nobody finds out.)  FileEditor.Update,
\* configurationErrorCode, completeConfigurationAudit.
UpdatesAreNotLost ==
    /\ \A a, b \in DOMAIN audits :
          (a # b /\ audits[a].replaced /\ audits[b].replaced)
              => audits[a].expected # audits[b].expected
    /\ \A a \in DOMAIN audits :
          (audits[a].result = "failed" /\ audits[a].replaced) => audits[a].code = "unavailable"

\* The process works on operation o, or was told to stop for it.
Known(o) ==
    /\ o \in DOMAIN ops /\ Open(o)
    /\ \/ worker[o].pc # "none"
       \/ \E h \in Handlers : handler[h].pc = "accepted" /\ handler[h].op = o
       \/ process # "up"

\* A worker repeats a transition that is never agreed to, and keeps the slot: the
\* answer of accepted to running was lost, or its key was deleted.
LostTrack(o) ==
    worker[o].pc = "finishing" /\ ~Accepts(o, worker[o].from, worker[o].to)

Closed == {o \in DOMAIN ops : ~Open(o)}

Orphaned == \E o \in DOMAIN ops : Open(o) /\ ops[o].idem = "none"

\* An operation that the process knows of ends, in this process or at the next
\* start, unless a worker lost track of its operation (no NapCat restart gets
\* the slot until the process ends) or an operation lost its key.
RestartsEnd ==
    \A o \in 1..MaxOps :
        Known(o) ~> (o \in Closed \/ Orphaned \/ \E p \in 1..MaxOps : LostTrack(p))

\* Go runs what can run, an exchange with NapCat ends within WorkerTimeout, a
\* stopping process exits in bounded time and the supervisor starts it again
\* (restart: unless-stopped).  A database that answers again lets Finish through.
Fairness ==
    /\ \A o \in 1..MaxOps :
          /\ WF_vars(TakeSlot(o)) /\ WF_vars(SetRestart(o))
          /\ WF_vars(\E r \in DbOutcomes : StartRunning(o, r))
          /\ WF_vars(\E answer \in Answers : Answer(o, answer))
          /\ WF_vars(Finish(o, "done"))
    /\ \A h \in Handlers : WF_vars(ScheduleBotRestart(h))
    /\ WF_vars(Exit) /\ WF_vars(Start)

FairSpec == Spec /\ Fairness

-----------------------------------------------------------------------------
(* What a comment promises and the code does not do.                        *)

\* service.go: "RecoverInterruptedNapCatRestarts marks operations left by an
\* earlier process as unknown and completes their idempotency and audit records."
\* So a process that went down can be started again.
StartsAgain == process = "down" => Recoverable("napcat") /\ Recoverable("bot")
=============================================================================
