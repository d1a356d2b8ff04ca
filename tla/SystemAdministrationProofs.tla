--------------------- MODULE SystemAdministrationProofs ---------------------
(***************************************************************************)
(* Proofs about SystemAdministration, for any number of keys, requests,    *)
(* operations, updates, reloads, faults, stops and versions: a key begins  *)
(* one operation, a finished restart tells what happened, updates of the   *)
(* configuration file are not lost, and the knowledge base that is served  *)
(* never goes back.                                                        *)
(*                                                                         *)
(* Each half has an invariant over its own variables.  For restarts, a     *)
(* worker that asked NapCat holds a running operation (WorkersAgree); for  *)
(* updates, a request that edits the file owns its audit row               *)
(* (UpdatesAgree); for the knowledge base, whoever holds the mutex has a   *)
(* workbook no older than the cache file, which is no older than the index *)
(* (SyncsAgree).                                                           *)
(***************************************************************************)
EXTENDS SystemAdministration, FiniteSetTheorems, TLAPS

-----------------------------------------------------------------------------
(* Restarts and configuration.                                              *)

\* A key is deleted only when it is a day old, and a younger one stands for the
\* last operation that used it.
KeysAgree ==
    /\ \A o \in DOMAIN ops : ops[o].idem = "none" => ops[o].expired
    /\ \A o, p \in DOMAIN ops :
          (o < p /\ ops[o].type = ops[p].type /\ ops[o].key = ops[p].key) => ops[o].expired

\* What a worker does is what its operation says, and what it will write is true.
Agrees(o) ==
    /\ worker[o].pc # "none" =>
         process # "down" /\ o \in DOMAIN ops /\ ops[o].type = "napcat"
    /\ worker[o].pc = "sending" => ops[o].status = "running" /\ ops[o].asked = 0
    /\ worker[o].pc = "asked" => ops[o].status = "running"
    /\ worker[o].pc = "finishing" =>
         /\ worker[o].to = "succeeded" => ops[o].happened
         /\ worker[o].to = "failed" => ~ops[o].happened \/ ops[o].answer = "undecodable"

WorkersAgree == \A o \in 1..MaxOps : Agrees(o)

\* NapCat is asked once, and not before its operation runs.
AskedOnce ==
    \A o \in DOMAIN ops :
        ops[o].asked <= 1 /\ (ops[o].status = "accepted" => ops[o].asked = 0)

\* Nobody confirmed a version that the file did not reach, nor runs one.
VersionsAgree ==
    /\ applied <= file
    /\ \A o \in DOMAIN ops : ops[o].version <= file
    /\ \A h \in Handlers : handler[h].pc = "checked" =>
          handler[h].key \in Keys /\ handler[h].version <= file

\* What the result of an update says of its audit row is true.
Truthful(a, result, code) ==
    result = "failed" /\ audits[a].replaced => code = "unavailable"

\* An update that replaced the file was based on an earlier version of it.
Replacements ==
    \A a \in DOMAIN audits :
        /\ audits[a].replaced => audits[a].expected < file
        /\ Truthful(a, audits[a].result, audits[a].code)
        /\ \A b \in DOMAIN audits \ {a} :
              audits[a].replaced /\ audits[b].replaced => audits[a].expected # audits[b].expected

Busy(h) == handler[h].pc \in {"editing", "completing"}

\* Who edits the file owns its audit row, and nobody completes it meanwhile.
Edits(h) ==
    /\ handler[h].audit \in DOMAIN audits
    /\ handler[h].pc = "editing" =>
         /\ audits[handler[h].audit].expected = handler[h].version
         /\ audits[handler[h].audit].result = "unknown"
         /\ \A c \in retries : c.audit # handler[h].audit
    /\ handler[h].pc = "completing" =>
         /\ handler[h].result # "unknown"
         /\ Truthful(handler[h].audit, handler[h].result, handler[h].code)

Editors ==
    \A h \in Handlers : Busy(h) =>
        Edits(h) /\ \A f \in Handlers \ {h} : Busy(f) => handler[f].audit # handler[h].audit

Repeats ==
    \A c \in retries : c.audit \in DOMAIN audits /\ Truthful(c.audit, c.result, c.code)

UpdatesAgree == Replacements /\ Editors /\ Repeats

SystemInv ==
    TypeOK /\ KeysAgree /\ WorkersAgree /\ AskedOnce /\ VersionsAgree /\ ResultsTellTruth /\ UpdatesAgree

\* What a step of either half does to this one.
SystemStep ==
    \/ SystemNext \/ Terminate \/ Exit \/ Crash \/ Start
    \/ UNCHANGED <<kept, process, applied, memory, stops, expiries>> /\ faults' \in 0..MaxFaults

LEMMA StepsOfTheSystem ==
    ASSUME TypeOK, [AdministrationNext]_allVars
    PROVE  SystemStep
<1>1. CASE Knowledge!ReloadNext /\ UNCHANGED <<kept, applied, memory, stops, expiries>>
  <2>1. UNCHANGED process /\ (UNCHANGED faults \/ (faults < MaxFaults /\ faults' = faults + 1))
    BY <1>1 DEF Knowledge!ReloadNext, Knowledge!Syncing, Knowledge!ShowRequest, Knowledge!StartReload,
        Knowledge!BeginRunning, Knowledge!FinishReload, Knowledge!Download, Knowledge!FailDownload,
        Knowledge!SaveCache, Knowledge!FailSave, Knowledge!StoreIndex, Knowledge!AgeKey,
        Knowledge!AskBot, Knowledge!EditWorkbook, Knowledge!Store
  <2> QED BY <1>1, <2>1, ConstantsAssumption DEF SystemStep, TypeOK
<1>2. CASE SystemNext \/ Terminate \/ Die \/ StartProcess
  BY <1>2 DEF SystemStep, Die, StartProcess
<1>3. CASE FailToStart \/ UNCHANGED allVars
  BY <1>3, ConstantsAssumption DEF SystemStep, FailToStart, allVars, vars, kept, memory, counters, TypeOK
<1> QED BY <1>1, <1>2, <1>3 DEF AdministrationNext

-----------------------------------------------------------------------------
(* Which steps write what.                                                   *)

LEMMA WritesOps ==
    ASSUME SystemStep
    PROVE  \/ UNCHANGED ops
           \/ \E h \in Handlers, r \in DbOutcomes : BeginBotRestart(h, r)
           \/ \E k \in Keys, r \in DbOutcomes : RestartNapCat(k, r)
           \/ \E o \in 1..MaxOps :
                 \/ SetRestart(o) \/ Expire(o)
                 \/ \E r \in DbOutcomes : StartRunning(o, r) \/ Finish(o, r)
                 \/ \E answer \in Answers : Answer(o, answer)
           \/ FailStart \/ Start
BY DEF SystemStep, SystemNext, Handle, Work, Terminate, Exit, Crash, ScheduleBotRestart, AskBotRestart,
       CompleteUpdate, BeginUpdate, Edit, TakeSlot, StopWaiting, GiveUp, RetryUpdate, kept

LEMMA WritesWorkers ==
    ASSUME SystemStep
    PROVE  \/ UNCHANGED worker
           \/ \E k \in Keys, r \in DbOutcomes : RestartNapCat(k, r)
           \/ \E o \in 1..MaxOps :
                 \/ TakeSlot(o) \/ StopWaiting(o) \/ SetRestart(o) \/ GiveUp(o)
                 \/ \E r \in DbOutcomes : StartRunning(o, r) \/ Finish(o, r)
                 \/ \E answer \in Answers : Answer(o, answer)
           \/ Exit \/ Crash
BY DEF SystemStep, SystemNext, Handle, Work, Terminate, Start, FailStart, ScheduleBotRestart, AskBotRestart,
       BeginBotRestart, CompleteUpdate, BeginUpdate, Edit, RetryUpdate, Expire, kept, memory

LEMMA WritesHandlers ==
    ASSUME SystemStep
    PROVE  \/ UNCHANGED handler
           \/ \E h \in Handlers :
                 \/ ScheduleBotRestart(h)
                 \/ \E k \in Keys : AskBotRestart(h, k)
                 \/ \E r \in DbOutcomes : BeginBotRestart(h, r) \/ CompleteUpdate(h, r)
                 \/ \E r \in DbOutcomes, v \in 1..file : BeginUpdate(h, v, r)
                 \/ \E e \in EditOutcomes(handler[h].version) : Edit(h, e)
           \/ Exit \/ Crash
BY DEF SystemStep, SystemNext, Handle, Work, Terminate, Start, FailStart, TakeSlot, StopWaiting, SetRestart,
       GiveUp, StartRunning, Finish, Answer, RestartNapCat, RetryUpdate, Expire, kept, memory

LEMMA WritesAudits ==
    ASSUME SystemStep
    PROVE  \/ UNCHANGED audits /\ (UNCHANGED retries \/ retries' = {})
           \/ \E h \in Handlers :
                 \/ \E r \in DbOutcomes : CompleteUpdate(h, r)
                 \/ \E r \in DbOutcomes, v \in 1..file : BeginUpdate(h, v, r)
                 \/ \E e \in EditOutcomes(handler[h].version) : Edit(h, e)
           \/ \E c \in retries, r \in DbOutcomes : RetryUpdate(c, r)
BY DEF SystemStep, SystemNext, Handle, Work, Terminate, Exit, Crash, Start, FailStart, Forget, TakeSlot,
       StopWaiting, SetRestart, GiveUp, StartRunning, Finish, Answer, RestartNapCat, Expire,
       ScheduleBotRestart, AskBotRestart, BeginBotRestart, kept, memory

LEMMA WritesFile ==
    ASSUME SystemStep
    PROVE  \/ UNCHANGED file
           \/ \E h \in Handlers : \E e \in EditOutcomes(handler[h].version) : Edit(h, e)
BY DEF SystemStep, SystemNext, Handle, Work, Terminate, Exit, Crash, Start, FailStart, Forget, TakeSlot,
       StopWaiting, SetRestart, GiveUp, StartRunning, Finish, Answer, RestartNapCat, Expire,
       ScheduleBotRestart, AskBotRestart, BeginBotRestart, CompleteUpdate, BeginUpdate, RetryUpdate, kept

LEMMA WritesProcess ==
    ASSUME TypeOK, SystemStep
    PROVE  /\ process' \in {"up", "stopping", "down"}
           /\ UNCHANGED applied \/ (Start /\ applied' = file)
           /\ faults' \in 0..MaxFaults /\ stops' \in 0..MaxStops /\ expiries' \in 0..MaxExpiries
           /\ process' = "down" =>
                UNCHANGED <<process, worker>> \/ \A o \in 1..MaxOps : worker'[o] = NoWorker
<1> USE ConstantsAssumption
<1>1. (\E r \in DbOutcomes : Db(r)) => faults' \in 0..MaxFaults
  BY DEF Db, DbOutcomes, TypeOK
<1>2. CASE \E h \in Handlers : Handle(h)
  BY <1>1, <1>2 DEF Handle, ScheduleBotRestart, AskBotRestart, BeginBotRestart, CompleteUpdate, BeginUpdate,
     Edit, TypeOK, counters
<1>3. CASE \E o \in 1..MaxOps : Work(o)
  <2>1. /\ UNCHANGED <<applied, process>> /\ process # "down"
        /\ UNCHANGED <<stops, expiries>> /\ (UNCHANGED faults \/ \E r \in DbOutcomes : Db(r))
    BY <1>3 DEF Work, TakeSlot, StopWaiting, SetRestart, GiveUp, StartRunning, Finish, Answer, counters,
       DbOutcomes
  <2> QED BY <1>1, <2>1 DEF TypeOK
<1>4. CASE \/ \E k \in Keys, r \in DbOutcomes : RestartNapCat(k, r)
           \/ \E c \in retries, r \in DbOutcomes : RetryUpdate(c, r)
           \/ \E o \in 1..MaxOps : Expire(o)
           \/ FailStart
  <2>1. /\ UNCHANGED <<applied, process>> /\ (process # "down" \/ UNCHANGED worker)
        /\ UNCHANGED stops /\ (UNCHANGED faults \/ \E r \in DbOutcomes : Db(r))
        /\ UNCHANGED expiries \/ (expiries < MaxExpiries /\ expiries' = expiries + 1)
    BY <1>4 DEF RestartNapCat, RetryUpdate, Expire, FailStart, counters, memory
  <2> QED BY <1>1, <2>1 DEF TypeOK
<1>5. CASE Terminate
  BY <1>5 DEF Terminate, TypeOK, memory
<1>6. CASE Exit \/ Crash
  <2>1. UNCHANGED <<applied, faults, expiries>> /\ process' = "down" /\ worker' = [o \in 1..MaxOps |-> NoWorker]
    BY <1>6 DEF Exit, Crash, Forget, counters
  <2>2. stops' \in 0..MaxStops
    BY <1>6 DEF Exit, Crash, TypeOK, counters
  <2> QED BY <2>1, <2>2 DEF TypeOK
<1>7. CASE Start
  <2>1. process' = "up" /\ applied' = file /\ UNCHANGED <<faults, stops, expiries>>
    BY <1>7 DEF Start, counters
  <2> QED BY <1>7, <2>1 DEF TypeOK
<1>8. CASE UNCHANGED <<kept, process, applied, memory, stops, expiries>> /\ faults' \in 0..MaxFaults
  BY <1>8 DEF TypeOK, memory
<1> QED BY <1>2, <1>3, <1>4, <1>5, <1>6, <1>7, <1>8 DEF SystemStep, SystemNext

-----------------------------------------------------------------------------
(* What the tables hold after a step.                                        *)

LEMMA OpsAreASequence ==
    ASSUME TypeOK
    PROVE  Len(ops) \in Nat /\ DOMAIN ops = 1..Len(ops) /\ \A o \in DOMAIN ops : ops[o] \in Op
BY DEF TypeOK

LEMMA NewOps ==
    ASSUME NEW type \in {"bot", "napcat"}, NEW k \in Keys, NEW version \in Nat
    PROVE  /\ NewOp(type, k, version) \in Op
           /\ NewOp(type, k, version).type = type /\ NewOp(type, k, version).key = k
           /\ NewOp(type, k, version).version = version
           /\ NewOp(type, k, version).status = "accepted" /\ NewOp(type, k, version).idem = "in_progress"
           /\ NewOp(type, k, version).expired = FALSE /\ NewOp(type, k, version).asked = 0
BY DEF NewOp, Op, Statuses

\* A new operation takes its key from those that had it.
LEMMA Begins ==
    ASSUME TypeOK, NEW type \in {"bot", "napcat"}, NEW k \in Keys, NEW version \in Nat,
           ops' = Begin(type, k, version)
    PROVE  /\ ops' \in Seq(Op) /\ Len(ops') = Len(ops) + 1 /\ DOMAIN ops' = 1..(Len(ops) + 1)
           /\ ops'[Len(ops) + 1] = NewOp(type, k, version)
           /\ \A o \in DOMAIN ops :
                ops'[o] = IF o \in KeyRows(type, k) THEN [ops[o] EXCEPT !.idem = "none"] ELSE ops[o]
<1> DEFINE kept_ == [o \in DOMAIN ops |->
               IF o \in KeyRows(type, k) THEN [ops[o] EXCEPT !.idem = "none"] ELSE ops[o]]
<1>1. \A o \in DOMAIN ops : [ops[o] EXCEPT !.idem = "none"] \in Op
  BY OpsAreASequence DEF Op
<1>2. kept_ \in Seq(Op) /\ Len(kept_) = Len(ops) /\ DOMAIN kept_ = DOMAIN ops
  <2>1. kept_ \in [1..Len(ops) -> Op] /\ Len(ops) \in Nat
    BY <1>1, OpsAreASequence
  <2> HIDE DEF kept_
  <2> QED BY <2>1, OpsAreASequence
<1>3. ops' = Append(kept_, NewOp(type, k, version))
  BY DEF Begin
<1>4. \A o \in DOMAIN ops :
        kept_[o] = IF o \in KeyRows(type, k) THEN [ops[o] EXCEPT !.idem = "none"] ELSE ops[o]
  OBVIOUS
<1> DEFINE new_ == NewOp(type, k, version)
<1>5. new_ \in Op
  BY NewOps
<1> HIDE DEF kept_, new_
<1>6. /\ Append(kept_, new_) \in Seq(Op) /\ Len(Append(kept_, new_)) = Len(ops) + 1
      /\ Append(kept_, new_)[Len(ops) + 1] = new_
      /\ \A o \in 1..Len(ops) : Append(kept_, new_)[o] = kept_[o]
  BY <1>2, <1>5, OpsAreASequence
<1>7. ops' \in Seq(Op) /\ Len(ops') = Len(ops) + 1 /\ ops'[Len(ops) + 1] = new_ /\ \A o \in 1..Len(ops) : ops'[o] = kept_[o]
  BY <1>3, <1>6 DEF new_
<1> QED BY <1>4, <1>7, OpsAreASequence DEF new_

LEMMA BegunRows ==
    ASSUME TypeOK, NEW type \in {"bot", "napcat"}, NEW k \in Keys, NEW version \in Nat,
           ops' = Begin(type, k, version), NEW o \in DOMAIN ops
    PROVE  /\ ops'[o].type = ops[o].type /\ ops'[o].key = ops[o].key /\ ops'[o].version = ops[o].version
           /\ ops'[o].status = ops[o].status /\ ops'[o].expired = ops[o].expired
           /\ ops'[o].asked = ops[o].asked /\ ops'[o].happened = ops[o].happened
           /\ ops'[o].answer = ops[o].answer
           /\ ops'[o].idem = IF o \in KeyRows(type, k) THEN "none" ELSE ops[o].idem
<1>1. ops[o] \in Op
  BY OpsAreASequence
<1>2. ops'[o] = IF o \in KeyRows(type, k) THEN [ops[o] EXCEPT !.idem = "none"] ELSE ops[o]
  BY Begins
<1> QED BY <1>1, <1>2 DEF Op

LEMMA Moves ==
    ASSUME TypeOK, NEW o \in DOMAIN ops, NEW to \in Statuses, ops' = Moved(o, to)
    PROVE  /\ ops' \in Seq(Op) /\ DOMAIN ops' = DOMAIN ops
           /\ \A p \in DOMAIN ops \ {o} : ops'[p] = ops[p]
           /\ ops'[o].type = ops[o].type /\ ops'[o].key = ops[o].key /\ ops'[o].version = ops[o].version
           /\ ops'[o].status = to /\ ops'[o].expired = ops[o].expired
           /\ ops'[o].asked = ops[o].asked /\ ops'[o].happened = ops[o].happened
           /\ ops'[o].answer = ops[o].answer
           /\ ops'[o].idem = IF to \in Terminal THEN "completed" ELSE ops[o].idem
<1> DEFINE idem_ == IF to \in Terminal THEN "completed" ELSE ops[o].idem
           row == [ops[o] EXCEPT !.status = to, !.idem = idem_]
<1>1. idem_ \in {"in_progress", "completed", "none"} /\ ops[o] \in Op
  BY OpsAreASequence DEF Op
<1>2. ops' = [ops EXCEPT ![o] = row]
  BY DEF Moved
<1> HIDE DEF idem_
<1>3. row \in Op /\ row.status = to /\ row.idem = idem_
  BY <1>1 DEF Op
<1>4. /\ row.type = ops[o].type /\ row.key = ops[o].key /\ row.version = ops[o].version
      /\ row.expired = ops[o].expired /\ row.asked = ops[o].asked /\ row.happened = ops[o].happened /\ row.answer = ops[o].answer
  BY <1>1 DEF Op
<1> HIDE DEF row
<1>5. ops' \in Seq(Op) /\ DOMAIN ops' = DOMAIN ops /\ ops'[o] = row /\ \A p \in DOMAIN ops \ {o} : ops'[p] = ops[p]
  BY <1>2, <1>3 DEF TypeOK
<1> QED BY <1>3, <1>4, <1>5 DEF idem_

\* A start ends what was left open, of one type or of both.
EndedRow(p, status) == [ops[p] EXCEPT !.status = status, !.idem = "completed"]
Ended(p, type, status) == ops[p].type = type /\ Open(p) /\ ops'[p] = EndedRow(p, status)

LEMMA EndedRows ==
    ASSUME TypeOK, NEW p \in DOMAIN ops, NEW s \in Statuses
    PROVE  /\ EndedRow(p, s) \in Op
           /\ EndedRow(p, s).type = ops[p].type /\ EndedRow(p, s).key = ops[p].key
           /\ EndedRow(p, s).version = ops[p].version /\ EndedRow(p, s).expired = ops[p].expired
           /\ EndedRow(p, s).asked = ops[p].asked /\ EndedRow(p, s).happened = ops[p].happened
           /\ EndedRow(p, s).answer = ops[p].answer
           /\ EndedRow(p, s).idem = "completed" /\ EndedRow(p, s).status = s
BY OpsAreASequence DEF Op, EndedRow

LEMMA Recovers ==
    ASSUME TypeOK, Start \/ FailStart
    PROVE  /\ ops' \in Seq(Op) /\ DOMAIN ops' = DOMAIN ops
           /\ \A p \in DOMAIN ops :
                \/ ops'[p] = ops[p]
                \/ Ended(p, "napcat", "unknown") \/ (Start /\ Ended(p, "bot", "succeeded"))
<1>1. \A p \in DOMAIN ops, s \in Statuses : EndedRow(p, s) \in Op
  BY EndedRows
<1>2. "unknown" \in Statuses /\ "succeeded" \in Statuses
  BY DEF Statuses
<1>3. \A p \in DOMAIN ops : p \in DOMAIN ops' /\
                (\/ ops'[p] = ops[p]
                 \/ Ended(p, "napcat", "unknown") \/ (Start /\ Ended(p, "bot", "succeeded")))
  <2> SUFFICES ASSUME NEW p \in DOMAIN ops
               PROVE  p \in DOMAIN ops' /\
                         (\/ ops'[p] = ops[p]
                          \/ Ended(p, "napcat", "unknown") \/ (Start /\ Ended(p, "bot", "succeeded")))
    OBVIOUS
  <2>1. ops[p].type \in {"bot", "napcat"}
    BY OpsAreASequence DEF Op
  <2>2. CASE FailStart
    BY <2>2 DEF FailStart, Recovered, OpenOps, Ended, EndedRow
  <2>3. CASE Start
    <3>1. CASE ops[p].type = "bot"
      <4>1. p \in DOMAIN ops' /\ ops'[p] = Recovered("bot", "succeeded")[p]
        BY <2>3, <3>1 DEF Start
      <4> QED BY <2>3, <3>1, <4>1 DEF Recovered, OpenOps, Ended, EndedRow
    <3>2. CASE ops[p].type = "napcat"
      <4>1. p \in DOMAIN ops' /\ ops'[p] = Recovered("napcat", "unknown")[p]
        BY <2>3, <3>2 DEF Start
      <4> QED BY <3>2, <4>1 DEF Recovered, OpenOps, Ended, EndedRow
    <3> QED BY <2>1, <3>1, <3>2
  <2> QED BY <2>2, <2>3
<1>4. \A p \in DOMAIN ops : ops'[p] \in Op
  <2> SUFFICES ASSUME NEW p \in DOMAIN ops PROVE ops'[p] \in Op
    OBVIOUS
  <2>1. CASE ops'[p] = ops[p]
    BY <2>1, OpsAreASequence
  <2>2. CASE Ended(p, "napcat", "unknown")
    BY <1>1, <1>2, <2>2 DEF Ended
  <2>3. CASE Ended(p, "bot", "succeeded")
    BY <1>1, <1>2, <2>3 DEF Ended
  <2> QED BY <1>3, <2>1, <2>2, <2>3
<1>5. ops' \in [1..Len(ops) -> Op]
  <2>1. ops' = [p \in 1..Len(ops) |-> ops'[p]]
    <3>1. CASE Start
      BY <3>1, OpsAreASequence DEF Start
    <3>2. CASE FailStart
      BY <3>2, OpsAreASequence DEF FailStart, Recovered
    <3> QED BY <3>1, <3>2
  <2>2. \A p \in 1..Len(ops) : ops'[p] \in Op
    BY <1>4, OpsAreASequence
  <2> QED BY <2>1, <2>2
<1> QED BY <1>3, <1>5, OpsAreASequence

LEMMA RecoveredRows ==
    ASSUME TypeOK, Start \/ FailStart, NEW p \in DOMAIN ops
    PROVE  /\ ops'[p].type = ops[p].type /\ ops'[p].key = ops[p].key /\ ops'[p].version = ops[p].version
           /\ ops'[p].expired = ops[p].expired /\ ops'[p].asked = ops[p].asked
           /\ ops'[p].happened = ops[p].happened /\ ops'[p].answer = ops[p].answer
           /\ ops'[p].idem = "none" => ops[p].idem = "none"
           /\ ops'[p].status = ops[p].status \/ ops'[p].status \in Terminal
<1>1. CASE ops'[p] = ops[p]
  BY <1>1
<1>2. CASE Ended(p, "napcat", "unknown")
  BY <1>2, EndedRows DEF Ended, Terminal, Statuses
<1>3. CASE Ended(p, "bot", "succeeded")
  BY <1>3, EndedRows DEF Ended, Terminal, Statuses
<1> QED BY <1>1, <1>2, <1>3, Recovers

LEMMA RowChanges ==
    ASSUME TypeOK, NEW o \in DOMAIN ops, NEW row \in Op, ops' = [ops EXCEPT ![o] = row]
    PROVE  /\ ops' \in Seq(Op) /\ DOMAIN ops' = DOMAIN ops /\ ops'[o] = row
           /\ \A p \in DOMAIN ops \ {o} : ops'[p] = ops[p]
BY DEF TypeOK

LEMMA RestartsSet ==
    ASSUME TypeOK, NEW o \in DOMAIN ops, SetRestart(o)
    PROVE  /\ ops' \in Seq(Op) /\ DOMAIN ops' = DOMAIN ops
           /\ \A p \in DOMAIN ops \ {o} : ops'[p] = ops[p]
           /\ ops'[o].type = ops[o].type /\ ops'[o].key = ops[o].key /\ ops'[o].version = ops[o].version
           /\ ops'[o].status = ops[o].status /\ ops'[o].idem = ops[o].idem
           /\ ops'[o].expired = ops[o].expired /\ ops'[o].asked = ops[o].asked + 1
<1>1. PICK b \in BOOLEAN : ops' = [ops EXCEPT ![o].asked = @ + 1, ![o].happened = @ \/ b]
  BY DEF SetRestart
<1> DEFINE more == ops[o].asked + 1
           whether == ops[o].happened \/ b
           row == [ops[o] EXCEPT !.asked = more, !.happened = whether]
<1>2. more \in Nat /\ ops[o] \in Op
  BY OpsAreASequence DEF Op
<1>3. whether \in BOOLEAN
  OBVIOUS
<1>4. ops' = [ops EXCEPT ![o] = row]
  BY <1>1
<1> HIDE DEF more, whether
<1>5. row \in Op /\ row.asked = more
  BY <1>2, <1>3 DEF Op
<1>6. /\ row.type = ops[o].type /\ row.key = ops[o].key /\ row.version = ops[o].version
      /\ row.status = ops[o].status /\ row.idem = ops[o].idem /\ row.expired = ops[o].expired
  BY <1>2 DEF Op
<1> HIDE DEF row
<1> QED BY <1>4, <1>5, <1>6, RowChanges DEF more

LEMMA RestartsAnswered ==
    ASSUME TypeOK, NEW o \in DOMAIN ops, NEW answer \in Answers, Answer(o, answer)
    PROVE  /\ ops' \in Seq(Op) /\ DOMAIN ops' = DOMAIN ops
           /\ \A p \in DOMAIN ops \ {o} : ops'[p] = ops[p]
           /\ ops'[o].type = ops[o].type /\ ops'[o].key = ops[o].key /\ ops'[o].version = ops[o].version
           /\ ops'[o].status = ops[o].status /\ ops'[o].idem = ops[o].idem
           /\ ops'[o].expired = ops[o].expired /\ ops'[o].asked = ops[o].asked
           /\ ops'[o].happened = ops[o].happened /\ ops'[o].answer = answer
<1> DEFINE row == [ops[o] EXCEPT !.answer = answer]
<1>1. ops[o] \in Op /\ ops' = [ops EXCEPT ![o] = row]
  BY OpsAreASequence DEF Answer
<1>2. /\ row \in Op /\ row.type = ops[o].type /\ row.key = ops[o].key /\ row.version = ops[o].version
      /\ row.status = ops[o].status /\ row.idem = ops[o].idem /\ row.expired = ops[o].expired
      /\ row.asked = ops[o].asked /\ row.happened = ops[o].happened /\ row.answer = answer
  BY <1>1 DEF Op
<1> HIDE DEF row
<1> QED BY <1>1, <1>2, RowChanges

LEMMA KeysExpire ==
    ASSUME TypeOK, NEW o, Expire(o)
    PROVE  /\ o \in DOMAIN ops /\ ops' \in Seq(Op) /\ DOMAIN ops' = DOMAIN ops
           /\ \A p \in DOMAIN ops \ {o} : ops'[p] = ops[p]
           /\ ops'[o].type = ops[o].type /\ ops'[o].key = ops[o].key /\ ops'[o].version = ops[o].version
           /\ ops'[o].status = ops[o].status /\ ops'[o].idem = ops[o].idem /\ ops'[o].expired = TRUE
           /\ ops'[o].asked = ops[o].asked /\ ops'[o].happened = ops[o].happened
           /\ ops'[o].answer = ops[o].answer
<1> DEFINE row == [ops[o] EXCEPT !.expired = TRUE]
<1>1. o \in DOMAIN ops /\ ops[o] \in Op /\ ops' = [ops EXCEPT ![o] = row]
  BY OpsAreASequence DEF Expire
<1>2. /\ row \in Op /\ row.type = ops[o].type /\ row.key = ops[o].key /\ row.version = ops[o].version
      /\ row.status = ops[o].status /\ row.idem = ops[o].idem /\ row.expired = TRUE
      /\ row.asked = ops[o].asked /\ row.happened = ops[o].happened /\ row.answer = ops[o].answer
  BY <1>1 DEF Op
<1> HIDE DEF row
<1> QED BY <1>1, <1>2, RowChanges

\* A worker moves its own operation, to a status that its own allows.
LEMMA WorkersMove ==
    ASSUME SystemInv, NEW o \in 1..MaxOps, NEW r, StartRunning(o, r) \/ Finish(o, r)
    PROVE  /\ o \in DOMAIN ops /\ ops[o].type = "napcat"
           /\ \/ UNCHANGED ops
              \/ \E to \in Statuses : ops' = Moved(o, to) /\ to # "accepted"
                                      /\ (StartRunning(o, r) => to = "running" /\ ops[o].status = "accepted")
                                      /\ (Finish(o, r) => to = worker[o].to)
<1>1. worker[o].pc \in {"starting", "finishing"} /\ worker[o] \in Worker
  BY DEF StartRunning, Finish, SystemInv, TypeOK
<1>2. o \in DOMAIN ops /\ ops[o].type = "napcat"
  BY <1>1 DEF SystemInv, WorkersAgree, Agrees
<1>3. CASE StartRunning(o, r)
  <2>1. Accepts(o, "accepted", "running") => ops[o].status = "accepted"
    BY DEF Accepts, Terminal
  <2>2. UNCHANGED ops \/ (ops' = Moved(o, "running") /\ Accepts(o, "accepted", "running"))
    BY <1>3 DEF StartRunning
  <2>3. ~Finish(o, r)
    BY <1>3 DEF StartRunning, Finish
  <2> QED BY <1>2, <2>1, <2>2, <2>3 DEF Statuses
<1>4. CASE Finish(o, r)
  <2>1. ops' = Moved(o, worker[o].to) /\ ~StartRunning(o, r)
    BY <1>4 DEF Finish, StartRunning
  <2>2. worker[o].to \in Statuses /\ worker[o].to # "accepted"
    BY <1>1 DEF Worker, Terminal, Statuses
  <2> QED BY <1>2, <2>1, <2>2
<1> QED BY <1>3, <1>4

-----------------------------------------------------------------------------
(* Operations, over any step.                                                *)

\* What stays of an operation.
Stays(p) ==
    /\ p \in DOMAIN ops' /\ ops'[p].type = ops[p].type /\ ops'[p].key = ops[p].key
    /\ ops'[p].version = ops[p].version
    /\ ops[p].expired => ops'[p].expired
    /\ ops'[p].idem = "none" => ops'[p].expired
    /\ ops'[p].status = "accepted" => ops[p].status = "accepted"
    /\ ops'[p].asked <= 1 /\ (ops'[p].status = "accepted" => ops'[p].asked = 0)

\* An operation that begins with a key that no other has, or no young one.
Joins ==
    /\ DOMAIN ops' = 1..(Len(ops) + 1)
    /\ \E type \in {"bot", "napcat"}, k \in Keys, version \in Nat :
          /\ ops'[Len(ops) + 1] = NewOp(type, k, version) /\ version <= file
          /\ \A p \in DOMAIN ops : ops[p].type = type /\ ops[p].key = k => ops'[p].expired

LEMMA BegunStays ==
    ASSUME SystemInv, NEW type \in {"bot", "napcat"}, NEW k \in Keys, NEW version \in Nat, version <= file,
           LiveRows(type, k) = {}, ops' = Begin(type, k, version)
    PROVE  ops' \in Seq(Op) /\ Joins /\ \A p \in DOMAIN ops : Stays(p)
<1> USE DEF SystemInv
<1>1. ASSUME NEW p \in DOMAIN ops PROVE Stays(p)
  <2>1. p \in KeyRows(type, k) => ops[p].expired
    BY DEF LiveRows
  <2>2. p \in DOMAIN ops'
    BY Begins, OpsAreASequence
  <2> QED BY <2>1, <2>2, BegunRows DEF Stays, KeysAgree, AskedOnce
<1>2. ASSUME NEW p \in DOMAIN ops, ops[p].type = type, ops[p].key = k PROVE ops'[p].expired
  <2>1. ops[p].idem # "none" => p \in KeyRows(type, k)
    BY <1>2 DEF KeyRows
  <2>2. ops[p].expired
    BY <2>1 DEF LiveRows, KeysAgree
  <2> QED BY <2>2, BegunRows
<1> QED BY <1>1, <1>2, Begins DEF Joins

LEMMA OpsStep ==
    ASSUME SystemInv, SystemStep
    PROVE  /\ ops' \in Seq(Op) /\ (DOMAIN ops' = DOMAIN ops \/ Joins)
           /\ \A p \in DOMAIN ops : Stays(p)
<1> USE DEF SystemInv
<1>0. \A p \in DOMAIN ops : ops'[p] = ops[p] /\ p \in DOMAIN ops' => Stays(p)
  BY DEF Stays, KeysAgree, AskedOnce
<1>1. CASE UNCHANGED ops
  BY <1>0, <1>1 DEF TypeOK
<1>2. ASSUME NEW h \in Handlers, NEW r \in DbOutcomes, BeginBotRestart(h, r), ops' # ops
      PROVE  ops' \in Seq(Op) /\ Joins /\ \A p \in DOMAIN ops : Stays(p)
  <2> DEFINE k == handler[h].key
  <2>1. handler[h].pc = "checked" /\ LiveRows("bot", k) = {} /\ ops' = Begin("bot", k, handler[h].version)
    BY <1>2 DEF BeginBotRestart
  <2>2. k \in Keys /\ handler[h].version \in Nat /\ handler[h].version <= file
    BY <2>1 DEF VersionsAgree, TypeOK, Handler
  <2> HIDE DEF k
  <2> QED BY <2>1, <2>2, BegunStays
<1>3. ASSUME NEW k \in Keys, NEW r \in DbOutcomes, RestartNapCat(k, r)
      PROVE  ops' \in Seq(Op) /\ Joins /\ \A p \in DOMAIN ops : Stays(p)
  <2>1. LiveRows("napcat", k) = {} /\ ops' = Begin("napcat", k, 0) /\ 0 <= file
    BY <1>3 DEF RestartNapCat, TypeOK
  <2> QED BY <2>1, BegunStays
<1>4. ASSUME NEW o \in 1..MaxOps, SetRestart(o)
      PROVE  ops' \in Seq(Op) /\ DOMAIN ops' = DOMAIN ops /\ \A p \in DOMAIN ops : Stays(p)
  <2>1. o \in DOMAIN ops /\ ops[o].status = "running" /\ ops[o].asked = 0
    BY <1>4 DEF SetRestart, WorkersAgree, Agrees
  <2>2. Stays(o)
    BY <1>4, <2>1, RestartsSet DEF Stays, KeysAgree
  <2> QED BY <1>0, <1>4, <2>1, <2>2, RestartsSet
<1>5. ASSUME NEW o \in 1..MaxOps, Expire(o)
      PROVE  ops' \in Seq(Op) /\ DOMAIN ops' = DOMAIN ops /\ \A p \in DOMAIN ops : Stays(p)
  <2>1. Stays(o)
    BY <1>5, KeysExpire DEF Stays, KeysAgree, AskedOnce
  <2> QED BY <1>0, <1>5, <2>1, KeysExpire
<1>6. ASSUME NEW o \in 1..MaxOps, NEW r \in DbOutcomes, StartRunning(o, r) \/ Finish(o, r)
      PROVE  ops' \in Seq(Op) /\ DOMAIN ops' = DOMAIN ops /\ \A p \in DOMAIN ops : Stays(p)
  <2>1. CASE UNCHANGED ops
    BY <1>0, <2>1 DEF TypeOK
  <2>2. ASSUME NEW to \in Statuses, ops' = Moved(o, to), to # "accepted"
        PROVE  ops' \in Seq(Op) /\ DOMAIN ops' = DOMAIN ops /\ \A p \in DOMAIN ops : Stays(p)
    <3>1. o \in DOMAIN ops
      BY <1>6, WorkersMove
    <3>2. Stays(o)
      BY <2>2, <3>1, Moves DEF Stays, KeysAgree, AskedOnce
    <3> QED BY <1>0, <2>2, <3>1, <3>2, Moves
  <2> QED BY <1>6, <2>1, <2>2, WorkersMove
<1>7. ASSUME NEW o \in 1..MaxOps, NEW answer \in Answers, Answer(o, answer)
      PROVE  ops' \in Seq(Op) /\ DOMAIN ops' = DOMAIN ops /\ \A p \in DOMAIN ops : Stays(p)
  <2>1. o \in DOMAIN ops
    BY <1>7 DEF Answer, WorkersAgree, Agrees
  <2>2. Stays(o)
    BY <1>7, <2>1, RestartsAnswered DEF Stays, KeysAgree, AskedOnce
  <2> QED BY <1>0, <1>7, <2>1, <2>2, RestartsAnswered
<1>8. CASE Start \/ FailStart
  <2>1. ops' \in Seq(Op) /\ DOMAIN ops' = DOMAIN ops
    BY <1>8, Recovers
  <2>2. ASSUME NEW p \in DOMAIN ops PROVE Stays(p)
    BY <1>8, <2>1, RecoveredRows DEF Stays, KeysAgree, AskedOnce, Terminal
  <2> QED BY <2>1, <2>2
<1> QED BY <1>1, <1>2, <1>3, <1>4, <1>5, <1>6, <1>7, <1>8, WritesOps

LEMMA KeysKept ==
    ASSUME SystemInv, SystemStep
    PROVE  KeysAgree' /\ AskedOnce'
<1> USE DEF SystemInv
<1>1. \A p \in DOMAIN ops : Stays(p)
  BY OpsStep
<1>2. CASE DOMAIN ops' = DOMAIN ops
  BY <1>1, <1>2 DEF Stays, KeysAgree, AskedOnce
<1>3. CASE Joins
  <2>1. PICK type \in {"bot", "napcat"}, k \in Keys, version \in Nat :
          /\ ops'[Len(ops) + 1] = NewOp(type, k, version)
          /\ \A p \in DOMAIN ops : ops[p].type = type /\ ops[p].key = k => ops'[p].expired
    BY <1>3 DEF Joins
  <2> DEFINE n == Len(ops) + 1
  <2>2. n \in Nat /\ DOMAIN ops' = DOMAIN ops \cup {n} /\ \A p \in DOMAIN ops : p < n /\ p \in Nat
    BY <1>3, OpsAreASequence DEF Joins
  <2>3. /\ ops'[n].type = type /\ ops'[n].key = k /\ ops'[n].idem = "in_progress" /\ ops'[n].asked = 0
    <3>1. ops'[n] = NewOp(type, k, version)
      BY <2>1
    <3> HIDE DEF n
    <3>2. /\ NewOp(type, k, version).type = type /\ NewOp(type, k, version).key = k
          /\ NewOp(type, k, version).idem = "in_progress" /\ NewOp(type, k, version).asked = 0
      BY DEF NewOp
    <3> QED BY <3>1, <3>2
  <2> HIDE DEF n
  <2>4. ASSUME NEW o \in DOMAIN ops', NEW p \in DOMAIN ops',
               o < p, ops'[o].type = ops'[p].type, ops'[o].key = ops'[p].key
        PROVE  ops'[o].expired
    <3>1. o \in DOMAIN ops
      BY <2>2, <2>4
    <3>2. CASE p \in DOMAIN ops
      BY <1>1, <2>4, <3>1, <3>2 DEF Stays, KeysAgree
    <3>3. CASE p = n
      BY <1>1, <2>1, <2>3, <2>4, <3>1, <3>3 DEF Stays
    <3> QED BY <2>2, <3>2, <3>3
  <2>5. AskedOnce'
    BY <1>1, <2>2, <2>3 DEF Stays, AskedOnce
  <2>6. \A o \in DOMAIN ops' : ops'[o].idem = "none" => ops'[o].expired
    BY <1>1, <2>2, <2>3 DEF Stays
  <2> QED BY <2>4, <2>5, <2>6 DEF KeysAgree
<1> QED BY <1>2, <1>3, OpsStep

-----------------------------------------------------------------------------
(* Workers.                                                                  *)

LEMMA WorkerRecords ==
    ASSUME TypeOK
    PROVE  /\ \A o \in 1..MaxOps : worker[o] \in Worker
           /\ NoWorker \in Worker /\ NoWorker.pc = "none"
           /\ \A to \in Terminal, from \in {"accepted", "running"} :
                /\ Finishing(from, to) \in Worker /\ Finishing(from, to).pc = "finishing"
                /\ Finishing(from, to).to = to
<1>1. \A o \in 1..MaxOps : worker[o] \in Worker
  BY DEF TypeOK
<1>2. NoWorker \in Worker /\ NoWorker.pc = "none"
  BY DEF NoWorker, Worker, Terminal
<1>3. ASSUME NEW to \in Terminal, NEW from \in {"accepted", "running"}
      PROVE  Finishing(from, to) \in Worker /\ Finishing(from, to).pc = "finishing" /\ Finishing(from, to).to = to
  BY DEF Finishing, Worker
<1> QED BY <1>1, <1>2, <1>3

LEMMA WorkerPcs ==
    ASSUME TypeOK, NEW o \in 1..MaxOps, NEW pc \in {"waiting", "starting", "sending", "asked"},
           worker' = [worker EXCEPT ![o].pc = pc]
    PROVE  /\ worker' \in [1..MaxOps -> Worker] /\ worker'[o].pc = pc
           /\ \A p \in 1..MaxOps \ {o} : worker'[p] = worker[p]
<1> DEFINE state == [worker[o] EXCEPT !.pc = pc]
<1>1. state \in Worker /\ state.pc = pc
  BY WorkerRecords DEF Worker
<1>2. worker' = [worker EXCEPT ![o] = state]
  OBVIOUS
<1> HIDE DEF state
<1> QED BY <1>1, <1>2 DEF TypeOK

LEMMA WorkerStates ==
    ASSUME TypeOK, NEW o \in 1..MaxOps, NEW state \in Worker, worker' = [worker EXCEPT ![o] = state]
    PROVE  /\ worker' \in [1..MaxOps -> Worker] /\ worker'[o] = state
           /\ \A p \in 1..MaxOps \ {o} : worker'[p] = worker[p]
BY DEF TypeOK

\* Who is not touched, still agrees.
LEMMA OthersAgree ==
    ASSUME SystemInv, NEW p \in 1..MaxOps, worker'[p] = worker[p], process' # "down" \/ process' = process,
           p \in DOMAIN ops =>
             /\ p \in DOMAIN ops' /\ ops'[p].type = ops[p].type /\ ops'[p].status = ops[p].status
             /\ ops'[p].asked = ops[p].asked /\ ops'[p].happened = ops[p].happened
             /\ ops'[p].answer = ops[p].answer
    PROVE  Agrees(p)'
BY DEF SystemInv, WorkersAgree, Agrees

LEMMA WorkersKept ==
    ASSUME SystemInv, SystemStep
    PROVE  worker' \in [1..MaxOps -> Worker] /\ WorkersAgree'
<1> USE DEF SystemInv
<1> DEFINE Kept == worker' \in [1..MaxOps -> Worker] /\ WorkersAgree'
<1>0. /\ NoWorker \in Worker /\ NoWorker.pc = "none"
      /\ \A p \in 1..MaxOps : worker[p].pc # "none" => p \in DOMAIN ops /\ ops[p].type = "napcat" /\ process # "down"
  BY WorkerRecords DEF WorkersAgree, Agrees
<1>1. CASE UNCHANGED <<ops, worker>>
  <2>1. ASSUME NEW p \in 1..MaxOps PROVE Agrees(p)'
    <3>1. CASE worker'[p] = NoWorker
      BY <1>0, <3>1 DEF Agrees
    <3>2. CASE process' # "down" \/ process' = process
      BY <1>1, <3>2, OthersAgree
    <3> QED BY <3>1, <3>2, WritesProcess
  <2> QED BY <1>1, <2>1 DEF TypeOK, WorkersAgree
<1>2. ASSUME NEW h \in Handlers, NEW r \in DbOutcomes, BeginBotRestart(h, r), ops' # ops PROVE Kept
  <2> DEFINE k == handler[h].key
             version == handler[h].version
  <2>1. handler[h].pc = "checked" /\ ops' = Begin("bot", k, version) /\ UNCHANGED <<worker, process>>
    BY <1>2 DEF BeginBotRestart
  <2>2. k \in Keys /\ version \in Nat
    BY <2>1 DEF VersionsAgree, TypeOK, Handler
  <2> HIDE DEF k, version
  <2>3. ASSUME NEW p \in DOMAIN ops
        PROVE  /\ p \in DOMAIN ops' /\ ops'[p].type = ops[p].type /\ ops'[p].status = ops[p].status
               /\ ops'[p].asked = ops[p].asked /\ ops'[p].happened = ops[p].happened
               /\ ops'[p].answer = ops[p].answer
    <3>1. p \in DOMAIN ops'
      BY OpsStep DEF Stays
    <3> QED BY <2>1, <2>2, <3>1, BegunRows
  <2>4. ASSUME NEW p \in 1..MaxOps PROVE Agrees(p)'
    BY <2>1, <2>3, OthersAgree
  <2> QED BY <2>1, <2>4 DEF TypeOK, WorkersAgree
<1>3. ASSUME NEW k \in Keys, NEW r \in DbOutcomes, RestartNapCat(k, r) PROVE Kept
  <2> PICK n : n = Len(ops) + 1
    OBVIOUS
  <2>1. /\ ops' = Begin("napcat", k, 0) /\ UNCHANGED process /\ process = "up"
        /\ UNCHANGED worker \/ worker' = [worker EXCEPT ![n].pc = "waiting"]
        /\ Len(ops) < MaxOps
    BY <1>3 DEF RestartNapCat
  <2>2. n \in 1..MaxOps /\ n \notin DOMAIN ops
    BY <2>1, OpsAreASequence, ConstantsAssumption
  <2>3. ASSUME NEW p \in DOMAIN ops
        PROVE  /\ p \in DOMAIN ops' /\ ops'[p].type = ops[p].type /\ ops'[p].status = ops[p].status
               /\ ops'[p].asked = ops[p].asked /\ ops'[p].happened = ops[p].happened
               /\ ops'[p].answer = ops[p].answer
    <3>1. p \in DOMAIN ops'
      BY OpsStep DEF Stays
    <3> QED BY <2>1, <3>1, BegunRows
  <2>4. n \in DOMAIN ops' /\ ops'[n].type = "napcat"
    <3>1. n \in DOMAIN ops' /\ ops'[n] = NewOp("napcat", k, 0)
      BY <2>1, Begins, OpsAreASequence
    <3>2. NewOp("napcat", k, 0).type = "napcat"
      BY DEF NewOp
    <3> QED BY <3>1, <3>2
  <2>5. /\ worker' \in [1..MaxOps -> Worker] /\ \A p \in 1..MaxOps \ {n} : worker'[p] = worker[p]
        /\ worker'[n] = worker[n] \/ worker'[n].pc = "waiting"
    BY <2>1, <2>2, WorkerPcs DEF TypeOK
  <2>6. Agrees(n)'
    <3>1. worker[n].pc = "none"
      BY <1>0, <2>2
    <3> QED BY <2>1, <2>4, <2>5, <3>1 DEF Agrees
  <2>7. ASSUME NEW p \in 1..MaxOps \ {n} PROVE Agrees(p)'
    BY <2>1, <2>3, <2>5, OthersAgree
  <2> QED BY <2>5, <2>6, <2>7 DEF WorkersAgree
<1>4. ASSUME NEW o \in 1..MaxOps, TakeSlot(o) \/ StopWaiting(o) \/ GiveUp(o) PROVE Kept
  <2>1. UNCHANGED <<ops, process>> /\ worker[o].pc # "none"
    BY <1>4 DEF TakeSlot, StopWaiting, GiveUp, kept
  <2>2. /\ worker' \in [1..MaxOps -> Worker] /\ \A p \in 1..MaxOps \ {o} : worker'[p] = worker[p]
        /\ \/ worker'[o].pc \in {"starting", "none"}
           \/ worker'[o].pc = "finishing" /\ worker'[o].to = "unknown"
    <3>1. CASE TakeSlot(o)
      BY <3>1, WorkerPcs DEF TakeSlot
    <3>2. CASE StopWaiting(o)
      BY <3>2, WorkerStates, WorkerRecords DEF StopWaiting, Terminal
    <3>3. CASE GiveUp(o)
      BY <3>3, WorkerStates, WorkerRecords DEF GiveUp
    <3> QED BY <1>4, <3>1, <3>2, <3>3
  <2>3. Agrees(o)'
    BY <1>0, <2>1, <2>2 DEF Agrees
  <2>4. ASSUME NEW p \in 1..MaxOps \ {o} PROVE Agrees(p)'
    BY <2>1, <2>2, OthersAgree
  <2> QED BY <2>2, <2>3, <2>4 DEF WorkersAgree
<1>5. ASSUME NEW o \in 1..MaxOps, SetRestart(o) PROVE Kept
  <2>1. UNCHANGED process /\ worker[o].pc = "sending" /\ worker' = [worker EXCEPT ![o].pc = "asked"]
    BY <1>5 DEF SetRestart
  <2>2. o \in DOMAIN ops /\ ops[o].status = "running" /\ ops[o].type = "napcat" /\ process # "down"
    BY <2>1 DEF WorkersAgree, Agrees
  <2>3. Agrees(o)'
    BY <1>5, <2>1, <2>2, RestartsSet, WorkerPcs DEF Agrees
  <2>4. ASSUME NEW p \in 1..MaxOps \ {o} PROVE Agrees(p)'
    <3>1. worker'[p] = worker[p]
      BY <2>1, WorkerPcs
    <3>2. p \in DOMAIN ops => p \in DOMAIN ops' /\ ops'[p] = ops[p]
      BY <1>5, <2>2, RestartsSet
    <3> QED BY <2>1, <3>1, <3>2, OthersAgree
  <2> QED BY <2>1, <2>3, <2>4, WorkerPcs DEF WorkersAgree
<1>6. ASSUME NEW o \in 1..MaxOps, NEW answer \in Answers, Answer(o, answer) PROVE Kept
  <2>1. /\ UNCHANGED process /\ worker[o].pc = "asked" /\ answer \in Answerable(ops[o].happened)
        /\ worker' = [worker EXCEPT ![o] = Finishing("running", Classify(answer))]
    BY <1>6 DEF Answer
  <2>2. o \in DOMAIN ops /\ ops[o].type = "napcat" /\ process # "down"
    BY <2>1 DEF WorkersAgree, Agrees
  <2>3. /\ Classify(answer) \in Terminal
        /\ Classify(answer) = "succeeded" => ops[o].happened
        /\ Classify(answer) = "failed" => ~ops[o].happened \/ answer = "undecodable"
    BY <2>1 DEF Classify, Terminal, Answerable, Answers
  <2>4. /\ worker' \in [1..MaxOps -> Worker] /\ \A p \in 1..MaxOps \ {o} : worker'[p] = worker[p]
        /\ worker'[o].pc = "finishing" /\ worker'[o].to = Classify(answer)
    <3> DEFINE result == Classify(answer)
    <3> HIDE DEF result
    <3>1. /\ worker' = [worker EXCEPT ![o] = Finishing("running", result)] /\ result \in Terminal
      BY <2>1, <2>3 DEF result
    <3>2. /\ worker' \in [1..MaxOps -> Worker] /\ \A p \in 1..MaxOps \ {o} : worker'[p] = worker[p]
          /\ worker'[o].pc = "finishing" /\ worker'[o].to = result
      BY <3>1, WorkerStates, WorkerRecords
    <3> QED BY <3>2 DEF result
  <2>5. Agrees(o)'
    BY <1>6, <2>1, <2>2, <2>3, <2>4, RestartsAnswered DEF Agrees
  <2>6. ASSUME NEW p \in 1..MaxOps \ {o} PROVE Agrees(p)'
    <3>1. p \in DOMAIN ops => p \in DOMAIN ops' /\ ops'[p] = ops[p]
      BY <1>6, <2>2, RestartsAnswered
    <3> QED BY <2>1, <2>4, <3>1, OthersAgree
  <2> QED BY <2>4, <2>5, <2>6 DEF WorkersAgree
<1>7. ASSUME NEW o \in 1..MaxOps, NEW r \in DbOutcomes, StartRunning(o, r) PROVE Kept
  <2>1. /\ UNCHANGED process /\ process # "down"
        /\ \/ /\ worker' = [worker EXCEPT ![o].pc = "sending"]
              /\ Accepts(o, "accepted", "running") /\ ops' = Moved(o, "running")
           \/ worker' = [worker EXCEPT ![o] = Finishing("accepted", "unknown")]
    BY <1>7 DEF StartRunning
  <2>2. o \in DOMAIN ops /\ ops[o].type = "napcat"
    BY <1>7, WorkersMove
  <2>3. \A p \in DOMAIN ops : p \in DOMAIN ops' /\ ops'[p].type = ops[p].type /\ (p # o => ops'[p] = ops[p])
    BY <1>7, <2>2, WorkersMove, Moves, OpsStep DEF Stays
  <2>4. /\ worker' \in [1..MaxOps -> Worker] /\ \A p \in 1..MaxOps \ {o} : worker'[p] = worker[p]
    BY <2>1, WorkerPcs, WorkerStates, WorkerRecords DEF Terminal
  <2>5. Agrees(o)'
    <3>1. CASE /\ worker' = [worker EXCEPT ![o].pc = "sending"]
               /\ Accepts(o, "accepted", "running") /\ ops' = Moved(o, "running")
      <4>1. ops[o].status = "accepted" /\ "running" \in Statuses
        BY <3>1 DEF Accepts, Terminal, Statuses
      <4>2. ops[o].asked = 0
        BY <2>2, <4>1 DEF AskedOnce
      <4>3. ops'[o].status = "running" /\ ops'[o].asked = ops[o].asked
        BY <2>2, <3>1, <4>1, Moves
      <4>4. worker'[o].pc = "sending"
        BY <3>1, WorkerPcs
      <4> QED BY <2>1, <2>2, <2>3, <4>2, <4>3, <4>4 DEF Agrees
    <3>2. CASE worker' = [worker EXCEPT ![o] = Finishing("accepted", "unknown")]
      <4>1. worker'[o].pc = "finishing" /\ worker'[o].to = "unknown"
        BY <3>2, WorkerStates, WorkerRecords DEF Terminal
      <4> QED BY <2>1, <2>2, <2>3, <4>1 DEF Agrees
    <3> QED BY <2>1, <3>1, <3>2
  <2>6. ASSUME NEW p \in 1..MaxOps \ {o} PROVE Agrees(p)'
    BY <2>1, <2>3, <2>4, OthersAgree
  <2> QED BY <2>4, <2>5, <2>6 DEF WorkersAgree
<1>8. ASSUME NEW o \in 1..MaxOps, NEW r \in DbOutcomes, Finish(o, r) PROVE Kept
  <2>1. /\ UNCHANGED process /\ process # "down" /\ worker[o].pc = "finishing"
        /\ UNCHANGED worker \/ worker' = [worker EXCEPT ![o] = NoWorker]
        /\ ops' = Moved(o, worker[o].to) /\ worker[o].to \in Statuses
    BY <1>8, WorkerRecords DEF Finish, Worker, Terminal, Statuses
  <2>2. o \in DOMAIN ops /\ ops[o].type = "napcat"
    BY <1>8, WorkersMove
  <2>3. \A p \in DOMAIN ops : p \in DOMAIN ops' /\ ops'[p].type = ops[p].type /\ (p # o => ops'[p] = ops[p])
    BY <2>1, <2>2, Moves
  <2>4. /\ worker' \in [1..MaxOps -> Worker] /\ \A p \in 1..MaxOps \ {o} : worker'[p] = worker[p]
        /\ worker'[o] = worker[o] \/ worker'[o].pc = "none"
    BY <1>0, <2>1, WorkerStates DEF TypeOK
  <2>5. Agrees(o)'
    <3>1. ops'[o].happened = ops[o].happened /\ ops'[o].answer = ops[o].answer
      BY <2>1, <2>2, Moves
    <3> QED BY <2>1, <2>2, <2>3, <2>4, <3>1 DEF Agrees, WorkersAgree
  <2>6. ASSUME NEW p \in 1..MaxOps \ {o} PROVE Agrees(p)'
    BY <2>1, <2>3, <2>4, OthersAgree
  <2> QED BY <2>4, <2>5, <2>6 DEF WorkersAgree
<1>9. ASSUME NEW o \in 1..MaxOps, Expire(o) PROVE Kept
  <2>1. UNCHANGED <<worker, process>>
    BY <1>9 DEF Expire, memory
  <2>2. ASSUME NEW p \in DOMAIN ops
        PROVE  /\ p \in DOMAIN ops' /\ ops'[p].type = ops[p].type /\ ops'[p].status = ops[p].status
               /\ ops'[p].asked = ops[p].asked /\ ops'[p].happened = ops[p].happened
               /\ ops'[p].answer = ops[p].answer
    BY <1>9, KeysExpire
  <2>3. ASSUME NEW p \in 1..MaxOps PROVE Agrees(p)'
    BY <2>1, <2>2, OthersAgree
  <2> QED BY <2>1, <2>3 DEF TypeOK, WorkersAgree
<1>10. CASE Start \/ FailStart
  <2>1. UNCHANGED worker /\ process = "down"
    BY <1>10 DEF Start, FailStart, memory
  <2> QED BY <1>0, <2>1 DEF TypeOK, WorkersAgree, Agrees
<1>11. CASE Exit \/ Crash
  <2>1. worker' = [o \in 1..MaxOps |-> NoWorker]
    BY <1>11 DEF Exit, Crash, Forget
  <2> QED BY <1>0, <2>1 DEF WorkersAgree, Agrees
<1> QED
  BY <1>1, <1>2, <1>3, <1>4, <1>5, <1>6, <1>7, <1>8, <1>9, <1>10, <1>11, WritesOps, WritesWorkers

-----------------------------------------------------------------------------
(* Requests.                                                                 *)

LEMMA HandlerStates ==
    ASSUME TypeOK, NEW h \in Handlers, NEW state \in Handler, handler' = [handler EXCEPT ![h] = state]
    PROVE  /\ handler' \in [Handlers -> Handler] /\ handler'[h] = state
           /\ \A f \in Handlers \ {h} : handler'[f] = handler[f]
BY DEF TypeOK

LEMMA IdleRecord == Idle \in Handler /\ Idle.pc = "idle"
BY DEF Idle, Handler, Codes

\* What a request is after it asked for a restart of the bot.
Asked(h) == handler'[h].pc = "checked" /\ handler'[h].key \in Keys /\ handler'[h].version = file
Accepted(h) == handler'[h].pc \in {"accepted", "idle"}

LEMMA RequestsAsk ==
    ASSUME TypeOK, NEW h \in Handlers, NEW k \in Keys, AskBotRestart(h, k)
    PROVE  /\ handler' \in [Handlers -> Handler] /\ Asked(h)
           /\ \A f \in Handlers \ {h} : handler'[f] = handler[f]
<1> DEFINE state == [Idle EXCEPT !.pc = "checked", !.key = k, !.version = file]
<1>1. state \in [pc : {"checked"}, key : {k}, version : {file}, op : {0}, audit : {0},
                 result : {"unknown"}, code : {"none"}]
  BY DEF Idle
<1>2. handler' = [handler EXCEPT ![h] = state]
  BY DEF AskBotRestart
<1> HIDE DEF state
<1>3. state \in Handler /\ state.pc = "checked" /\ state.key = k /\ state.version = file
  BY <1>1 DEF Handler, Codes, TypeOK
<1> QED BY <1>2, <1>3, HandlerStates DEF Asked

LEMMA RequestsBegin ==
    ASSUME TypeOK, NEW h \in Handlers, NEW r, BeginBotRestart(h, r) \/ ScheduleBotRestart(h) \/ CompleteUpdate(h, r)
    PROVE  /\ handler' \in [Handlers -> Handler] /\ Accepted(h)
           /\ \A f \in Handlers \ {h} : handler'[f] = handler[f]
<1>1. CASE handler' = [handler EXCEPT ![h] = Idle]
  BY <1>1, IdleRecord, HandlerStates DEF Accepted
<1>2. CASE handler' = [handler EXCEPT ![h] = [Idle EXCEPT !.pc = "accepted", !.op = Len(ops) + 1]]
  <2> DEFINE state == [Idle EXCEPT !.pc = "accepted", !.op = Len(ops) + 1]
  <2>1. state \in [pc : {"accepted"}, key : {0}, version : {0}, op : {Len(ops) + 1}, audit : {0},
                   result : {"unknown"}, code : {"none"}]
    BY DEF Idle
  <2>2. handler' = [handler EXCEPT ![h] = state]
    BY <1>2
  <2> HIDE DEF state
  <2>3. state \in Handler /\ state.pc = "accepted"
    BY <2>1, OpsAreASequence DEF Handler, Codes
  <2> QED BY <2>2, <2>3, HandlerStates DEF Accepted
<1>3. CASE BeginBotRestart(h, r)
  <2>1. \/ handler' = [handler EXCEPT ![h] = [Idle EXCEPT !.pc = "accepted", !.op = Len(ops) + 1]]
        \/ handler' = [handler EXCEPT ![h] = Idle]
    BY <1>3, Zenon DEF BeginBotRestart
  <2> QED BY <1>1, <1>2, <2>1
<1> QED BY <1>1, <1>3 DEF ScheduleBotRestart, CompleteUpdate

\* An update that begins gets an audit row of its own.
Begun(h, v) ==
    /\ handler'[h].pc = "editing" /\ handler'[h].version = v
    /\ handler'[h].audit = Len(audits) + 1

LEMMA UpdatesBegin ==
    ASSUME TypeOK, NEW h \in Handlers, NEW r, NEW v, BeginUpdate(h, v, r)
    PROVE  /\ handler' \in [Handlers -> Handler] /\ (Begun(h, v) \/ Accepted(h))
           /\ \A f \in Handlers \ {h} : handler'[f] = handler[f]
           /\ audits' \in Seq(Audit) /\ DOMAIN audits' = DOMAIN audits \cup {Len(audits) + 1}
           /\ \A a \in DOMAIN audits : audits'[a] = audits[a] /\ a # Len(audits) + 1
           /\ audits'[Len(audits) + 1].expected = v /\ audits'[Len(audits) + 1].result = "unknown"
           /\ audits'[Len(audits) + 1].replaced = FALSE
<1> DEFINE row == [expected |-> v, result |-> "unknown", code |-> "none", replaced |-> FALSE]
           state == [Idle EXCEPT !.pc = "editing", !.version = v, !.audit = Len(audits) + 1]
<1>0. v \in Nat /\ Len(audits) \in Nat
  BY DEF BeginUpdate, TypeOK
<1>1. row \in Audit /\ row.expected = v /\ row.result = "unknown" /\ row.replaced = FALSE
  BY <1>0 DEF Audit, Codes
<1>2. state \in [pc : {"editing"}, key : {0}, version : {v}, op : {0}, audit : {Len(audits) + 1},
                 result : {"unknown"}, code : {"none"}]
  BY DEF Idle
<1>3. audits' = Append(audits, row) /\ (handler' = [handler EXCEPT ![h] = state] \/ handler' = [handler EXCEPT ![h] = Idle])
  BY DEF BeginUpdate
<1> HIDE DEF row, state
<1>4. /\ audits' \in Seq(Audit) /\ DOMAIN audits' = DOMAIN audits \cup {Len(audits) + 1}
      /\ audits'[Len(audits) + 1] = row
      /\ \A a \in DOMAIN audits : audits'[a] = audits[a] /\ a # Len(audits) + 1
  BY <1>1, <1>3 DEF TypeOK
<1>5. state \in Handler /\ state.pc = "editing" /\ state.version = v /\ state.audit = Len(audits) + 1
  BY <1>0, <1>2 DEF Handler, Codes
<1>6. CASE handler' = [handler EXCEPT ![h] = state]
  BY <1>1, <1>4, <1>5, <1>6, HandlerStates DEF Begun
<1>7. CASE handler' = [handler EXCEPT ![h] = Idle]
  BY <1>1, <1>4, <1>7, IdleRecord, HandlerStates DEF Accepted
<1> QED BY <1>3, <1>6, <1>7

LEMMA FileIsEdited ==
    ASSUME TypeOK, NEW h \in Handlers, NEW e, Edit(h, e), handler[h].audit \in DOMAIN audits
    PROVE  LET a == handler[h].audit IN
           /\ handler' \in [Handlers -> Handler] /\ handler'[h].pc = "completing" /\ handler'[h].audit = a
           /\ handler'[h].code = ErrorCode(e)
           /\ handler'[h].result = IF EditSucceeds(e) THEN "success" ELSE "failed"
           /\ \A f \in Handlers \ {h} : handler'[f] = handler[f]
           /\ audits' \in Seq(Audit) /\ DOMAIN audits' = DOMAIN audits
           /\ \A b \in DOMAIN audits \ {a} : audits'[b] = audits[b]
           /\ audits'[a].expected = audits[a].expected /\ audits'[a].result = audits[a].result
           /\ audits'[a].code = audits[a].code /\ audits'[a].replaced = EditReplaces(e)
<1> DEFINE a == handler[h].audit
           code_ == ErrorCode(e)
           result_ == IF EditSucceeds(e) THEN "success" ELSE "failed"
           replaced_ == EditReplaces(e)
           state == [handler[h] EXCEPT !.pc = "completing", !.code = code_, !.result = result_]
           row == [audits[a] EXCEPT !.replaced = replaced_]
<1>0. /\ code_ \in Codes /\ result_ \in {"success", "failed"} /\ replaced_ \in BOOLEAN
      /\ handler[h] \in Handler /\ audits[a] \in Audit
  <2>1. code_ \in Codes
    BY DEF ErrorCode, Codes
  <2>2. replaced_ \in BOOLEAN
    BY DEF EditReplaces
  <2> QED BY <2>1, <2>2 DEF TypeOK
<1>1. handler' = [handler EXCEPT ![h] = state] /\ audits' = [audits EXCEPT ![a] = row]
  BY DEF Edit, TypeOK
<1> HIDE DEF code_, result_, replaced_
<1>2. /\ state \in Handler /\ state.pc = "completing" /\ state.code = code_ /\ state.result = result_
      /\ state.audit = a
  BY <1>0 DEF Handler
<1>3. /\ row \in Audit /\ row.replaced = replaced_ /\ row.expected = audits[a].expected
      /\ row.result = audits[a].result /\ row.code = audits[a].code
  BY <1>0 DEF Audit
<1> HIDE DEF state, row
<1>4. /\ handler' \in [Handlers -> Handler] /\ handler'[h] = state
      /\ \A f \in Handlers \ {h} : handler'[f] = handler[f]
  BY <1>1, <1>2, HandlerStates
<1>5. /\ audits' \in Seq(Audit) /\ DOMAIN audits' = DOMAIN audits /\ audits'[a] = row
      /\ \A b \in DOMAIN audits \ {a} : audits'[b] = audits[b]
  BY <1>1, <1>3 DEF TypeOK
<1> QED BY <1>2, <1>3, <1>4, <1>5 DEF code_, result_, replaced_

LEMMA ResultsComplete ==
    ASSUME TypeOK, NEW a \in DOMAIN audits, NEW result \in {"success", "failed"}, NEW code \in Codes,
           audits' = Completed(a, result, code) \/ UNCHANGED audits
    PROVE  /\ audits' \in Seq(Audit) /\ DOMAIN audits' = DOMAIN audits
           /\ \A b \in DOMAIN audits \ {a} : audits'[b] = audits[b]
           /\ audits'[a].expected = audits[a].expected /\ audits'[a].replaced = audits[a].replaced
           /\ \/ audits'[a] = audits[a]
              \/ audits'[a].result = result /\ audits'[a].code = code
<1> DEFINE row == [audits[a] EXCEPT !.result = result, !.code = code]
<1>1. audits[a] \in Audit
  BY DEF TypeOK
<1>2. UNCHANGED audits \/ audits' = [audits EXCEPT ![a] = row]
  BY DEF Completed
<1>3. /\ row \in Audit /\ row.replaced = audits[a].replaced /\ row.expected = audits[a].expected
      /\ row.result = result /\ row.code = code
  BY <1>1 DEF Audit
<1> HIDE DEF row
<1>4. CASE UNCHANGED audits
  BY <1>4 DEF TypeOK
<1>5. CASE audits' = [audits EXCEPT ![a] = row]
  BY <1>3, <1>5 DEF TypeOK
<1> QED BY <1>2, <1>4, <1>5

LEMMA FileGrows ==
    ASSUME TypeOK, SystemStep
    PROVE  file' \in Nat /\ file' >= file
<1>1. CASE UNCHANGED file
  BY <1>1 DEF TypeOK
<1>2. ASSUME NEW h \in Handlers, NEW e, Edit(h, e) PROVE file' \in Nat /\ file' >= file
  BY <1>2 DEF Edit, TypeOK
<1> QED BY <1>1, <1>2, WritesFile

\* Requests that do not edit.
Aside(h) == handler'[h] = handler[h] \/ handler'[h].pc \in {"checked", "accepted", "idle"}

LEMMA RequestsKept ==
    ASSUME SystemInv, SystemStep
    PROVE  /\ handler' \in [Handlers -> Handler]
           /\ \A h \in Handlers : handler'[h].pc = "checked" => handler'[h] = handler[h] \/ Asked(h)
           /\ UNCHANGED audits => \A h \in Handlers :
                Aside(h) \/ \E e \in EditOutcomes(handler[h].version) : Edit(h, e)
<1> USE DEF SystemInv
<1>1. CASE UNCHANGED handler
  BY <1>1 DEF TypeOK, Aside
<1>2. ASSUME NEW h \in Handlers, NEW k \in Keys, AskBotRestart(h, k)
      PROVE  handler' \in [Handlers -> Handler] /\ Asked(h) /\ \A f \in Handlers \ {h} : handler'[f] = handler[f]
  BY <1>2, RequestsAsk
<1>3. ASSUME NEW h \in Handlers, NEW r, BeginBotRestart(h, r) \/ ScheduleBotRestart(h) \/ CompleteUpdate(h, r)
      PROVE  handler' \in [Handlers -> Handler] /\ Accepted(h) /\ \A f \in Handlers \ {h} : handler'[f] = handler[f]
  BY <1>3, RequestsBegin
<1>4. ASSUME NEW h \in Handlers, NEW r \in DbOutcomes, NEW v \in 1..file, BeginUpdate(h, v, r)
      PROVE  /\ handler' \in [Handlers -> Handler] /\ handler'[h].pc # "checked" /\ ~UNCHANGED audits
             /\ \A f \in Handlers \ {h} : handler'[f] = handler[f]
  <2>1. audits' # audits
    <3>1. Len(audits) + 1 \in DOMAIN audits' /\ Len(audits) + 1 \notin DOMAIN audits
      BY <1>4, UpdatesBegin DEF TypeOK
    <3> QED BY <3>1
  <2> QED BY <1>4, <2>1, UpdatesBegin DEF Begun, Accepted
<1>5. ASSUME NEW h \in Handlers, NEW e \in EditOutcomes(handler[h].version), Edit(h, e)
      PROVE  /\ handler' \in [Handlers -> Handler] /\ handler'[h].pc # "checked"
             /\ \A f \in Handlers \ {h} : handler'[f] = handler[f]
  <2>1. handler[h].audit \in DOMAIN audits
    BY <1>5 DEF Edit, UpdatesAgree, Editors, Edits, Busy
  <2> QED BY <1>5, <2>1, FileIsEdited
<1>6. CASE Exit \/ Crash
  <2>1. handler' = [h \in Handlers |-> Idle]
    BY <1>6 DEF Exit, Crash, Forget
  <2> QED BY <2>1, IdleRecord DEF Aside
<1> QED
  <2>1. CASE \E h \in Handlers : \E k \in Keys : AskBotRestart(h, k)
    BY <1>2, <2>1 DEF Asked, Aside
  <2>2. CASE \E h \in Handlers : \E r \in DbOutcomes :
               BeginBotRestart(h, r) \/ ScheduleBotRestart(h) \/ CompleteUpdate(h, r)
    BY <1>3, <2>2 DEF Accepted, Aside
  <2>3. CASE \E h \in Handlers : \E r \in DbOutcomes, v \in 1..file : BeginUpdate(h, v, r)
    BY <1>4, <2>3
  <2>4. CASE \E h \in Handlers : \E e \in EditOutcomes(handler[h].version) : Edit(h, e)
    BY <1>5, <2>4 DEF Aside
  <2>5. "done" \in DbOutcomes
    BY DEF DbOutcomes
  <2> QED BY <1>1, <1>6, <2>1, <2>2, <2>3, <2>4, <2>5, WritesHandlers

LEMMA VersionsKept ==
    ASSUME SystemInv, SystemStep
    PROVE  VersionsAgree' /\ applied' \in Nat
<1> USE DEF SystemInv
<1>0. file' \in Nat /\ file' >= file /\ file \in Nat /\ applied \in Nat
  BY FileGrows DEF TypeOK
<1>1. applied' <= file' /\ applied' \in Nat
  BY <1>0, WritesProcess DEF VersionsAgree
<1>2. ASSUME NEW o \in DOMAIN ops' PROVE ops'[o].version <= file'
  <2>1. CASE o \in DOMAIN ops
    <3>1. ops'[o].version = ops[o].version /\ ops[o].version \in Nat
      BY <2>1, OpsStep, OpsAreASequence DEF Stays, Op
    <3> QED BY <1>0, <2>1, <3>1 DEF VersionsAgree
  <2>2. CASE o \notin DOMAIN ops
    <3>1. Joins /\ o = Len(ops) + 1
      BY <1>2, <2>2, OpsStep, OpsAreASequence DEF Joins
    <3>2. PICK type \in {"bot", "napcat"}, k \in Keys, version \in Nat :
            ops'[Len(ops) + 1] = NewOp(type, k, version) /\ version <= file
      BY <3>1 DEF Joins
    <3>3. NewOp(type, k, version).version = version
      BY DEF NewOp
    <3>4. ops'[o].version = version
      BY <3>1, <3>2, <3>3
    <3> QED BY <1>0, <3>2, <3>4
  <2> QED BY <2>1, <2>2
<1>3. ASSUME NEW h \in Handlers, handler'[h].pc = "checked"
      PROVE  handler'[h].key \in Keys /\ handler'[h].version <= file'
  <2>1. CASE handler'[h] = handler[h]
    <3>1. handler[h].version \in Nat
      BY DEF TypeOK, Handler
    <3> QED BY <1>0, <1>3, <2>1, <3>1 DEF VersionsAgree
  <2>2. CASE Asked(h)
    BY <1>0, <2>2 DEF Asked
  <2> QED BY <1>3, <2>1, <2>2, RequestsKept
<1> QED BY <1>1, <1>2, <1>3 DEF VersionsAgree

-----------------------------------------------------------------------------
(* Results.                                                                  *)

Truth(o) ==
    IF ops[o].type = "bot"
        THEN ops[o].status = "succeeded" => applied >= ops[o].version
        ELSE /\ ops[o].status = "succeeded" => ops[o].happened
             /\ ops[o].status = "failed" => ~ops[o].happened \/ ops[o].answer = "undecodable"
             /\ ops[o].status = "accepted" => ops[o].asked = 0

LEMMA TruthOfEach == ResultsTellTruth <=> \A o \in DOMAIN ops : Truth(o)
BY DEF ResultsTellTruth, Truth

LEMMA TruthStays ==
    ASSUME SystemInv, SystemStep, NEW p \in DOMAIN ops, UNCHANGED applied, p \in DOMAIN ops',
           ops'[p].type = ops[p].type, ops'[p].version = ops[p].version,
           ops'[p].status = ops[p].status, ops'[p].happened = ops[p].happened, ops'[p].asked = ops[p].asked,
           ops'[p].answer = ops[p].answer
    PROVE  Truth(p)'
BY TruthOfEach DEF SystemInv, Truth

LEMMA ResultsKept ==
    ASSUME SystemInv, SystemStep
    PROVE  ResultsTellTruth'
<1> USE DEF SystemInv
<1>0. \A p \in DOMAIN ops : Truth(p) /\ ops[p] \in Op /\ (ops'[p] = ops[p] /\ UNCHANGED applied /\ p \in DOMAIN ops' => Truth(p)')
  BY TruthOfEach, TruthStays, OpsAreASequence
<1>1. ASSUME NEW p \in DOMAIN ops' \ DOMAIN ops PROVE Truth(p)'
  <2>1. Joins /\ p = Len(ops) + 1
    BY <1>1, OpsStep, OpsAreASequence DEF Joins
  <2>2. PICK type \in {"bot", "napcat"}, k \in Keys, version \in Nat : ops'[p] = NewOp(type, k, version)
    BY <2>1 DEF Joins
  <2>3. NewOp(type, k, version).status = "accepted" /\ NewOp(type, k, version).asked = 0
    BY DEF NewOp
  <2> QED BY <2>2, <2>3 DEF Truth
<1>2. ASSUME NEW p \in DOMAIN ops PROVE Truth(p)'
  <2>0. p \in DOMAIN ops'
    BY OpsStep DEF Stays
  <2>1. CASE Start \/ FailStart
    <3>1. UNCHANGED applied \/ (Start /\ applied' = file)
      BY WritesProcess
    <3>2. Start => applied' = file
      BY DEF Start
    <3>3. CASE Ended(p, "napcat", "unknown")
      BY <2>0, <3>3, EndedRows DEF Ended, Statuses, Truth
    <3>4. CASE Start /\ Ended(p, "bot", "succeeded")
      <4>1. ops'[p].type = "bot" /\ ops'[p].version = ops[p].version
        BY <3>4, EndedRows DEF Ended, Statuses
      <4>2. ops[p].version <= file
        BY DEF VersionsAgree
      <4>3. ops[p].version \in Nat /\ file \in Nat /\ applied' = file
        BY <1>0, <3>2, <3>4 DEF Op, TypeOK
      <4> QED BY <4>1, <4>2, <4>3 DEF Truth
    <3>5. CASE ops'[p] = ops[p]
      <4>1. CASE ops[p].type = "bot"
        <5>1. ops[p].version <= file
          BY DEF VersionsAgree
        <5>2. ops[p].version \in Nat /\ file \in Nat /\ applied \in Nat
          BY <1>0 DEF Op, TypeOK
        <5>3. ops[p].status = "succeeded" => applied >= ops[p].version
          BY <1>0, <4>1 DEF Truth
        <5>4. ops'[p].status = "succeeded" => applied' >= ops'[p].version
          BY <3>1, <3>5, <5>1, <5>2, <5>3
        <5> QED BY <3>5, <4>1, <5>4 DEF Truth
      <4>2. CASE ops[p].type # "bot"
        BY <1>0, <3>5, <4>2 DEF Truth
      <4> QED BY <4>1, <4>2
    <3> QED BY <2>1, <3>3, <3>4, <3>5, Recovers
  <2>2. CASE ~Start
    <3>0. UNCHANGED applied
      BY <2>2, WritesProcess
    <3>1. CASE UNCHANGED ops
      BY <1>0, <2>0, <3>0, <3>1
    <3>2. ASSUME NEW h \in Handlers, NEW r \in DbOutcomes, BeginBotRestart(h, r), ops' # ops PROVE Truth(p)'
      <4> DEFINE k == handler[h].key
                 version == handler[h].version
      <4>1. handler[h].pc = "checked" /\ ops' = Begin("bot", k, version)
        BY <3>2 DEF BeginBotRestart
      <4>2. k \in Keys /\ version \in Nat
        BY <4>1 DEF VersionsAgree, TypeOK, Handler
      <4> HIDE DEF k, version
      <4> QED BY <2>0, <3>0, <4>1, <4>2, BegunRows, TruthStays
    <3>3. ASSUME NEW k \in Keys, NEW r \in DbOutcomes, RestartNapCat(k, r) PROVE Truth(p)'
      <4>1. ops' = Begin("napcat", k, 0)
        BY <3>3 DEF RestartNapCat
      <4> QED BY <2>0, <3>0, <4>1, BegunRows, TruthStays
    <3>4. ASSUME NEW o \in 1..MaxOps, SetRestart(o) PROVE Truth(p)'
      <4>1. o \in DOMAIN ops /\ ops[o].status = "running" /\ ops[o].type = "napcat"
        BY <3>4 DEF SetRestart, WorkersAgree, Agrees
      <4>2. CASE p = o
        BY <3>4, <4>1, <4>2, RestartsSet DEF Truth
      <4> QED BY <1>0, <2>0, <3>0, <3>4, <4>1, <4>2, RestartsSet
    <3>5. ASSUME NEW o \in 1..MaxOps, Expire(o) PROVE Truth(p)'
      BY <2>0, <3>0, <3>5, KeysExpire, TruthStays
    <3>6. ASSUME NEW o \in 1..MaxOps, NEW r \in DbOutcomes, StartRunning(o, r) \/ Finish(o, r), ops' # ops
          PROVE  Truth(p)'
      <4>1. o \in DOMAIN ops /\ ops[o].type = "napcat"
        BY <3>6, WorkersMove
      <4>2. PICK to \in Statuses : /\ ops' = Moved(o, to) /\ to # "accepted"
                                   /\ StartRunning(o, r) => to = "running"
                                   /\ Finish(o, r) => to = worker[o].to
        BY <3>6, WorkersMove
      <4>3. /\ to = "succeeded" => ops[o].happened
            /\ to = "failed" => ~ops[o].happened \/ ops[o].answer = "undecodable"
        BY <3>6, <4>2 DEF Finish, WorkersAgree, Agrees
      <4>4. CASE p = o
        BY <4>1, <4>2, <4>3, <4>4, Moves DEF Truth
      <4> QED BY <1>0, <2>0, <3>0, <4>1, <4>2, <4>4, Moves
    <3>7. ASSUME NEW o \in 1..MaxOps, NEW answer \in Answers, Answer(o, answer)
          PROVE  Truth(p)'
      <4>1. o \in DOMAIN ops
        BY <3>7 DEF Answer, WorkersAgree, Agrees
      <4>2. CASE p = o
        <5>1. ops[o].status = "running" /\ ops[o].type = "napcat"
          BY <3>7 DEF Answer, WorkersAgree, Agrees
        <5>2. ops'[o].status = "running" /\ ops'[o].type = "napcat"
          BY <3>7, <4>1, <5>1, RestartsAnswered
        <5> QED BY <4>2, <5>2 DEF Truth
      <4> QED BY <1>0, <2>0, <3>0, <3>7, <4>1, <4>2, RestartsAnswered
    <3> QED BY <2>1, <2>2, <3>1, <3>2, <3>3, <3>4, <3>5, <3>6, <3>7, WritesOps
  <2> QED BY <2>1, <2>2
<1>3. \A p \in DOMAIN ops' : Truth(p)'
  BY <1>1, <1>2
<1> QED BY <1>3 DEF ResultsTellTruth, Truth

-----------------------------------------------------------------------------
(* Updates of the configuration.                                             *)

\* A result that is written down leaves the rest true.
LEMMA CompletionKeeps ==
    ASSUME SystemInv, UNCHANGED file, NEW a \in DOMAIN audits, NEW result \in {"success", "failed"},
           NEW code \in Codes, Truthful(a, result, code),
           audits' = Completed(a, result, code) \/ UNCHANGED audits
    PROVE  /\ audits' \in Seq(Audit) /\ DOMAIN audits' = DOMAIN audits /\ Replacements'
           /\ \A b, s, c : b \in DOMAIN audits /\ Truthful(b, s, c) => Truthful(b, s, c)'
           /\ \A h \in Handlers : UNCHANGED handler[h] /\ retries' \subseteq retries
                /\ Busy(h) /\ (handler[h].pc = "editing" => handler[h].audit # a) => Edits(h)'
<1> USE DEF SystemInv, UpdatesAgree
<1>1. /\ audits' \in Seq(Audit) /\ DOMAIN audits' = DOMAIN audits
      /\ \A b \in DOMAIN audits : audits'[b].replaced = audits[b].replaced /\ audits'[b].expected = audits[b].expected
      /\ \A b \in DOMAIN audits \ {a} : audits'[b] = audits[b]
      /\ audits'[a] = audits[a] \/ (audits'[a].result = result /\ audits'[a].code = code)
  BY ResultsComplete
<1>2. \A b \in DOMAIN audits : Truthful(b, audits[b].result, audits[b].code)
  BY DEF Replacements
<1>3. \A b \in DOMAIN audits' : Truthful(b, audits[b].result, audits[b].code)' 
  BY <1>1, <1>2 DEF Truthful
<1>4. Replacements'
  BY <1>1, <1>3 DEF Replacements
<1>5. \A b, s, c : b \in DOMAIN audits /\ Truthful(b, s, c) => Truthful(b, s, c)'
  BY <1>1 DEF Truthful
<1>6. ASSUME NEW h \in Handlers, UNCHANGED handler[h], retries' \subseteq retries, Busy(h),
             handler[h].pc = "editing" => handler[h].audit # a
      PROVE  Edits(h)'
  <2>1. Edits(h)
    BY <1>6 DEF Editors
  <2> QED BY <1>1, <1>6, <2>1 DEF Edits, Truthful
<1> QED BY <1>1, <1>4, <1>5, <1>6

\* Nothing is written to the log, and nobody edits.
LEMMA NothingUpdated ==
    ASSUME SystemInv, UNCHANGED <<audits, file>>, UNCHANGED retries \/ retries' = {},
           \A h \in Handlers : Aside(h)
    PROVE  audits' \in Seq(Audit) /\ retries' \subseteq Completion /\ UpdatesAgree'
<1> USE DEF SystemInv, UpdatesAgree
<1>1. audits' \in Seq(Audit) /\ retries' \subseteq Completion /\ Replacements'
  BY DEF TypeOK, Replacements, Truthful
<1>2. Repeats'
  BY DEF Repeats, Truthful
<1>3. \A h \in Handlers : Busy(h)' => Busy(h) /\ UNCHANGED handler[h]
  BY DEF Busy, Aside
<1>4. ASSUME NEW h \in Handlers, Busy(h)' PROVE Edits(h)'
  <2>1. Edits(h) /\ UNCHANGED handler[h]
    BY <1>3, <1>4 DEF Editors
  <2> QED BY <2>1 DEF Edits, Truthful
<1>5. Editors'
  BY <1>3, <1>4 DEF Editors
<1> QED BY <1>1, <1>2, <1>5

LEMMA UpdatesKept ==
    ASSUME SystemInv, SystemStep
    PROVE  audits' \in Seq(Audit) /\ retries' \subseteq Completion /\ UpdatesAgree'
<1> USE DEF SystemInv
<1> DEFINE Kept == audits' \in Seq(Audit) /\ retries' \subseteq Completion /\ UpdatesAgree'
<1>1. ASSUME NEW h \in Handlers, NEW r \in DbOutcomes, CompleteUpdate(h, r) PROVE Kept
  <2> DEFINE a == handler[h].audit
             repeat == [audit |-> a, result |-> handler[h].result, code |-> handler[h].code, left |-> 3]
  <2>1. /\ handler[h].pc = "completing" /\ UNCHANGED file
        /\ UNCHANGED audits \/ audits' = Completed(a, handler[h].result, handler[h].code)
        /\ handler' = [handler EXCEPT ![h] = Idle]
        /\ retries' = retries \/ retries' = retries \cup {repeat}
    BY <1>1 DEF CompleteUpdate
  <2>2. Edits(h) /\ handler[h] \in Handler /\ Busy(h)
    BY <2>1 DEF UpdatesAgree, Editors, Busy, TypeOK
  <2>3. /\ a \in DOMAIN audits /\ handler[h].result \in {"success", "failed"} /\ handler[h].code \in Codes
        /\ Truthful(a, handler[h].result, handler[h].code) /\ a \in Nat
    BY <2>1, <2>2 DEF Edits, Handler
  <2>4. /\ audits' \in Seq(Audit) /\ DOMAIN audits' = DOMAIN audits /\ Replacements'
        /\ \A b, s, c : b \in DOMAIN audits /\ Truthful(b, s, c) => Truthful(b, s, c)'
    BY <2>1, <2>3, CompletionKeeps
  <2>5. repeat \in Completion
    BY <2>3 DEF Completion
  <2>6. /\ repeat.audit = a /\ repeat.result = handler[h].result /\ repeat.code = handler[h].code
    OBVIOUS
  <2>7. \A f \in Handlers \ {h} : handler'[f] = handler[f] /\ (Busy(f) => handler[f].audit # a)
    BY <2>1, <2>2 DEF UpdatesAgree, Editors, TypeOK
  <2>8. ~Busy(h)'
    BY <2>1, IdleRecord DEF Busy, TypeOK
  <2> HIDE DEF repeat
  <2>9. Repeats' /\ retries' \subseteq Completion
    BY <2>1, <2>3, <2>4, <2>5, <2>6 DEF Repeats, UpdatesAgree, TypeOK
  <2>10. ASSUME NEW f \in Handlers, Busy(f)' PROVE Edits(f)' /\ f # h /\ Busy(f) /\ UNCHANGED handler[f]
    <3>1. f # h
      BY <2>8, <2>10
    <3>2. UNCHANGED handler[f] /\ Busy(f) /\ handler[f].audit # a
      BY <2>7, <2>10, <3>1 DEF Busy
    <3>3. Edits(f)
      BY <3>2 DEF UpdatesAgree, Editors
    <3>4. audits'[handler[f].audit] = audits[handler[f].audit]
      BY <2>1, <2>3, <3>2, <3>3, ResultsComplete DEF Edits
    <3>5. \A c \in retries' : c \in retries \/ c.audit = a
      BY <2>1, <2>6
    <3>6. Edits(f)'
      BY <2>4, <3>2, <3>3, <3>4, <3>5 DEF Edits, Truthful
    <3> QED BY <3>1, <3>2, <3>6
  <2>11. Editors'
    BY <2>10 DEF Editors, UpdatesAgree
  <2> QED BY <2>4, <2>9, <2>11 DEF UpdatesAgree
<1>2. ASSUME NEW h \in Handlers, NEW r \in DbOutcomes, NEW v \in 1..file, BeginUpdate(h, v, r) PROVE Kept
  <2> PICK n : n = Len(audits) + 1
    OBVIOUS
  <2>1. UNCHANGED <<file, retries>> /\ handler[h].pc = "idle"
    BY <1>2, IdleRecord DEF BeginUpdate
  <2>2. /\ audits' \in Seq(Audit) /\ DOMAIN audits' = DOMAIN audits \cup {n}
        /\ \A a \in DOMAIN audits : audits'[a] = audits[a] /\ a # n
        /\ audits'[n].expected = v /\ audits'[n].result = "unknown" /\ audits'[n].replaced = FALSE
        /\ \A f \in Handlers \ {h} : handler'[f] = handler[f]
    BY <1>2, UpdatesBegin
  <2>3. (handler'[h].pc = "editing" /\ handler'[h].version = v /\ handler'[h].audit = n) \/ handler'[h].pc \in {"accepted", "idle"}
    BY <1>2, UpdatesBegin DEF Begun, Accepted
  <2>4. \A a, s, c : a \in DOMAIN audits /\ Truthful(a, s, c) => Truthful(a, s, c)'
    BY <2>2 DEF Truthful
  <2>5. Replacements'
    <3>1. \A a \in DOMAIN audits : Truthful(a, audits[a].result, audits[a].code)
      BY DEF UpdatesAgree, Replacements
    <3>2. \A a \in DOMAIN audits' : Truthful(a, audits[a].result, audits[a].code)'
      BY <2>2, <3>1 DEF Truthful
    <3> QED BY <2>1, <2>2, <3>2 DEF UpdatesAgree, Replacements
  <2>6. Repeats' /\ retries' \subseteq Completion /\ \A c \in retries' : c.audit # n
    BY <2>1, <2>2, <2>4 DEF UpdatesAgree, Repeats, TypeOK
  <2>7. ASSUME NEW f \in Handlers \ {h}, Busy(f)'
        PROVE  Edits(f)' /\ handler'[f].audit # n /\ Busy(f) /\ UNCHANGED handler[f]
    <3>1. UNCHANGED handler[f] /\ Busy(f)
      BY <2>2, <2>7 DEF Busy
    <3>2. Edits(f)
      BY <3>1 DEF UpdatesAgree, Editors
    <3> QED BY <2>1, <2>2, <2>4, <3>1, <3>2 DEF Edits
  <2>8. Busy(h)' => Edits(h)' /\ handler'[h].audit = n
    BY <2>2, <2>3, <2>6 DEF Busy, Edits
  <2>9. Editors'
    <3>1. ASSUME NEW f \in Handlers, NEW g \in Handlers \ {f}, Busy(f)', Busy(g)'
          PROVE  handler'[g].audit # handler'[f].audit
      BY <2>7, <2>8, <3>1 DEF UpdatesAgree, Editors
    <3>2. \A f \in Handlers : Busy(f)' => Edits(f)'
      BY <2>7, <2>8
    <3> QED BY <3>1, <3>2 DEF Editors
  <2> QED BY <2>2, <2>5, <2>6, <2>9 DEF UpdatesAgree
<1>3. ASSUME NEW h \in Handlers, NEW e \in EditOutcomes(handler[h].version), Edit(h, e) PROVE Kept
  <2> PICK a : a = handler[h].audit
    OBVIOUS
  <2>1. /\ handler[h].pc = "editing" /\ UNCHANGED retries
        /\ file' = IF EditReplaces(e) THEN file + 1 ELSE file
    BY <1>3 DEF Edit
  <2>2. Edits(h) /\ Busy(h) /\ a \in DOMAIN audits
    BY <2>1 DEF UpdatesAgree, Editors, Edits, Busy
  <2>3. /\ handler'[h].pc = "completing" /\ handler'[h].audit = a
        /\ handler'[h].code = ErrorCode(e)
        /\ handler'[h].result = IF EditSucceeds(e) THEN "success" ELSE "failed"
        /\ \A f \in Handlers \ {h} : handler'[f] = handler[f]
        /\ audits' \in Seq(Audit) /\ DOMAIN audits' = DOMAIN audits
        /\ \A b \in DOMAIN audits \ {a} : audits'[b] = audits[b]
        /\ audits'[a].expected = audits[a].expected /\ audits'[a].result = audits[a].result
        /\ audits'[a].code = audits[a].code /\ audits'[a].replaced = EditReplaces(e)
    BY <1>3, <2>2, FileIsEdited
  <2>4. audits[a].result = "unknown" /\ audits[a].expected = handler[h].version /\ \A c \in retries : c.audit # a
    BY <2>1, <2>2 DEF Edits
  <2>5. EditReplaces(e) => handler[h].version = file /\ (~EditSucceeds(e) => ErrorCode(e) = "unavailable")
    BY DEF EditReplaces, EditSucceeds, EditOutcomes, MayReplace, PatchVerdicts, Refusals, ErrorCode
  <2>6. \A b \in DOMAIN audits : audits[b].expected \in Nat /\ file \in Nat
    <3>1. file \in Nat /\ \A b \in DOMAIN audits : audits[b] \in Audit
      BY DEF TypeOK
    <3> QED BY <3>1 DEF Audit
  <2>7. Replacements'
    <3>1. \A b \in DOMAIN audits : audits'[b].expected = audits[b].expected
      BY <2>3
    <3>2. ASSUME NEW b \in DOMAIN audits, audits'[b].replaced PROVE audits'[b].expected < file'
      <4>1. CASE b = a
        BY <2>1, <2>3, <2>4, <2>5, <2>6, <3>1, <3>2, <4>1
      <4>2. CASE b # a
        <5>1. audits[b].expected < file
          BY <2>3, <3>2, <4>2 DEF UpdatesAgree, Replacements
        <5> QED BY <2>1, <2>6, <3>1, <5>1
      <4> QED BY <4>1, <4>2
    <3>3. \A b \in DOMAIN audits : Truthful(b, audits[b].result, audits[b].code)'
      BY <2>3, <2>4 DEF Truthful, UpdatesAgree, Replacements
    <3>4. ASSUME NEW b \in DOMAIN audits, NEW c \in DOMAIN audits \ {b}, audits'[b].replaced, audits'[c].replaced
          PROVE  audits'[b].expected # audits'[c].expected
      <4>1. \A d \in DOMAIN audits \ {a} : audits'[d].replaced => audits[d].replaced /\ audits[d].expected < file
        BY <2>3 DEF UpdatesAgree, Replacements
      <4>2. audits'[a].replaced => audits[a].expected = file
        BY <2>3, <2>4, <2>5
      <4>3. CASE b # a /\ c # a
        BY <3>1, <3>4, <4>1, <4>3 DEF UpdatesAgree, Replacements
      <4>4. CASE b = a \/ c = a
        BY <2>6, <3>1, <3>4, <4>1, <4>2, <4>4
      <4> QED BY <4>3, <4>4
    <3> QED BY <2>3, <3>2, <3>3, <3>4 DEF Replacements
  <2>8. Repeats' /\ retries' \subseteq Completion
    BY <2>1, <2>3, <2>4 DEF UpdatesAgree, Repeats, Truthful, TypeOK
  <2>9. Edits(h)'
    BY <2>2, <2>3, <2>5 DEF Edits, Truthful
  <2>10. ASSUME NEW f \in Handlers \ {h}, Busy(f)'
         PROVE  Edits(f)' /\ handler'[f].audit # a
    <3>1. UNCHANGED handler[f] /\ Busy(f)
      BY <2>3, <2>10 DEF Busy
    <3>2. Edits(f) /\ handler[f].audit # a
      BY <2>2, <3>1 DEF UpdatesAgree, Editors
    <3> QED BY <2>1, <2>3, <3>1, <3>2 DEF Edits, Truthful
  <2>11. Editors'
    <3>1. ASSUME NEW f \in Handlers, NEW g \in Handlers \ {f}, Busy(f)', Busy(g)'
          PROVE  handler'[g].audit # handler'[f].audit
      <4>1. CASE f = h \/ g = h
        BY <2>3, <2>10, <3>1, <4>1
      <4>2. CASE f # h /\ g # h
        <5>1. UNCHANGED <<handler[f], handler[g]>>
          BY <2>3, <4>2
        <5> QED BY <3>1, <5>1 DEF UpdatesAgree, Editors, Busy
      <4> QED BY <4>1, <4>2
    <3>2. \A f \in Handlers : Busy(f)' => Edits(f)'
      BY <2>9, <2>10
    <3> QED BY <3>1, <3>2 DEF Editors
  <2> QED BY <2>3, <2>7, <2>8, <2>11 DEF UpdatesAgree
<1>4. ASSUME NEW c \in retries, NEW r \in DbOutcomes, RetryUpdate(c, r) PROVE Kept
  <2>1. /\ UNCHANGED <<file, handler>>
        /\ UNCHANGED audits \/ audits' = Completed(c.audit, c.result, c.code)
        /\ retries' \subseteq retries \cup {[c EXCEPT !.left = @ - 1]}
        /\ c.left # 1 \/ retries' \subseteq retries
    BY <1>4 DEF RetryUpdate
  <2>2. c \in Completion /\ c.audit \in DOMAIN audits /\ Truthful(c.audit, c.result, c.code)
    BY DEF UpdatesAgree, Repeats, TypeOK
  <2>3. c.result \in {"success", "failed"} /\ c.code \in Codes
    BY <2>2 DEF Completion
  <2> DEFINE d == [c EXCEPT !.left = @ - 1]
  <2>4. d.audit = c.audit /\ d.result = c.result /\ d.code = c.code /\ (c.left # 1 => d \in Completion)
    BY <2>2 DEF Completion
  <2> HIDE DEF d
  <2>5. /\ audits' \in Seq(Audit) /\ DOMAIN audits' = DOMAIN audits /\ Replacements'
        /\ \A b, s, x : b \in DOMAIN audits /\ Truthful(b, s, x) => Truthful(b, s, x)'
    BY <2>1, <2>2, <2>3, CompletionKeeps
  <2>6. retries' \subseteq retries \cup {d} /\ (c.left # 1 \/ retries' \subseteq retries)
    BY <2>1 DEF d
  <2>7. Repeats' /\ retries' \subseteq Completion
    BY <2>2, <2>4, <2>5, <2>6 DEF UpdatesAgree, Repeats, TypeOK
  <2>8. \A x \in retries' : x.audit = c.audit \/ x \in retries
    BY <2>4, <2>6
  <2>9. ASSUME NEW f \in Handlers, Busy(f) PROVE Edits(f)'
    <3>1. Edits(f) /\ (handler[f].pc = "editing" => handler[f].audit # c.audit)
      BY <2>9 DEF UpdatesAgree, Editors, Edits
    <3>2. handler[f].pc = "editing" => audits'[handler[f].audit] = audits[handler[f].audit]
      BY <2>1, <2>2, <2>3, <3>1, ResultsComplete DEF Edits
    <3> QED BY <2>1, <2>5, <2>8, <3>1, <3>2 DEF Edits
  <2>10. Editors'
    BY <2>1, <2>9 DEF UpdatesAgree, Editors, Busy
  <2> QED BY <2>5, <2>7, <2>10 DEF UpdatesAgree
<1>5. CASE UNCHANGED audits /\ (UNCHANGED retries \/ retries' = {})
  <2>1. CASE \E h \in Handlers : \E e \in EditOutcomes(handler[h].version) : Edit(h, e)
    BY <1>3, <2>1
  <2>2. CASE ~\E h \in Handlers : \E e \in EditOutcomes(handler[h].version) : Edit(h, e)
    <3>1. UNCHANGED file
      BY <2>2, WritesFile
    <3>2. \A h \in Handlers : Aside(h)
      BY <1>5, <2>2, RequestsKept
    <3> QED BY <1>5, <3>1, <3>2, NothingUpdated
  <2> QED BY <2>1, <2>2
<1> QED BY <1>1, <1>2, <1>3, <1>4, <1>5, WritesAudits

LEMMA SystemStarts ==
    ASSUME SystemInit
    PROVE  SystemInv
<1> USE ConstantsAssumption DEF SystemInit
<1>1. TypeOK
  BY IdleRecord DEF TypeOK, Worker, NoWorker, Terminal
<1>2. WorkersAgree
  BY DEF WorkersAgree, Agrees, NoWorker
<1>3. VersionsAgree /\ Editors
  BY IdleRecord DEF VersionsAgree, Editors, Busy
<1> QED BY <1>1, <1>2, <1>3 DEF SystemInv, KeysAgree, AskedOnce, ResultsTellTruth, UpdatesAgree, Replacements, Repeats

LEMMA SystemKept ==
    ASSUME SystemInv, SystemStep
    PROVE  SystemInv'
<1>1. TypeOK'
  <2>1. /\ ops' \in Seq(Op) /\ audits' \in Seq(Audit) /\ file' \in Nat /\ retries' \subseteq Completion
        /\ worker' \in [1..MaxOps -> Worker] /\ handler' \in [Handlers -> Handler] /\ applied' \in Nat
    BY OpsStep, UpdatesKept, FileGrows, WorkersKept, RequestsKept, VersionsKept DEF SystemInv
  <2>2. /\ process' \in {"up", "stopping", "down"}
        /\ faults' \in 0..MaxFaults /\ stops' \in 0..MaxStops /\ expiries' \in 0..MaxExpiries
    BY WritesProcess DEF SystemInv
  <2> QED BY <2>1, <2>2 DEF TypeOK
<1> QED BY <1>1, KeysKept, WorkersKept, VersionsKept, ResultsKept, UpdatesKept DEF SystemInv

LEMMA SystemInvariant == AdministrationSpec => []SystemInv
<1>1. AdministrationInit => SystemInv
  BY SystemStarts DEF AdministrationInit
<1>2. SystemInv /\ [AdministrationNext]_allVars => SystemInv'
  BY StepsOfTheSystem, SystemKept DEF SystemInv
<1> QED BY <1>1, <1>2, PTL DEF AdministrationSpec

\* A restart that succeeded happened, one that failed did not, unless NapCat's answer to
\* it could not be decoded, and a restart of the bot put the confirmed version in force: classifyRestartResult, finish,
\* RecoverInterruptedBotRestarts.
THEOREM RestartsTellTruth == AdministrationSpec => []ResultsTellTruth
<1>1. SystemInv => ResultsTellTruth
  BY DEF SystemInv
<1> QED BY <1>1, SystemInvariant, PTL

\* No update of the configuration replaces another one that its administrator did
\* not see, and no refusal is recorded of an update that replaced the file:
\* FileEditor.Update, completeConfigurationAudit.
THEOREM UpdatesSurvive == AdministrationSpec => []UpdatesAreNotLost
<1>1. SystemInv => UpdatesAreNotLost
  BY DEF SystemInv, UpdatesAgree, Replacements, Truthful, UpdatesAreNotLost
<1> QED BY <1>1, SystemInvariant, PTL

-----------------------------------------------------------------------------
(* The knowledge base.                                                       *)

\* One reload is open, a key without a row is old and its reload closed, and a
\* younger one stands for the last reload that used it.
ReloadKeysAgree ==
    /\ \A o, p \in Knowledge!OpenReloads : o = p
    /\ \A o \in DOMAIN reloads :
          reloads[o].idem = "none" => reloads[o].aged /\ o \notin Knowledge!OpenReloads
    /\ \A o, p \in DOMAIN reloads :
          (o < p /\ reloads[o].key = reloads[p].key) => reloads[o].aged /\ o \notin Knowledge!OpenReloads

\* The index is not ahead of the cache file, and that not of the workbook; a reload
\* that succeeded is in the file, and in the index of a process that runs, unless
\* that is empty.
ReloadsAgree ==
    /\ index <= cache /\ cache <= source
    /\ \A o \in DOMAIN reloads :
          /\ reloads[o].since <= source
          /\ reloads[o].status = "succeeded" =>
               reloads[o].since <= cache /\ (process # "down" => index = 0 \/ reloads[o].since <= index)

\* A goroutine belongs to a reload, and has it in the index when it succeeded.
GoroutinesAgree ==
    /\ \A o \in 1..MaxReloads : reloader[o] # "none" =>
          /\ process # "down" /\ o \in DOMAIN reloads
          /\ reloader[o] = "succeeded" => reloads[o].since <= index
    /\ \A h \in Requests : request[h].pc = "begun" => request[h].op \in DOMAIN reloads

\* Who has the mutex has a workbook that is no older than the file it saves, and no
\* older than the reload it is for.
Syncs(who) ==
    /\ process # "down" /\ syncing[who].got <= source /\ cache <= syncing[who].got
    /\ syncing[who].pc = "store" => syncing[who].got = cache
    /\ who # Knowledge!Bot => who \in DOMAIN reloads /\ reloads[who].since <= syncing[who].got

SyncsAgree ==
    \A who \in Knowledge!Syncers :
        IF syncing[who].pc = "free" THEN syncing[who] = Knowledge!NotSyncing
        ELSE Syncs(who) /\ \A x \in Knowledge!Syncers \ {who} : syncing[x].pc = "free"

KnowledgeInv ==
    Knowledge!ReloadTypeOK /\ ReloadKeysAgree /\ ReloadsAgree /\ GoroutinesAgree /\ SyncsAgree

LEMMA ReloadsAreASequence ==
    ASSUME Knowledge!ReloadTypeOK
    PROVE  /\ Len(reloads) \in Nat /\ DOMAIN reloads = 1..Len(reloads)
           /\ \A o \in DOMAIN reloads : reloads[o] \in Knowledge!Reload /\ reloads[o].since \in Nat
<1>1. Len(reloads) \in Nat /\ DOMAIN reloads = 1..Len(reloads) /\ \A o \in DOMAIN reloads : reloads[o] \in Knowledge!Reload
  BY DEF Knowledge!ReloadTypeOK
<1> QED BY <1>1 DEF Knowledge!Reload

LEMMA ReloadNumbers ==
    ASSUME Knowledge!ReloadTypeOK
    PROVE  /\ source \in Nat /\ cache \in Nat /\ index \in Nat
           /\ \A who \in Knowledge!Syncers : syncing[who].got \in Nat
                /\ syncing[who].got \in 0..MaxSource /\ syncing[who].pc \in {"free", "save", "store"}
<1> USE AdministrationAssumption DEF Knowledge!ReloadAssumption
<1>1. source \in Nat /\ cache \in Nat /\ index \in Nat
  BY DEF Knowledge!ReloadTypeOK
<1>2. \A who \in Knowledge!Syncers : syncing[who] \in [pc: {"free", "save", "store"}, got: 0..MaxSource]
  BY DEF Knowledge!ReloadTypeOK
<1> QED BY <1>1, <1>2

\* A reload changes but keeps its key and what it was asked for.
LEMMA ReloadChanges ==
    ASSUME Knowledge!ReloadTypeOK, NEW o \in DOMAIN reloads, NEW row \in Knowledge!Reload,
           reloads' = [reloads EXCEPT ![o] = row]
    PROVE  /\ reloads' \in Seq(Knowledge!Reload) /\ DOMAIN reloads' = DOMAIN reloads /\ reloads'[o] = row
           /\ \A p \in DOMAIN reloads \ {o} : reloads'[p] = reloads[p]
BY DEF Knowledge!ReloadTypeOK

LEMMA ReloadsMove ==
    ASSUME Knowledge!ReloadTypeOK, NEW o \in DOMAIN reloads, NEW to \in Knowledge!ReloadStatuses,
           reloads' = Knowledge!MovedReload(o, to)
    PROVE  /\ reloads' \in Seq(Knowledge!Reload) /\ DOMAIN reloads' = DOMAIN reloads
           /\ \A p \in DOMAIN reloads \ {o} : reloads'[p] = reloads[p]
           /\ reloads'[o].key = reloads[o].key /\ reloads'[o].since = reloads[o].since
           /\ reloads'[o].status = to /\ reloads'[o].aged = reloads[o].aged
           /\ reloads'[o].idem = IF to \in Knowledge!Done THEN "completed" ELSE reloads[o].idem
<1> DEFINE idem_ == IF to \in Knowledge!Done THEN "completed" ELSE reloads[o].idem
           row == [reloads[o] EXCEPT !.status = to, !.idem = idem_]
<1>1. reloads[o] \in Knowledge!Reload
  BY ReloadsAreASequence
<1>2. idem_ \in {"in_progress", "completed", "none"}
  BY <1>1 DEF Knowledge!Reload
<1>3. reloads' = [reloads EXCEPT ![o] = row]
  BY DEF Knowledge!MovedReload
<1> HIDE DEF idem_
<1>4. /\ row \in Knowledge!Reload /\ row.status = to /\ row.idem = idem_ /\ row.key = reloads[o].key
      /\ row.since = reloads[o].since /\ row.aged = reloads[o].aged
  BY <1>1, <1>2 DEF Knowledge!Reload
<1> HIDE DEF row
<1> QED BY <1>3, <1>4, ReloadChanges DEF idem_

LEMMA ReloadsAge ==
    ASSUME Knowledge!ReloadTypeOK, NEW o, Knowledge!AgeKey(o)
    PROVE  /\ o \in DOMAIN reloads /\ reloads' \in Seq(Knowledge!Reload) /\ DOMAIN reloads' = DOMAIN reloads
           /\ \A p \in DOMAIN reloads \ {o} : reloads'[p] = reloads[p]
           /\ reloads'[o].key = reloads[o].key /\ reloads'[o].since = reloads[o].since
           /\ reloads'[o].status = reloads[o].status /\ reloads'[o].idem = reloads[o].idem
           /\ reloads'[o].aged = TRUE
<1> DEFINE row == [reloads[o] EXCEPT !.aged = TRUE]
<1>1. o \in DOMAIN reloads /\ reloads[o] \in Knowledge!Reload /\ reloads' = [reloads EXCEPT ![o] = row]
  BY ReloadsAreASequence DEF Knowledge!AgeKey
<1>2. /\ row \in Knowledge!Reload /\ row.status = reloads[o].status /\ row.idem = reloads[o].idem
      /\ row.key = reloads[o].key /\ row.since = reloads[o].since /\ row.aged = TRUE
  BY <1>1 DEF Knowledge!Reload
<1> HIDE DEF row
<1> QED BY <1>1, <1>2, ReloadChanges

LEMMA ReloadsBegin ==
    ASSUME KnowledgeInv, NEW k \in ReloadKeys, reloads' = Knowledge!BegunReload(k)
    PROVE  /\ reloads' \in Seq(Knowledge!Reload) /\ DOMAIN reloads' = DOMAIN reloads \cup {Len(reloads) + 1}
           /\ reloads'[Len(reloads) + 1].key = k /\ reloads'[Len(reloads) + 1].status = "accepted"
           /\ reloads'[Len(reloads) + 1].since = source /\ reloads'[Len(reloads) + 1].idem = "in_progress"
           /\ \A o \in DOMAIN reloads :
                /\ o # Len(reloads) + 1 /\ o < Len(reloads) + 1
                /\ reloads'[o].key = reloads[o].key /\ reloads'[o].status = reloads[o].status
                /\ reloads'[o].since = reloads[o].since /\ reloads'[o].aged = reloads[o].aged
                /\ reloads'[o].idem = IF reloads[o].key = k THEN "none" ELSE reloads[o].idem
<1> USE DEF KnowledgeInv
<1> DEFINE old == [o \in DOMAIN reloads |->
                     IF reloads[o].key = k THEN [reloads[o] EXCEPT !.idem = "none"] ELSE reloads[o]]
           row == [key |-> k, status |-> "accepted", since |-> source, idem |-> "in_progress", aged |-> FALSE]
<1>1. \A o \in DOMAIN reloads :
        /\ old[o] \in Knowledge!Reload /\ old[o].key = reloads[o].key /\ old[o].status = reloads[o].status
        /\ old[o].since = reloads[o].since /\ old[o].aged = reloads[o].aged
        /\ old[o].idem = IF reloads[o].key = k THEN "none" ELSE reloads[o].idem
  <2> SUFFICES ASSUME NEW o \in DOMAIN reloads
               PROVE  /\ old[o] \in Knowledge!Reload /\ old[o].key = reloads[o].key /\ old[o].status = reloads[o].status
                      /\ old[o].since = reloads[o].since /\ old[o].aged = reloads[o].aged
                      /\ old[o].idem = IF reloads[o].key = k THEN "none" ELSE reloads[o].idem
    OBVIOUS
  <2>1. reloads[o] \in Knowledge!Reload
    BY ReloadsAreASequence
  <2>2. CASE reloads[o].key = k
    BY <2>1, <2>2 DEF Knowledge!Reload
  <2>3. CASE reloads[o].key # k
    BY <2>1, <2>3
  <2> QED BY <2>2, <2>3
<1>2. old \in [1..Len(reloads) -> Knowledge!Reload] /\ Len(reloads) \in Nat
  BY <1>1, ReloadsAreASequence
<1>3. /\ row \in Knowledge!Reload /\ row.key = k /\ row.status = "accepted" /\ row.since = source
      /\ row.idem = "in_progress"
  BY ReloadNumbers DEF Knowledge!Reload, Knowledge!ReloadStatuses
<1>4. reloads' = Append(old, row)
  BY DEF Knowledge!BegunReload
<1> HIDE DEF old, row
<1>5. old \in Seq(Knowledge!Reload) /\ Len(old) = Len(reloads)
  BY <1>2
<1>6. /\ Append(old, row) \in Seq(Knowledge!Reload) /\ DOMAIN Append(old, row) = 1..(Len(reloads) + 1)
      /\ Append(old, row)[Len(reloads) + 1] = row
      /\ \A o \in 1..Len(reloads) : Append(old, row)[o] = old[o]
  BY <1>2, <1>3, <1>5
<1>7. DOMAIN reloads' = DOMAIN reloads \cup {Len(reloads) + 1} /\ \A o \in DOMAIN reloads : o < Len(reloads) + 1
  BY <1>4, <1>6, ReloadsAreASequence
<1> QED BY <1>1, <1>3, <1>4, <1>6, <1>7, ReloadsAreASequence

\* A start fails what was left open.
FailedReload(o) == [reloads[o] EXCEPT !.status = "failed", !.idem = "completed"]
EndedReload(o) == IF Knowledge!Interrupted(o) THEN FailedReload(o) ELSE reloads[o]
EndedReloads == [o \in DOMAIN reloads |-> EndedReload(o)]

LEMMA ReloadsRecover ==
    ASSUME Knowledge!ReloadTypeOK, reloads' = EndedReloads
    PROVE  /\ reloads' \in Seq(Knowledge!Reload) /\ DOMAIN reloads' = DOMAIN reloads
           /\ \A o \in DOMAIN reloads :
                /\ reloads'[o].key = reloads[o].key /\ reloads'[o].since = reloads[o].since
                /\ reloads'[o].aged = reloads[o].aged
                /\ reloads'[o].status \notin {"accepted", "running"}
                /\ reloads'[o].status = "succeeded" => reloads[o].status = "succeeded"
                /\ reloads'[o].idem = "none" => reloads[o].idem = "none"
<1>1. ASSUME NEW o \in DOMAIN reloads
      PROVE  /\ EndedReload(o) \in Knowledge!Reload
             /\ EndedReload(o).key = reloads[o].key /\ EndedReload(o).since = reloads[o].since
             /\ EndedReload(o).aged = reloads[o].aged
             /\ EndedReload(o).status \notin {"accepted", "running"}
             /\ EndedReload(o).status = "succeeded" => reloads[o].status = "succeeded"
             /\ EndedReload(o).idem = "none" => reloads[o].idem = "none"
  <2>1. reloads[o] \in Knowledge!Reload
    BY ReloadsAreASequence
  <2>2. /\ FailedReload(o) \in Knowledge!Reload /\ FailedReload(o).key = reloads[o].key
        /\ FailedReload(o).since = reloads[o].since /\ FailedReload(o).aged = reloads[o].aged
        /\ FailedReload(o).status = "failed" /\ FailedReload(o).idem = "completed"
    BY <2>1 DEF Knowledge!Reload, Knowledge!ReloadStatuses, FailedReload
  <2>3. CASE Knowledge!Interrupted(o)
    BY <2>2, <2>3 DEF EndedReload
  <2>4. CASE ~Knowledge!Interrupted(o)
    BY <2>1, <2>4 DEF Knowledge!Interrupted, Knowledge!OpenReloads, EndedReload
  <2> QED BY <2>3, <2>4
<1>2. DOMAIN reloads' = DOMAIN reloads /\ \A o \in DOMAIN reloads : reloads'[o] = EndedReload(o)
  BY DEF EndedReloads
<1>3. reloads' \in [DOMAIN reloads -> Knowledge!Reload]
  BY <1>1 DEF EndedReloads
<1>4. reloads' \in Seq(Knowledge!Reload)
  BY <1>3, ReloadsAreASequence
<1> QED BY <1>1, <1>2, <1>4

-----------------------------------------------------------------------------
(* The knowledge base, over any step.                                        *)

\* No reload begins, and none opens again.
RowsStay ==
    /\ reloads' \in Seq(Knowledge!Reload) /\ DOMAIN reloads' = DOMAIN reloads
    /\ \A o \in DOMAIN reloads :
          /\ reloads'[o].key = reloads[o].key /\ reloads'[o].since = reloads[o].since
          /\ reloads[o].aged => reloads'[o].aged
          /\ reloads'[o].status \in {"accepted", "running"} => reloads[o].status \in {"accepted", "running"}
          /\ reloads'[o].idem = "none" => reloads[o].idem = "none"

LEMMA ReloadKeysKept ==
    ASSUME KnowledgeInv, RowsStay
    PROVE  ReloadKeysAgree'
BY DEF KnowledgeInv, RowsStay, ReloadKeysAgree, Knowledge!OpenReloads

LEMMA RowsAlone ==
    ASSUME KnowledgeInv, UNCHANGED reloads
    PROVE  RowsStay
BY DEF KnowledgeInv, RowsStay, Knowledge!ReloadTypeOK

\* What no step but those of the mutex touches.
LEMMA SyncsAlone ==
    ASSUME KnowledgeInv, UNCHANGED <<cache, syncing>>, source <= source', source' \in Nat,
           process' # "down" \/ process' = process,
           \A o \in DOMAIN reloads : o \in DOMAIN reloads' /\ reloads'[o].since = reloads[o].since
    PROVE  SyncsAgree'
<1> USE DEF KnowledgeInv
<1>1. source \in Nat /\ \A who \in Knowledge!Syncers : syncing[who].got \in Nat
  BY ReloadNumbers
<1>2. ASSUME NEW who \in Knowledge!Syncers, syncing[who].pc # "free" PROVE Syncs(who)'
  <2>1. Syncs(who)
    BY <1>2 DEF SyncsAgree
  <2> QED BY <1>1, <2>1 DEF Syncs, Knowledge!Bot
<1> QED BY <1>2 DEF SyncsAgree, Knowledge!Syncers, Knowledge!Bot, Knowledge!NotSyncing

LEMMA RequestsStart ==
    ASSUME KnowledgeInv, NEW h \in Requests, NEW k \in ReloadKeys, NEW o, Knowledge!StartReload(h, k, o)
    PROVE  KnowledgeInv'
<1> USE DEF KnowledgeInv
<1>0. /\ UNCHANGED <<process, source, cache, index, syncing, reloader, bot, latest, aged>> /\ process = "up"
  BY DEF Knowledge!StartReload
<1>1. CASE Knowledge!KeyHolders(k) # {}
  <2>1. UNCHANGED reloads
    BY <1>1 DEF Knowledge!StartReload
  <2>2. PICK p \in Knowledge!KeyHolders(k) :
          request' = [request EXCEPT ![h] = [pc |-> "begun", op |-> p, fresh |-> FALSE, status |-> reloads[p].status]]
    BY <1>1 DEF Knowledge!StartReload
  <2>3. p \in DOMAIN reloads /\ p \in Nat
    BY ReloadsAreASequence DEF Knowledge!KeyHolders
  <2>4. reloads[p].status \in Knowledge!ReloadStatuses
    BY <2>3, ReloadsAreASequence DEF Knowledge!Reload
  <2>5. Knowledge!ReloadTypeOK'
    BY <1>0, <2>1, <2>2, <2>3, <2>4 DEF Knowledge!ReloadTypeOK
  <2>6. GoroutinesAgree'
    BY <1>0, <2>1, <2>2, <2>3 DEF GoroutinesAgree, Knowledge!ReloadTypeOK
  <2>7. ReloadsAgree'
    BY <1>0, <2>1 DEF ReloadsAgree
  <2>8. SyncsAgree'
    BY <1>0, <2>1, SyncsAlone, ReloadNumbers
  <2> QED BY <2>1, <2>5, <2>6, <2>7, <2>8, RowsAlone, ReloadKeysKept
<1>2. CASE Knowledge!KeyHolders(k) = {}
  <2> PICK n : n = Len(reloads) + 1
    OBVIOUS
  <2>1. /\ Knowledge!OpenReloads = {} /\ Len(reloads) < MaxReloads /\ reloads' = Knowledge!BegunReload(k)
        /\ \/ UNCHANGED request
           \/ request' = [request EXCEPT ![h] = [pc |-> "begun", op |-> n, fresh |-> TRUE, status |-> "accepted"]]
    BY <1>2 DEF Knowledge!StartReload, Knowledge!MayBegin
  <2>2. n \in Nat
    BY ReloadsAreASequence
  <2>3. /\ reloads' \in Seq(Knowledge!Reload) /\ DOMAIN reloads' = DOMAIN reloads \cup {n}
        /\ reloads'[n].key = k /\ reloads'[n].status = "accepted"
        /\ reloads'[n].since = source /\ reloads'[n].idem = "in_progress"
        /\ \A p \in DOMAIN reloads :
                /\ p # n /\ p < n
                /\ reloads'[p].key = reloads[p].key /\ reloads'[p].status = reloads[p].status
                /\ reloads'[p].since = reloads[p].since /\ reloads'[p].aged = reloads[p].aged
                /\ reloads'[p].idem = IF reloads[p].key = k THEN "none" ELSE reloads[p].idem
    BY <2>1, ReloadsBegin
  <2>31. /\ request' \in [Requests -> [pc: {"idle", "begun"}, op: Nat, status: Knowledge!ReloadStatuses,
                                       fresh: BOOLEAN]]
         /\ \A f \in Requests : request'[f] = request[f] \/ request'[f].op = n
    <3> DEFINE state == [pc |-> "begun", op |-> n, fresh |-> TRUE, status |-> "accepted"]
    <3>1. /\ state.op = n
          /\ state \in [pc: {"idle", "begun"}, op: Nat, status: Knowledge!ReloadStatuses, fresh: BOOLEAN]
      BY <2>2 DEF Knowledge!ReloadStatuses
    <3>2. UNCHANGED request \/ request' = [request EXCEPT ![h] = state]
      BY <2>1
    <3> DEFINE States == [pc: {"idle", "begun"}, op: Nat, status: Knowledge!ReloadStatuses, fresh: BOOLEAN]
    <3>3. request \in [Requests -> States] /\ state \in States
      BY <3>1 DEF Knowledge!ReloadTypeOK
    <3> HIDE DEF state, States
    <3>4. request' \in [Requests -> States] /\ \A f \in Requests : request'[f] = request[f] \/ request'[f] = state
      BY <3>2, <3>3
    <3> QED BY <3>1, <3>4 DEF States
  <2>32. reloads' \in Seq(Knowledge!Reload) /\ DOMAIN reloads' = DOMAIN reloads \cup {n}
    BY <2>3
  <2>4. Knowledge!ReloadTypeOK'
    BY <1>0, <2>31, <2>32 DEF Knowledge!ReloadTypeOK
  <2>5. GoroutinesAgree'
    <3>1. \A p \in DOMAIN reloads : p \in DOMAIN reloads' /\ reloads'[p].since = reloads[p].since
      BY <2>3
    <3> QED BY <1>0, <2>31, <2>32, <3>1 DEF GoroutinesAgree
  <2>6. ReloadsAgree'
    BY <1>0, <2>3, ReloadNumbers DEF ReloadsAgree
  <2>7. SyncsAgree'
    BY <1>0, <2>3, SyncsAlone, ReloadNumbers
  <2>8. ReloadKeysAgree'
    <3>1. \A p \in DOMAIN reloads : reloads[p].key = k => reloads[p].aged
      <4> SUFFICES ASSUME NEW p \in DOMAIN reloads, reloads[p].key = k PROVE reloads[p].aged
        OBVIOUS
      <4>1. reloads[p].idem = "none" \/ reloads[p].aged
        BY <1>2 DEF Knowledge!KeyHolders
      <4> QED BY <4>1 DEF ReloadKeysAgree
    <3>2. (Knowledge!OpenReloads)' = {n}
      BY <2>1, <2>3 DEF Knowledge!OpenReloads
    <3>3. ASSUME NEW p \in DOMAIN reloads', reloads'[p].idem = "none"
          PROVE  reloads'[p].aged /\ p \notin (Knowledge!OpenReloads)'
      BY <2>3, <3>1, <3>2, <3>3 DEF ReloadKeysAgree
    <3>4. ASSUME NEW p \in DOMAIN reloads', NEW q \in DOMAIN reloads', p < q, reloads'[p].key = reloads'[q].key
          PROVE  reloads'[p].aged /\ p \notin (Knowledge!OpenReloads)'
      <4>1. p \in DOMAIN reloads
        BY <2>2, <2>3, <3>4, ReloadsAreASequence
      <4> QED BY <2>3, <3>1, <3>2, <3>4, <4>1 DEF ReloadKeysAgree
    <3> QED BY <3>2, <3>3, <3>4 DEF ReloadKeysAgree
  <2> QED BY <2>4, <2>5, <2>6, <2>7, <2>8
<1> QED BY <1>1, <1>2

LEMMA RequestsShow ==
    ASSUME KnowledgeInv, NEW h \in Requests, Knowledge!ShowRequest(h)
    PROVE  KnowledgeInv'
<1> USE DEF KnowledgeInv
<1>1. /\ UNCHANGED <<process, faults, source, cache, reloads, index, syncing, bot, aged>> /\ process # "down"
      /\ request[h].pc = "begun" /\ request' = [request EXCEPT ![h] = Knowledge!NoRequest]
      /\ latest' = Knowledge!Shown(request[h].op, request[h].status)
      /\ UNCHANGED reloader \/ reloader' = [reloader EXCEPT ![request[h].op] = "starting"]
  BY DEF Knowledge!ShowRequest
<1>2. request[h].op \in DOMAIN reloads /\ request[h].op \in Nat /\ request[h].status \in Knowledge!ReloadStatuses
  BY <1>1 DEF GoroutinesAgree, Knowledge!ReloadTypeOK
<1>3. latest' \in [op: Nat, status: Knowledge!ReloadStatuses]
  BY <1>1, <1>2 DEF Knowledge!Shown, Knowledge!ReloadTypeOK
<1>4. Knowledge!ReloadTypeOK'
  BY <1>1, <1>3 DEF Knowledge!ReloadTypeOK, Knowledge!NoRequest, Knowledge!ReloadStatuses
<1>5. GoroutinesAgree'
  BY <1>1, <1>2 DEF GoroutinesAgree, Knowledge!ReloadTypeOK, Knowledge!NoRequest
<1>6. ReloadsAgree'
  BY <1>1 DEF ReloadsAgree
<1>7. SyncsAgree'
  BY <1>1, SyncsAlone, ReloadNumbers
<1> QED BY <1>1, <1>4, <1>5, <1>6, <1>7, RowsAlone, ReloadKeysKept

\* A transition moves the goroutine's own reload to what the goroutine did.
LEMMA GoroutinesMove ==
    ASSUME KnowledgeInv, NEW o \in 1..MaxReloads, NEW r, Knowledge!BeginRunning(o, r) \/ Knowledge!FinishReload(o, r)
    PROVE  KnowledgeInv'
<1> USE DEF KnowledgeInv
<1>1. PICK to \in Knowledge!ReloadStatuses :
        /\ reloads' = Knowledge!MovedReload(o, to) /\ to # "accepted"
        /\ to = "running" => reloads[o].status = "accepted"
        /\ to = "succeeded" => reloader[o] = "succeeded"
        /\ reloader[o] # "none" /\ process = "up"
        /\ UNCHANGED <<process, source, cache, index, syncing, request, bot, aged>>
        /\ UNCHANGED <<reloader, latest>>
           \/ (/\ latest' = Knowledge!Shown(o, to)
               /\ \E state \in {"waiting", "none"} : reloader' = [reloader EXCEPT ![o] = state])
  <2>1. CASE Knowledge!BeginRunning(o, r)
    <3>1. reloads[o].status = "accepted"
      BY <2>1 DEF Knowledge!BeginRunning, Knowledge!ReloadAccepts, Knowledge!Done
    <3>2. "running" \in Knowledge!ReloadStatuses
      BY DEF Knowledge!ReloadStatuses
    <3>3. /\ reloads' = Knowledge!MovedReload(o, "running") /\ reloader[o] = "starting" /\ process = "up"
          /\ UNCHANGED <<process, source, cache, index, syncing, request, bot, aged>>
          /\ UNCHANGED <<reloader, latest>>
             \/ (latest' = Knowledge!Shown(o, "running") /\ reloader' = [reloader EXCEPT ![o] = "waiting"])
      BY <2>1 DEF Knowledge!BeginRunning
    <3> QED BY <3>1, <3>2, <3>3
  <2>2. CASE Knowledge!FinishReload(o, r)
    <3>1. reloader[o] \in Knowledge!ReloadStatuses /\ reloader[o] \in {"succeeded", "failed"}
      BY <2>2 DEF Knowledge!FinishReload, Knowledge!Done, Knowledge!ReloadStatuses
    <3>2. /\ reloads' = Knowledge!MovedReload(o, reloader[o]) /\ process = "up"
          /\ UNCHANGED <<process, source, cache, index, syncing, request, bot, aged>>
          /\ UNCHANGED <<reloader, latest>>
             \/ (latest' = Knowledge!Shown(o, reloader[o]) /\ reloader' = [reloader EXCEPT ![o] = "none"])
      BY <2>2 DEF Knowledge!FinishReload
    <3> QED BY <3>1, <3>2
  <2> QED BY <2>1, <2>2
<1>2. o \in DOMAIN reloads /\ (to = "succeeded" => reloads[o].since <= index)
  BY <1>1 DEF GoroutinesAgree
<1>3. /\ reloads' \in Seq(Knowledge!Reload) /\ DOMAIN reloads' = DOMAIN reloads
      /\ \A p \in DOMAIN reloads \ {o} : reloads'[p] = reloads[p]
      /\ reloads'[o].key = reloads[o].key /\ reloads'[o].since = reloads[o].since
      /\ reloads'[o].status = to /\ reloads'[o].aged = reloads[o].aged
      /\ reloads'[o].idem = IF to \in Knowledge!Done THEN "completed" ELSE reloads[o].idem
  BY <1>1, <1>2, ReloadsMove
<1>4. RowsStay
  <2>1. ASSUME NEW p \in DOMAIN reloads
        PROVE  /\ reloads'[p].key = reloads[p].key /\ reloads'[p].since = reloads[p].since
               /\ reloads[p].aged => reloads'[p].aged
               /\ reloads'[p].status \in {"accepted", "running"} => reloads[p].status \in {"accepted", "running"}
               /\ reloads'[p].idem = "none" => reloads[p].idem = "none"
    <3>1. CASE p = o
      BY <1>1, <1>3, <3>1
    <3>2. CASE p # o
      BY <1>3, <3>2
    <3> QED BY <3>1, <3>2
  <2> QED BY <1>3, <2>1 DEF RowsStay
<1>5. latest' \in [op: Nat, status: Knowledge!ReloadStatuses]
  BY <1>1 DEF Knowledge!Shown, Knowledge!ReloadTypeOK
<1>6. /\ reloader' \in [1..MaxReloads -> {"none", "starting", "waiting", "syncing", "succeeded", "failed"}]
      /\ \A p \in 1..MaxReloads : reloader'[p] = reloader[p] \/ (p = o /\ reloader'[p] \in {"waiting", "none"})
  <2> DEFINE S == {"none", "starting", "waiting", "syncing", "succeeded", "failed"}
  <2>1. reloader \in [1..MaxReloads -> S] /\ "waiting" \in S /\ "none" \in S
    BY DEF Knowledge!ReloadTypeOK
  <2>2. UNCHANGED reloader \/ \E state \in {"waiting", "none"} : reloader' = [reloader EXCEPT ![o] = state]
    BY <1>1
  <2> HIDE DEF S
  <2>3. reloader' \in [1..MaxReloads -> S]
        /\ \A p \in 1..MaxReloads : reloader'[p] = reloader[p] \/ (p = o /\ reloader'[p] \in {"waiting", "none"})
    BY <2>1, <2>2
  <2> QED BY <2>3 DEF S
<1>7. Knowledge!ReloadTypeOK'
  BY <1>1, <1>4, <1>5, <1>6 DEF Knowledge!ReloadTypeOK, RowsStay
<1>8. GoroutinesAgree'
  BY <1>1, <1>2, <1>4, <1>6 DEF GoroutinesAgree, RowsStay
<1>9. ReloadsAgree'
  <2>1. ASSUME NEW p \in DOMAIN reloads, reloads'[p].status = "succeeded"
        PROVE  reloads[p].since <= cache /\ (index = 0 \/ reloads[p].since <= index)
    <3>1. CASE p = o
      BY <1>2, <1>3, <2>1, <3>1, ReloadNumbers, ReloadsAreASequence DEF ReloadsAgree
    <3>2. CASE p # o
      BY <1>1, <1>3, <2>1, <3>2 DEF ReloadsAgree
    <3> QED BY <3>1, <3>2
  <2> QED BY <1>1, <1>4, <2>1 DEF ReloadsAgree, RowsStay
<1>10. SyncsAgree'
  BY <1>1, <1>4, SyncsAlone, ReloadNumbers DEF RowsStay
<1> QED BY <1>4, <1>7, <1>8, <1>9, <1>10, ReloadKeysKept

LEMMA KeysAge ==
    ASSUME KnowledgeInv, NEW o \in 1..MaxReloads, Knowledge!AgeKey(o)
    PROVE  KnowledgeInv'
<1> USE DEF KnowledgeInv
<1>1. /\ aged' = aged + 1 /\ aged < MaxAged
      /\ UNCHANGED <<process, faults, source, cache, index, syncing, request, reloader, bot, latest>>
  BY DEF Knowledge!AgeKey
<1>2. RowsStay /\ \A p \in DOMAIN reloads : reloads'[p].status = reloads[p].status
  <2>1. ASSUME NEW p \in DOMAIN reloads
        PROVE  /\ reloads'[p].key = reloads[p].key /\ reloads'[p].since = reloads[p].since
               /\ reloads[p].aged => reloads'[p].aged
               /\ reloads'[p].status = reloads[p].status /\ reloads'[p].idem = reloads[p].idem
    BY ReloadsAge
  <2> QED BY <2>1, ReloadsAge DEF RowsStay
<1>3. Knowledge!ReloadTypeOK'
  BY <1>1, <1>2, AdministrationAssumption DEF Knowledge!ReloadTypeOK, RowsStay, Knowledge!ReloadAssumption
<1>4. GoroutinesAgree' /\ ReloadsAgree'
  BY <1>1, <1>2 DEF GoroutinesAgree, ReloadsAgree, RowsStay
<1>5. SyncsAgree'
  BY <1>1, <1>2, SyncsAlone, ReloadNumbers DEF RowsStay
<1> QED BY <1>2, <1>3, <1>4, <1>5, ReloadKeysKept

LEMMA WorkbookChanges ==
    ASSUME KnowledgeInv, Knowledge!EditWorkbook \/ Knowledge!AskBot
    PROVE  KnowledgeInv'
<1> USE DEF KnowledgeInv
<1>1. /\ source' \in 1..MaxSource /\ source <= source' /\ bot' \in {"idle", "waiting", "syncing"}
      /\ UNCHANGED <<process, faults, cache, reloads, index, syncing, request, reloader, latest, aged>>
  BY AdministrationAssumption
  DEF Knowledge!EditWorkbook, Knowledge!AskBot, Knowledge!ReloadTypeOK, Knowledge!ReloadAssumption
<1>2. Knowledge!ReloadTypeOK' /\ GoroutinesAgree'
  BY <1>1 DEF Knowledge!ReloadTypeOK, GoroutinesAgree
<1>3. ReloadsAgree'
  BY <1>1, ReloadNumbers, ReloadsAreASequence DEF ReloadsAgree
<1>4. SyncsAgree'
  BY <1>1, SyncsAlone
<1> QED BY <1>1, <1>2, <1>3, <1>4, RowsAlone, ReloadKeysKept

\* Who moves on moves only himself.
LEMMA SyncersMove ==
    ASSUME KnowledgeInv, NEW who \in Knowledge!Syncers, NEW state \in {"syncing", "succeeded", "failed"},
           Knowledge!Moves(who, state)
    PROVE  /\ reloader' \in [1..MaxReloads -> {"none", "starting", "waiting", "syncing", "succeeded", "failed"}]
           /\ bot' \in {"idle", "waiting", "syncing"}
           /\ \A p \in 1..MaxReloads : reloader'[p] = reloader[p] \/ (p = who /\ reloader'[p] = state)
<1> USE DEF KnowledgeInv
<1> DEFINE S == {"none", "starting", "waiting", "syncing", "succeeded", "failed"}
<1>1. reloader \in [1..MaxReloads -> S] /\ state \in S
  BY DEF Knowledge!ReloadTypeOK
<1>2. UNCHANGED reloader \/ reloader' = [reloader EXCEPT ![who] = state]
  BY DEF Knowledge!Moves
<1>3. bot' \in {"idle", "waiting", "syncing"}
  BY DEF Knowledge!Moves, Knowledge!ReloadTypeOK, Knowledge!Done
<1> HIDE DEF S
<1>4. reloader' \in [1..MaxReloads -> S] /\ \A p \in 1..MaxReloads : reloader'[p] = reloader[p] \/ (p = who /\ reloader'[p] = state)
  BY <1>1, <1>2
<1> QED BY <1>3, <1>4 DEF S

\* The mutex changes hands.
LEMMA SyncingChanges ==
    ASSUME Knowledge!ReloadTypeOK, NEW who \in Knowledge!Syncers, NEW pc \in {"free", "save", "store"},
           NEW got \in 0..MaxSource, syncing' = [syncing EXCEPT ![who] = [pc |-> pc, got |-> got]]
    PROVE  /\ syncing' \in [Knowledge!Syncers -> [pc: {"free", "save", "store"}, got: 0..MaxSource]]
           /\ syncing'[who] = [pc |-> pc, got |-> got] /\ syncing'[who].pc = pc /\ syncing'[who].got = got
           /\ \A x \in Knowledge!Syncers \ {who} : syncing'[x] = syncing[x]
<1> DEFINE state == [pc |-> pc, got |-> got]
           S == [pc: {"free", "save", "store"}, got: 0..MaxSource]
<1>1. state \in S /\ state.pc = pc /\ state.got = got /\ syncing \in [Knowledge!Syncers -> S]
  BY DEF Knowledge!ReloadTypeOK
<1>2. syncing' = [syncing EXCEPT ![who] = state]
  OBVIOUS
<1> HIDE DEF state, S
<1>3. /\ syncing' \in [Knowledge!Syncers -> S] /\ syncing'[who] = state
      /\ \A x \in Knowledge!Syncers \ {who} : syncing'[x] = syncing[x]
  BY <1>1, <1>2
<1> QED BY <1>1, <1>3 DEF state, S

\* A step under the mutex, which leaves the rows alone.
LEMMA MutexKeeps ==
    ASSUME KnowledgeInv, UNCHANGED <<process, source, reloads, request, latest, aged>>,
           NEW who \in Knowledge!Syncers, NEW state \in {"syncing", "succeeded", "failed"},
           Knowledge!Moves(who, state) \/ UNCHANGED <<reloader, bot>>, process # "down",
           who # Knowledge!Bot => who \in DOMAIN reloads,
           cache' \in 0..MaxSource, cache <= cache', cache' <= source,
           index' \in 0..MaxSource, index <= index', index' <= cache', index' = index \/ cache <= index',
           state = "succeeded" /\ who # Knowledge!Bot => reloads[who].since <= index',
           syncing' \in [Knowledge!Syncers -> [pc: {"free", "save", "store"}, got: 0..MaxSource]],
           SyncsAgree'
    PROVE  KnowledgeInv'
<1> USE DEF KnowledgeInv
<1>0. /\ reloader' \in [1..MaxReloads -> {"none", "starting", "waiting", "syncing", "succeeded", "failed"}]
      /\ bot' \in {"idle", "waiting", "syncing"}
      /\ \A p \in 1..MaxReloads : reloader'[p] = reloader[p] \/ (p = who /\ reloader'[p] = state)
  <2>1. CASE Knowledge!Moves(who, state)
    BY <2>1, SyncersMove
  <2>2. CASE UNCHANGED <<reloader, bot>>
    BY <2>2 DEF Knowledge!ReloadTypeOK
  <2> QED BY <2>1, <2>2
<1>1. Knowledge!ReloadTypeOK'
  BY <1>0 DEF Knowledge!ReloadTypeOK
<1>2. /\ cache \in Nat /\ index \in Nat /\ source \in Nat /\ cache' \in Nat /\ index' \in Nat
      /\ \A o \in DOMAIN reloads : reloads[o].since \in Nat
  BY ReloadNumbers, ReloadsAreASequence
<1>3. ReloadsAgree'
  BY <1>2 DEF ReloadsAgree
<1>4. GoroutinesAgree'
  <2>1. ASSUME NEW p \in 1..MaxReloads, reloader'[p] # "none"
        PROVE  /\ process' # "down" /\ p \in DOMAIN reloads'
               /\ reloader'[p] = "succeeded" => reloads'[p].since <= index'
    <3>1. CASE reloader'[p] = reloader[p]
      BY <1>2, <2>1, <3>1 DEF GoroutinesAgree
    <3>2. CASE p = who /\ reloader'[p] = state
      <4>1. who # Knowledge!Bot
        BY <3>2 DEF Knowledge!Bot
      <4> QED BY <3>2, <4>1
    <3> QED BY <1>0, <3>1, <3>2
  <2> QED BY <2>1 DEF GoroutinesAgree
<1> QED BY <1>1, <1>3, <1>4, RowsAlone, ReloadKeysKept

LEMMA MutexSteps ==
    ASSUME KnowledgeInv, NEW who \in Knowledge!Syncers, Knowledge!Syncing(who)
    PROVE  KnowledgeInv' /\ index <= index' /\ cache <= cache'
<1> USE DEF KnowledgeInv
<1>0. /\ source \in Nat /\ cache \in Nat /\ index \in Nat /\ index <= cache /\ cache <= source
      /\ source \in 0..MaxSource /\ cache \in 0..MaxSource /\ index \in 0..MaxSource
      /\ \A o \in DOMAIN reloads : reloads[o].since \in Nat /\ reloads[o].since <= source
      /\ \A x \in Knowledge!Syncers : /\ syncing[x].pc # "free" => Syncs(x)
                                      /\ syncing[x].got \in Nat /\ syncing[x].got \in 0..MaxSource
  BY ReloadNumbers, ReloadsAreASequence DEF ReloadsAgree, SyncsAgree, Knowledge!ReloadTypeOK
<1>1. CASE Knowledge!Download(who)
  <2>1. /\ UNCHANGED <<process, source, cache, reloads, index, request, latest, aged>> /\ process = "up"
        /\ syncing' = [syncing EXCEPT ![who] = [pc |-> "save", got |-> source]]
        /\ Knowledge!Moves(who, "syncing") /\ \A x \in Knowledge!Syncers : syncing[x] = Knowledge!NotSyncing
    BY <1>1 DEF Knowledge!Download, Knowledge!MutexIsFree
  <2>2. who # Knowledge!Bot => who \in DOMAIN reloads
    BY <1>1 DEF Knowledge!Download, Knowledge!WaitsForMutex, GoroutinesAgree, Knowledge!Syncers
  <2>3. /\ syncing' \in [Knowledge!Syncers -> [pc: {"free", "save", "store"}, got: 0..MaxSource]]
        /\ syncing'[who].pc = "save" /\ syncing'[who].got = source
        /\ \A x \in Knowledge!Syncers \ {who} : syncing'[x] = Knowledge!NotSyncing
    BY <1>0, <2>1, SyncingChanges
  <2>4. SyncsAgree'
    <3>1. Syncs(who)'
      BY <1>0, <2>1, <2>2, <2>3 DEF Syncs, Knowledge!Bot
    <3> QED BY <2>3, <3>1 DEF SyncsAgree, Knowledge!NotSyncing, Knowledge!Syncers, Knowledge!Bot
  <2>5. KnowledgeInv'
    BY <1>0, <2>1, <2>2, <2>3, <2>4, MutexKeeps
  <2> QED BY <1>0, <2>1, <2>5
<1>2. CASE Knowledge!FailDownload(who)
  <2>1. /\ UNCHANGED <<process, source, cache, reloads, index, syncing, request, latest, aged>> /\ process # "down"
        /\ Knowledge!Moves(who, "failed")
    BY <1>2 DEF Knowledge!FailDownload
  <2>2. who # Knowledge!Bot => who \in DOMAIN reloads
    BY <1>2 DEF Knowledge!FailDownload, Knowledge!WaitsForMutex, GoroutinesAgree, Knowledge!Syncers
  <2>3. SyncsAgree'
    BY <1>0, <2>1, SyncsAlone
  <2>4. syncing' \in [Knowledge!Syncers -> [pc: {"free", "save", "store"}, got: 0..MaxSource]]
    BY <2>1 DEF Knowledge!ReloadTypeOK
  <2>5. KnowledgeInv'
    BY <1>0, <2>1, <2>2, <2>3, <2>4, MutexKeeps
  <2> QED BY <1>0, <2>1, <2>5
<1>3. ASSUME syncing[who].pc # "free"
      PROVE  /\ Syncs(who) /\ \A x \in Knowledge!Syncers \ {who} : syncing[x] = Knowledge!NotSyncing
             /\ process # "down" /\ (who # Knowledge!Bot => who \in DOMAIN reloads)
  BY <1>3 DEF SyncsAgree, Syncs
<1>4. CASE Knowledge!SaveCache(who)
  <2>1. /\ UNCHANGED <<process, source, reloads, index, request, reloader, bot, latest, aged>>
        /\ cache' = syncing[who].got /\ syncing[who].pc = "save"
        /\ syncing' = [syncing EXCEPT ![who].pc = "store"]
    BY <1>4 DEF Knowledge!SaveCache
  <2>2. syncing' = [syncing EXCEPT ![who] = [pc |-> "store", got |-> syncing[who].got]]
    <3> DEFINE before == syncing[who]
               after == [before EXCEPT !.pc = "store"]
    <3>1. before \in [pc: {"free", "save", "store"}, got: 0..MaxSource]
      BY DEF Knowledge!ReloadTypeOK
    <3>2. after = [pc |-> "store", got |-> before.got]
      BY <3>1
    <3>3. syncing' = [syncing EXCEPT ![who] = after]
      BY <2>1
    <3> QED BY <3>2, <3>3
  <2>3. /\ syncing' \in [Knowledge!Syncers -> [pc: {"free", "save", "store"}, got: 0..MaxSource]]
        /\ syncing'[who].pc = "store" /\ syncing'[who].got = syncing[who].got
        /\ \A x \in Knowledge!Syncers \ {who} : syncing'[x] = syncing[x]
    BY <1>0, <2>2, SyncingChanges
  <2>4. SyncsAgree'
    <3>1. Syncs(who)'
      BY <1>0, <1>3, <2>1, <2>3 DEF Syncs, Knowledge!Bot
    <3> QED BY <1>3, <2>1, <2>3, <3>1 DEF SyncsAgree, Knowledge!NotSyncing, Knowledge!Syncers, Knowledge!Bot
  <2>5. /\ cache' \in 0..MaxSource /\ cache <= cache' /\ cache' <= source /\ index' = index /\ index' <= cache'
    BY <1>0, <1>3, <2>1 DEF Syncs
  <2>6. KnowledgeInv'
    BY <1>0, <1>3, <2>1, <2>3, <2>4, <2>5, MutexKeeps
  <2> QED BY <1>0, <2>5, <2>6
<1>5. CASE Knowledge!FailSave(who) \/ Knowledge!StoreIndex(who)
  <2>1. /\ UNCHANGED <<process, source, cache, reloads, request, latest, aged>> /\ syncing[who].pc # "free"
        /\ syncing' = [syncing EXCEPT ![who] = Knowledge!NotSyncing]
        /\ \/ UNCHANGED index /\ Knowledge!Moves(who, "failed")
           \/ index' = syncing[who].got /\ Knowledge!Moves(who, "succeeded") /\ syncing[who].pc = "store"
    BY <1>5 DEF Knowledge!FailSave, Knowledge!StoreIndex, Knowledge!IndexOnFailure
  <2>2. syncing' = [syncing EXCEPT ![who] = [pc |-> "free", got |-> 0]] /\ 0 \in 0..MaxSource
    BY <1>0, <2>1, AdministrationAssumption DEF Knowledge!NotSyncing, Knowledge!ReloadAssumption
  <2>3. /\ syncing' \in [Knowledge!Syncers -> [pc: {"free", "save", "store"}, got: 0..MaxSource]]
        /\ syncing'[who] = [pc |-> "free", got |-> 0] /\ syncing'[who].pc = "free"
        /\ \A x \in Knowledge!Syncers \ {who} : syncing'[x] = syncing[x]
    BY <2>2, SyncingChanges
  <2>4. SyncsAgree'
    BY <1>3, <2>1, <2>3 DEF SyncsAgree, Knowledge!NotSyncing, Knowledge!Syncers, Knowledge!Bot
  <2>5. /\ index' \in 0..MaxSource /\ index <= index' /\ index' <= cache'
        /\ index' = index \/ cache <= index'
        /\ index' = index \/ (who # Knowledge!Bot => reloads[who].since <= index')
    BY <1>0, <1>3, <2>1 DEF Syncs
  <2>6. CASE Knowledge!Moves(who, "failed")
    <3>1. KnowledgeInv'
      BY <1>0, <1>3, <2>1, <2>3, <2>4, <2>5, <2>6, MutexKeeps
    <3> QED BY <1>0, <2>1, <2>5, <3>1
  <2>7. CASE index' = syncing[who].got /\ Knowledge!Moves(who, "succeeded") /\ syncing[who].pc = "store"
    <3>1. who # Knowledge!Bot => reloads[who].since <= index'
      BY <1>0, <1>3, <2>7 DEF Syncs
    <3>2. KnowledgeInv'
      BY <1>0, <1>3, <2>1, <2>3, <2>4, <2>5, <2>7, <3>1, MutexKeeps
    <3> QED BY <1>0, <2>1, <2>5, <3>2
  <2> QED BY <2>1, <2>6, <2>7
<1> QED BY <1>1, <1>2, <1>4, <1>5 DEF Knowledge!Syncing

-----------------------------------------------------------------------------
(* The life of the process, and what the other half does.                    *)

LEMMA ProcessStays ==
    ASSUME SystemNext \/ Terminate
    PROVE  process' = process \/ (process # "down" /\ process' # "down")
BY DEF SystemNext, Handle, Work, Terminate, ScheduleBotRestart, AskBotRestart, BeginBotRestart, CompleteUpdate,
       BeginUpdate, Edit, RestartNapCat, TakeSlot, StopWaiting, SetRestart, GiveUp, StartRunning, Finish, Answer,
       RetryUpdate, Expire, FailStart

LEMMA OtherHalf ==
    ASSUME KnowledgeInv, UNCHANGED knowledge, process' = process \/ (process # "down" /\ process' # "down")
    PROVE  KnowledgeInv'
<1> USE DEF KnowledgeInv, knowledge
<1>1. Knowledge!ReloadTypeOK' /\ ReloadKeysAgree'
  BY DEF Knowledge!ReloadTypeOK, ReloadKeysAgree, Knowledge!OpenReloads
<1>2. ReloadsAgree' /\ GoroutinesAgree'
  BY DEF ReloadsAgree, GoroutinesAgree
<1>3. SyncsAgree'
  BY SyncsAlone, ReloadNumbers
<1> QED BY <1>1, <1>2, <1>3

LEMMA NobodySyncs ==
    ASSUME \A who \in Knowledge!Syncers : syncing[who] = Knowledge!NotSyncing
    PROVE  SyncsAgree
BY DEF SyncsAgree, Knowledge!NotSyncing

LEMMA ProcessEnds ==
    ASSUME KnowledgeInv, Die
    PROVE  KnowledgeInv' /\ index' = 0 /\ UNCHANGED cache
<1> USE DEF KnowledgeInv
<1>1. /\ process' = "down" /\ index' = 0 /\ latest' = Knowledge!NoOverlay
      /\ syncing' = [who \in Knowledge!Syncers |-> Knowledge!NotSyncing]
      /\ request' = [h \in Requests |-> Knowledge!NoRequest]
      /\ reloader' = [o \in 1..MaxReloads |-> "none"] /\ bot' = "idle"
      /\ UNCHANGED <<source, cache, reloads, aged>>
  BY DEF Die, Crash, Exit, Knowledge!ForgetReloads
<1>2. 0 \in 0..MaxSource
  BY AdministrationAssumption DEF Knowledge!ReloadAssumption
<1>3. Knowledge!ReloadTypeOK'
  <2>1. syncing' \in [Knowledge!Syncers -> [pc: {"free", "save", "store"}, got: 0..MaxSource]]
    BY <1>1, <1>2 DEF Knowledge!NotSyncing
  <2>2. request' \in [Requests -> [pc: {"idle", "begun"}, op: Nat, status: Knowledge!ReloadStatuses, fresh: BOOLEAN]]
    BY <1>1 DEF Knowledge!NoRequest, Knowledge!ReloadStatuses
  <2>3. latest' \in [op: Nat, status: Knowledge!ReloadStatuses]
    BY <1>1 DEF Knowledge!NoOverlay, Knowledge!ReloadStatuses
  <2> QED BY <1>1, <1>2, <2>1, <2>2, <2>3 DEF Knowledge!ReloadTypeOK
<1>4. ReloadsAgree'
  BY <1>1, ReloadNumbers DEF ReloadsAgree
<1>5. GoroutinesAgree'
  BY <1>1 DEF GoroutinesAgree, Knowledge!NoRequest
<1>6. SyncsAgree'
  BY <1>1 DEF SyncsAgree, Knowledge!NotSyncing
<1> QED BY <1>1, <1>3, <1>4, <1>5, <1>6, RowsAlone, ReloadKeysKept

\* A start, or the part of one that comes before the restarts are recovered.
LEMMA RowsRecovered ==
    ASSUME KnowledgeInv, reloads' = EndedReloads, process = "down", cache' \in {source, cache},
           index' = index \/ index' \in {cache', 0}, latest' \in [op: Nat, status: Knowledge!ReloadStatuses],
           index' \in {cache', 0} \/ process' = "down", UNCHANGED <<source, syncing, request, reloader, bot, aged>>
    PROVE  KnowledgeInv' /\ cache <= cache' /\ (index' # 0 => index <= index')
<1> USE DEF KnowledgeInv
<1>1. /\ reloads' \in Seq(Knowledge!Reload) /\ DOMAIN reloads' = DOMAIN reloads
      /\ \A o \in DOMAIN reloads :
                /\ reloads'[o].key = reloads[o].key /\ reloads'[o].since = reloads[o].since
                /\ reloads'[o].aged = reloads[o].aged
                /\ reloads'[o].status \notin {"accepted", "running"}
                /\ reloads'[o].status = "succeeded" => reloads[o].status = "succeeded"
                /\ reloads'[o].idem = "none" => reloads[o].idem = "none"
  BY ReloadsRecover
<1>2. /\ source \in Nat /\ cache \in Nat /\ index \in Nat /\ index <= cache /\ cache <= source
      /\ source \in 0..MaxSource /\ cache \in 0..MaxSource /\ index \in 0..MaxSource
      /\ \A o \in DOMAIN reloads : reloads[o].since \in Nat
  BY ReloadNumbers, ReloadsAreASequence, AdministrationAssumption
  DEF ReloadsAgree, Knowledge!ReloadTypeOK, Knowledge!ReloadAssumption
<1>3. /\ cache' \in 0..MaxSource /\ index' \in 0..MaxSource /\ cache' \in Nat /\ index' \in Nat
      /\ cache <= cache' /\ cache' <= source /\ index' <= cache' /\ (index' # 0 => index <= index')
  <2>1. 0 \in 0..MaxSource
    BY AdministrationAssumption DEF Knowledge!ReloadAssumption
  <2>2. cache' \in 0..MaxSource /\ cache' \in Nat /\ cache <= cache' /\ cache' <= source
    BY <1>2
  <2>3. index' = index \/ index' = cache' \/ index' = 0
    OBVIOUS
  <2>4. index' \in 0..MaxSource /\ index' \in Nat /\ index' <= cache' /\ (index' # 0 => index <= index')
    BY <1>2, <2>1, <2>2, <2>3
  <2> QED BY <2>2, <2>4
<1>4. Knowledge!ReloadTypeOK'
  BY <1>1, <1>3 DEF Knowledge!ReloadTypeOK
<1>5. ReloadKeysAgree'
  BY <1>1, ReloadKeysKept DEF RowsStay
<1>6. ReloadsAgree'
  <2>1. ASSUME NEW o \in DOMAIN reloads, reloads'[o].status = "succeeded"
        PROVE  reloads[o].since <= cache' /\ (process' # "down" => index' = 0 \/ reloads[o].since <= index')
    <3>1. reloads[o].since <= cache
      BY <1>1, <2>1 DEF ReloadsAgree
    <3> QED BY <1>2, <1>3, <3>1
  <2>2. \A o \in DOMAIN reloads : reloads[o].since <= source
    BY DEF ReloadsAgree
  <2> QED BY <1>1, <1>3, <2>1, <2>2 DEF ReloadsAgree
<1>7. GoroutinesAgree'
  BY <1>1 DEF GoroutinesAgree
<1>8. SyncsAgree'
  BY DEF SyncsAgree, Syncs, Knowledge!NotSyncing
<1> QED BY <1>3, <1>4, <1>5, <1>6, <1>7, <1>8

LEMMA ProcessStarts ==
    ASSUME KnowledgeInv, StartProcess
    PROVE  KnowledgeInv' /\ cache <= cache' /\ (index' # 0 => index <= index')
<1> USE DEF KnowledgeInv
<1>1. /\ process = "down" /\ index' \in {cache', 0} /\ cache' \in {source, cache}
      /\ UNCHANGED <<source, syncing, request, reloader, bot, aged>>
      /\ latest' = IF Knowledge!OpenReloads = {} THEN Knowledge!NoOverlay
                   ELSE [op |-> CHOOSE o \in Knowledge!OpenReloads : \A p \in Knowledge!OpenReloads : p <= o,
                         status |-> "failed"]
  BY DEF StartProcess, Start, Knowledge!LoadReloads
<1>2. reloads' = EndedReloads
  BY DEF StartProcess, Knowledge!LoadReloads, EndedReloads, EndedReload, FailedReload
<1>3. latest' \in [op: Nat, status: Knowledge!ReloadStatuses]
  <2>1. CASE Knowledge!OpenReloads = {}
    BY <1>1, <2>1 DEF Knowledge!NoOverlay, Knowledge!ReloadStatuses
  <2>2. CASE Knowledge!OpenReloads # {}
    <3>1. PICK o \in Knowledge!OpenReloads : TRUE
      BY <2>2
    <3>2. o \in Nat /\ \A p \in Knowledge!OpenReloads : p <= o
      <4>1. o \in Nat /\ \A p \in Knowledge!OpenReloads : p = o
        BY <3>1, ReloadsAreASequence DEF ReloadKeysAgree, Knowledge!OpenReloads
      <4> QED BY <4>1
    <3> DEFINE last == CHOOSE q \in Knowledge!OpenReloads : \A p \in Knowledge!OpenReloads : p <= q
    <3>3. last \in Knowledge!OpenReloads
      BY <3>1, <3>2
    <3>4. last \in Nat
      BY <3>3, ReloadsAreASequence DEF Knowledge!OpenReloads
    <3>5. latest' = [op |-> last, status |-> "failed"]
      BY <1>1, <2>2
    <3> HIDE DEF last
    <3> QED BY <3>4, <3>5 DEF Knowledge!ReloadStatuses
  <2> QED BY <2>1, <2>2
<1> QED BY <1>1, <1>2, <1>3, RowsRecovered

LEMMA StartFails ==
    ASSUME KnowledgeInv, FailToStart
    PROVE  KnowledgeInv' /\ cache <= cache' /\ (index' # 0 => index <= index')
<1> USE DEF KnowledgeInv
<1>1. /\ process = "down" /\ cache' \in {source, cache}
      /\ UNCHANGED <<process, index, latest, source, syncing, request, reloader, bot, aged>>
  BY DEF FailToStart, vars
<1>2. reloads' = EndedReloads
  BY DEF FailToStart, EndedReloads, EndedReload, FailedReload
<1>3. latest' \in [op: Nat, status: Knowledge!ReloadStatuses]
  BY <1>1 DEF Knowledge!ReloadTypeOK
<1> QED BY <1>1, <1>2, <1>3, RowsRecovered

-----------------------------------------------------------------------------
(* The knowledge base: its invariant and its theorems.                       *)

\* The index never goes back while it holds anything, nor does the file.
NeverBack ==
    (index # 0 /\ index' # 0 => index' >= index) /\ cache' >= cache /\ index' <= cache'

LEMMA KnowledgeStarts ==
    ASSUME AdministrationInit
    PROVE  KnowledgeInv
<1> USE AdministrationAssumption
    DEF AdministrationInit, SystemInit, Knowledge!ReloadInit, Knowledge!ReloadAssumption
<1>1. Knowledge!ReloadTypeOK
  BY DEF Knowledge!ReloadTypeOK, Knowledge!NotSyncing, Knowledge!NoRequest, Knowledge!NoOverlay,
     Knowledge!ReloadStatuses
<1>2. ReloadKeysAgree /\ ReloadsAgree
  BY DEF ReloadKeysAgree, ReloadsAgree, Knowledge!OpenReloads
<1>3. GoroutinesAgree
  BY DEF GoroutinesAgree, Knowledge!NoRequest
<1> QED BY <1>1, <1>2, <1>3, NobodySyncs DEF KnowledgeInv

LEMMA KnowledgeKept ==
    ASSUME KnowledgeInv, [AdministrationNext]_allVars
    PROVE  KnowledgeInv' /\ NeverBack
<1>0. /\ index \in Nat /\ cache \in Nat /\ index <= cache
  BY ReloadNumbers DEF KnowledgeInv, ReloadsAgree
<1>1. CASE (SystemNext \/ Terminate) /\ UNCHANGED knowledge
  <2>1. KnowledgeInv'
    BY <1>1, ProcessStays, OtherHalf
  <2> QED BY <1>0, <1>1, <2>1 DEF NeverBack, knowledge
<1>2. CASE Knowledge!ReloadNext
  <2>1. CASE \E h \in Requests : Knowledge!ShowRequest(h)
    <3>1. UNCHANGED <<index, cache>>
      BY <2>1 DEF Knowledge!ShowRequest
    <3> QED BY <1>0, <2>1, <3>1, RequestsShow DEF NeverBack
  <2>2. CASE \E h \in Requests, k \in ReloadKeys, o \in Knowledge!DbReplies : Knowledge!StartReload(h, k, o)
    <3>1. UNCHANGED <<index, cache>>
      BY <2>2 DEF Knowledge!StartReload
    <3> QED BY <1>0, <2>2, <3>1, RequestsStart DEF NeverBack
  <2>3. CASE \E o \in 1..MaxReloads, r \in Knowledge!DbReplies :
               Knowledge!BeginRunning(o, r) \/ Knowledge!FinishReload(o, r)
    <3>1. UNCHANGED <<index, cache>>
      BY <2>3 DEF Knowledge!BeginRunning, Knowledge!FinishReload
    <3> QED BY <1>0, <2>3, <3>1, GoroutinesMove DEF NeverBack
  <2>4. CASE \E who \in Knowledge!Syncers : Knowledge!Syncing(who)
    <3>1. KnowledgeInv' /\ index <= index' /\ cache <= cache'
      BY <2>4, MutexSteps
    <3>2. index' \in Nat /\ cache' \in Nat /\ index' <= cache'
      BY <3>1, AdministrationAssumption
      DEF KnowledgeInv, ReloadsAgree, Knowledge!ReloadTypeOK, Knowledge!ReloadAssumption
    <3> QED BY <1>0, <3>1, <3>2 DEF NeverBack
  <2>5. CASE \E o \in 1..MaxReloads : Knowledge!AgeKey(o)
    <3>1. UNCHANGED <<index, cache>>
      BY <2>5 DEF Knowledge!AgeKey
    <3> QED BY <1>0, <2>5, <3>1, KeysAge DEF NeverBack
  <2>6. CASE Knowledge!AskBot \/ Knowledge!EditWorkbook
    <3>1. UNCHANGED <<index, cache>>
      BY <2>6 DEF Knowledge!AskBot, Knowledge!EditWorkbook
    <3> QED BY <1>0, <2>6, <3>1, WorkbookChanges DEF NeverBack
  <2> QED BY <1>2, <2>1, <2>2, <2>3, <2>4, <2>5, <2>6 DEF Knowledge!ReloadNext
<1>3. CASE Die
  BY <1>0, <1>3, ProcessEnds DEF NeverBack
<1>4. CASE StartProcess \/ FailToStart
  <2>1. KnowledgeInv' /\ (index' # 0 => index <= index') /\ cache <= cache'
    BY <1>4, ProcessStarts, StartFails
  <2>2. index' \in Nat /\ cache' \in Nat /\ index' <= cache'
    BY <2>1, AdministrationAssumption
      DEF KnowledgeInv, ReloadsAgree, Knowledge!ReloadTypeOK, Knowledge!ReloadAssumption
  <2> QED BY <1>0, <2>1, <2>2 DEF NeverBack
<1>5. CASE UNCHANGED allVars
  <2>1. UNCHANGED knowledge /\ UNCHANGED process /\ UNCHANGED <<index, cache>>
    BY <1>5 DEF allVars, vars, knowledge
  <2> QED BY <1>0, <2>1, OtherHalf DEF NeverBack
<1> QED BY <1>1, <1>2, <1>3, <1>4, <1>5 DEF AdministrationNext

LEMMA KnowledgeInvariant == AdministrationSpec => []KnowledgeInv
<1>1. AdministrationInit => KnowledgeInv
  BY KnowledgeStarts
<1>2. KnowledgeInv /\ [AdministrationNext]_allVars => KnowledgeInv'
  BY KnowledgeKept
<1> QED BY <1>1, <1>2, PTL DEF AdministrationSpec

\* Questions are answered from the workbook that a finished reload loaded or from
\* a newer one, and neither the index nor the cache file goes back, over failures
\* to save, crashes and starts from the file: Syncer.Sync, LoadCache, runReload.
THEOREM KnowledgeStaysServed == AdministrationSpec => KnowledgeIsServed
<1>1. KnowledgeInv => Knowledge!ReloadsAreServed
  <2> SUFFICES ASSUME KnowledgeInv, NEW o \in DOMAIN reloads, reloads[o].status = "succeeded"
               PROVE  process = "down" \/ index = 0 \/ index >= reloads[o].since
    BY DEF Knowledge!ReloadsAreServed
  <2> QED BY ReloadNumbers, ReloadsAreASequence DEF KnowledgeInv, ReloadsAgree
<1>2. KnowledgeInv /\ [AdministrationNext]_allVars
        => [/\ index # 0 /\ index' # 0 => index' >= index
            /\ cache' >= cache /\ index' <= cache']_(Knowledge!reloadVars)
  BY KnowledgeKept DEF NeverBack
<1>3. AdministrationSpec => []Knowledge!ReloadsAreServed
  BY <1>1, KnowledgeInvariant, PTL
<1>4. AdministrationSpec => Knowledge!IndexNeverGoesBack
  BY <1>2, KnowledgeInvariant, PTL DEF AdministrationSpec, Knowledge!IndexNeverGoesBack
<1> QED BY <1>3, <1>4 DEF KnowledgeIsServed

LEMMA OneCardinality == \A S : Knowledge!Cardinality(S) = Cardinality(S)
BY DEF Cardinality, Knowledge!Cardinality

\* A key stands for one operation while it is less than a day old, one reload is
\* open at a time and NapCat is asked at most once for a restart, whatever answers
\* of the database are lost: BeginNapCatRestart, BeginBotRestart,
\* BeginKnowledgeReload, runRestart.
THEOREM KeysBegin == AdministrationSpec => []KeysBeginOneOperation
<1>1. SystemInv => TypeOK /\ KeysActOnce
  BY DEF SystemInv, KeysAgree, AskedOnce, KeysActOnce
<1>2. KnowledgeInv => Knowledge!ReloadTypeOK /\ Knowledge!OneReloadAtATime
  <2> SUFFICES ASSUME KnowledgeInv PROVE Knowledge!OneReloadAtATime
    BY DEF KnowledgeInv
  <2>1. Knowledge!OpenReloads = {} \/ \E o : Knowledge!OpenReloads = {o}
    BY DEF KnowledgeInv, ReloadKeysAgree
  <2>2. Cardinality(Knowledge!OpenReloads) <= 1
    <3>1. CASE Knowledge!OpenReloads = {}
      BY <3>1, FS_EmptySet
    <3>2. ASSUME NEW o, Knowledge!OpenReloads = {o} PROVE Cardinality(Knowledge!OpenReloads) <= 1
      BY <3>2, FS_Singleton
    <3> QED BY <2>1, <3>1, <3>2
  <2> QED BY <2>2, OneCardinality DEF KnowledgeInv, ReloadKeysAgree, Knowledge!OneReloadAtATime
<1>3. SystemInv /\ KnowledgeInv => KeysBeginOneOperation
  BY <1>1, <1>2 DEF KeysBeginOneOperation
<1> QED BY <1>3, SystemInvariant, KnowledgeInvariant, PTL

=============================================================================
