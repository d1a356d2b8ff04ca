------------------------ MODULE ScheduledJobsProofs ------------------------
(***************************************************************************)
(* Proofs about ScheduledJobs, for any number of jobs, test senders, keys, *)
(* days, faults and crashes: no day is sent twice after anything but a     *)
(* failure, no key sends twice, stored results are what the senders knew,  *)
(* and a deleted job sends nothing.                                        *)
(*                                                                         *)
(* The invariant says of the rows (Tables) that only the last run of an    *)
(* occurrence may be anything but a stored failure, and of the processes   *)
(* (Holders) that whoever is about to send holds an open run without an    *)
(* answer, while whoever is about to store a result stores what the run's  *)
(* answer means.                                                           *)
(***************************************************************************)
EXTENDS ScheduledJobs, FiniteSetTheorems, WellFoundedInduction, TLAPS

-----------------------------------------------------------------------------
(* Current and Latest choose the smallest and the greatest of some numbers:  *)
(* there is one, since the intervals up to the members are well-founded      *)
(* under inclusion.                                                          *)

LEMMA LeastNatural ==
    ASSUME NEW T \in SUBSET Nat, T # {}
    PROVE  \E x \in T : \A y \in T : x <= y
<1> DEFINE Up == {0 .. x : x \in T}
<1>1. Up \subseteq FiniteSubsetsOf(Nat) /\ Up # {}
    <2>1. ASSUME NEW x \in T PROVE 0 .. x \in SUBSET Nat /\ IsFiniteSet(0 .. x)
        BY FS_Interval
    <2> QED BY <2>1 DEF FiniteSubsetsOf
<1>2. PICK I \in Up : \A J \in Up : <<J, I>> \notin StrictSubsetOrdering(Nat)
    <2>1. IsWellFoundedOn(StrictSubsetOrdering(Nat), FiniteSubsetsOf(Nat))
        BY FS_StrictSubsetOrderingWellFounded
    <2> HIDE DEF Up
    <2> QED BY <1>1, <2>1, WFMin, Zenon
<1>3. PICK x \in T : I = 0 .. x
    OBVIOUS
<1>4. ASSUME NEW y \in T, ~(x <= y) PROVE FALSE
    <2>1. 0 .. y \in SUBSET Nat /\ 0 .. x \in SUBSET Nat
        OBVIOUS
    <2>2. 0 .. y \subseteq 0 .. x /\ 0 .. y # 0 .. x
        BY <1>4
    <2>3. 0 .. y \in Up
        OBVIOUS
    <2> QED BY <1>2, <1>3, <2>1, <2>2, <2>3 DEF StrictSubsetOrdering
<1> QED BY <1>4

LEMMA GreatestIndex ==
    ASSUME NEW n \in Nat, NEW T \in SUBSET (1 .. n), T # {}
    PROVE  \E x \in T : \A y \in T : y <= x
<1> DEFINE Gap == {n - x : x \in T}
<1>1. Gap \in SUBSET Nat /\ Gap # {}
    <2>1. ASSUME NEW x \in T PROVE n - x \in Nat
        OBVIOUS
    <2> QED BY <2>1
<1>2. PICK g \in Gap : \A h \in Gap : g <= h
    <2> HIDE DEF Gap
    <2> QED BY <1>1, LeastNatural
<1>3. PICK x \in T : g = n - x
    OBVIOUS
<1>4. ASSUME NEW y \in T PROVE y <= x
    <2>1. n - y \in Gap
        OBVIOUS
    <2> QED BY <1>2, <1>3, <2>1
<1> QED BY <1>4

\* The tick is at one of the jobs it has left.
LEMMA CurrentIsLeft ==
    ASSUME TypeOK, sched.todo # {}
    PROVE  Current \in sched.todo /\ Current \in Jobs
<1>1. sched.todo \in SUBSET Jobs
    BY DEF TypeOK
<1>2. \E j \in sched.todo : \A k \in sched.todo : j <= k
    BY <1>1, LeastNatural, ConstantsAssumption
<1> QED BY <1>1, <1>2 DEF Current

\* The latest attempt is one, and the others are earlier.
LEMMA LatestIsLast ==
    ASSUME TypeOK, NEW j, NEW d, Attempts(j, d) # {}
    PROVE  /\ Latest(j, d) \in Attempts(j, d)
           /\ \A k \in Attempts(j, d) : k <= Latest(j, d)
<1>1. Len(runs) \in Nat /\ Attempts(j, d) \in SUBSET (1 .. Len(runs))
    BY DEF TypeOK, Attempts
<1>2. \E i \in Attempts(j, d) : \A k \in Attempts(j, d) : k <= i
    BY <1>1, GreatestIndex
<1> QED BY <1>2 DEF Latest

-----------------------------------------------------------------------------
(* The invariant.                                                            *)

\* What a row that is not open says is what its sender knew.
Truthful(row) ==
    /\ row.result = "success" => row.answer = "confirmed"
    /\ row.result = "failed" => row.answer \in Explicit \cup {"garbled"}
    /\ row.result = "unknown" => row.answer \in {"unknown", "unavailable"}

RowsTellTruth == \A i \in DOMAIN runs : runs[i].state # "open" => Truthful(runs[i])

SameOccurrence(i, k) ==
    /\ runs[i].kind = "scheduled" /\ runs[k].kind = "scheduled"
    /\ runs[i].job = runs[k].job /\ runs[i].day = runs[k].day

\* An occurrence gets another run only after a stored failure.
OnlyAfterFailure ==
    \A i, k \in DOMAIN runs :
        i < k /\ SameOccurrence(i, k) => runs[i].state # "open" /\ runs[i].result = "failed"

KeysStartOnce ==
    \A i, k \in DOMAIN runs :
        (/\ runs[i].kind = "test" /\ runs[k].kind = "test"
         /\ runs[i].job = runs[k].job /\ runs[i].key = runs[k].key) => i = k

RunsFollowJobs ==
    \A i \in DOMAIN runs :
        /\ runs[i].state = "open" => job[runs[i].job].state = "live"
        /\ runs[i].state = "gone" => job[runs[i].job].state = "deleted"

Tables == RowsTellTruth /\ OnlyAfterFailure /\ KeysStartOnce /\ RunsFollowJobs

\* Run i is about to be sent, or its answer is awaited.
Unanswered(i, kind) ==
    i \in DOMAIN runs /\ runs[i].kind = kind /\ runs[i].state = "open" /\ runs[i].answer = "none"

\* The result of run i is about to be stored.
Answered(i, kind) ==
    i \in DOMAIN runs /\ runs[i].kind = kind /\ runs[i].answer # "none"

LoopHolds ==
    /\ sched.pc \in {"send", "sending", "complete", "mark"} => sched.job \in Jobs
    /\ sched.pc \in {"send", "sending"} => Unanswered(sched.run, "scheduled")
    /\ sched.pc = "complete" => pending[sched.job].run # 0

PendingHolds ==
    \A j \in Jobs : pending[j].run # 0 =>
        /\ Answered(pending[j].run, "scheduled")
        /\ pending[j].result = ScheduledResult(runs[pending[j].run].answer)

Sends(h) == tester[h].pc \in {"send", "sending"}

TestersHold ==
    /\ \A h \in Testers :
        /\ Sends(h) => Unanswered(tester[h].run, "test")
        /\ tester[h].pc = "complete" => Answered(tester[h].run, "test")
    /\ \A h, g \in Testers : Sends(h) /\ Sends(g) /\ tester[h].run = tester[g].run => h = g

RetriesHold ==
    \A c \in retries :
        Answered(c.run, "test") /\ c.result = TestResult(runs[c.run].answer)

NothingWhileDown ==
    ~up => /\ sched.pc = "idle" /\ retries = {}
           /\ \A j \in Jobs : pending[j].run = 0
           /\ \A h \in Testers : tester[h].pc = "idle"

Holders == LoopHolds /\ PendingHolds /\ TestersHold /\ RetriesHold /\ NothingWhileDown

Inv == TypeOK /\ Tables /\ Holders

-----------------------------------------------------------------------------
(* What the operations on rows return.                                       *)

LoopStates == [pc: {"idle", "scan", "send", "sending", "complete", "mark"},
               todo: SUBSET Jobs, at: Nat, job: Jobs \cup {0}, run: Nat]

TesterStates == [pc: {"idle", "send", "sending", "complete"}, job: Jobs \cup {0},
                 key: Keys \cup {0}, run: Nat, request: Nat,
                 reply: {"none", "fresh", "replayed", "conflict", "key_conflict",
                         "missing", "error"}]

LEMMA Outcomes ==
    /\ \A a \in Answers : /\ ScheduledResult(a) \in {"success", "failed", "unknown"}
                          /\ TestResult(a) \in {"success", "failed", "unknown"}
    /\ \A reached \in BOOLEAN : Answerable(reached) \subseteq Answers
BY DEF Answers, ScheduledResult, TestResult, Answerable

LEMMA NewRunType ==
    ASSUME NEW j \in Jobs, NEW kind \in {"scheduled", "test"}, NEW d \in Nat,
           NEW k \in Keys \cup {0}, NEW q \in Nat
    PROVE  NewRun(j, kind, d, k, q) \in Run
BY DEF NewRun, Run, Results

LEMMA InterruptOpenType ==
    ASSUME TypeOK, NEW ids
    PROVE  /\ InterruptOpen(ids) \in Seq(Run)
           /\ DOMAIN InterruptOpen(ids) = DOMAIN runs
           /\ \A i \in DOMAIN runs :
                InterruptOpen(ids)[i] = IF i \in ids /\ runs[i].state = "open"
                                        THEN Interrupted(runs[i]) ELSE runs[i]
<1>1. ASSUME NEW row \in Run PROVE Interrupted(row) \in Run
    BY DEF Interrupted, Run, Results
<1>2. runs \in [1 .. Len(runs) -> Run] /\ Len(runs) \in Nat
    BY DEF TypeOK
<1>3. InterruptOpen(ids) \in [1 .. Len(runs) -> Run]
    BY <1>1, <1>2 DEF InterruptOpen
<1> QED BY <1>2, <1>3 DEF InterruptOpen

LEMMA ReplaceRow ==
    ASSUME TypeOK, NEW i \in DOMAIN runs, NEW row \in Run
    PROVE  /\ [runs EXCEPT ![i] = row] \in Seq(Run)
           /\ DOMAIN [runs EXCEPT ![i] = row] = DOMAIN runs
BY DEF TypeOK

LEMMA StoreResultType ==
    ASSUME TypeOK, NEW i \in DOMAIN runs, NEW result \in Results
    PROVE  /\ StoreResult(i, result) \in Seq(Run)
           /\ DOMAIN StoreResult(i, result) = DOMAIN runs
           /\ StoreResult(i, result)[i] = [runs[i] EXCEPT !.state = "ended", !.result = result]
           /\ \A k \in DOMAIN runs \ {i} : StoreResult(i, result)[k] = runs[k]
<1>1. runs \in Seq(Run) /\ runs[i] \in Run
    BY DEF TypeOK
<1>2. [runs[i] EXCEPT !.state = "ended", !.result = result] \in Run
    BY <1>1 DEF Run
<1>3. StoreResult(i, result)
        = [runs EXCEPT ![i] = [runs[i] EXCEPT !.state = "ended", !.result = result]]
    BY <1>1 DEF StoreResult, Run
<1> QED BY <1>1, <1>2, <1>3

\* Handing over a message and learning its answer leave the rest of a row alone.
LEMMA RowUpdateType ==
    ASSUME TypeOK, NEW i \in DOMAIN runs, NEW reached \in BOOLEAN, NEW answer \in Answers
    PROVE  /\ [runs EXCEPT ![i].sent = TRUE, ![i].delivered = reached] \in Seq(Run)
           /\ [runs EXCEPT ![i].answer = answer] \in Seq(Run)
<1>1. runs \in Seq(Run) /\ runs[i] \in Run
    BY DEF TypeOK
<1>2. /\ [runs[i] EXCEPT !.sent = TRUE, !.delivered = reached] \in Run
      /\ [runs[i] EXCEPT !.answer = answer] \in Run
    BY <1>1 DEF Run
<1>3. /\ [runs EXCEPT ![i].sent = TRUE, ![i].delivered = reached]
           = [runs EXCEPT ![i] = [runs[i] EXCEPT !.sent = TRUE, !.delivered = reached]]
      /\ [runs EXCEPT ![i].answer = answer]
           = [runs EXCEPT ![i] = [runs[i] EXCEPT !.answer = answer]]
    BY <1>1 DEF Run
<1>4. /\ [runs EXCEPT ![i] = [runs[i] EXCEPT !.sent = TRUE, !.delivered = reached]] \in Seq(Run)
      /\ [runs EXCEPT ![i] = [runs[i] EXCEPT !.answer = answer]] \in Seq(Run)
    BY <1>2, ReplaceRow
<1> QED BY <1>3, <1>4

LEMMA ScheduledType ==
    ASSUME NEW row \in Job, NEW s \in Schedules, NEW zone \in {0, Offset}
    PROVE  Scheduled(row, s, zone) \in Job /\ Scheduled(row, s, zone).state = row.state
<1>1. CASE s.once
    <2> DEFINE local == Instant(s) - (Offset - zone)
    <2>1. s.day \in Nat /\ s.day >= 1 /\ s.half \in {0, 1}
        BY ConstantsAssumption DEF Schedules, Days
    <2>2. Instant(s) \in Nat /\ Instant(s) >= 2
        BY <2>1 DEF Instant
    <2>3. local \in Nat /\ Day(local) \in Nat /\ Half(local) \in {0, 1}
        BY <2>2, ConstantsAssumption DEF Day, Half
    <2> QED BY <1>1, <2>2, <2>3 DEF Scheduled, Job
<1>2. CASE ~s.once
    <2>1. s.half \in {0, 1}
        BY DEF Schedules
    <2> QED BY <1>2, <2>1 DEF Scheduled, Job
<1> QED BY <1>1, <1>2

-----------------------------------------------------------------------------
(* What a step leaves alone.                                                 *)

\* The rows of a kind keep what their holders rely on.
Kept(kind) ==
    \A i \in DOMAIN runs : runs[i].kind = kind =>
        /\ i \in DOMAIN runs' /\ runs'[i].kind = kind /\ runs'[i].answer = runs[i].answer
        /\ runs[i].answer = "none" => runs'[i].state = runs[i].state

LEMMA LoopFrame ==
    ASSUME LoopHolds, PendingHolds, Kept("scheduled"), UNCHANGED <<sched, pending>>
    PROVE  LoopHolds' /\ PendingHolds'
BY DEF LoopHolds, PendingHolds, Kept, Unanswered, Answered

LEMMA TestFrame ==
    ASSUME TestersHold, RetriesHold, Kept("test"), UNCHANGED <<tester, retries>>
    PROVE  TestersHold' /\ RetriesHold'
BY DEF TestersHold, RetriesHold, Kept, Unanswered, Answered, Sends

LEMMA DownFrame ==
    ASSUME up' = TRUE
    PROVE  NothingWhileDown'
BY DEF NothingWhileDown

\* Rows keep their truth when no row changes and no job is revived or dropped.
LEMMA TablesFrame ==
    ASSUME Tables, UNCHANGED runs,
           \A i \in DOMAIN runs : job[runs[i].job].state \in {"live", "deleted"} =>
                job'[runs[i].job].state = job[runs[i].job].state
    PROVE  Tables'
BY DEF Tables, RowsTellTruth, OnlyAfterFailure, SameOccurrence, KeysStartOnce, RunsFollowJobs

LEMMA KeptByUnchanged ==
    ASSUME UNCHANGED runs, NEW kind
    PROVE  Kept(kind)
BY DEF Kept

\* A run ends as its answer says, or already did.
LEMMA StoreTables ==
    ASSUME TypeOK, Tables, NEW i \in DOMAIN runs, NEW result \in Results,
           runs[i].answer \in Answers,
           result \in {ScheduledResult(runs[i].answer), TestResult(runs[i].answer)},
           runs' = IF Accepts(i, result) THEN StoreResult(i, result) ELSE runs,
           UNCHANGED job
    PROVE  /\ runs' \in Seq(Run) /\ DOMAIN runs' = DOMAIN runs
           /\ Tables'
           /\ \A kind \in {"scheduled", "test"} : Kept(kind)
<1>1. CASE ~Accepts(i, result)
    BY <1>1, TablesFrame, KeptByUnchanged DEF TypeOK
<1>2. CASE Accepts(i, result)
    <2>1. /\ runs' \in Seq(Run) /\ DOMAIN runs' = DOMAIN runs
          /\ runs'[i] = [runs[i] EXCEPT !.state = "ended", !.result = result]
          /\ \A k \in DOMAIN runs \ {i} : runs'[k] = runs[k]
        <3>1. runs' = StoreResult(i, result)
            BY <1>2
        <3>2. /\ StoreResult(i, result) \in Seq(Run)
              /\ DOMAIN StoreResult(i, result) = DOMAIN runs
              /\ StoreResult(i, result)[i]
                    = [runs[i] EXCEPT !.state = "ended", !.result = result]
              /\ \A k \in DOMAIN runs \ {i} : StoreResult(i, result)[k] = runs[k]
            BY StoreResultType
        <3> QED BY <3>1, <3>2
    <2>2. runs[i] \in Run /\ runs[i].state \in {"open", "ended"}
        BY <1>2 DEF TypeOK, Accepts
    <2>3. /\ runs'[i].state = "ended" /\ runs'[i].result = result
          /\ runs'[i].kind = runs[i].kind /\ runs'[i].job = runs[i].job
          /\ runs'[i].day = runs[i].day /\ runs'[i].key = runs[i].key
          /\ runs'[i].answer = runs[i].answer
        BY <2>1, <2>2 DEF Run
    <2>4. RowsTellTruth'
        <3>1. Truthful(runs'[i])
            BY <2>3 DEF Truthful, ScheduledResult, TestResult, Answers, Explicit
        <3> QED BY <3>1, <2>1 DEF Tables, RowsTellTruth
    <2>5. OnlyAfterFailure'
        <3> SUFFICES ASSUME NEW m \in DOMAIN runs, NEW k \in DOMAIN runs, m < k,
                            SameOccurrence(m, k)'
                     PROVE  runs'[m].state # "open" /\ runs'[m].result = "failed"
            BY <2>1 DEF OnlyAfterFailure
        <3>1. SameOccurrence(m, k)
            BY <2>1, <2>3 DEF SameOccurrence
        <3>2. runs[m].state # "open" /\ runs[m].result = "failed"
            BY <3>1 DEF Tables, OnlyAfterFailure
        <3> QED BY <1>2, <2>1, <2>3, <3>2 DEF Accepts
    <2>6. KeysStartOnce'
        BY <2>1, <2>3 DEF Tables, KeysStartOnce
    <2>7. RunsFollowJobs'
        BY <2>1, <2>3 DEF Tables, RunsFollowJobs
    <2>8. ASSUME NEW kind PROVE Kept(kind)
        BY <2>1, <2>3 DEF Kept, Answers
    <2> QED BY <2>1, <2>4, <2>5, <2>6, <2>7, <2>8 DEF Tables
<1> QED BY <1>1, <1>2

\* Some open runs end as interrupted: those that are not behind another.
LEMMA InterruptTables ==
    ASSUME TypeOK, Tables, NEW ids, runs' = InterruptOpen(ids), UNCHANGED job
    PROVE  runs' \in Seq(Run) /\ DOMAIN runs' = DOMAIN runs /\ Tables'
<1>1. /\ runs' \in Seq(Run) /\ DOMAIN runs' = DOMAIN runs
      /\ \A i \in DOMAIN runs :
            runs'[i] = IF i \in ids /\ runs[i].state = "open"
                       THEN Interrupted(runs[i]) ELSE runs[i]
    BY InterruptOpenType
<1>2. ASSUME NEW i \in DOMAIN runs
      PROVE  /\ runs'[i].kind = runs[i].kind /\ runs'[i].job = runs[i].job
             /\ runs'[i].day = runs[i].day /\ runs'[i].key = runs[i].key
             /\ \/ runs'[i] = runs[i]
                \/ /\ runs[i].state = "open"
                   /\ runs'[i].state = "ended" /\ runs'[i].result = "interrupted"
    <2>1. runs[i] \in Run
        BY DEF TypeOK
    <2> QED BY <1>1, <2>1 DEF Interrupted, Run
<1>3. RowsTellTruth'
    BY <1>1, <1>2 DEF Tables, RowsTellTruth, Truthful
<1>4. OnlyAfterFailure'
    <2> SUFFICES ASSUME NEW i \in DOMAIN runs, NEW k \in DOMAIN runs, i < k,
                        SameOccurrence(i, k)'
                 PROVE  runs'[i].state # "open" /\ runs'[i].result = "failed"
        BY <1>1 DEF OnlyAfterFailure
    <2>1. SameOccurrence(i, k)
        BY <1>2 DEF SameOccurrence
    <2>2. runs[i].state # "open" /\ runs[i].result = "failed"
        BY <2>1 DEF Tables, OnlyAfterFailure
    <2> QED BY <1>2, <2>2
<1>5. KeysStartOnce'
    BY <1>1, <1>2 DEF Tables, KeysStartOnce
<1>6. RunsFollowJobs'
    BY <1>1, <1>2 DEF Tables, RunsFollowJobs
<1> QED BY <1>1, <1>3, <1>4, <1>5, <1>6 DEF Tables

\* A run of a job that exists is appended.
LEMMA AppendTables ==
    ASSUME TypeOK, Tables, NEW row \in Run, runs' = Append(runs, row), UNCHANGED job,
           row.state = "open", row.answer = "none", job[row.job].state = "live",
           row.kind = "scheduled" =>
                \A i \in DOMAIN runs :
                    runs[i].kind = "scheduled" /\ runs[i].job = row.job /\ runs[i].day = row.day
                        => runs[i].state # "open" /\ runs[i].result = "failed",
           row.kind = "test" =>
                \A i \in DOMAIN runs :
                    ~(runs[i].kind = "test" /\ runs[i].job = row.job /\ runs[i].key = row.key)
    PROVE  /\ runs' \in Seq(Run) /\ DOMAIN runs' = DOMAIN runs \cup {Len(runs) + 1}
           /\ runs'[Len(runs) + 1] = row /\ \A i \in DOMAIN runs : runs'[i] = runs[i]
           /\ Tables'
           /\ \A kind \in {"scheduled", "test"} : Kept(kind)
<1> DEFINE n == Len(runs) + 1
<1>1. /\ runs' \in Seq(Run) /\ DOMAIN runs' = DOMAIN runs \cup {n}
      /\ runs'[n] = row /\ \A i \in DOMAIN runs : runs'[i] = runs[i] /\ i < n /\ i \in Nat
    BY DEF TypeOK
<1> HIDE DEF n
<1>2. RowsTellTruth'
    BY <1>1 DEF Tables, RowsTellTruth
<1>3. OnlyAfterFailure'
    <2> SUFFICES ASSUME NEW i \in DOMAIN runs', NEW k \in DOMAIN runs', i < k,
                        SameOccurrence(i, k)'
                 PROVE  runs'[i].state # "open" /\ runs'[i].result = "failed"
        BY DEF OnlyAfterFailure
    <2>1. i \in DOMAIN runs
        BY <1>1
    <2>2. CASE k \in DOMAIN runs
        BY <1>1, <2>1, <2>2 DEF Tables, OnlyAfterFailure, SameOccurrence
    <2>3. CASE k = n
        BY <1>1, <2>1, <2>3 DEF SameOccurrence
    <2> QED BY <1>1, <2>2, <2>3
<1>4. KeysStartOnce'
    BY <1>1 DEF Tables, KeysStartOnce
<1>5. RunsFollowJobs'
    BY <1>1 DEF Tables, RunsFollowJobs
<1>6. ASSUME NEW kind PROVE Kept(kind)
    BY <1>1 DEF Kept
<1> QED BY <1>1, <1>2, <1>3, <1>4, <1>5, <1>6 DEF Tables, n

-----------------------------------------------------------------------------
(* Management, time and crashes.                                             *)

\* Jobs change, but are neither revived nor dropped.
LEMMA JobSteps ==
    ASSUME Inv, TypeOK', UNCHANGED <<runs, up, memory>>,
           \A j \in Jobs : job[j].state \in {"live", "deleted"} => job'[j].state = job[j].state
    PROVE  Inv'
<1>1. ASSUME NEW i \in DOMAIN runs PROVE runs[i].job \in Jobs
    <2>1. runs[i] \in Run
        BY DEF Inv, TypeOK
    <2> QED BY <2>1 DEF Run
<1>2. Tables'
    BY <1>1, TablesFrame DEF Inv
<1>3. Holders'
    BY KeptByUnchanged, LoopFrame, TestFrame
        DEF Inv, Holders, memory, NothingWhileDown
<1> QED BY <1>2, <1>3 DEF Inv

\* Only the jobs are written.
LEMMA JobTypeFrame ==
    ASSUME TypeOK, job' \in [Jobs -> Job],
           UNCHANGED <<now, runs, up, memory, requests, faults, crashes>>
    PROVE  TypeOK'
BY DEF TypeOK, memory

LEMMA ManageSteps ==
    ASSUME Inv, NEW j \in Jobs,
           \/ \E s \in Schedules : Add(j, s) \/ \E enabled \in BOOLEAN : Create(j, s, enabled)
           \/ Remove(j) \/ Update(j)
    PROVE  Inv'
<1> USE DEF memory
<1>0. /\ TypeOK /\ job \in [Jobs -> Job] /\ job[j] \in Job /\ NoJob \in Job
      /\ now \in Nat /\ Day(now) \in Nat
    <2>1. TypeOK /\ job \in [Jobs -> Job] /\ job[j] \in Job /\ now \in Nat
        BY DEF Inv, TypeOK
    <2> QED BY <2>1 DEF Job, NoJob, Day
<1>1. ASSUME NEW s \in Schedules, Add(j, s) PROVE Inv'
    <2> DEFINE row == [NoJob EXCEPT !.state = "live", !.revision = 1, !.enabled = TRUE,
                              !.marked = IF ~s.once /\ Half(now) >= s.half THEN Day(now) ELSE 0]
    <2>1. row \in Job /\ row.state = "live"
        BY <1>0 DEF NoJob, Job
    <2>2. job' = [job EXCEPT ![j] = Scheduled(row, s, SchedulerZone)]
        BY <1>1 DEF Add
    <2> HIDE DEF row
    <2>3. Scheduled(row, s, SchedulerZone) \in Job
        BY <2>1, <1>0, ScheduledType DEF SchedulerZone
    <2>4. TypeOK'
        BY <1>0, <1>1, <2>2, <2>3, JobTypeFrame DEF Add
    <2> QED BY <1>1, <2>2, <2>4, <1>0, JobSteps DEF Add
<1>2. ASSUME NEW s \in Schedules, NEW enabled \in BOOLEAN, Create(j, s, enabled) PROVE Inv'
    <2> DEFINE row == [NoJob EXCEPT !.state = "live", !.revision = 1, !.enabled = enabled]
    <2>1. row \in Job /\ row.state = "live"
        BY <1>0 DEF NoJob, Job
    <2>2. job' = [job EXCEPT ![j] = Scheduled(row, s, UTC)]
        BY <1>2 DEF Create
    <2> HIDE DEF row
    <2>3. Scheduled(row, s, UTC) \in Job
        BY <2>1, <1>0, ScheduledType DEF UTC
    <2>4. TypeOK'
        BY <1>0, <1>2, <2>2, <2>3, JobTypeFrame DEF Create
    <2> QED BY <1>2, <2>2, <2>4, <1>0, JobSteps DEF Create
<1>3. CASE Remove(j)
    <2>1. job' \in [Jobs -> Job] /\ \A k \in Jobs : job'[k].state = job[k].state
        BY <1>0, <1>3 DEF Remove, Job
    <2>2. TypeOK'
        BY <1>0, <1>3, <2>1, JobTypeFrame DEF Remove
    <2> QED BY <1>3, <2>1, <2>2, JobSteps DEF Remove
<1>4. CASE Update(j)
    <2>1. job' \in [Jobs -> Job] /\ \A k \in Jobs : job'[k].state = job[k].state
        <3>1. ASSUME NEW active \in BOOLEAN,
                     job' = [job EXCEPT ![j].enabled = active, ![j].revision = @ + 1]
              PROVE  job' \in [Jobs -> Job] /\ \A k \in Jobs : job'[k].state = job[k].state
            <4> DEFINE row == [job[j] EXCEPT !.enabled = active, !.revision = @ + 1]
            <4>1. job[j] \in Job /\ job[j].revision + 1 \in Nat
                BY <1>0 DEF Job
            <4>2. row \in Job /\ row.state = job[j].state
                BY <4>1 DEF Job
            <4>3. job' = [job EXCEPT ![j] = row]
                BY <3>1, <1>0 DEF Job
            <4> HIDE DEF row
            <4> QED BY <4>2, <4>3, <1>0
        <3>2. ASSUME NEW s \in Schedules,
                     job' = [job EXCEPT ![j] = Scheduled([job[j] EXCEPT !.revision = @ + 1], s, UTC)]
              PROVE  job' \in [Jobs -> Job] /\ \A k \in Jobs : job'[k].state = job[k].state
            <4> DEFINE row == [job[j] EXCEPT !.revision = @ + 1]
            <4>1. row \in Job /\ row.state = job[j].state
                BY <1>0 DEF Job
            <4>2. job' = [job EXCEPT ![j] = Scheduled(row, s, UTC)]
                BY <3>2, <1>0
            <4> HIDE DEF row
            <4>3. Scheduled(row, s, UTC) \in Job /\ Scheduled(row, s, UTC).state = row.state
                BY <4>1, <1>0, ScheduledType DEF UTC
            <4> QED BY <4>1, <4>2, <4>3, <1>0
        <3> QED BY <1>4, <3>1, <3>2 DEF Update
    <2>2. TypeOK'
        BY <1>0, <1>4, <2>1, JobTypeFrame DEF Update
    <2> QED BY <1>4, <2>1, <2>2, JobSteps DEF Update
<1> QED BY <1>1, <1>2, <1>3, <1>4

\* A job goes with its runs, none of which is open: nobody is about to send one.
LEMMA DeleteStep ==
    ASSUME Inv, NEW j \in Jobs, Delete(j)
    PROVE  Inv'
<1> DEFINE Gone(row) == IF row.job = j THEN [row EXCEPT !.state = "gone"] ELSE row
<1>1. TypeOK /\ runs \in [1 .. Len(runs) -> Run] /\ Len(runs) \in Nat
    BY DEF Inv, TypeOK
<1>2. /\ runs' \in [1 .. Len(runs) -> Run] /\ DOMAIN runs' = DOMAIN runs
      /\ \A i \in DOMAIN runs : runs'[i] = Gone(runs[i])
    <2>1. ASSUME NEW row \in Run PROVE Gone(row) \in Run
        BY DEF Run
    <2>2. runs' = [i \in 1 .. Len(runs) |-> Gone(runs[i])]
        BY <1>1 DEF Delete
    <2> HIDE DEF Gone
    <2> QED BY <1>1, <2>1, <2>2
<1>3. /\ job' \in [Jobs -> Job] /\ job'[j].state = "deleted"
      /\ \A k \in Jobs \ {j} : job'[k] = job[k]
    BY <1>1 DEF Delete, TypeOK, Job, NoJob
<1>4. TypeOK'
    BY <1>1, <1>2, <1>3 DEF TypeOK, Delete, memory
<1>5. ASSUME NEW i \in DOMAIN runs
      PROVE  /\ runs'[i].kind = runs[i].kind /\ runs'[i].job = runs[i].job
             /\ runs'[i].day = runs[i].day /\ runs'[i].key = runs[i].key
             /\ runs'[i].answer = runs[i].answer /\ runs'[i].result = runs[i].result
             /\ runs[i].job \in Jobs
             /\ runs[i].job = j => runs[i].state # "open" /\ runs'[i].state = "gone"
             /\ runs[i].job # j => runs'[i].state = runs[i].state
    BY <1>1, <1>2 DEF Run, Delete, Deletable
<1> HIDE DEF Gone
<1>6. Tables'
    <2>1. RowsTellTruth'
        BY <1>2, <1>5 DEF Inv, Tables, RowsTellTruth, Truthful
    <2>2. OnlyAfterFailure'
        BY <1>2, <1>5 DEF Inv, Tables, OnlyAfterFailure, SameOccurrence
    <2>3. KeysStartOnce'
        BY <1>2, <1>5 DEF Inv, Tables, KeysStartOnce
    <2>4. RunsFollowJobs'
        BY <1>2, <1>3, <1>5 DEF Inv, Tables, RunsFollowJobs
    <2> QED BY <2>1, <2>2, <2>3, <2>4 DEF Tables
<1>7. Holders'
    <2> USE DEF Inv, Holders, Delete, memory
    <2>1. /\ \A i : Unanswered(i, "scheduled") => Unanswered(i, "scheduled")'
          /\ \A i : Unanswered(i, "test") => Unanswered(i, "test")'
        BY <1>2, <1>5 DEF Unanswered, Tables, RunsFollowJobs
    <2>2. LoopHolds'
        BY <2>1 DEF LoopHolds
    <2>3. PendingHolds'
        BY <1>2, <1>5 DEF PendingHolds, Answered
    <2>4. TestersHold'
        BY <1>2, <1>5, <2>1 DEF TestersHold, Sends, Answered
    <2>5. RetriesHold'
        BY <1>2, <1>5 DEF RetriesHold, Answered
    <2>6. NothingWhileDown'
        BY DEF NothingWhileDown
    <2> QED BY <2>2, <2>3, <2>4, <2>5, <2>6
<1> QED BY <1>4, <1>6, <1>7 DEF Inv

LEMMA PassTimeStep ==
    ASSUME Inv, PassTime
    PROVE  Inv'
<1>1. TypeOK'
    BY DEF Inv, TypeOK, PassTime, tables, memory
<1> QED BY <1>1, JobSteps DEF PassTime, tables, memory

LEMMA CrashStep ==
    ASSUME Inv, Crash
    PROVE  Inv'
<1>1. TypeOK'
    <2>1. /\ NoJob \in Job /\ NoPending \in Pending
          /\ Idle \in LoopStates
          /\ NoRequest \in TesterStates
        BY DEF Idle, NoJob, Job, NoPending, Pending, Results, NoRequest, LoopStates, TesterStates
    <2>2. crashes' \in Nat
        BY DEF Inv, TypeOK, Crash
    <2>3. /\ listed' \in [Jobs -> Job] /\ pending' \in [Jobs -> Pending]
          /\ tester' \in [Testers -> TesterStates]
          /\ retries' = {} /\ sched' = Idle
        BY <2>1 DEF Crash, Forget
    <2> QED BY <2>1, <2>2, <2>3 DEF Inv, TypeOK, Crash, tables, LoopStates, TesterStates
<1>2. Tables'
    BY TablesFrame DEF Inv, Crash, tables
<1>3. Holders'
    BY DEF Crash, Forget, Idle, NoPending, NoRequest, Holders, LoopHolds, PendingHolds,
           TestersHold, Sends, RetriesHold, NothingWhileDown
<1> QED BY <1>1, <1>2, <1>3 DEF Inv

\* Recovery ends open runs, and nobody holds one before it.
LEMMA RestartStep ==
    ASSUME Inv, Restart
    PROVE  Inv'
<1>1. runs' \in Seq(Run) /\ Tables'
    BY InterruptTables DEF Inv, Restart
<1>2. TypeOK'
    BY <1>1 DEF Inv, TypeOK, Restart, memory
<1>3. Holders'
    BY DEF Restart, memory, Inv, Holders, LoopHolds, PendingHolds,
           TestersHold, Sends, RetriesHold, NothingWhileDown
<1> QED BY <1>1, <1>2, <1>3 DEF Inv

-----------------------------------------------------------------------------
(* The loop.                                                                 *)

LEMMA LoopTypeFrame ==
    ASSUME TypeOK, runs' \in Seq(Run), sched' \in LoopStates, job' \in [Jobs -> Job],
           listed' \in [Jobs -> Job], pending' \in [Jobs -> Pending], faults' \in Nat,
           UNCHANGED <<now, up, tester, retries, requests, crashes>>
    PROVE  TypeOK'
BY DEF TypeOK, LoopStates

LEMMA DbCounts ==
    ASSUME TypeOK, NEW o, Db(o)
    PROVE  faults' \in Nat
<1>1. faults \in Nat
    BY DEF TypeOK
<1> QED BY <1>1 DEF Db

LEMMA SchedTypes ==
    ASSUME TypeOK
    PROVE  /\ Idle \in LoopStates /\ [j \in Jobs |-> NoJob] \in [Jobs -> Job]
           /\ sched \in LoopStates
           /\ \A j : NextJob(j) \in LoopStates /\ NextJob(j).pc = "scan"
           /\ \A pc \in {"send", "complete", "mark"}, j \in Jobs, i \in Nat :
                /\ GoTo(pc, j, i) \in LoopStates
                /\ GoTo(pc, j, i).pc = pc /\ GoTo(pc, j, i).job = j /\ GoTo(pc, j, i).run = i
<1>1. sched \in LoopStates /\ Idle \in LoopStates
    BY DEF TypeOK, LoopStates, Idle
<1>2. [j \in Jobs |-> NoJob] \in [Jobs -> Job]
    BY DEF NoJob, Job
<1>3. ASSUME NEW j PROVE NextJob(j) \in LoopStates /\ NextJob(j).pc = "scan"
    BY <1>1 DEF NextJob, LoopStates, Idle
<1>4. ASSUME NEW pc \in {"send", "complete", "mark"}, NEW j \in Jobs, NEW i \in Nat
      PROVE  /\ GoTo(pc, j, i) \in LoopStates
             /\ GoTo(pc, j, i).pc = pc /\ GoTo(pc, j, i).job = j /\ GoTo(pc, j, i).run = i
    BY <1>1 DEF GoTo, LoopStates
<1> QED BY <1>1, <1>2, <1>3, <1>4

\* The loop goes on without touching rows or what it has pending.
LEMMA ScanSteps ==
    ASSUME Inv, StartTick \/ EndTick \/ SkipJob
    PROVE  Inv'
<1>1. TypeOK /\ up \in BOOLEAN /\ sched.pc \in {"idle", "scan"}
    BY DEF Inv, TypeOK, StartTick, EndTick, SkipJob, Startable
<1>2. /\ UNCHANGED <<now, job, runs, up, pending, tester, retries, requests, faults, crashes>>
      /\ sched' \in LoopStates /\ sched'.pc \in {"idle", "scan"}
      /\ listed' \in [Jobs -> Job] /\ (~up => sched'.pc = "idle")
    <2>1. CASE StartTick
        <3>1. {j \in Jobs : job[j].state = "live" /\ job[j].enabled} \subseteq Jobs
            OBVIOUS
        <3> QED BY <1>1, <2>1, <3>1 DEF StartTick, TypeOK, Idle, LoopStates, tables
    <2>2. CASE EndTick
        BY <1>1, <2>2, SchedTypes DEF EndTick, Idle, tables
    <2>3. CASE SkipJob
        BY <1>1, <2>3, SchedTypes
            DEF SkipJob, Startable, Inv, Holders, NothingWhileDown, TypeOK, tables
    <2> QED BY <2>1, <2>2, <2>3
<1>3. TypeOK'
    <2>1. /\ runs \in Seq(Run) /\ job \in [Jobs -> Job] /\ pending \in [Jobs -> Pending]
          /\ faults \in Nat
        BY <1>1 DEF TypeOK
    <2> QED BY <1>1, <1>2, <2>1, LoopTypeFrame
<1>4. Tables'
    BY <1>2, TablesFrame DEF Inv
<1>5. TestersHold' /\ RetriesHold'
    BY <1>2, KeptByUnchanged, TestFrame DEF Inv, Holders
<1>6. LoopHolds'
    BY <1>2 DEF LoopHolds
<1>7. PendingHolds'
    BY <1>2 DEF Inv, Holders, PendingHolds, Answered
<1>8. NothingWhileDown'
    BY <1>2 DEF Inv, Holders, NothingWhileDown
<1> QED BY <1>3, <1>4, <1>5, <1>6, <1>7, <1>8 DEF Inv, Holders

LEMMA ResumePendingStep ==
    ASSUME Inv, ResumePending
    PROVE  Inv'
<1>1. TypeOK /\ Current \in Jobs /\ 0 \in Nat
    BY CurrentIsLeft DEF Inv, ResumePending
<1>2. /\ sched' \in LoopStates /\ sched'.job = Current
      /\ sched'.pc = IF pending[Current].run # 0 THEN "complete" ELSE "mark"
    BY <1>1, SchedTypes DEF ResumePending
<1>3. TypeOK'
    BY <1>1, <1>2, LoopTypeFrame DEF ResumePending, TypeOK, tables
<1>4. Tables'
    BY TablesFrame DEF Inv, ResumePending, tables
<1>5. TestersHold' /\ RetriesHold'
    BY KeptByUnchanged, TestFrame DEF Inv, Holders, ResumePending, tables
<1>6. LoopHolds' /\ PendingHolds' /\ NothingWhileDown'
    BY <1>1, <1>2 DEF Inv, Holders, ResumePending, LoopHolds, PendingHolds, Answered,
                      NothingWhileDown, tables
<1> QED BY <1>3, <1>4, <1>5, <1>6 DEF Inv, Holders

\* A job that exists has no run that went with it, so Attempts sees them all.
LEMMA AttemptsOfLive ==
    ASSUME Inv, NEW j \in Jobs, job[j].state = "live", NEW d, Repeatable(j, d),
           NEW i \in DOMAIN runs, runs[i].kind = "scheduled", runs[i].job = j, runs[i].day = d
    PROVE  runs[i].state # "open" /\ runs[i].result = "failed"
<1>1. TypeOK /\ i \in Attempts(j, d)
    BY DEF Inv, Tables, RunsFollowJobs, Attempts
<1>2. Latest(j, d) \in Attempts(j, d) /\ i <= Latest(j, d)
    BY <1>1, LatestIsLast
<1>3. runs[Latest(j, d)].state = "ended" /\ runs[Latest(j, d)].result = "failed"
    BY <1>1 DEF Repeatable
<1>4. CASE i = Latest(j, d)
    BY <1>3, <1>4
<1>5. CASE i # Latest(j, d)
    <2>1. i \in Nat /\ Latest(j, d) \in Nat /\ Latest(j, d) \in DOMAIN runs
        BY <1>1, <1>2 DEF TypeOK, Attempts
    <2>2. i < Latest(j, d) /\ SameOccurrence(i, Latest(j, d))
        BY <1>2, <1>5, <2>1 DEF Attempts, SameOccurrence
    <2> QED BY <2>1, <2>2 DEF Inv, Tables, OnlyAfterFailure
<1> QED BY <1>4, <1>5

LEMMA BeginFreshStep ==
    ASSUME Inv, NEW o \in DbOutcomes, BeginFresh(o)
    PROVE  Inv'
<1> DEFINE j == Current
           row == NewRun(j, "scheduled", Day(sched.at), 0, 0)
           n == Len(runs) + 1
<1>1. /\ TypeOK /\ j \in Jobs /\ job[j].state = "live" /\ faults' \in Nat
      /\ Repeatable(j, Day(sched.at)) /\ sched.pc = "scan" /\ up = TRUE
    <2>1. TypeOK /\ faults' \in Nat
        BY DbCounts DEF Inv, BeginFresh
    <2>2. /\ sched.pc = "scan" /\ j \in Jobs /\ job[j].state = "live"
          /\ Repeatable(j, Day(sched.at))
        BY CurrentIsLeft DEF BeginFresh, Begins, Startable, Inv, TypeOK
    <2>3. up = TRUE
        BY <2>1, <2>2 DEF Inv, Holders, NothingWhileDown, TypeOK
    <2> QED BY <2>1, <2>2, <2>3
<1>2. Day(sched.at) \in Nat /\ n \in Nat /\ n # 0
    <2>1. sched.at \in Nat /\ runs \in Seq(Run)
        BY <1>1 DEF TypeOK
    <2> QED BY <2>1 DEF Day
<1>3. row \in Run
    BY <1>1, <1>2, NewRunType
<1>4. /\ row.job = j /\ row.kind = "scheduled" /\ row.state = "open" /\ row.answer = "none"
      /\ row.day = Day(sched.at)
    BY DEF NewRun
<1>5. CASE o # "refused"
    <2>1. runs' = Append(runs, row) /\ UNCHANGED <<job, pending, tester, retries, up, listed>>
        BY <1>5 DEF BeginFresh
    <2>2. sched' = IF o = "done" THEN GoTo("send", j, n) ELSE NextJob(j)
        BY DEF BeginFresh
    <2> HIDE DEF row, j, n
    <2>3. \A i \in DOMAIN runs :
            runs[i].kind = "scheduled" /\ runs[i].job = row.job /\ runs[i].day = row.day
                => runs[i].state # "open" /\ runs[i].result = "failed"
        BY <1>1, <1>4, AttemptsOfLive
    <2>4. /\ runs' \in Seq(Run) /\ n \in DOMAIN runs' /\ runs'[n] = row
          /\ Tables' /\ Kept("scheduled") /\ Kept("test")
        BY <1>1, <1>3, <1>4, <2>1, <2>3, AppendTables DEF Inv, n
    <2>5. sched' \in LoopStates
        BY <1>1, <1>2, <2>2, SchedTypes
    <2>6. TypeOK'
        <3>1. UNCHANGED <<now, requests, crashes>>
            BY DEF BeginFresh
        <3>2. job \in [Jobs -> Job] /\ listed \in [Jobs -> Job] /\ pending \in [Jobs -> Pending]
            BY <1>1 DEF TypeOK
        <3> QED BY <1>1, <2>1, <2>4, <2>5, <3>1, <3>2, LoopTypeFrame
    <2>7. TestersHold' /\ RetriesHold'
        BY <2>1, <2>4, TestFrame DEF Inv, Holders
    <2>8. PendingHolds'
        BY <2>1, <2>4 DEF Inv, Holders, PendingHolds, Kept, Answered
    <2>9. LoopHolds'
        <3>1. CASE o = "done"
            BY <1>1, <1>2, <1>4, <2>2, <2>4, <3>1, SchedTypes DEF LoopHolds, Unanswered
        <3>2. CASE o # "done"
            BY <1>1, <2>2, <3>2, SchedTypes DEF LoopHolds
        <3> QED BY <3>1, <3>2
    <2> QED BY <1>1, <2>1, <2>4, <2>6, <2>7, <2>8, <2>9, DownFrame DEF Inv, Holders
<1>6. CASE o = "refused"
    <2>1. sched' = NextJob(j) /\ UNCHANGED <<runs, job, pending, tester, retries, up, listed>>
        BY <1>6 DEF BeginFresh
    <2> HIDE DEF row, j, n
    <2>2. TypeOK'
        <3>1. UNCHANGED <<now, requests, crashes>> /\ sched' \in LoopStates
            BY <1>1, <2>1, SchedTypes DEF BeginFresh
        <3>2. /\ runs \in Seq(Run) /\ job \in [Jobs -> Job] /\ listed \in [Jobs -> Job]
              /\ pending \in [Jobs -> Pending]
            BY <1>1 DEF TypeOK
        <3> QED BY <1>1, <2>1, <3>1, <3>2, LoopTypeFrame
    <2>3. Tables' /\ TestersHold' /\ RetriesHold'
        BY <2>1, TablesFrame, KeptByUnchanged, TestFrame DEF Inv, Holders
    <2>4. LoopHolds' /\ PendingHolds'
        BY <1>1, <2>1, SchedTypes DEF Inv, Holders, LoopHolds, PendingHolds, Answered
    <2> QED BY <1>1, <2>1, <2>2, <2>3, <2>4, DownFrame DEF Inv, Holders
<1> QED BY <1>5, <1>6

LEMMA BeginStaleStep ==
    ASSUME Inv, NEW o \in DbOutcomes, BeginStale(o)
    PROVE  Inv'
<1> DEFINE j == Current
           ids == {Latest(j, Day(sched.at))}
           left == [NoPending EXCEPT !.day = Day(sched.at), !.marks = TRUE]
<1>1. /\ TypeOK /\ j \in Jobs /\ faults' \in Nat /\ sched.pc = "scan" /\ up = TRUE
      /\ ids \subseteq Attempts(j, Day(sched.at))
    <2>1. TypeOK /\ faults' \in Nat
        BY DbCounts DEF Inv, BeginStale
    <2>2. sched.pc = "scan" /\ sched.todo # {} /\ j \in Jobs
        BY CurrentIsLeft DEF BeginStale, Begins, Startable, Inv, TypeOK
    <2>3. up = TRUE
        BY <2>1, <2>2 DEF Inv, Holders, NothingWhileDown, TypeOK
    <2>4. Attempts(j, Day(sched.at)) # {}
        BY DEF BeginStale, Repeatable
    <2>5. ids \subseteq Attempts(j, Day(sched.at))
        BY <2>1, <2>4, LatestIsLast
    <2> QED BY <2>1, <2>2, <2>3, <2>5
<1>2. left \in Pending /\ left.run = 0
    <2>1. sched.at \in Nat
        BY <1>1 DEF TypeOK
    <2>2. Day(sched.at) \in Nat
        BY <2>1 DEF Day
    <2> QED BY <2>2 DEF NoPending, Pending, Results
<1>3. /\ runs' \in Seq(Run) /\ DOMAIN runs' = DOMAIN runs /\ Tables' /\ Kept("test")
      /\ \A i \in DOMAIN runs : runs'[i].kind = runs[i].kind /\ runs'[i].answer = runs[i].answer
    <2>1. CASE o = "refused"
        BY <1>1, <2>1, TablesFrame, KeptByUnchanged DEF BeginStale, Inv, TypeOK
    <2>2. CASE o # "refused"
        <3>1. runs' = InterruptOpen(ids) /\ UNCHANGED job
            BY <2>2 DEF BeginStale
        <3>2. runs' \in Seq(Run) /\ DOMAIN runs' = DOMAIN runs /\ Tables'
            BY <1>1, <3>1, InterruptTables DEF Inv
        <3>3. ASSUME NEW i \in DOMAIN runs
              PROVE  /\ runs'[i].kind = runs[i].kind /\ runs'[i].answer = runs[i].answer
                     /\ runs[i].kind = "test" => runs'[i] = runs[i]
            <4>1. InterruptOpen(ids)[i] = IF i \in ids /\ runs[i].state = "open"
                                          THEN Interrupted(runs[i]) ELSE runs[i]
                BY <1>1, InterruptOpenType
            <4>2. runs[i] \in Run /\ (i \in ids => runs[i].kind = "scheduled")
                BY <1>1 DEF TypeOK, Attempts
            <4> HIDE DEF ids
            <4> QED BY <3>1, <4>1, <4>2 DEF Interrupted, Run
        <3> QED BY <3>2, <3>3 DEF Kept
    <2> QED BY <2>1, <2>2
<1>4. /\ pending' \in [Jobs -> Pending] /\ sched' \in LoopStates
      /\ \A k \in Jobs : pending'[k] = pending[k] \/ pending'[k].run = 0
      /\ sched'.pc \in {"scan", "mark"} /\ (sched'.pc = "mark" => sched'.job \in Jobs)
    <2>1. pending \in [Jobs -> Pending]
        BY <1>1 DEF TypeOK
    <2> HIDE DEF left, j
    <2>2. CASE o = "done"
        <3>1. pending' = [pending EXCEPT ![j] = left] /\ sched' = GoTo("mark", j, 0)
            BY <2>2 DEF BeginStale, left, j
        <3> QED BY <1>1, <1>2, <2>1, <3>1, SchedTypes
    <2>3. CASE o # "done"
        <3>1. pending' = pending /\ sched' = NextJob(j)
            BY <2>3 DEF BeginStale, j
        <3> QED BY <1>1, <2>1, <3>1, SchedTypes
    <2> QED BY <2>2, <2>3
<1>5. UNCHANGED <<now, job, up, listed, tester, retries, requests, crashes>>
    BY DEF BeginStale
<1> HIDE DEF j, ids, left
<1>6. TypeOK'
    BY <1>1, <1>3, <1>4, <1>5, LoopTypeFrame DEF TypeOK
<1>7. TestersHold' /\ RetriesHold'
    BY <1>3, <1>5, TestFrame DEF Inv, Holders
<1>8. LoopHolds'
    BY <1>4 DEF LoopHolds
<1>9. PendingHolds'
    BY <1>3, <1>4 DEF Inv, Holders, PendingHolds, Answered
<1> QED BY <1>1, <1>3, <1>5, <1>6, <1>7, <1>8, <1>9, DownFrame DEF Inv, Holders

\* A message is handed over, or its answer learnt: the run is open and stays so.
LEMMA UnansweredRowTables ==
    ASSUME TypeOK, Tables, NEW i \in DOMAIN runs, runs[i].state = "open",
           runs' \in Seq(Run), DOMAIN runs' = DOMAIN runs,
           /\ runs'[i].state = "open" /\ runs'[i].kind = runs[i].kind
           /\ runs'[i].job = runs[i].job /\ runs'[i].day = runs[i].day
           /\ runs'[i].key = runs[i].key,
           \A k \in DOMAIN runs \ {i} : runs'[k] = runs[k],
           UNCHANGED job
    PROVE  Tables'
<1>1. RowsTellTruth'
    BY DEF Tables, RowsTellTruth
<1>2. OnlyAfterFailure'
    <2> SUFFICES ASSUME NEW m \in DOMAIN runs, NEW k \in DOMAIN runs, m < k,
                        SameOccurrence(m, k)'
                 PROVE  runs'[m].state # "open" /\ runs'[m].result = "failed"
        BY DEF OnlyAfterFailure
    <2>1. SameOccurrence(m, k)
        BY DEF SameOccurrence
    <2>2. runs[m].state # "open" /\ runs[m].result = "failed"
        BY <2>1 DEF Tables, OnlyAfterFailure
    <2> QED BY <2>2
<1>3. KeysStartOnce'
    BY DEF Tables, KeysStartOnce
<1>4. RunsFollowJobs'
    BY DEF Tables, RunsFollowJobs
<1> QED BY <1>1, <1>2, <1>3, <1>4 DEF Tables

LEMMA HandOver ==
    ASSUME TypeOK, Tables, NEW i \in DOMAIN runs, runs[i].state = "open",
           NEW reached \in BOOLEAN, UNCHANGED job,
           runs' = [runs EXCEPT ![i].sent = TRUE, ![i].delivered = reached]
    PROVE  /\ runs' \in Seq(Run) /\ DOMAIN runs' = DOMAIN runs /\ Tables'
           /\ runs'[i].state = "open" /\ runs'[i].kind = runs[i].kind
           /\ runs'[i].answer = runs[i].answer
           /\ \A k \in DOMAIN runs \ {i} : runs'[k] = runs[k]
           /\ \A kind \in {"scheduled", "test"} : Kept(kind)
<1>1. runs \in Seq(Run) /\ runs[i] \in Run /\ runs' \in Seq(Run)
    <2>1. [runs EXCEPT ![i].sent = TRUE, ![i].delivered = reached] \in Seq(Run)
        <3>1. "unknown" \in Answers
            BY DEF Answers
        <3> QED BY <3>1, RowUpdateType
    <2> QED BY <2>1 DEF TypeOK
<1>2. /\ DOMAIN runs' = DOMAIN runs /\ \A k \in DOMAIN runs \ {i} : runs'[k] = runs[k]
      /\ runs'[i] = [runs[i] EXCEPT !.sent = TRUE, !.delivered = reached]
    BY <1>1 DEF Run
<1>3. /\ runs'[i].state = "open" /\ runs'[i].kind = runs[i].kind
      /\ runs'[i].job = runs[i].job /\ runs'[i].day = runs[i].day
      /\ runs'[i].key = runs[i].key /\ runs'[i].answer = runs[i].answer
    BY <1>1, <1>2 DEF Run
<1>4. Tables'
    BY <1>1, <1>2, <1>3, UnansweredRowTables
<1> QED BY <1>1, <1>2, <1>3, <1>4 DEF Kept

LEMMA Learn ==
    ASSUME TypeOK, Tables, NEW i \in DOMAIN runs, runs[i].state = "open",
           NEW answer \in Answers, UNCHANGED job, runs' = [runs EXCEPT ![i].answer = answer]
    PROVE  /\ runs' \in Seq(Run) /\ DOMAIN runs' = DOMAIN runs /\ Tables'
           /\ runs'[i].state = "open" /\ runs'[i].kind = runs[i].kind
           /\ runs'[i].answer = answer
           /\ \A k \in DOMAIN runs \ {i} : runs'[k] = runs[k]
           /\ \A kind \in {"scheduled", "test"} : kind # runs[i].kind => Kept(kind)
<1>1. runs \in Seq(Run) /\ runs[i] \in Run /\ runs' \in Seq(Run)
    <2>1. [runs EXCEPT ![i].answer = answer] \in Seq(Run)
        <3>1. TRUE \in BOOLEAN
            OBVIOUS
        <3> QED BY <3>1, RowUpdateType
    <2> QED BY <2>1 DEF TypeOK
<1>2. /\ DOMAIN runs' = DOMAIN runs /\ \A k \in DOMAIN runs \ {i} : runs'[k] = runs[k]
      /\ runs'[i] = [runs[i] EXCEPT !.answer = answer]
    BY <1>1 DEF Run
<1>3. /\ runs'[i].state = "open" /\ runs'[i].kind = runs[i].kind
      /\ runs'[i].job = runs[i].job /\ runs'[i].day = runs[i].day
      /\ runs'[i].key = runs[i].key /\ runs'[i].answer = answer
    BY <1>1, <1>2 DEF Run
<1>4. Tables'
    BY <1>1, <1>2, <1>3, UnansweredRowTables
<1> QED BY <1>1, <1>2, <1>3, <1>4 DEF Kept

LEMMA SendStep ==
    ASSUME Inv, Send
    PROVE  Inv'
<1> DEFINE i == sched.run
<1>1. /\ TypeOK /\ Tables /\ Unanswered(i, "scheduled") /\ sched.job \in Jobs /\ up = TRUE
      /\ sched \in LoopStates
    BY SchedTypes DEF Inv, Send, Holders, LoopHolds, NothingWhileDown, TypeOK
<1>2. PICK reached \in BOOLEAN :
            runs' = [runs EXCEPT ![i].sent = TRUE, ![i].delivered = reached]
    BY DEF Send
<1>3. UNCHANGED <<now, job, up, listed, pending, tester, retries, requests, faults, crashes>>
    BY DEF Send
<1> HIDE DEF i
<1>4. /\ runs' \in Seq(Run) /\ DOMAIN runs' = DOMAIN runs /\ Tables'
      /\ runs'[i].state = "open" /\ runs'[i].kind = runs[i].kind
      /\ runs'[i].answer = runs[i].answer /\ Kept("scheduled") /\ Kept("test")
    BY <1>1, <1>2, <1>3, HandOver DEF Unanswered
<1>5. /\ sched' \in LoopStates /\ sched'.pc = "sending" /\ sched'.run = i
      /\ sched'.job = sched.job
    BY <1>1 DEF Send, LoopStates, i
<1>6. TypeOK'
    BY <1>1, <1>3, <1>4, <1>5, LoopTypeFrame DEF TypeOK
<1>7. TestersHold' /\ RetriesHold'
    BY <1>3, <1>4, TestFrame DEF Inv, Holders
<1>8. LoopHolds'
    BY <1>1, <1>4, <1>5 DEF LoopHolds, Unanswered
<1>9. PendingHolds'
    BY <1>3, <1>4 DEF Inv, Holders, PendingHolds, Kept, Answered
<1> QED BY <1>1, <1>3, <1>4, <1>6, <1>7, <1>8, <1>9, DownFrame DEF Inv, Holders

LEMMA AnswerStep ==
    ASSUME Inv, NEW answer \in Answers, Answer(answer)
    PROVE  Inv'
<1> DEFINE i == sched.run
           j == sched.job
           p == [day |-> Day(sched.at), run |-> i, result |-> ScheduledResult(answer),
                 marks |-> Marks(ScheduledResult(answer))]
<1>1. /\ TypeOK /\ Tables /\ Unanswered(i, "scheduled") /\ j \in Jobs /\ up = TRUE
      /\ sched.at \in Nat /\ i \in Nat
    BY DEF Inv, Answer, Holders, LoopHolds, NothingWhileDown, TypeOK
<1>2. /\ runs' = [runs EXCEPT ![i].answer = answer] /\ pending' = [pending EXCEPT ![j] = p]
      /\ sched' = GoTo("complete", j, 0)
      /\ UNCHANGED <<now, job, up, listed, tester, retries, requests, faults, crashes>>
    BY DEF Answer
<1>3. p \in Pending /\ p.run = i /\ p.result = ScheduledResult(answer)
    <2>1. Day(sched.at) \in Nat
        BY <1>1 DEF Day
    <2> QED BY <1>1, <2>1, Outcomes DEF Pending, Results, Marks
<1>4. i # 0 /\ answer # "none"
    BY <1>1 DEF Unanswered, TypeOK, Answers
<1> HIDE DEF i, j, p
<1>5. /\ runs' \in Seq(Run) /\ DOMAIN runs' = DOMAIN runs /\ Tables'
      /\ runs'[i].kind = "scheduled" /\ runs'[i].answer = answer
      /\ \A k \in DOMAIN runs \ {i} : runs'[k] = runs[k]
      /\ Kept("test")
    BY <1>1, <1>2, Learn DEF Unanswered
<1>6. TypeOK'
    BY <1>1, <1>2, <1>3, <1>5, SchedTypes, LoopTypeFrame DEF TypeOK
<1>7. TestersHold' /\ RetriesHold'
    BY <1>2, <1>5, TestFrame DEF Inv, Holders
<1>8. LoopHolds'
    <2>1. sched'.pc = "complete" /\ sched'.job = j
        BY <1>1, <1>2, SchedTypes
    <2>2. pending'[j].run = i
        BY <1>1, <1>2, <1>3 DEF TypeOK
    <2> QED BY <1>1, <1>4, <2>1, <2>2 DEF LoopHolds
<1>9. PendingHolds'
    <2> SUFFICES ASSUME NEW k \in Jobs, pending'[k].run # 0
                 PROVE  /\ Answered(pending[k].run, "scheduled")'
                        /\ pending'[k].result = ScheduledResult(runs'[pending'[k].run].answer)
        BY DEF PendingHolds
    <2>1. CASE k = j
        BY <1>1, <1>2, <1>3, <1>4, <1>5, <2>1 DEF TypeOK, Answered, Unanswered
    <2>2. CASE k # j
        <3>1. pending'[k] = pending[k]
            BY <1>1, <1>2, <2>2 DEF TypeOK
        <3>2. /\ Answered(pending[k].run, "scheduled")
              /\ pending[k].result = ScheduledResult(runs[pending[k].run].answer)
            BY <3>1 DEF Inv, Holders, PendingHolds
        <3>3. pending[k].run # i
            BY <1>1, <3>2 DEF Answered, Unanswered
        <3> QED BY <1>5, <3>1, <3>2, <3>3 DEF Answered
    <2> QED BY <2>1, <2>2
<1> QED BY <1>1, <1>2, <1>5, <1>6, <1>7, <1>8, <1>9, DownFrame DEF Inv, Holders

LEMMA CompleteStep ==
    ASSUME Inv, NEW o \in DbOutcomes, Complete(o)
    PROVE  Inv'
<1> DEFINE j == sched.job
           i == pending[j].run
           result == pending[j].result
<1>1. /\ TypeOK /\ Tables /\ j \in Jobs /\ i # 0 /\ up = TRUE /\ faults' \in Nat
      /\ pending \in [Jobs -> Pending] /\ pending[j] \in Pending
    BY DbCounts DEF Inv, Complete, Holders, LoopHolds, NothingWhileDown, TypeOK
<1>2. /\ Answered(i, "scheduled") /\ result = ScheduledResult(runs[i].answer)
      /\ result \in Results
    BY <1>1 DEF Inv, Holders, PendingHolds, Pending
<1>3. runs[i].answer \in Answers
    <2>1. runs[i] \in Run
        BY <1>1, <1>2 DEF TypeOK, Answered
    <2> QED BY <1>2, <2>1 DEF Run, Answered
<1>4. UNCHANGED <<now, job, up, listed, tester, retries, requests, crashes>>
    BY DEF Complete
<1>5. /\ pending' \in [Jobs -> Pending]
      /\ \A k \in Jobs : pending'[k] = pending[k] \/ pending'[k].run = 0
      /\ sched' \in LoopStates
      /\ sched'.pc \in {"scan", "mark"} /\ (sched'.pc = "mark" => sched'.job \in Jobs)
    <2>1. \/ sched' = GoTo("mark", j, 0)
          \/ sched' = NextJob(j)
        BY DEF Complete
    <2>2. \/ pending' = [pending EXCEPT ![j].run = 0]
          \/ pending' = [pending EXCEPT ![j] = NoPending]
          \/ pending' = pending
        BY DEF Complete
    <2>3. NoPending \in Pending /\ NoPending.run = 0
        BY DEF NoPending, Pending, Results
    <2>4. [pending[j] EXCEPT !.run = 0] \in Pending
        BY <1>1 DEF Pending
    <2>5. [pending EXCEPT ![j].run = 0] = [pending EXCEPT ![j] = [pending[j] EXCEPT !.run = 0]]
        BY <1>1 DEF Pending
    <2>6. [pending[j] EXCEPT !.run = 0].run = 0
        BY <1>1 DEF Pending
    <2> HIDE DEF j
    <2>7. sched' \in LoopStates /\ sched'.pc \in {"scan", "mark"}
          /\ (sched'.pc = "mark" => sched'.job \in Jobs)
        BY <1>1, <2>1, SchedTypes
    <2>8. /\ pending' \in [Jobs -> Pending]
          /\ \A k \in Jobs : pending'[k] = pending[k] \/ pending'[k].run = 0
        BY <1>1, <2>2, <2>3, <2>4, <2>5, <2>6
    <2> QED BY <2>7, <2>8
<1>6. /\ runs' \in Seq(Run) /\ Tables' /\ Kept("scheduled") /\ Kept("test")
    <2>1. CASE o = "refused"
        BY <1>1, <1>4, <2>1, TablesFrame, KeptByUnchanged DEF Complete, TypeOK
    <2>2. CASE o # "refused"
        <3>1. runs' = IF Accepts(i, result) THEN StoreResult(i, result) ELSE runs
            BY <2>2 DEF Complete
        <3> HIDE DEF i, result
        <3> QED BY <1>1, <1>2, <1>3, <1>4, <3>1, StoreTables DEF Answered
    <2> QED BY <2>1, <2>2
<1> HIDE DEF i, j, result
<1>7. TypeOK'
    BY <1>1, <1>4, <1>5, <1>6, LoopTypeFrame DEF TypeOK
<1>8. TestersHold' /\ RetriesHold'
    BY <1>4, <1>6, TestFrame DEF Inv, Holders
<1>9. LoopHolds'
    BY <1>5 DEF LoopHolds
<1>10. PendingHolds'
    BY <1>5, <1>6 DEF Inv, Holders, PendingHolds, Kept, Answered
<1> QED BY <1>1, <1>4, <1>6, <1>7, <1>8, <1>9, <1>10, DownFrame DEF Inv, Holders

LEMMA MarkStep ==
    ASSUME Inv, NEW o \in DbOutcomes, Mark(o)
    PROVE  Inv'
<1> DEFINE j == sched.job
<1>1. /\ TypeOK /\ j \in Jobs /\ up = TRUE /\ faults' \in Nat
      /\ pending \in [Jobs -> Pending] /\ pending[j] \in Pending
      /\ job \in [Jobs -> Job] /\ job[j] \in Job /\ runs \in Seq(Run)
    BY DbCounts DEF Inv, Mark, Holders, LoopHolds, NothingWhileDown, TypeOK
<1>2. /\ UNCHANGED <<now, runs, up, listed, tester, retries, requests, crashes>>
      /\ sched' = NextJob(j)
    BY DEF Mark
<1>3. /\ job' \in [Jobs -> Job] /\ \A k \in Jobs : job'[k].state = job[k].state
    <2>1. CASE job' = job
        BY <1>1, <2>1
    <2>2. CASE job' # job
        <3> DEFINE row == [job[j] EXCEPT !.marked = pending[j].day,
                                         !.enabled = @ /\ ~listed[j].once]
        <3>1. job' = [job EXCEPT ![j] = row]
            BY <1>1, <2>2 DEF Mark, Job
        <3>2. pending[j].day \in Nat /\ (job[j].enabled /\ ~listed[j].once) \in BOOLEAN
            BY <1>1 DEF Pending, Job
        <3>3. row \in Job /\ row.state = job[j].state
            BY <1>1, <3>2 DEF Job
        <3> HIDE DEF row
        <3> QED BY <1>1, <3>1, <3>3
    <2> QED BY <2>1, <2>2
<1>4. /\ pending' \in [Jobs -> Pending]
      /\ \A k \in Jobs : pending'[k] = pending[k] \/ pending'[k].run = 0
    <2>1. NoPending \in Pending /\ NoPending.run = 0
        BY DEF NoPending, Pending, Results
    <2> QED BY <1>1, <2>1 DEF Mark
<1> HIDE DEF j
<1>5. sched' \in LoopStates /\ sched'.pc = "scan"
    BY <1>1, <1>2, SchedTypes
<1>6. TypeOK'
    BY <1>1, <1>2, <1>3, <1>4, <1>5, LoopTypeFrame DEF TypeOK
<1>7. Tables'
    <2>1. ASSUME NEW i \in DOMAIN runs PROVE runs[i].job \in Jobs
        <3>1. runs[i] \in Run
            BY <1>1
        <3> QED BY <3>1 DEF Run
    <2> QED BY <1>2, <1>3, <2>1, TablesFrame DEF Inv
<1>8. TestersHold' /\ RetriesHold'
    BY <1>2, KeptByUnchanged, TestFrame DEF Inv, Holders
<1>9. LoopHolds'
    BY <1>5 DEF LoopHolds
<1>10. PendingHolds'
    BY <1>2, <1>4 DEF Inv, Holders, PendingHolds, Answered
<1> QED BY <1>1, <1>2, <1>6, <1>7, <1>8, <1>9, <1>10, DownFrame DEF Inv, Holders

-----------------------------------------------------------------------------
(* Test sends.                                                               *)

LEMMA TestTypeFrame ==
    ASSUME TypeOK, runs' \in Seq(Run), tester' \in [Testers -> TesterStates],
           retries' \subseteq [run: Nat, result: Results], requests' \in Nat, faults' \in Nat,
           UNCHANGED <<now, job, up, sched, listed, pending, crashes>>
    PROVE  TypeOK'
BY DEF TypeOK, TesterStates

\* The loop's part of the invariant after a step of a test send.
LEMMA TestKeepsLoop ==
    ASSUME Holders, Kept("scheduled"), UNCHANGED <<up, sched, pending>>, up = TRUE
    PROVE  LoopHolds' /\ PendingHolds' /\ NothingWhileDown'
BY LoopFrame, DownFrame DEF Holders

LEMMA BeginTestStep ==
    ASSUME Inv, NEW h \in Testers, NEW j \in Jobs, NEW k \in Keys, NEW o \in DbOutcomes,
           BeginTest(h, j, k, o)
    PROVE  Inv'
<1> DEFINE q == requests + 1
           n == Len(runs) + 1
           reply == IF o = "done" THEN BeginReply(j, k, q) ELSE "error"
           fresh == BeginReply(j, k, q) = "fresh"
           row == NewRun(j, "test", 0, k, q)
           state == [pc |-> IF reply = "fresh" THEN "send" ELSE "idle", job |-> j, key |-> k,
                     run |-> IF reply = "fresh" THEN n ELSE 0, request |-> q, reply |-> reply]
<1>1. /\ TypeOK /\ Tables /\ up = TRUE /\ faults' \in Nat /\ q \in Nat /\ n \in Nat
      /\ tester \in [Testers -> TesterStates] /\ runs \in Seq(Run)
      /\ requests' = q /\ tester' = [tester EXCEPT ![h] = state]
      /\ UNCHANGED <<now, job, up, sched, listed, pending, retries, crashes>>
    <2>1. TypeOK /\ Tables /\ up = TRUE /\ faults' \in Nat
        BY DbCounts DEF Inv, BeginTest, TypeOK
    <2>2. requests \in Nat /\ runs \in Seq(Run) /\ tester \in [Testers -> TesterStates]
        BY <2>1 DEF TypeOK, TesterStates
    <2> QED BY <2>1, <2>2 DEF BeginTest
<1>2. BeginReply(j, k, q) \in {"fresh", "replayed", "conflict", "key_conflict", "missing"}
    BY DEF BeginReply
<1>3. state \in TesterStates /\ (state.pc = "send" => o = "done" /\ fresh /\ state.run = n)
      /\ state.pc \in {"idle", "send"}
    BY <1>1, <1>2 DEF TesterStates
<1>4. row \in Run /\ row.kind = "test" /\ row.job = j /\ row.key = k
      /\ row.state = "open" /\ row.answer = "none"
    <2>1. row \in Run
        BY <1>1, NewRunType
    <2> QED BY <2>1 DEF NewRun
<1>5. fresh => /\ job[j].state = "live"
               /\ \A i \in DOMAIN runs :
                    ~(runs[i].kind = "test" /\ runs[i].job = j /\ runs[i].key = k)
    BY <1>1 DEF BeginReply, EarlierTests, Tables, RunsFollowJobs
<1>6. runs' = IF o # "refused" /\ fresh THEN Append(runs, row) ELSE runs
    BY DEF BeginTest
<1> HIDE DEF state, row, fresh, q, n, reply
<1>7. /\ runs' \in Seq(Run) /\ Tables' /\ Kept("test") /\ Kept("scheduled")
      /\ o # "refused" /\ fresh => n \in DOMAIN runs' /\ n \notin DOMAIN runs /\ runs'[n] = row
    <2>1. CASE o # "refused" /\ fresh
        <3>1. runs' = Append(runs, row)
            BY <1>6, <2>1
        <3>2. n \notin DOMAIN runs
            BY <1>1 DEF n
        <3> QED BY <1>1, <1>4, <1>5, <2>1, <3>1, <3>2, AppendTables DEF n
    <2>2. CASE ~(o # "refused" /\ fresh)
        BY <1>1, <1>6, <2>2, TablesFrame, KeptByUnchanged
    <2> QED BY <2>1, <2>2
<1>8. TypeOK'
    <2>1. retries \subseteq [run: Nat, result: Results]
        BY <1>1 DEF TypeOK
    <2>2. tester' \in [Testers -> TesterStates]
        BY <1>1, <1>3
    <2> QED BY <1>1, <1>7, <2>1, <2>2, TestTypeFrame
<1>9. LoopHolds' /\ PendingHolds' /\ NothingWhileDown'
    BY <1>1, <1>7, TestKeepsLoop DEF Inv
<1>10. RetriesHold'
    BY <1>1, <1>7 DEF Inv, Holders, RetriesHold, Kept, Answered
<1>11. TestersHold'
    <2>1. tester'[h] = state /\ \A g \in Testers \ {h} : tester'[g] = tester[g]
        BY <1>1
    <2>2. ASSUME NEW g \in Testers \ {h}
          PROVE  /\ Sends(g)' => Sends(g) /\ Unanswered(tester[g].run, "test")'
                 /\ tester'[g].pc = "complete" => Answered(tester[g].run, "test")'
        BY <1>7, <2>1 DEF Inv, Holders, TestersHold, Sends, Unanswered, Answered, Kept
    <2>3. Sends(h)' => /\ state.run = n /\ n \in DOMAIN runs' /\ n \notin DOMAIN runs
                       /\ runs'[n].kind = "test" /\ runs'[n].state = "open"
                       /\ runs'[n].answer = "none"
        BY <1>3, <1>4, <1>7, <2>1 DEF Sends
    <2>4. ASSUME NEW g \in Testers \ {h}, Sends(g)'
          PROVE  tester[g].run \in DOMAIN runs
        BY <2>2, <2>4 DEF Inv, Holders, TestersHold, Unanswered
    <2>5. ASSUME NEW g \in Testers, NEW f \in Testers, Sends(g)', Sends(f)',
                 tester'[g].run = tester'[f].run
          PROVE  g = f
        <3>1. CASE g # h /\ f # h
            BY <2>1, <2>2, <2>5, <3>1 DEF Inv, Holders, TestersHold
        <3>2. CASE g = h /\ f # h
            BY <2>1, <2>3, <2>4, <2>5, <3>2
        <3>3. CASE g # h /\ f = h
            BY <2>1, <2>3, <2>4, <2>5, <3>3
        <3> QED BY <3>1, <3>2, <3>3
    <2>6. /\ Sends(h)' => Unanswered(tester[h].run, "test")'
          /\ tester'[h].pc # "complete"
        BY <1>3, <2>1, <2>3 DEF Unanswered
    <2> QED BY <2>2, <2>5, <2>6 DEF TestersHold
<1> QED BY <1>7, <1>8, <1>9, <1>10, <1>11 DEF Inv, Holders

LEMMA SendTestStep ==
    ASSUME Inv, NEW h \in Testers, SendTest(h)
    PROVE  Inv'
<1> DEFINE i == tester[h].run
<1>1. /\ TypeOK /\ Tables /\ Unanswered(i, "test") /\ up = TRUE
      /\ tester \in [Testers -> TesterStates] /\ tester[h] \in TesterStates
    BY DEF Inv, SendTest, Holders, TestersHold, Sends, NothingWhileDown, TypeOK, TesterStates
<1>2. PICK reached \in BOOLEAN :
            runs' = [runs EXCEPT ![i].sent = TRUE, ![i].delivered = reached]
    BY DEF SendTest
<1>3. /\ UNCHANGED <<now, job, up, sched, listed, pending, retries, requests, faults, crashes>>
      /\ tester' = [tester EXCEPT ![h] = [tester[h] EXCEPT !.pc = "sending"]]
    BY <1>1 DEF SendTest, TesterStates
<1>4. /\ tester' \in [Testers -> TesterStates] /\ tester'[h].pc = "sending"
      /\ tester'[h].run = i /\ \A g \in Testers \ {h} : tester'[g] = tester[g]
    <2>1. /\ [tester[h] EXCEPT !.pc = "sending"] \in TesterStates
          /\ [tester[h] EXCEPT !.pc = "sending"].pc = "sending"
          /\ [tester[h] EXCEPT !.pc = "sending"].run = i
        BY <1>1 DEF TesterStates
    <2> QED BY <1>1, <1>3, <2>1
<1> HIDE DEF i
<1>5. /\ runs' \in Seq(Run) /\ DOMAIN runs' = DOMAIN runs /\ Tables'
      /\ Kept("scheduled") /\ Kept("test")
    BY <1>1, <1>2, <1>3, HandOver DEF Unanswered
<1>6. TypeOK'
    BY <1>1, <1>3, <1>4, <1>5, TestTypeFrame DEF TypeOK
<1>7. LoopHolds' /\ PendingHolds' /\ NothingWhileDown'
    BY <1>1, <1>3, <1>5, TestKeepsLoop DEF Inv
<1>8. RetriesHold'
    BY <1>3, <1>5 DEF Inv, Holders, RetriesHold, Kept, Answered
<1>9. TestersHold'
    <2>1. \A g \in Testers : /\ tester'[g].run = tester[g].run
                             /\ Sends(g)' <=> Sends(g)
                             /\ tester'[g].pc = "complete" <=> tester[g].pc = "complete"
        BY <1>4 DEF SendTest, Sends, i
    <2> QED BY <1>5, <2>1 DEF Inv, Holders, TestersHold, Kept, Unanswered, Answered
<1> QED BY <1>5, <1>6, <1>7, <1>8, <1>9 DEF Inv, Holders

\* The answer ends the sending: no other handler is about to send the run.
LEMMA AnswerTestStep ==
    ASSUME Inv, NEW h \in Testers, NEW answer \in Answers, AnswerTest(h, answer)
    PROVE  Inv'
<1> DEFINE i == tester[h].run
<1>1. /\ TypeOK /\ Tables /\ Unanswered(i, "test") /\ up = TRUE
      /\ tester \in [Testers -> TesterStates] /\ tester[h] \in TesterStates
      /\ Sends(h) /\ answer # "none"
    BY DEF Inv, AnswerTest, Holders, TestersHold, Sends, NothingWhileDown, TypeOK, TesterStates,
           Answers
<1>2. /\ UNCHANGED <<now, job, up, sched, listed, pending, retries, requests, faults, crashes>>
      /\ tester' = [tester EXCEPT ![h] = [tester[h] EXCEPT !.pc = "complete"]]
      /\ runs' = [runs EXCEPT ![i].answer = answer]
    BY <1>1 DEF AnswerTest, TesterStates
<1>3. /\ tester' \in [Testers -> TesterStates] /\ tester'[h].pc = "complete"
      /\ tester'[h].run = i /\ \A g \in Testers \ {h} : tester'[g] = tester[g]
    <2>1. /\ [tester[h] EXCEPT !.pc = "complete"] \in TesterStates
          /\ [tester[h] EXCEPT !.pc = "complete"].pc = "complete"
          /\ [tester[h] EXCEPT !.pc = "complete"].run = i
        BY <1>1 DEF TesterStates
    <2> QED BY <1>1, <1>2, <2>1
<1>4. ASSUME NEW g \in Testers \ {h}, Sends(g) PROVE tester[g].run # i
    BY <1>1, <1>4 DEF Inv, Holders, TestersHold
<1> HIDE DEF i
<1>5. /\ runs' \in Seq(Run) /\ DOMAIN runs' = DOMAIN runs /\ Tables'
      /\ runs'[i].kind = "test" /\ runs'[i].answer = answer /\ Kept("scheduled")
      /\ \A k \in DOMAIN runs \ {i} : runs'[k] = runs[k]
    BY <1>1, <1>2, Learn DEF Unanswered
<1>6. TypeOK'
    BY <1>1, <1>2, <1>3, <1>5, TestTypeFrame DEF TypeOK
<1>7. LoopHolds' /\ PendingHolds' /\ NothingWhileDown'
    BY <1>1, <1>2, <1>5, TestKeepsLoop DEF Inv
<1>8. RetriesHold'
    <2> SUFFICES ASSUME NEW c \in retries
                 PROVE  /\ Answered(c.run, "test")'
                        /\ c.result = TestResult(runs'[c.run].answer)
        BY <1>2 DEF RetriesHold
    <2>1. Answered(c.run, "test") /\ c.result = TestResult(runs[c.run].answer)
        BY DEF Inv, Holders, RetriesHold
    <2>2. c.run # i
        BY <1>1, <2>1 DEF Answered, Unanswered
    <2> QED BY <1>5, <2>1, <2>2 DEF Answered
<1>9. TestersHold'
    <2>1. ASSUME NEW g \in Testers \ {h}
          PROVE  /\ Sends(g)' => Sends(g) /\ Unanswered(tester[g].run, "test")'
                 /\ tester'[g].pc = "complete" => Answered(tester[g].run, "test")'
        <3>1. tester'[g] = tester[g]
            BY <1>3
        <3>2. Sends(g)' <=> Sends(g)
            BY <3>1 DEF Sends
        <3>3. Sends(g) => Unanswered(tester[g].run, "test") /\ tester[g].run # i
            BY <1>4 DEF Inv, Holders, TestersHold
        <3>4. tester[g].pc = "complete" =>
                Answered(tester[g].run, "test") /\ tester[g].run # i
            BY <1>1 DEF Inv, Holders, TestersHold, Answered, Unanswered
        <3> QED BY <1>5, <3>1, <3>2, <3>3, <3>4 DEF Answered, Unanswered
    <2>2. ~Sends(h)' /\ Answered(tester[h].run, "test")'
        BY <1>1, <1>3, <1>5 DEF Sends, Answered, Unanswered
    <2>3. ASSUME NEW g \in Testers, NEW f \in Testers, Sends(g)', Sends(f)',
                 tester'[g].run = tester'[f].run
          PROVE  g = f
        BY <1>3, <2>1, <2>2, <2>3 DEF Inv, Holders, TestersHold
    <2> QED BY <2>1, <2>2, <2>3 DEF TestersHold
<1> QED BY <1>5, <1>6, <1>7, <1>8, <1>9 DEF Inv, Holders

LEMMA StoreTestResult ==
    ASSUME TypeOK, NEW i, Answered(i, "test")
    PROVE  /\ i \in DOMAIN runs /\ i \in Nat /\ runs[i].answer \in Answers
           /\ TestResult(runs[i].answer) \in Results
<1>1. i \in DOMAIN runs /\ i \in Nat /\ runs[i] \in Run /\ runs[i].answer # "none"
    BY DEF TypeOK, Answered
<1>2. runs[i].answer \in Answers
    BY <1>1 DEF Run
<1> QED BY <1>1, <1>2, Outcomes DEF Results

\* What a completion of a test send, first or repeated, does to the rows.
LEMMA StoreTest ==
    ASSUME TypeOK, Tables, NEW i, Answered(i, "test"), UNCHANGED job,
           NEW taken \in BOOLEAN, taken => Accepts(i, TestResult(runs[i].answer)),
           runs' = IF taken THEN StoreResult(i, TestResult(runs[i].answer)) ELSE runs
    PROVE  /\ TestResult(runs[i].answer) \in Results /\ i \in Nat
           /\ runs' \in Seq(Run) /\ Tables' /\ Kept("scheduled") /\ Kept("test")
<1>1. /\ i \in DOMAIN runs /\ i \in Nat /\ runs[i].answer \in Answers
      /\ TestResult(runs[i].answer) \in Results
    BY StoreTestResult
<1>2. CASE taken
    <2>1. runs' = IF Accepts(i, TestResult(runs[i].answer))
                  THEN StoreResult(i, TestResult(runs[i].answer)) ELSE runs
        BY <1>2
    <2> QED BY <1>1, <2>1, StoreTables
<1>3. CASE ~taken
    BY <1>1, <1>3, TablesFrame, KeptByUnchanged DEF TypeOK
<1> QED BY <1>2, <1>3

LEMMA CompleteTestStep ==
    ASSUME Inv, NEW h \in Testers, NEW o \in DbOutcomes, CompleteTest(h, o)
    PROVE  Inv'
<1> DEFINE i == tester[h].run
           result == TestResult(runs[i].answer)
           taken == o # "refused" /\ Accepts(i, result)
           idle == [NoRequest EXCEPT !.reply = tester[h].reply]
<1>1. /\ TypeOK /\ Tables /\ Answered(i, "test") /\ up = TRUE /\ faults' \in Nat
      /\ tester \in [Testers -> TesterStates] /\ tester[h] \in TesterStates
      /\ retries \subseteq [run: Nat, result: Results]
    BY DbCounts DEF Inv, CompleteTest, Holders, TestersHold, NothingWhileDown, TypeOK, TesterStates
<1>2. /\ UNCHANGED <<now, job, up, sched, listed, pending, requests, crashes>>
      /\ runs' = IF taken THEN StoreResult(i, result) ELSE runs
      /\ retries' \subseteq retries \cup {[run |-> i, result |-> result]}
      /\ tester' = [tester EXCEPT ![h] = idle]
    BY DEF CompleteTest
<1>3. idle \in TesterStates /\ idle.pc = "idle"
    BY <1>1 DEF TesterStates, NoRequest
<1>4. /\ result \in Results /\ i \in Nat /\ runs' \in Seq(Run) /\ Tables'
      /\ Kept("scheduled") /\ Kept("test")
    <2>1. taken \in BOOLEAN /\ (taken => Accepts(i, result))
        BY DEF Accepts
    <2> HIDE DEF i, taken
    <2> QED BY <1>1, <1>2, <2>1, StoreTest
<1> HIDE DEF idle, taken
<1>5. TypeOK'
    <2>1. retries' \subseteq [run: Nat, result: Results]
        BY <1>1, <1>2, <1>4
    <2>2. tester' \in [Testers -> TesterStates]
        BY <1>1, <1>2, <1>3
    <2>3. requests' \in Nat
        BY <1>1, <1>2 DEF TypeOK
    <2> QED BY <1>1, <1>2, <1>4, <2>1, <2>2, <2>3, TestTypeFrame
<1>6. LoopHolds' /\ PendingHolds' /\ NothingWhileDown'
    BY <1>1, <1>2, <1>4, TestKeepsLoop DEF Inv
<1>7. RetriesHold'
    <2> SUFFICES ASSUME NEW c \in retries'
                 PROVE  /\ c.run \in DOMAIN runs' /\ runs'[c.run].kind = "test"
                        /\ runs'[c.run].answer # "none"
                        /\ c.result = TestResult(runs'[c.run].answer)
        BY DEF RetriesHold, Answered
    <2>1. Answered(c.run, "test") /\ c.result = TestResult(runs[c.run].answer)
        BY <1>1, <1>2 DEF Inv, Holders, RetriesHold
    <2> QED BY <1>4, <2>1 DEF Kept, Answered
<1>8. TestersHold'
    <2>1. tester'[h].pc = "idle" /\ \A g \in Testers \ {h} : tester'[g] = tester[g]
        BY <1>1, <1>2, <1>3
    <2> QED BY <1>4, <2>1 DEF Inv, Holders, TestersHold, Sends, Kept, Unanswered, Answered
<1> QED BY <1>4, <1>5, <1>6, <1>7, <1>8 DEF Inv, Holders

LEMMA RetryTestStep ==
    ASSUME Inv, NEW c \in retries, NEW o \in DbOutcomes, RetryTest(c, o)
    PROVE  Inv'
<1> DEFINE taken == o # "refused" /\ Accepts(c.run, c.result)
<1>1. /\ TypeOK /\ Tables /\ Answered(c.run, "test") /\ up = TRUE /\ faults' \in Nat
      /\ c.result = TestResult(runs[c.run].answer)
      /\ retries \subseteq [run: Nat, result: Results] /\ tester \in [Testers -> TesterStates]
    BY DbCounts DEF Inv, RetryTest, Holders, RetriesHold, NothingWhileDown, TypeOK, TesterStates
<1>2. /\ UNCHANGED <<now, job, up, sched, listed, pending, tester, requests, crashes>>
      /\ runs' = IF taken THEN StoreResult(c.run, c.result) ELSE runs
      /\ retries' \subseteq retries
    BY DEF RetryTest
<1>3. taken \in BOOLEAN /\ (taken => Accepts(c.run, c.result))
    BY DEF Accepts
<1> HIDE DEF taken
<1>4. /\ runs' \in Seq(Run) /\ Tables' /\ Kept("scheduled") /\ Kept("test")
    BY <1>1, <1>2, <1>3, StoreTest
<1>5. TypeOK'
    <2>1. requests' \in Nat
        BY <1>1, <1>2 DEF TypeOK
    <2> QED BY <1>1, <1>2, <1>4, <2>1, TestTypeFrame
<1>6. LoopHolds' /\ PendingHolds' /\ NothingWhileDown'
    BY <1>1, <1>2, <1>4, TestKeepsLoop DEF Inv
<1>7. RetriesHold'
    BY <1>2, <1>4 DEF Inv, Holders, RetriesHold, Kept, Answered
<1>8. TestersHold'
    BY <1>2, <1>4 DEF Inv, Holders, TestersHold, Sends, Kept, Unanswered, Answered
<1> QED BY <1>4, <1>5, <1>6, <1>7, <1>8 DEF Inv, Holders

-----------------------------------------------------------------------------
(* The theorems.                                                             *)

LEMMA InitInv == Init => Inv
<1> SUFFICES ASSUME Init PROVE Inv
    OBVIOUS
<1>1. TypeOK
    BY DEF Init, TypeOK, Idle, NoJob, Job, NoPending, Pending, Results, NoRequest
<1>2. Tables
    BY DEF Init, Tables, RowsTellTruth, OnlyAfterFailure, KeysStartOnce, RunsFollowJobs
<1>3. Holders
    BY DEF Init, Idle, NoPending, NoRequest, Holders, LoopHolds, PendingHolds,
           TestersHold, Sends, RetriesHold, NothingWhileDown
<1> QED BY <1>1, <1>2, <1>3 DEF Inv

LEMMA NextInv == Inv /\ [Next]_vars => Inv'
<1> SUFFICES ASSUME Inv, [Next]_vars PROVE Inv'
    OBVIOUS
<1>1. CASE Loop
    BY <1>1, ScanSteps, ResumePendingStep, SendStep, AnswerStep, BeginFreshStep, BeginStaleStep,
       CompleteStep, MarkStep DEF Loop
<1>2. CASE Manage
    BY <1>2, ManageSteps, DeleteStep DEF Manage
<1>3. CASE Test
    BY <1>3, BeginTestStep, SendTestStep, AnswerTestStep, CompleteTestStep, RetryTestStep DEF Test
<1>4. CASE PassTime \/ Crash \/ Restart
    BY <1>4, PassTimeStep, CrashStep, RestartStep
<1>5. CASE UNCHANGED vars
    <2>1. TypeOK'
        BY <1>5 DEF Inv, TypeOK, vars, tables, memory
    <2> QED BY <1>5, <2>1, JobSteps DEF vars, tables, memory
<1> QED BY <1>1, <1>2, <1>3, <1>4, <1>5 DEF Next

LEMMA InvHolds == Spec => []Inv
BY InitInv, NextInv, PTL DEF Spec

\* Within a day a job is sent again only after an answer that counts as a failure,
\* and a key sends a job's message once: BeginScheduledJobRun and
\* BeginScheduledJobTestSend, over crashes, lost answers, late ticks and repeated
\* completions.
THEOREM NothingIsRepeated == Spec => []SendsAreNotRepeated
<1>1. ASSUME Inv PROVE SendsAreNotRepeated
    <2>1. TypeOK
        BY <1>1 DEF Inv
    <2>2. OncePerDay
        <3> SUFFICES ASSUME NEW i \in DOMAIN runs, NEW k \in DOMAIN runs, i < k,
                            SameOccurrence(i, k)
                     PROVE  runs[i].answer \in Explicit \cup {"garbled"}
            BY DEF OncePerDay, SameOccurrence
        <3> QED BY <1>1 DEF Inv, Tables, OnlyAfterFailure, RowsTellTruth, Truthful
    <2>3. TestKeySendsOnce
        BY <1>1 DEF Inv, Tables, KeysStartOnce, TestKeySendsOnce
    <2> QED BY <2>1, <2>2, <2>3 DEF SendsAreNotRepeated
<1> QED BY <1>1, InvHolds, PTL

\* A stored result is what the sender of the run knew, and never success for a run
\* that was interrupted: CompleteScheduledJobRun, CompleteScheduledJobTestSend and
\* the recovery of interrupted runs.
THEOREM RecordsAreTrue == Spec => []RecordTellsTruth
<1>1. Inv => RecordTellsTruth
    BY DEF Inv, Tables, RowsTellTruth, Truthful, RecordTellsTruth
<1> QED BY <1>1, InvHolds, PTL

\* What the operations on rows do to a run that was not sent: nothing.
LEMMA NotSending ==
    ASSUME TypeOK, NEW i \in DOMAIN runs,
           \/ UNCHANGED runs
           \/ \E ids : runs' = InterruptOpen(ids)
           \/ \E k \in DOMAIN runs, result \in Results : runs' = StoreResult(k, result)
           \/ \E row : runs' = Append(runs, row)
           \/ \E k, answer : runs' = [runs EXCEPT ![k].answer = answer]
           \/ \E j \in Jobs : Delete(j)
    PROVE  runs'[i].sent = runs[i].sent
<1>1. runs \in Seq(Run) /\ runs[i] \in Run
    BY DEF TypeOK
<1>2. ASSUME NEW ids, runs' = InterruptOpen(ids) PROVE runs'[i].sent = runs[i].sent
    <2>1. InterruptOpen(ids)[i] = IF i \in ids /\ runs[i].state = "open"
                                  THEN Interrupted(runs[i]) ELSE runs[i]
        BY InterruptOpenType
    <2> QED BY <1>1, <1>2, <2>1 DEF Interrupted, Run
<1>3. ASSUME NEW k \in DOMAIN runs, NEW result \in Results, runs' = StoreResult(k, result)
      PROVE  runs'[i].sent = runs[i].sent
    BY <1>1, <1>3 DEF StoreResult, Run
<1>4. ASSUME NEW row, runs' = Append(runs, row) PROVE runs'[i].sent = runs[i].sent
    BY <1>1, <1>4
<1>5. ASSUME NEW k, NEW answer, runs' = [runs EXCEPT ![k].answer = answer]
      PROVE  runs'[i].sent = runs[i].sent
    BY <1>1, <1>5 DEF Run
<1>6. ASSUME NEW j \in Jobs, Delete(j) PROVE runs'[i].sent = runs[i].sent
    BY <1>1, <1>6 DEF Delete, Run
<1> QED BY <1>2, <1>3, <1>4, <1>5, <1>6

\* Nobody sends a message of a job that was deleted: DeleteScheduledJob looks for
\* open runs, and whoever sends holds one.
THEOREM DeletedJobsAreSilent == Spec => SendsForLiveJobs
<1> DEFINE A == \A i \in DOMAIN runs :
                    (runs'[i].sent /\ ~runs[i].sent) => job[runs[i].job].state = "live"
<1>1. ASSUME Inv, [Next]_vars PROVE [A]_vars
    <2> SUFFICES ASSUME NEW i \in DOMAIN runs, runs'[i].sent, ~runs[i].sent
                 PROVE  job[runs[i].job].state = "live"
        OBVIOUS
    <2>1. TypeOK /\ runs \in Seq(Run) /\ runs'[i].sent # runs[i].sent
        BY <1>1 DEF Inv, TypeOK
    <2>2. CASE Loop
        <3>1. CASE StartTick \/ EndTick \/ ResumePending \/ SkipJob
                   \/ \E o \in DbOutcomes : Mark(o)
            BY <2>1, <3>1, NotSending
                DEF StartTick, EndTick, ResumePending, SkipJob, Mark, tables
        <3>2. CASE Send
            <4>1. Unanswered(sched.run, "scheduled")
                BY <1>1, <3>2 DEF Inv, Holders, LoopHolds, Send
            <4>2. i = sched.run
                BY <2>1, <3>2 DEF Send
            <4> QED BY <1>1, <4>1, <4>2 DEF Inv, Tables, RunsFollowJobs, Unanswered
        <3>3. CASE \E answer \in Answers : Answer(answer)
            BY <2>1, <3>3, NotSending DEF Answer
        <3>4. ASSUME NEW o \in DbOutcomes, BeginFresh(o) \/ BeginStale(o) PROVE FALSE
            BY <2>1, <3>4, NotSending DEF BeginFresh, BeginStale
        <3>5. ASSUME NEW o \in DbOutcomes, Complete(o) PROVE FALSE
            <4>1. pending[sched.job].run \in DOMAIN runs /\ pending[sched.job].result \in Results
                BY <1>1, <2>1, <3>5 DEF Inv, Holders, LoopHolds, PendingHolds, Answered, Complete,
                                        TypeOK, Pending
            <4>2. \/ UNCHANGED runs
                  \/ runs' = StoreResult(pending[sched.job].run, pending[sched.job].result)
                BY <3>5 DEF Complete
            <4> QED BY <2>1, <4>1, <4>2, NotSending
        <3> QED BY <2>2, <3>1, <3>2, <3>3, <3>4, <3>5 DEF Loop
    <2>3. CASE Manage
        BY <2>1, <2>3, NotSending DEF Manage, Add, Create, Remove, Update
    <2>4. CASE Test
        <3>1. ASSUME NEW h \in Testers, NEW j \in Jobs, NEW k \in Keys, NEW o \in DbOutcomes,
                     BeginTest(h, j, k, o)
              PROVE  FALSE
            BY <2>1, <3>1, NotSending DEF BeginTest
        <3>2. ASSUME NEW h \in Testers, SendTest(h) PROVE job[runs[i].job].state = "live"
            <4>1. Unanswered(tester[h].run, "test")
                BY <1>1, <3>2 DEF Inv, Holders, TestersHold, SendTest, Sends
            <4>2. i = tester[h].run
                BY <2>1, <3>2 DEF SendTest
            <4> QED BY <1>1, <4>1, <4>2 DEF Inv, Tables, RunsFollowJobs, Unanswered
        <3>3. ASSUME NEW h \in Testers, NEW answer \in Answers, AnswerTest(h, answer) PROVE FALSE
            BY <2>1, <3>3, NotSending DEF AnswerTest
        <3>4. ASSUME NEW h \in Testers, NEW o \in DbOutcomes, CompleteTest(h, o) PROVE FALSE
            <4>1. /\ tester[h].run \in DOMAIN runs
                  /\ TestResult(runs[tester[h].run].answer) \in Results
                BY <1>1, <2>1, <3>4, StoreTestResult DEF Inv, Holders, TestersHold, CompleteTest
            <4>2. \/ UNCHANGED runs
                  \/ runs' = StoreResult(tester[h].run, TestResult(runs[tester[h].run].answer))
                BY <3>4 DEF CompleteTest
            <4> QED BY <2>1, <4>1, <4>2, NotSending
        <3>5. ASSUME NEW c \in retries, NEW o \in DbOutcomes, RetryTest(c, o) PROVE FALSE
            <4>1. c.run \in DOMAIN runs /\ c.result \in Results
                BY <1>1, <2>1 DEF Inv, Holders, RetriesHold, Answered, TypeOK
            <4>2. UNCHANGED runs \/ runs' = StoreResult(c.run, c.result)
                BY <3>5 DEF RetryTest
            <4> QED BY <2>1, <4>1, <4>2, NotSending
        <3> QED BY <2>4, <3>1, <3>2, <3>3, <3>4, <3>5 DEF Test
    <2>5. CASE PassTime \/ Crash \/ Restart \/ UNCHANGED vars
        BY <2>1, <2>5, NotSending DEF PassTime, Crash, Restart, vars, tables
    <2> QED BY <1>1, <2>2, <2>3, <2>4, <2>5 DEF Next
<1> QED BY <1>1, InvHolds, PTL DEF Spec, SendsForLiveJobs

=============================================================================
