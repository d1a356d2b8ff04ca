--------------------------- MODULE ScheduledJobs ---------------------------
(***************************************************************************)
(* Scheduled messages: src/internal/automation/scheduler (the loop that    *)
(* sends them), src/internal/automation/scheduledjobs (their management    *)
(* and the test sends) and the transactions of                             *)
(* src/internal/platform/storage they run on.                              *)
(*                                                                         *)
(* A tick of the loop lists the enabled jobs and goes through them by id.  *)
(* A due job is sent in three steps: a run is started in the database, the *)
(* message is sent outside any transaction, the run's end and the job's    *)
(* last_run_at are stored.  What could not be stored is kept in memory     *)
(* (pending) and tried again in later ticks.  Handlers create, edit,       *)
(* pause, delete and test-send jobs meanwhile, and the process may crash   *)
(* anywhere.                                                               *)
(*                                                                         *)
(* Time is counted in half days of the scheduler's time zone: Day(t) is    *)
(* the local day and Half(t) tells whether a job's hour was reached.       *)
(* Groups and messages are left out: nothing here depends on them.         *)
(***************************************************************************)
EXTENDS Integers, Sequences, FiniteSets

CONSTANTS
    Jobs,           \* ids, numbers as in scheduled_jobs
    Testers,        \* concurrent test-send requests
    Keys,           \* idempotency keys chosen by clients
    Offset,         \* half days the scheduler's zone is ahead of UTC
    MaxDay,         \* bound: days explored
    MaxRuns,        \* bound: rows of scheduled_job_runs
    MaxRevision,    \* bound: edits of a job
    MaxRequests,    \* bound: test-send requests
    MaxFaults,      \* bound: database calls that fail or lose their answer
    MaxCrashes      \* bound: process crashes

ASSUME ConstantsAssumption ==
    /\ Jobs \subseteq Nat \ {0} /\ IsFiniteSet(Jobs)
    /\ Offset \in {0, 1}
    /\ {MaxDay, MaxRuns, MaxRevision, MaxRequests, MaxFaults, MaxCrashes} \subseteq Nat

VARIABLES
    now,
    \* Tables
    job,        \* scheduled_jobs
    runs,       \* scheduled_job_runs in the order they were started
    \* Memory of the process
    up,
    sched,      \* where the loop is
    listed,     \* the jobs as the tick listed them
    pending,    \* Runtime.pending
    tester,     \* test-send handlers
    retries,    \* completions of test sends repeated in the background
    \* Counters
    requests,   \* request ids given by the middleware so far
    faults,
    crashes

tables == <<job, runs>>
memory == <<sched, listed, pending, tester, retries>>
vars == <<now, tables, up, memory, requests, faults, crashes>>

Day(t) == t \div 2
Half(t) == t % 2
Days == 1..MaxDay

-----------------------------------------------------------------------------
(* Types.                                                                   *)

\* A row's state is followed after its deletion: ids are never used again.
\* run_at is the instant a once job was asked for.
Job == [state: {"absent", "live", "deleted"}, enabled: BOOLEAN, once: BOOLEAN,
        day: Nat, half: {0, 1}, run_at: Nat, revision: Nat, marked: Nat]

NoJob == [state |-> "absent", enabled |-> FALSE, once |-> FALSE,
          day |-> 0, half |-> 0, run_at |-> 0, revision |-> 0, marked |-> 0]

\* "interrupted" is the result unknown with the error process_interrupted.
Results == {"success", "failed", "unknown", "interrupted"}

\* "garbled" is an answer that could not be understood (invalid_response).
Answers == {"confirmed", "rejected", "unavailable", "garbled", "unknown"}

\* The last three fields are history: was the message handed to NapCat, did it
\* reach the group, and what did the sender learn.
Run == [job: Jobs, kind: {"scheduled", "test"}, day: Nat, key: Keys \cup {0},
        request: Nat, state: {"open", "ended", "gone"}, result: Results,
        sent: BOOLEAN, delivered: BOOLEAN, answer: Answers \cup {"none"}]

NewRun(j, kind, d, k, q) ==
    [job |-> j, kind |-> kind, day |-> d, key |-> k, request |-> q, state |-> "open",
     result |-> "unknown", sent |-> FALSE, delivered |-> FALSE, answer |-> "none"]

\* run = 0 once the completion is stored, or when there is none to store.
Pending == [day: Nat, run: Nat, result: Results, marks: BOOLEAN]
NoPending == [day |-> 0, run |-> 0, result |-> "unknown", marks |-> FALSE]

Idle == [pc |-> "idle", todo |-> {}, at |-> 0, job |-> 0, run |-> 0]
NoRequest == [pc |-> "idle", job |-> 0, key |-> 0, run |-> 0, request |-> 0, reply |-> "none"]

-----------------------------------------------------------------------------
(* Decisions of the code.                                                   *)

\* Is a listed job due at t and has it not run that day?
IsDue(row, t) ==
    /\ row.enabled
    /\ row.once => row.day = Day(t)
    /\ row.marked # Day(t)
    /\ Half(t) >= row.half

\* Mutant: a timeout is taken for a failure.
ScheduledResultTimeoutFails(answer) ==
    IF answer = "confirmed" THEN "success" ELSE "failed"

\* What the loop makes of an answer.
ScheduledResult(answer) ==
    CASE answer = "confirmed" -> "success"
      [] answer \in {"rejected", "unavailable", "garbled"} -> "failed"
      [] answer = "unknown" -> "unknown"

\* What a test send makes of it: there "unavailable" proves nothing.
TestResult(answer) ==
    CASE answer = "confirmed" -> "success"
      [] answer \in {"rejected", "garbled"} -> "failed"
      [] answer \in {"unavailable", "unknown"} -> "unknown"

\* Does a run that ended so count as the day's run?
Marks(result) == result # "failed"

\* The attempts stored for the occurrence of job j on day d.
Attempts(j, d) ==
    {i \in DOMAIN runs : /\ runs[i].job = j /\ runs[i].kind = "scheduled"
                         /\ runs[i].day = d /\ runs[i].state # "gone"}

Latest(j, d) == CHOOSE i \in Attempts(j, d) : \A k \in Attempts(j, d) : k <= i

\* Mutant: any occurrence without a success gets another attempt.
RepeatableUnlessSucceeded(j, d) ==
    \A i \in Attempts(j, d) : runs[i].result # "success"

\* May the occurrence be attempted (again)?  Only after an explicit failure.
Repeatable(j, d) ==
    Attempts(j, d) # {} =>
        runs[Latest(j, d)].state = "ended" /\ runs[Latest(j, d)].result = "failed"

Interrupted(row) == [row EXCEPT !.state = "ended", !.result = "interrupted"]

\* Mutant: an open run is left as it is.
InterruptOpenNever(ids) == runs

\* The runs of ids that are open end as interrupted.
InterruptOpen(ids) ==
    [i \in DOMAIN runs |->
        IF i \in ids /\ runs[i].state = "open" THEN Interrupted(runs[i]) ELSE runs[i]]

\* Is a completion accepted?  An ended run accepts only what it already says.
Accepts(i, result) ==
    \/ runs[i].state = "open"
    \/ runs[i].state = "ended" /\ runs[i].result = result

StoreResult(i, result) == [runs EXCEPT ![i].state = "ended", ![i].result = result]

-----------------------------------------------------------------------------
(* The database may refuse a transaction, or commit it and lose the answer. *)

DbOutcomes == {"done", "lost", "refused"}

\* Counts the faults; the caller's effect happens unless o = "refused".
Db(o) ==
    \/ o = "done" /\ UNCHANGED faults
    \/ o # "done" /\ faults < MaxFaults /\ faults' = faults + 1

-----------------------------------------------------------------------------
(* The loop: Runtime.RunOnce.                                               *)

\* A tick lists the enabled jobs.
StartTick ==
    /\ up /\ sched.pc = "idle"
    /\ listed' = job
    /\ sched' = [Idle EXCEPT !.pc = "scan", !.at = now,
                             !.todo = {j \in Jobs : job[j].state = "live" /\ job[j].enabled}]
    /\ UNCHANGED <<now, tables, up, pending, tester, retries, requests, faults, crashes>>

\* The job the tick is at: the smallest id left.
Current == CHOOSE j \in sched.todo : \A k \in sched.todo : j <= k

NextJob(j) == [Idle EXCEPT !.pc = "scan", !.at = sched.at, !.todo = sched.todo \ {j}]

GoTo(pc, j, run) == [sched EXCEPT !.pc = pc, !.job = j, !.run = run]

EndTick ==
    /\ sched.pc = "scan" /\ sched.todo = {}
    /\ sched' = Idle /\ listed' = [j \in Jobs |-> NoJob]
    /\ UNCHANGED <<now, tables, up, pending, tester, retries, requests, faults, crashes>>

\* Something is left from an earlier tick: finishPending.
ResumePending ==
    /\ sched.pc = "scan" /\ sched.todo # {}
    /\ pending[Current] # NoPending
    /\ sched' = GoTo(IF pending[Current].run # 0 THEN "complete" ELSE "mark", Current, 0)
    /\ UNCHANGED <<now, tables, up, listed, pending, tester, retries, requests, faults, crashes>>

Startable ==
    sched.pc = "scan" /\ sched.todo # {} /\ pending[Current] = NoPending

\* The job is not due, or BeginScheduledJobRun does not find it enabled.  The
\* bound on runs makes BeginScheduledJobRun fail as well.
SkipJob ==
    /\ Startable
    /\ \/ ~IsDue(listed[Current], sched.at)
       \/ job[Current].state # "live" \/ ~job[Current].enabled
       \/ Len(runs) = MaxRuns /\ Repeatable(Current, Day(sched.at))
    /\ sched' = NextJob(Current)
    /\ UNCHANGED <<now, tables, up, listed, pending, tester, retries, requests, faults, crashes>>

Begins ==
    /\ Startable /\ IsDue(listed[Current], sched.at)
    /\ job[Current].state = "live" /\ job[Current].enabled

\* BeginScheduledJobRun starts a run: the job will be sent.  When the answer is
\* lost the run stays open and the loop knows nothing of it.
BeginFresh(o) ==
    /\ Begins /\ Db(o) /\ Len(runs) < MaxRuns
    /\ Repeatable(Current, Day(sched.at))
    /\ runs' = IF o # "refused"
                  THEN Append(runs, NewRun(Current, "scheduled", Day(sched.at), 0, 0))
                  ELSE runs
    /\ sched' = IF o = "done" THEN GoTo("send", Current, Len(runs) + 1) ELSE NextJob(Current)
    /\ UNCHANGED <<now, job, up, listed, pending, tester, retries, requests, crashes>>

\* The occurrence was already sent, or a send of it was interrupted: only
\* last_run_at is left to store.
BeginStale(o) ==
    LET j == Current IN
    /\ Begins /\ Db(o)
    /\ ~Repeatable(j, Day(sched.at))
    /\ runs' = IF o # "refused" THEN InterruptOpen({Latest(j, Day(sched.at))}) ELSE runs
    /\ IF o = "done"
          THEN /\ pending' = [pending EXCEPT ![j] = [NoPending EXCEPT !.day = Day(sched.at),
                                                                      !.marks = TRUE]]
               /\ sched' = GoTo("mark", j, 0)
          ELSE sched' = NextJob(j) /\ UNCHANGED pending
    /\ UNCHANGED <<now, job, up, listed, tester, retries, requests, crashes>>

\* The message is handed to NapCat; it reaches the group or not.
Send ==
    /\ sched.pc = "send"
    /\ \E reached \in BOOLEAN :
          runs' = [runs EXCEPT ![sched.run].sent = TRUE, ![sched.run].delivered = reached]
    /\ sched' = [sched EXCEPT !.pc = "sending"]
    /\ UNCHANGED <<now, job, up, listed, pending, tester, retries, requests, faults, crashes>>

\* Answers that fit what happened to the message.
Answerable(reached) ==
    IF reached THEN {"confirmed", "garbled", "unknown"}
               ELSE {"rejected", "unavailable", "garbled", "unknown"}

\* SendFunc returns; rememberPending keeps the completion.
Answer(answer) ==
    /\ sched.pc = "sending"
    /\ answer \in Answerable(runs[sched.run].delivered)
    /\ runs' = [runs EXCEPT ![sched.run].answer = answer]
    /\ LET result == ScheduledResult(answer) IN
          pending' = [pending EXCEPT ![sched.job] =
                        [day |-> Day(sched.at), run |-> sched.run,
                         result |-> result, marks |-> Marks(result)]]
    /\ sched' = GoTo("complete", sched.job, 0)
    /\ UNCHANGED <<now, job, up, listed, tester, retries, requests, faults, crashes>>

\* finishPending, first half: CompleteScheduledJobRun.
Complete(o) ==
    LET j == sched.job
        p == pending[j]
        taken == o # "refused" /\ Accepts(p.run, p.result)
    IN
    /\ sched.pc = "complete" /\ Db(o)
    /\ runs' = IF taken THEN StoreResult(p.run, p.result) ELSE runs
    /\ IF taken /\ o = "done"
          THEN IF p.marks
                  THEN /\ pending' = [pending EXCEPT ![j].run = 0]
                       /\ sched' = GoTo("mark", j, 0)
                  ELSE pending' = [pending EXCEPT ![j] = NoPending] /\ sched' = NextJob(j)
          ELSE sched' = NextJob(j) /\ UNCHANGED pending
    /\ UNCHANGED <<now, job, up, listed, tester, retries, requests, crashes>>

\* finishPending, second half: MarkScheduledJobRan, which disables a job that
\* was a once job when it was listed and finds no row if it was deleted.
Mark(o) ==
    LET j == sched.job IN
    /\ sched.pc = "mark" /\ Db(o)
    /\ job' = IF o # "refused" /\ job[j].state = "live"
                 THEN [job EXCEPT ![j].marked = pending[j].day,
                                  ![j].enabled = @ /\ ~listed[j].once]
                 ELSE job
    /\ pending' = IF o = "done" THEN [pending EXCEPT ![j] = NoPending] ELSE pending
    /\ sched' = NextJob(j)
    /\ UNCHANGED <<now, runs, up, listed, tester, retries, requests, crashes>>

-----------------------------------------------------------------------------
(* Management of the jobs.                                                  *)

Schedules == [once: BOOLEAN, day: Days, half: {0, 1}]

Instant(s) == 2 * s.day + s.half

\* A once job lies ahead; a daily job has no date.
ValidSchedule(s) == IF s.once THEN Instant(s) > now ELSE s.day = 1

\* The date and hour of a once job are those of the instant in some zone.
Scheduled(row, s, zone) ==
    LET local == Instant(s) - (Offset - zone) IN
    IF s.once THEN [row EXCEPT !.once = TRUE, !.day = Day(local), !.half = Half(local),
                               !.run_at = Instant(s)]
    ELSE [row EXCEPT !.once = FALSE, !.day = 0, !.half = s.half, !.run_at = 0]

UTC == 0
SchedulerZone == Offset

\* CreateScheduledJob.  A once job has no time zone of its own, so scheduleColumns
\* splits its instant in UTC.
Create(j, s, enabled) ==
    /\ up /\ job[j].state = "absent" /\ ValidSchedule(s)
    /\ job' = [job EXCEPT ![j] = Scheduled([NoJob EXCEPT !.state = "live", !.revision = 1,
                                                         !.enabled = enabled], s, UTC)]
    /\ UNCHANGED <<now, runs, up, memory, requests, faults, crashes>>

\* AddScheduledJob, the bot's command: a daily job whose hour has passed is
\* taken to have run today, a once job may lie in the current minute.  (It inserts a
\* row without the editor's columns; a table that requires them refuses it.)
Add(j, s) ==
    /\ up /\ job[j].state = "absent"
    /\ ValidSchedule(s) \/ (s.once /\ Instant(s) = now)
    /\ job' = [job EXCEPT ![j] =
                 Scheduled([NoJob EXCEPT !.state = "live", !.revision = 1, !.enabled = TRUE,
                              !.marked = IF ~s.once /\ Half(now) >= s.half THEN Day(now) ELSE 0],
                           s, SchedulerZone)]
    /\ UNCHANGED <<now, runs, up, memory, requests, faults, crashes>>

\* RemoveScheduledJob, the bot's command, only disables.
Remove(j) ==
    /\ up /\ job[j].state = "live" /\ job[j].enabled
    /\ job' = [job EXCEPT ![j].enabled = FALSE]
    /\ UNCHANGED <<now, runs, up, memory, requests, faults, crashes>>

\* UpdateScheduledJob with the current revision: a new schedule, a new status.
Update(j) ==
    /\ up /\ job[j].state = "live" /\ job[j].revision < MaxRevision
    /\ \/ \E s \in Schedules :
             /\ ValidSchedule(s)
             /\ job' = [job EXCEPT ![j] = Scheduled([job[j] EXCEPT !.revision = @ + 1], s, UTC)]
       \/ \E active \in BOOLEAN :
             job' = [job EXCEPT ![j].enabled = active, ![j].revision = @ + 1]
    /\ UNCHANGED <<now, runs, up, memory, requests, faults, crashes>>

\* Mutant: the runs are not looked at.
DeletableAlways(j) == TRUE

\* A job with an unfinished run is not deleted.
Deletable(j) == \A i \in DOMAIN runs : runs[i].job = j => runs[i].state # "open"

\* DeleteScheduledJob removes the job and its runs.
Delete(j) ==
    /\ up /\ job[j].state = "live" /\ Deletable(j)
    /\ job' = [job EXCEPT ![j] = [NoJob EXCEPT !.state = "deleted"]]
    /\ runs' = [i \in DOMAIN runs |->
                  IF runs[i].job = j THEN [runs[i] EXCEPT !.state = "gone"] ELSE runs[i]]
    /\ UNCHANGED <<now, up, memory, requests, faults, crashes>>

-----------------------------------------------------------------------------
(* Test sends: Service.TestSend.                                            *)

\* The run stored under scheduledTestIdentity, if any.
EarlierTests(j, k) ==
    {i \in DOMAIN runs : /\ runs[i].kind = "test" /\ runs[i].job = j
                         /\ runs[i].key = k /\ runs[i].state # "gone"}

\* How BeginScheduledJobTestSend answers the request with id q.
BeginReply(j, k, q) ==
    LET earlier == EarlierTests(j, k) IN
    CASE \E i \in earlier : runs[i].state = "open" -> "conflict"
      [] \E i \in earlier : runs[i].state = "ended" /\ runs[i].request = q -> "replayed"
      [] \E i \in earlier : runs[i].state = "ended" /\ runs[i].request # q -> "key_conflict"
      [] earlier = {} /\ job[j].state = "live" -> "fresh"
      [] OTHER -> "missing"

\* A request arrives; the middleware gives it a request id of its own.
BeginTest(h, j, k, o) ==
    LET q == requests + 1
        reply == IF o = "done" THEN BeginReply(j, k, q) ELSE "error"
        started == o # "refused" /\ BeginReply(j, k, q) = "fresh"
    IN
    /\ up /\ tester[h].pc = "idle" /\ requests < MaxRequests /\ Len(runs) < MaxRuns
    /\ Db(o)
    /\ requests' = q
    /\ runs' = IF started THEN Append(runs, NewRun(j, "test", 0, k, q)) ELSE runs
    /\ tester' = [tester EXCEPT ![h] =
                    [pc |-> IF reply = "fresh" THEN "send" ELSE "idle", job |-> j, key |-> k,
                     run |-> IF reply = "fresh" THEN Len(runs) + 1 ELSE 0,
                     request |-> q, reply |-> reply]]
    /\ UNCHANGED <<now, job, up, sched, listed, pending, retries, crashes>>

SendTest(h) ==
    /\ tester[h].pc = "send"
    /\ \E reached \in BOOLEAN :
          runs' = [runs EXCEPT ![tester[h].run].sent = TRUE, ![tester[h].run].delivered = reached]
    /\ tester' = [tester EXCEPT ![h].pc = "sending"]
    /\ UNCHANGED <<now, job, up, sched, listed, pending, retries, requests, faults, crashes>>

AnswerTest(h, answer) ==
    /\ tester[h].pc = "sending"
    /\ answer \in Answerable(runs[tester[h].run].delivered)
    /\ runs' = [runs EXCEPT ![tester[h].run].answer = answer]
    /\ tester' = [tester EXCEPT ![h].pc = "complete"]
    /\ UNCHANGED <<now, job, up, sched, listed, pending, retries, requests, faults, crashes>>

\* CompleteScheduledJobTestSend; a completion that is not reported as stored is
\* handed to scheduleTestSendCompletionRetry.
CompleteTest(h, o) ==
    LET i == tester[h].run
        result == TestResult(runs[i].answer)
        taken == o # "refused" /\ Accepts(i, result)
    IN
    /\ tester[h].pc = "complete" /\ Db(o)
    /\ runs' = IF taken THEN StoreResult(i, result) ELSE runs
    /\ retries' = IF taken /\ o = "done" THEN retries
                     ELSE retries \cup {[run |-> i, result |-> result]}
    /\ tester' = [tester EXCEPT ![h] = [NoRequest EXCEPT !.reply = tester[h].reply]]
    /\ UNCHANGED <<now, job, up, sched, listed, pending, requests, crashes>>

\* The background goroutine stops once its completion is accepted.
RetryTest(c, o) ==
    LET taken == o # "refused" /\ Accepts(c.run, c.result) IN
    /\ c \in retries /\ Db(o)
    /\ runs' = IF taken THEN StoreResult(c.run, c.result) ELSE runs
    /\ retries' = IF taken /\ o = "done" THEN retries \ {c} ELSE retries
    /\ UNCHANGED <<now, job, up, sched, listed, pending, tester, requests, crashes>>

-----------------------------------------------------------------------------
(* Time, crashes and restarts.                                              *)

PassTime ==
    /\ now < 2 * MaxDay + 1 /\ now' = now + 1
    /\ UNCHANGED <<tables, up, memory, requests, faults, crashes>>

Forget ==
    /\ sched' = Idle /\ listed' = [j \in Jobs |-> NoJob]
    /\ pending' = [j \in Jobs |-> NoPending]
    /\ tester' = [h \in Testers |-> NoRequest]
    /\ retries' = {}

Crash ==
    /\ up /\ crashes < MaxCrashes
    /\ up' = FALSE /\ crashes' = crashes + 1
    /\ Forget
    /\ UNCHANGED <<now, tables, requests, faults>>

\* The management backend recovers interrupted runs before the loop starts.
Restart ==
    /\ ~up /\ up' = TRUE
    /\ runs' = InterruptOpen(DOMAIN runs)
    /\ UNCHANGED <<now, job, memory, requests, faults, crashes>>

-----------------------------------------------------------------------------

Init ==
    /\ now = 2 /\ up = TRUE
    /\ job = [j \in Jobs |-> NoJob]
    /\ runs = <<>>
    /\ sched = Idle /\ listed = [j \in Jobs |-> NoJob]
    /\ pending = [j \in Jobs |-> NoPending]
    /\ tester = [h \in Testers |-> NoRequest]
    /\ retries = {}
    /\ requests = 0 /\ faults = 0 /\ crashes = 0

Loop ==
    \/ StartTick \/ EndTick \/ ResumePending \/ SkipJob \/ Send
    \/ \E answer \in Answers : Answer(answer)
    \/ \E o \in DbOutcomes : BeginFresh(o) \/ BeginStale(o) \/ Complete(o) \/ Mark(o)

Manage ==
    \E j \in Jobs :
        \/ \E s \in Schedules : Add(j, s) \/ \E enabled \in BOOLEAN : Create(j, s, enabled)
        \/ Remove(j) \/ Update(j) \/ Delete(j)

Test ==
    \/ \E h \in Testers :
        \/ \E j \in Jobs, k \in Keys, o \in DbOutcomes : BeginTest(h, j, k, o)
        \/ SendTest(h)
        \/ \E answer \in Answers : AnswerTest(h, answer)
        \/ \E o \in DbOutcomes : CompleteTest(h, o)
    \/ \E c \in retries, o \in DbOutcomes : RetryTest(c, o)

Next == Loop \/ Manage \/ Test \/ PassTime \/ Crash \/ Restart

Spec == Init /\ [][Next]_vars

\* The ticker keeps firing, a send returns (the SDK and the handlers have
\* timeouts), the supervisor restarts the process, a database fault is followed
\* by a success.
Fairness ==
    /\ WF_vars(StartTick) /\ WF_vars(Loop)
    /\ \A h \in Testers :
        /\ WF_vars(SendTest(h)) /\ WF_vars(\E o \in DbOutcomes : CompleteTest(h, o))
        /\ WF_vars(\E answer \in Answers : AnswerTest(h, answer))
    /\ WF_vars(\E c \in retries : RetryTest(c, "done"))
    /\ WF_vars(Restart)

FairSpec == Spec /\ Fairness

-----------------------------------------------------------------------------
(* Properties.                                                              *)

\* Every variable stays within its type.
TypeOK ==
    /\ now \in Nat /\ up \in BOOLEAN
    /\ job \in [Jobs -> Job] /\ listed \in [Jobs -> Job]
    /\ runs \in Seq(Run)
    /\ sched \in [pc: {"idle", "scan", "send", "sending", "complete", "mark"},
                  todo: SUBSET Jobs, at: Nat, job: Jobs \cup {0}, run: Nat]
    /\ pending \in [Jobs -> Pending]
    /\ tester \in [Testers -> [pc: {"idle", "send", "sending", "complete"},
                               job: Jobs \cup {0}, key: Keys \cup {0}, run: Nat, request: Nat,
                               reply: {"none", "fresh", "replayed", "conflict",
                                       "key_conflict", "missing", "error"}]]
    /\ retries \subseteq [run: Nat, result: Results]
    /\ {requests, faults, crashes} \subseteq Nat

Explicit == {"rejected", "unavailable"}

\* Within a day a job's message is sent again only if every earlier send came
\* back with a failure (an answer nobody understood counts as one in the code):
\* RunOnce and BeginScheduledJobRun, over crashes, lost answers and late ticks.
OncePerDay ==
    \A i, k \in DOMAIN runs :
        (/\ i < k /\ runs[i].sent /\ runs[k].sent
         /\ runs[i].kind = "scheduled" /\ runs[k].kind = "scheduled"
         /\ runs[i].job = runs[k].job /\ runs[i].day = runs[k].day)
            => runs[i].answer \in Explicit \cup {"garbled"}

\* The stored result is no better and no worse than what the sender knew: a
\* success was confirmed, a failure was answered as one, and a run interrupted
\* before its message was sent says unknown, never success.
RecordTellsTruth ==
    \A i \in DOMAIN runs :
        runs[i].state = "ended" =>
            /\ runs[i].result = "success" => runs[i].answer = "confirmed"
            /\ runs[i].result = "failed" => runs[i].answer \in Explicit \cup {"garbled"}
            /\ runs[i].result = "unknown" => runs[i].answer \in {"unknown", "unavailable"}

\* An idempotency key sends a job's message at most once, however often the
\* request is repeated: BeginScheduledJobTestSend.
TestKeySendsOnce ==
    \A i, k \in DOMAIN runs :
        (/\ i # k /\ runs[i].kind = "test" /\ runs[k].kind = "test"
         /\ runs[i].job = runs[k].job /\ runs[i].key = runs[k].key)
            => ~(runs[i].sent /\ runs[k].sent)

\* Neither the loop nor a test sends what it has sent already: BeginScheduledJobRun,
\* BeginScheduledJobTestSend.
SendsAreNotRepeated == TypeOK /\ OncePerDay /\ TestKeySendsOnce

\* No message of a job is sent after the job was deleted: DeleteScheduledJob
\* refuses while a run of the job, of either kind, is unfinished.
SendsForLiveJobs ==
    [][\A i \in DOMAIN runs :
        (runs'[i].sent /\ ~runs[i].sent) => job[runs[i].job].state = "live"]_vars

\* The process knows of run i and has it open.
HeldOpen(i) ==
    /\ i \in DOMAIN runs /\ runs[i].state = "open"
    /\ \/ sched.run = i
       \/ \E j \in Jobs : pending[j].run = i
       \/ \E h \in Testers : tester[h].run = i
       \/ \E c \in retries : c.run = i

EndedOrDisabled(i) ==
    /\ i \in DOMAIN runs
    /\ \/ runs[i].state # "open"
       \/ runs[i].kind = "scheduled" /\ ~job[runs[i].job].enabled

\* Every run that the process knows of ends, by its completion, by a retry or by
\* recovery after a crash, unless its job is disabled first: a disabled job is
\* not listed, so its pending completion waits for the next start.  (A run whose
\* start was committed while its answer was lost is known to nobody and waits
\* for the next start, too.)
RunsEnd ==
    \A i \in 1..MaxRuns : HeldOpen(i) ~> EndedOrDisabled(i)

\* On day d job j has reached its hour and has neither run nor been attempted.
WaitsForRun(j, d) ==
    /\ Day(now) = d /\ Half(now) >= job[j].half
    /\ job[j].state = "live" /\ job[j].enabled /\ ~job[j].once /\ job[j].marked # d
    /\ Attempts(j, d) = {} /\ Len(runs) < MaxRuns

\* A daily job whose hour is reached gets a run that day, unless the day ends, the job changes
\* or the bound on runs is reached.
DueJobsRun ==
    \A j \in Jobs, d \in Days :
        WaitsForRun(j, d) ~> ~WaitsForRun(j, d)

\* The loop attempts what is due and ends what it began: RunOnce, finishPending.
JobsProgress == RunsEnd /\ DueJobsRun

-----------------------------------------------------------------------------
(* What the comments promise and the code does not do.                      *)

\* scheduler.go: a once job's date is compared "in now's location", the zone
\* "scheduled jobs use" (config.example.yaml).  No message of a once job is sent
\* before the instant the tick listed it for.
OnceJobsAreNotEarly ==
    [][\A i \in DOMAIN runs :
        (/\ runs'[i].sent /\ ~runs[i].sent /\ runs[i].kind = "scheduled"
         /\ listed[runs[i].job].once)
            => now >= listed[runs[i].job].run_at]_vars

\* service.go: "Fresh=false returns the prior terminal run for replay".  A
\* request that repeats the key of a finished test send is given that run.
RepeatsAreReplayed ==
    [][\A h \in Testers :
        LET q == tester'[h] IN
        (/\ requests' # requests /\ q.request = requests' /\ q.reply # "error"
         /\ \E i \in EarlierTests(q.job, q.key) : runs[i].state = "ended")
            => q.reply = "replayed"]_vars
=============================================================================
