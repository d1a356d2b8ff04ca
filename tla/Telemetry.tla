----------------------------- MODULE Telemetry -----------------------------
(***************************************************************************)
(* Telemetry: src/internal/platform/telemetry and the tables behind it in  *)
(* src/internal/platform/storage/manager_operations.go.                    *)
(*                                                                         *)
(* Observations go into a bounded queue without blocking the bot.  One     *)
(* worker collects them in a batch and appends it to the table of raw      *)
(* events; it keeps the batch while that fails, and drains the queue when  *)
(* the process stops.  Every hour a maintenance run rolls the raw events   *)
(* of the days before today up into daily rows and then deletes raw events *)
(* older than the retention.  The queries of the analytics page read both  *)
(* tables, one statement after the other.                                  *)
(*                                                                         *)
(* Time counts half days.  An event is known by its number; metrics,       *)
(* groups, features and outcomes partition the counts and are left out.    *)
(***************************************************************************)
EXTENDS Integers, Sequences, FiniteSets, Functions

CONSTANTS
    Capacity,       \* events the queue holds
    BatchSize,
    RetentionDays,
    Windows,        \* queries that are asked
    MaxEvents,      \* bound: observations
    MaxTime,        \* bound: half days
    MaxFaults       \* bound: database calls that fail or lose their answer

TelemetryAssumption ==
    /\ {Capacity, BatchSize, RetentionDays} \subseteq Nat \ {0} /\ BatchSize <= Capacity
    /\ Windows \subseteq [from: Nat, to: Nat, daily: BOOLEAN]
    /\ {MaxEvents, MaxTime, MaxFaults} \subseteq Nat

VARIABLES
    process, faults,
    now,
    at,             \* when each observation was made
    queue, batch,   \* events in memory
    worker,         \* Run: "run", "drain" after the context is cancelled, or "off"
    accepting,
    dropped,        \* the counter of events that are given up
    raw,            \* telemetry_events: the rows of each event
    daily,          \* telemetry_daily: the count of a day, or None
    upkeep,         \* runOnce of the maintenance
    summary,        \* LoadSummary, LoadTimeseries or LoadRankings
    stored,         \* history: the rows each event ever had
    inTime,         \* history: events stored on their own day
    lost,           \* history: events in memory when the process died
    trimmed         \* history: days of which raw events were deleted

memoryVars == <<queue, batch, worker, accepting, dropped, lost>>
tableVars == <<raw, stored, inTime>>
telemetryVars == <<now, at, memoryVars, tableVars, daily, upkeep, summary, trimmed>>

-----------------------------------------------------------------------------

Day(t) == t \div 2
Days == 0..Day(MaxTime)
Events == 1..MaxEvents
None == -1
NoRows == [e \in Events |-> 0]

\* The events that the worker still has in hand.
Pending == IF worker = "off" THEN {} ELSE {queue[i] : i \in DOMAIN queue}
                                             \cup {batch[i] : i \in DOMAIN batch}

\* telemetryMetricForEvent and analyticsMetricNumber: what rows of a day count.
RowsOf(rows, d) == SumFunctionOnSet(rows, {e \in DOMAIN at : Day(at[e]) = d})

\* The days that rows belong to.
DatesOf(rows) == {Day(at[e]) : e \in {x \in DOMAIN at : rows[x] > 0}}

Upkeep == [pc: {"idle", "loaded", "stored"}, cutoff: Int, rows: [Events -> Nat]]
IdleUpkeep == [pc |-> "idle", cutoff |-> 0, rows |-> NoRows]

\* A query asks for a window of time, and reads the daily rows or not.
NoQuery == [from |-> 0, to |-> 0, daily |-> FALSE]

\* rows and dates are what was read so far, count is what the answer says of a day.
\* History: the events stored on their own day when it began (due), and the days
\* whose rows it read without having read their dates (late).
Summary == [pc: {"idle", "read", "dated", "done"}, query: Windows \cup {NoQuery},
            rows: [Events -> Nat], dates: SUBSET Days, count: [Days -> Nat],
            due: SUBSET Events, late: SUBSET Days]
IdleSummary == [pc |-> "idle", query |-> NoQuery, rows |-> NoRows, dates |-> {},
                count |-> [d \in Days |-> 0], due |-> {}, late |-> {}]

TelemetryTypeOK ==
    /\ now \in 0..MaxTime /\ at \in Seq(0..MaxTime) /\ Len(at) <= MaxEvents
    /\ queue \in Seq(Events) /\ Len(queue) <= Capacity
    /\ batch \in Seq(Events) /\ Len(batch) <= BatchSize
    /\ worker \in {"run", "drain", "off"} /\ accepting \in BOOLEAN /\ dropped \in Nat
    /\ raw \in [Events -> Nat] /\ daily \in [Days -> Nat \cup {None}]
    /\ upkeep \in Upkeep /\ summary \in Summary /\ stored \in [Events -> Nat]
    /\ inTime \cup lost \subseteq Events /\ trimmed \subseteq Days

\* A call of the database: done, done with its answer lost, or refused.
StoreReplies == {"done", "lost", "refused"}
StoreCall(o) ==
    \/ o = "done" /\ UNCHANGED faults
    \/ o # "done" /\ faults < MaxFaults /\ faults' = faults + 1

-----------------------------------------------------------------------------
(* The recorder and its worker.                                             *)

\* What eventFromObservation tells apart: valid observations and others.
Observations == BOOLEAN

\* Whether Record can enqueue the event.
Enters(valid) == valid /\ accepting /\ Len(queue) < Capacity

\* Record never waits.
Record(valid) ==
    /\ process = "up" /\ Len(at) < MaxEvents
    /\ at' = Append(at, now)
    /\ queue' = IF Enters(valid) THEN Append(queue, Len(at) + 1) ELSE queue
    /\ dropped' = IF Enters(valid) THEN dropped ELSE dropped + 1
    /\ UNCHANGED <<process, faults, now, batch, worker, accepting, lost, tableVars, daily,
                   upkeep, summary, trimmed>>

\* AppendTelemetryEvents: one transaction with a row for each event.
Appended(events) ==
    LET more == {events[i] : i \in DOMAIN events}
        Added(rows) == [e \in Events |-> IF e \in more THEN rows[e] + 1 ELSE rows[e]]
    IN /\ raw' = Added(raw) /\ stored' = Added(stored)
       /\ inTime' = inTime \cup {e \in more : Day(at[e]) = Day(now)}

\* The worker keeps a batch that was not stored for the next tick.
KeptBatch(b) == b

\* flush, from Run.
Flush(b, o) ==
    /\ StoreCall(o)
    /\ IF o = "refused" THEN UNCHANGED tableVars ELSE Appended(b)
    /\ batch' = IF o = "done" THEN <<>> ELSE KeptBatch(b)

\* The worker takes an event and flushes a full batch.
Take(o) ==
    /\ process = "up" /\ worker = "run" /\ queue # <<>> /\ Len(batch) < BatchSize
    /\ queue' = Tail(queue)
    /\ LET b == Append(batch, Head(queue))
       IN IF Len(b) = BatchSize THEN Flush(b, o)
          ELSE o = "done" /\ batch' = b /\ UNCHANGED <<faults, tableVars>>
    /\ UNCHANGED <<process, now, at, worker, accepting, dropped, lost, daily, upkeep, summary, trimmed>>

\* The flush interval is over.
Tick(o) ==
    /\ process = "up" /\ worker = "run" /\ batch # <<>>
    /\ Flush(batch, o)
    /\ UNCHANGED <<process, now, at, queue, worker, accepting, dropped, lost, daily, upkeep,
                   summary, trimmed>>

\* The context is cancelled: stopAccepting.
StopAccepting ==
    /\ process = "up" /\ worker = "run"
    /\ worker' = "drain" /\ accepting' = FALSE
    /\ UNCHANGED <<process, faults, now, at, queue, batch, dropped, lost, tableVars, daily,
                   upkeep, summary, trimmed>>

\* Mutant: the batch that could not be stored on shutdown is not counted.
DiscardedQueue(b, rest) == Len(rest)

\* flushOnShutdown gives up all that is left.
Discarded(b, rest) == Len(b) + Len(rest)

\* One round of flushOnShutdown: it fills the batch from the queue and flushes it.
Drain(o) ==
    /\ process = "up" /\ worker = "drain"
    /\ LET room == BatchSize - Len(batch)
           n == IF Len(queue) < room THEN Len(queue) ELSE room
           b == batch \o SubSeq(queue, 1, n)
           rest == SubSeq(queue, n + 1, Len(queue))
       IN /\ StoreCall(o) /\ (b = <<>> => o = "done")
          /\ IF o = "refused" THEN UNCHANGED tableVars ELSE Appended(b)
          /\ batch' = <<>>
          /\ queue' = IF o = "done" THEN rest ELSE <<>>
          /\ dropped' = IF o = "done" THEN dropped ELSE dropped + Discarded(b, rest)
          /\ worker' = IF o = "done" /\ rest # <<>> THEN "drain" ELSE "off"
    /\ UNCHANGED <<process, now, at, accepting, lost, daily, upkeep, summary, trimmed>>

-----------------------------------------------------------------------------
(* Maintenance: runOnce.                                                    *)

\* AggregateTelemetryDaily reads all events of the days before today.
LoadEvents ==
    /\ process = "up" /\ upkeep.pc = "idle"
    /\ upkeep' = [pc |-> "loaded", cutoff |-> now - 2 * RetentionDays,
                  rows |-> [e \in Events |-> IF e \in DOMAIN at /\ Day(at[e]) < Day(now)
                                                THEN raw[e] ELSE 0]]
    /\ UNCHANGED <<process, faults, now, at, memoryVars, tableVars, daily, summary, trimmed>>

\* Mutant: the maintenance goes on when the aggregation failed.
AfterAggregationAlways(o) == "stored"

\* runOnce returns when the aggregation failed.
AfterAggregation(o) == IF o = "done" THEN "stored" ELSE "idle"

\* It then replaces the daily rows of the days it found events of, in one
\* transaction; without events it does nothing.
AggregateTelemetryDaily(o) ==
    /\ process = "up" /\ upkeep.pc = "loaded"
    /\ StoreCall(o) /\ (upkeep.rows = NoRows => o = "done")
    /\ daily' = IF o = "refused" THEN daily
                ELSE [d \in Days |-> IF d \in DatesOf(upkeep.rows) THEN RowsOf(upkeep.rows, d)
                                     ELSE daily[d]]
    /\ upkeep' = [upkeep EXCEPT !.pc = AfterAggregation(o)]
    /\ UNCHANGED <<process, now, at, memoryVars, tableVars, summary, trimmed>>

\* The cutoff of the purge falls into the middle of a day.
PurgeTelemetryEvents(o) ==
    /\ process = "up" /\ upkeep.pc = "stored"
    /\ StoreCall(o)
    /\ LET old == {e \in DOMAIN at : raw[e] > 0 /\ at[e] < upkeep.cutoff}
       IN IF o = "refused" THEN UNCHANGED <<raw, trimmed>>
          ELSE /\ raw' = [e \in Events |-> IF e \in old THEN 0 ELSE raw[e]]
               /\ trimmed' = trimmed \cup {Day(at[e]) : e \in old}
    /\ upkeep' = IdleUpkeep
    /\ UNCHANGED <<process, now, at, memoryVars, stored, inTime, daily, summary>>

-----------------------------------------------------------------------------
(* LoadSummary, LoadTimeseries and LoadRankings read the raw events first,  *)
(* then the dates that have daily rows, and then these rows, each with a    *)
(* statement of its own and outside any transaction.  (Of the rankings only *)
(* those that count raw events: see the README.)                            *)

\* A series by hour counts raw events only.
SeriesReadsDaily(granularity) == granularity = "day"

\* A ranking of commands or of entries of the knowledge base does, too.
RankingReadsDaily == FALSE

\* What normalizeFilter lets through: a window that ends after it begins, for a
\* summary, a series or a ranking.
Queries ==
    {q \in Windows : /\ q.from < q.to
                    /\ q.daily \in {TRUE, RankingReadsDaily}
                         \cup {SeriesReadsDaily(x) : x \in {"day", "hour"}}}

\* analyticsEventQuery: the events of the window.
InWindow(e, q) == e \in DOMAIN at /\ q.from <= at[e] /\ at[e] < q.to

LoadAnalyticsEvents(q) ==
    /\ process = "up" /\ summary.pc = "idle"
    /\ summary' = [IdleSummary EXCEPT !.pc = "read", !.query = q,
                       !.rows = [e \in Events |-> IF InWindow(e, q) THEN raw[e] ELSE 0],
                       !.due = {e \in inTime : InWindow(e, q)}]
    /\ UNCHANGED <<process, faults, now, at, memoryVars, tableVars, daily, upkeep, trimmed>>

\* fullAnalyticsDayRange: the days that lie in the window as a whole.
FullDays(q) == {d \in Days : q.from <= 2 * d /\ 2 * d + 2 <= q.to}

\* Those that have daily rows.
RolledUp == {d \in FullDays(summary.query) : summary.query.daily /\ daily[d] # None}

\* The first statement of loadAnalyticsDaily reads the dates ...
LoadDailyDates ==
    /\ process = "up" /\ summary.pc = "read"
    /\ summary' = [summary EXCEPT !.pc = "dated", !.dates = RolledUp]
    /\ UNCHANGED <<process, faults, now, at, memoryVars, tableVars, daily, upkeep, trimmed>>

\* ... and the second one the rows of all days, if there was a date.
DailyRead == IF summary.dates = {} THEN {} ELSE RolledUp

\* excludeRolledUpEvents: events of the dates that were read do not count.
ExcludeRolledUpEvents(rows, d) == IF d \in summary.dates THEN 0 ELSE RowsOf(rows, d)

\* analyticsMetricNumberCombined.
Combined(d) == (IF d \in DailyRead THEN daily[d] ELSE 0) + ExcludeRolledUpEvents(summary.rows, d)

LoadAnalyticsDaily ==
    /\ process = "up" /\ summary.pc = "dated"
    /\ summary' = [summary EXCEPT !.pc = "done", !.rows = NoRows, !.dates = {},
                                  !.count = [d \in Days |-> Combined(d)],
                                  !.late = DailyRead \ summary.dates]
    /\ UNCHANGED <<process, faults, now, at, memoryVars, tableVars, daily, upkeep, trimmed>>

AnswerSummary ==
    /\ summary.pc = "done" /\ summary' = IdleSummary
    /\ UNCHANGED <<process, faults, now, at, memoryVars, tableVars, daily, upkeep, trimmed>>

-----------------------------------------------------------------------------

PassTime ==
    /\ now < MaxTime /\ now' = now + 1
    /\ UNCHANGED <<process, faults, at, memoryVars, tableVars, daily, upkeep, summary, trimmed>>

\* What the end of the process takes along.
ForgetEvents ==
    /\ queue' = <<>> /\ batch' = <<>> /\ worker' = "off" /\ accepting' = FALSE
    /\ lost' = lost \cup Pending
    /\ upkeep' = IdleUpkeep /\ summary' = IdleSummary
    /\ UNCHANGED <<now, at, dropped, tableVars, daily, trimmed>>

\* NewService and NewMaintenance.
StartWorkers ==
    /\ worker' = "run" /\ accepting' = TRUE
    /\ UNCHANGED <<now, at, queue, batch, dropped, lost, tableVars, daily, upkeep, summary, trimmed>>

TelemetryInit ==
    /\ now = 0 /\ at = <<>> /\ queue = <<>> /\ batch = <<>> /\ worker = "run" /\ accepting = TRUE
    /\ dropped = 0 /\ raw = NoRows /\ daily = [d \in Days |-> None]
    /\ upkeep = IdleUpkeep /\ summary = IdleSummary
    /\ stored = NoRows /\ inTime = {} /\ lost = {} /\ trimmed = {}

TelemetryNext ==
    \/ \E valid \in Observations : Record(valid)
    \/ \E o \in StoreReplies : Take(o) \/ Tick(o) \/ Drain(o)
    \/ StopAccepting
    \/ LoadEvents \/ (\E o \in StoreReplies : AggregateTelemetryDaily(o) \/ PurgeTelemetryEvents(o))
    \/ (\E q \in Queries : LoadAnalyticsEvents(q)) \/ LoadDailyDates \/ LoadAnalyticsDaily \/ AnswerSummary
    \/ PassTime

-----------------------------------------------------------------------------
(* Properties.                                                              *)

\* Every observation is in memory, in the table, or counted as given up, except
\* those that died with a process; and no more are counted than were given up
\* (an event may be stored without an answer and given up all the same): Record,
\* flush, flushOnShutdown.
EventsAreAccounted ==
    LET gone == {e \in DOMAIN at : e \notin Pending /\ e \notin lost}
    IN /\ Cardinality({e \in gone : stored[e] = 0}) <= dropped
       /\ dropped <= Cardinality({e \in DOMAIN at : e \notin Pending})

\* An answer counts no row twice, although the events of a day are rolled up and
\* purged between its readings, with one exception: when other dates were there
\* already, the rows of a day that is rolled up for the first time between the
\* reading of the dates and that of the rows count beside its raw events, so that
\* each of them counts twice.  And it counts the events of its window that were
\* stored on their own day, as long as the purge has not reached that day:
\* loadAnalyticsDaily, excludeRolledUpEvents, AggregateTelemetryDaily.
SummariesCountOnce ==
    summary.pc = "done" =>
        \A d \in Days :
            LET kept == RowsOf([e \in Events |-> IF InWindow(e, summary.query) THEN stored[e] ELSE 0], d)
            IN /\ summary.count[d] <= kept + (IF d \in summary.late THEN kept ELSE 0)
               /\ d \notin trimmed => Cardinality({e \in summary.due : Day(at[e]) = d}) <= summary.count[d]

\* Raw events are purged only after a daily row took them over, unless they were
\* stored after their day: runOnce.
PurgedIsCounted ==
    [][\A e \in inTime : raw[e] > 0 /\ raw'[e] = 0 => daily[Day(at[e])] # None]_telemetryVars
=============================================================================
