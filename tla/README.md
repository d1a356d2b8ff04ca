# A verification development for Jxh-Go

Jxh-Go is a QQ group bot with a management console: a Go program between NapCat
(the QQ client it drives over a WebSocket), MySQL, a language model and the
browsers of a few administrators. This directory holds TLA+ modules that model its
core logic, TLC configurations that model-check them, and TLAPS proofs about them.
Paths below are relative to the repository.

    tlc -workers 2 -config MCJoinRequests.cfg MCJoinRequests     (any run below)
    tlapm JoinRequestsProofs.tla                                  (any *Proofs module)

Contents: 1 the system; 2 the modules; 3 the runs; 4 fairness; 5 the proofs;
6 what the code does against its own words; 7 known limits of the code;
8 not modelled; 9 the plan.

## 1. The system

One process serves HTTP handlers, a bot pipeline and several workers. Almost
every operation with a side effect has the same shape: *reserve* in one
transaction, *act* on the outside world without any lock, *record* the result in
a second transaction, *retry* the record in the background if it fails, and
*recover* at the next start what was left in between. What must be shared by all
readers is kept twice, in the table and in a snapshot in memory, and the two
change at different moments. The interesting behaviour is in the gaps.

| Component | State it keeps | Operations | Hard behaviour | What makes it correct |
|---|---|---|---|---|
| Join request decisions (`internal/groups/joinrequests`) | request rows (status, revision, lease), attempt rows, policies; memory: reservations in flight, candidates, retries | decide one or a batch, automatic approval, completion retry, lease recovery, policy update | an answer lost between two transactions; leases that lapse under a batch; a worker and clients on one row; crash | one call per attempt, at most one effect per applicant, "open" only when nothing was done, stored verdict = confirmed verdict |
| Join request intake and review (`groups/grouprequest`, `ai/applicant.go`, `joinrequests/worker.go`, `storage/manager_join_approval.go`) | request rows, roster versions, samples of majors with a version; memory: the parser's and the reviewer's batches, goroutines that index | sightings, parsing, automatic review, indexing, corrections, rebuilds, imports | a review reads row, roster, version and counts one after the other; an approval is indexed by a goroutine a crash can kill | approvals become evidence, corrections survive, a review counts what it names |
| Student ID rule (`joinrequests/student_id_rules.go`) | one row with a version and a copy in memory | patch, load, assess | two administrators, transaction and copy change apart | no patch is lost, pages show the stored rule |
| Scheduled jobs (`automation/scheduler`, `scheduledjobs`) | job rows, run rows; memory: pending completions, retries | tick, create, edit, disable, delete, test send | unknown outcomes, repeated ticks, edits while a job is being sent, time zones | no day sent twice after anything but a failure, true results, due jobs run |
| Custom commands (`automation/customcommand`) | command rows with revisions, a registry in memory, run rows | create, update, delete, load, probe, execute, record | table and registry change apart, the permission is checked before the match | one command per name, the registry not behind what clients were told, permitted and truly recorded runs |
| Feature settings (`management/settings`) | versioned settings in the table, a snapshot in memory | update, apply, repair, load | stored but not applied, mutations beside each other | the bot goes by what is stored; what was acknowledged is served |
| Bot pipeline and NapCat gateway (`bot`, `platform/napcat`) | sessions, workers, questions in slots | connect, handle, answer, end a session | settings change under a message; a session ends under its workers | one feature answers, one that was on; sessions do not overlap |
| File staging (`messaging/flashfile`) | a directory, a cache, downloads in flight, room reserved | stage, wait, download, clean up | callers share a download; cleaning beside use; crash | files stay whole while NapCat may read them, the directory stays bounded |
| Telemetry (`platform/telemetry`) | a queue, a batch, raw rows, daily rows | record, flush, drain, roll up, purge, summarise | full queue, failed appends, queries over two tables during a purge | every event stored or counted as dropped, nothing counted twice |
| Event stream (`management/events`, `api/events_handler.go`) | a bounded log, subscriptions with buffers | publish, subscribe, replay, heartbeat, revoke | slow and returning clients, restarts, revocation between authentication and subscription | no silent gap, no event a role forbids, revoked streams end |
| Administrators and sessions (`management/auth`, `storage/manager_auth.go`) | users, sessions, idempotency keys | login, touch, change and reset password, edit users, revoke | requests of one session overlap, a password is verified outside any transaction, lost answers are repeated | one super admin remains, ended sessions stay ended, no session outlives its password, retries take effect once |
| Group directory and notices (`internal/groups`) | group rows, keyed reservations; memory: completions | sync, publish notices | one sync at a time, lost reservations, a publication whose result is not stored | no older list wins, syncs end, nothing published twice, true results |
| Restarts and configuration (`management/system`, `platform/config`) | operation rows, audit rows, a file with a version | restart NapCat or the bot, edit the file | the process ends in the middle of its own operation; the audit row and the file change apart | keys act once, true results, no update lost, operations end |
| Knowledge reload (`knowledge`, `knowledgeadmin`) | operation rows, cache file, index | reload from the console or the bot | a reload beside a reload, a start that loads the cache | the index never goes back, reloads end |
| Application lifecycle (`cmd/bot`, `platform/app`) | supervised components | start with recoveries, stop, controlled restart | bounded shutdown, recoveries that fail | see the modules: each has its crash and its start |

Recovery (`backend.go`, `loadRuntimeState`) runs before any worker or handler
starts; every module below therefore recovers in its `Start` or `Restart` action.
The components without a module are named in section 8 and in `PROJECT.json`.

## 2. The modules

A transaction is one action: the code locks the rows it decides on. Whatever lies
between two transactions is a separate action, so that everything else can come
in between. A transaction that may fail takes an outcome: *done*, *failed*, or
*lost* (committed, but its caller sees an error). Calls of NapCat take an answer,
and an answer that proves nothing (a timeout, a lost connection) leaves open
whether the call had its effect. Each module keeps a few history variables, named
as such, that no action reads. Definitions whose comment begins with "Mutant"
are plausible mistakes: each property is shown to notice one of them (the
`mutants` of `PROJECT.json`). They play no part in the specifications.

**JoinRequests** is the centre of the development. State: the columns of
`group_join_requests` that decisions read (`decision`, `observed`, `source`,
`revision`, `lastDecision`, `lease`, `parsed`, `fresh`), the rows of
`group_join_decisions` (`attempts`) and of the policies, and per process (the
handlers and the `Worker`) what it is asking for, has reserved and has sent.
`Submit` and `Review` correspond to the request a handler or the automatic
approver makes, `BeginDecisions`/`ReplayDecisions`/`RefuseDecisions` to the three
ends of the reserving transaction (which may reserve and yet return an error: then only
the lease frees its requests), `CallGateway` to the NapCat call of
`Service.execute`, `CompleteDecision`/`FailCompletion`/`RetryCompletion` to the
recording one, `LeaseLapses`/`RecoverInterrupted` to the minute a lease lasts and
its recovery, `ObserveProcessed` to NapCat's system messages.

**JoinDecision** is what JoinRequests promises, without attempts, leases, keys or
processes: a request is claimed before anybody acts, acted on at most once with
effect, settled as what was done, and open again only when nothing was done.
JoinRequests implements it under the mapping at its end (`Lifecycle`): a claim is
an attempt whose call has no outcome yet, the effect is what the attempts' calls
may have done.

**ApplicantReview**: the way of one request from its first sighting (the event
stream or the list of system messages, `Arrive` and `Fetch`) over the parser's attempts and the
automatic review to the sample it leaves behind. The reviewer reads the row, the
roster, the version of the evidence and the counts in separate steps, as the code
does; `indexing` holds the goroutines of `scheduleEvidenceIndex`. The rules of the
review (roster, evidence, the judge of close cases) are operators on what was read.
A decision is only its beginning and its end here; the race of deciders is
JoinRequests'.

**StudentIdRule**: the row of the rule, the copy that pages are annotated by, and
the administrators' patches between page, transaction and copy. The assessment of
a number by a rule (`Assess`) is an operator; numbers are sequences of digits.

**ScheduledJobs**: the loop of `Runtime.RunOnce` as a control point `sched` over
the jobs listed at the start of a tick, with `pending` as in the code; handlers that
edit jobs; test senders with their keys. Time is counted in half days of the
scheduler's zone, enough to tell "the hour is reached" and "another day", and
`Offset` is the distance of that zone from UTC.

**CustomCommands**: `rows` is the table, `registry` the snapshot, `task` the
handler of an editor between validation, transaction and publication, `msg` a
message on its way through probe, permission, match, actions and recording.

**FeatureSettings**: the rows of the global settings and of the groups with their
revisions, `snapshot` as `Runtime` holds it, and `mutation`, the request that holds
the mutex of the service between its transaction and `Apply` or the repair.

**GroupMessages**: a connection to NapCat is a `session`; its loop gives each event
to a free worker, which offers it to one feature after the other and reads the
settings anew for each. Questions to the language model go on in slots of their
own and outlive their session. Keyword answers are sent part by part, with hints
and fallbacks.

**Telemetry**: `queue`, `batch` and `worker` are the recorder, `raw` and `daily` the
tables, `upkeep` the hourly run between roll-up and purge, `summary` a query between
its three reads: the raw rows, the dates that have daily rows, and the daily rows.

**FileStaging**: `cache`, `inflight` and `reserved` are the fields of the stager
under its mutex, `disk` the directory, `caller` a call of `Stage` between its steps.

**Bot** composes FeatureSettings, GroupMessages, Telemetry, FileStaging,
ApplicantReview and StudentIdRule in one process: the features of the pipeline are
enabled by the snapshot of FeatureSettings (`Enabled`), a crash (`Die`) ends all of
them, and `StartProcess` loads and recovers in the order of `cmd/bot`.

**EventHub**: `retained` and the registered `stream`s are the hub, the other
fields of `stream` the handler of one client, `client` what the browser knows;
`revoking` is the handler that ended a session and has yet to publish and close.

**AdminAuth**: users, sessions and idempotency keys as tables; `call` is a request
between authentication, touch and its handler's transactions, holding what it has
read. `Fail` stands for refusals, database errors and crashes: they leave nothing
behind but the tables.

**GroupDirectory**: `managed` is the directory with the version of NapCat's list
that each row was written from, `syncs` and `notices` are the reservations of the
two operations, `call` a handler in service, `retries` the background completions.

**SystemOperations**: `ops` are the rows of `system_operations` with their keys,
`worker` the goroutine of each NapCat restart (slot, running, call, finish), a bot
restart ends the process and is completed by the next start; `audits` and `file` are
the configuration editor's. **KnowledgeReload**: `reloads` and their goroutines,
the bot's command, the mutex of the store (`syncing`), cache file and `index`, which
is empty after a start that could load neither workbook nor file.
**SystemAdministration** composes the two in one process with its signals, its
crashes and the order of the recoveries at a start.

Components that share no rows are not composed: in the code they share the database
and the gateway only, and what one needs of another is an action of its environment
(the policies and the parser in JoinRequests, NapCat's list in GroupDirectory, the
roles in EventHub). MC modules add model values, symmetry sets and the scenarios of
a run.

## 3. The runs

Several runs consist of *scenarios*, sub-spaces that TLC explores in one graph.
Every scenario fixes something irrelevant to the others, which keeps the product of
all actors, faults and crashes out of the state space. Where liveness is checked
under a changed next-state relation (`MCSpec`), only what the environment does
(clients, administrators, crashes, time beyond the bound) is restricted, never a
step that fairness speaks of.

| Run | Configuration | Question | Bounds |
|---|---|---|---|
| `join` | `MCJoinRequests.cfg` | Do attempts, leases, keys and recovery keep the promise of JoinDecision, and does processing end? | 2 requests, 2 attempts, a client and the worker; scenarios: a batch of two; one request, a crash or two policy updates |
| `jobs` | `MCScheduledJobs.cfg` | Is a day sent once, a key sent once, the record true, and do due jobs run? | 1 job, 2 days, 2 runs, 1 fault, 1 crash; scenarios: loop, edits, 2 test senders with 3 requests |
| `jobs_zone` | `MCScheduledJobsZone.cfg` | Are once jobs sent in their time zone? (no) | zone half a day ahead of UTC |
| `jobs_replay` | `MCScheduledJobsReplay.cfg` | Is a repeated test send replayed? (no) | 2 requests, no faults |
| `commands` | `MCCustomCommands.cfg` | Do table, registry, permissions and records fit? | 2 commands, 2 names, 2 editors, a message, 2 faults, a restart; scenarios: serial, two editors, a run under an editor |
| `commands_stale` | `MCCustomCommandsStale.cfg` | Can a message run a replaced definition? (yes) | 1 command, 2 editors |
| `events` | `MCEventHub.cfg` | Does a client miss anything unknowingly? | 2 clients, 3 events, capacity 2, buffer 1, a restart |
| `admins` | `MCAdminAuth.cfg` | Do overlapping requests and retries keep users and sessions sound? | 2 users, 3 sessions, 2 requests at a time, 1 key, 5 time units; scenarios: browsing, changing, editing |
| `groups` | `MCGroupDirectory.cfg` | Does the newest list win and are notices published once? | 2 groups, 2 handlers, 2 keys, 3 reservations, 1 fault, 1 crash; scenarios: syncs, publications |
| `bot` | `MCBot.cfg` | Does the bot go by what is stored, under crashes and starts? | 1 group, 1 field, 2 administrators, 2 messages, 2 sessions, 2 events over 3 days, 2 callers and 2 files, 2 applicants, 4 versions of the rule, 1 fault; a scenario for each part, and messages under a switched feature |
| `system` | `MCSystemAdministration.cfg` | Do restarts, updates and reloads act once, tell the truth and end? | 3 operations, 2 updates, 2 reloads, 2 keys, 1 fault, 1 signal or crash, 1 expiry each; six scenarios |
| `system_start` | `MCSystemStart.cfg` | Can the process always be started again? (no) | 2 operations, 1 key that expires, 1 fault |

What the passing runs show, property by property:

- `join`: the two tables agree on what is being processed (`TablesAgree`), no
  attempt is sent twice (`SentAtMostOnce`), a pending request was never acted on, at
  most one call took effect, approved and rejected are confirmed (`EffectsTellTruth`),
  the worker honours the policy of the moment it reserves (`AutomaticHonoursPolicy`),
  each step is one of JoinDecision (`ImplementsJoinDecision`), which says among other
  things that confirmed decisions are final and unknown ones are never tried again,
  and no request stays reserved (`ProcessingEnds`).
- `jobs`: no day is sent twice after anything but a failure and a test key sends
  once (`SendsAreNotRepeated`), `RecordTellsTruth`, a deleted job sends nothing
  (`SendsForLiveJobs`), runs end and due jobs are attempted (`JobsProgress`).
  `RecordTellsTruth` names one exception: an answer of NapCat that cannot be decoded
  (`invalid_response`) is stored as a failure although the message may be out, and so
  may be sent again. Custom commands class it the same way, join requests and notices
  do not.
- `commands`: names are unique in table and registry, and the registry serves what
  clients were told (`RegistryIsSound`, with the exception that `commands_stale` is
  about), `ActingIsAllowed`, `ResultTellsTruth`, and a run is recorded once it has
  begun (`RunsAreRecorded`).
- `events`: a client misses nothing unknowingly, gets nothing twice and nothing its
  role forbids (`StreamsAreSound`); `RevokedStreamsEnd`.
- `admins`: `SomeSuperAdmin`; `SessionsAreSound` (well-formed rows, ascending
  replacements, no active session older than its password); `EndedIsFinal`;
  `ChangesReplaceWhatTheyVerified`; `RepetitionsAreSafe` (a repeated request is not
  done again, and the session of a change whose answer was lost can be fetched).
- `groups`: `DirectoryNeverGoesBack`, `NoticesAreSound`, `SyncsEnd`. A reservation
  whose answer was lost is the exception of the last: nothing in the code ends it
  before the next start, and no other sync is let in.
- `bot`: the snapshot is the stored settings, except for what a failed repair left
  behind (`SettingsAreServed`), and what an administrator was told is served
  (`AcknowledgedIsServed`); `AnswersAreSound`; `SessionsDoNotOverlap`;
  `EventsAreAccounted`; `CountsAreKept`, which names one exception: a day whose daily
  rows appear between the two statements of `loadAnalyticsDaily` may be counted twice
  by that query (never more often); `FilesAreKept`; `ApprovedBecomesEvidence`,
  `CorrectionsSurvive`, `ReviewNamesItsEvidence`; `RuleKeepsPatches`.
- `system`: `KeysBeginOneOperation`, `ResultsTellTruth`, `UpdatesAreNotLost`,
  `KnowledgeIsServed`, `OperationsEnd`. `ResultsTellTruth` names one exception: a
  restart of NapCat whose answer cannot be decoded (`FailureInvalidResponse`) goes to
  the default branch of `classifyRestartResult` and is stored as failed, although
  NapCat may have restarted. `KnowledgeIsServed` does not speak of an empty index.
  `OperationsEnd` names its exceptions: an operation whose transition to running lost
  its answer is known to nobody until the next start.

*Why the bounds are enough.* The hazards are races of two parties over one row
with one failure. Two attempts per request are the least with which an attempt
can be overtaken; a second request is needed for batches only; two runs per job
are a failed one and its repetition; three sessions are a replaced one, its
replacement and an unrelated one; a retained log of two out of three events
overflows once; the five half days of the telemetry are three days, of which one is
rolled up, a second one is rolled up while a query reads, and the first is purged;
maintenance begins on the second day's afternoon, when it has something to purge, and
queries are asked where nothing was given up before, which they cannot see (a full
queue drops an event just as an invalid one is dropped, so it need not fill up); the
second of two applicants is left to the automatic review, the first one's request makes
the evidence that this counts; keys expire where one key is used twice;
two callers of the stager are one that downloads and one
that waits. A second crash or fault brings back a state that the first one
reaches already, since nothing survives a crash but the tables. In `admins` the
requests are symmetric; runs with liveness use no symmetry. Deadlock is not
checked in the runs whose bounds, or whose idle administrators, let the system stop.

## 4. Fairness

Liveness is claimed only of what the program drives itself. Every call of NapCat
has a timeout and every transaction a context, so a handler or worker in service
goes on: weak fairness of its step. Retry loops and the tickers fire again and
again: weak fairness. Where an action may be disabled over and over by a peer (the
worker's recovery round between its other rounds, a download that waits for a
mutex), the fairness is strong: the ticker comes back after each of them, and Go's
mutexes are not held against a waiter for ever. A process that is down is restarted
(the container's restart policy). Faults are bounded, so a database that is asked
again and again answers in the end. Nothing makes an administrator act, a member
write, NapCat report or a process crash. EventHub assumes that a client reads or
its connection breaks: the handler sets no write deadline.

## 5. The proofs

Eight modules prove 38 listed theorems for all values of the constants, among them
every safety property of every passing run. They rest on the assumptions about the
constants that the modules state, and on nothing else. Hardly any of the properties is
inductive by itself: each proof finds what has to be known of the *processes in
flight*, that is, how what a handler or worker read some steps ago relates to the
tables now.

The assumptions say what the bounds are (numbers, at least one where the program has
at least one) and that the sets the program keeps in one row or one directory are
finite. The others are facts of the code: a batch fits in the queue, a keyword
answer has at least one part, every role may read revocations. `Bot` is about the
messages of one group, since a message is handled by the settings of its own.

**JoinRequestsProofs** proves `TypeCorrect`, `TablesAlwaysAgree`, `NothingSentTwice`,
`OpenRequestsUntouched` and `OneEffectPerRequest` from

    Inv == TypeOK /\ TablesAgree /\ Ownership /\ AtMostOneUnsettled /\ OpenIsSettled

`Ownership` says where an attempt can be: one not yet sent is in at most one
process' `todo`, a sent one in no `todo`, so nobody sends it again; it is what
carries `SentAtMostOnce` over replays, retries and crashes. `AtMostOneUnsettled`
says that among the attempts on a request at most one is unsettled (its call may
have, or may yet have, an effect), `OpenIsSettled` that a pending request has none.
A reservation needs the second to keep the first; a completion, a lease recovery
and an observation need `TablesAgree` to keep the second, because it ties the
request's status to its *last* attempt and excludes another that is started.

Its second half builds on that invariant. `KeepsThePromise` is the refinement: every
action of JoinRequests is a step of JoinDecision or a stutter under the mapping. The
three transactions that write attempts are reduced to which attempts there are, on
which requests, and what they do; the effect of a request is then a function of its
attempts that each step is shown to keep or to move as JoinDecision allows.
`EffectsAreTold` and `PolicyIsHonoured` use the same reduction.
`StatusIsTrue` shows why the promise is worth keeping: whatever implements JoinDecision
stores a status that tells what was done.

**ScheduledJobsProofs** proves `NothingIsRepeated`, `RecordsAreTrue` and
`DeletedJobsAreSilent` from `TypeOK /\ Tables /\ Holders`. `Tables` says of the rows
that only the last run of an occurrence may be anything but a stored failure and that
a key starts one run; `Holders` says of the loop, the pending completions, the testers
and the retries that whoever is about to send holds an open run without an answer, and
that whoever is about to store a result stores what the run's answer means. The
current and the latest run are chosen as a least and a greatest number; that there is
one is proved from the well-foundedness of inclusion on finite sets, since induction
over data is not available.

**GroupDirectoryProofs** proves `NewestListWins` and `NoticesStaySound`. The two halves
share nothing but the ids, so each has an invariant of its own: a sync writes only
while its row is open, there is one such row, and every list in flight is no older
than the directory; a publisher holds the one row of its key and has asked for
nothing it has no item of.

**CustomCommandsProofs** proves `RegistryStaysSound`, `NobodyOversteps` and
`RunsTellTruth`. `GoodTask` relates what an editor has read to the tables: a validated
patch is still valid if the row has the revision it was validated against, and a
stored definition that awaits its publication is the row itself unless another change
of the command was stored meanwhile. That last clause is the exception of
`commands_stale`. `GoodRun` says of a message what it was allowed to do when it was
matched, and what it has done.

**AdminAuthProofs** proves `SuperAdminRemains` from `RowsComplete`, `ServedByUsers`
(a request in service exists only once there are users, so the bootstrap cannot run
again after them) and `InOffice`: the only transactions that could empty the office
are edits, and they run against the very rows they count. `EndedStaysEnded` is an
action property that needs no invariant. For the sessions it proves
`SessionsStaySound`, `VerifiedIsReplaced` and `RepeatingIsSafe`. `GoodCall` says of a
request in service that a password it has verified is still the user's *if the
revision it read is*; `Finished` says of a change or a reset that was done why it
cannot be done again: the session it came with has ended, or the revision it expected
is in the past. Both are kept because revisions only grow and ended sessions are
final (`UsersKept`, `SessionsKept`).

**BotProofs** proves the eleven safety properties of `bot` of the composed program. The
parts share the process and the snapshot of the settings; a first lemma says what any
step is for one part (a step of its own, a crash, a start, or nothing), so that each
part keeps an invariant of its own:

- Settings: `SettingsInv` says what is stored is what the mutation in service wrote,
  and the snapshot is it unless that mutation still has to apply or to repair it. What
  an administrator read once is an earlier version of the row it is about, which is
  what makes the comparison of revisions sufficient. `BotGoesByAcknowledged` is an
  action property that follows from the same invariant.
- Messages: `MessagesInv` has a clause for each step of a worker, saying which answers
  may have gone out by then and under which settings it has found its feature. An answer
  counts as sent only if each part of it was tried in order and every failed attempt
  was mended by the one after it (`Mended`, `Halfway`). `InSession` keeps workers in
  the session that is connected; questions to the language model are exempt.
- Rule for student numbers: `RuleInv` says that a patch in flight was made from the
  version that its transaction compares, that at most one administrator has yet to
  publish, and that the copy is the row unless one has, or one's publication was lost.
- Evidence: `SampleInv`, `VersionInv`, `ReviewerInv`. An approval is its sample or
  awaits one, and the counts a reviewer names are those of a version that existed.
- Files: `FilesInv`. A directory has one owner at most, a caller that waits waits for a
  download that somebody works on, files and reservations together stay below the
  limit (`RoomInv`), and what a caller uses is younger than what a cleaning takes
  (`UsesWell`).
- Telemetry: `BotAccountsForEvents` needs that an observation is in the queue or the
  batch once and nowhere else. `BotKeepsCounts` relates three readings of the same
  rows at three moments: those of the maintenance run, of the query and of the tables.
  A daily row counts at least what was stored in time and at most what was ever
  stored (`DailyRows`), the purge takes only days that have one (`PurgeReady`), and
  the query reads the raw rows first, so what is purged in between is in the daily
  rows it reads later (`QueryRead`). It leaves out the raw rows of the dates it read, and
  then reads the daily rows of every day: at most one count of a day that had a date,
  at most both of a day that had none yet (`late`). Counts are sums over sets of events. How a sum
  behaves as its set or its summands grow is proved by choosing a smallest
  counterexample among the subsets of a finite set.

**SystemAdministrationProofs** proves `KeysBegin`, `RestartsTellTruth`,
`UpdatesSurvive` and `KnowledgeStaysServed` of the composition. The two halves share
the process, so each has its invariant over the same crashes and starts. For the
operations `SystemInv` says that every row without an expired key is the last of its
key, that a worker works on a running operation that NapCat was not asked for before,
and that an editor of the file owns its audit row, based on a version nobody else
replaced. For reloads `KnowledgeInv` says that one `Sync` runs at a time, that it holds
a list at least as new as the cache, and that a reload that succeeded is in the cache
and, as long as the process lives, in the index, if that holds anything. An operation
also remembers NapCat's answer: what is stored as failed was refused, or answered in a
way that cannot be decoded, which is the exception of `RestartsTellTruth`.

**EventHubProofs** proves `StreamsStaySound` from `HubInv` (the hub retains an end of
the log, in order) and, for each client, what it has heard, what waits in its buffer
and how they join: everything after its last event that it asked for is in the buffer
or, if it is still registered, not yet published (`Delivered`). A dropped stream keeps
what it had in its buffer but has no claim to what came later. The replay is a function
of the positions in the log, enumerated in ascending order; that such an enumeration
exists is proved by induction over the subsets of a finite set.

*Model-checked only*: all liveness (`ProcessingEnds`, `JobsProgress`, `RunsAreRecorded`,
`RevokedStreamsEnd`, `SyncsEnd`, `OperationsEnd`), since fairness and ENABLED are beyond
the prover, and the four disagreements of the next section, which are counterexamples.
What `Metrics`' sums are for a given set of rows is left to TLC's evaluation; the proofs
use only how they grow.

## 6. What the code does against its own words

- `jobs_zone`: a once job created in the console is stored with its UTC date and
  hour and compared with the scheduler's local clock; with the default zone it is
  sent eight hours early.
- `jobs_replay`: a finished test send is replayed only for the same request id, and
  every request gets a fresh one: clients always get a conflict.
- `commands_stale`: two overlapping updates of one command may publish in the wrong
  order; messages then run the older definition until the next update or restart.
- `system_start`: an operation whose key expired and was used again loses its key;
  both recoveries refuse such a row, and every later start of the process fails.

Noted while modelling, and followed by the models: `README.md:190` of the repository
says of keyword answers that an invalid picture or file is replaced by a hint and the
rest is sent ("继续发送后续内容"). An invalid file is; but when NapCat refuses a chain
of text and pictures, the plain text of the whole answer (or the hint that it is
incomplete) is sent in its place and the parts after it are not sent.

## 7. Known limits of the code

Behaviour that no text of the repository contradicts, that the properties therefore
state with an exception, and that a reader should know:

- An undecodable answer of NapCat counts as a failure of a scheduled job, of a
  command's action or of a restart of NapCat (section 3).
- `loadAnalyticsDaily` reads the dates that have daily rows and then, without a
  transaction, the daily rows of the whole range. When the hourly run rolls up a day
  in between, that query counts the day's daily row and its raw events.
- `AddScheduledJob`, the bot's command, inserts a row without `updated_by_type` and
  `updated_by_display_name`, which the bundled schema requires. There the command
  always fails; the model lets it succeed, so that its jobs are covered by what is shown.
- A pending completion of a job that was disabled waits for the next start.
- The reservation of a sync, the update of the rule for student numbers and the
  transition of a restart or reload to running block their kind until the next start
  when their transaction commits and its answer is lost.
- The completion of a notice publication is not retried.
- A login that verified an old password may commit after the change of that password:
  the session it opens counts as one of the new password.
- `runOnce` purges raw events before an instant in the middle of a day. A roll-up of
  that day that comes later replaces its complete daily row by the count of what is
  left. The hourly run rolls up days that are over and purges days older than the
  retention, so only a change of the retention or a clock that is set back gets there;
  `CountsAreKept` is checked without them.
- Settings that are stored but refused by the snapshot, with a repair that fails too,
  are served from the next change or start on.

## 8. Not modelled

- *Data* that no property tells apart: names, templates, audit rows that nothing reads
  back, listings, exports, overviews, analytics pages, knowledge entries.
- *Rankings of groups*: `loadAnalyticsDailyGroupRankings` builds both of its statements
  on one gorm statement, so that the second one selects and groups as the first does and
  its rows carry no counts. Rankings of commands and knowledge entries read raw events only
  and are modelled.
- *Conversions* of one text into another: knowledge parsing and scoring, CQ codes, link
  cleaning, quotes, the prompts and the cleaning of answers of the language model.
  They have no state of their own; a state machine adds nothing to them.
- *Statistics of triggers* are appended, exported and purged; nothing depends on an
  order of steps.
- *The generic idempotency service* is constructed nowhere in the program; the
  reservations in use are modelled where they are made.
- *The login limiter* only refuses: AdminAuth's `Fail` stands for it. Hashing is a
  comparison of secrets.
- *The HTTP layer* decodes, authenticates (in AdminAuth) and wires.
- *The schema* was read for keys, uniqueness and foreign keys, which the guards of the
  transactions rely on.
- NapCat's protocol, MySQL, QQ and the language model are the environment: their
  outcomes and answers are chosen nondeterministically.

## 9. The plan

What would add most next, in this order:

1. *LoginLimiter*: attempts and lock-out times per address and account, with the
   eviction of its maps; a lock-out is not shortened by other accounts' attempts.
2. *KeyedOperation*: the abstract promise behind all reservations (a key stands for
   one execution, its result is final, an execution nobody works on is recovered), with
   GroupDirectory, SystemOperations and the test sends shown to implement it, each with
   its own exceptions.
3. Abstract specifications of FeatureSettings and of EventHub (one register; one log
   with a position for each client), which their invariants already describe.
