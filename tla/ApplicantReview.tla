--------------------------- MODULE ApplicantReview ---------------------------
(***************************************************************************)
(* From a join request to evidence: the intake of requests                 *)
(* (src/internal/groups/grouprequest), their parsing by the language model *)
(* (src/internal/ai/applicant.go), the automatic review                    *)
(* (joinrequests/worker.go), and what it consults: the admission roster    *)
(* and the samples of majors that approved requests leave behind           *)
(* (storage/manager_join_approval.go).                                     *)
(*                                                                         *)
(* The event stream and the list of system messages write one row, the     *)
(* parser fills in its fields, the reviewer reads row, roster, version and *)
(* counts of the evidence one after the other, and a goroutine per         *)
(* approval indexes the sample.  Requests are applications ("add") to one  *)
(* group whose policy approves; what two deciders do to one request is in  *)
(* JoinRequests, and a decision here is its reservation and its end.       *)
(***************************************************************************)
EXTENDS Integers, FiniteSets, Sequences

CONSTANTS
    Applications,   \* flags of join requests
    Comments,       \* what an applicant may write, see Comment
    Datasets,       \* rosters that can be imported: sets of student numbers
    ImportKeys, RebuildKeys,
    AutoReject,     \* does the policy reject as well
    MinSamples,     \* MinimumEvidenceSamples
    MaxAttempts,    \* maxAIParseAttempts
    MaxSightings,   \* bound: sightings of requests explored
    MaxDecided      \* bound: revisions of a row that an administrator still decides on

VARIABLES
    process,
    \* Tables
    application,    \* group_join_requests
    sample,         \* join_major_code_samples, by the request they come from
    version,        \* evidence_version of join_approval_rule_state
    imports,        \* admission_roster_versions in order: the last one is active
    rebuilds,       \* join_evidence_rebuild_operations
    \* Memory of the process
    parser,         \* the batch that the parser works on
    reviewer,       \* the batch, and the review, of the automatic worker
    deciding,       \* reserved decisions whose end is not stored yet
    indexing,       \* goroutines of scheduleEvidenceIndex
    \* History
    sightings,
    counted,        \* the samples counted by each version of the evidence
    corrected,      \* what administrators made of a sample last
    fit             \* approved when all of its fields stood in its comment, ever since

tables == <<application, sample, version, imports, rebuilds>>
memory == <<parser, reviewer, deciding, indexing>>
reviewVars == <<tables, memory, sightings, counted, corrected, fit>>

\* The number and the major in a comment, and which of them carry a label.  The
\* name is treated like the major.
Comment ==
    [number: {"n1", "n2", "short", "last"}, major: {"m1", "m2"}, labels: SUBSET {"number", "major"}]

ReviewAssumption ==
    /\ IsFiniteSet(Applications)
    /\ Comments \subseteq Comment /\ \A d \in Datasets : d # {} /\ d \subseteq {"n1", "n2", "last", "short"}
    /\ AutoReject \in BOOLEAN
    /\ MinSamples \in Nat /\ MaxAttempts \in Nat \ {0}
    /\ MaxSightings \in Nat /\ MaxDecided \in Nat

NoFields == [number |-> "", major |-> ""]

\* What the labels, or the model, give: extractStudentID, extractMajor, Extract.
Extracted(c, found) ==
    [number |-> IF "number" \in found THEN c.number ELSE "",
     major |-> IF "major" \in found THEN c.major ELSE ""]

\* Values that were found replace those of the row.
Merged(fields, new) ==
    [f \in {"number", "major"} |-> IF new[f] = "" THEN fields[f] ELSE new[f]]

\* ValidateApplicantFields: all of them, each as it stands in the comment.
FieldsValid(a) ==
    \A f \in {"number", "major"} : a.fields[f] # "" /\ a.fields[f] = a.comment[f]

\* CheckStudentID: twelve digits, of this year.
WellFormed(number) == number \notin {"", "short"}
ThisYear(number) == WellFormed(number) /\ number # "last"

NoSample == [known |-> FALSE, major |-> "", cohort |-> TRUE, active |-> FALSE, revision |-> 0]

\* approvedEvidenceQuery: confirmed approvals of parsed requests.
ApprovedSource(a) ==
    /\ a.decision = "approved" /\ a.parse = "succeeded"
    /\ a.fields.number # "" /\ a.fields.major # ""

\* insertEvidenceSource: these become samples.
Eligible(a) == ApprovedSource(a) /\ FieldsValid(a) /\ WellFormed(a.fields.number)

InsertedAnew(r) ==
    IF Eligible(application[r])
    THEN [known |-> TRUE, major |-> application[r].fields.major,
          cohort |-> ThisYear(application[r].fields.number), active |-> TRUE,
          revision |-> sample[r].revision + 1]
    ELSE sample[r]

\* insertEvidenceSource on every source: a sample that exists stays as it is.
Inserted(r) ==
    IF ~sample[r].known /\ Eligible(application[r])
    THEN [known |-> TRUE, major |-> application[r].fields.major,
          cohort |-> ThisYear(application[r].fields.number), active |-> TRUE, revision |-> 1]
    ELSE sample[r]

CountOf(samples) ==
    Cardinality({r \in Applications : samples[r].known /\ samples[r].active /\ samples[r].cohort})

\* Each change of the samples is a new version of the evidence.
NewVersion ==
    /\ version' = version + 1
    /\ counted' = Append(counted, CountOf(sample'))

\* What becomes of the claim that an approved request was fit.
Fit(apps) == fit' = [r \in Applications |-> fit[r] /\ Eligible(apps[r])]

-----------------------------------------------------------------------------
(* Intake: Service.Record for an event, Service.Reconcile for an entry of the *)
(* list of system messages, UpsertGroupJoinRequest.                           *)

Unseen == [seen |-> FALSE, comment |-> [number |-> "", major |-> "", labels |-> {}],
           fields |-> NoFields, status |-> "pending", parse |-> "pending", attempts |-> 0,
           decision |-> "pending", action |-> "none", by |-> "none", revision |-> 1]

\* A row that NapCat's list calls checked was processed elsewhere, unless the bot
\* decided it: systemGroupRequestUpdates.
Observed(a, checked) ==
    IF ~checked THEN a
    ELSE [a EXCEPT !.status = "processed",
                   !.decision = IF @ \in {"pending", "unknown"} THEN "external" ELSE @]

FromEvent(a, c) ==
    [a EXCEPT !.seen = TRUE, !.comment = c,
              !.fields = IF a.seen THEN @ ELSE Extracted(c, c.labels)]

FromSystem(a, c, checked) ==
    Observed([a EXCEPT !.seen = TRUE, !.comment = c,
                       !.fields = Merged(@, Extracted(c, c.labels))], checked)

Store(r, a) ==
    /\ process = "up" /\ sightings < MaxSightings
    /\ application' = [application EXCEPT ![r] = a]
    /\ sightings' = sightings + 1
    /\ Fit(application')
    /\ UNCHANGED <<process, sample, version, imports, rebuilds, memory, counted, corrected>>

Record(r, c) == Store(r, FromEvent(application[r], c))

\* HandleGroupJoinRequest.
Arrive == \E r \in Applications, c \in Comments : Record(r, c)

Reconcile(r, c, checked) == Store(r, FromSystem(application[r], c, checked))

\* FetchGroupJoinRequests: an entry that cannot be decoded is left out, the others
\* are reconciled one by one.
Fetch == \E r \in Applications, c \in Comments, checked \in BOOLEAN : Reconcile(r, c, checked)

-----------------------------------------------------------------------------
(* The parser: processPendingAI.                                            *)

\* The comments are those of the moment of the list.
ListUnparsed ==
    /\ process = "up" /\ parser = {}
    /\ parser' = {<<r, application[r].comment>> :
                    r \in {x \in Applications : application[x].seen /\ application[x].parse = "pending"}}
    /\ parser' # {}
    /\ UNCHANGED <<process, tables, reviewer, deciding, indexing, sightings, counted, corrected, fit>>

\* Extract: what the model finds is kept if it stands in the comment.
Findings == SUBSET {"number", "major"}

\* CompleteGroupJoinRequestAI, unless the row is parsed meanwhile.
Parse(r, c, found) ==
    /\ process = "up" /\ <<r, c>> \in parser
    /\ parser' = parser \ {<<r, c>>}
    /\ application' =
         IF application[r].parse # "pending" THEN application
         ELSE [application EXCEPT ![r].parse = "succeeded",
                                  ![r].fields = Merged(@, Extracted(c, found))]
    /\ Fit(application')
    /\ UNCHANGED <<process, sample, version, imports, rebuilds, reviewer, deciding, indexing,
                   sightings, counted, corrected>>

\* FailGroupJoinRequestAI.
FailToParse(r, c) ==
    /\ process = "up" /\ <<r, c>> \in parser
    /\ parser' = parser \ {<<r, c>>}
    /\ application' =
         IF application[r].parse # "pending" THEN application
         ELSE [application EXCEPT ![r].attempts = @ + 1,
                                  ![r].parse = IF application[r].attempts + 1 >= MaxAttempts
                                               THEN "failed" ELSE "pending"]
    /\ UNCHANGED <<process, sample, version, imports, rebuilds, reviewer, deciding, indexing,
                   sightings, counted, corrected, fit>>

\* Neither of them could be stored: the request is listed again.
ParseNotStored(r, c) ==
    /\ process = "up" /\ <<r, c>> \in parser
    /\ parser' = parser \ {<<r, c>>}
    /\ UNCHANGED <<process, tables, reviewer, deciding, indexing, sightings, counted, corrected, fit>>

-----------------------------------------------------------------------------
(* The automatic review: ProcessAutoApprovals, automaticDecision.           *)

\* The candidates listed, the review of one of them and how far it came: the
\* version of the evidence and the samples counted for it.
NotReviewing == [pc |-> "idle", on |-> "none", todo |-> {}, row |-> Unseen, version |-> 0, count |-> 0]

\* ListAutoCandidates: the rows are copied.
Candidates ==
    {r \in Applications :
        LET a == application[r] IN
        a.seen /\ a.status = "pending" /\ a.decision = "pending" /\ a.parse = "succeeded"}

ListCandidates ==
    /\ process = "up" /\ reviewer.pc = "idle" /\ reviewer.todo = {}
    /\ Candidates # {}
    /\ reviewer' = [NotReviewing EXCEPT !.todo = {<<r, application[r]>> : r \in Candidates}]
    /\ UNCHANGED <<process, tables, parser, deciding, indexing, sightings, counted, corrected, fit>>

\* Where a review goes from the checks that read nothing.
FirstVerdict(a) ==
    IF FieldsValid(a) /\ ThisYear(a.fields.number) THEN "lookup" ELSE "reject"

Take(r, a) ==
    /\ process = "up" /\ reviewer.pc = "idle" /\ <<r, a>> \in reviewer.todo
    /\ reviewer' = [reviewer EXCEPT !.pc = FirstVerdict(a), !.on = r, !.row = a,
                                    !.todo = @ \ {<<r, a>>}]
    /\ UNCHANGED <<process, tables, parser, deciding, indexing, sightings, counted, corrected, fit>>

\* Lookup: the active version, then its entry; entries never change.
OnRoster(number) == imports = <<>> \/ number \in imports[Len(imports)].numbers

ReviewOnward(pc) == reviewer' = [reviewer EXCEPT !.pc = pc]

LookUp ==
    /\ process = "up" /\ reviewer.pc = "lookup"
    /\ ReviewOnward(IF OnRoster(reviewer.row.fields.number) THEN "evidence" ELSE "reject")
    /\ UNCHANGED <<process, tables, parser, deciding, indexing, sightings, counted, corrected, fit>>

\* GetMajorEvidence reads the version, and then it counts.
ReadVersion ==
    /\ process = "up" /\ reviewer.pc = "evidence"
    /\ reviewer' = [reviewer EXCEPT !.pc = "count", !.version = version]
    /\ UNCHANGED <<process, tables, parser, deciding, indexing, sightings, counted, corrected, fit>>

CountSamples ==
    /\ process = "up" /\ reviewer.pc = "count"
    /\ reviewer' = [reviewer EXCEPT !.pc = IF CountOf(sample) < MinSamples THEN "reject" ELSE "judge",
                                    !.count = CountOf(sample)]
    /\ UNCHANGED <<process, tables, parser, deciding, indexing, sightings, counted, corrected, fit>>

\* MajorCodeJudge.Judge: a match, or another answer.
Judgements == {"match", "other"}

\* Only a match passes.
Judge(judgement) ==
    /\ process = "up" /\ reviewer.pc = "judge"
    /\ ReviewOnward(IF judgement = "match" THEN "approve" ELSE "reject")
    /\ UNCHANGED <<process, tables, parser, deciding, indexing, sightings, counted, corrected, fit>>

\* The decisions that the policy lets the worker make.
Wanted == {"approve"} \cup (IF AutoReject THEN {"reject"} ELSE {})

NextCandidate == [NotReviewing EXCEPT !.todo = reviewer.todo]

\* The roster, the evidence or the judge cannot be asked: later rounds try again.
\* A rejection that the policy does not want is not made either.
GiveUpReview ==
    /\ process = "up"
    /\ reviewer.pc \in {"lookup", "evidence", "count", "judge"} \cup ({"reject"} \ Wanted)
    /\ reviewer' = NextCandidate
    /\ UNCHANGED <<process, tables, parser, deciding, indexing, sightings, counted, corrected, fit>>

\* BeginDecisions, for the version of the row that the decider saw.
MayBegin(r, revision) ==
    application[r].revision = revision /\ application[r].decision = "pending"

\* The decider executes what it reserved, unless the call returned an error.
Reserve(r, action, by) ==
    /\ application' = [application EXCEPT ![r].decision = "processing", ![r].action = action,
                                          ![r].by = by, ![r].revision = @ + 1]
    /\ deciding' \in {deciding \cup {r}, deciding}
    /\ Fit(application')

\* The worker reserves the candidate, or skips it: it is no longer what was listed,
\* the reservation fails, or the message of a rejection is not valid.
BeginAutomatic ==
    /\ process = "up" /\ reviewer.pc \in Wanted
    /\ reviewer' = NextCandidate
    /\ \/ /\ MayBegin(reviewer.on, reviewer.row.revision)
          /\ Reserve(reviewer.on, reviewer.pc, "automatic")
       \/ UNCHANGED <<application, deciding, fit>>
    /\ UNCHANGED <<process, sample, version, imports, rebuilds, parser, indexing, sightings, counted, corrected>>

\* An administrator decides.
BeginManual(r, action) ==
    /\ process = "up" /\ application[r].seen /\ application[r].revision <= MaxDecided
    /\ MayBegin(r, application[r].revision)
    /\ Reserve(r, action, "manual")
    /\ UNCHANGED <<process, sample, version, imports, rebuilds, parser, reviewer, indexing,
                   sightings, counted, corrected>>

\* What the gateway's answer makes of the request: outcomeStatuses; an automatic
\* decision is never tried again.
Concluded(a, outcome) ==
    IF outcome = "confirmed" THEN (IF a.action = "approve" THEN "approved" ELSE "rejected")
    ELSE IF outcome = "failed" /\ a.by = "manual" THEN "pending" ELSE "unknown"

\* execute stores the end and schedules the index of an approved request; a failed
\* call leaves automatic candidates alone for good.
Complete(r, outcome) ==
    /\ process = "up" /\ r \in deciding
    /\ deciding' = deciding \ {r}
    /\ application' =
         [application EXCEPT ![r].decision = Concluded(application[r], outcome), ![r].revision = @ + 1]
    /\ LET approved == application'[r].decision = "approved" IN
       /\ indexing' = IF approved THEN indexing \cup {r} ELSE indexing
       /\ fit' = [fit EXCEPT ![r] = approved /\ Eligible(application'[r])]
    /\ UNCHANGED <<process, sample, version, imports, rebuilds, parser, reviewer,
                   sightings, counted, corrected>>

\* RecoverExpiredDecisions: a reservation that nobody works on ends as unknown.
Recover(r) ==
    /\ process = "up" /\ application[r].decision = "processing" /\ r \notin deciding
    /\ application' = [application EXCEPT ![r].decision = "unknown", ![r].revision = @ + 1]
    /\ UNCHANGED <<process, sample, version, imports, rebuilds, memory, sightings, counted, corrected, fit>>

-----------------------------------------------------------------------------
(* The evidence.                                                            *)

AfterIndexOnce(r, stored) == indexing \ {r}

\* The goroutine of scheduleEvidenceIndex: it tries again until it succeeds.
AfterIndex(r, stored) == IF stored THEN indexing \ {r} ELSE indexing

VersionKept ==
    /\ version' = version
    /\ counted' = counted

\* Only an insertion makes a new version.
VersionInserted == IF sample' = sample THEN UNCHANGED <<version, counted>> ELSE NewVersion

\* IndexApprovedRequest.
Index(r, stored) ==
    /\ process = "up" /\ r \in indexing
    /\ indexing' = AfterIndex(r, stored)
    /\ sample' = IF stored THEN [sample EXCEPT ![r] = Inserted(r)] ELSE sample
    /\ VersionInserted
    /\ UNCHANGED <<process, application, imports, rebuilds, parser, reviewer, deciding,
                   sightings, corrected, fit>>

\* RebuildMajorEvidence: what is missing is inserted.  It makes a new version even
\* when nothing is missing, which is left out: its samples are those of the old one.
RebuildSamples == sample' = [r \in Applications |-> Inserted(r)] /\ VersionInserted

\* An administrator's rebuild; one under the same key answers what that one did.
Rebuild(k) ==
    /\ process = "up"
    /\ IF k \in rebuilds THEN UNCHANGED <<sample, version, counted>> ELSE RebuildSamples
    /\ rebuilds' = rebuilds \cup {k}
    /\ UNCHANGED <<process, application, imports, memory, sightings, corrected, fit>>

\* UpdateMajorEvidenceSample; one correction of each sample is explored, so the
\* administrator has always seen its revision.
Correct(r, major, active) ==
    /\ process = "up" /\ sample[r].known /\ sample[r].revision = 1
    /\ sample' = [sample EXCEPT ![r].major = major, ![r].active = active, ![r].revision = @ + 1]
    /\ corrected' = [corrected EXCEPT ![r] = <<major, active>>]
    /\ NewVersion
    /\ UNCHANGED <<process, application, imports, rebuilds, memory, sightings, fit>>

\* parseAdmissionRoster: one wrong number refuses the whole file.
Importable(d) == \A n \in d : WellFormed(n)

\* Store.Import: the new version supersedes the active one, and its rows come in
\* the same transaction; a key that was used imports nothing.
Import(k, d) ==
    /\ process = "up" /\ Importable(d)
    /\ imports' = IF \E i \in DOMAIN imports : imports[i].key = k THEN imports
                  ELSE Append(imports, [key |-> k, numbers |-> d])
    /\ UNCHANGED <<process, application, sample, version, rebuilds, memory, sightings, counted, corrected, fit>>

-----------------------------------------------------------------------------

\* The process dies.
ForgetReview ==
    /\ parser' = {} /\ reviewer' = NotReviewing /\ deciding' = {} /\ indexing' = {}
    /\ UNCHANGED <<tables, sightings, counted, corrected, fit>>

\* PrepareAutomaticReview, at every start before the workers.
PrepareReview ==
    /\ RebuildSamples
    /\ UNCHANGED <<application, imports, rebuilds, memory, sightings, corrected, fit>>

\* The first start made the rule ready, which it stays, with no sample.
ReviewInit ==
    /\ application = [r \in Applications |-> Unseen]
    /\ sample = [r \in Applications |-> NoSample]
    /\ version = 1 /\ counted = <<0>>
    /\ imports = <<>> /\ rebuilds = {}
    /\ parser = {} /\ reviewer = NotReviewing /\ deciding = {} /\ indexing = {}
    /\ sightings = 0
    /\ corrected = [r \in Applications |-> <<>>]
    /\ fit = [r \in Applications |-> FALSE]

ReviewNext ==
    \/ Arrive \/ Fetch
    \/ ListUnparsed
    \/ \E e \in parser : \E found \in Findings : Parse(e[1], e[2], found)
    \/ \E e \in parser : FailToParse(e[1], e[2]) \/ ParseNotStored(e[1], e[2])
    \/ ListCandidates \/ \E e \in reviewer.todo : Take(e[1], e[2])
    \/ LookUp \/ ReadVersion \/ CountSamples
    \/ \E judgement \in Judgements : Judge(judgement)
    \/ GiveUpReview \/ BeginAutomatic
    \/ \E r \in Applications, action \in {"approve", "reject"} : BeginManual(r, action)
    \/ \E r \in Applications, outcome \in {"confirmed", "failed", "unknown"} : Complete(r, outcome)
    \/ \E r \in Applications : Recover(r)
    \/ \E r \in Applications, stored \in BOOLEAN : Index(r, stored)
    \/ \E k \in RebuildKeys : Rebuild(k)
    \/ \E r \in Applications, major \in {"m1", "m2"}, active \in BOOLEAN : Correct(r, major, active)
    \/ \E k \in ImportKeys, d \in Datasets : Import(k, d)

-----------------------------------------------------------------------------

\* A request that was approved with all of its fields in its comment is a sample,
\* or is about to become one: by its goroutine, which tries until it succeeds, or
\* by the rebuild of the next start (scheduleEvidenceIndex, PrepareAutomaticReview).
ApprovedBecomesEvidence ==
    \A r \in Applications : fit[r] /\ process = "up" => sample[r].known \/ r \in indexing

\* What an administrator made of a sample outlives later indexing, rebuilds and
\* starts: insertEvidenceSource, UpdateMajorEvidenceSample.
CorrectionsSurvive ==
    \A r \in Applications :
        corrected[r] # <<>> => sample[r].known /\ <<sample[r].major, sample[r].active>> = corrected[r]

\* The samples a review counted are those of the version that it names or of a
\* later one, never of an older: GetMajorEvidence reads the version first, and
\* every change of the samples makes a new one.
ReviewNamesItsEvidence ==
    reviewer.pc = "judge" =>
        \E v \in reviewer.version..version : counted[v] = reviewer.count
=============================================================================
