-------------------------------- MODULE Bot --------------------------------
(***************************************************************************)
(* The bot of one process: it handles the messages of groups               *)
(* (GroupMessages) by the settings that administrators change meanwhile    *)
(* (FeatureSettings), records what it did (Telemetry), stages the files it *)
(* sends (FileStaging) and reviews those who ask to join                   *)
(* (ApplicantReview), whose numbers it reads by a rule (StudentIdRule).    *)
(* They share the process and the database: a crash ends all of them, and  *)
(* a start loads the settings and the rule and prepares the review before  *)
(* the recorder and the connection begin (cmd/bot).                        *)
(***************************************************************************)
EXTENDS FeatureSettings

CONSTANTS
    Workers, AiSlots, Messages, MaxMessages, MaxSessions,
    Capacity, BatchSize, RetentionDays, Windows, MaxEvents, MaxTime,
    Callers, Files, Slots, MaxFiles, StaleAfter, CleanupGrace, MaxDownloads, MaxClock,
    Applications, Comments, Datasets, ImportKeys, RebuildKeys, AutoReject, MinSamples,
    MaxAttempts, MaxSightings, MaxDecided,
    IdLength, YearLength, RulePatches, Numbers, MaxRuleVersion

VARIABLES
    gateway, session, handler, asking, arrived,
    now, at, queue, batch, worker, accepting, dropped, raw, daily, upkeep, summary,
    stored, inTime, lost, trimmed,
    clock, caller, cache, inflight, reserved, disk,
    application, sample, version, imports, rebuilds, parser, reviewer, deciding, indexing,
    sightings, counted, corrected, fit,
    ruleRow, rule, ruleSeen, ruleTask, ruleWanted, ruleMissed

messages == <<gateway, session, handler, asking, arrived>>
telemetry == <<now, at, queue, batch, worker, accepting, dropped, raw, daily, upkeep, summary,
               stored, inTime, lost, trimmed>>
staging == <<clock, caller, cache, inflight, reserved, disk>>
review == <<application, sample, version, imports, rebuilds, parser, reviewer, deciding, indexing,
            sightings, counted, corrected, fit>>
studentRule == <<ruleRow, rule, ruleSeen, ruleTask, ruleWanted, ruleMissed>>
botVars == <<vars, messages, telemetry, staging, review, studentRule>>

\* The features of the pipeline, and those that are on in the group of the
\* messages: featureEnabled and Runtime.Effective.
BotFeatures == {"quote", "ai", "custom", "link", "keyword", "welcome"}

Enabled ==
    {f \in BotFeatures : f \in Fields => \A g \in Groups : Effective(g)[f] = "on"}

Chat == INSTANCE GroupMessages WITH enabled <- Enabled
Metrics == INSTANCE Telemetry
Staging == INSTANCE FileStaging
Review == INSTANCE ApplicantReview
Rule == INSTANCE StudentIdRule

ASSUME BotAssumption ==
    /\ Chat!GroupMessagesAssumption /\ Metrics!TelemetryAssumption /\ Staging!StagingAssumption
    /\ Review!ReviewAssumption /\ Rule!RuleAssumption
    /\ Cardinality(Groups) = 1 /\ Fields \subseteq BotFeatures /\ Values = {"on", "off"}

-----------------------------------------------------------------------------

BotInit == Init /\ Chat!MessagesInit /\ Metrics!TelemetryInit /\ Staging!StagingInit
           /\ Review!ReviewInit /\ Rule!RuleInit

\* Messages that are being handled see the new snapshot.
SettingsStep ==
    /\ SettingsNext
    /\ IF snapshot' = snapshot THEN UNCHANGED messages ELSE Chat!NoteSettings
    /\ UNCHANGED <<telemetry, staging, review, studentRule>>

MessagesStep ==
    Chat!MessagesNext /\ process = "up" /\ UNCHANGED <<vars, telemetry, staging, review, studentRule>>

TelemetryStep == Metrics!TelemetryNext /\ UNCHANGED <<settingsVars, messages, staging, review, studentRule>>

StagingStep ==
    Staging!StagingNext /\ process = "up" /\ UNCHANGED <<vars, messages, telemetry, review, studentRule>>

\* The process dies.
Die == Crash /\ Chat!ForgetMessages /\ Metrics!ForgetEvents /\ Staging!ForgetStaging
       /\ Review!ForgetReview /\ Rule!ForgetRule

\* buildApplication, and what runs after it.
StartProcess ==
    /\ Start /\ Review!PrepareReview /\ Rule!LoadRule /\ Metrics!StartWorkers
    /\ UNCHANGED <<messages, staging>>

ReviewStep ==
    Review!ReviewNext /\ UNCHANGED <<settingsVars, faults, messages, telemetry, staging, studentRule>>

RuleStep == Rule!RuleNext /\ UNCHANGED <<settingsVars, messages, telemetry, staging, review>>

BotNext ==
    \/ SettingsStep \/ MessagesStep \/ TelemetryStep \/ StagingStep \/ ReviewStep \/ RuleStep
    \/ Die \/ StartProcess

BotSpec == BotInit /\ [][BotNext]_botVars

-----------------------------------------------------------------------------
(* Properties of the parts, under the settings and the life of the process. *)

\* At most one feature answers a message, one that was on at some time while the
\* message was handled, and the statistics count a keyword only if its answer was
\* sent: HandleGroupMessage, GroupCommandRouter.Handle, sendKeywordReply.
AnswersAreSound == Chat!MessagesTypeOK /\ Chat!OneFeatureAnswers /\ Chat!CountedWasSent

\* No worker of an earlier session is left when the gateway is connected again:
\* sessionWorkers.Close, Detach.
SessionsDoNotOverlap == Chat!SessionsDoNotOverlap

\* Every observation is in memory, stored or counted as dropped: Record, flush,
\* flushOnShutdown.
EventsAreAccounted == Metrics!TelemetryTypeOK /\ Metrics!EventsAreAccounted

\* A summary counts nothing twice, but the events of a day that is rolled up between
\* the two statements that read the daily tables, and leaves out nothing that was
\* stored in time; and raw events are purged only after a daily row took them over:
\* LoadSummary, loadAnalyticsDaily, runOnce, AggregateTelemetryDaily,
\* PurgeTelemetryEvents.
CountsAreKept == []Metrics!SummariesCountOnce /\ Metrics!PurgedIsCounted

\* A staged file stays whole for as long as NapCat may take to upload it, and the
\* directory never holds more files than it may: Stage, removeStale,
\* reserveStagingCapacity.
FilesAreKept == Staging!StagingTypeOK /\ Staging!HandedOutStays /\ Staging!DirectoryStaysSmall

\* An approved request with all of its fields is a sample or about to become one:
\* scheduleEvidenceIndex, PrepareAutomaticReview.
ApprovedBecomesEvidence == Review!ApprovedBecomesEvidence

\* Corrections of samples outlive indexing, rebuilds and starts: insertEvidenceSource.
CorrectionsSurvive == Review!CorrectionsSurvive

\* A review counts the samples of the version it names, or of a later one:
\* GetMajorEvidence.
ReviewNamesItsEvidence == Review!ReviewNamesItsEvidence

\* No change of the rule for student numbers is lost, and pages are annotated by the
\* row as it was stored: UpdateStudentIDRule, ReloadStudentIDRule, AssessStudentID.
RuleKeepsPatches == Rule!RuleKeepsPatches
=============================================================================
