------------------------ MODULE SystemAdministration ------------------------
(***************************************************************************)
(* What the system page of the console manages, in one process: restarts   *)
(* and configuration (SystemOperations) and the knowledge base             *)
(* (KnowledgeReload).  They share the database, the process and what its   *)
(* start recovers: a restart of the bot, a signal or a crash interrupts    *)
(* both, and a start loads the knowledge base first (initializeKnowledge)  *)
(* and recovers the reloads before the restarts (loadRuntimeState).        *)
(***************************************************************************)
EXTENDS SystemOperations

CONSTANTS ReloadKeys, Requests, MaxReloads, MaxSource, MaxAged

VARIABLES source, cache, reloads, index, syncing, request, reloader, bot, latest, aged

Knowledge == INSTANCE KnowledgeReload

knowledge == <<source, cache, reloads, index, syncing, request, reloader, bot, latest, aged>>
allVars == <<vars, knowledge>>

ASSUME AdministrationAssumption == Knowledge!ReloadAssumption

-----------------------------------------------------------------------------

AdministrationInit == SystemInit /\ Knowledge!ReloadInit

\* The process ends without a warning, or after its context is cancelled.
Die == (Crash \/ Exit) /\ Knowledge!ForgetReloads

\* buildApplication and loadRuntimeState.
StartProcess == Start /\ Knowledge!LoadReloads

\* The process loads the workbook, which may renew the cache file, and recovers its
\* reloads, then cannot recover the restarts and exits.
FailToStart ==
    /\ process = "down" /\ ~(Recoverable("napcat") /\ Recoverable("bot"))
    /\ \E i \in {source, cache} : cache' = i
    /\ reloads' = [o \in DOMAIN reloads |->
                     IF Knowledge!Interrupted(o)
                        THEN [reloads[o] EXCEPT !.status = "failed", !.idem = "completed"]
                        ELSE reloads[o]]
    /\ UNCHANGED <<vars, source, index, syncing, request, reloader, bot, latest, aged>>

AdministrationNext ==
    \/ SystemNext /\ UNCHANGED knowledge
    \/ Knowledge!ReloadNext /\ UNCHANGED <<kept, applied, memory, stops, expiries>>
    \/ Terminate /\ UNCHANGED knowledge
    \/ Die
    \/ StartProcess
    \/ FailToStart

AdministrationSpec == AdministrationInit /\ [][AdministrationNext]_allVars

FairAdministration ==
    AdministrationSpec /\ Fairness /\ Knowledge!ReloadFairness

-----------------------------------------------------------------------------
(* Properties of the knowledge base, under the life of this process.        *)

\* Restarts and reloads are begun once under a key, and one at a time:
\* BeginNapCatRestart, BeginBotRestart, BeginKnowledgeReload.
KeysBeginOneOperation ==
    TypeOK /\ Knowledge!ReloadTypeOK /\ KeysActOnce /\ Knowledge!OneReloadAtATime

\* What a reload that succeeded loaded is served, or something newer, unless a start
\* could load nothing, and the index never goes back, not over a start either:
\* Syncer.Sync, LoadCache, runReload.
KnowledgeIsServed == []Knowledge!ReloadsAreServed /\ Knowledge!IndexNeverGoesBack

\* A reload whose goroutine runs ends, by its result or at the next start,
\* unless the answer of its transition to running was lost, or the start is
\* kept from ending by an operation without a key: runReload,
\* RecoverInterruptedKnowledgeReloads.
ReloadsEnd ==
    \A o \in 1..MaxReloads :
        Knowledge!ReloadKnown(o)
            ~> (o \notin Knowledge!OpenReloads \/ Knowledge!ReloadLost(o) \/ Orphaned)

\* What the administrator sees as running comes to an end: runRestart, finish,
\* runReload, RecoverInterruptedNapCatRestarts.
OperationsEnd == RestartsEnd /\ ReloadsEnd
=============================================================================
