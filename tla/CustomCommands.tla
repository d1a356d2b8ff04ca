--------------------------- MODULE CustomCommands ---------------------------
(***************************************************************************)
(* Group chat commands that operators define in the console: the table     *)
(* custom_commands, the registry of active definitions every message is    *)
(* matched against, the handlers that change both one after the other, and *)
(* the messages that run a command: the probe and its permission, the      *)
(* second match, the actions, and the recording of the run with its        *)
(* background retries (automation/customcommand, bot/pipeline.go).         *)
(*                                                                         *)
(* A definition keeps what the properties tell apart: the name, who may    *)
(* trigger it, its actions and whether it is active (draft and disabled    *)
(* are alike here).  Every command's scope covers the one group messages   *)
(* come from; parameters only decide whether a message parses.             *)
(***************************************************************************)
EXTENDS Naturals

CONSTANTS
    Commands,       \* command ids CreateCommand may draw
    Names,          \* command names, none of them a built-in's
    Permissions,    \* trigger permissions definitions use
    Scripts,        \* lists of actions definitions use, as sets of kinds
    Editors,        \* console handlers
    SuperAdmins,    \* those of them that act for a super admin
    Messages,       \* group messages
    SendTargets,    \* groups one send_group_text action addresses
    MaxVersion, MaxFaults, MaxRestarts   \* bounds

ASSUME CommandsAssumption ==
    /\ Permissions \subseteq {"everyone", "group_admin", "maintenance_allowlist"}
    /\ Scripts \subseteq SUBSET {"reply", "send"}
    /\ SuperAdmins \subseteq Editors
    /\ {SendTargets, MaxFaults, MaxRestarts} \subseteq Nat /\ MaxVersion \in Nat \ {0}

VARIABLES
    rows,       \* custom_commands, by command id
    used,       \* command ids drawn so far
    registry,   \* the active definitions, by command id (byID and byName)
    task,       \* what each console handler is doing
    answered,   \* history: the newest version a client was told is stored
    contested,  \* history: commands of which two stored changes awaited publication
    msg,        \* what becomes of each group message
    standing,   \* who sent each message
    recorded,   \* custom_command_runs: rows stored for each message
    faults, restarts

vars == <<rows, used, registry, task, answered, contested, msg, standing, recorded, faults, restarts>>

-----------------------------------------------------------------------------
(* Definitions.                                                            *)

Definition == [name : Names, permission : Permissions, actions : Scripts]
Command == [name : Names, permission : Permissions, actions : Scripts,
            active : BOOLEAN, version : 1..MaxVersion]

\* ValidateDefinition as far as it relates fields to each other.
Valid(d) == "send" \in d.actions => d.permission # "everyone"

\* One-field patches; applyPatch overwrites the fields that are set.
Patches == [{"name"} -> Names] \cup [{"permission"} -> Permissions]
             \cup [{"actions"} -> Scripts] \cup [{"active"} -> BOOLEAN]
Apply(patch, command) ==
    [f \in DOMAIN command |-> IF f \in DOMAIN patch THEN patch[f] ELSE command[f]]

\* Only a super admin changes a definition that sends to other groups.
MayStore(e, before, after, patch) ==
    \/ e \in SuperAdmins
    \/ "send" \notin before.actions \cup after.actions
    \/ DOMAIN patch = {"active"}

With(f, c, v) == [x \in DOMAIN f \cup {c} |-> IF x = c THEN v ELSE f[x]]
Without(f, c) == [x \in DOMAIN f \ {c} |-> f[x]]
Holders(f, name, except) == {c \in DOMAIN f \ except : f[c].name = name}

\* Registry.Upsert: the error leaves the old snapshot, old definition included.
Clashes(c, command) == command.active /\ Holders(registry, command.name, {c}) # {}

\* Mutant: a deactivated command is left in the registry.
UpsertedActive(c, command) ==
    IF Clashes(c, command) \/ ~command.active THEN registry ELSE With(registry, c, command)

Upserted(c, command) ==
    IF Clashes(c, command) THEN registry
    ELSE IF command.active THEN With(registry, c, command)
    ELSE Without(registry, c)

\* LoadRegistry at startup: Replace with every stored active command.
Loaded == [c \in {x \in DOMAIN rows : rows[x].active} |-> rows[c]]

-----------------------------------------------------------------------------
(* Console handlers.                                                       *)

Idle == [phase |-> "idle"]

\* A transaction commits and says so, fails, or commits and its answer is lost.
Db(outcome) ==
    /\ outcome \in {"done", "failed", "lost"}
    /\ outcome # "done" => faults < MaxFaults
    /\ faults' = IF outcome = "done" THEN faults ELSE faults + 1

editing == <<msg, standing, restarts>>
history == <<answered, contested>>

BeginCreate(e) ==
    /\ task[e] = Idle
    /\ \E d \in Definition :
         /\ Holders(registry, d.name, {}) = {}
         /\ Valid(d) /\ MayStore(e, d, d, d)
         /\ task' = [task EXCEPT ![e] = [phase |-> "exists", id |-> {}, patch |-> d]]
    /\ UNCHANGED <<rows, used, registry, history, recorded, faults, editing>>

\* GetCommand, the client's revision, validation and the right to change it.
BeginUpdate(e) ==
    /\ task[e] = Idle
    /\ \E c \in DOMAIN rows, p \in Patches :
         LET candidate == Apply(p, rows[c]) IN
         /\ rows[c].version < MaxVersion
         /\ Valid(candidate) /\ MayStore(e, rows[c], candidate, p)
         /\ task' = [task EXCEPT ![e] =
              [phase |-> IF candidate.name = rows[c].name THEN "store" ELSE "conflicts",
               id |-> {c}, patch |-> p, revision |-> rows[c].version]]
    /\ UNCHANGED <<rows, used, registry, history, recorded, faults, editing>>

CheckConflicts(e) ==
    /\ task[e].phase = "conflicts"
    /\ task' = [task EXCEPT ![e] =
         IF Holders(registry, @.patch.name, @.id) = {} THEN [@ EXCEPT !.phase = "exists"] ELSE Idle]
    /\ UNCHANGED <<rows, used, registry, history, recorded, faults, editing>>

\* CommandNameExists
CheckName(e) ==
    /\ task[e].phase = "exists"
    /\ task' = [task EXCEPT ![e] =
         IF Holders(rows, @.patch.name, @.id) = {} THEN [@ EXCEPT !.phase = "store"] ELSE Idle]
    /\ UNCHANGED <<rows, used, registry, history, recorded, faults, editing>>

ToPublish(e, c, outcome) ==
    task' = [task EXCEPT ![e] =
      IF outcome = "done" THEN [phase |-> "publish", id |-> {c}, command |-> rows'[c]] ELSE Idle]

\* CreateCommand and its unique active_name.
StoreCreate(e, outcome) ==
    /\ task[e].phase = "store" /\ task[e].id = {}
    /\ Db(outcome)
    /\ \E c \in Commands \ used :
         LET d == task[e].patch
             command == [name |-> d.name, permission |-> d.permission, actions |-> d.actions,
                         active |-> FALSE, version |-> 1]
         IN IF outcome = "failed" \/ Holders(rows, d.name, {}) # {}
            THEN /\ task' = [task EXCEPT ![e] = Idle]
                 /\ UNCHANGED <<rows, used>>
            ELSE /\ rows' = With(rows, c, command)
                 /\ used' = used \cup {c}
                 /\ ToPublish(e, c, outcome)
    /\ UNCHANGED <<registry, history, recorded, editing>>

\* Mutant: the patch is applied to whatever the row holds now.
CurrentAny(c, revision) == c \in DOMAIN rows /\ rows[c].version < MaxVersion

\* Optimistic concurrency: revision and archived_at in the row lock and the WHERE.
Current(c, revision) == c \in DOMAIN rows /\ rows[c].version = revision

\* Another handler has stored a change of c and not published it yet.
Contests(e, c) ==
    \E f \in Editors \ {e} : task[f].phase \in {"publish", "remove"} /\ task[f].id = {c}

Contest(e, c) == contested' = IF Contests(e, c) THEN contested \cup {c} ELSE contested

StoreUpdate(e, outcome) ==
    /\ task[e].phase = "store" /\ task[e].id # {}
    /\ Db(outcome)
    /\ \E c \in task[e].id :
         LET p == task[e].patch IN
         IF /\ outcome # "failed"
            /\ Current(c, task[e].revision)
            /\ Holders(rows, Apply(p, rows[c]).name, {c}) = {}
         THEN /\ rows' = [rows EXCEPT ![c] = [Apply(p, rows[c]) EXCEPT !.version = @ + 1]]
              /\ ToPublish(e, c, outcome)
              /\ Contest(e, c)
         ELSE /\ task' = [task EXCEPT ![e] = Idle]
              /\ UNCHANGED <<rows, contested>>
    /\ UNCHANGED <<used, registry, answered, recorded, editing>>

\* Registry.Upsert and the answer to the client.
Publish(e) ==
    /\ task[e].phase = "publish"
    /\ \E c \in task[e].id :
         LET command == task[e].command IN
         /\ registry' = Upserted(c, command)
         /\ answered' = IF Clashes(c, command) \/ command.version < answered[c] THEN answered
                        ELSE [answered EXCEPT ![c] = command.version]
    /\ task' = [task EXCEPT ![e] = Idle]
    /\ UNCHANGED <<rows, used, contested, recorded, faults, editing>>

\* DeleteCommand removes the row and its runs.
StoreDelete(e, c, outcome) ==
    /\ task[e] = Idle /\ c \in DOMAIN rows
    /\ Db(outcome)
    /\ IF outcome = "failed"
       THEN UNCHANGED <<rows, recorded, task, contested>>
       ELSE /\ rows' = Without(rows, c) /\ Contest(e, c)
            /\ recorded' = [m \in Messages |-> IF msg[m].id = {c} THEN 0 ELSE recorded[m]]
            /\ task' = [task EXCEPT ![e] =
                 IF outcome = "done" THEN [phase |-> "remove", id |-> {c}] ELSE Idle]
    /\ UNCHANGED <<used, registry, answered, editing>>

\* Registry.Remove and the answer to the client.
Remove(e) ==
    /\ task[e].phase = "remove"
    /\ \E c \in task[e].id :
         /\ registry' = Without(registry, c)
         /\ answered' = [answered EXCEPT ![c] = MaxVersion + 1]
    /\ task' = [task EXCEPT ![e] = Idle]
    /\ UNCHANGED <<rows, used, contested, recorded, faults, editing>>

-----------------------------------------------------------------------------
(* Messages.                                                               *)

messaging == <<rows, used, registry, task, history, standing, restarts>>

Waiting == [phase |-> "waiting", id |-> {}]

\* Probe: the name and its permission.
Probe(m) ==
    /\ msg[m] = Waiting
    /\ \E c \in DOMAIN registry :
         msg' = [msg EXCEPT ![m] = [phase |-> "probed", id |-> {}, name |-> registry[c].name,
                                    permission |-> registry[c].permission]]
    /\ UNCHANGED <<messaging, recorded, faults>>

\* handleCustomCommand asks only for what the probed permission needs; what it
\* did not ask for counts against the sender.
Known(m) ==
    CASE msg[m].permission = "group_admin" -> {standing[m]} \cap {"admin"}
      [] msg[m].permission = "maintenance_allowlist" -> {standing[m]} \cap {"allowlisted"}
      [] OTHER -> {}

AskStanding(m, answer) ==
    /\ msg[m].phase = "probed"
    /\ answer = "error" => msg[m].permission # "everyone"
    /\ msg' = [msg EXCEPT ![m] =
         IF answer = "error" THEN [phase |-> "over", id |-> {}]
         ELSE [phase |-> "asked", id |-> {}, name |-> @.name, known |-> Known(m)]]
    /\ UNCHANGED <<messaging, recorded, faults>>

TriggerAllowed(permission, known) ==
    CASE permission = "everyone" -> TRUE
      [] permission = "group_admin" -> "admin" \in known
      [] permission = "maintenance_allowlist" -> "allowlisted" \in known

Ended(m, result) == [phase |-> "persist", id |-> msg[m].id, command |-> msg[m].command,
                     confirmed |-> msg[m].confirmed, effects |-> msg[m].effects,
                     garbled |-> msg[m].garbled, result |-> result]

\* Execute matches again: no command, a refusal before any action, or a start.
Execute(m, refusal) ==
    /\ msg[m].phase = "asked"
    /\ LET found == Holders(registry, msg[m].name, {})
       IN \/ /\ found = {} /\ refusal = "none"
             /\ msg' = [msg EXCEPT ![m] = [phase |-> "over", id |-> {}]]
          \/ \E c \in found :
               LET allowed == TriggerAllowed(registry[c].permission, msg[m].known) IN
               /\ (refusal = "denied") = ~allowed
               /\ msg' = [msg EXCEPT ![m] =
                    [phase |-> IF refusal = "none" THEN "acting" ELSE "persist", id |-> {c},
                     command |-> registry[c], confirmed |-> 0, effects |-> 0, garbled |-> FALSE,
                     result |-> refusal]]
    /\ UNCHANGED <<messaging, recorded, faults>>

\* Groups addressed by a list of actions, in the order of the actions.
Targets(actions) == (IF "reply" \in actions THEN 1 ELSE 0)
                      + (IF "send" \in actions THEN SendTargets ELSE 0)

\* What the gateway adapter and classifyActionError make of NapCat's answer.
StepResult(answer) == CASE answer = "ok" -> "success"
                        [] answer = "timeout" -> "unknown"
                        [] OTHER -> "failed"

\* Mutant: only actions completed in every group count, the first has one.
RunResultWhole(step, confirmed) ==
    IF confirmed > 1 THEN "partial" ELSE IF step = "unknown" THEN "unknown" ELSE "failed"

\* Execute counts confirmed effects over all actions, those of the failed one too.
RunResult(step, confirmed) ==
    IF confirmed > 0 THEN "partial" ELSE IF step = "unknown" THEN "unknown" ELSE "failed"

\* A rejected or unsendable action has no effect; a timeout or an undecodable
\* answer says nothing about it.
Effects(answer) == CASE answer = "ok" -> {1}
                     [] answer \in {"timeout", "garbled"} -> {0, 1}
                     [] OTHER -> {0}

Act(m, answer) ==
    /\ msg[m].phase = "acting" /\ msg[m].confirmed < Targets(msg[m].command.actions)
    /\ \E effect \in Effects(answer) :
         LET acted == [msg[m] EXCEPT !.effects = @ + effect,
                                     !.confirmed = @ + (IF answer = "ok" THEN 1 ELSE 0),
                                     !.garbled = (answer = "garbled")]
         IN msg' = [msg EXCEPT ![m] =
              IF answer = "ok" THEN acted
              ELSE [Ended(m, RunResult(StepResult(answer), msg[m].confirmed))
                      EXCEPT !.effects = acted.effects, !.garbled = acted.garbled]]
    /\ UNCHANGED <<messaging, recorded, faults>>

Finish(m) ==
    /\ msg[m].phase = "acting" /\ msg[m].confirmed = Targets(msg[m].command.actions)
    /\ msg' = [msg EXCEPT ![m] = Ended(m, "success")]
    /\ UNCHANGED <<messaging, recorded, faults>>

\* RecordCommandRun: the run identity, made of the message's id, is unique.
Stored(m) == recorded[m] > 0

\* Mutant: the stored steps are compared as written, but MySQL reorders them.
SameRunVerbatim(m) == FALSE

\* A stored run equal to the repeated one is the same run: nothing of a run
\* changes between its attempts (sameCommandRunPayload).
SameRun(m) == TRUE

Completed(m, outcome) == outcome = "done" /\ (Stored(m) => SameRun(m))

Record(m, outcome) ==
    /\ Db(outcome)
    /\ IF outcome = "failed" \/ Stored(m) THEN UNCHANGED recorded
       ELSE recorded' = [recorded EXCEPT ![m] = @ + 1]
    /\ msg' = [msg EXCEPT ![m].phase =
         IF Completed(m, outcome) THEN "done" ELSE "retry"]
    /\ UNCHANGED messaging

\* persistRun, and scheduleRunPersistenceRetry after an error.
PersistRun(m, outcome) == msg[m].phase = "persist" /\ Record(m, outcome)
RetryRun(m, outcome) == msg[m].phase = "retry" /\ Record(m, outcome)

\* The process dies or is stopped and starts again; the registry is loaded
\* before any message or request is handled.
Restart ==
    /\ restarts < MaxRestarts
    /\ restarts' = restarts + 1
    /\ registry' = Loaded
    /\ task' = [e \in Editors |-> Idle]
    /\ msg' = [m \in Messages |->
         IF msg[m].phase \in {"waiting", "over", "done", "lost"} THEN msg[m]
         ELSE [msg[m] EXCEPT !.phase = "lost"]]
    /\ UNCHANGED <<rows, used, history, standing, recorded, faults>>

-----------------------------------------------------------------------------

Init ==
    /\ rows = <<>> /\ used = {} /\ registry = <<>>
    /\ task = [e \in Editors |-> Idle]
    /\ answered = [c \in Commands |-> 0] /\ contested = {}
    /\ msg = [m \in Messages |-> Waiting]
    /\ standing \in [Messages -> {"member", "admin", "allowlisted"}]
    /\ recorded = [m \in Messages |-> 0]
    /\ faults = 0 /\ restarts = 0

Outcomes == {"done", "failed", "lost"}

Edit(e) ==
    \/ BeginCreate(e) \/ BeginUpdate(e)
    \/ CheckConflicts(e) \/ CheckName(e)
    \/ \E o \in Outcomes : StoreCreate(e, o) \/ StoreUpdate(e, o)
    \/ Publish(e)
    \/ \E c \in Commands, o \in Outcomes : StoreDelete(e, c, o)
    \/ Remove(e)

Handle(m) ==
    \/ \E a \in {"answer", "error"} : AskStanding(m, a)
    \/ \E r \in {"none", "denied", "parse_error", "failed"} : Execute(m, r)
    \/ \E a \in {"ok", "rejected", "unavailable", "timeout", "garbled"} : Act(m, a)
    \/ Finish(m)
    \/ \E o \in Outcomes : PersistRun(m, o) \/ RetryRun(m, o)

Next ==
    \/ \E e \in Editors : Edit(e)
    \/ \E m \in Messages : Probe(m) \/ Handle(m)
    \/ Restart

Spec == Init /\ [][Next]_vars

\* Calls have deadlines and retry loops a ticking timer: what handles a message
\* goes on.  Nothing makes operators act, members write or the process restart.
Fairness == \A m \in Messages : WF_vars(Handle(m))
LiveSpec == Spec /\ Fairness

-----------------------------------------------------------------------------
(* Properties.                                                             *)

Phases == {"waiting", "probed", "asked", "acting", "persist", "retry", "done", "over", "lost"}

\* What each variable holds: stored commands valid in every field, an active
\* definition under every registry entry (custom_commands, registrySnapshot).
TypeOK ==
    /\ DOMAIN rows \subseteq used /\ used \subseteq Commands /\ DOMAIN registry \subseteq used
    /\ \A c \in DOMAIN rows : rows[c] \in Command
    /\ \A c \in DOMAIN registry : registry[c] \in Command /\ registry[c].active
    /\ \A e \in Editors : task[e].phase \in
         {"idle", "conflicts", "exists", "store", "publish", "remove"}
    /\ answered \in [Commands -> 0..MaxVersion + 1] /\ contested \subseteq Commands
    /\ \A m \in Messages : msg[m].phase \in Phases
    /\ faults \in 0..MaxFaults /\ restarts \in 0..MaxRestarts

\* A message's first token names at most one active command, however renames,
\* activations and deletions of several handlers interleave (Registry.Upsert).
NamesAnswerOnce ==
    \A c, d \in DOMAIN registry : registry[c].name = registry[d].name => c = d

\* Once a client was told that a version is stored, or the command deleted, the
\* registry holds nothing older, and holds it if it is active and still the
\* newest, unless two changes of the command awaited publication at a time
\* (Service.Update, Service.Delete: store first, then Upsert or Remove).
AnswersAreServed ==
    \A c \in Commands \ contested :
      /\ c \in DOMAIN registry => registry[c].version >= answered[c]
      /\ c \in DOMAIN rows => (rows[c].active /\ rows[c].version = answered[c] => c \in DOMAIN registry)

\* What messages are matched with is well formed, names one command, and is what
\* clients were told is stored: Registry.Upsert, Service.Update, Service.Delete.
RegistryIsSound == TypeOK /\ NamesAnswerOnce /\ AnswersAreServed

\* Whoever makes a command act satisfies the permission of the very definition
\* that acts, also when it changed between the probe and the match (Execute).
RunsArePermitted ==
    \A m \in Messages :
      msg[m].phase = "acting" =>
        CASE msg[m].command.permission = "everyone" -> TRUE
          [] msg[m].command.permission = "group_admin" -> standing[m] = "admin"
          [] OTHER -> standing[m] = "allowlisted"

\* No stored definition sends to other groups at everyone's word, although each
\* patch is validated against the row its handler read (validateAction,
\* UpdateCommand's revision).
SendsAreRestricted == \A c \in DOMAIN rows : Valid(rows[c])

\* Nobody makes a command act that he may not, and what not everyone may do is not
\* stored for everyone: Execute, validateAction.
ActingIsAllowed == RunsArePermitted /\ SendsAreRestricted

\* The result of a run is no better and no worse than what reached the groups:
\* failed and refused runs did nothing, success did everything, partial did
\* something, unknown has nothing confirmed (Execute).  An undecodable answer is
\* the exception: the code takes it for a failure, whatever it did.
ResultTellsTruth ==
    \A m \in Messages :
      msg[m].phase \in {"persist", "retry", "done"} =>
        LET all == Targets(msg[m].command.actions) IN
        CASE msg[m].result = "success" -> msg[m].effects = all
          [] msg[m].result = "partial" -> msg[m].effects \in 1..all
          [] msg[m].result = "unknown" -> msg[m].confirmed = 0
          [] OTHER -> msg[m].effects = 0 \/ msg[m].garbled

\* A command that acted is recorded once, whatever is retried after failures and
\* lost answers, unless the process dies first or the command is deleted
\* (persistRun, scheduleRunPersistenceRetry, RecordCommandRun).
RunsAreRecorded ==
    \A m \in Messages :
      msg[m].phase = "acting" ~>
        \/ msg[m].phase = "lost"
        \/ msg[m].phase = "done" /\ (msg[m].id \subseteq DOMAIN rows => recorded[m] = 1)

-----------------------------------------------------------------------------
(* What a comment promises and the code does not do.                       *)

\* service.go, Probe: Execute repeats the lookup so that "a concurrent command
\* update cannot execute a stale definition".  No exception is made there for two
\* updates of one command.
NeverStale ==
    [][\A m \in Messages, c \in Commands :
         ~(msg[m].phase = "asked" /\ c \in msg'[m].id /\ msg'[m].command.version < answered[c])]_vars

=============================================================================
