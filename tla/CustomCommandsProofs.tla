------------------------ MODULE CustomCommandsProofs ------------------------
(***************************************************************************)
(* Proofs about CustomCommands, for any number of commands, handlers,      *)
(* messages, versions, faults and restarts: a name has one command and the *)
(* registry is what clients were told, nobody makes a command act that he  *)
(* may not, and a run's result is what was done.                           *)
(*                                                                         *)
(* A handler works on what it read some steps ago.  The invariant says of  *)
(* each how that relates to the tables now (GoodTask): a validated patch   *)
(* is still valid if the row has the revision it was validated against,    *)
(* and a stored definition that awaits publication is the row itself       *)
(* unless another change of the command was stored meanwhile.              *)
(***************************************************************************)
EXTENDS CustomCommands, TLAPS

-----------------------------------------------------------------------------
(* Types.                                                                    *)

One == {{c} : c \in Commands}
Fields == {"name", "permission", "actions", "active"}
Standings == {"member", "admin", "allowlisted"}
Results == {"none", "success", "partial", "unknown", "failed", "denied", "parse_error"}

Creating == [phase : {"exists", "store"}, id : {{}}, patch : Definition]
Updating == [phase : {"conflicts", "exists", "store"}, id : One, patch : Patches,
             revision : {v \in 1..MaxVersion : v < MaxVersion}]
Publishing == [phase : {"publish"}, id : One, command : Command]
Removing == [phase : {"remove"}, id : One]
Tasks == {Idle} \cup Creating \cup Updating \cup Publishing \cup Removing

Passed == [phase : {"waiting", "over", "lost"}, id : {{}}]
Probed == [phase : {"probed", "lost"}, id : {{}}, name : Names, permission : Permissions]
Asked == [phase : {"asked", "lost"}, id : {{}}, name : Names, known : SUBSET Standings]
Runs == [phase : {"acting", "persist", "retry", "done", "lost"}, id : One, command : Command,
         confirmed : Nat, effects : Nat, garbled : BOOLEAN, result : Results]
Handlings == Passed \cup Probed \cup Asked \cup Runs

Types ==
    /\ DOMAIN rows \subseteq used /\ used \subseteq Commands /\ DOMAIN registry \subseteq used
    /\ \A c \in DOMAIN rows : rows[c] \in Command
    /\ \A c \in DOMAIN registry : registry[c] \in Command /\ registry[c].active
    /\ task \in [Editors -> Tasks]
    /\ answered \in [Commands -> 0..MaxVersion + 1] /\ contested \subseteq Commands
    /\ msg \in [Messages -> Handlings] /\ standing \in [Messages -> Standings]
    /\ faults \in 0..MaxFaults /\ restarts \in 0..MaxRestarts

-----------------------------------------------------------------------------
(* Handlers and tables.                                                      *)

\* A patch that was validated, stored, or answered: how it relates to the row.
StillValid(t) ==
    /\ t.id = {} => Valid(t.patch)
    /\ \A c \in t.id \cap DOMAIN rows :
         /\ t.revision <= rows[c].version
         /\ rows[c].version = t.revision => Valid(Apply(t.patch, rows[c]))

AwaitsPublication(t) ==
    \A c \in t.id :
        /\ c \in DOMAIN rows => t.command.version <= rows[c].version
        /\ c \notin contested => c \in DOMAIN rows /\ rows[c] = t.command

GoodTask(t) ==
    /\ t # Idle => t.id \subseteq used
    /\ t.phase \in {"conflicts", "exists", "store"} => StillValid(t)
    /\ t.phase = "publish" => AwaitsPublication(t)
    /\ t.phase = "remove" => t.id \cap DOMAIN rows = {}

TasksInv == \A e \in Editors : GoodTask(task[e])

RowNamesDiffer == \A c, d \in DOMAIN rows : rows[c].name = rows[d].name => c = d

AnswersAreStored ==
    \A c \in Commands :
        /\ c \notin used => answered[c] = 0
        /\ c \in DOMAIN rows => answered[c] <= rows[c].version

TablesInv ==
    RowNamesDiffer /\ NamesAnswerOnce /\ SendsAreRestricted /\ AnswersAreStored /\ AnswersAreServed

-----------------------------------------------------------------------------
(* Messages.                                                                 *)

Permitted(r, who) ==
    CASE r.command.permission = "everyone" -> TRUE
      [] r.command.permission = "group_admin" -> who = "admin"
      [] OTHER -> who = "allowlisted"

\* What is done so far is confirmed, group by group.
Exact(r) ==
    /\ r.confirmed <= Targets(r.command.actions)
    /\ r.effects = r.confirmed /\ r.garbled = FALSE

Told(r) ==
    LET all == Targets(r.command.actions) IN
    CASE r.result = "success" -> r.effects = all
      [] r.result = "partial" -> r.effects \in 1..all
      [] r.result = "unknown" -> r.confirmed = 0
      [] OTHER -> r.effects = 0 \/ r.garbled

GoodRun(r, who) ==
    /\ r.phase = "asked" => r.known \subseteq {who}
    /\ r.phase = "acting" => Permitted(r, who) /\ Exact(r)
    /\ r.phase \in {"persist", "retry", "done"} => Told(r)

RunsInv == \A m \in Messages : GoodRun(msg[m], standing[m])

Inv == Types /\ TasksInv /\ TablesInv /\ RunsInv

-----------------------------------------------------------------------------
(* Operators.                                                                *)

LEMMA ApplyType ==
    ASSUME NEW p \in Patches, NEW command \in Command
    PROVE  /\ Apply(p, command) \in Command
           /\ Apply(p, command).version = command.version
<1> DEFINE new == Apply(p, command)
<1>1. DOMAIN command = Fields \cup {"version"}
    BY DEF Command, Fields
<1>2. DOMAIN p \subseteq Fields
    BY DEF Patches, Fields
<1>3. DOMAIN new = DOMAIN command
    BY DEF Apply
<1>4. \A f \in DOMAIN command : new[f] = IF f \in DOMAIN p THEN p[f] ELSE command[f]
    BY DEF Apply
<1>5. /\ new.name \in Names /\ new.permission \in Permissions /\ new.actions \in Scripts
      /\ new.active \in BOOLEAN /\ new.version = command.version
    BY <1>1, <1>2, <1>4 DEF Patches, Command, Fields
<1>6. new = [name |-> new.name, permission |-> new.permission, actions |-> new.actions,
             active |-> new.active, version |-> new.version]
    BY <1>1, <1>3 DEF Apply, Fields
<1> HIDE DEF new
<1>7. new \in Command
    BY <1>5, <1>6 DEF Command
<1> QED BY <1>5, <1>7 DEF new

LEMMA WithType ==
    ASSUME NEW f, NEW c, NEW v
    PROVE  /\ DOMAIN With(f, c, v) = DOMAIN f \cup {c} /\ With(f, c, v)[c] = v
           /\ \A x \in DOMAIN f \ {c} : With(f, c, v)[x] = f[x]
BY DEF With

LEMMA WithoutType ==
    ASSUME NEW f, NEW c
    PROVE  /\ DOMAIN Without(f, c) = DOMAIN f \ {c}
           /\ \A x \in DOMAIN f \ {c} : Without(f, c)[x] = f[x]
BY DEF Without

LEMMA DbType ==
    ASSUME Types, NEW outcome, Db(outcome)
    PROVE  faults' \in 0..MaxFaults /\ outcome \in Outcomes
<1>1. faults \in 0..MaxFaults /\ MaxFaults \in Nat
    BY CommandsAssumption DEF Types
<1> QED BY <1>1 DEF Db, Outcomes

LEMMA TaskPhases ==
    ASSUME NEW t \in Tasks
    PROVE  /\ t.phase \in {"idle", "conflicts", "exists", "store", "publish", "remove"}
           /\ t.phase = "idle" <=> t = Idle
           /\ t.phase = "publish" => t \in Publishing
           /\ t.phase = "remove" => t \in Removing
           /\ t.phase = "conflicts" => t \in Updating
           /\ t.phase \in {"exists", "store"} => t \in Creating \cup Updating
BY DEF Tasks, Idle, Creating, Updating, Publishing, Removing

LEMMA RunPhases ==
    ASSUME NEW r \in Handlings
    PROVE  /\ r.phase \in Phases
           /\ r.phase = "probed" => r \in Probed
           /\ r.phase = "asked" => r \in Asked
           /\ r.phase \in {"acting", "persist", "retry", "done"} => r \in Runs
BY DEF Handlings, Passed, Probed, Asked, Runs, Phases

\* A handler that goes on leaves the others where they are.
LEMMA BecomeType ==
    ASSUME Types, NEW e \in Editors, NEW t \in Tasks, task' = [task EXCEPT ![e] = t]
    PROVE  /\ task' \in [Editors -> Tasks] /\ task'[e] = t
           /\ \A f \in Editors \ {e} : task'[f] = task[f]
BY DEF Types

-----------------------------------------------------------------------------
(* Frames.                                                                   *)

LEMMA TablesFrame ==
    ASSUME TablesInv, UNCHANGED <<rows, used, registry, answered, contested>>
    PROVE  TablesInv'
BY DEF TablesInv, RowNamesDiffer, NamesAnswerOnce, SendsAreRestricted, AnswersAreStored,
       AnswersAreServed

LEMMA RunsFrame ==
    ASSUME RunsInv, UNCHANGED <<msg, standing>>
    PROVE  RunsInv'
BY DEF RunsInv, GoodRun

LEMMA TasksFrame ==
    ASSUME TasksInv, UNCHANGED <<rows, used, contested, task>>
    PROVE  TasksInv'
BY DEF TasksInv, GoodTask, StillValid, AwaitsPublication

\* One handler goes on, and nothing is stored.
LEMMA TaskStep ==
    ASSUME Inv, NEW e \in Editors, NEW t \in Tasks, GoodTask(t),
           task' = [task EXCEPT ![e] = t],
           UNCHANGED <<rows, used, registry, answered, contested, msg, standing, faults, restarts>>
    PROVE  Inv'
<1>1. /\ task' \in [Editors -> Tasks] /\ task'[e] = t
      /\ \A f \in Editors \ {e} : task'[f] = task[f]
    BY BecomeType DEF Inv
<1>2. Types'
    BY <1>1 DEF Inv, Types
<1>3. TasksInv'
    <2>1. \A f \in Editors : GoodTask(task'[f])
        BY <1>1 DEF Inv, TasksInv
    <2> QED BY <2>1 DEF TasksInv, GoodTask, StillValid, AwaitsPublication
<1> QED BY <1>2, <1>3, TablesFrame, RunsFrame DEF Inv

LEMMA IdleTask == Idle \in Tasks /\ GoodTask(Idle)
BY DEF Tasks, GoodTask, Idle

-----------------------------------------------------------------------------
(* Console handlers.                                                         *)

LEMMA BeginCreateStep ==
    ASSUME Inv, NEW e \in Editors, BeginCreate(e)
    PROVE  Inv'
<1>1. PICK d \in Definition :
        /\ Valid(d)
        /\ task' = [task EXCEPT ![e] = [phase |-> "exists", id |-> {}, patch |-> d]]
    BY DEF BeginCreate
<1> DEFINE t == [phase |-> "exists", id |-> {}, patch |-> d]
<1>2. t \in Tasks /\ GoodTask(t)
    BY <1>1 DEF Tasks, Creating, GoodTask, StillValid
<1> QED BY <1>1, <1>2, TaskStep DEF BeginCreate, history, editing

LEMMA BeginUpdateStep ==
    ASSUME Inv, NEW e \in Editors, BeginUpdate(e)
    PROVE  Inv'
<1>1. PICK c \in DOMAIN rows, p \in Patches :
        /\ rows[c].version < MaxVersion /\ Valid(Apply(p, rows[c]))
        /\ task' = [task EXCEPT ![e] =
             [phase |-> IF Apply(p, rows[c]).name = rows[c].name THEN "store" ELSE "conflicts",
              id |-> {c}, patch |-> p, revision |-> rows[c].version]]
    BY DEF BeginUpdate
<1> DEFINE phase == IF Apply(p, rows[c]).name = rows[c].name THEN "store" ELSE "conflicts"
           t == [phase |-> phase, id |-> {c}, patch |-> p, revision |-> rows[c].version]
<1>2. c \in used /\ c \in Commands /\ rows[c].version \in 1..MaxVersion /\ MaxVersion \in Nat
    BY CommandsAssumption DEF Inv, Types, Command
<1>3. t \in Updating
    BY <1>1, <1>2 DEF Updating, One
<1>4. GoodTask(t)
    BY <1>1, <1>2 DEF GoodTask, StillValid, Idle
<1> HIDE DEF t
<1>5. t \in Tasks
    BY <1>3 DEF Tasks
<1>6. task' = [task EXCEPT ![e] = t]
    BY <1>1 DEF t
<1> QED BY <1>4, <1>5, <1>6, TaskStep DEF BeginUpdate, history, editing

\* The checks only decide whether the handler goes on.
LEMMA CheckStep ==
    ASSUME Inv, NEW e \in Editors, CheckConflicts(e) \/ CheckName(e)
    PROVE  Inv'
<1>1. task[e] \in Tasks /\ GoodTask(task[e])
    BY DEF Inv, Types, TasksInv
<1>2. ASSUME NEW next \in {"exists", "store"}, task[e].phase \in {"conflicts", "exists"},
             next = "store" => task[e].phase = "exists"
      PROVE  [task[e] EXCEPT !.phase = next] \in Tasks /\ GoodTask([task[e] EXCEPT !.phase = next])
    <2>1. task[e] \in Creating \cup Updating /\ (task[e] \in Creating => task[e].phase = "exists")
        BY <1>1, <1>2, TaskPhases DEF Creating
    <2> DEFINE t == [task[e] EXCEPT !.phase = next]
    <2>2. t \in Creating \cup Updating
        BY <1>2, <2>1 DEF Creating, Updating
    <2>3. /\ t.phase = next /\ t.id = task[e].id /\ t.patch = task[e].patch
          /\ task[e] \in Updating => t.revision = task[e].revision
          /\ task[e] \in Creating => task[e].id = {}
          /\ task[e] # Idle
        BY <2>1 DEF Creating, Updating, Idle
    <2>4. StillValid(task[e]) /\ task[e].id \subseteq used
        BY <1>1, <1>2, <2>3 DEF GoodTask
    <2> HIDE DEF t
    <2>5. GoodTask(t)
        BY <1>2, <2>1, <2>3, <2>4 DEF GoodTask, StillValid
    <2>6. t \in Tasks
        BY <2>2 DEF Tasks
    <2> QED BY <2>5, <2>6 DEF t
<1>3. \E t : /\ t \in {Idle, [task[e] EXCEPT !.phase = "exists"], [task[e] EXCEPT !.phase = "store"]}
             /\ task' = [task EXCEPT ![e] = t] /\ t \in Tasks /\ GoodTask(t)
    <2>1. CASE CheckConflicts(e)
        BY <1>2, <2>1, IdleTask DEF CheckConflicts
    <2>2. CASE CheckName(e)
        BY <1>2, <2>2, IdleTask DEF CheckName
    <2> QED BY <2>1, <2>2
<1> QED BY <1>3, TaskStep DEF CheckConflicts, CheckName, history, editing

\* A new row takes an id and a name that nothing knows.
LEMMA StoreCreateStep ==
    ASSUME Inv, NEW e \in Editors, NEW outcome, StoreCreate(e, outcome)
    PROVE  Inv'
<1>1. /\ Types /\ TasksInv /\ TablesInv /\ RunsInv
      /\ task[e].phase = "store" /\ task[e].id = {}
      /\ UNCHANGED <<registry, answered, contested, msg, standing, restarts>>
    BY DEF Inv, StoreCreate, history, editing
<1>2. task[e] \in Creating
    BY <1>1, TaskPhases DEF Types, Updating, One
<1>3. faults' \in 0..MaxFaults
    BY <1>1, DbType DEF StoreCreate
<1> DEFINE d == task[e].patch
           command == [name |-> d.name, permission |-> d.permission, actions |-> d.actions,
                       active |-> FALSE, version |-> 1]
<1>4. CASE task' = [task EXCEPT ![e] = Idle] /\ UNCHANGED <<rows, used>>
    <2>1. /\ task' \in [Editors -> Tasks] /\ task'[e] = Idle
          /\ \A f \in Editors \ {e} : task'[f] = task[f]
        BY <1>1, <1>4, IdleTask, BecomeType
    <2>2. Types'
        BY <1>1, <1>3, <1>4, <2>1 DEF Types
    <2>3. TasksInv'
        <3>1. \A f \in Editors : GoodTask(task'[f])
            BY <1>1, <2>1, IdleTask DEF TasksInv
        <3> QED BY <1>1, <1>4, <3>1 DEF TasksInv, GoodTask, StillValid, AwaitsPublication
    <2> QED BY <1>1, <1>4, <2>2, <2>3, TablesFrame, RunsFrame DEF Inv
<1>5. ASSUME NEW c \in Commands \ used, Holders(rows, d.name, {}) = {},
             rows' = With(rows, c, command), used' = used \cup {c}, ToPublish(e, c, outcome)
      PROVE  Inv'
    <2>1. d \in Definition /\ Valid(d)
        BY <1>1, <1>2 DEF TasksInv, GoodTask, StillValid, Creating
    <2>2. /\ command \in Command /\ command.name = d.name /\ command.version = 1
          /\ Valid(command) /\ command.active = FALSE
        BY <2>1, CommandsAssumption DEF Definition, Command, Valid
    <2> HIDE DEF command
    <2>3. /\ DOMAIN rows' = DOMAIN rows \cup {c} /\ rows'[c] = command
          /\ \A x \in DOMAIN rows \ {c} : rows'[x] = rows[x]
        BY <1>5 DEF With
    <2>4. c \notin DOMAIN rows /\ c \notin DOMAIN registry
        BY <1>1, <1>5 DEF Types
    <2> DEFINE t == IF outcome = "done" THEN [phase |-> "publish", id |-> {c}, command |-> command]
                    ELSE Idle
    <2>5. task' = [task EXCEPT ![e] = t]
        BY <1>5, <2>3 DEF ToPublish
    <2>6. /\ t \in Tasks
          /\ t # Idle => t.phase = "publish" /\ t.id = {c} /\ t.command = command
        BY <2>2 DEF Tasks, Publishing, One
    <2> HIDE DEF t
    <2>7. /\ task' \in [Editors -> Tasks] /\ task'[e] = t
          /\ \A f \in Editors \ {e} : task'[f] = task[f]
        BY <1>1, <2>5, <2>6, BecomeType
    <2>8. Types'
        BY <1>1, <1>3, <1>5, <2>2, <2>3, <2>4, <2>7 DEF Types
    <2>9. TasksInv'
        <3> SUFFICES ASSUME NEW f \in Editors PROVE GoodTask(task[f])'
            BY DEF TasksInv
        <3>1. CASE f = e
            <4>1. CASE t = Idle
                BY <2>7, <3>1, <4>1 DEF GoodTask, Idle
            <4>2. CASE t # Idle
                BY <1>5, <2>2, <2>3, <2>6, <2>7, <3>1, <4>2 DEF GoodTask, AwaitsPublication, Command
            <4> QED BY <4>1, <4>2
        <3>2. CASE f # e
            <4>1. task'[f] = task[f] /\ GoodTask(task[f])
                BY <1>1, <2>7, <3>2 DEF TasksInv
            <4>2. CASE task[f] = Idle
                BY <4>1, <4>2 DEF GoodTask, Idle
            <4>3. CASE task[f] # Idle
                <5>1. task[f].id \subseteq used /\ c \notin task[f].id
                    BY <1>5, <4>1, <4>3 DEF GoodTask
                <5>2. \A x \in task[f].id : /\ x \in DOMAIN rows' <=> x \in DOMAIN rows
                                            /\ x \in DOMAIN rows => rows'[x] = rows[x]
                    BY <2>3, <5>1
                <5> QED BY <1>1, <1>5, <4>1, <5>1, <5>2
                        DEF GoodTask, StillValid, AwaitsPublication
            <4> QED BY <4>2, <4>3
        <3> QED BY <3>1, <3>2
    <2>10. TablesInv'
        <3>1. RowNamesDiffer'
            BY <1>1, <1>5, <2>2, <2>3 DEF TablesInv, RowNamesDiffer, Holders
        <3>2. NamesAnswerOnce'
            BY <1>1 DEF TablesInv, NamesAnswerOnce
        <3>3. SendsAreRestricted'
            BY <1>1, <2>2, <2>3 DEF TablesInv, SendsAreRestricted
        <3>4. AnswersAreStored'
            BY <1>1, <1>5, <2>2, <2>3 DEF TablesInv, AnswersAreStored
        <3>5. AnswersAreServed'
            BY <1>1, <1>5, <2>2, <2>3, <2>4 DEF TablesInv, AnswersAreServed, AnswersAreStored
        <3> QED BY <3>1, <3>2, <3>3, <3>4, <3>5 DEF TablesInv
    <2> QED BY <1>1, <2>8, <2>9, <2>10, RunsFrame DEF Inv
<1> QED BY <1>4, <1>5 DEF StoreCreate

\* Whoever has stored a change of c and not published it yet is contested by the next.
LEMMA OthersContested ==
    ASSUME Types, NEW e, NEW c, Contest(e, c), NEW f \in Editors \ {e},
           task[f].phase \in {"publish", "remove"}, c \in task[f].id
    PROVE  c \in contested'
<1>1. task[f].id = {c}
    BY TaskPhases DEF Types, Publishing, Removing, One
<1> QED BY <1>1 DEF Contest, Contests

\* A stored update ages every patch that was validated against the row before it.
LEMMA StoreUpdateStep ==
    ASSUME Inv, NEW e \in Editors, NEW outcome, StoreUpdate(e, outcome)
    PROVE  Inv'
<1>1. /\ Types /\ TasksInv /\ TablesInv /\ RunsInv
      /\ task[e].phase = "store" /\ task[e].id # {}
      /\ UNCHANGED <<used, registry, answered, msg, standing, restarts>>
    BY DEF Inv, StoreUpdate, editing
<1>2. task[e] \in Updating
    BY <1>1, TaskPhases DEF Types, Creating
<1>3. faults' \in 0..MaxFaults
    BY <1>1, DbType DEF StoreUpdate
<1>4. CASE task' = [task EXCEPT ![e] = Idle] /\ UNCHANGED <<rows, contested>>
    <2>1. /\ task' \in [Editors -> Tasks] /\ task'[e] = Idle
          /\ \A f \in Editors \ {e} : task'[f] = task[f]
        BY <1>1, <1>4, IdleTask, BecomeType
    <2>2. Types'
        BY <1>1, <1>3, <1>4, <2>1 DEF Types
    <2>3. TasksInv'
        <3>1. \A f \in Editors : GoodTask(task'[f])
            BY <1>1, <2>1, IdleTask DEF TasksInv
        <3> QED BY <1>1, <1>4, <3>1 DEF TasksInv, GoodTask, StillValid, AwaitsPublication
    <2> QED BY <1>1, <1>4, <2>2, <2>3, TablesFrame, RunsFrame DEF Inv
<1>5. ASSUME NEW c \in task[e].id, Current(c, task[e].revision),
             Holders(rows, Apply(task[e].patch, rows[c]).name, {c}) = {},
             rows' = [rows EXCEPT ![c] =
                        [Apply(task[e].patch, rows[c]) EXCEPT !.version = @ + 1]],
             ToPublish(e, c, outcome), Contest(e, c)
      PROVE  Inv'
    <2> DEFINE applied == Apply(task[e].patch, rows[c])
               command == [applied EXCEPT !.version = @ + 1]
    <2>1. /\ c \in DOMAIN rows /\ rows[c].version = task[e].revision /\ rows[c] \in Command
          /\ rows[c].version < MaxVersion /\ task[e].id = {c} /\ c \in used /\ c \in Commands
          /\ task[e].patch \in Patches /\ rows[c].version \in Nat /\ MaxVersion \in Nat
        BY <1>1, <1>2, <1>5, CommandsAssumption DEF Current, Types, Updating, One, Command
    <2>2. /\ applied \in Command /\ applied.version = rows[c].version /\ Valid(applied)
        <3>1. Valid(applied)
            BY <1>1, <1>2, <2>1 DEF TasksInv, GoodTask, StillValid
        <3> QED BY <2>1, <3>1, ApplyType
    <2>3. rows' = [rows EXCEPT ![c] = command]
        BY <1>5
    <2>4. Holders(rows, applied.name, {c}) = {}
        BY <1>5
    <2> HIDE DEF applied
    <2>5. /\ command \in Command /\ command.version = rows[c].version + 1
          /\ Valid(command) /\ command.name = applied.name
        BY <2>1, <2>2 DEF Command, Valid
    <2> HIDE DEF command
    <2>6. /\ DOMAIN rows' = DOMAIN rows /\ rows'[c] = command
          /\ \A x \in DOMAIN rows \ {c} : rows'[x] = rows[x]
        BY <2>1, <2>3
    <2> DEFINE t == IF outcome = "done" THEN [phase |-> "publish", id |-> {c}, command |-> command]
                    ELSE Idle
    <2>7. task' = [task EXCEPT ![e] = t]
        BY <1>5, <2>6 DEF ToPublish
    <2>8. /\ t \in Tasks
          /\ t # Idle => t.phase = "publish" /\ t.id = {c} /\ t.command = command
        BY <2>1, <2>5 DEF Tasks, Publishing, One
    <2> HIDE DEF t
    <2>9. /\ task' \in [Editors -> Tasks] /\ task'[e] = t
          /\ \A f \in Editors \ {e} : task'[f] = task[f]
        BY <1>1, <2>7, <2>8, BecomeType
    <2>10. contested' \subseteq contested \cup {c} /\ contested \subseteq contested'
        BY <1>5 DEF Contest
    <2>11. Types'
        BY <1>1, <1>3, <2>1, <2>5, <2>6, <2>9, <2>10 DEF Types
    <2>12. TasksInv'
        <3> SUFFICES ASSUME NEW f \in Editors PROVE GoodTask(task[f])'
            BY DEF TasksInv
        <3>1. CASE f = e
            <4>1. CASE t = Idle
                BY <2>9, <3>1, <4>1 DEF GoodTask, Idle
            <4>2. CASE t # Idle
                BY <1>1, <2>1, <2>5, <2>6, <2>8, <2>9, <3>1, <4>2
                   DEF GoodTask, AwaitsPublication, Command
            <4> QED BY <4>1, <4>2
        <3>2. CASE f # e
            <4>1. task'[f] = task[f] /\ GoodTask(task[f])
                BY <1>1, <2>9, <3>2 DEF TasksInv
            <4>2. task[f] \in Tasks
                BY <1>1 DEF Types
            <4>3. CASE task[f].phase \in {"conflicts", "exists", "store"}
                <5>1. StillValid(task[f])
                    BY <4>1, <4>3 DEF GoodTask
                <5>2. ASSUME NEW x \in task[f].id \cap DOMAIN rows'
                      PROVE  /\ task[f].revision <= rows'[x].version
                             /\ rows'[x].version = task[f].revision =>
                                  Valid(Apply(task[f].patch, rows'[x]))
                    <6>1. task[f] \in Updating /\ x \in DOMAIN rows
                        BY <2>6, <4>2, <4>3, <5>2, TaskPhases DEF Creating
                    <6>2. task[f].revision \in Nat
                        BY <6>1 DEF Updating
                    <6>3. /\ task[f].revision <= rows[x].version
                          /\ rows[x].version = task[f].revision =>
                               Valid(Apply(task[f].patch, rows[x]))
                        BY <5>1, <5>2, <6>1 DEF StillValid
                    <6> QED BY <2>1, <2>5, <2>6, <6>1, <6>2, <6>3
                <5> QED BY <1>1, <4>1, <4>3, <5>1, <5>2 DEF GoodTask, StillValid
            <4>4. CASE task[f].phase = "publish"
                <5>1. AwaitsPublication(task[f]) /\ task[f] \in Publishing
                    BY <4>1, <4>2, <4>4, TaskPhases DEF GoodTask
                <5>2. task[f].command.version \in Nat
                    BY <5>1 DEF Publishing, Command
                <5>3. c \in task[f].id => c \in contested'
                    BY <1>1, <1>5, <3>2, <4>4, OthersContested
                <5>4. AwaitsPublication(task[f])'
                    BY <2>1, <2>5, <2>6, <2>10, <4>1, <5>1, <5>2, <5>3 DEF AwaitsPublication
                <5> QED BY <1>1, <4>1, <4>4, <5>4 DEF GoodTask
            <4>5. CASE task[f].phase \in {"remove", "idle"}
                BY <1>1, <2>6, <4>1, <4>5 DEF GoodTask
            <4> QED BY <4>2, <4>3, <4>4, <4>5, TaskPhases
        <3> QED BY <3>1, <3>2
    <2>13. TablesInv'
        <3>1. RowNamesDiffer'
            BY <1>1, <2>4, <2>5, <2>6 DEF TablesInv, RowNamesDiffer, Holders
        <3>2. NamesAnswerOnce'
            BY <1>1 DEF TablesInv, NamesAnswerOnce
        <3>3. SendsAreRestricted'
            BY <1>1, <2>5, <2>6 DEF TablesInv, SendsAreRestricted
        <3>4. \A x \in Commands : answered[x] \in Nat
            BY <1>1, <2>1 DEF Types
        <3>5. AnswersAreStored'
            BY <1>1, <2>1, <2>5, <2>6, <3>4 DEF TablesInv, AnswersAreStored
        <3>6. AnswersAreServed'
            BY <1>1, <2>1, <2>5, <2>6, <2>10, <3>4 DEF TablesInv, AnswersAreServed, AnswersAreStored
        <3> QED BY <3>1, <3>2, <3>3, <3>5, <3>6 DEF TablesInv
    <2> QED BY <1>1, <2>11, <2>12, <2>13, RunsFrame DEF Inv
<1>6. PICK c \in task[e].id :
        \/ task' = [task EXCEPT ![e] = Idle] /\ UNCHANGED <<rows, contested>>
        \/ /\ Current(c, task[e].revision)
           /\ Holders(rows, Apply(task[e].patch, rows[c]).name, {c}) = {}
           /\ rows' = [rows EXCEPT ![c] = [Apply(task[e].patch, rows[c]) EXCEPT !.version = @ + 1]]
           /\ ToPublish(e, c, outcome) /\ Contest(e, c)
    BY DEF StoreUpdate
<1> QED BY <1>4, <1>5, <1>6

\* What is published is the row itself, or was contested.
LEMMA PublishStep ==
    ASSUME Inv, NEW e \in Editors, Publish(e)
    PROVE  Inv'
<1>1. /\ Types /\ TasksInv /\ TablesInv /\ RunsInv /\ task[e].phase = "publish"
      /\ UNCHANGED <<rows, used, contested, faults, msg, standing, restarts>>
      /\ task' = [task EXCEPT ![e] = Idle]
    BY DEF Inv, Publish, editing
<1>2. task[e] \in Publishing /\ GoodTask(task[e])
    BY <1>1, TaskPhases DEF Types, TasksInv
<1> DEFINE command == task[e].command
<1>3. PICK c \in task[e].id :
        /\ registry' = Upserted(c, command)
        /\ answered' = IF Clashes(c, command) \/ command.version < answered[c] THEN answered
                       ELSE [answered EXCEPT ![c] = command.version]
    BY DEF Publish
<1>4. /\ task[e].id = {c} /\ c \in Commands /\ c \in used /\ command \in Command
      /\ command.version \in 1..MaxVersion /\ command.version \in Nat /\ MaxVersion \in Nat
    BY <1>1, <1>2, <1>3, CommandsAssumption DEF Publishing, One, Command, GoodTask, Idle
<1>5. /\ c \in DOMAIN rows => command.version <= rows[c].version
      /\ c \notin contested => c \in DOMAIN rows /\ rows[c] = command
    BY <1>1, <1>2, <1>4 DEF GoodTask, AwaitsPublication
<1>6. /\ task' \in [Editors -> Tasks] /\ task'[e] = Idle
      /\ \A f \in Editors \ {e} : task'[f] = task[f]
    BY <1>1, IdleTask, BecomeType
<1>7. /\ DOMAIN registry' \subseteq DOMAIN registry \cup {c}
      /\ \A x \in DOMAIN registry' \ {c} : x \in DOMAIN registry /\ registry'[x] = registry[x]
      /\ \A x \in DOMAIN registry \ {c} : x \in DOMAIN registry'
    <2>1. CASE registry' = registry
        BY <2>1
    <2>2. CASE registry' = With(registry, c, command)
        BY <2>2 DEF With
    <2>3. CASE registry' = Without(registry, c)
        BY <2>3 DEF Without
    <2> QED BY <1>3, <2>1, <2>2, <2>3 DEF Upserted
<1>8. \/ Clashes(c, command) /\ registry' = registry /\ answered' = answered
      \/ /\ ~Clashes(c, command) /\ command.active
         /\ c \in DOMAIN registry' /\ registry'[c] = command
      \/ ~Clashes(c, command) /\ ~command.active /\ c \notin DOMAIN registry'
    BY <1>3 DEF Upserted, With, Without
<1> HIDE DEF command
<1>9. /\ answered' \in [Commands -> 0..MaxVersion + 1]
      /\ \A x \in Commands \ {c} : answered'[x] = answered[x]
      /\ answered'[c] = answered[c] \/ answered'[c] = command.version
      /\ ~Clashes(c, command) => answered'[c] >= command.version
    <2>1. answered[c] \in Nat /\ answered \in [Commands -> 0..MaxVersion + 1]
        BY <1>1, <1>4 DEF Types
    <2>2. command.version \in 0..MaxVersion + 1
        BY <1>4
    <2> QED BY <1>3, <1>4, <2>1, <2>2
<1>10. Types'
    <2>1. \A x \in DOMAIN registry' : registry'[x] \in Command /\ registry'[x].active
        BY <1>1, <1>4, <1>7, <1>8 DEF Types
    <2> QED BY <1>1, <1>4, <1>6, <1>7, <1>9, <2>1 DEF Types
<1>11. TasksInv'
    <2>1. \A f \in Editors : GoodTask(task'[f])
        BY <1>1, <1>6, IdleTask DEF TasksInv
    <2> QED BY <1>1, <2>1 DEF TasksInv, GoodTask, StillValid, AwaitsPublication
<1>12. TablesInv'
    <2>1. RowNamesDiffer' /\ SendsAreRestricted'
        BY <1>1 DEF TablesInv, RowNamesDiffer, SendsAreRestricted
    <2>2. NamesAnswerOnce'
        <3>1. NamesAnswerOnce
            BY <1>1 DEF TablesInv
        <3>2. ~Clashes(c, command) /\ command.active =>
                \A x \in DOMAIN registry \ {c} : registry[x].name # command.name
            BY DEF Clashes, Holders
        <3> QED BY <1>7, <1>8, <3>1, <3>2 DEF NamesAnswerOnce
    <2>3. AnswersAreStored'
        BY <1>1, <1>4, <1>5, <1>9 DEF TablesInv, AnswersAreStored
    <2>4. AnswersAreServed'
        <3> SUFFICES ASSUME NEW x \in Commands \ contested
                     PROVE  /\ x \in DOMAIN registry' => registry'[x].version >= answered'[x]
                            /\ x \in DOMAIN rows =>
                                 (rows[x].active /\ rows[x].version = answered'[x] =>
                                    x \in DOMAIN registry')
            BY <1>1 DEF AnswersAreServed
        <3>1. CASE x # c
            BY <1>1, <1>7, <1>9, <3>1 DEF TablesInv, AnswersAreServed
        <3>2. CASE x = c
            <4>1. /\ c \in DOMAIN rows /\ rows[c] = command /\ answered[c] <= command.version
                  /\ answered[c] \in Nat
                BY <1>1, <1>4, <1>5, <3>2 DEF TablesInv, AnswersAreStored, Types
            <4>2. CASE Clashes(c, command)
                BY <1>1, <1>8, <3>2, <4>2 DEF TablesInv, AnswersAreServed
            <4>3. CASE ~Clashes(c, command)
                <5>1. answered'[c] = command.version
                    BY <1>4, <1>9, <4>1, <4>3
                <5> QED BY <1>4, <1>8, <3>2, <4>1, <4>3, <5>1
            <4> QED BY <4>2, <4>3
        <3> QED BY <3>1, <3>2
    <2> QED BY <2>1, <2>2, <2>3, <2>4 DEF TablesInv
<1> QED BY <1>1, <1>10, <1>11, <1>12, RunsFrame DEF Inv

\* A deleted row is contested if a change of it awaited publication.
LEMMA StoreDeleteStep ==
    ASSUME Inv, NEW e \in Editors, NEW c \in Commands, NEW outcome, StoreDelete(e, c, outcome)
    PROVE  Inv'
<1>1. /\ Types /\ TasksInv /\ TablesInv /\ RunsInv /\ task[e] = Idle /\ c \in DOMAIN rows
      /\ c \in used /\ UNCHANGED <<used, registry, answered, msg, standing, restarts>>
    BY DEF Inv, Types, StoreDelete, editing
<1>2. faults' \in 0..MaxFaults
    BY <1>1, DbType DEF StoreDelete
<1>3. CASE UNCHANGED <<rows, task, contested>>
    <2>1. Types'
        BY <1>1, <1>2, <1>3 DEF Types
    <2> QED BY <1>1, <1>3, <2>1, TasksFrame, TablesFrame, RunsFrame DEF Inv
<1>4. CASE /\ rows' = Without(rows, c) /\ Contest(e, c)
           /\ task' = [task EXCEPT ![e] =
                IF outcome = "done" THEN [phase |-> "remove", id |-> {c}] ELSE Idle]
    <2> DEFINE t == IF outcome = "done" THEN [phase |-> "remove", id |-> {c}] ELSE Idle
    <2>1. /\ DOMAIN rows' = DOMAIN rows \ {c}
          /\ \A x \in DOMAIN rows' : rows'[x] = rows[x]
        BY <1>4 DEF Without
    <2>2. /\ t \in Tasks /\ task' = [task EXCEPT ![e] = t]
          /\ t # Idle => t.phase = "remove" /\ t.id = {c}
        BY <1>4 DEF Tasks, Removing, One
    <2> HIDE DEF t
    <2>3. /\ task' \in [Editors -> Tasks] /\ task'[e] = t
          /\ \A f \in Editors \ {e} : task'[f] = task[f]
        BY <1>1, <2>2, BecomeType
    <2>4. contested' \subseteq contested \cup {c} /\ contested \subseteq contested'
        BY <1>4 DEF Contest
    <2>5. Types'
        BY <1>1, <1>2, <2>1, <2>3, <2>4 DEF Types
    <2>6. TasksInv'
        <3> SUFFICES ASSUME NEW f \in Editors PROVE GoodTask(task[f])'
            BY DEF TasksInv
        <3>1. CASE f = e
            BY <1>1, <2>1, <2>2, <2>3, <3>1 DEF GoodTask, Idle
        <3>2. CASE f # e
            <4>1. task'[f] = task[f] /\ GoodTask(task[f]) /\ task[f] \in Tasks
                BY <1>1, <2>3, <3>2 DEF TasksInv, Types
            <4>2. CASE task[f].phase = "publish"
                <5>1. c \in task[f].id => c \in contested'
                    BY <1>1, <1>4, <3>2, <4>2, OthersContested
                <5> QED BY <1>1, <2>1, <2>4, <4>1, <4>2, <5>1 DEF GoodTask, AwaitsPublication
            <4>3. CASE task[f].phase # "publish"
                BY <1>1, <2>1, <4>1, <4>3 DEF GoodTask, StillValid
            <4> QED BY <4>2, <4>3
        <3> QED BY <3>1, <3>2
    <2>7. TablesInv'
        BY <1>1, <2>1, <2>4 DEF TablesInv, RowNamesDiffer, NamesAnswerOnce, SendsAreRestricted,
                                AnswersAreStored, AnswersAreServed
    <2> QED BY <1>1, <2>5, <2>6, <2>7, RunsFrame DEF Inv
<1> QED BY <1>3, <1>4 DEF StoreDelete

LEMMA RemoveStep ==
    ASSUME Inv, NEW e \in Editors, Remove(e)
    PROVE  Inv'
<1>1. /\ Types /\ TasksInv /\ TablesInv /\ RunsInv /\ task[e].phase = "remove"
      /\ UNCHANGED <<rows, used, contested, faults, msg, standing, restarts>>
      /\ task' = [task EXCEPT ![e] = Idle]
    BY DEF Inv, Remove, editing
<1>2. task[e] \in Removing /\ GoodTask(task[e])
    BY <1>1, TaskPhases DEF Types, TasksInv
<1>3. PICK c \in task[e].id : /\ registry' = Without(registry, c)
                              /\ answered' = [answered EXCEPT ![c] = MaxVersion + 1]
    BY DEF Remove
<1>4. c \in Commands /\ c \in used /\ c \notin DOMAIN rows /\ MaxVersion \in Nat
    BY <1>1, <1>2, <1>3, CommandsAssumption DEF Removing, One, GoodTask, Idle
<1>5. /\ DOMAIN registry' = DOMAIN registry \ {c}
      /\ \A x \in DOMAIN registry' : registry'[x] = registry[x]
    BY <1>3 DEF Without
<1>6. /\ answered' \in [Commands -> 0..MaxVersion + 1]
      /\ \A x \in Commands \ {c} : answered'[x] = answered[x]
    BY <1>1, <1>3, <1>4 DEF Types
<1>7. /\ task' \in [Editors -> Tasks] /\ task'[e] = Idle
      /\ \A f \in Editors \ {e} : task'[f] = task[f]
    BY <1>1, IdleTask, BecomeType
<1>8. Types'
    BY <1>1, <1>5, <1>6, <1>7 DEF Types
<1>9. TasksInv'
    <2>1. \A f \in Editors : GoodTask(task'[f])
        BY <1>1, <1>7, IdleTask DEF TasksInv
    <2> QED BY <1>1, <2>1 DEF TasksInv, GoodTask, StillValid, AwaitsPublication
<1>10. TablesInv'
    BY <1>1, <1>4, <1>5, <1>6 DEF TablesInv, RowNamesDiffer, NamesAnswerOnce, SendsAreRestricted,
                                  AnswersAreStored, AnswersAreServed
<1> QED BY <1>1, <1>8, <1>9, <1>10, RunsFrame DEF Inv

-----------------------------------------------------------------------------
(* Messages.                                                                 *)

\* One message goes on, and the tables stay.
LEMMA MessageStep ==
    ASSUME Inv, NEW m \in Messages, NEW r \in Handlings, GoodRun(r, standing[m]),
           msg' = [msg EXCEPT ![m] = r], faults' \in 0..MaxFaults,
           UNCHANGED <<rows, used, registry, task, answered, contested, standing, restarts>>
    PROVE  Inv'
<1>1. /\ msg' \in [Messages -> Handlings] /\ msg'[m] = r
      /\ \A n \in Messages \ {m} : msg'[n] = msg[n]
    BY DEF Inv, Types
<1>2. Types'
    BY <1>1 DEF Inv, Types
<1>3. RunsInv'
    <2>1. \A n \in Messages : GoodRun(msg'[n], standing[n])
        BY <1>1 DEF Inv, RunsInv
    <2> QED BY <2>1 DEF RunsInv, GoodRun
<1> QED BY <1>2, <1>3, TasksFrame, TablesFrame DEF Inv

LEMMA ProbeStep ==
    ASSUME Inv, NEW m \in Messages, Probe(m) \/ \E answer : AskStanding(m, answer)
    PROVE  Inv'
<1>1. faults' \in 0..MaxFaults
    BY DEF Inv, Types, Probe, AskStanding
<1>2. UNCHANGED <<rows, used, registry, task, answered, contested, standing, restarts>>
    BY DEF Probe, AskStanding, messaging, history
<1>3. CASE Probe(m)
    <2>1. PICK c \in DOMAIN registry :
            msg' = [msg EXCEPT ![m] = [phase |-> "probed", id |-> {}, name |-> registry[c].name,
                                       permission |-> registry[c].permission]]
        BY <1>3 DEF Probe
    <2> DEFINE r == [phase |-> "probed", id |-> {}, name |-> registry[c].name,
                     permission |-> registry[c].permission]
    <2>2. r \in Handlings /\ GoodRun(r, standing[m])
        BY DEF Inv, Types, Command, Handlings, Probed, GoodRun
    <2> HIDE DEF r
    <2>3. msg' = [msg EXCEPT ![m] = r]
        BY <2>1 DEF r
    <2> QED BY <1>1, <1>2, <2>2, <2>3, MessageStep
<1>4. ASSUME NEW answer, AskStanding(m, answer) PROVE Inv'
    <2> DEFINE over == [phase |-> "over", id |-> {}]
               asked == [phase |-> "asked", id |-> {}, name |-> msg[m].name, known |-> Known(m)]
    <2>1. msg[m] \in Probed /\ standing[m] \in Standings
        BY <1>4, RunPhases DEF Inv, Types, AskStanding
    <2>2. Known(m) \subseteq {standing[m]}
        BY DEF Known
    <2>3. over \in Handlings /\ GoodRun(over, standing[m])
        BY DEF Handlings, Passed, GoodRun
    <2>4. asked \in Handlings /\ GoodRun(asked, standing[m])
        BY <2>1, <2>2 DEF Handlings, Probed, Asked, GoodRun
    <2>5. msg' = [msg EXCEPT ![m] = over] \/ msg' = [msg EXCEPT ![m] = asked]
        BY <1>4 DEF AskStanding
    <2> HIDE DEF over, asked
    <2> QED BY <1>1, <1>2, <2>3, <2>4, <2>5, MessageStep
<1> QED BY <1>3, <1>4

LEMMA ExecuteStep ==
    ASSUME Inv, NEW m \in Messages,
           NEW refusal \in {"none", "denied", "parse_error", "failed"}, Execute(m, refusal)
    PROVE  Inv'
<1>1. /\ faults' \in 0..MaxFaults
      /\ UNCHANGED <<rows, used, registry, task, answered, contested, standing, restarts>>
    BY DEF Inv, Types, Execute, messaging, history
<1>2. /\ msg[m] \in Asked /\ msg[m].known \subseteq {standing[m]} /\ standing[m] \in Standings
    BY RunPhases DEF Inv, Types, RunsInv, GoodRun, Execute
<1>3. CASE msg' = [msg EXCEPT ![m] = [phase |-> "over", id |-> {}]]
    <2>1. /\ [phase |-> "over", id |-> {}] \in Handlings
          /\ GoodRun([phase |-> "over", id |-> {}], standing[m])
        BY DEF Handlings, Passed, GoodRun
    <2> QED BY <1>1, <1>3, <2>1, MessageStep
<1>4. ASSUME NEW c \in DOMAIN registry,
             (refusal = "denied") = ~TriggerAllowed(registry[c].permission, msg[m].known),
             msg' = [msg EXCEPT ![m] =
                [phase |-> IF refusal = "none" THEN "acting" ELSE "persist", id |-> {c},
                 command |-> registry[c], confirmed |-> 0, effects |-> 0, garbled |-> FALSE,
                 result |-> refusal]]
      PROVE  Inv'
    <2> DEFINE phase == IF refusal = "none" THEN "acting" ELSE "persist"
               r == [phase |-> phase, id |-> {c}, command |-> registry[c], confirmed |-> 0,
                     effects |-> 0, garbled |-> FALSE, result |-> refusal]
    <2>1. registry[c] \in Command /\ c \in Commands
        BY DEF Inv, Types
    <2>2. r \in Handlings
        BY <2>1 DEF Handlings, Runs, One, Results
    <2>3. Targets(registry[c].actions) \in Nat
        BY CommandsAssumption DEF Targets
    <2>4. refusal = "none" => Permitted(r, standing[m])
        <3> SUFFICES ASSUME refusal = "none" PROVE Permitted(r, standing[m])
            OBVIOUS
        <3>1. TriggerAllowed(registry[c].permission, msg[m].known)
            BY <1>4
        <3>2. registry[c].permission \in {"everyone", "group_admin", "maintenance_allowlist"}
            BY <2>1, CommandsAssumption DEF Command
        <3> QED BY <1>2, <3>1, <3>2 DEF TriggerAllowed, Permitted
    <2>5. CASE refusal = "none"
        <3>1. /\ r.phase = "acting" /\ r.confirmed = 0 /\ r.effects = 0 /\ r.garbled = FALSE
              /\ r.command = registry[c]
            BY <2>5
        <3> HIDE DEF r
        <3>2. Exact(r)
            BY <2>3, <3>1 DEF Exact
        <3>3. GoodRun(r, standing[m])
            BY <2>4, <2>5, <3>1, <3>2 DEF GoodRun
        <3>4. msg' = [msg EXCEPT ![m] = r]
            BY <1>4 DEF r
        <3> QED BY <1>1, <2>2, <3>3, <3>4, MessageStep
    <2>6. CASE refusal # "none"
        <3>1. r.phase = "persist" /\ r.result = refusal /\ r.effects = 0
            BY <2>6
        <3> HIDE DEF r
        <3>2. r.result \notin {"success", "partial", "unknown"}
            BY <2>6, <3>1
        <3>3. Told(r)
            BY <3>1, <3>2 DEF Told
        <3>4. GoodRun(r, standing[m])
            BY <3>1, <3>3 DEF GoodRun
        <3>5. msg' = [msg EXCEPT ![m] = r]
            BY <1>4 DEF r
        <3> QED BY <1>1, <2>2, <3>4, <3>5, MessageStep
    <2> QED BY <2>5, <2>6
<1> QED BY <1>3, <1>4 DEF Execute, Holders

LEMMA ActStep ==
    ASSUME Inv, NEW m \in Messages, (\E answer : Act(m, answer)) \/ Finish(m)
    PROVE  Inv'
<1>1. /\ faults' \in 0..MaxFaults
      /\ UNCHANGED <<rows, used, registry, task, answered, contested, standing, restarts>>
    BY DEF Inv, Types, Act, Finish, messaging, history
<1> DEFINE run == msg[m]
           all == Targets(run.command.actions)
<1>2. /\ run \in Runs /\ run.phase = "acting" /\ Permitted(run, standing[m]) /\ Exact(run)
    BY RunPhases DEF Inv, Types, RunsInv, GoodRun, Act, Finish
<1>3. /\ all \in Nat /\ run.confirmed \in Nat /\ run.confirmed <= all
      /\ run.effects = run.confirmed /\ run.garbled = FALSE
    BY <1>2, CommandsAssumption DEF Targets, Exact, Runs
<1>4. ASSUME NEW answer, Act(m, answer) PROVE Inv'
    <2>1. PICK effect \in Effects(answer) :
            LET acted == [run EXCEPT !.effects = @ + effect,
                                     !.confirmed = @ + (IF answer = "ok" THEN 1 ELSE 0),
                                     !.garbled = (answer = "garbled")]
            IN msg' = [msg EXCEPT ![m] =
                 IF answer = "ok" THEN acted
                 ELSE [Ended(m, RunResult(StepResult(answer), run.confirmed))
                         EXCEPT !.effects = acted.effects, !.garbled = acted.garbled]]
        BY <1>4 DEF Act
    <2>2. run.confirmed < all
        BY <1>4 DEF Act
    <2>3. CASE answer = "ok"
        <3> DEFINE r == [run EXCEPT !.effects = run.effects + 1, !.confirmed = run.confirmed + 1,
                                    !.garbled = FALSE]
        <3>1. effect = 1
            BY <2>1, <2>3 DEF Effects
        <3> HIDE DEF run
        <3>2. /\ r \in Runs /\ r.phase = "acting" /\ r.command = run.command
              /\ r.confirmed = run.confirmed + 1 /\ r.effects = run.effects + 1
              /\ r.garbled = FALSE
            <4>1. run \in Runs /\ run.phase = "acting" /\ run.confirmed + 1 \in Nat
                  /\ run.effects + 1 \in Nat
                BY <1>2, <1>3
            <4>2. r \in Runs
                BY <4>1 DEF Runs
            <4> QED BY <4>1 DEF Runs
        <3>3. msg' = [msg EXCEPT ![m] = r]
            BY <2>1, <2>3, <3>1 DEF run
        <3> HIDE DEF r
        <3>4. GoodRun(r, standing[m])
            BY <1>2, <1>3, <2>2, <3>2 DEF GoodRun, Permitted, Exact
        <3>5. r \in Handlings
            BY <3>2 DEF Handlings
        <3> QED BY <1>1, <3>3, <3>4, <3>5, MessageStep
    <2>4. CASE answer # "ok"
        <3> DEFINE result == RunResult(StepResult(answer), run.confirmed)
                   garbled == answer = "garbled"
                   r == [phase |-> "persist", id |-> run.id, command |-> run.command,
                         confirmed |-> run.confirmed, effects |-> run.effects + effect,
                         garbled |-> garbled, result |-> result]
        <3>1. /\ effect \in {0, 1}
              /\ answer \notin {"timeout", "garbled"} => effect = 0
            BY <2>1, <2>4 DEF Effects
        <3>2. /\ run.confirmed > 0 => result = "partial"
              /\ run.confirmed = 0 => result = IF answer = "timeout" THEN "unknown" ELSE "failed"
            <4>1. StepResult(answer) = "unknown" <=> answer = "timeout"
                BY DEF StepResult
            <4> HIDE DEF run
            <4> QED BY <1>3, <4>1 DEF RunResult
        <3>3. msg' = [msg EXCEPT ![m] = r]
            <4> DEFINE acted == [run EXCEPT !.effects = @ + effect,
                                            !.confirmed = @ + (IF answer = "ok" THEN 1 ELSE 0),
                                            !.garbled = (answer = "garbled")]
            <4>1. acted.effects = run.effects + effect /\ acted.garbled = garbled
                BY <1>2 DEF Runs
            <4>2. msg' = [msg EXCEPT ![m] =
                    [Ended(m, result) EXCEPT !.effects = acted.effects, !.garbled = acted.garbled]]
                BY <2>1, <2>4
            <4> HIDE DEF acted, result, garbled
            <4> DEFINE row == Ended(m, result)
                       half == [row EXCEPT !.effects = acted.effects]
            <4>3. row = [phase |-> "persist", id |-> run.id, command |-> run.command,
                         confirmed |-> run.confirmed, effects |-> run.effects,
                         garbled |-> run.garbled, result |-> result]
                BY DEF Ended
            <4> HIDE DEF row
            <4>4. half = [phase |-> "persist", id |-> run.id, command |-> run.command,
                          confirmed |-> run.confirmed, effects |-> acted.effects,
                          garbled |-> run.garbled, result |-> result]
                BY <4>3
            <4>5. [row EXCEPT !.effects = acted.effects, !.garbled = acted.garbled]
                    = [half EXCEPT !.garbled = acted.garbled]
                OBVIOUS
            <4> HIDE DEF half
            <4>6. [half EXCEPT !.garbled = acted.garbled] = r
                BY <4>1, <4>4
            <4> QED BY <4>2, <4>5, <4>6 DEF row
        <3> HIDE DEF result
        <3>4. r \in Runs
            BY <1>2, <1>3, <3>1, <3>2 DEF Runs, Results
        <3>5. Told(r)
            <4> HIDE DEF run, garbled
            <4>1. /\ r.result = result /\ r.effects = run.effects + effect /\ r.command = run.command
                  /\ r.confirmed = run.confirmed /\ r.garbled = garbled
                OBVIOUS
            <4>2. run.effects + effect \in Nat /\ run.effects + effect <= Targets(r.command.actions)
                BY <1>3, <2>2, <3>1, <4>1 DEF run
            <4> HIDE DEF r
            <4>3. CASE run.confirmed > 0
                BY <1>3, <3>1, <3>2, <4>1, <4>2, <4>3 DEF Told
            <4>4. CASE run.confirmed = 0 /\ answer = "timeout"
                BY <3>2, <4>1, <4>4 DEF Told
            <4>5. CASE run.confirmed = 0 /\ answer # "timeout"
                <5>1. result = "failed" /\ (run.effects + effect = 0 \/ garbled)
                    BY <1>3, <3>1, <3>2, <4>5 DEF garbled, run
                <5> QED BY <4>1, <5>1 DEF Told
            <4> QED BY <1>3, <4>3, <4>4, <4>5
        <3>6. GoodRun(r, standing[m])
            BY <3>5 DEF GoodRun
        <3> HIDE DEF r
        <3>7. r \in Handlings
            BY <3>4 DEF Handlings
        <3> QED BY <1>1, <3>3, <3>6, <3>7, MessageStep
    <2> QED BY <2>3, <2>4
<1>5. CASE Finish(m)
    <2>1. run.confirmed = all
        BY <1>5 DEF Finish
    <2> DEFINE r == Ended(m, "success")
    <2>2. r \in Runs
        BY <1>2 DEF Ended, Runs, Results
    <2>3. GoodRun(r, standing[m])
        BY <1>3, <2>1 DEF GoodRun, Ended, Told
    <2>4. msg' = [msg EXCEPT ![m] = r]
        BY <1>5 DEF Finish
    <2> HIDE DEF r
    <2>5. r \in Handlings
        BY <2>2 DEF Handlings
    <2> QED BY <1>1, <2>3, <2>4, <2>5, MessageStep
<1> QED BY <1>4, <1>5

\* Recording a run, for the first time or again, changes nothing of it.
LEMMA RecordStep ==
    ASSUME Inv, NEW m \in Messages, NEW outcome, PersistRun(m, outcome) \/ RetryRun(m, outcome)
    PROVE  Inv'
<1>1. /\ faults' \in 0..MaxFaults
      /\ UNCHANGED <<rows, used, registry, task, answered, contested, standing, restarts>>
    BY DbType DEF Inv, PersistRun, RetryRun, Record, messaging, history
<1>2. msg[m] \in Runs /\ Told(msg[m])
    BY RunPhases DEF Inv, Types, RunsInv, GoodRun, PersistRun, RetryRun
<1>3. ASSUME NEW phase \in {"done", "retry"}, msg' = [msg EXCEPT ![m].phase = phase]
      PROVE  Inv'
    <2> DEFINE r == [msg[m] EXCEPT !.phase = phase]
    <2>1. /\ r \in Runs /\ r.phase = phase /\ r.command = msg[m].command /\ r.result = msg[m].result
          /\ r.effects = msg[m].effects /\ r.confirmed = msg[m].confirmed
          /\ r.garbled = msg[m].garbled
        BY <1>2 DEF Runs
    <2>2. msg' = [msg EXCEPT ![m] = r]
        BY <1>3
    <2> HIDE DEF r
    <2>3. GoodRun(r, standing[m])
        BY <1>2, <2>1 DEF GoodRun, Told
    <2>4. r \in Handlings
        BY <2>1 DEF Handlings
    <2> QED BY <1>1, <2>2, <2>3, <2>4, MessageStep
<1> QED BY <1>3 DEF PersistRun, RetryRun, Record

-----------------------------------------------------------------------------
(* A restart loads the registry from the table.                              *)

LEMMA RestartStep ==
    ASSUME Inv, Restart
    PROVE  Inv'
<1>1. /\ Types /\ TasksInv /\ TablesInv /\ RunsInv
      /\ UNCHANGED <<rows, used, answered, contested, standing, faults>>
      /\ restarts' = restarts + 1 /\ restarts < MaxRestarts
      /\ task' = [e \in Editors |-> Idle]
    BY DEF Inv, Restart, history
<1>2. /\ DOMAIN registry' = {x \in DOMAIN rows : rows[x].active}
      /\ \A x \in DOMAIN registry' : registry'[x] = rows[x]
    BY DEF Restart, Loaded
<1>3. ASSUME NEW m \in Messages
      PROVE  msg'[m] \in Handlings /\ GoodRun(msg'[m], standing[m])
    <2>1. msg[m] \in Handlings /\ GoodRun(msg[m], standing[m])
        BY <1>1 DEF Types, RunsInv
    <2>2. CASE msg'[m] = msg[m]
        BY <2>1, <2>2
    <2>3. CASE msg'[m] = [msg[m] EXCEPT !.phase = "lost"]
        <3> DEFINE r == [msg[m] EXCEPT !.phase = "lost"]
        <3>1. r \in Handlings /\ r.phase = "lost"
            BY <2>1 DEF Handlings, Passed, Probed, Asked, Runs
        <3> HIDE DEF r
        <3>2. GoodRun(r, standing[m])
            BY <3>1 DEF GoodRun
        <3> QED BY <2>3, <3>1, <3>2 DEF r
    <2> QED BY <2>2, <2>3 DEF Restart
<1>4. DOMAIN msg' = Messages /\ msg' = [m \in Messages |-> msg'[m]]
    BY DEF Restart
<1>5. Types'
    <2>1. restarts' \in 0..MaxRestarts
        BY <1>1, CommandsAssumption DEF Types
    <2>2. task' \in [Editors -> Tasks]
        BY <1>1, IdleTask
    <2>3. msg' \in [Messages -> Handlings]
        BY <1>3, <1>4
    <2> QED BY <1>1, <1>2, <2>1, <2>2, <2>3 DEF Types
<1>6. TasksInv'
    <2>1. \A f \in Editors : GoodTask(task'[f])
        BY <1>1, IdleTask
    <2> QED BY <1>1, <2>1 DEF TasksInv, GoodTask, StillValid, AwaitsPublication
<1>7. TablesInv'
    <2>1. \A x \in DOMAIN rows : x \in Commands
        BY <1>1 DEF Types
    <2> QED BY <1>1, <1>2, <2>1 DEF TablesInv, RowNamesDiffer, NamesAnswerOnce,
                                    SendsAreRestricted, AnswersAreStored, AnswersAreServed
<1>8. RunsInv'
    BY <1>1, <1>3 DEF RunsInv, GoodRun
<1> QED BY <1>5, <1>6, <1>7, <1>8 DEF Inv

-----------------------------------------------------------------------------
(* The theorems.                                                             *)

LEMMA InitInv == Init => Inv
<1> SUFFICES ASSUME Init PROVE Inv
    OBVIOUS
<1>1. DOMAIN rows = {} /\ DOMAIN registry = {} /\ Waiting \in Handlings /\ Waiting.phase = "waiting"
    BY DEF Init, Waiting, Handlings, Passed
<1>2. Types
    BY <1>1, IdleTask, CommandsAssumption DEF Init, Types, Standings
<1>3. TasksInv
    BY IdleTask DEF Init, TasksInv
<1>4. TablesInv
    BY <1>1 DEF Init, TablesInv, RowNamesDiffer, NamesAnswerOnce, SendsAreRestricted,
                AnswersAreStored, AnswersAreServed
<1>5. RunsInv
    BY <1>1 DEF Init, RunsInv, GoodRun
<1> QED BY <1>2, <1>3, <1>4, <1>5 DEF Inv

LEMMA NextInv == Inv /\ [Next]_vars => Inv'
<1> SUFFICES ASSUME Inv, [Next]_vars PROVE Inv'
    OBVIOUS
<1>1. ASSUME NEW e \in Editors, Edit(e) PROVE Inv'
    BY <1>1, BeginCreateStep, BeginUpdateStep, CheckStep, StoreCreateStep, StoreUpdateStep,
       PublishStep, StoreDeleteStep, RemoveStep DEF Edit
<1>2. ASSUME NEW m \in Messages, Probe(m) \/ Handle(m) PROVE Inv'
    BY <1>2, ProbeStep, ExecuteStep, ActStep, RecordStep DEF Handle
<1>3. CASE UNCHANGED vars
    <2>1. UNCHANGED <<rows, used, registry, task, answered, contested, msg, standing,
                      faults, restarts>>
        BY <1>3 DEF vars
    <2>2. Types'
        BY <2>1 DEF Inv, Types
    <2> QED BY <2>1, <2>2, TasksFrame, TablesFrame, RunsFrame DEF Inv
<1> QED BY <1>1, <1>2, <1>3, RestartStep DEF Next

LEMMA InvHolds == Spec => []Inv
BY InitInv, NextInv, PTL DEF Spec

\* However renames, activations, deletions and restarts interleave, a name has one
\* command and messages are matched with what clients were told is stored, except
\* for commands of which two changes awaited publication: Registry.Upsert,
\* Service.Update, Service.Delete.
THEOREM RegistryStaysSound == Spec => []RegistryIsSound
<1>1. ASSUME Inv PROVE RegistryIsSound
    <2>1. TypeOK
        <3>1. \A e \in Editors : task[e].phase \in
                {"idle", "conflicts", "exists", "store", "publish", "remove"}
            BY <1>1, TaskPhases DEF Inv, Types
        <3>2. \A m \in Messages : msg[m].phase \in Phases
            BY <1>1, RunPhases DEF Inv, Types
        <3> QED BY <1>1, <3>1, <3>2 DEF Inv, Types, TypeOK
    <2> QED BY <1>1, <2>1 DEF Inv, TablesInv, RegistryIsSound
<1> QED BY <1>1, InvHolds, PTL

\* Nobody makes a command act that he may not, although its definition may change
\* between the probe and the match, and no definition that sends to other groups
\* is stored for everyone: Execute, validateAction, UpdateCommand's revision.
THEOREM NobodyOversteps == Spec => []ActingIsAllowed
<1>1. ASSUME Inv PROVE ActingIsAllowed
    BY <1>1 DEF Inv, TablesInv, RunsInv, GoodRun, Permitted, RunsArePermitted, ActingIsAllowed
<1> QED BY <1>1, InvHolds, PTL

\* The result of a run is no better and no worse than what reached the groups, for
\* any number of groups an action addresses: Execute, classifyActionError.
THEOREM RunsTellTruth == Spec => []ResultTellsTruth
<1>1. ASSUME Inv PROVE ResultTellsTruth
    BY <1>1 DEF Inv, RunsInv, GoodRun, Told, ResultTellsTruth
<1> QED BY <1>1, InvHolds, PTL
=============================================================================
