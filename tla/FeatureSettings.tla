--------------------------- MODULE FeatureSettings ---------------------------
(***************************************************************************)
(* Feature settings: src/internal/management/settings and the transactions *)
(* of src/internal/platform/storage/manager_core_settings.go.              *)
(*                                                                         *)
(* A table holds the global settings and the overrides of each group, with *)
(* revisions.  The bot does not read it: it reads a snapshot in memory,    *)
(* which every mutation brings up to date after its transaction, and which *)
(* is loaded from the table when that is refused, and at the start.        *)
(*                                                                         *)
(* Settings are functions from fields to values; a field is the switch of  *)
(* a feature or the template of the welcome message.                       *)
(***************************************************************************)
EXTENDS Integers, FiniteSets

CONSTANTS
    Groups,         \* managed groups
    Fields,         \* fields of the settings
    Values,         \* their values
    Inherit,        \* what an override that is not there says
    Admins,         \* administrators with the settings page open
    MaxRevision,    \* bound: revisions of one row
    MaxFaults       \* bound: database calls that fail or lose their answer

ASSUME SettingsAssumption ==
    /\ IsFiniteSet(Groups) /\ IsFiniteSet(Fields) /\ IsFiniteSet(Values) /\ IsFiniteSet(Admins)
    /\ "global" \notin Groups /\ Values # {} /\ Inherit \notin Values
    /\ MaxRevision \in Nat \ {0} /\ MaxFaults \in Nat

VARIABLES
    process,        \* "up" or "down"
    faults,
    globalRow,      \* the row of the global settings
    groupRows,      \* the row of each group; its revision is 0 when there is none
    active,         \* groups that are not archived in the directory
    snapshot,       \* Runtime: what the bot reads
    mutation,       \* the request that holds the mutex of the service
    seen,           \* what each administrator's page shows
    missed          \* history: rows stored since the snapshot last took them over

settingsVars == <<globalRow, groupRows, active, snapshot, mutation, seen, missed>>
vars == <<process, faults, settingsVars>>

-----------------------------------------------------------------------------
(* Types.                                                                   *)

Features == [Fields -> Values]
Overrides == [Fields -> Values \cup {Inherit}]
NoOverrides == [f \in Fields |-> Inherit]

\* The scope of a row: a group, or "global".
Scopes == Groups \cup {"global"}

GlobalRow == [revision: 1..MaxRevision, features: Features]

\* born counts the rows a group has had: a deleted row comes back with revision 1.
GroupRow == [revision: 0..MaxRevision, overrides: Overrides, born: Nat]
NoRow(born) == [revision |-> 0, overrides |-> NoOverrides, born |-> born]

\* blind is history: the administrator decided on other overrides than those
\* that were replaced, although it was the same row.
Free == [pc |-> "free", scope |-> "global", blind |-> FALSE]
Mutation == [pc: {"free", "stored", "refused"}, scope: Scopes, blind: BOOLEAN]

SettingsTypeOK ==
    /\ globalRow \in GlobalRow /\ groupRows \in [Groups -> GroupRow] /\ active \subseteq Groups
    /\ snapshot.global \in GlobalRow /\ snapshot.groups \in [Groups -> GroupRow]
    /\ mutation \in Mutation /\ missed \subseteq Scopes
    /\ \A a \in Admins : seen[a] \in [global: GlobalRow, groups: [Groups -> GroupRow]]

\* resolve and resolveManagerFeatures: an override wins over the global value.
Resolve(global, overrides) ==
    [f \in Fields |-> IF overrides[f] = Inherit THEN global[f] ELSE overrides[f]]

\* Runtime.Effective: what the bot goes by in a group.
Effective(g) == Resolve(snapshot.global.features, snapshot.groups[g].overrides)

-----------------------------------------------------------------------------
(* The table.                                                               *)

SettingsReplies == {"done", "lost", "refused"}

StoreSettings(o) ==
    \/ o = "done" /\ UNCHANGED faults
    \/ o # "done" /\ faults < MaxFaults /\ faults' = faults + 1

Table == [global |-> globalRow, groups |-> groupRows]

\* applyManagerGlobalSettingsPatch: the fields of the patch are replaced.
PatchedGlobal(patch) ==
    [f \in Fields |-> IF f \in DOMAIN patch THEN patch[f] ELSE globalRow.features[f]]

\* applyManagerGroupPatch: a field that is cleared inherits again.
PatchedGroup(g, patch) ==
    [f \in Fields |-> IF f \in DOMAIN patch THEN patch[f] ELSE groupRows[g].overrides[f]]

\* Bodies of a PATCH: fields of the global settings are set, overrides are set or
\* cleared.
DecodedGlobal == UNION {[S -> Values] : S \in SUBSET Fields}
DecodedGroup == UNION {[S -> Values \cup {Inherit}] : S \in SUBSET Fields}

\* Those that pass validGlobalPatch and validGroupPatch name a field.
GlobalPatches == {patch \in DecodedGlobal : DOMAIN patch # {}}
GroupPatches == {patch \in DecodedGroup : DOMAIN patch # {}}

\* UpdateGroupSettings and DeleteGroupSettings: an active group, at the revision
\* of the request (0 when there is no row).
MayUpdateGroup(g, revision) == g \in active /\ groupRows[g].revision = revision

DeletedGroup(g) == NoRow(groupRows[g].born)

\* The row that overrides leave: none when no field is overridden.
StoredGroup(g, overrides) ==
    IF overrides = NoOverrides THEN DeletedGroup(g)
    ELSE [revision |-> groupRows[g].revision + 1, overrides |-> overrides,
          born |-> groupRows[g].born + (IF groupRows[g].revision = 0 THEN 1 ELSE 0)]

-----------------------------------------------------------------------------
(* The service.  Its mutex is held from the transaction to the snapshot.    *)

\* GetGlobalSettings and GetGroupSettings: an archived group is not found.
PageOf(a) ==
    [global |-> globalRow,
     groups |-> [g \in Groups |-> IF g \in active THEN groupRows[g] ELSE seen[a].groups[g]]]

\* GetGlobal and GetGroup fill an administrator's page.
Open(a) ==
    /\ process = "up"
    /\ seen' = [seen EXCEPT ![a] = PageOf(a)]
    /\ UNCHANGED <<process, faults, globalRow, groupRows, active, snapshot, mutation, missed>>

\* requiredSettingsRevision: If-Match holds the revision that the page shows.
ExpectedGlobal(a) == seen[a].global.revision
ExpectedGroup(a, g) == seen[a].groups[g].revision

\* A transaction under the mutex.  Without an answer, or with a refusal, the
\* mutex is released and the snapshot stays as it is.
Stored(o, scope, blind) ==
    /\ StoreSettings(o)
    /\ mutation' = IF o = "done"
                      THEN [pc |-> "stored", scope |-> scope, blind |-> blind]
                      ELSE Free
    /\ missed' = IF o = "refused" THEN missed ELSE missed \cup {scope}
    /\ UNCHANGED <<process, active, snapshot, seen>>

UpdateGlobal(a, patch, o) ==
    /\ process = "up" /\ mutation.pc = "free" /\ globalRow.revision < MaxRevision
    /\ globalRow.revision = ExpectedGlobal(a)
    /\ globalRow' = IF o = "refused" THEN globalRow
                    ELSE [revision |-> globalRow.revision + 1, features |-> PatchedGlobal(patch)]
    /\ Stored(o, "global", globalRow # seen[a].global)
    /\ UNCHANGED groupRows

StoreGroup(a, g, row, o) ==
    /\ groupRows' = IF o = "refused" THEN groupRows ELSE [groupRows EXCEPT ![g] = row]
    /\ Stored(o, g, /\ groupRows[g].born = seen[a].groups[g].born
                    /\ groupRows[g].overrides # seen[a].groups[g].overrides)
    /\ UNCHANGED globalRow

UpdateGroup(a, g, patch, o) ==
    /\ process = "up" /\ mutation.pc = "free" /\ groupRows[g].revision < MaxRevision
    /\ groupRows[g].born < MaxRevision
    /\ MayUpdateGroup(g, ExpectedGroup(a, g))
    /\ StoreGroup(a, g, StoredGroup(g, PatchedGroup(g, patch)), o)

DeleteGroup(a, g, o) ==
    /\ process = "up" /\ mutation.pc = "free"
    /\ groupRows[g].revision # 0 /\ MayUpdateGroup(g, ExpectedGroup(a, g))
    /\ StoreGroup(a, g, DeletedGroup(g), o)

IsNewer(g) ==
    \/ groupRows[g].revision = 0 \/ snapshot.groups[g].revision = 0
    \/ groupRows[g].revision > snapshot.groups[g].revision

\* Mutant: the global settings are not compared.
AppliesGroupAnyGlobal(g) == IsNewer(g)

\* Runtime.ApplyGroup: resolved over the global settings the snapshot holds, and
\* newer than its row, if there is one left.
AppliesGroup(g) ==
    /\ globalRow.revision = snapshot.global.revision
    /\ Resolve(globalRow.features, groupRows[g].overrides)
          = Resolve(snapshot.global.features, groupRows[g].overrides)
    /\ IsNewer(g)

\* Runtime.ApplyGlobal.
AppliesGlobal == globalRow.revision > snapshot.global.revision

Applies(scope) == IF scope = "global" THEN AppliesGlobal ELSE AppliesGroup(scope)

\* The snapshot takes over what the request stored.  (Under the mutex the table
\* is as the transaction left it.)
Apply ==
    /\ mutation.pc = "stored" /\ Applies(mutation.scope)
    /\ snapshot' = IF mutation.scope = "global"
                      THEN [snapshot EXCEPT !.global = globalRow]
                      ELSE [snapshot EXCEPT !.groups[mutation.scope] = groupRows[mutation.scope]]
    /\ missed' = missed \ {mutation.scope}
    /\ mutation' = Free
    /\ UNCHANGED <<process, faults, globalRow, groupRows, active, seen>>

\* It refuses: repairRuntime loads the table instead, if the database answers.
RefuseApply ==
    /\ mutation.pc = "stored" /\ ~Applies(mutation.scope)
    /\ mutation' = [mutation EXCEPT !.pc = "refused"]
    /\ UNCHANGED <<process, faults, globalRow, groupRows, active, snapshot, seen, missed>>

\* Mutant: the repair keeps the rows of groups.
RepairedGlobal == [snapshot EXCEPT !.global = globalRow]

\* LoadRuntimeSettings and Runtime.Replace.
Repaired == Table

Repair(o) ==
    /\ mutation.pc = "refused" /\ o \in {"done", "refused"} /\ StoreSettings(o)
    /\ IF o = "done" THEN snapshot' = Repaired /\ missed' = {}
                     ELSE UNCHANGED <<snapshot, missed>>
    /\ mutation' = Free
    /\ UNCHANGED <<process, globalRow, groupRows, active, seen>>

\* A sync of the directory archives a group or finds it again.
Archive(g) ==
    /\ active' = IF g \in active THEN active \ {g} ELSE active \cup {g}
    /\ UNCHANGED <<process, faults, globalRow, groupRows, snapshot, mutation, seen, missed>>

-----------------------------------------------------------------------------
(* The life of the process: what a crash and a start do here.               *)

ForgetSettings ==
    /\ mutation' = Free
    /\ UNCHANGED <<globalRow, groupRows, active, snapshot, seen, missed>>

\* ReloadRuntime, before anything is handled.
LoadSettings ==
    /\ snapshot' = Table /\ missed' = {}
    /\ UNCHANGED <<globalRow, groupRows, active, mutation, seen>>

Crash ==
    /\ process = "up" /\ process' = "down"
    /\ ForgetSettings /\ UNCHANGED faults

Start ==
    /\ process = "down" /\ process' = "up"
    /\ LoadSettings /\ UNCHANGED faults

-----------------------------------------------------------------------------

SettingsInit ==
    /\ \E v \in Values : globalRow = [revision |-> 1, features |-> [f \in Fields |-> v]]
    /\ groupRows = [g \in Groups |-> NoRow(0)] /\ active = Groups
    /\ snapshot = Table /\ mutation = Free /\ missed = {}
    /\ seen = [a \in Admins |-> Table]

Init == SettingsInit /\ process = "up" /\ faults = 0

SettingsNext ==
    \/ \E a \in Admins : Open(a)
    \/ \E a \in Admins, patch \in GlobalPatches, o \in SettingsReplies : UpdateGlobal(a, patch, o)
    \/ \E a \in Admins, g \in Groups, patch \in GroupPatches, o \in SettingsReplies :
          UpdateGroup(a, g, patch, o)
    \/ \E a \in Admins, g \in Groups, o \in SettingsReplies : DeleteGroup(a, g, o)
    \/ Apply \/ RefuseApply
    \/ \E o \in SettingsReplies : Repair(o)
    \/ \E g \in Groups : Archive(g)

Next == SettingsNext \/ Crash \/ Start

Spec == Init /\ [][Next]_vars

-----------------------------------------------------------------------------
(* Properties.                                                              *)

\* The bot goes by what is stored, except for rows whose mutation is not
\* finished, lost its answer or was neither applied nor repaired; and a row that
\* is overtaken later is taken over with it.  What it goes by was stored before,
\* and never comes back once a later revision was served: ApplyGlobal,
\* ApplyGroup, repairRuntime.
ServesWhatIsStored ==
    /\ "global" \notin missed => snapshot.global = globalRow
    /\ \A g \in Groups \ missed : snapshot.groups[g] = groupRows[g]
    /\ snapshot.global.revision <= globalRow.revision
    /\ \A g \in Groups : snapshot.groups[g].born <= groupRows[g].born

\* Whoever is told that a mutation succeeded finds the bot going by it, and by
\* the global settings it was computed with: UpdateGlobal, UpdateGroup.
AcknowledgedIsServed ==
    [][mutation.pc # "free" /\ mutation'.pc = "free" /\ process' = "up" /\ missed' # missed
          => /\ mutation.scope = "global" => snapshot'.global = globalRow
             /\ \A g \in Groups :
                   mutation.scope = g =>
                      Effective(g)' = Resolve(globalRow.features, groupRows[g].overrides)]_vars

\* Nobody replaces settings of a row that he has not seen, unless the row was
\* deleted and created again: the revisions of UpdateGlobalSettings,
\* UpdateGroupSettings and DeleteGroupSettings.
NothingReplacedUnseen == ~mutation.blind

\* The bot goes by what is stored, and nothing is lost from it:
\* UpdateGlobal, UpdateGroup, DeleteGroup, repairRuntime, ReloadRuntime.
SettingsAreServed == SettingsTypeOK /\ ServesWhatIsStored /\ NothingReplacedUnseen
=============================================================================
