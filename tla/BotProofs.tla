----------------------------- MODULE BotProofs -----------------------------
(***************************************************************************)
(* Theorems of Bot, one section for each part of it.  The parts share the  *)
(* process, and nothing else but the snapshot of the settings, which       *)
(* messages are handled by; so the first lemma says what a step of the bot *)
(* is for one part, and each section proves the invariant of its part from *)
(* that alone.                                                             *)
(***************************************************************************)
EXTENDS Bot, Sequences, FiniteSetTheorems, SequenceTheorems, TLAPS

(***************************************************************************)
(* Sequences.                                                              *)
(***************************************************************************)

LEMMA HeadAndTail ==
    ASSUME NEW S, NEW s \in Seq(S), s # <<>>
    PROVE  /\ Head(s) = s[1] /\ s[1] \in S /\ Tail(s) \in Seq(S)
           /\ Len(s) \in Nat /\ Len(s) >= 1 /\ Len(Tail(s)) = Len(s) - 1
           /\ DOMAIN s = 1..Len(s) /\ DOMAIN Tail(s) = 1..(Len(s) - 1)
           /\ \A i \in 1..(Len(s) - 1) : Tail(s)[i] = s[i + 1]
OBVIOUS

LEMMA AppendedLast ==
    ASSUME NEW S, NEW s \in Seq(S), NEW e \in S
    PROVE  /\ Append(s, e) \in Seq(S) /\ Len(s) \in Nat /\ Len(Append(s, e)) = Len(s) + 1
           /\ DOMAIN s = 1..Len(s) /\ DOMAIN Append(s, e) = 1..(Len(s) + 1)
           /\ Append(s, e)[Len(s) + 1] = e
           /\ \A i \in 1..Len(s) : Append(s, e)[i] = s[i]
OBVIOUS

(***************************************************************************)
(* The parts count as the bot does.                                        *)
(***************************************************************************)

LEMMA OneCardinality ==
    \A S : /\ Chat!Cardinality(S) = Cardinality(S) /\ Metrics!Cardinality(S) = Cardinality(S)
           /\ Staging!Cardinality(S) = Cardinality(S) /\ Review!Cardinality(S) = Cardinality(S)
           /\ Rule!Cardinality(S) = Cardinality(S)
BY DEF Cardinality, Chat!Cardinality, Metrics!Cardinality, Staging!Cardinality, Review!Cardinality,
       Rule!Cardinality

LEMMA OneFiniteness ==
    \A S : /\ Chat!IsFiniteSet(S) = IsFiniteSet(S) /\ Staging!IsFiniteSet(S) = IsFiniteSet(S)
           /\ Review!IsFiniteSet(S) = IsFiniteSet(S)
BY DEF IsFiniteSet, Chat!IsFiniteSet, Staging!IsFiniteSet, Review!IsFiniteSet

(***************************************************************************)
(* What a step of the bot is for each part.                                *)
(***************************************************************************)

LEMMA TelemetryKeepsProcess == Metrics!TelemetryNext => UNCHANGED process
BY DEF Metrics!TelemetryNext, Metrics!Record, Metrics!Take, Metrics!Tick, Metrics!Drain,
       Metrics!StopAccepting, Metrics!LoadEvents, Metrics!AggregateTelemetryDaily,
       Metrics!PurgeTelemetryEvents, Metrics!LoadAnalyticsEvents, Metrics!LoadDailyDates,
       Metrics!LoadAnalyticsDaily, Metrics!AnswerSummary, Metrics!PassTime

LEMMA RuleKeepsProcess == Rule!RuleNext => UNCHANGED process
BY DEF Rule!RuleNext, Rule!OpenRule, Rule!PublishRule, Rule!BeginRuleUpdate, Rule!StoreRule

LEMMA ReviewKeepsProcess == Review!ReviewNext => UNCHANGED process
BY DEF Review!ReviewNext, Review!Arrive, Review!Record, Review!Fetch, Review!Reconcile, Review!Store,
       Review!ListUnparsed, Review!Parse, Review!FailToParse, Review!ParseNotStored,
       Review!ListCandidates, Review!Take, Review!LookUp, Review!ReadVersion, Review!CountSamples,
       Review!Judge, Review!GiveUpReview, Review!BeginAutomatic, Review!BeginManual,
       Review!Complete, Review!Recover, Review!Index, Review!Rebuild, Review!Correct, Review!Import

LEMMA SettingsKeepProcess == SettingsNext => UNCHANGED process
BY DEF SettingsNext, Open, UpdateGlobal, UpdateGroup, DeleteGroup, StoreGroup, Stored, Apply,
       RefuseApply, Repair, Archive

\* A step of the bot is a step of one part, which the others sleep through, the
\* end of the process or its start.
LEMMA StepsOfParts ==
    ASSUME [BotNext]_botVars
    PROVE  /\ \/ SettingsNext /\ UNCHANGED process
              \/ Crash \/ Start
              \/ UNCHANGED <<process, settingsVars>>
           /\ \/ Chat!MessagesNext /\ process = "up" /\ UNCHANGED <<process, snapshot>>
              \/ Chat!NoteSettings /\ UNCHANGED process
              \/ Crash /\ Chat!ForgetMessages
              \/ Start /\ UNCHANGED messages
              \/ UNCHANGED <<process, snapshot, messages>>
           /\ \/ Metrics!TelemetryNext /\ UNCHANGED process
              \/ Crash /\ Metrics!ForgetEvents
              \/ Start /\ Metrics!StartWorkers
              \/ UNCHANGED <<process, telemetry>>
           /\ \/ Staging!StagingNext \/ Staging!ForgetStaging
              \/ UNCHANGED staging
           /\ \/ Review!ReviewNext /\ UNCHANGED process
              \/ Crash /\ Review!ForgetReview
              \/ Start /\ Review!PrepareReview
              \/ UNCHANGED <<process, review>>
           /\ \/ Rule!RuleNext /\ UNCHANGED process
              \/ Crash /\ Rule!ForgetRule
              \/ Start /\ Rule!LoadRule
              \/ UNCHANGED <<process, studentRule>>
<1>1. CASE SettingsStep
    BY <1>1, SettingsKeepProcess DEF SettingsStep
<1>2. CASE MessagesStep
    BY <1>2 DEF MessagesStep, vars, settingsVars
<1>3. CASE TelemetryStep
    BY <1>3, TelemetryKeepsProcess DEF TelemetryStep, settingsVars
<1>4. CASE StagingStep
    BY <1>4 DEF StagingStep, vars, settingsVars
<1>5. CASE ReviewStep
    BY <1>5, ReviewKeepsProcess DEF ReviewStep, settingsVars
<1>6. CASE RuleStep
    BY <1>6, RuleKeepsProcess DEF RuleStep, settingsVars
<1>7. CASE Die
    BY <1>7 DEF Die
<1>8. CASE StartProcess
    BY <1>8 DEF StartProcess
<1>9. CASE UNCHANGED botVars
    BY <1>9 DEF botVars, vars, settingsVars
<1> QED BY <1>1, <1>2, <1>3, <1>4, <1>5, <1>6, <1>7, <1>8, <1>9 DEF BotNext

(***************************************************************************)
(* Settings.  A page shows a row as it was at some time: an earlier row of *)
(* the group, or an earlier revision of the same row.  That is what makes  *)
(* the comparison of revisions enough.                                     *)
(***************************************************************************)

Pages == [global: GlobalRow, groups: [Groups -> GroupRow]]

SettingsTypes ==
    /\ globalRow \in GlobalRow /\ groupRows \in [Groups -> GroupRow] /\ active \subseteq Groups
    /\ snapshot \in Pages /\ mutation \in Mutation /\ missed \subseteq Scopes
    /\ seen \in [Admins -> Pages]

\* A row without a revision overrides nothing.
RowSound(row) == row.revision = 0 => row.overrides = NoOverrides

\* The row was the row now at some time.
GlobalWas(was, row) == was.revision <= row.revision /\ (was.revision = row.revision => was = row)
GroupWas(was, row) ==
    /\ was.born <= row.born
    /\ was.born = row.born /\ row.revision # 0 =>
          /\ was.revision <= row.revision
          /\ was.revision = row.revision => was.overrides = row.overrides

PagesWereStored ==
    /\ \A g \in Groups : RowSound(groupRows[g])
    /\ \A a \in Admins :
          /\ GlobalWas(seen[a].global, globalRow)
          /\ \A g \in Groups : RowSound(seen[a].groups[g]) /\ GroupWas(seen[a].groups[g], groupRows[g])

SettingsInv ==
    /\ SettingsTypes /\ PagesWereStored /\ ServesWhatIsStored /\ NothingReplacedUnseen
    /\ process = "down" => mutation.pc = "free"

LEMMA RowTypes ==
    /\ \A row \in GlobalRow : row.revision \in 1..MaxRevision /\ row.features \in [Fields -> Values]
    /\ \A row \in GroupRow : row.revision \in 0..MaxRevision /\ row.overrides \in Overrides
                             /\ row.born \in Nat
    /\ \A page \in Pages : page.global \in GlobalRow /\ page.groups \in [Groups -> GroupRow]
    /\ \A m \in Mutation : m.scope \in Groups \cup {"global"}
    /\ NoOverrides \in Overrides /\ Free \in Mutation /\ ~Free.blind /\ Free.pc = "free"
    /\ \A n \in Nat : NoRow(n) \in GroupRow /\ RowSound(NoRow(n)) /\ NoRow(n).born = n
                      /\ NoRow(n).revision = 0
BY SettingsAssumption DEF GlobalRow, GroupRow, Features, Overrides, NoOverrides, Pages, Mutation, Free,
                          NoRow, RowSound, Scopes

LEMMA SettingsInitInv == Init => SettingsInv
<1> SUFFICES ASSUME Init PROVE SettingsInv
    OBVIOUS
<1>1. globalRow \in GlobalRow
    BY SettingsAssumption DEF Init, SettingsInit, GlobalRow, Features
<1>2. groupRows \in [Groups -> GroupRow] /\ \A g \in Groups : groupRows[g] = NoRow(0)
    BY RowTypes DEF Init, SettingsInit
<1>3. Table \in Pages /\ Table.global = globalRow /\ Table.groups = groupRows
    BY <1>1, <1>2 DEF Table, Pages
<1>4. SettingsTypes
    BY <1>1, <1>2, <1>3, RowTypes DEF Init, SettingsInit, SettingsTypes
<1>5. globalRow.revision \in Int /\ \A g \in Groups : groupRows[g].born \in Int
    BY <1>1, <1>2, RowTypes
<1>6. PagesWereStored
    BY <1>2, <1>3, <1>5, RowTypes
    DEF Init, SettingsInit, PagesWereStored, GlobalWas, GroupWas
<1>7. ServesWhatIsStored /\ NothingReplacedUnseen
    BY <1>3, <1>5, RowTypes DEF Init, SettingsInit, ServesWhatIsStored, NothingReplacedUnseen
<1> QED BY <1>4, <1>6, <1>7 DEF SettingsInv, Init

LEMMA OpenStep ==
    ASSUME SettingsInv, NEW a \in Admins, Open(a)
    PROVE  SettingsInv'
<1>1. /\ UNCHANGED <<process, globalRow, groupRows, active, snapshot, mutation, missed>>
      /\ seen' = [seen EXCEPT ![a] = PageOf(a)]
      /\ PageOf(a).global = globalRow
      /\ \A g \in Groups : PageOf(a).groups[g] = IF g \in active THEN groupRows[g] ELSE seen[a].groups[g]
    BY DEF Open, PageOf
<1>2. SettingsTypes
    BY DEF SettingsInv
<1>3. PageOf(a) \in Pages
    BY <1>2, RowTypes DEF PageOf, Pages, SettingsTypes
<1>4. SettingsTypes'
    BY <1>1, <1>2, <1>3 DEF SettingsTypes
<1>5. PagesWereStored'
    <2>1. \A g \in Groups : RowSound(groupRows'[g])
        BY <1>1 DEF SettingsInv, PagesWereStored
    <2>2. ASSUME NEW b \in Admins
          PROVE  /\ GlobalWas(seen'[b].global, globalRow')
                 /\ \A g \in Groups : RowSound(seen'[b].groups[g]) /\ GroupWas(seen'[b].groups[g], groupRows'[g])
        <3>1. CASE b # a
            <4>1. seen'[b] = seen[b]
                BY <3>1, <1>1, <1>2 DEF SettingsTypes
            <4> QED BY <4>1, <1>1 DEF SettingsInv, PagesWereStored
        <3>2. CASE b = a
            <4>1. seen'[b] = PageOf(a)
                BY <3>2, <1>1, <1>2 DEF SettingsTypes
            <4>2. globalRow.revision \in Int /\ \A g \in Groups : groupRows[g].born \in Int
                                             /\ groupRows[g].revision \in Int
                BY <1>2, RowTypes DEF SettingsTypes
            <4> QED BY <4>1, <4>2, <1>1 DEF SettingsInv, PagesWereStored, GlobalWas, GroupWas
        <3> QED BY <3>1, <3>2
    <2> QED BY <2>1, <2>2 DEF PagesWereStored
<1> QED BY <1>1, <1>4, <1>5 DEF SettingsInv, ServesWhatIsStored, NothingReplacedUnseen

LEMMA UpdateGlobalStep ==
    ASSUME SettingsInv, NEW a \in Admins, NEW patch \in GlobalPatches, NEW o \in SettingsReplies,
           UpdateGlobal(a, patch, o)
    PROVE  SettingsInv'
<1> DEFINE row == [revision |-> globalRow.revision + 1, features |-> PatchedGlobal(patch)]
<1>1. /\ UNCHANGED <<process, groupRows, active, snapshot, seen>> /\ process = "up"
      /\ globalRow.revision < MaxRevision /\ globalRow.revision = seen[a].global.revision
      /\ globalRow' = IF o = "refused" THEN globalRow ELSE row
      /\ mutation' = IF o = "done" THEN [pc |-> "stored", scope |-> "global",
                                         blind |-> globalRow # seen[a].global] ELSE Free
      /\ missed' = IF o = "refused" THEN missed ELSE missed \cup {"global"}
    BY DEF UpdateGlobal, Stored, ExpectedGlobal
<1>2. SettingsTypes /\ globalRow \in GlobalRow
    BY DEF SettingsInv, SettingsTypes
<1>3. globalRow = seen[a].global
    BY <1>1 DEF SettingsInv, PagesWereStored, GlobalWas
<1>4. row \in GlobalRow
    <2>1. PatchedGlobal(patch) \in [Fields -> Values]
        BY <1>2, RowTypes DEF PatchedGlobal, GlobalPatches, DecodedGlobal
    <2> QED BY <2>1, <1>1, <1>2, RowTypes, SettingsAssumption DEF GlobalRow, Features
<1>5. SettingsTypes'
    BY <1>1, <1>2, <1>3, <1>4, RowTypes DEF SettingsTypes, Mutation, Scopes
<1>6. /\ globalRow.revision \in Int /\ snapshot.global.revision \in Int
      /\ \A b \in Admins : seen[b].global.revision \in Int
    BY <1>2, RowTypes DEF SettingsTypes
<1>7. \A b \in Admins : GlobalWas(seen[b].global, globalRow')
    BY <1>1, <1>6 DEF SettingsInv, PagesWereStored, GlobalWas
<1>8. PagesWereStored'
    BY <1>1, <1>7 DEF SettingsInv, PagesWereStored
<1>9. ServesWhatIsStored'
    <2>1. /\ Groups \ missed' \subseteq Groups \ missed
          /\ "global" \notin missed' => "global" \notin missed /\ globalRow' = globalRow
        BY <1>1
    <2>2. globalRow.revision <= globalRow'.revision /\ globalRow'.revision \in Int
        BY <1>1, <1>6
    <2> QED BY <1>1, <1>6, <2>1, <2>2 DEF SettingsInv, ServesWhatIsStored
<1>10. NothingReplacedUnseen'
    BY <1>1, <1>3, RowTypes DEF NothingReplacedUnseen
<1> QED BY <1>1, <1>5, <1>8, <1>9, <1>10 DEF SettingsInv

\* What the two transactions on a group have in common.
LEMMA StoreGroupStep ==
    ASSUME SettingsInv, NEW a \in Admins, NEW g \in Groups, NEW row \in GroupRow, NEW o \in SettingsReplies,
           StoreGroup(a, g, row, o), process = "up", g \in active,
           groupRows[g].revision = seen[a].groups[g].revision,
           RowSound(row), row.born >= groupRows[g].born,
           row.born = groupRows[g].born =>
               \/ row.revision = 0
               \/ groupRows[g].revision # 0 /\ row.revision = groupRows[g].revision + 1
    PROVE  SettingsInv'
<1>1. /\ UNCHANGED <<process, globalRow, active, snapshot, seen>>
      /\ groupRows' = IF o = "refused" THEN groupRows ELSE [groupRows EXCEPT ![g] = row]
      /\ mutation' = IF o = "done" THEN [pc |-> "stored", scope |-> g,
                                         blind |-> /\ groupRows[g].born = seen[a].groups[g].born
                                                   /\ groupRows[g].overrides # seen[a].groups[g].overrides]
                     ELSE Free
      /\ missed' = IF o = "refused" THEN missed ELSE missed \cup {g}
    BY DEF StoreGroup, Stored
<1>2. SettingsTypes /\ groupRows \in [Groups -> GroupRow]
    BY DEF SettingsInv, SettingsTypes
<1>3. groupRows[g].born = seen[a].groups[g].born => groupRows[g].overrides = seen[a].groups[g].overrides
    BY DEF SettingsInv, PagesWereStored, GroupWas, RowSound
<1>4. SettingsTypes'
    BY <1>1, <1>2, <1>3, RowTypes DEF SettingsTypes, Mutation, Scopes
<1>5. /\ row.revision \in Int /\ row.born \in Int
      /\ \A e \in Groups : /\ groupRows[e].revision \in Int /\ groupRows[e].born \in Int
                           /\ snapshot.groups[e].born \in Int
                           /\ \A b \in Admins : /\ seen[b].groups[e].revision \in Int
                                                /\ seen[b].groups[e].born \in Int
    BY <1>2, RowTypes DEF SettingsTypes
<1>6. \A b \in Admins : GroupWas(seen[b].groups[g], row)
    <2> SUFFICES ASSUME NEW b \in Admins PROVE GroupWas(seen[b].groups[g], row)
        OBVIOUS
    <2>1. GroupWas(seen[b].groups[g], groupRows[g])
        BY DEF SettingsInv, PagesWereStored
    <2> QED BY <2>1, <1>5 DEF GroupWas
<1>7. \A e \in Groups : groupRows'[e] = groupRows[e] \/ (e = g /\ groupRows'[e] = row)
    BY <1>1, <1>2
<1>8. PagesWereStored'
    BY <1>1, <1>6, <1>7 DEF SettingsInv, PagesWereStored
<1>9. ServesWhatIsStored'
    <2>1. \A e \in Groups : snapshot'.groups[e].born <= groupRows'[e].born
        BY <1>1, <1>5, <1>7 DEF SettingsInv, ServesWhatIsStored
    <2>2. \A e \in Groups \ missed' : groupRows'[e] = groupRows[e]
        BY <1>1, <1>2
    <2>3. Groups \ missed' \subseteq Groups \ missed /\ ("global" \notin missed' => "global" \notin missed)
        BY <1>1
    <2> QED BY <1>1, <2>1, <2>2, <2>3 DEF SettingsInv, ServesWhatIsStored
<1>10. NothingReplacedUnseen'
    BY <1>1, <1>3, RowTypes DEF NothingReplacedUnseen
<1> QED BY <1>1, <1>4, <1>8, <1>9, <1>10 DEF SettingsInv

LEMMA UpdateGroupStep ==
    ASSUME SettingsInv, NEW a \in Admins, NEW g \in Groups, NEW patch \in GroupPatches,
           NEW o \in SettingsReplies, UpdateGroup(a, g, patch, o)
    PROVE  SettingsInv'
<1> DEFINE overrides == PatchedGroup(g, patch)
           row == StoredGroup(g, overrides)
<1>1. groupRows[g] \in GroupRow
    BY DEF SettingsInv, SettingsTypes
<1>2. overrides \in Overrides
    BY <1>1, RowTypes DEF PatchedGroup, GroupPatches, DecodedGroup, Overrides
<1>3. groupRows[g].revision \in 0..MaxRevision /\ groupRows[g].born \in Nat /\ groupRows[g].revision < MaxRevision
    BY <1>1, RowTypes DEF UpdateGroup
<1>4. row \in GroupRow /\ RowSound(row)
    <2>1. CASE overrides = NoOverrides
        BY <2>1, <1>3, RowTypes DEF StoredGroup, DeletedGroup
    <2>2. CASE overrides # NoOverrides
        BY <2>2, <1>2, <1>3, SettingsAssumption DEF StoredGroup, GroupRow, RowSound
    <2> QED BY <2>1, <2>2
<1>5. /\ row.born >= groupRows[g].born
      /\ row.born = groupRows[g].born =>
               \/ row.revision = 0
               \/ groupRows[g].revision # 0 /\ row.revision = groupRows[g].revision + 1
    BY <1>3, RowTypes DEF StoredGroup, DeletedGroup
<1> HIDE DEF row
<1>6. /\ StoreGroup(a, g, row, o) /\ process = "up" /\ g \in active
      /\ groupRows[g].revision = seen[a].groups[g].revision
    BY DEF UpdateGroup, MayUpdateGroup, ExpectedGroup, row
<1> QED BY <1>4, <1>5, <1>6, StoreGroupStep

LEMMA DeleteGroupStep ==
    ASSUME SettingsInv, NEW a \in Admins, NEW g \in Groups, NEW o \in SettingsReplies, DeleteGroup(a, g, o)
    PROVE  SettingsInv'
<1>1. groupRows[g] \in GroupRow
    BY DEF SettingsInv, SettingsTypes
<1>2. /\ DeletedGroup(g) \in GroupRow /\ RowSound(DeletedGroup(g)) /\ DeletedGroup(g).revision = 0
      /\ DeletedGroup(g).born >= groupRows[g].born
    BY <1>1, RowTypes DEF DeletedGroup
<1>3. /\ StoreGroup(a, g, DeletedGroup(g), o) /\ process = "up" /\ g \in active
      /\ groupRows[g].revision = seen[a].groups[g].revision
    BY DEF DeleteGroup, MayUpdateGroup, ExpectedGroup
<1> QED BY <1>2, <1>3, StoreGroupStep

LEMMA ApplyStep ==
    ASSUME SettingsInv, Apply
    PROVE  SettingsInv'
<1>1. /\ UNCHANGED <<process, globalRow, groupRows, active, seen>>
      /\ snapshot' = IF mutation.scope = "global"
                      THEN [snapshot EXCEPT !.global = globalRow]
                      ELSE [snapshot EXCEPT !.groups[mutation.scope] = groupRows[mutation.scope]]
      /\ missed' = missed \ {mutation.scope} /\ mutation' = Free
    BY DEF Apply
<1>2. SettingsTypes /\ mutation.scope \in Groups \cup {"global"} /\ snapshot \in Pages
      /\ globalRow \in GlobalRow /\ groupRows \in [Groups -> GroupRow] /\ missed \subseteq Scopes
    BY RowTypes DEF SettingsInv, SettingsTypes
<1>3. /\ snapshot' \in Pages
      /\ snapshot'.global = IF mutation.scope = "global" THEN globalRow ELSE snapshot.global
      /\ \A g \in Groups : snapshot'.groups[g] = IF mutation.scope = g THEN groupRows[g] ELSE snapshot.groups[g]
    <2>1. CASE mutation.scope = "global"
        <3>1. snapshot' = [snapshot EXCEPT !.global = globalRow]
            BY <2>1, <1>1
        <3> QED BY <2>1, <3>1, <1>2, SettingsAssumption DEF Pages
    <2>2. CASE mutation.scope # "global"
        <3>1. /\ snapshot' = [snapshot EXCEPT !.groups[mutation.scope] = groupRows[mutation.scope]]
              /\ mutation.scope \in Groups
            BY <2>2, <1>1, <1>2
        <3> QED BY <2>2, <3>1, <1>2, SettingsAssumption DEF Pages
    <2> QED BY <2>1, <2>2
<1>4. SettingsTypes'
    BY <1>1, <1>2, <1>3, RowTypes DEF SettingsTypes
<1>5. PagesWereStored'
    BY <1>1 DEF SettingsInv, PagesWereStored
<1>6. globalRow.revision \in Int /\ \A g \in Groups : groupRows[g].born \in Int
    BY <1>2, RowTypes
<1>7. ServesWhatIsStored'
    <2>1. "global" \notin missed' => snapshot'.global = globalRow'
        BY <1>1, <1>3 DEF SettingsInv, ServesWhatIsStored
    <2>2. ASSUME NEW g \in Groups, g \notin missed' PROVE snapshot'.groups[g] = groupRows'[g]
        BY <2>2, <1>1, <1>3 DEF SettingsInv, ServesWhatIsStored
    <2>3. snapshot'.global.revision <= globalRow'.revision
        BY <1>1, <1>3, <1>6 DEF SettingsInv, ServesWhatIsStored
    <2>4. \A g \in Groups : snapshot'.groups[g].born <= groupRows'[g].born
        BY <1>1, <1>3, <1>6 DEF SettingsInv, ServesWhatIsStored
    <2> QED BY <2>1, <2>2, <2>3, <2>4 DEF ServesWhatIsStored
<1> QED BY <1>1, <1>4, <1>5, <1>7, RowTypes DEF SettingsInv, NothingReplacedUnseen

\* The snapshot is loaded, or stays as it is.
LEMMA LoadStep ==
    ASSUME SettingsInv, UNCHANGED <<globalRow, groupRows, active, seen>>, mutation' = Free,
           \/ snapshot' = Table /\ missed' = {}
           \/ UNCHANGED <<snapshot, missed>>
    PROVE  SettingsInv'
<1>1. SettingsTypes /\ Table \in Pages /\ Table.global = globalRow /\ Table.groups = groupRows
    BY DEF SettingsInv, SettingsTypes, Table, Pages
<1>2. SettingsTypes'
    BY <1>1, RowTypes DEF SettingsTypes
<1>3. PagesWereStored'
    BY DEF SettingsInv, PagesWereStored
<1>4. globalRow.revision \in Int /\ \A g \in Groups : groupRows[g].born \in Int
    BY <1>1, RowTypes DEF SettingsTypes
<1>5. ServesWhatIsStored'
    BY <1>1, <1>4 DEF SettingsInv, ServesWhatIsStored
<1> QED BY <1>2, <1>3, <1>5, RowTypes DEF SettingsInv, NothingReplacedUnseen

LEMMA SettingsStepInv ==
    ASSUME SettingsInv,
           \/ SettingsNext /\ UNCHANGED process
           \/ Crash \/ Start
           \/ UNCHANGED <<process, settingsVars>>
    PROVE  SettingsInv'
<1>1. ASSUME NEW o \in SettingsReplies, Repair(o) PROVE SettingsInv'
    BY <1>1, LoadStep DEF Repair, Repaired
<1>2. CASE RefuseApply
    <2>1. mutation' = [mutation EXCEPT !.pc = "refused"] /\ mutation.pc # "free"
          /\ UNCHANGED <<process, globalRow, groupRows, active, snapshot, seen, missed>>
        BY <1>2 DEF RefuseApply
    <2>2. mutation' \in Mutation /\ mutation'.blind = mutation.blind
        BY <2>1 DEF SettingsInv, SettingsTypes, Mutation
    <2> QED BY <2>1, <2>2 DEF SettingsInv, SettingsTypes, PagesWereStored, ServesWhatIsStored,
                              NothingReplacedUnseen
<1>3. ASSUME NEW g \in Groups, Archive(g) PROVE SettingsInv'
    BY <1>3 DEF Archive, SettingsInv, SettingsTypes, PagesWereStored, ServesWhatIsStored,
                NothingReplacedUnseen
<1>4. CASE Crash
    BY <1>4, LoadStep DEF Crash, ForgetSettings
<1>5. CASE Start
    <2>1. mutation' = Free \/ mutation.pc = "free"
        BY <1>5 DEF Start, SettingsInv
    <2>2. SettingsTypes /\ Table \in Pages /\ Table.global = globalRow /\ Table.groups = groupRows
        BY DEF SettingsInv, SettingsTypes, Table, Pages
    <2>3. snapshot' = Table /\ missed' = {} /\ process' = "up"
          /\ UNCHANGED <<globalRow, groupRows, active, mutation, seen>>
        BY <1>5 DEF Start, LoadSettings
    <2>4. SettingsTypes' /\ PagesWereStored'
        BY <2>2, <2>3 DEF SettingsInv, SettingsTypes, PagesWereStored
    <2>5. globalRow.revision \in Int /\ \A g \in Groups : groupRows[g].born \in Int
        BY <2>2, RowTypes DEF SettingsTypes
    <2>6. ServesWhatIsStored' /\ NothingReplacedUnseen'
        BY <2>2, <2>3, <2>5 DEF SettingsInv, ServesWhatIsStored, NothingReplacedUnseen
    <2> QED BY <2>3, <2>4, <2>6 DEF SettingsInv
<1>6. CASE UNCHANGED <<process, settingsVars>>
    BY <1>6 DEF settingsVars, SettingsInv, SettingsTypes, PagesWereStored, ServesWhatIsStored,
                NothingReplacedUnseen
<1> QED BY <1>1, <1>2, <1>3, <1>4, <1>5, <1>6, OpenStep, UpdateGlobalStep, UpdateGroupStep,
           DeleteGroupStep, ApplyStep DEF SettingsNext

LEMMA SettingsInvHolds == BotSpec => []SettingsInv
<1>1. BotInit => SettingsInv
    BY SettingsInitInv DEF BotInit
<1>2. SettingsInv /\ [BotNext]_botVars => SettingsInv'
    BY StepsOfParts, SettingsStepInv
<1> QED BY <1>1, <1>2, PTL DEF BotSpec

\* The bot goes by what is stored, except for rows whose mutation is not finished,
\* lost its answer or was neither applied nor repaired, and nobody replaces settings
\* that he has not seen: UpdateGlobal, UpdateGroup, DeleteGroup, repairRuntime.
THEOREM BotServesSettings == BotSpec => []SettingsAreServed
<1>1. SettingsInv => SettingsAreServed
    <2> SUFFICES ASSUME SettingsInv PROVE SettingsAreServed
        OBVIOUS
    <2>1. SettingsTypeOK
        BY RowTypes DEF SettingsInv, SettingsTypes, SettingsTypeOK, Pages
    <2> QED BY <2>1 DEF SettingsInv, SettingsAreServed
<1> QED BY <1>1, SettingsInvHolds, PTL

\* Whoever is told that a mutation succeeded finds the bot going by it: the mutex is
\* held until the snapshot has taken the row over, and a row that was refused is
\* loaded: ApplyGlobal, ApplyGroup, repairRuntime.
THEOREM BotGoesByAcknowledged == BotSpec => AcknowledgedIsServed
<1> DEFINE A == mutation.pc # "free" /\ mutation'.pc = "free" /\ process' = "up" /\ missed' # missed
                  => /\ mutation.scope = "global" => snapshot'.global = globalRow
                     /\ \A g \in Groups :
                           mutation.scope = g =>
                              Effective(g)' = Resolve(globalRow.features, groupRows[g].overrides)
<1>1. ASSUME SettingsInv, [BotNext]_botVars PROVE A
    <2>1. SettingsTypes /\ snapshot \in Pages
        BY <1>1 DEF SettingsInv, SettingsTypes
    <2>2. CASE Apply
        <3>1. CASE mutation.scope = "global"
            BY <2>1, <2>2, <3>1, SettingsAssumption DEF Apply, Pages
        <3>2. CASE mutation.scope # "global"
            <4>1. ASSUME NEW g \in Groups, mutation.scope = g
                  PROVE  Effective(g)' = Resolve(globalRow.features, groupRows[g].overrides)
                <5>1. snapshot' = [snapshot EXCEPT !.groups[g] = groupRows[g]]
                    BY <2>2, <3>2, <4>1 DEF Apply
                <5>2. snapshot'.global = snapshot.global /\ snapshot'.groups[g] = groupRows[g]
                    BY <5>1, <2>1 DEF Pages
                <5>3. Resolve(globalRow.features, groupRows[g].overrides)
                        = Resolve(snapshot.global.features, groupRows[g].overrides)
                    BY <2>2, <3>2, <4>1 DEF Apply, Applies, AppliesGroup
                <5> QED BY <5>2, <5>3 DEF Effective
            <4> QED BY <3>2, <4>1
        <3> QED BY <3>1, <3>2
    <2>3. ASSUME NEW o \in SettingsReplies, Repair(o) PROVE A
        BY <2>3 DEF Repair, Repaired, Table, Effective
    <2>4. CASE Crash
        BY <2>4 DEF Crash
    <2>5. CASE UNCHANGED mutation
        BY <2>5
    <2>6. \/ Apply \/ Crash \/ UNCHANGED mutation \/ \E o \in SettingsReplies : Repair(o)
          \/ mutation.pc = "free" \/ mutation'.pc # "free"
        <3>1. CASE SettingsNext
            <4>1. RefuseApply => mutation'.pc = "refused"
                BY <2>1 DEF RefuseApply, SettingsTypes, Mutation
            <4> QED BY <3>1, <4>1 DEF SettingsNext, Open, UpdateGlobal, UpdateGroup, DeleteGroup, Archive
        <3>2. CASE Start
            BY <3>2 DEF Start, LoadSettings
        <3> QED BY <1>1, <3>1, <3>2, StepsOfParts DEF settingsVars
    <2> QED BY <2>2, <2>3, <2>4, <2>5, <2>6
<1> QED BY <1>1, SettingsInvHolds, PTL DEF BotSpec, AcknowledgedIsServed

(***************************************************************************)
(* Messages.  What a worker knows of its message, whichever step it is at, *)
(* is in HandlerSound; the settings and the connection around it are in    *)
(* MessagesInv.                                                            *)
(***************************************************************************)

Attempts == [part: Chat!Parts \cup {"hint", "fallback"}, outcome: Chat!Outcomes]

\* Of the first n attempts those that failed were mended by the next one.
Mended(tried, n) ==
    \A i \in 1..n : tried[i].outcome # "confirmed" =>
        /\ i < Len(tried) /\ tried[i + 1].outcome = "confirmed"
        /\ tried[i + 1].part \in {"hint", "fallback"}

\* Parts of the answer that were tried, and those that are left.
Halfway(h) ==
    LET n == Len(h.message.parts) - Len(h.rest)
    IN /\ n \in Nat /\ Chat!TriedInOrder(h, n)
       /\ \A i \in DOMAIN h.rest : h.rest[i] = h.message.parts[n + i]

AnswerSound(h) ==
    /\ h.answers \cap Chat!Features \subseteq h.on
    /\ "disabled" \in h.answers => h.off \cap {"quote", "ai"} # {}
    /\ \E x \in Chat!Repliers : h.answers \subseteq {x}

CountSound(h) ==
    h.counted =>
        /\ h.tried # <<>> /\ Mended(h.tried, Len(h.tried))
        /\ h.tried[Len(h.tried)].part = "fallback" \/ Chat!TriedInOrder(h, Len(h.message.parts))

BeforeAnswer == {"route", "role", "custom", "link", "keyword", "reply"}
InParts == {"parts", "hint", "fallback"}

HandlerSound(h) ==
    /\ h \in Chat!Handler /\ AnswerSound(h) /\ CountSound(h)
    /\ h.pc # "idle" => h.message \in Messages /\ ~h.counted
    /\ h.pc \in BeforeAnswer => h.answers = {} /\ h.tried = <<>>
    /\ h.pc = "reply" => /\ h.replier \in Chat!Features => h.replier \in h.on
                         /\ h.replier = "disabled" => h.off \cap {"quote", "ai"} # {}
    /\ h.pc \in InParts => h.answers \subseteq {"keyword"} /\ "keyword" \in h.on /\ Halfway(h)
    /\ h.pc = "parts" => h.rest # <<>> /\ Mended(h.tried, Len(h.tried))
    /\ h.pc \in {"hint", "fallback"} => h.tried # <<>> /\ Mended(h.tried, Len(h.tried) - 1)

SettingsNoted(h) == h.pc # "idle" => Enabled \subseteq h.on /\ Chat!Features \ Enabled \subseteq h.off

MessagesTypes ==
    /\ gateway \in [connected: BOOLEAN, generation: 0..MaxSessions]
    /\ session \in {"none", "open", "closing"} /\ asking \in [AiSlots -> Chat!Question]
    /\ arrived \in 0..MaxMessages /\ handler \in [Workers -> Chat!Handler]

\* Workers belong to the session that is connected.
InSession ==
    /\ session # "none" => gateway.connected /\ process = "up"
    /\ \A w \in Workers : Chat!Busy(w) => session # "none" /\ handler[w].generation = gateway.generation

MessagesInv ==
    /\ MessagesTypes /\ InSession
    /\ \A w \in Workers : HandlerSound(handler[w]) /\ SettingsNoted(handler[w])

LEMMA IdleSound == HandlerSound(Chat!Idle)
<1>1. Chat!Idle \in Chat!Handler
    BY BotAssumption DEF Chat!Idle, Chat!Handler, Chat!GroupMessagesAssumption, Chat!Repliers, Chat!Commands
<1> QED BY <1>1 DEF HandlerSound, AnswerSound, CountSound, Chat!Idle, BeforeAnswer, InParts,
                    Chat!Repliers, Chat!Commands

LEMMA EnabledTypes == Enabled \subseteq Chat!Features
BY DEF Enabled, BotFeatures, Chat!Features

\* A worker's step leaves a sound worker, and the others as they are.
LEMMA OneHandler ==
    ASSUME MessagesInv, NEW w \in Workers, NEW h, handler' = [handler EXCEPT ![w] = h],
           HandlerSound(h), UNCHANGED <<process, snapshot, gateway, session>>,
           asking' \in [AiSlots -> Chat!Question], arrived' \in 0..MaxMessages,
           h.pc # "idle" => /\ Enabled \subseteq h.on /\ Chat!Features \ Enabled \subseteq h.off
                            /\ session # "none" /\ h.generation = gateway.generation
    PROVE  MessagesInv'
<1>1. h \in Chat!Handler
    BY DEF HandlerSound
<1>2. handler' \in [Workers -> Chat!Handler]
    BY <1>1 DEF MessagesInv, MessagesTypes
<1>3. \A v \in Workers : handler'[v] = IF v = w THEN h ELSE handler[v]
    BY DEF MessagesInv, MessagesTypes
<1>4. Enabled' = Enabled
    BY DEF Enabled, Effective
<1>5. MessagesTypes' /\ InSession'
    BY <1>2, <1>3 DEF MessagesInv, MessagesTypes, InSession, Chat!Busy
<1>6. \A v \in Workers : HandlerSound(handler'[v]) /\ SettingsNoted(handler[v])'
    BY <1>3, <1>4 DEF MessagesInv, SettingsNoted
<1> QED BY <1>5, <1>6 DEF MessagesInv, HandlerSound, SettingsNoted

\* Before a message is answered, a worker goes on to another check, or leaves.
LEMMA MoveSound ==
    ASSUME NEW h, HandlerSound(h), h.pc \in BeforeAnswer,
           NEW pc \in {"idle", "role", "custom", "link", "keyword"}
    PROVE  HandlerSound([h EXCEPT !.pc = pc])
<1> DEFINE k == [h EXCEPT !.pc = pc]
<1>1. h \in Chat!Handler
    BY DEF HandlerSound
<1>2. /\ k \in Chat!Handler /\ k.pc = pc /\ k.message = h.message /\ k.replier = h.replier
      /\ k.rest = h.rest /\ k.tried = h.tried /\ k.counted = h.counted /\ k.answers = h.answers
      /\ k.on = h.on /\ k.off = h.off
    BY <1>1 DEF Chat!Handler
<1> HIDE DEF k
<1>3. AnswerSound(k) /\ CountSound(k)
    BY <1>2 DEF HandlerSound, AnswerSound, CountSound, BeforeAnswer
<1> QED BY <1>2, <1>3 DEF HandlerSound, BeforeAnswer, InParts, k

\* Whoever is about to reply is on, or says that a feature is off.
LEMMA ReplySound ==
    ASSUME NEW h, HandlerSound(h), h.pc \in BeforeAnswer, NEW f \in Chat!Repliers,
           f \in Chat!Features => f \in h.on,
           f = "disabled" => h.off \cap {"quote", "ai"} # {}
    PROVE  HandlerSound([h EXCEPT !.pc = "reply", !.replier = f])
<1> DEFINE k == [h EXCEPT !.pc = "reply", !.replier = f]
<1>1. h \in Chat!Handler
    BY DEF HandlerSound
<1>2. /\ k \in Chat!Handler /\ k.pc = "reply" /\ k.message = h.message /\ k.replier = f
      /\ k.rest = h.rest /\ k.tried = h.tried /\ k.counted = h.counted /\ k.answers = h.answers
      /\ k.on = h.on /\ k.off = h.off
    BY <1>1 DEF Chat!Handler
<1> HIDE DEF k
<1>3. AnswerSound(k) /\ CountSound(k)
    BY <1>2 DEF HandlerSound, AnswerSound, CountSound, BeforeAnswer
<1> QED BY <1>2, <1>3 DEF HandlerSound, BeforeAnswer, InParts, k

LEMMA SendReplySound ==
    ASSUME NEW h, HandlerSound(h), h.pc = "reply", NEW o \in Chat!Outcomes
    PROVE  HandlerSound([h EXCEPT !.pc = "idle",
                                  !.answers = IF o = "refused" THEN @ ELSE @ \cup {h.replier}])
<1> DEFINE answers == IF o = "refused" THEN h.answers ELSE h.answers \cup {h.replier}
           k == [h EXCEPT !.pc = "idle", !.answers = answers]
<1>1. h \in Chat!Handler /\ h.replier \in Chat!Repliers /\ h.answers = {} /\ ~h.counted
    BY DEF HandlerSound, Chat!Handler, BeforeAnswer
<1>2. answers \in SUBSET Chat!Repliers /\ answers \subseteq {h.replier}
    BY <1>1
<1> HIDE DEF answers
<1>3. /\ k \in Chat!Handler /\ k.pc = "idle" /\ k.answers = answers /\ k.counted = h.counted
      /\ k.on = h.on /\ k.off = h.off
    BY <1>1, <1>2 DEF Chat!Handler
<1>4. k = [h EXCEPT !.pc = "idle", !.answers = IF o = "refused" THEN @ ELSE @ \cup {h.replier}]
    BY DEF answers
<1> HIDE DEF k
<1>5. AnswerSound(k)
    BY <1>1, <1>2, <1>3 DEF HandlerSound, AnswerSound
<1>6. HandlerSound(k)
    BY <1>1, <1>3, <1>5 DEF HandlerSound, CountSound, BeforeAnswer, InParts
<1> QED BY <1>4, <1>6

LEMMA KeywordSound ==
    ASSUME NEW h, HandlerSound(h), h.pc = "keyword", "keyword" \in h.on,
           "keyword" \in h.message.matches
    PROVE  HandlerSound([h EXCEPT !.pc = "parts", !.replier = "keyword", !.rest = h.message.parts])
<1> DEFINE k == [h EXCEPT !.pc = "parts", !.replier = "keyword", !.rest = h.message.parts]
<1>1. h \in Chat!Handler /\ h.message \in Messages /\ h.answers = {} /\ h.tried = <<>> /\ ~h.counted
    BY DEF HandlerSound, BeforeAnswer
<1>2. h.message.parts \in Seq(Chat!Parts) /\ h.message.parts # <<>>
    BY <1>1, BotAssumption DEF Chat!GroupMessagesAssumption, Chat!Message
<1>3. /\ k \in Chat!Handler /\ k.pc = "parts" /\ k.message = h.message /\ k.rest = h.message.parts
      /\ k.tried = h.tried /\ k.counted = h.counted /\ k.answers = h.answers
      /\ k.on = h.on /\ k.off = h.off
    BY <1>1, <1>2 DEF Chat!Handler, Chat!Repliers, Chat!Features
<1> HIDE DEF k
<1>4. Chat!TriedInOrder(k, 0)
    <2> DEFINE place == [i \in 1..0 |-> 1]
    <2>1. place \in [1..0 -> DOMAIN k.tried]
        OBVIOUS
    <2>2. DOMAIN k.tried = {} /\ 1..0 = {}
        BY <1>1, <1>3
    <2> QED BY <2>1, <2>2 DEF Chat!TriedInOrder
<1>5. Halfway(k)
    BY <1>2, <1>3, <1>4 DEF Halfway
<1>6. Mended(k.tried, Len(k.tried))
    BY <1>1, <1>3 DEF Mended
<1>7. AnswerSound(k) /\ CountSound(k)
    BY <1>1, <1>3 DEF HandlerSound, AnswerSound, CountSound
<1> QED BY <1>1, <1>2, <1>3, <1>5, <1>6, <1>7 DEF HandlerSound, BeforeAnswer, InParts, k

\* One more part was tried.
LEMMA PartTried ==
    ASSUME NEW h, NEW k, NEW n \in Nat, NEW t \in Attempts, h.tried \in Seq(Attempts),
           Chat!TriedInOrder(h, n), k.tried = Append(h.tried, t), k.message = h.message,
           h.message.parts[n + 1] = t.part
    PROVE  Chat!TriedInOrder(k, n + 1)
<1>1. PICK place \in [1..n -> DOMAIN h.tried] :
        /\ \A i, j \in 1..n : i < j => place[i] < place[j]
        /\ \A i \in 1..n : h.tried[place[i]].part = h.message.parts[i]
        /\ \A e \in DOMAIN h.tried : h.tried[e].part \in Chat!Parts => \E i \in 1..n : place[i] = e
    BY DEF Chat!TriedInOrder
<1>2. /\ DOMAIN h.tried = 1..Len(h.tried) /\ Len(h.tried) \in Nat
      /\ DOMAIN k.tried = 1..(Len(h.tried) + 1) /\ k.tried[Len(h.tried) + 1] = t
      /\ \A e \in DOMAIN h.tried : k.tried[e] = h.tried[e]
    OBVIOUS
<1> DEFINE later == [i \in 1..(n + 1) |-> IF i = n + 1 THEN Len(h.tried) + 1 ELSE place[i]]
<1>3. /\ later \in [1..(n + 1) -> DOMAIN k.tried] /\ later[n + 1] = Len(h.tried) + 1
      /\ \A i \in 1..n : later[i] = place[i] /\ place[i] \in DOMAIN h.tried
    BY <1>2
<1> HIDE DEF later
<1>4. \A i \in 1..(n + 1) : i \in 1..n \/ i = n + 1
    OBVIOUS
<1>5. \A i, j \in 1..(n + 1) : i < j => later[i] < later[j]
    BY <1>1, <1>2, <1>3, <1>4
<1>6. \A i \in 1..(n + 1) : k.tried[later[i]].part = k.message.parts[i]
    <2>1. \A i \in 1..n : k.tried[later[i]] = h.tried[place[i]]
        BY <1>2, <1>3
    <2>2. k.tried[later[n + 1]].part = h.message.parts[n + 1]
        BY <1>2, <1>3
    <2> QED BY <1>1, <1>4, <2>1, <2>2
<1>7. \A e \in DOMAIN k.tried : k.tried[e].part \in Chat!Parts => \E i \in 1..(n + 1) : later[i] = e
    BY <1>1, <1>2, <1>3
<1> QED BY <1>3, <1>5, <1>6, <1>7 DEF Chat!TriedInOrder

\* Something else was sent.
LEMMA OtherTried ==
    ASSUME NEW h, NEW k, NEW n \in Nat, NEW t \in Attempts, h.tried \in Seq(Attempts),
           Chat!TriedInOrder(h, n), k.tried = Append(h.tried, t), k.message = h.message,
           t.part \notin Chat!Parts
    PROVE  Chat!TriedInOrder(k, n)
<1>1. PICK place \in [1..n -> DOMAIN h.tried] :
        /\ \A i, j \in 1..n : i < j => place[i] < place[j]
        /\ \A i \in 1..n : h.tried[place[i]].part = h.message.parts[i]
        /\ \A e \in DOMAIN h.tried : h.tried[e].part \in Chat!Parts => \E i \in 1..n : place[i] = e
    BY DEF Chat!TriedInOrder
<1>2. /\ DOMAIN h.tried = 1..Len(h.tried) /\ Len(h.tried) \in Nat
      /\ DOMAIN k.tried = 1..(Len(h.tried) + 1) /\ k.tried[Len(h.tried) + 1] = t
      /\ \A e \in DOMAIN h.tried : k.tried[e] = h.tried[e]
    OBVIOUS
<1>3. place \in [1..n -> DOMAIN k.tried] /\ \A i \in 1..n : place[i] \in DOMAIN h.tried
    BY <1>2
<1>4. \A i \in 1..n : k.tried[place[i]].part = k.message.parts[i]
    BY <1>1, <1>2, <1>3
<1>5. \A e \in DOMAIN k.tried : k.tried[e].part \in Chat!Parts => \E i \in 1..n : place[i] = e
    BY <1>1, <1>2
<1> QED BY <1>1, <1>3, <1>4, <1>5 DEF Chat!TriedInOrder

\* Nothing else of a worker matters.
LEMMA SameAttempts ==
    ASSUME NEW h, NEW k, NEW n, k.tried = h.tried, k.message = h.message, Chat!TriedInOrder(h, n)
    PROVE  Chat!TriedInOrder(k, n)
<1>1. PICK place \in [1..n -> DOMAIN h.tried] :
        /\ \A i, j \in 1..n : i < j => place[i] < place[j]
        /\ \A i \in 1..n : h.tried[place[i]].part = h.message.parts[i]
        /\ \A e \in DOMAIN h.tried : h.tried[e].part \in Chat!Parts => \E i \in 1..n : place[i] = e
    BY DEF Chat!TriedInOrder
<1>2. place \in [1..n -> DOMAIN k.tried]
    BY Zenon
<1>3. \A i \in 1..n : k.tried[place[i]].part = k.message.parts[i]
    BY <1>1, Zenon
<1>4. \A e \in DOMAIN k.tried : k.tried[e].part \in Chat!Parts => \E i \in 1..n : place[i] = e
    BY <1>1, Zenon
<1> QED BY <1>1, <1>2, <1>3, <1>4, Zenon DEF Chat!TriedInOrder

\* A worker after one more attempt, as in Tried.
Attempted(h, p, o, pc, rest) ==
    [h EXCEPT !.pc = pc, !.rest = rest, !.tried = Append(@, [part |-> p, outcome |-> o]),
              !.answers = IF o = "refused" THEN @ ELSE @ \cup {"keyword"},
              !.counted = pc = "idle" /\ o = "confirmed"]

LEMMA AttemptSound ==
    ASSUME NEW h, HandlerSound(h), h.pc \in InParts, NEW p \in Chat!Parts \cup {"hint", "fallback"},
           NEW o \in Chat!Outcomes, NEW pc \in {"idle"} \cup InParts, NEW rest \in Seq(Chat!Parts),
           h.pc = "parts" => /\ h.rest # <<>> /\ p = Head(h.rest) /\ rest = Tail(h.rest)
                             /\ pc \in {"hint", "fallback"} => o # "confirmed",
           h.pc # "parts" => rest = h.rest /\ p = h.pc /\ (pc # "idle" => pc = "parts"),
           pc = "parts" => o = "confirmed" /\ rest # <<>>,
           pc = "idle" /\ o = "confirmed" => p = "fallback" \/ rest = <<>>
    PROVE  HandlerSound(Attempted(h, p, o, pc, rest))
<1> DEFINE t == [part |-> p, outcome |-> o]
           k == Attempted(h, p, o, pc, rest)
           answers == IF o = "refused" THEN h.answers ELSE h.answers \cup {"keyword"}
<1>1. /\ h \in Chat!Handler /\ h.message \in Messages /\ h.answers \subseteq {"keyword"}
      /\ "keyword" \in h.on /\ Halfway(h) /\ h.tried \in Seq(Attempts) /\ h.rest \in Seq(Chat!Parts)
      /\ h.counted = FALSE
    BY DEF HandlerSound, InParts, Chat!Handler, Attempts
<1>2. t \in Attempts /\ Append(h.tried, t) \in Seq(Attempts) /\ answers \in SUBSET Chat!Repliers
    BY <1>1 DEF Attempts, Chat!Repliers, Chat!Features
<1>3. /\ k \in Chat!Handler /\ k.pc = pc /\ k.message = h.message /\ k.rest = rest
      /\ k.tried = Append(h.tried, t) /\ k.answers = answers /\ k.counted = (pc = "idle" /\ o = "confirmed")
      /\ k.on = h.on /\ k.off = h.off
    BY <1>1, <1>2 DEF Chat!Handler, Attempted, Attempts, InParts
<1> HIDE DEF k
<1>4. h.message.parts \in Seq(Chat!Parts)
    BY <1>1, BotAssumption DEF Chat!GroupMessagesAssumption, Chat!Message
<1>5. Halfway(k)
    <2> DEFINE n == Len(h.message.parts) - Len(h.rest)
    <2>1. n \in Nat /\ Chat!TriedInOrder(h, n) /\ \A i \in DOMAIN h.rest : h.rest[i] = h.message.parts[n + i]
        BY <1>1 DEF Halfway
    <2>2. CASE h.pc = "parts"
        <3>1. h.rest # <<>> /\ p = Head(h.rest) /\ rest = Tail(h.rest)
            BY <2>2
        <3>2. /\ p = h.rest[1] /\ Len(h.rest) \in Nat /\ Len(h.rest) >= 1 /\ Len(rest) = Len(h.rest) - 1
              /\ DOMAIN h.rest = 1..Len(h.rest) /\ DOMAIN rest = 1..(Len(h.rest) - 1)
              /\ \A i \in 1..(Len(h.rest) - 1) : rest[i] = h.rest[i + 1]
            BY <1>1, <3>1, HeadAndTail
        <3>8. h.message.parts[n + 1] = t.part
            <4>1. 1 \in DOMAIN h.rest
                BY <3>2
            <4> HIDE DEF n
            <4> QED BY <2>1, <3>2, <4>1
        <3>3. Chat!TriedInOrder(k, n + 1)
            BY <1>1, <1>2, <1>3, <2>1, <3>8, PartTried
        <3>4. Len(k.message.parts) - Len(k.rest) = n + 1
            BY <1>3, <1>4, <3>2
        <3>5. \A i \in DOMAIN k.rest : k.rest[i] = k.message.parts[(n + 1) + i]
            <4> SUFFICES ASSUME NEW i \in DOMAIN rest PROVE rest[i] = h.message.parts[(n + 1) + i]
                BY <1>3
            <4>1. i + 1 \in DOMAIN h.rest /\ i \in Nat /\ rest[i] = h.rest[i + 1]
                BY <3>2
            <4> HIDE DEF n
            <4>2. n + (i + 1) = (n + 1) + i
                BY <2>1, <4>1
            <4> QED BY <2>1, <4>1, <4>2
        <3>6. n + 1 \in Nat
            BY <2>1
        <3> QED BY <3>3, <3>4, <3>5, <3>6 DEF Halfway
    <2>3. CASE h.pc # "parts"
        <3>1. p \in {"hint", "fallback"} /\ rest = h.rest
            BY <2>3 DEF InParts
        <3>2. t.part \notin Chat!Parts
            BY <3>1 DEF Chat!Parts
        <3>3. Chat!TriedInOrder(k, n)
            BY <1>1, <1>2, <1>3, <2>1, <3>2, OtherTried
        <3> QED BY <1>3, <2>1, <3>1, <3>3 DEF Halfway
    <2> QED BY <2>2, <2>3
<1>6. /\ Len(h.tried) \in Nat /\ Len(k.tried) = Len(h.tried) + 1
      /\ k.tried[Len(h.tried) + 1] = t
      /\ \A i \in 1..Len(h.tried) : k.tried[i] = h.tried[i]
    BY <1>1, <1>2, <1>3, AppendedLast
<1>14. ASSUME pc # "idle" \/ o = "confirmed"
      PROVE  Mended(k.tried, Len(k.tried) - 1)
    <2> SUFFICES ASSUME NEW i \in 1..Len(h.tried), h.tried[i].outcome # "confirmed"
                 PROVE  /\ i < Len(k.tried) /\ k.tried[i + 1].outcome = "confirmed"
                        /\ k.tried[i + 1].part \in {"hint", "fallback"}
        <3>1. Len(k.tried) - 1 = Len(h.tried)
            BY <1>6
        <3> QED BY <1>6, <3>1 DEF Mended
    <2>2. CASE h.pc = "parts"
        <3>1. Mended(h.tried, Len(h.tried))
            BY <2>2 DEF HandlerSound
        <3>2. /\ i < Len(h.tried) /\ h.tried[i + 1].outcome = "confirmed"
              /\ h.tried[i + 1].part \in {"hint", "fallback"}
            BY <3>1 DEF Mended
        <3>3. i + 1 \in 1..Len(h.tried)
            BY <1>6, <3>2
        <3> QED BY <1>6, <3>2, <3>3
    <2>3. CASE h.pc # "parts"
        <3>1. Mended(h.tried, Len(h.tried) - 1) /\ o = "confirmed" /\ p \in {"hint", "fallback"}
            BY <1>14, <2>3 DEF HandlerSound, InParts
        <3>2. CASE i = Len(h.tried)
            BY <1>6, <3>1, <3>2
        <3>3. CASE i # Len(h.tried)
            <4>1. i \in 1..(Len(h.tried) - 1) /\ i + 1 \in 1..Len(h.tried)
                BY <1>6, <3>3
            <4>2. h.tried[i + 1].outcome = "confirmed" /\ h.tried[i + 1].part \in {"hint", "fallback"}
                BY <3>1, <4>1 DEF Mended
            <4> QED BY <1>6, <4>1, <4>2
        <3> QED BY <3>2, <3>3
    <2> QED BY <2>2, <2>3
<1>7. Mended(k.tried, Len(k.tried) - 1) /\ o = "confirmed" => Mended(k.tried, Len(k.tried))
    <2> SUFFICES ASSUME Mended(k.tried, Len(k.tried) - 1), o = "confirmed",
                        NEW i \in 1..Len(k.tried), k.tried[i].outcome # "confirmed"
                 PROVE  i \in 1..(Len(k.tried) - 1)
        BY DEF Mended
    <2> QED BY <1>6
<1>8. k.tried # <<>> /\ k.tried[Len(k.tried)] = t
    BY <1>6
<1>9. AnswerSound(k)
    BY <1>1, <1>3 DEF AnswerSound, Chat!Repliers, Chat!Features
<1>10. CountSound(k)
    <2>1. rest = <<>> => Chat!TriedInOrder(k, Len(k.message.parts))
        <3>1. Len(k.message.parts) \in Nat /\ (rest = <<>> => Len(k.rest) = 0)
            <4>1. k.rest = rest /\ k.message.parts = h.message.parts
                BY <1>3
            <4>2. Len(h.message.parts) \in Nat
                BY <1>4
            <4>3. rest = <<>> => Len(rest) = 0
                OBVIOUS
            <4> QED BY <4>1, <4>2, <4>3
        <3>2. Chat!TriedInOrder(k, Len(k.message.parts) - Len(k.rest))
            BY <1>5 DEF Halfway
        <3>3. ASSUME rest = <<>> PROVE Len(k.message.parts) - Len(k.rest) = Len(k.message.parts)
            <4> DEFINE all == Len(k.message.parts)
                       left == Len(k.rest)
            <4>1. all \in Nat /\ left = 0
                BY <3>1, <3>3
            <4> HIDE DEF all, left
            <4>2. all - left = all
                BY <4>1
            <4> QED BY <4>2 DEF all, left
        <3> QED BY <3>2, <3>3
    <2>2. ASSUME k.counted
          PROVE  /\ k.tried # <<>> /\ Mended(k.tried, Len(k.tried))
                 /\ k.tried[Len(k.tried)].part = "fallback" \/ rest = <<>>
        <3>1. pc = "idle" /\ o = "confirmed"
            BY <1>3, <2>2
        <3>2. Mended(k.tried, Len(k.tried))
            BY <1>7, <1>14, <3>1
        <3> QED BY <1>8, <3>1, <3>2
    <2> QED BY <2>1, <2>2 DEF CountSound
<1>11. k.answers \subseteq {"keyword"} /\ "keyword" \in k.on
    BY <1>1, <1>3
<1>12. pc \notin BeforeAnswer /\ pc # "reply"
    BY DEF BeforeAnswer, InParts
<1>13. pc = "parts" => o = "confirmed"
    OBVIOUS
<1> QED BY <1>1, <1>3, <1>5, <1>14, <1>7, <1>8, <1>9, <1>10, <1>11, <1>12, <1>13
       DEF HandlerSound, InParts, k

\* A busy worker knows the settings and belongs to the session.
LEMMA BusyWorker ==
    ASSUME MessagesInv, NEW w \in Workers, handler[w].pc # "idle"
    PROVE  /\ HandlerSound(handler[w]) /\ handler[w] \in Chat!Handler /\ handler[w].message \in Messages
           /\ Enabled \subseteq handler[w].on /\ Chat!Features \ Enabled \subseteq handler[w].off
           /\ session # "none" /\ handler[w].generation = gateway.generation
BY DEF MessagesInv, HandlerSound, SettingsNoted, InSession, Chat!Busy

LEMMA GoStep ==
    ASSUME MessagesInv, NEW w \in Workers, handler[w].pc \in BeforeAnswer,
           NEW pc \in {"idle", "role", "custom", "link", "keyword"}, Chat!Go(w, pc),
           UNCHANGED <<process, snapshot, gateway, session, arrived>>,
           asking' \in [AiSlots -> Chat!Question]
    PROVE  MessagesInv'
<1> DEFINE h == [handler[w] EXCEPT !.pc = pc]
<1>1. handler[w].pc # "idle"
    BY DEF BeforeAnswer
<1>2. handler' = [handler EXCEPT ![w] = h]
    BY DEF Chat!Go
<1>3. HandlerSound(h)
    BY <1>1, BusyWorker, MoveSound
<1>4. h.on = handler[w].on /\ h.off = handler[w].off /\ h.generation = handler[w].generation
    BY <1>1, BusyWorker DEF Chat!Handler
<1>5. arrived' \in 0..MaxMessages
    BY DEF MessagesInv, MessagesTypes
<1> HIDE DEF h
<1> QED BY <1>1, <1>2, <1>3, <1>4, <1>5, BusyWorker, OneHandler

LEMMA ReplyStep ==
    ASSUME MessagesInv, NEW w \in Workers, handler[w].pc \in BeforeAnswer,
           NEW f \in Chat!Repliers, Chat!ReplyBy(w, f),
           f \in Chat!Features => f \in handler[w].on,
           f = "disabled" => handler[w].off \cap {"quote", "ai"} # {},
           UNCHANGED <<process, snapshot, gateway, session, asking, arrived>>
    PROVE  MessagesInv'
<1> DEFINE h == [handler[w] EXCEPT !.pc = "reply", !.replier = f]
<1>1. handler[w].pc # "idle"
    BY DEF BeforeAnswer
<1>2. handler' = [handler EXCEPT ![w] = h]
    BY DEF Chat!ReplyBy
<1>3. HandlerSound(h)
    BY <1>1, BusyWorker, ReplySound
<1>4. h.on = handler[w].on /\ h.off = handler[w].off /\ h.generation = handler[w].generation
    BY <1>1, BusyWorker DEF Chat!Handler
<1>5. arrived' \in 0..MaxMessages /\ asking' \in [AiSlots -> Chat!Question]
    BY DEF MessagesInv, MessagesTypes
<1> HIDE DEF h
<1> QED BY <1>1, <1>2, <1>3, <1>4, <1>5, BusyWorker, OneHandler

LEMMA AttemptStep ==
    ASSUME MessagesInv, NEW w \in Workers, handler[w].pc \in InParts,
           NEW p \in Chat!Parts \cup {"hint", "fallback"}, NEW o \in Chat!Outcomes,
           NEW pc \in {"idle"} \cup InParts, NEW rest \in Seq(Chat!Parts), Chat!Tried(w, p, o, pc, rest),
           handler[w].pc = "parts" => /\ handler[w].rest # <<>> /\ p = Head(handler[w].rest)
                                      /\ rest = Tail(handler[w].rest)
                                      /\ pc \in {"hint", "fallback"} => o # "confirmed",
           handler[w].pc # "parts" => rest = handler[w].rest /\ p = handler[w].pc
                                      /\ (pc # "idle" => pc = "parts"),
           pc = "parts" => o = "confirmed" /\ rest # <<>>,
           pc = "idle" /\ o = "confirmed" => p = "fallback" \/ rest = <<>>,
           UNCHANGED <<process, snapshot, gateway, session, asking, arrived>>
    PROVE  MessagesInv'
<1> DEFINE h == Attempted(handler[w], p, o, pc, rest)
<1>1. handler[w].pc # "idle"
    BY DEF InParts
<1>2. handler' = [handler EXCEPT ![w] = h]
    BY DEF Chat!Tried, Attempted
<1>3. HandlerSound(h)
    BY <1>1, BusyWorker, AttemptSound
<1>4. h.on = handler[w].on /\ h.off = handler[w].off /\ h.generation = handler[w].generation
    BY <1>1, BusyWorker DEF Chat!Handler, Attempted
<1>5. arrived' \in 0..MaxMessages /\ asking' \in [AiSlots -> Chat!Question]
    BY DEF MessagesInv, MessagesTypes
<1> HIDE DEF h
<1> QED BY <1>1, <1>2, <1>3, <1>4, <1>5, BusyWorker, OneHandler

LEMMA WorkerStepInv ==
    ASSUME MessagesInv, NEW w \in Workers, Chat!WorkerStep(w), UNCHANGED <<process, snapshot>>
    PROVE  MessagesInv'
<1>1. /\ handler[w].pc # "idle" => /\ handler[w].message.command \in Chat!Commands
                                   /\ handler[w].replier \in Chat!Repliers
      /\ asking \in [AiSlots -> Chat!Question]
      /\ Chat!Commands \subseteq Chat!Repliers /\ Chat!Features \subseteq Chat!Repliers
      /\ {"busy", "disabled"} \subseteq Chat!Repliers
      /\ \A c \in Chat!Commands \cup {"busy"} : c \notin Chat!Features /\ c # "disabled"
    <2>1. handler[w].pc # "idle" => handler[w].message.command \in Chat!Commands
        BY BusyWorker, BotAssumption DEF Chat!GroupMessagesAssumption, Chat!Message
    <2>2. handler[w].pc # "idle" => handler[w].replier \in Chat!Repliers
        BY BusyWorker DEF Chat!Handler
    <2> QED BY <2>1, <2>2 DEF MessagesInv, MessagesTypes, Chat!Repliers, Chat!Commands, Chat!Features
<1>2. handler[w].pc # "idle" => Enabled \subseteq handler[w].on /\ Chat!Features \ Enabled \subseteq handler[w].off
    BY BusyWorker
<1>3. /\ handler[w].pc # "idle"
      /\ Chat!OnlyHandler => UNCHANGED <<gateway, session, asking, arrived>>
    BY DEF Chat!WorkerStep, Chat!RouteFixed, Chat!RouteOther, Chat!RouteAdmin, Chat!ExecuteCommand,
           Chat!RouteQuote, Chat!RouteQuestion, Chat!RefuseQuestion, Chat!Custom, Chat!Link,
           Chat!Keyword, Chat!Welcome, Chat!SendReply, Chat!SendPart, Chat!SendHint,
           Chat!SendFallback, Chat!RoutesTo, Chat!OnlyHandler
<1>4. ASSUME NEW pc \in {"idle", "role", "custom", "link", "keyword"}, Chat!Go(w, pc), Chat!OnlyHandler,
             handler[w].pc \in BeforeAnswer
      PROVE  MessagesInv'
    BY <1>1, <1>3, <1>4, GoStep
<1>5. ASSUME NEW f \in Chat!Repliers, Chat!ReplyBy(w, f), Chat!OnlyHandler, handler[w].pc \in BeforeAnswer,
             f \in Chat!Features => f \in Enabled,
             f = "disabled" => \E x \in {"quote", "ai"} : x \notin Enabled
      PROVE  MessagesInv'
    <2>1. f \in Chat!Features => f \in handler[w].on
        BY <1>2, <1>3, <1>5
    <2>2. f = "disabled" => handler[w].off \cap {"quote", "ai"} # {}
        BY <1>2, <1>3, <1>5 DEF Chat!Features
    <2> QED BY <1>3, <1>5, <2>1, <2>2, ReplyStep
<1>6. CASE Chat!RouteFixed(w)
    BY <1>1, <1>3, <1>5, <1>6 DEF Chat!RouteFixed, Chat!RoutesTo, BeforeAnswer
<1>7. CASE Chat!RouteOther(w)
    BY <1>4, <1>7 DEF Chat!RouteOther, Chat!RoutesTo, BeforeAnswer
<1>8. CASE Chat!RouteAdmin(w)
    BY <1>4, <1>8 DEF Chat!RouteAdmin, Chat!RoutesTo, BeforeAnswer
<1>9. CASE Chat!ExecuteCommand(w)
    BY <1>1, <1>3, <1>4, <1>5, <1>9 DEF Chat!ExecuteCommand, Chat!Leave, BeforeAnswer
<1>10. CASE Chat!RouteQuote(w)
    BY <1>1, <1>5, <1>10 DEF Chat!RouteQuote, Chat!RoutesTo, BeforeAnswer, Chat!Features
<1>11. CASE Chat!RouteQuestion(w)
    <2>1. handler[w].pc \in BeforeAnswer
        BY <1>11 DEF Chat!RouteQuestion, Chat!RoutesTo, BeforeAnswer
    <2>2. CASE Chat!FreeSlots = {}
        BY <1>1, <1>5, <1>11, <2>1, <2>2 DEF Chat!RouteQuestion, Chat!OnlyHandler
    <2>3. CASE Chat!FreeSlots # {}
        <3>1. PICK s \in AiSlots : /\ asking' = [asking EXCEPT ![s] = [pc |-> "asking", generation |-> handler[w].generation]]
                                   /\ Chat!Go(w, "idle") /\ UNCHANGED <<gateway, session, arrived>>
            BY <1>11, <2>3 DEF Chat!RouteQuestion, Chat!Leave, Chat!FreeSlots
        <3>2. handler[w].generation \in 0..MaxSessions
            BY <1>3, BusyWorker DEF Chat!Handler
        <3>3. asking' \in [AiSlots -> Chat!Question]
            BY <1>1, <3>1, <3>2 DEF Chat!Question
        <3> QED BY <2>1, <3>1, <3>3, GoStep
    <2> QED BY <2>2, <2>3
<1>12. CASE Chat!RefuseQuestion(w)
    BY <1>1, <1>5, <1>12 DEF Chat!RefuseQuestion, Chat!RoutesTo, BeforeAnswer, Chat!Features
<1>13. CASE Chat!Custom(w)
    BY <1>1, <1>4, <1>5, <1>13 DEF Chat!Custom, Chat!Leave, Chat!Offers, BeforeAnswer, Chat!Features
<1>14. CASE Chat!Link(w)
    BY <1>1, <1>4, <1>5, <1>14 DEF Chat!Link, Chat!Leave, Chat!Offers, BeforeAnswer, Chat!Features
<1>15. CASE Chat!Keyword(w)
    <2>1. handler[w].pc = "keyword" /\ Chat!OnlyHandler /\ handler[w].pc \in BeforeAnswer
        BY <1>15 DEF Chat!Keyword, BeforeAnswer
    <2>2. CASE Chat!ReplyBy(w, "keyword") /\ Chat!Offers(w, "keyword")
        BY <1>1, <1>5, <2>1, <2>2 DEF Chat!Offers, Chat!Features
    <2>3. CASE Chat!Leave(w)
        BY <1>4, <2>1, <2>3 DEF Chat!Leave
    <2>4. ASSUME Chat!Offers(w, "keyword"),
                 handler' = [handler EXCEPT ![w].pc = "parts", ![w].replier = "keyword",
                                            ![w].rest = handler[w].message.parts]
          PROVE  MessagesInv'
        <3> DEFINE h == [handler[w] EXCEPT !.pc = "parts", !.replier = "keyword", !.rest = handler[w].message.parts]
        <3>1. handler' = [handler EXCEPT ![w] = h]
            BY <2>4
        <3>2. "keyword" \in handler[w].on /\ "keyword" \in handler[w].message.matches
            BY <1>2, <1>3, <2>4 DEF Chat!Offers
        <3>3. HandlerSound(h)
            BY <1>3, <2>1, <3>2, BusyWorker, KeywordSound
        <3>4. h.on = handler[w].on /\ h.off = handler[w].off /\ h.generation = handler[w].generation
            BY <1>3, BusyWorker DEF Chat!Handler
        <3>5. arrived' \in 0..MaxMessages /\ asking' \in [AiSlots -> Chat!Question]
            BY <1>3, <2>1 DEF MessagesInv, MessagesTypes
        <3> HIDE DEF h
        <3> QED BY <1>3, <2>1, <3>1, <3>3, <3>4, <3>5, BusyWorker, OneHandler
    <2> QED BY <1>15, <2>2, <2>3, <2>4 DEF Chat!Keyword
<1>16. CASE Chat!Welcome(w)
    BY <1>1, <1>4, <1>5, <1>16 DEF Chat!Welcome, Chat!RoutesTo, Chat!Leave, BeforeAnswer, Chat!Features
<1>17. ASSUME NEW o \in Chat!Outcomes, Chat!SendReply(w, o) PROVE MessagesInv'
    <2> DEFINE h == [handler[w] EXCEPT !.pc = "idle", !.answers = IF o = "refused" THEN @ ELSE @ \cup {handler[w].replier}]
    <2>1. handler' = [handler EXCEPT ![w] = h] /\ handler[w].pc = "reply" /\ Chat!OnlyHandler
        BY <1>17 DEF Chat!SendReply, Chat!AfterReply
    <2>2. HandlerSound(h)
        BY <1>3, <2>1, BusyWorker, SendReplySound
    <2>3. h.pc = "idle"
        BY <1>3, BusyWorker DEF Chat!Handler
    <2>4. arrived' \in 0..MaxMessages /\ asking' \in [AiSlots -> Chat!Question]
        BY <1>3, <2>1 DEF MessagesInv, MessagesTypes
    <2> HIDE DEF h
    <2> QED BY <1>3, <2>1, <2>2, <2>3, <2>4, OneHandler
<1>18. ASSUME NEW o \in Chat!Outcomes, Chat!SendPart(w, o) PROVE MessagesInv'
    <2> DEFINE p == Head(handler[w].rest)
               rest == Tail(handler[w].rest)
               pc == CASE o = "confirmed" -> Chat!Onward(rest)
                       [] o # "confirmed" /\ (p \in {"text", "rejected"} \/ Chat!IsAmbiguousSendTimeout(o)) -> "idle"
                       [] OTHER -> Chat!AfterFailure(p, rest)
    <2>1. handler[w].pc = "parts" /\ Chat!Tried(w, p, o, pc, rest) /\ Chat!OnlyHandler
        BY <1>18 DEF Chat!SendPart
    <2>2. handler[w].rest \in Seq(Chat!Parts) /\ handler[w].rest # <<>>
        BY <1>3, <2>1, BusyWorker DEF Chat!Handler, HandlerSound
    <2>3. p \in Chat!Parts /\ rest \in Seq(Chat!Parts)
        BY <2>2
    <2>4. /\ pc \in {"idle"} \cup InParts
          /\ pc \in {"hint", "fallback"} => o # "confirmed"
          /\ pc = "parts" => o = "confirmed" /\ rest # <<>>
          /\ pc = "idle" /\ o = "confirmed" => rest = <<>>
        BY DEF Chat!Onward, Chat!AfterFailure, InParts
    <2>5. handler[w].pc \in InParts
        BY <2>1 DEF InParts
    <2> HIDE DEF p, rest, pc
    <2>6. /\ handler[w].pc = "parts" => /\ handler[w].rest # <<>> /\ p = Head(handler[w].rest)
                                        /\ rest = Tail(handler[w].rest)
          /\ p \in Chat!Parts \cup {"hint", "fallback"}
        BY <2>2, <2>3 DEF p, rest
    <2> QED BY <1>3, <2>1, <2>2, <2>3, <2>4, <2>5, <2>6, AttemptStep
<1>19. ASSUME NEW o \in Chat!Outcomes, Chat!SendHint(w, o) PROVE MessagesInv'
    <2> DEFINE rest == handler[w].rest
               pc == IF o = "confirmed" THEN Chat!Onward(rest) ELSE "idle"
    <2>1. handler[w].pc = "hint" /\ Chat!Tried(w, "hint", o, pc, rest) /\ Chat!OnlyHandler
        BY <1>19 DEF Chat!SendHint
    <2>2. rest \in Seq(Chat!Parts)
        BY <1>3, BusyWorker DEF Chat!Handler
    <2>3. /\ pc \in {"idle"} \cup InParts /\ (pc # "idle" => pc = "parts")
          /\ pc = "parts" => o = "confirmed" /\ rest # <<>>
          /\ pc = "idle" /\ o = "confirmed" => rest = <<>>
        BY DEF Chat!Onward, InParts
    <2>4. handler[w].pc \in InParts
        BY <2>1 DEF InParts
    <2> HIDE DEF pc
    <2> QED BY <1>3, <2>1, <2>2, <2>3, <2>4, AttemptStep
<1>20. ASSUME NEW o \in Chat!Outcomes, Chat!SendFallback(w, o) PROVE MessagesInv'
    <2>1. handler[w].pc = "fallback" /\ Chat!Tried(w, "fallback", o, "idle", handler[w].rest)
          /\ Chat!OnlyHandler /\ handler[w].pc \in InParts
        BY <1>20 DEF Chat!SendFallback, InParts
    <2>2. handler[w].rest \in Seq(Chat!Parts)
        BY <1>3, BusyWorker DEF Chat!Handler
    <2> QED BY <1>3, <2>1, <2>2, AttemptStep
<1> QED BY <1>6, <1>7, <1>8, <1>9, <1>10, <1>11, <1>12, <1>13, <1>14, <1>15, <1>16, <1>17, <1>18,
           <1>19, <1>20 DEF Chat!WorkerStep

LEMMA ArriveStep ==
    ASSUME MessagesInv, NEW w \in Workers, NEW m \in Messages, Chat!Arrive(w, m),
           UNCHANGED <<process, snapshot>>
    PROVE  MessagesInv'
<1> DEFINE h == [Chat!Idle EXCEPT !.pc = "route", !.message = m, !.generation = gateway.generation,
                                  !.on = Enabled, !.off = Chat!Features \ Enabled]
<1>1. /\ session = "open" /\ arrived < MaxMessages /\ arrived' = arrived + 1
      /\ handler' = [handler EXCEPT ![w] = h] /\ UNCHANGED <<gateway, session, asking>>
    BY DEF Chat!Arrive
<1>2. /\ h.pc = "route" /\ h.message = m /\ h.generation = gateway.generation /\ h.on = Enabled
      /\ h.off = Chat!Features \ Enabled /\ h.answers = {} /\ h.tried = <<>> /\ h.counted = FALSE
    BY DEF Chat!Idle
<1>3. h \in Chat!Handler
    <2>1. gateway.generation \in 0..MaxSessions
        BY DEF MessagesInv, MessagesTypes
    <2>2. Chat!Idle \in Chat!Handler
        BY IdleSound DEF HandlerSound
    <2> QED BY <2>1, <2>2, EnabledTypes DEF Chat!Handler
<1>4. arrived' \in 0..MaxMessages /\ asking' \in [AiSlots -> Chat!Question]
    BY <1>1, BotAssumption DEF MessagesInv, MessagesTypes, Chat!GroupMessagesAssumption
<1> HIDE DEF h
<1>5. AnswerSound(h) /\ CountSound(h)
    BY <1>2 DEF AnswerSound, CountSound, Chat!Repliers
<1>6. HandlerSound(h)
    BY <1>2, <1>3, <1>5 DEF HandlerSound, BeforeAnswer, InParts
<1> QED BY <1>1, <1>2, <1>4, <1>6, OneHandler

LEMMA MessagesStepInv ==
    ASSUME MessagesInv, Chat!MessagesNext, UNCHANGED <<process, snapshot>>, process = "up"
    PROVE  MessagesInv'
<1>1. Enabled' = Enabled
    BY DEF Enabled, Effective
<1>2. ASSUME UNCHANGED handler, MessagesTypes', InSession' PROVE MessagesInv'
    <2>1. \A w \in Workers : HandlerSound(handler'[w]) /\ SettingsNoted(handler[w])'
        BY <1>1, <1>2 DEF MessagesInv, SettingsNoted
    <2> QED BY <1>2, <2>1 DEF MessagesInv, HandlerSound, SettingsNoted
<1>3. CASE Chat!Connect
    <2>1. MessagesTypes'
        BY <1>3, BotAssumption DEF Chat!Connect, MessagesInv, MessagesTypes, Chat!GroupMessagesAssumption
    <2>2. InSession'
        BY <1>3 DEF Chat!Connect, MessagesInv, InSession, Chat!Busy
    <2> QED BY <1>2, <1>3, <2>1, <2>2 DEF Chat!Connect
<1>4. CASE Chat!Disconnect
    BY <1>2, <1>4 DEF Chat!Disconnect, MessagesInv, MessagesTypes, InSession, Chat!Busy
<1>5. CASE Chat!Close
    <2>1. MessagesTypes'
        BY <1>5 DEF Chat!Close, MessagesInv, MessagesTypes
    <2>2. InSession'
        BY <1>5 DEF Chat!Close, Chat!WorkersDone, MessagesInv, InSession, Chat!Busy
    <2> QED BY <1>2, <1>5, <2>1, <2>2 DEF Chat!Close
<1>6. ASSUME NEW s \in AiSlots, Chat!QuestionStep(s) PROVE MessagesInv'
    <2>1. PICK q : asking' = [asking EXCEPT ![s] = q] /\ q \in Chat!Question
                   /\ UNCHANGED <<gateway, session, handler, arrived>>
        <3>1. asking[s] \in Chat!Question /\ Chat!FreeSlot \in Chat!Question
            BY BotAssumption DEF MessagesInv, MessagesTypes, Chat!Question, Chat!FreeSlot, Chat!GroupMessagesAssumption
        <3>2. \A pc \in {"answering", "failing"} : [asking[s] EXCEPT !.pc = pc] \in Chat!Question
            BY <3>1 DEF Chat!Question
        <3> QED BY <1>6, <3>1, <3>2 DEF Chat!QuestionStep, Chat!Answer, Chat!FailToAnswer, Chat!Panic,
                   Chat!SendAnswer, Chat!SendFailure, Chat!Slot, Chat!AfterPanic
    <2>2. MessagesTypes' /\ InSession'
        BY <2>1 DEF MessagesInv, MessagesTypes, InSession, Chat!Busy
    <2> QED BY <1>2, <2>1, <2>2
<1> QED BY <1>3, <1>4, <1>5, <1>6, ArriveStep, WorkerStepInv DEF Chat!MessagesNext

\* A change of the settings is noted by those who are at work.
LEMMA NoteSettingsStep ==
    ASSUME MessagesInv, Chat!NoteSettings, UNCHANGED process
    PROVE  MessagesInv'
<1> DEFINE Noted(w) == [handler[w] EXCEPT !.on = @ \cup Enabled', !.off = @ \cup (Chat!Features \ Enabled')]
<1>1. UNCHANGED <<gateway, session, asking, arrived>>
    BY DEF Chat!NoteSettings, Chat!OnlyHandler
<1>2. Enabled' \subseteq Chat!Features
    BY DEF Enabled, BotFeatures, Chat!Features
<1>3. ASSUME NEW w \in Workers
      PROVE  /\ handler'[w] \in Chat!Handler
             /\ HandlerSound(handler'[w])
             /\ handler'[w].pc # "idle" => /\ Enabled' \subseteq handler'[w].on
                                           /\ Chat!Features \ Enabled' \subseteq handler'[w].off
             /\ handler'[w].pc = handler[w].pc /\ handler'[w].generation = handler[w].generation
    <2>1. HandlerSound(handler[w]) /\ handler[w] \in Chat!Handler
        BY DEF MessagesInv, HandlerSound
    <2>2. CASE handler[w].pc = "idle"
        BY <2>1, <2>2 DEF Chat!NoteSettings, Chat!Busy
    <2>3. CASE handler[w].pc # "idle"
        <3> DEFINE h == handler[w]
                   k == Noted(w)
        <3>1. handler'[w] = k
            BY <2>3 DEF Chat!NoteSettings, Chat!Busy
        <3>2. /\ k \in Chat!Handler /\ k.pc = h.pc /\ k.message = h.message /\ k.generation = h.generation
              /\ k.replier = h.replier /\ k.rest = h.rest /\ k.tried = h.tried /\ k.counted = h.counted
              /\ k.answers = h.answers /\ k.on = h.on \cup Enabled'
              /\ k.off = h.off \cup (Chat!Features \ Enabled')
            BY <1>2, <2>1 DEF Chat!Handler
        <3> HIDE DEF k
        <3>3. AnswerSound(k) /\ CountSound(k)
            BY <2>1, <2>3, <3>2 DEF HandlerSound, AnswerSound, CountSound
        <3>4. Halfway(h) => Halfway(k)
            <4>1. ASSUME NEW n, Chat!TriedInOrder(h, n) PROVE Chat!TriedInOrder(k, n)
                <5>1. k.tried = h.tried /\ k.message = h.message
                    BY <3>2
                <5> QED BY <4>1, <5>1, SameAttempts
            <4> QED BY <3>2, <4>1 DEF Halfway
        <3>5. HandlerSound(k)
            BY <2>1, <3>2, <3>3, <3>4 DEF HandlerSound
        <3> QED BY <2>3, <3>1, <3>2, <3>5
    <2> QED BY <2>2, <2>3
<1>4. handler' \in [Workers -> Chat!Handler]
    BY <1>3 DEF Chat!NoteSettings
<1>5. MessagesTypes' /\ InSession'
    BY <1>1, <1>3, <1>4 DEF MessagesInv, MessagesTypes, InSession, Chat!Busy
<1> QED BY <1>3, <1>5 DEF MessagesInv, HandlerSound, SettingsNoted

LEMMA MessagesInvHolds == BotSpec => []MessagesInv
<1>1. BotInit => MessagesInv
    <2> SUFFICES ASSUME BotInit PROVE MessagesInv
        OBVIOUS
    <2>1. handler = [w \in Workers |-> Chat!Idle] /\ session = "none"
        BY DEF BotInit, Chat!MessagesInit
    <2>2. \A w \in Workers : HandlerSound(handler[w]) /\ handler[w].pc = "idle" /\ handler[w] \in Chat!Handler
        <3>1. Chat!Idle.pc = "idle" /\ Chat!Idle \in Chat!Handler
            BY IdleSound DEF Chat!Idle, HandlerSound
        <3> QED BY <2>1, <3>1, IdleSound
    <2>3. MessagesTypes
        BY <2>1, <2>2, BotAssumption
        DEF BotInit, Chat!MessagesInit, MessagesTypes, Chat!Question, Chat!FreeSlot, Chat!GroupMessagesAssumption
    <2> QED BY <2>1, <2>2, <2>3 DEF MessagesInv, InSession, Chat!Busy, SettingsNoted
<1>2. MessagesInv /\ [BotNext]_botVars => MessagesInv'
    <2> SUFFICES ASSUME MessagesInv, [BotNext]_botVars PROVE MessagesInv'
        OBVIOUS
    <2>1. CASE Chat!MessagesNext /\ process = "up" /\ UNCHANGED <<process, snapshot>>
        BY <2>1, MessagesStepInv
    <2>2. CASE Crash /\ Chat!ForgetMessages
        <3>1. handler' = [w \in Workers |-> Chat!Idle] /\ session' = "none"
            BY <2>2 DEF Chat!ForgetMessages
        <3>2. Chat!Idle.pc = "idle" /\ Chat!Idle \in Chat!Handler
            BY IdleSound DEF Chat!Idle, HandlerSound
        <3>3. \A w \in Workers : HandlerSound(handler'[w]) /\ handler'[w].pc = "idle"
            BY <3>1, <3>2, IdleSound
        <3>4. MessagesTypes'
            BY <2>2, <3>1, <3>2, BotAssumption
            DEF Chat!ForgetMessages, MessagesInv, MessagesTypes, Chat!Question, Chat!FreeSlot, Chat!GroupMessagesAssumption
        <3> QED BY <3>1, <3>3, <3>4 DEF MessagesInv, InSession, Chat!Busy, SettingsNoted, HandlerSound
    <2>3. CASE Start /\ UNCHANGED messages
        <3>1. session = "none"
            BY <2>3 DEF Start, MessagesInv, InSession
        <3>2. \A w \in Workers : handler[w].pc = "idle"
            BY <3>1 DEF MessagesInv, InSession, Chat!Busy
        <3> QED BY <2>3, <3>1, <3>2 DEF messages, MessagesInv, MessagesTypes, InSession, Chat!Busy,
                SettingsNoted, HandlerSound
    <2>4. CASE UNCHANGED <<process, snapshot, messages>>
        <3>1. Enabled' = Enabled
            BY <2>4 DEF Enabled, Effective
        <3> QED BY <2>4, <3>1 DEF messages, MessagesInv, MessagesTypes, InSession, Chat!Busy,
                SettingsNoted, HandlerSound
    <2> QED BY <2>1, <2>2, <2>3, <2>4, StepsOfParts, NoteSettingsStep
<1> QED BY <1>1, <1>2, PTL DEF BotSpec

\* At most one feature answers a message, one that was on while the message was
\* handled, and the statistics count a keyword only if its whole answer was sent, a
\* hint for a file, or the text instead of the rest: HandleGroupMessage,
\* GroupCommandRouter.Handle, sendKeywordReply.
THEOREM BotAnswersOnce == BotSpec => []AnswersAreSound
<1>1. ASSUME MessagesInv PROVE AnswersAreSound
    <2>1. Chat!MessagesTypeOK
        BY <1>1, EnabledTypes DEF MessagesInv, MessagesTypes, Chat!MessagesTypeOK
    <2>2. Chat!OneFeatureAnswers
        <3> SUFFICES ASSUME NEW w \in Workers
                     PROVE  LET h == handler[w] IN
                            /\ Cardinality(h.answers) <= 1 /\ h.answers \cap Chat!Features \subseteq h.on
                            /\ "disabled" \in h.answers => h.off \cap {"quote", "ai"} # {}
            BY OneCardinality DEF Chat!OneFeatureAnswers
        <3>3. AnswerSound(handler[w])
            BY <1>1 DEF MessagesInv, HandlerSound
        <3>1. PICK x \in Chat!Repliers : handler[w].answers \subseteq {x}
            BY <1>1 DEF MessagesInv, HandlerSound, AnswerSound
        <3>2. handler[w].answers = {} \/ handler[w].answers = {x}
            BY <3>1
        <3>4. Cardinality(handler[w].answers) <= 1
            BY <3>2, FS_EmptySet, FS_Singleton
        <3> QED BY <3>3, <3>4 DEF AnswerSound
    <2>3. Chat!CountedWasSent
        <3> SUFFICES ASSUME NEW w \in Workers, handler[w].counted
                     PROVE  LET h == handler[w] IN
                            /\ h.tried # <<>> /\ Mended(h.tried, Len(h.tried)) /\ h.tried \in Seq(Attempts)
                            /\ h.tried[Len(h.tried)].part = "fallback" \/ Chat!TriedInOrder(h, Len(h.message.parts))
            BY DEF Chat!CountedWasSent, Mended
        <3>1. HandlerSound(handler[w]) /\ handler[w].tried \in Seq(Attempts)
            BY <1>1 DEF MessagesInv, HandlerSound, Chat!Handler, Attempts
        <3> QED BY <3>1 DEF HandlerSound, CountSound
    <2> QED BY <2>1, <2>2, <2>3 DEF AnswersAreSound
<1> QED BY <1>1, MessagesInvHolds, PTL

\* No worker of an earlier session is left when the gateway is connected again:
\* sessionWorkers.Close, Detach.
THEOREM BotSessionsAreApart == BotSpec => []SessionsDoNotOverlap
<1>1. MessagesInv => SessionsDoNotOverlap
    BY DEF MessagesInv, InSession, SessionsDoNotOverlap, Chat!SessionsDoNotOverlap
<1> QED BY <1>1, MessagesInvHolds, PTL

(***************************************************************************)
(* The rule for student numbers.  An update is computed from the memory    *)
(* and stored under the version of the memory, so it is stored only if the *)
(* memory still is the row; and while its answer is on its way no other    *)
(* update is stored.                                                       *)
(***************************************************************************)

Publishes(a) == ruleTask[a].pc = "publish"

TaskSound(t) ==
    \/ t = Rule!NoTask
    \/ /\ t.pc = "store" /\ t.version \in Nat /\ t.version <= rule.version /\ Rule!ValidRule(t.config)
       /\ t.version = rule.version => t.config = Rule!Patched(rule.config, t.patch)
    \/ t.pc = "publish" /\ t.stored = ruleRow /\ rule.version < ruleRow.version

RuleRows ==
    /\ ruleRow.version \in Nat /\ rule.version \in Nat
    /\ Rule!ValidRule(ruleRow.config) /\ Rule!ValidRule(rule.config) /\ ruleRow.config = ruleWanted
    /\ rule.version <= ruleRow.version /\ (rule.version = ruleRow.version => rule = ruleRow)

RuleInv ==
    /\ RuleRows /\ ruleTask = [a \in Admins |-> ruleTask[a]]
    /\ \A a \in Admins : TaskSound(ruleTask[a])
    /\ \A a, b \in Admins : Publishes(a) /\ Publishes(b) => a = b
    /\ \/ rule = ruleRow \/ ruleMissed \/ process = "down"
       \/ \E a \in Admins : Publishes(a)
    /\ process = "down" => \A a \in Admins : ruleTask[a] = Rule!NoTask

LEMMA BeginRuleStep ==
    ASSUME RuleInv, NEW a \in Admins, NEW patch \in RulePatches, Rule!BeginRuleUpdate(a, patch),
           UNCHANGED process
    PROVE  RuleInv'
<1> DEFINE t == [pc |-> "store", version |-> ruleSeen[a], patch |-> patch,
                 config |-> Rule!Patched(rule.config, patch)]
<1>1. /\ UNCHANGED <<ruleRow, rule, ruleWanted, ruleMissed>> /\ ruleTask' = [ruleTask EXCEPT ![a] = t]
      /\ rule.version = ruleSeen[a] /\ Rule!ValidRule(Rule!Patched(rule.config, patch))
      /\ process = "up" /\ ruleTask[a].pc = "idle"
    BY DEF Rule!BeginRuleUpdate
<1>2. \A b \in Admins : ruleTask'[b] = IF b = a THEN t ELSE ruleTask[b]
    BY <1>1 DEF RuleInv
<1>3. ruleTask' = [b \in Admins |-> ruleTask'[b]]
    BY <1>1 DEF RuleInv
<1>4. t.pc = "store" /\ t.version = rule.version /\ t.config = Rule!Patched(rule.config, t.patch)
    BY <1>1
<1> HIDE DEF t
<1>5. \A b \in Admins : TaskSound(ruleTask[b])'
    <2> SUFFICES ASSUME NEW b \in Admins PROVE TaskSound(ruleTask[b])'
        OBVIOUS
    <2>1. CASE b = a
        <3>1. /\ ruleTask'[b] = t /\ rule.version \in Nat /\ rule.version <= rule.version
              /\ Rule!ValidRule(t.config)
            BY <1>1, <1>2, <1>4, <2>1 DEF RuleInv, RuleRows, t
        <3> QED BY <1>1, <1>4, <3>1 DEF TaskSound
    <2>2. CASE b # a
        BY <1>1, <1>2, <2>2 DEF RuleInv, TaskSound
    <2> QED BY <2>1, <2>2
<1>6. \A b \in Admins : Publishes(b)' <=> Publishes(b)
    BY <1>1, <1>2, <1>4 DEF Publishes
<1>7. RuleRows'
    BY <1>1 DEF RuleInv, RuleRows
<1>8. /\ \A b, c \in Admins : Publishes(b)' /\ Publishes(c)' => b = c
      /\ rule' = ruleRow' \/ ruleMissed' \/ process' = "down" \/ \E b \in Admins : Publishes(b)'
    BY <1>1, <1>6 DEF RuleInv
<1> QED BY <1>1, <1>3, <1>5, <1>7, <1>8 DEF RuleInv, Publishes

LEMMA StoreRuleStep ==
    ASSUME RuleInv, NEW a \in Admins, NEW o \in Rule!RuleReplies, Rule!StoreRule(a, o), UNCHANGED process
    PROVE  RuleInv'
<1> DEFINE t == ruleTask[a]
           taken == o # "refused" /\ Rule!MayStore(t)
           task == IF taken /\ o = "done" THEN [pc |-> "publish", stored |-> ruleRow'] ELSE Rule!NoTask
<1>1. /\ process = "up" /\ t.pc = "store" /\ UNCHANGED <<rule, ruleSeen>>
      /\ ruleRow' = IF taken THEN [version |-> ruleRow.version + 1, config |-> t.config] ELSE ruleRow
      /\ ruleWanted' = IF taken THEN Rule!Patched(ruleWanted, t.patch) ELSE ruleWanted
      /\ ruleMissed' = (ruleMissed \/ (taken /\ o = "lost"))
      /\ ruleTask' = [ruleTask EXCEPT ![a] = task]
    BY DEF Rule!StoreRule
<1>2. \A b \in Admins : ruleTask'[b] = IF b = a THEN task ELSE ruleTask[b]
    BY <1>1 DEF RuleInv
<1>3. ruleTask' = [b \in Admins |-> ruleTask'[b]]
    BY <1>1 DEF RuleInv
<1>4. /\ t.version \in Nat /\ t.version <= rule.version /\ Rule!ValidRule(t.config)
      /\ t.version = rule.version => t.config = Rule!Patched(rule.config, t.patch)
    BY <1>1 DEF RuleInv, TaskSound, Rule!NoTask
<1>5. CASE taken
    <2>1. ruleRow.version = rule.version /\ rule = ruleRow /\ t.version = rule.version
        BY <1>4, <1>5 DEF Rule!MayStore, RuleInv, RuleRows
    <2>2. /\ ruleRow'.version = ruleRow.version + 1 /\ ruleRow'.config = t.config
          /\ ruleRow'.config = ruleWanted' /\ rule' = rule
        BY <1>1, <1>4, <1>5, <2>1 DEF RuleInv, RuleRows
    <2>3. RuleRows'
        BY <1>4, <2>1, <2>2 DEF RuleInv, RuleRows
    <2>4. \A b \in Admins : ~Publishes(b)
        <3> SUFFICES ASSUME NEW b \in Admins, Publishes(b) PROVE FALSE
            OBVIOUS
        <3>1. rule.version < ruleRow.version
            BY DEF Publishes, RuleInv, TaskSound, Rule!NoTask
        <3> QED BY <2>1, <3>1 DEF RuleInv, RuleRows
    <2>5. /\ task = Rule!NoTask \/ (task.pc = "publish" /\ task.stored = ruleRow')
          /\ Rule!NoTask.pc = "idle"
          /\ task = Rule!NoTask => o = "lost"
          /\ o = "lost" => ruleMissed'
        BY <1>1, <1>5 DEF Rule!NoTask, Rule!RuleReplies
    <2> HIDE DEF task
    <2>6. rule'.version < ruleRow'.version
        BY <2>1, <2>2 DEF RuleInv, RuleRows
    <2>7. \A b \in Admins : TaskSound(ruleTask[b])'
        <3> SUFFICES ASSUME NEW b \in Admins PROVE TaskSound(ruleTask[b])'
            OBVIOUS
        <3>1. CASE b = a
            <4>1. ruleTask'[b] = task
                BY <1>2, <3>1
            <4> QED BY <2>5, <2>6, <4>1 DEF TaskSound
        <3>2. CASE b # a
            <4>1. ruleTask'[b] = ruleTask[b]
                BY <1>2, <3>2
            <4>2. ruleTask[b].pc # "publish"
                BY <2>4 DEF Publishes
            <4> QED BY <2>2, <4>1, <4>2 DEF RuleInv, TaskSound
        <3> QED BY <3>1, <3>2
    <2>8. \A b \in Admins : Publishes(b)' => b = a
        BY <1>2, <2>4 DEF Publishes
    <2>9. ruleMissed' \/ Publishes(a)'
        BY <1>2, <2>5 DEF Publishes
    <2> QED BY <1>1, <1>3, <2>3, <2>7, <2>8, <2>9 DEF RuleInv
<1>6. CASE ~taken
    <2>1. task = Rule!NoTask /\ UNCHANGED <<ruleRow, rule, ruleWanted, process>> /\ (ruleMissed => ruleMissed')
          /\ RuleRows'
        BY <1>1, <1>6 DEF RuleInv, RuleRows
    <2>2. Rule!NoTask.pc = "idle"
        BY DEF Rule!NoTask
    <2>3. \A b \in Admins : TaskSound(ruleTask[b])'
        BY <1>2, <2>1 DEF RuleInv, TaskSound
    <2>4. \A b \in Admins : Publishes(b)' <=> Publishes(b)
        BY <1>1, <1>2, <2>1, <2>2 DEF Publishes
    <2> QED BY <1>1, <1>3, <2>1, <2>3, <2>4 DEF RuleInv
<1> QED BY <1>5, <1>6

LEMMA PublishRuleStep ==
    ASSUME RuleInv, NEW a \in Admins, Rule!PublishRule(a), UNCHANGED process
    PROVE  RuleInv'
<1>1. /\ process = "up" /\ Publishes(a) /\ rule' = ruleTask[a].stored
      /\ ruleTask' = [ruleTask EXCEPT ![a] = Rule!NoTask]
      /\ UNCHANGED <<ruleRow, ruleWanted, ruleMissed>>
    BY DEF Rule!PublishRule, Publishes
<1>2. rule' = ruleRow /\ rule.version < ruleRow.version
    BY <1>1 DEF RuleInv, TaskSound, Publishes, Rule!NoTask
<1>3. \A b \in Admins : ruleTask'[b] = IF b = a THEN Rule!NoTask ELSE ruleTask[b]
    BY <1>1 DEF RuleInv
<1>4. ruleTask' = [b \in Admins |-> ruleTask'[b]]
    BY <1>1 DEF RuleInv
<1>5. \A b \in Admins : ~Publishes(b)'
    BY <1>1, <1>3 DEF RuleInv, Publishes, Rule!NoTask
<1>6. \A b \in Admins : TaskSound(ruleTask[b])'
    <2> SUFFICES ASSUME NEW b \in Admins PROVE TaskSound(ruleTask[b])'
        OBVIOUS
    <2>1. CASE b = a
        BY <1>3, <2>1 DEF TaskSound
    <2>2. CASE b # a
        <3>1. ruleTask'[b] = ruleTask[b] /\ ruleTask[b].pc # "publish"
            BY <1>3, <1>5, <2>2 DEF Publishes
        <3>2. /\ rule.version \in Nat /\ ruleRow.version \in Nat /\ rule'.version = ruleRow.version
              /\ TaskSound(ruleTask[b])
            BY <1>2 DEF RuleInv, RuleRows
        <3> QED BY <1>2, <3>1, <3>2 DEF TaskSound
    <2> QED BY <2>1, <2>2
<1>7. RuleRows'
    BY <1>1, <1>2 DEF RuleInv, RuleRows
<1> QED BY <1>1, <1>2, <1>4, <1>5, <1>6, <1>7 DEF RuleInv

LEMMA RuleStepInv ==
    ASSUME RuleInv,
           \/ Rule!RuleNext /\ UNCHANGED process
           \/ Crash /\ Rule!ForgetRule
           \/ Start /\ Rule!LoadRule
           \/ UNCHANGED <<process, studentRule>>
    PROVE  RuleInv'
<1>1. ASSUME NEW a \in Admins, Rule!OpenRule(a), UNCHANGED process PROVE RuleInv'
    BY <1>1 DEF Rule!OpenRule, RuleInv, RuleRows, TaskSound, Publishes
<1>2. CASE Crash /\ Rule!ForgetRule
    <2>1. /\ ruleTask' = [a \in Admins |-> Rule!NoTask] /\ UNCHANGED <<ruleRow, rule, ruleWanted, ruleMissed>>
          /\ process' = "down"
        BY <1>2 DEF Crash, Rule!ForgetRule
    <2>2. \A a \in Admins : ruleTask'[a] = Rule!NoTask /\ ~Publishes(a)' /\ TaskSound(ruleTask[a])'
        BY <2>1 DEF TaskSound, Publishes, Rule!NoTask
    <2> QED BY <2>1, <2>2 DEF RuleInv, RuleRows
<1>3. CASE Start /\ Rule!LoadRule
    <2>1. /\ UNCHANGED <<ruleRow, ruleTask, ruleWanted>> /\ rule' = ruleRow /\ process' = "up"
          /\ \A a \in Admins : ruleTask[a] = Rule!NoTask
        BY <1>3 DEF Start, Rule!LoadRule, RuleInv
    <2>2. \A a \in Admins : ~Publishes(a)' /\ TaskSound(ruleTask[a])'
        BY <2>1 DEF TaskSound, Publishes, Rule!NoTask
    <2> QED BY <2>1, <2>2 DEF RuleInv, RuleRows
<1>4. CASE UNCHANGED <<process, studentRule>>
    BY <1>4 DEF studentRule, RuleInv, RuleRows, TaskSound, Publishes
<1> QED BY <1>1, <1>2, <1>3, <1>4, BeginRuleStep, StoreRuleStep, PublishRuleStep DEF Rule!RuleNext

LEMMA RuleInvHolds == BotSpec => []RuleInv
<1>1. BotInit => RuleInv
    <2> SUFFICES ASSUME BotInit PROVE RuleInv
        OBVIOUS
    <2>1. Rule!ValidRule(Rule!NoRule)
        BY DEF Rule!ValidRule, Rule!NoRule, Rule!Fits, Rule!Overlap, Rule!None
    <2> QED BY <2>1 DEF BotInit, Rule!RuleInit, RuleInv, RuleRows, TaskSound, Publishes, Rule!NoTask
<1>2. RuleInv /\ [BotNext]_botVars => RuleInv'
    BY StepsOfParts, RuleStepInv
<1> QED BY <1>1, <1>2, PTL DEF BotSpec

\* Whatever a valid rule says of a number, one mapping says it.
LEMMA OneMapping ==
    ASSUME NEW c, Rule!ValidRule(c), NEW n, Rule!Found(c, n) # {}
    PROVE  Cardinality(Rule!Found(c, n)) = 1
<1>1. PICK m \in c.table : m.year = Rule!Part(n, c.year) /\ m.code = Rule!Part(n, c.code)
    BY DEF Rule!Found
<1>2. Rule!Found(c, n) = {m}
    BY <1>1 DEF Rule!Found, Rule!ValidRule
<1> QED BY <1>2, FS_Singleton

\* No change of the rule for student numbers is lost, the memory is the row of some
\* time, and the latest unless its update is not finished or lost its answer:
\* UpdateStudentIDRule, ReloadStudentIDRule, AssessStudentID.
THEOREM BotKeepsPatches == BotSpec => []RuleKeepsPatches
<1>1. ASSUME RuleInv PROVE RuleKeepsPatches
    <2>1. /\ ruleRow.config = ruleWanted /\ Rule!ValidRule(rule.config) /\ rule.version <= ruleRow.version
          /\ process = "up" /\ ~ruleMissed /\ (\A a \in Admins : ruleTask[a].pc # "publish") => rule = ruleRow
        BY <1>1 DEF RuleInv, RuleRows, Publishes
    <2>2. ASSUME NEW n \in Numbers, NEW major \in Rule!Majors \cup {""},
                 Rule!Assess(rule.config, n, major) \in {"major_mismatch", "matched"}
          PROVE  Rule!Cardinality(Rule!Found(rule.config, n)) = 1
        <3>1. Rule!Found(rule.config, n) # {}
            BY <2>2 DEF Rule!Assess
        <3> QED BY <2>1, <3>1, OneMapping, OneCardinality
    <2> QED BY <2>1, <2>2 DEF RuleKeepsPatches, Rule!RuleKeepsPatches
<1> QED BY <1>1, RuleInvHolds, PTL

(***************************************************************************)
(* The review.  Only requests that are fit to be samples count as fit; a   *)
(* fit one is a sample or is being indexed; samples that exist are changed *)
(* by corrections alone; and the counts are those of the versions.         *)
(***************************************************************************)

SampleShape(x) == x = [known |-> x.known, major |-> x.major, cohort |-> x.cohort,
                       active |-> x.active, revision |-> x.revision]

FitInv ==
    /\ application = [r \in Applications |-> application[r]] /\ fit \in [Applications -> BOOLEAN]
    /\ \A r \in Applications : fit[r] => Review!Eligible(application[r])

SampleInv ==
    /\ sample = [r \in Applications |-> sample[r]] /\ corrected = [r \in Applications |-> corrected[r]]
    /\ \A r \in Applications : SampleShape(sample[r])
    /\ Review!ApprovedBecomesEvidence /\ Review!CorrectionsSurvive

VersionInv ==
    /\ version \in Nat /\ version >= 1 /\ counted \in Seq(Nat) /\ Len(counted) = version
    /\ counted[version] = Review!CountOf(sample)

ReviewerShape(x) == x = [pc |-> x.pc, on |-> x.on, todo |-> x.todo,
                         row |-> x.row, version |-> x.version, count |-> x.count]
ReviewerInv ==
    /\ ReviewerShape(reviewer)
    /\ reviewer.pc \in {"count", "judge"} => reviewer.version \in 1..version
    /\ Review!ReviewNamesItsEvidence

ReviewInv == FitInv /\ SampleInv /\ VersionInv /\ ReviewerInv

LEMMA FitStep ==
    ASSUME FitInv, Review!ReviewNext
    PROVE  FitInv'
<1>1. ASSUME UNCHANGED <<application, fit>> PROVE FitInv'
    BY <1>1 DEF FitInv
<1>2. ASSUME application' = [r \in Applications |-> application'[r]], Review!Fit(application')
      PROVE  FitInv'
    BY <1>2 DEF FitInv, Review!Fit
<1>3. ASSUME NEW r \in Applications, ~fit[r], UNCHANGED fit, NEW a,
             application' = [application EXCEPT ![r] = a]
      PROVE  FitInv'
    BY <1>3 DEF FitInv
<1>4. ASSUME NEW r \in Applications, NEW a, Review!Store(r, a) PROVE FitInv'
    BY <1>2, <1>4 DEF Review!Store, FitInv
<1>5. ASSUME NEW r, NEW c, NEW found, Review!Parse(r, c, found) PROVE FitInv'
    BY <1>2, <1>5 DEF Review!Parse, FitInv
<1>6. ASSUME NEW r, NEW c, Review!FailToParse(r, c) PROVE FitInv'
    <2>1. CASE application' = application
        BY <1>1, <1>6, <2>1 DEF Review!FailToParse
    <2>2. CASE application' # application
        <3>1. PICK a : application' = [application EXCEPT ![r] = a]
            BY <1>6, <2>2 DEF Review!FailToParse
        <3>2. r \in Applications
            BY <2>2, <3>1 DEF FitInv
        <3>3. ~fit[r] /\ UNCHANGED fit
            BY <1>6, <2>2, <3>2 DEF Review!FailToParse, FitInv, Review!Eligible, Review!ApprovedSource
        <3> QED BY <1>3, <3>1, <3>2, <3>3
    <2> QED BY <2>1, <2>2
<1>7. ASSUME NEW r, NEW action, NEW by, Review!Reserve(r, action, by) PROVE FitInv'
    BY <1>2, <1>7 DEF Review!Reserve, FitInv
<1>8. CASE Review!BeginAutomatic
    BY <1>1, <1>7, <1>8 DEF Review!BeginAutomatic
<1>9. ASSUME NEW r, NEW action, Review!BeginManual(r, action) PROVE FitInv'
    BY <1>7, <1>9 DEF Review!BeginManual
<1>10. ASSUME NEW r \in Applications, NEW outcome, Review!Complete(r, outcome) PROVE FitInv'
    <2>1. PICK approved \in BOOLEAN : fit' = [fit EXCEPT ![r] = approved /\ Review!Eligible(application'[r])]
        BY <1>10 DEF Review!Complete
    <2>2. PICK a : application' = [application EXCEPT ![r] = a]
        BY <1>10 DEF Review!Complete
    <2>3. application'[r] = a /\ \A x \in Applications : x # r => application'[x] = application[x]
        BY <2>2 DEF FitInv
    <2>4. fit' \in [Applications -> BOOLEAN]
        BY <2>1 DEF FitInv, Review!Eligible, Review!ApprovedSource
    <2>5. \A x \in Applications : fit'[x] => Review!Eligible(application'[x])
        BY <2>1, <2>3 DEF FitInv
    <2> QED BY <2>2, <2>4, <2>5 DEF FitInv
<1>11. ASSUME NEW r \in Applications, Review!Recover(r) PROVE FitInv'
    <2>1. PICK a : application' = [application EXCEPT ![r] = a]
        BY <1>11 DEF Review!Recover
    <2>2. ~fit[r] /\ UNCHANGED fit
        BY <1>11 DEF Review!Recover, FitInv, Review!Eligible, Review!ApprovedSource
    <2> QED BY <1>3, <2>1, <2>2
<1>12. \/ UNCHANGED <<application, fit>>
       \/ \E r \in Applications, c \in Comments : Review!Store(r, Review!FromEvent(application[r], c))
       \/ \E r \in Applications, c \in Comments, checked \in BOOLEAN :
              Review!Store(r, Review!FromSystem(application[r], c, checked))
       \/ \E e \in parser, found \in Review!Findings : Review!Parse(e[1], e[2], found)
       \/ \E e \in parser : Review!FailToParse(e[1], e[2])
       \/ Review!BeginAutomatic
       \/ \E r \in Applications, action \in {"approve", "reject"} : Review!BeginManual(r, action)
       \/ \E r \in Applications, outcome \in {"confirmed", "failed", "unknown"} : Review!Complete(r, outcome)
       \/ \E r \in Applications : Review!Recover(r)
    BY DEF Review!ReviewNext, Review!Arrive, Review!Record, Review!Fetch, Review!Reconcile,
           Review!ListUnparsed, Review!ParseNotStored, Review!ListCandidates, Review!Take,
           Review!LookUp, Review!ReadVersion, Review!CountSamples, Review!Judge,
           Review!GiveUpReview, Review!Index, Review!Rebuild, Review!Correct, Review!Import, Review!tables
<1> QED BY <1>1, <1>4, <1>5, <1>6, <1>8, <1>9, <1>10, <1>11, <1>12

\* A sample that is known stays as it is, and a request that is fit is known.
LEMMA InsertedSample ==
    ASSUME SampleInv, NEW r \in Applications
    PROVE  /\ SampleShape(Review!Inserted(r))
           /\ sample[r].known => Review!Inserted(r) = sample[r]
           /\ Review!Eligible(application[r]) => Review!Inserted(r).known
BY DEF SampleInv, SampleShape, Review!Inserted

\* Samples are inserted, for some requests or for all of them.
LEMMA InsertStep ==
    ASSUME FitInv, SampleInv, NEW S \in SUBSET Applications,
           sample' = [r \in Applications |-> IF r \in S THEN Review!Inserted(r) ELSE sample[r]],
           UNCHANGED <<application, corrected, fit>>,
           \A r \in Applications \ S : process' = "up" => (process = "up" /\ (r \in indexing => r \in indexing'))
    PROVE  SampleInv'
<1>1. \A r \in Applications : /\ r \in S => sample'[r] = Review!Inserted(r)
                              /\ r \notin S => sample'[r] = sample[r]
    OBVIOUS
<1>2. \A r \in Applications : SampleShape(sample'[r]) /\ (sample[r].known => sample'[r] = sample[r])
    BY <1>1, InsertedSample DEF SampleInv
<1>3. Review!CorrectionsSurvive'
    BY <1>2 DEF SampleInv, Review!CorrectionsSurvive
<1>4. Review!ApprovedBecomesEvidence'
    <2> SUFFICES ASSUME NEW r \in Applications, fit[r], process' = "up"
                 PROVE  sample'[r].known \/ r \in indexing'
        BY DEF Review!ApprovedBecomesEvidence
    <2>1. CASE r \in S
        BY <1>1, <2>1, InsertedSample DEF FitInv
    <2>2. CASE r \notin S
        <3>1. process = "up" /\ (r \in indexing => r \in indexing') /\ sample'[r] = sample[r]
            BY <1>1, <2>2
        <3> QED BY <3>1 DEF SampleInv, Review!ApprovedBecomesEvidence
    <2> QED BY <2>1, <2>2
<1> QED BY <1>2, <1>3, <1>4 DEF SampleInv, SampleShape

LEMMA SampleStep ==
    ASSUME FitInv, SampleInv, Review!ReviewNext, UNCHANGED process
    PROVE  SampleInv'
<1>1. ASSUME NEW r \in Applications, NEW indexed \in BOOLEAN, Review!Index(r, indexed) PROVE SampleInv'
    <2> DEFINE S == IF indexed THEN {r} ELSE {}
    <2>1. /\ sample' = [x \in Applications |-> IF x \in S THEN Review!Inserted(x) ELSE sample[x]]
          /\ UNCHANGED <<application, corrected, fit>> /\ indexing \ S \subseteq indexing'
        BY <1>1 DEF Review!Index, Review!AfterIndex, SampleInv
    <2>2. S \in SUBSET Applications
        OBVIOUS
    <2>3. \A x \in Applications \ S : process' = "up" => (process = "up" /\ (x \in indexing => x \in indexing'))
        BY <2>1
    <2> HIDE DEF S
    <2> QED BY <2>1, <2>2, <2>3, InsertStep
<1>2. ASSUME NEW k, Review!Rebuild(k) PROVE SampleInv'
    <2>1. CASE k \in rebuilds
        BY <1>2, <2>1 DEF Review!Rebuild, Review!memory, SampleInv, Review!ApprovedBecomesEvidence,
                          Review!CorrectionsSurvive
    <2>2. CASE k \notin rebuilds
        <3>1. /\ sample' = [x \in Applications |-> IF x \in Applications THEN Review!Inserted(x) ELSE sample[x]]
              /\ UNCHANGED <<application, corrected, fit>>
            BY <1>2, <2>2 DEF Review!Rebuild, Review!RebuildSamples
        <3>2. /\ Applications \in SUBSET Applications
              /\ \A x \in Applications \ Applications :
                    process' = "up" => (process = "up" /\ (x \in indexing => x \in indexing'))
            OBVIOUS
        <3> QED BY <3>1, <3>2, InsertStep
    <2> QED BY <2>1, <2>2
<1>3. ASSUME NEW r \in Applications, NEW major, NEW active_, Review!Correct(r, major, active_) PROVE SampleInv'
    <2> DEFINE x == [sample[r] EXCEPT !.major = major, !.active = active_, !.revision = @ + 1]
    <2>1. /\ sample' = [sample EXCEPT ![r] = x] /\ corrected' = [corrected EXCEPT ![r] = <<major, active_>>]
          /\ sample[r].known /\ UNCHANGED <<application, fit, indexing>>
        BY <1>3 DEF Review!Correct, Review!memory
    <2>2. SampleShape(x) /\ x.known = sample[r].known /\ x.major = major /\ x.active = active_
        <3>1. sample[r] \in [known: {sample[r].known}, major: {sample[r].major}, cohort: {sample[r].cohort},
                             active: {sample[r].active}, revision: {sample[r].revision}]
            BY DEF SampleInv, SampleShape
        <3>2. /\ x \in [known: {sample[r].known}, major: {major}, cohort: {sample[r].cohort},
                       active: {active_}, revision: {sample[r].revision + 1}]
              /\ x.known = sample[r].known /\ x.major = major /\ x.active = active_
            BY <3>1
        <3> HIDE DEF x
        <3> QED BY <3>2 DEF SampleShape
    <2> HIDE DEF x
    <2>3. \A y \in Applications : /\ sample'[y] = IF y = r THEN x ELSE sample[y]
                                  /\ corrected'[y] = IF y = r THEN <<major, active_>> ELSE corrected[y]
        BY <2>1 DEF SampleInv
    <2>4. Review!CorrectionsSurvive'
        BY <2>1, <2>2, <2>3 DEF SampleInv, Review!CorrectionsSurvive
    <2>5. Review!ApprovedBecomesEvidence'
        BY <2>1, <2>2, <2>3 DEF SampleInv, Review!ApprovedBecomesEvidence
    <2> QED BY <2>1, <2>2, <2>3, <2>4, <2>5 DEF SampleInv
<1>4. ASSUME UNCHANGED <<sample, corrected>>,
             \A r \in Applications : fit'[r] => (fit[r] /\ (r \in indexing => r \in indexing')) \/ r \in indexing'
      PROVE  SampleInv'
    BY <1>4 DEF SampleInv, Review!ApprovedBecomesEvidence, Review!CorrectionsSurvive
<1>5. ASSUME NEW r \in Applications, NEW outcome, Review!Complete(r, outcome) PROVE SampleInv'
    <2>1. UNCHANGED <<sample, corrected>>
        BY <1>5 DEF Review!Complete
    <2>2. \A x \in Applications : fit'[x] => (fit[x] /\ (x \in indexing => x \in indexing')) \/ x \in indexing'
        BY <1>5 DEF Review!Complete, FitInv
    <2> QED BY <1>4, <2>1, <2>2
<1>6. ASSUME UNCHANGED <<sample, corrected, indexing>>, Review!Fit(application') \/ UNCHANGED fit
      PROVE  SampleInv'
    BY <1>4, <1>6 DEF Review!Fit
<1>7. \/ UNCHANGED <<sample, corrected, indexing>> /\ (Review!Fit(application') \/ UNCHANGED fit)
      \/ \E r \in Applications, outcome \in {"confirmed", "failed", "unknown"} : Review!Complete(r, outcome)
      \/ \E r \in Applications, indexed \in BOOLEAN : Review!Index(r, indexed)
      \/ \E k \in RebuildKeys : Review!Rebuild(k)
      \/ \E r \in Applications, major \in {"m1", "m2"}, on \in BOOLEAN : Review!Correct(r, major, on)
    BY DEF Review!ReviewNext, Review!Arrive, Review!Record, Review!Fetch, Review!Reconcile, Review!Store,
           Review!ListUnparsed, Review!Parse, Review!FailToParse, Review!ParseNotStored,
           Review!ListCandidates, Review!Take, Review!LookUp, Review!ReadVersion, Review!CountSamples,
           Review!Judge, Review!GiveUpReview, Review!BeginAutomatic, Review!BeginManual, Review!Reserve,
           Review!Recover, Review!Import, Review!tables, Review!memory
<1> QED BY <1>1, <1>2, <1>3, <1>5, <1>6, <1>7

LEMMA CountTypes ==
    /\ \A samples : Review!CountOf(samples) \in Nat
    /\ Review!CountOf([r \in Applications |-> Review!NoSample]) = 0
<1>1. IsFiniteSet(Applications)
    BY BotAssumption, OneFiniteness DEF Review!ReviewAssumption
<1>2. ASSUME NEW samples PROVE Review!CountOf(samples) \in Nat
    <2> DEFINE S == {r \in Applications : samples[r].known /\ samples[r].active /\ samples[r].cohort}
    <2>1. IsFiniteSet(S)
        BY <1>1, FS_Subset
    <2>2. Cardinality(S) \in Nat
        BY <2>1, FS_CardinalityType
    <2> HIDE DEF S
    <2>3. Review!Cardinality(S) = Cardinality(S)
        BY OneCardinality
    <2> QED BY <2>2, <2>3 DEF Review!CountOf, S
<1>3. Review!CountOf([r \in Applications |-> Review!NoSample]) = 0
    <2> DEFINE all == [r \in Applications |-> Review!NoSample]
               S == {r \in Applications : all[r].known /\ all[r].active /\ all[r].cohort}
    <2>1. S = {}
        BY DEF Review!NoSample
    <2>2. Cardinality(S) = 0
        BY <2>1, FS_EmptySet
    <2> HIDE DEF S
    <2>3. Review!Cardinality(S) = Cardinality(S)
        BY OneCardinality
    <2> QED BY <2>2, <2>3 DEF Review!CountOf, S
<1> QED BY <1>2, <1>3

\* A version counts the samples it brings, and those before it stay.
LEMMA VersionStep ==
    ASSUME VersionInv,
           \/ UNCHANGED <<sample, version, counted>>
           \/ Review!VersionInserted \/ Review!NewVersion
    PROVE  /\ VersionInv' /\ version' \in Nat /\ version <= version'
           /\ \A v \in 1..version : counted'[v] = counted[v]
<1>1. CASE UNCHANGED <<sample, version, counted>>
    BY <1>1 DEF VersionInv
<1>2. CASE Review!NewVersion
    <2>1. Review!CountOf(sample') \in Nat
        BY CountTypes
    <2>2. version' = version + 1 /\ counted' = Append(counted, Review!CountOf(sample'))
        BY <1>2 DEF Review!NewVersion
    <2>3. /\ counted' \in Seq(Nat) /\ Len(counted') = version + 1 /\ counted'[version + 1] = Review!CountOf(sample')
          /\ \A v \in 1..version : counted'[v] = counted[v]
        BY <2>1, <2>2, AppendedLast DEF VersionInv
    <2>4. Review!CountOf(sample)' = Review!CountOf(sample')
        BY DEF Review!CountOf
    <2> QED BY <2>2, <2>3, <2>4 DEF VersionInv
<1> QED BY <1>1, <1>2 DEF Review!VersionInserted

\* While it sleeps, the version that the review names stays among the versions.
LEMMA ReviewerSleeps ==
    ASSUME VersionInv, ReviewerInv, UNCHANGED reviewer, version' \in Nat, version <= version',
           \A v \in 1..version : counted'[v] = counted[v]
    PROVE  ReviewerInv'
<1>1. version \in Nat /\ \A v \in 1..version : v \in 1..version'
    BY DEF VersionInv
<1>2. ASSUME reviewer.pc = "judge"
      PROVE  \E v \in reviewer.version..version' : counted'[v] = reviewer.count
    <2>1. reviewer.version \in 1..version
        BY <1>2 DEF ReviewerInv
    <2>2. PICK v \in reviewer.version..version : counted[v] = reviewer.count
        BY <1>2 DEF ReviewerInv, Review!ReviewNamesItsEvidence
    <2>3. v \in 1..version /\ v \in reviewer.version..version'
        BY <1>1, <2>1
    <2> QED BY <2>2, <2>3
<1>3. Review!ReviewNamesItsEvidence'
    BY <1>2 DEF Review!ReviewNamesItsEvidence
<1>4. reviewer.pc \in {"count", "judge"} => reviewer.version \in 1..version'
    BY <1>1 DEF ReviewerInv
<1> QED BY <1>3, <1>4 DEF ReviewerInv

LEMMA ReviewerStep ==
    ASSUME VersionInv, ReviewerInv, Review!ReviewNext
    PROVE  VersionInv' /\ ReviewerInv'
<1>1. /\ VersionInv' /\ version' \in Nat /\ version <= version'
      /\ \A v \in 1..version : counted'[v] = counted[v]
    <2>1. \/ UNCHANGED <<sample, version, counted>>
          \/ Review!VersionInserted \/ Review!NewVersion
        BY DEF Review!ReviewNext, Review!Arrive, Review!Record, Review!Fetch, Review!Reconcile, Review!Store,
           Review!ListUnparsed, Review!Parse, Review!FailToParse, Review!ParseNotStored,
           Review!ListCandidates, Review!Take, Review!LookUp, Review!ReadVersion, Review!CountSamples,
           Review!Judge, Review!GiveUpReview, Review!BeginAutomatic, Review!BeginManual,
           Review!Complete, Review!Recover, Review!Import, Review!tables, Review!Index, Review!Rebuild,
           Review!RebuildSamples, Review!Correct
    <2> QED BY <2>1, VersionStep
<1>2. ASSUME UNCHANGED reviewer PROVE ReviewerInv'
    BY <1>1, <1>2, ReviewerSleeps
<1>3. ASSUME ReviewerShape(reviewer'), reviewer'.pc \notin {"count", "judge"} PROVE ReviewerInv'
    BY <1>3 DEF ReviewerInv, Review!ReviewNamesItsEvidence
<1>4. ReviewerShape(reviewer) /\ ReviewerShape(Review!NotReviewing) /\ Review!NotReviewing.pc = "idle"
    BY DEF ReviewerInv, ReviewerShape, Review!NotReviewing
<1>5. ASSUME NEW pc, reviewer' = [reviewer EXCEPT !.pc = pc], pc \notin {"count", "judge"} PROVE ReviewerInv'
    BY <1>3, <1>4, <1>5 DEF ReviewerShape
<1>6. CASE Review!ListCandidates
    <2>1. PICK rows : reviewer' = [Review!NotReviewing EXCEPT !.todo = rows]
        BY <1>6 DEF Review!ListCandidates
    <2>2. ReviewerShape(reviewer') /\ reviewer'.pc = "idle"
        BY <2>1 DEF ReviewerShape, Review!NotReviewing
    <2> QED BY <1>1, <1>3, <2>2
<1>7. ASSUME NEW r, NEW a, Review!Take(r, a) PROVE ReviewerInv'
    BY <1>3, <1>4, <1>7 DEF ReviewerShape, Review!Take, Review!FirstVerdict
<1>8. CASE Review!LookUp
    <2>1. PICK pc \in {"evidence", "reject"} : reviewer' = [reviewer EXCEPT !.pc = pc]
        BY <1>8 DEF Review!LookUp, Review!ReviewOnward
    <2> QED BY <1>1, <1>5, <2>1
<1>9. CASE Review!ReadVersion
    <2>1. ReviewerShape(reviewer') /\ reviewer'.pc = "count" /\ reviewer'.version = version /\ version' = version
        BY <1>4, <1>9 DEF ReviewerShape, Review!ReadVersion, Review!tables
    <2>2. version \in 1..version
        BY DEF VersionInv
    <2>3. reviewer'.version \in 1..version'
        BY <2>1, <2>2
    <2>4. Review!ReviewNamesItsEvidence'
        BY <2>1 DEF Review!ReviewNamesItsEvidence
    <2> QED BY <1>1, <2>1, <2>3, <2>4 DEF ReviewerInv
<1>10. CASE Review!CountSamples
    <2>1. /\ ReviewerShape(reviewer') /\ reviewer'.pc \in {"reject", "judge"} /\ reviewer'.version = reviewer.version
          /\ reviewer'.count = Review!CountOf(sample) /\ UNCHANGED <<version, counted>>
          /\ reviewer.version \in 1..version
        BY <1>4, <1>10 DEF ReviewerShape, Review!CountSamples, Review!tables, ReviewerInv
    <2>2. version \in reviewer.version..version /\ counted[version] = Review!CountOf(sample)
        BY <2>1 DEF VersionInv
    <2>3. reviewer'.version \in 1..version' /\ version \in reviewer'.version..version'
          /\ counted'[version] = reviewer'.count
        BY <2>1, <2>2
    <2>4. Review!ReviewNamesItsEvidence'
        BY <2>3 DEF Review!ReviewNamesItsEvidence
    <2> QED BY <1>1, <2>1, <2>3, <2>4 DEF ReviewerInv
<1>11. ASSUME NEW judgement, Review!Judge(judgement) PROVE ReviewerInv'
    BY <1>5, <1>11 DEF Review!Judge, Review!ReviewOnward
<1>12. ASSUME reviewer' = Review!NextCandidate PROVE ReviewerInv'
    BY <1>3, <1>4, <1>12 DEF ReviewerShape, Review!NextCandidate, Review!NotReviewing
<1>13. \/ UNCHANGED reviewer \/ reviewer' = Review!NextCandidate
       \/ Review!ListCandidates \/ (\E e \in reviewer.todo : Review!Take(e[1], e[2])) \/ Review!LookUp
       \/ Review!ReadVersion \/ Review!CountSamples \/ \E judgement \in Review!Judgements : Review!Judge(judgement)
    BY DEF Review!ReviewNext, Review!Arrive, Review!Record, Review!Fetch, Review!Reconcile, Review!Store,
           Review!ListUnparsed, Review!Parse, Review!FailToParse, Review!ParseNotStored,
           Review!GiveUpReview, Review!BeginAutomatic, Review!BeginManual, Review!Complete,
           Review!Recover, Review!Import, Review!Index, Review!Rebuild, Review!Correct, Review!memory
<1> QED BY <1>1, <1>2, <1>6, <1>7, <1>8, <1>9, <1>10, <1>11, <1>12, <1>13

LEMMA ReviewBegins == BotInit => ReviewInv
<1> SUFFICES ASSUME BotInit PROVE ReviewInv
    OBVIOUS
<1>1. /\ application = [r \in Applications |-> Review!Unseen] /\ fit = [r \in Applications |-> FALSE]
      /\ sample = [r \in Applications |-> Review!NoSample] /\ corrected = [r \in Applications |-> <<>>]
      /\ version = 1 /\ counted = <<0>> /\ reviewer = Review!NotReviewing
    BY DEF BotInit, Review!ReviewInit
<1>2. FitInv
    BY <1>1 DEF FitInv
<1>3. SampleInv
    BY <1>1 DEF SampleInv, SampleShape, Review!NoSample, Review!ApprovedBecomesEvidence, Review!CorrectionsSurvive
<1>4. VersionInv
    <2>1. Review!CountOf(sample) = 0
        BY <1>1, CountTypes
    <2>2. counted \in Seq(Nat) /\ Len(counted) = 1 /\ counted[1] = 0
        BY <1>1
    <2> QED BY <1>1, <2>1, <2>2 DEF VersionInv
<1>5. ReviewerInv
    BY <1>1 DEF ReviewerInv, ReviewerShape, Review!NotReviewing, Review!ReviewNamesItsEvidence
<1> QED BY <1>2, <1>3, <1>4, <1>5 DEF ReviewInv

LEMMA ReviewStepInv ==
    ASSUME ReviewInv, [BotNext]_botVars
    PROVE  ReviewInv'
<1> USE DEF ReviewInv
<1>1. CASE Review!ReviewNext /\ UNCHANGED process
    BY <1>1, FitStep, SampleStep, ReviewerStep
<1>2. CASE UNCHANGED <<process, review>>
    <2>1. FitInv' /\ SampleInv'
        BY <1>2 DEF review, FitInv, SampleInv, Review!ApprovedBecomesEvidence, Review!CorrectionsSurvive
    <2>2. VersionInv' /\ ReviewerInv'
        BY <1>2 DEF review, VersionInv, ReviewerInv, Review!ReviewNamesItsEvidence, Review!CountOf
    <2> QED BY <2>1, <2>2
<1>3. CASE Crash /\ Review!ForgetReview
    <2>1. /\ process' = "down" /\ reviewer' = Review!NotReviewing
          /\ UNCHANGED <<application, sample, version, counted, corrected, fit>>
        BY <1>3 DEF Crash, Review!ForgetReview, Review!tables
    <2>2. FitInv' /\ SampleInv'
        BY <2>1 DEF FitInv, SampleInv, Review!ApprovedBecomesEvidence, Review!CorrectionsSurvive
    <2>3. VersionInv' /\ ReviewerInv'
        BY <2>1 DEF VersionInv, ReviewerInv, ReviewerShape, Review!NotReviewing, Review!ReviewNamesItsEvidence, Review!CountOf
    <2> QED BY <2>2, <2>3
<1>4. CASE Start /\ Review!PrepareReview
    <2>1. /\ sample' = [x \in Applications |-> IF x \in Applications THEN Review!Inserted(x) ELSE sample[x]]
          /\ Review!VersionInserted /\ UNCHANGED <<application, corrected, fit, reviewer>>
        BY <1>4 DEF Review!PrepareReview, Review!RebuildSamples, Review!memory
    <2>2. FitInv'
        BY <2>1 DEF FitInv
    <2>3. SampleInv'
        <3>1. /\ Applications \in SUBSET Applications
              /\ \A x \in Applications \ Applications :
                    process' = "up" => (process = "up" /\ (x \in indexing => x \in indexing'))
            OBVIOUS
        <3> QED BY <2>1, <3>1, InsertStep
    <2>4. VersionInv' /\ ReviewerInv'
        BY <2>1, VersionStep, ReviewerSleeps
    <2> QED BY <2>2, <2>3, <2>4
<1> QED BY <1>1, <1>2, <1>3, <1>4, StepsOfParts

LEMMA ReviewInvHolds == BotSpec => []ReviewInv
BY ReviewBegins, ReviewStepInv, PTL DEF BotSpec

\* An approved request with all of its fields is a sample or about to become one:
\* scheduleEvidenceIndex, PrepareAutomaticReview.
THEOREM BotKeepsEvidence == BotSpec => []ApprovedBecomesEvidence
<1>1. ReviewInv => ApprovedBecomesEvidence
    BY DEF ReviewInv, SampleInv, ApprovedBecomesEvidence
<1> QED BY <1>1, ReviewInvHolds, PTL

\* What an administrator made of a sample outlives indexing, rebuilds and starts:
\* insertEvidenceSource, UpdateMajorEvidenceSample.
THEOREM BotKeepsCorrections == BotSpec => []CorrectionsSurvive
<1>1. ReviewInv => CorrectionsSurvive
    BY DEF ReviewInv, SampleInv, CorrectionsSurvive
<1> QED BY <1>1, ReviewInvHolds, PTL

\* A review counts the samples of the version that it names or of a later one:
\* GetMajorEvidence.
THEOREM BotNamesEvidence == BotSpec => []ReviewNamesItsEvidence
<1>1. ReviewInv => ReviewNamesItsEvidence
    BY DEF ReviewInv, ReviewerInv, ReviewNamesItsEvidence
<1> QED BY <1>1, ReviewInvHolds, PTL

(***************************************************************************)
(* Files.  A directory has one owner until its file is complete, and then  *)
(* the cache and those who use it share it; each of them knows how old it  *)
(* can be.  Room is reserved by downloads alone, and a download without a  *)
(* directory counts for the one that it will make.                         *)
(***************************************************************************)

Downloads == {c \in Callers : caller[c].pc = "download"}
Undecided == {c \in Downloads : caller[c].directory = 0}
InSlots == {c \in Callers : caller[c].pc \in Staging!SlotSteps}

RoomInv ==
    /\ reserved = Cardinality(Downloads)
    /\ Cardinality(InSlots) <= Slots
    /\ Cardinality(Staging!OnDisk) + Cardinality(Undecided) <= MaxFiles

\* The directory of a download, or of what it is about to publish.
OwnsWell(c) ==
    LET d == caller[c].directory IN
    /\ disk[d].made >= 0 /\ clock <= disk[d].made + StaleAfter
    /\ caller[c].pc = "publish" => disk[d].whole
    /\ \A e \in Callers : e # c => caller[e].directory # d
    /\ \A f \in Files : cache[f] # d

UsesWell(c) ==
    LET d == caller[c].directory IN
    /\ d # 0 /\ disk[d].whole
    /\ clock <= caller[c].since + CleanupGrace /\ caller[c].since <= disk[d].made + StaleAfter

CallerSound(c) ==
    /\ caller[c].pc \notin {"download", "publish", "use"} => caller[c].directory = 0
    /\ caller[c].pc \in {"download", "publish"} /\ caller[c].directory # 0 => OwnsWell(c)
    /\ caller[c].pc = "use" => UsesWell(c)

CacheInv == \A f \in Files : cache[f] # 0 => disk[cache[f]].whole

\* Who waits, waits for a file that some caller works on.
AtWork(f) == \E c \in Callers : caller[c].file = f /\ caller[c].pc \notin {"idle", "wait", "use"}
WaitInv ==
    /\ \A c \in Callers : caller[c].pc = "wait" => caller[c].file \in inflight
    /\ \A f \in inflight : AtWork(f)

FileTypes ==
    /\ clock \in 0..MaxClock /\ caller \in [Callers -> Staging!Caller] /\ inflight \subseteq Files
    /\ cache \in [Files -> 0..MaxDownloads] /\ disk \in [Staging!Directories -> Staging!Directory]

FilesInv ==
    /\ FileTypes /\ RoomInv /\ CacheInv /\ WaitInv
    /\ \A c \in Callers : CallerSound(c)

LEMMA StagingConstants ==
    /\ IsFiniteSet(Callers) /\ Files # {} /\ Slots \in Nat /\ MaxFiles \in Nat /\ StaleAfter \in Nat
    /\ CleanupGrace \in Nat /\ MaxDownloads \in Nat /\ MaxClock \in Nat /\ Slots >= 1 /\ MaxFiles >= 1
    /\ IsFiniteSet(Staging!Directories)
<1>1. MaxDownloads \in Nat
    BY BotAssumption DEF Staging!StagingAssumption
<1>2. IsFiniteSet(1..MaxDownloads)
    BY <1>1, FS_Interval
<1> QED BY <1>1, <1>2, BotAssumption, OneFiniteness DEF Staging!StagingAssumption, Staging!Directories

LEMMA DoneCaller ==
    /\ Staging!Done \in Staging!Caller /\ Staging!Done.pc = "idle" /\ Staging!Done.directory = 0
    /\ Staging!Done = [pc |-> "idle", file |-> Staging!Done.file, directory |-> 0, since |-> 0]
    /\ Staging!Done.file \in Files
<1>1. (CHOOSE f \in Files : TRUE) \in Files
    BY StagingConstants
<1> QED BY <1>1, StagingConstants DEF Staging!Done, Staging!Caller, Staging!Steps

\* The sets that room is counted by are finite.
LEMMA RoomFinite ==
    /\ IsFiniteSet(Downloads) /\ IsFiniteSet(Undecided) /\ IsFiniteSet(InSlots) /\ IsFiniteSet(Staging!OnDisk)
    /\ Cardinality(Downloads) \in Nat /\ Cardinality(Undecided) \in Nat /\ Cardinality(InSlots) \in Nat
    /\ Cardinality(Staging!OnDisk) \in Nat
    /\ Cardinality(Undecided) <= Cardinality(Downloads) /\ Cardinality(Downloads) <= Cardinality(InSlots)
<1>1. /\ Downloads \subseteq Callers /\ Undecided \subseteq Downloads /\ Downloads \subseteq InSlots
      /\ InSlots \subseteq Callers /\ Staging!OnDisk \subseteq Staging!Directories
    BY DEF Downloads, Undecided, InSlots, Staging!OnDisk, Staging!SlotSteps
<1>2. IsFiniteSet(InSlots) /\ IsFiniteSet(Staging!OnDisk) /\ IsFiniteSet(Downloads)
    BY <1>1, StagingConstants, FS_Subset
<1>3. /\ IsFiniteSet(Undecided) /\ Cardinality(Undecided) <= Cardinality(Downloads)
      /\ Cardinality(Downloads) <= Cardinality(InSlots)
    BY <1>1, <1>2, FS_Subset
<1> QED BY <1>2, <1>3, FS_CardinalityType

\* Fewer directories, downloads and slots leave more room.
LEMMA SmallerRoom ==
    ASSUME NEW S, NEW T, IsFiniteSet(T), S \subseteq T
    PROVE  Cardinality(S) \in Nat /\ Cardinality(T) \in Nat /\ Cardinality(S) <= Cardinality(T)
BY FS_Subset, FS_CardinalityType

LEMMA OneMore ==
    ASSUME NEW S, NEW x, x \notin S, IsFiniteSet(S)
    PROVE  Cardinality(S) \in Nat /\ Cardinality(S \cup {x}) = Cardinality(S) + 1
BY FS_AddElement, FS_CardinalityType

LEMMA OneLess ==
    ASSUME NEW S, NEW x, x \in S, IsFiniteSet(S)
    PROVE  Cardinality(S) \in Nat /\ Cardinality(S \ {x}) = Cardinality(S) - 1
BY FS_RemoveElement, FS_CardinalityType

LEMMA RoomKept ==
    ASSUME RoomInv, UNCHANGED reserved, Downloads' = Downloads, InSlots' \subseteq InSlots,
           Undecided' \subseteq Undecided, Staging!OnDisk' \subseteq Staging!OnDisk
    PROVE  RoomInv'
<1>1. /\ Cardinality(InSlots') \in Nat /\ Cardinality(InSlots') <= Cardinality(InSlots)
      /\ Cardinality(Undecided') \in Nat /\ Cardinality(Undecided') <= Cardinality(Undecided)
      /\ Cardinality(Staging!OnDisk') \in Nat /\ Cardinality(Staging!OnDisk') <= Cardinality(Staging!OnDisk)
      /\ Cardinality(InSlots) \in Nat /\ Cardinality(Undecided) \in Nat /\ Cardinality(Staging!OnDisk) \in Nat
    BY RoomFinite, SmallerRoom
<1>2. RoomInv' = (/\ reserved' = Cardinality(Downloads') /\ Cardinality(InSlots') <= Slots
                  /\ Cardinality(Staging!OnDisk') + Cardinality(Undecided') <= MaxFiles)
    BY DEF RoomInv
<1>3. reserved' = Cardinality(Downloads')
    BY DEF RoomInv
<1> HIDE DEF Downloads, InSlots, Undecided
<1>4. Cardinality(InSlots') <= Slots
    BY <1>1, StagingConstants DEF RoomInv
<1>5. Cardinality(Staging!OnDisk') + Cardinality(Undecided') <= MaxFiles
    BY <1>1, StagingConstants DEF RoomInv
<1> QED BY <1>2, <1>3, <1>4, <1>5

\* One caller takes a step.
LEMMA OneCaller ==
    ASSUME FileTypes, NEW c \in Callers, NEW r \in Staging!Caller, caller' = [caller EXCEPT ![c] = r]
    PROVE  /\ caller' \in [Callers -> Staging!Caller]
           /\ \A e \in Callers : caller'[e] = IF e = c THEN r ELSE caller[e]
           /\ caller'[c] = r /\ r.pc \in Staging!Steps /\ r.file \in Files
           /\ r.directory \in 0..MaxDownloads /\ r.since \in 0..MaxClock
BY DEF FileTypes, Staging!Caller

\* Records of callers.
LEMMA CallerFields ==
    ASSUME FileTypes, NEW c \in Callers
    PROVE  /\ caller[c] \in Staging!Caller /\ caller[c].pc \in Staging!Steps /\ caller[c].file \in Files
           /\ caller[c].directory \in 0..MaxDownloads /\ caller[c].since \in 0..MaxClock
BY DEF FileTypes, Staging!Caller

\* A caller that holds no directory waits, gets a slot, is done, or begins a download:
\* nothing on disk changes.
LEMMA QuietStep ==
    ASSUME FilesInv, NEW c \in Callers, NEW r \in Staging!Caller, caller' = [caller EXCEPT ![c] = r],
           UNCHANGED <<clock, cache, inflight, disk>>, r.directory = 0, r.pc # "use",
           caller[c].pc \in {"idle", "wait", "use"} => r.pc = "idle",
           caller[c].pc \notin {"idle", "wait", "use"} =>
               r.file = caller[c].file /\ r.pc \notin {"idle", "wait"}
    PROVE  FileTypes' /\ CacheInv' /\ WaitInv' /\ \A e \in Callers : CallerSound(e)'
<1>1. \A e \in Callers : caller'[e] = IF e = c THEN r ELSE caller[e]
    BY OneCaller DEF FilesInv
<1>2. FileTypes'
    BY OneCaller DEF FilesInv, FileTypes
<1>3. CacheInv'
    BY DEF FilesInv, CacheInv
<1>4. WaitInv'
    BY <1>1 DEF FilesInv, WaitInv, AtWork
<1>5. ASSUME NEW e \in Callers PROVE CallerSound(e)'
    <2>1. CASE e = c
        BY <1>1, <2>1 DEF CallerSound
    <2>2. CASE e # c
        BY <1>1, <2>2 DEF FilesInv, CallerSound, OwnsWell, UsesWell
    <2> QED BY <2>1, <2>2
<1> QED BY <1>2, <1>3, <1>4, <1>5

LEMMA StopWaitingStep ==
    ASSUME FilesInv, NEW c \in Callers, Staging!StopWaiting(c) \/ Staging!Use(c)
    PROVE  FilesInv'
<1>1. caller' = [caller EXCEPT ![c] = Staging!Done] /\ caller[c].pc \in {"wait", "use"}
      /\ UNCHANGED <<clock, cache, inflight, reserved, disk>>
    BY DEF Staging!StopWaiting, Staging!Use, Staging!Set
<1>2. /\ Downloads' = Downloads /\ InSlots' = InSlots /\ Undecided' = Undecided
      /\ Staging!OnDisk' = Staging!OnDisk
    BY <1>1, OneCaller, DoneCaller DEF FilesInv, Downloads, InSlots, Undecided, Staging!OnDisk, Staging!SlotSteps
<1>3. RoomInv'
    BY <1>1, <1>2, RoomKept DEF FilesInv
<1> QED BY <1>1, <1>3, QuietStep, DoneCaller DEF FilesInv

LEMMA TakeSlotStep ==
    ASSUME FilesInv, NEW c \in Callers, Staging!TakeSlot(c)
    PROVE  FilesInv'
<1> DEFINE r == [caller[c] EXCEPT !.pc = "clean"]
<1>1. /\ caller' = [caller EXCEPT ![c] = r] /\ caller[c].pc = "queue" /\ Cardinality(InSlots) < Slots
      /\ UNCHANGED <<clock, cache, inflight, reserved, disk>>
    BY OneCardinality DEF Staging!TakeSlot, Staging!Set, InSlots
<1>2. r \in Staging!Caller /\ r.pc = "clean" /\ r.file = caller[c].file /\ r.directory = 0
    BY <1>1, CallerFields DEF FilesInv, CallerSound, Staging!Caller, Staging!Steps
<1> HIDE DEF r
<1>3. /\ Downloads' = Downloads /\ InSlots' = InSlots \cup {c} /\ Undecided' = Undecided
      /\ Staging!OnDisk' = Staging!OnDisk /\ c \notin InSlots
    BY <1>1, <1>2, OneCaller DEF FilesInv, Downloads, InSlots, Undecided, Staging!OnDisk, Staging!SlotSteps
<1>4. RoomInv'
    <2>1. Cardinality(InSlots') = Cardinality(InSlots) + 1 /\ Cardinality(InSlots) \in Nat
        BY <1>3, RoomFinite, OneMore
    <2>2. Cardinality(InSlots') <= Slots
        BY <1>1, <2>1, StagingConstants
    <2> QED BY <1>1, <1>3, <2>2 DEF FilesInv, RoomInv
<1> QED BY <1>1, <1>2, <1>4, QuietStep DEF FilesInv

LEMMA ReserveStep ==
    ASSUME FilesInv, NEW c \in Callers, Staging!Reserve(c)
    PROVE  FilesInv'
<1> DEFINE r == [caller[c] EXCEPT !.pc = "download"]
<1>1. /\ caller' = [caller EXCEPT ![c] = r] /\ caller[c].pc = "reserve" /\ reserved' = reserved + 1
      /\ Cardinality(Staging!OnDisk) + reserved + 1 <= MaxFiles
      /\ UNCHANGED <<clock, cache, inflight, disk>>
    BY OneCardinality DEF Staging!Reserve, Staging!Set, Staging!HasRoom
<1>2. r \in Staging!Caller /\ r.pc = "download" /\ r.file = caller[c].file /\ r.directory = 0
    BY <1>1, CallerFields DEF FilesInv, CallerSound, Staging!Caller, Staging!Steps
<1> HIDE DEF r
<1>3. /\ Downloads' = Downloads \cup {c} /\ InSlots' = InSlots /\ Undecided' = Undecided \cup {c}
      /\ Staging!OnDisk' = Staging!OnDisk /\ c \notin Downloads /\ c \notin Undecided
    BY <1>1, <1>2, OneCaller DEF FilesInv, Downloads, InSlots, Undecided, Staging!OnDisk, Staging!SlotSteps
<1>4. RoomInv'
    <2>1. /\ Cardinality(Downloads') = Cardinality(Downloads) + 1
          /\ Cardinality(Undecided') = Cardinality(Undecided) + 1
        BY <1>3, RoomFinite, OneMore
    <2>2. /\ Cardinality(Staging!OnDisk) \in Nat /\ Cardinality(Undecided) \in Nat /\ Cardinality(Downloads) \in Nat
          /\ Cardinality(Undecided) <= Cardinality(Downloads) /\ reserved = Cardinality(Downloads)
        BY RoomFinite DEF FilesInv, RoomInv
    <2>3. Cardinality(Staging!OnDisk) + Cardinality(Undecided') <= MaxFiles
        BY <1>1, <2>1, <2>2, StagingConstants
    <2> QED BY <1>1, <1>3, <2>1, <2>2, <2>3 DEF FilesInv, RoomInv
<1> QED BY <1>1, <1>2, <1>4, QuietStep DEF FilesInv

\* What the cache gives out is whole and was made lately enough.
LEMMA FromCache ==
    ASSUME FilesInv, NEW limit \in Nat, NEW f \in Files
    PROVE  /\ Staging!Cached(limit)[f] \in {0, cache[f]}
           /\ Staging!Cached(limit) \in [Files -> 0..MaxDownloads]
           /\ Staging!Cached(limit)[f] # 0 =>
                 /\ cache[f] \in Staging!Directories /\ disk[cache[f]].whole
                 /\ clock < disk[cache[f]].made + limit
<1>1. \A x \in Files : Staging!Cached(limit)[x] = IF cache[x] \in Staging!OnDisk /\ disk[cache[x]].made + limit > clock
                                                  THEN cache[x] ELSE 0
    BY DEF Staging!Cached
<1>2. Staging!Cached(limit) \in [Files -> 0..MaxDownloads]
    BY <1>1, StagingConstants DEF Staging!Cached, FilesInv, FileTypes
<1>3. Staging!Cached(limit)[f] # 0 => cache[f] \in Staging!OnDisk /\ disk[cache[f]].made + limit > clock /\ cache[f] # 0
    BY <1>1
<1>4. cache[f] \in Staging!OnDisk => cache[f] \in Staging!Directories /\ disk[cache[f]].made \in Int /\ clock \in Int
    BY DEF Staging!OnDisk, FilesInv, FileTypes, Staging!Directory
<1> QED BY <1>1, <1>2, <1>3, <1>4 DEF FilesInv, CacheInv

LEMMA CachedOrBeginStep ==
    ASSUME FilesInv, NEW c \in Callers, NEW f \in Files, Staging!CachedOrBegin(c, f)
    PROVE  FilesInv'
<1>1. PICK r : /\ caller' = [caller EXCEPT ![c] = r]
               /\ \/ /\ Staging!Fresh[f] # 0 /\ inflight' = inflight
                     /\ r = [pc |-> "use", file |-> f, directory |-> Staging!Fresh[f], since |-> clock]
                  \/ /\ f \in inflight /\ inflight' = inflight
                     /\ r = [pc |-> "wait", file |-> f, directory |-> 0, since |-> 0]
                  \/ /\ inflight' = inflight \cup {f}
                     /\ r = [pc |-> "queue", file |-> f, directory |-> 0, since |-> 0]
    <2> DEFINE Begun(pc) == [Staging!Done EXCEPT !.pc = pc, !.file = f]
    <2>1. \A pc : Begun(pc) = [pc |-> pc, file |-> f, directory |-> 0, since |-> 0]
        <3>1. ASSUME NEW pc PROVE Begun(pc) = [pc |-> pc, file |-> f, directory |-> 0, since |-> 0]
            <4>1. Staging!Done \in [pc: {"idle"}, file: {Staging!Done.file}, directory: {0}, since: {0}]
                BY DoneCaller
            <4>2. Begun(pc) \in [pc: {pc}, file: {f}, directory: {0}, since: {0}]
                BY <4>1
            <4> HIDE DEF Begun
            <4> QED BY <4>2
        <3> QED BY <3>1
    <2> DEFINE used == [Begun("use") EXCEPT !.directory = Staging!Fresh[f], !.since = clock]
    <2>2. used = [pc |-> "use", file |-> f, directory |-> Staging!Fresh[f], since |-> clock]
        <3>1. Begun("use") \in [pc: {"use"}, file: {f}, directory: {0}, since: {0}]
            BY <2>1
        <3> HIDE DEF Begun
        <3>2. used \in [pc: {"use"}, file: {f}, directory: {Staging!Fresh[f]}, since: {clock}]
            BY <3>1
        <3> HIDE DEF used
        <3> QED BY <3>2
    <2>3. \/ /\ Staging!Fresh[f] # 0 /\ inflight' = inflight
             /\ caller' = [caller EXCEPT ![c] = used]
          \/ f \in inflight /\ inflight' = inflight /\ caller' = [caller EXCEPT ![c] = Begun("wait")]
          \/ inflight' = inflight \cup {f} /\ caller' = [caller EXCEPT ![c] = Begun("queue")]
        BY DEF Staging!CachedOrBegin, Staging!Set
    <2> HIDE DEF Begun, used
    <2> QED BY <2>1, <2>2, <2>3
<1>2. /\ caller[c].pc = "idle" /\ cache' = Staging!Cached(StaleAfter) /\ UNCHANGED <<clock, reserved, disk>>
      /\ Staging!Fresh = Staging!Cached(StaleAfter) /\ StaleAfter \in Nat /\ CleanupGrace \in Nat
      /\ clock \in 0..MaxClock /\ MaxDownloads \in Nat
    BY StagingConstants DEF Staging!CachedOrBegin, Staging!Fresh, FilesInv, FileTypes
<1>3. r \in Staging!Caller /\ r.pc \in {"use", "wait", "queue"} /\ r.file = f
    <2>1. Staging!Fresh[f] \in 0..MaxDownloads
        <3>1. Staging!Cached(StaleAfter) \in [Files -> 0..MaxDownloads]
            BY <1>2, FromCache
        <3> QED BY <1>2, <3>1
    <2>2. clock \in 0..MaxClock /\ 0 \in 0..MaxDownloads /\ 0 \in 0..MaxClock
        BY <1>2, StagingConstants
    <2> QED BY <1>1, <2>1, <2>2 DEF Staging!Caller, Staging!Steps
<1>4. \A e \in Callers : caller'[e] = IF e = c THEN r ELSE caller[e]
    BY <1>1, <1>3, OneCaller DEF FilesInv
<1>5. FileTypes'
    BY <1>1, <1>2, <1>3, OneCaller, FromCache DEF FilesInv, FileTypes
<1>6. RoomInv'
    <2>1. /\ Downloads' = Downloads /\ InSlots' = InSlots /\ Undecided' = Undecided
          /\ Staging!OnDisk' = Staging!OnDisk
        BY <1>2, <1>3, <1>4 DEF Downloads, InSlots, Undecided, Staging!OnDisk, Staging!SlotSteps
    <2> QED BY <1>2, <2>1, RoomKept DEF FilesInv
<1>7. CacheInv'
    BY <1>2, FromCache DEF FilesInv, CacheInv
<1>8. WaitInv'
    <2>1. \A g \in inflight' : AtWork(g)'
        BY <1>1, <1>2, <1>3, <1>4 DEF FilesInv, WaitInv, AtWork
    <2>2. \A e \in Callers : caller'[e].pc = "wait" => caller'[e].file \in inflight'
        BY <1>1, <1>2, <1>3, <1>4 DEF FilesInv, WaitInv
    <2> QED BY <2>1, <2>2 DEF WaitInv
<1>9. ASSUME NEW e \in Callers PROVE CallerSound(e)'
    <2>1. CASE e # c
        <3>1. \A g \in Files : cache'[g] \in {0, cache[g]}
            BY <1>2, FromCache
        <3>2. caller[e].pc \in {"download", "publish"} /\ caller[e].directory # 0 => OwnsWell(e)'
            <4> SUFFICES ASSUME caller[e].pc \in {"download", "publish"}, caller[e].directory # 0 PROVE OwnsWell(e)'
                OBVIOUS
            <4>1. OwnsWell(e)
                BY DEF FilesInv, CallerSound
            <4>2. r.directory # caller[e].directory
                <5>1. Staging!Cached(StaleAfter)[f] \in {0, cache[f]}
                    BY <1>2, FromCache
                <5>2. r.directory \in {0, cache[f]}
                    BY <1>1, <1>2, <5>1
                <5> QED BY <4>1, <5>2 DEF OwnsWell
            <4> QED BY <1>2, <1>4, <2>1, <3>1, <4>1, <4>2 DEF OwnsWell
        <3>3. caller[e].pc = "use" => UsesWell(e)'
            BY <1>2, <1>4, <2>1 DEF FilesInv, CallerSound, UsesWell
        <3> QED BY <1>4, <2>1, <3>2, <3>3 DEF FilesInv, CallerSound
    <2>2. CASE e = c
        <3>1. CASE r.pc = "use"
            <4>1. /\ r.directory = Staging!Cached(StaleAfter)[f] /\ r.directory # 0 /\ r.since = clock
                BY <1>1, <1>2, <3>1
            <4>2. disk[r.directory].whole /\ clock < disk[r.directory].made + StaleAfter
                  /\ disk[r.directory].made \in Int
                BY <1>2, <4>1, FromCache DEF FilesInv, FileTypes, Staging!Directory
            <4>3. clock <= r.since + CleanupGrace /\ r.since <= disk[r.directory].made + StaleAfter
                BY <1>2, <4>1, <4>2
            <4> QED BY <1>2, <1>4, <2>2, <3>1, <4>1, <4>2, <4>3 DEF CallerSound, UsesWell
        <3>2. CASE r.pc # "use"
            BY <1>1, <1>3, <1>4, <2>2, <3>2 DEF CallerSound
        <3> QED BY <3>1, <3>2
    <2> QED BY <2>1, <2>2
<1> QED BY <1>5, <1>6, <1>7, <1>8, <1>9 DEF FilesInv

\* The cleanup removes what nobody holds: what the cache keeps, what callers use and
\* what they download is younger.
LEMMA RemoveStaleStep ==
    ASSUME FilesInv, NEW c \in Callers, Staging!RemoveStale(c)
    PROVE  FilesInv'
<1> DEFINE r == [caller[c] EXCEPT !.pc = "reserve"]
           kept == Staging!Cached(StaleAfter + CleanupGrace)
<1>1. /\ caller' = [caller EXCEPT ![c] = r] /\ caller[c].pc = "clean" /\ cache' = kept
      /\ UNCHANGED <<clock, inflight, reserved>>
      /\ disk' = [d \in Staging!Directories |->
                    IF disk[d].made < clock - (StaleAfter + CleanupGrace) /\ \A f \in Files : kept[f] # d
                    THEN Staging!Unused ELSE disk[d]]
    BY DEF Staging!RemoveStale, Staging!Set, Staging!KeptFor
<1>2. r \in Staging!Caller /\ r.pc = "reserve" /\ r.file = caller[c].file /\ r.directory = 0
    BY <1>1, CallerFields DEF FilesInv, CallerSound, Staging!Caller, Staging!Steps
<1>3. /\ StaleAfter \in Nat /\ CleanupGrace \in Nat /\ StaleAfter + CleanupGrace \in Nat /\ clock \in Nat
      /\ MaxClock \in Nat
      /\ \A d \in Staging!Directories : disk[d].made \in Int /\ disk[d] \in Staging!Directory
    BY StagingConstants DEF FilesInv, FileTypes, Staging!Directory
<1>4. \A f \in Files : /\ kept[f] \in {0, cache[f]}
                       /\ kept[f] # 0 => kept[f] = cache[f] /\ cache[f] \in Staging!Directories /\ disk[cache[f]].whole
    BY <1>3, FromCache
<1>5. kept \in [Files -> 0..MaxDownloads]
    BY <1>3, FromCache, StagingConstants
<1> HIDE DEF r, kept
<1>6. \A e \in Callers : caller'[e] = IF e = c THEN r ELSE caller[e]
    BY <1>1, <1>2, OneCaller DEF FilesInv
<1>7. \A d \in Staging!Directories :
          disk'[d] = disk[d] \/ /\ disk'[d] = Staging!Unused /\ disk[d].made + StaleAfter + CleanupGrace < clock
                                /\ \A f \in Files : kept[f] # d
    BY <1>1, <1>3
<1>8. FileTypes'
    <2>1. Staging!Unused \in Staging!Directory
        BY <1>3 DEF Staging!Unused, Staging!Directory
    <2>2. disk' \in [Staging!Directories -> Staging!Directory]
        BY <1>1, <1>3, <2>1
    <2> QED BY <1>1, <1>2, <1>5, <2>2, OneCaller DEF FilesInv, FileTypes
<1>9. RoomInv'
    <2>1. /\ Downloads' = Downloads /\ InSlots' = InSlots /\ Undecided' = Undecided
        BY <1>1, <1>2, <1>6 DEF Downloads, InSlots, Undecided, Staging!SlotSteps
    <2>2. Staging!OnDisk' \subseteq Staging!OnDisk
        BY <1>7 DEF Staging!OnDisk
    <2> QED BY <1>1, <2>1, <2>2, RoomKept DEF FilesInv
<1>10. CacheInv'
    BY <1>1, <1>4, <1>7 DEF CacheInv
<1>11. WaitInv'
    BY <1>1, <1>2, <1>6 DEF FilesInv, WaitInv, AtWork
<1>12. ASSUME NEW e \in Callers PROVE CallerSound(e)'
    <2>1. CASE e = c
        BY <1>2, <1>6, <2>1 DEF CallerSound
    <2>2. CASE e # c
        <3> DEFINE d == caller[e].directory
        <3>1. d \in 0..MaxDownloads /\ caller[e].since \in Int /\ (d # 0 => d \in Staging!Directories)
            BY CallerFields DEF FilesInv, Staging!Directories
        <3>2. ASSUME caller[e].pc \in {"download", "publish"}, d # 0 PROVE OwnsWell(e)'
            <4>1. OwnsWell(e)
                BY <3>2 DEF FilesInv, CallerSound
            <4>2. clock <= disk[d].made + StaleAfter /\ disk[d].made \in Int
                BY <1>3, <3>1, <3>2, <4>1 DEF OwnsWell
            <4>3. ~(disk[d].made + StaleAfter + CleanupGrace < clock)
                BY <1>3, <4>2
            <4>4. disk'[d] = disk[d]
                BY <1>7, <3>1, <3>2, <4>3
            <4>5. \A f \in Files : cache'[f] # d
                BY <1>1, <1>4, <3>2, <4>1 DEF OwnsWell
            <4>6. \A x \in Callers : x # e => caller'[x].directory # d
                BY <1>2, <1>6, <3>2, <4>1 DEF OwnsWell
            <4> QED BY <1>1, <1>6, <2>2, <4>1, <4>4, <4>5, <4>6 DEF OwnsWell
        <3>3. ASSUME caller[e].pc = "use" PROVE UsesWell(e)'
            <4>1. UsesWell(e)
                BY <3>3 DEF FilesInv, CallerSound
            <4>2. /\ d # 0 /\ clock <= caller[e].since + CleanupGrace
                  /\ caller[e].since <= disk[d].made + StaleAfter /\ disk[d].made \in Int
                BY <1>3, <3>1, <4>1 DEF UsesWell
            <4>3. ~(disk[d].made + StaleAfter + CleanupGrace < clock)
                BY <1>3, <3>1, <4>2
            <4>4. disk'[d] = disk[d]
                BY <1>7, <3>1, <4>2, <4>3
            <4> QED BY <1>1, <1>6, <2>2, <4>1, <4>4 DEF UsesWell
        <3> QED BY <1>6, <2>2, <3>2, <3>3 DEF FilesInv, CallerSound
    <2> QED BY <2>1, <2>2
<1> QED BY <1>8, <1>9, <1>10, <1>11, <1>12 DEF FilesInv

\* A directory that is made is nobody else's.
LEMMA MakeDirectoryStep ==
    ASSUME FilesInv, NEW c \in Callers, Staging!MakeDirectory(c)
    PROVE  FilesInv'
<1>1. PICK d \in Staging!NextDirectory :
          /\ disk' = [disk EXCEPT ![d] = [made |-> clock, whole |-> FALSE]]
          /\ caller' = [caller EXCEPT ![c] = [caller[c] EXCEPT !.directory = d]]
    BY DEF Staging!MakeDirectory, Staging!Set
<1> DEFINE r == [caller[c] EXCEPT !.directory = d]
<1>2. /\ caller[c].pc = "download" /\ caller[c].directory = 0 /\ UNCHANGED <<clock, cache, inflight, reserved>>
      /\ d \in Staging!Directories /\ disk[d] = Staging!Unused /\ d # 0 /\ d \in 0..MaxDownloads
      /\ clock \in 0..MaxClock /\ clock \in Nat /\ StaleAfter \in Nat /\ MaxClock \in Nat
      /\ disk \in [Staging!Directories -> Staging!Directory]
    BY <1>1, StagingConstants DEF Staging!MakeDirectory, Staging!NextDirectory, Staging!Directories, FilesInv, FileTypes
<1>3. r \in Staging!Caller /\ r.pc = "download" /\ r.file = caller[c].file /\ r.directory = d
    BY <1>2, CallerFields DEF FilesInv, Staging!Caller
<1>4. \A e \in Callers : caller'[e] = IF e = c THEN r ELSE caller[e]
    BY <1>1, <1>3, OneCaller DEF FilesInv
<1> HIDE DEF r
<1>5. /\ disk'[d] = [made |-> clock, whole |-> FALSE]
      /\ \A x \in Staging!Directories : x # d => disk'[x] = disk[x]
    BY <1>1, <1>2
<1>6. ~disk[d].whole /\ disk[d].made = -1
    BY <1>2 DEF Staging!Unused
<1>7. FileTypes'
    <2>1. [made |-> clock, whole |-> FALSE] \in Staging!Directory
        BY <1>2 DEF Staging!Directory
    <2>2. disk' \in [Staging!Directories -> Staging!Directory]
        BY <1>1, <1>2, <2>1
    <2>3. caller' \in [Callers -> Staging!Caller]
        BY <1>1, <1>3, OneCaller DEF FilesInv, r
    <2> QED BY <1>2, <2>2, <2>3 DEF FilesInv, FileTypes
<1>8. \A f \in Files : cache[f] # d
    BY <1>2, <1>6 DEF FilesInv, CacheInv
<1>9. \A e \in Callers : caller[e].directory # d
    BY <1>2, <1>6 DEF FilesInv, CallerSound, OwnsWell, UsesWell, FileTypes, Staging!Caller, Staging!Steps
<1>10. RoomInv'
    <2>1. /\ Downloads' = Downloads /\ InSlots' = InSlots
        BY <1>2, <1>3, <1>4 DEF Downloads, InSlots
    <2>2. Undecided' = Undecided \ {c} /\ c \in Undecided
        BY <1>2, <1>3, <1>4 DEF Downloads, Undecided
    <2>3. Staging!OnDisk' = Staging!OnDisk \cup {d} /\ d \notin Staging!OnDisk
        <3>1. disk'[d] # Staging!Unused
            BY <1>2, <1>5 DEF Staging!Unused
        <3> QED BY <1>2, <1>5, <3>1 DEF Staging!OnDisk
    <2>4. /\ Cardinality(Undecided') = Cardinality(Undecided) - 1 /\ Cardinality(Undecided) \in Nat
          /\ Cardinality(Staging!OnDisk') = Cardinality(Staging!OnDisk) + 1 /\ Cardinality(Staging!OnDisk) \in Nat
        BY <2>2, <2>3, RoomFinite, OneMore, OneLess
    <2>5. Cardinality(Staging!OnDisk') + Cardinality(Undecided') <= MaxFiles
        BY <2>4, StagingConstants DEF FilesInv, RoomInv
    <2> QED BY <1>2, <2>1, <2>5 DEF FilesInv, RoomInv
<1>11. CacheInv'
    BY <1>2, <1>5, <1>8 DEF FilesInv, CacheInv, FileTypes, Staging!Directories
<1>12. WaitInv'
    BY <1>2, <1>3, <1>4 DEF FilesInv, WaitInv, AtWork
<1>13. ASSUME NEW e \in Callers PROVE CallerSound(e)'
    <2>1. CASE e = c
        <3>1. disk'[d].made = clock
            BY <1>5
        <3>2. disk'[d].made >= 0 /\ clock <= disk'[d].made + StaleAfter
            BY <1>2, <3>1
        <3>3. OwnsWell(c)'
            BY <1>2, <1>3, <1>4, <1>8, <1>9, <3>2 DEF OwnsWell
        <3> QED BY <1>3, <1>4, <2>1, <3>3 DEF CallerSound
    <2>2. CASE e # c
        <3>1. caller[e].directory \in 0..MaxDownloads /\ caller[e].directory # d
            BY <1>9, CallerFields DEF FilesInv
        <3>2. caller[e].directory # 0 => disk'[caller[e].directory] = disk[caller[e].directory]
            BY <1>5, <3>1 DEF Staging!Directories
        <3>3. caller[e].pc \in {"download", "publish"} /\ caller[e].directory # 0 => OwnsWell(e)'
            BY <1>2, <1>3, <1>4, <2>2, <3>1, <3>2 DEF FilesInv, CallerSound, OwnsWell
        <3>4. caller[e].pc = "use" => UsesWell(e)'
            BY <1>2, <1>4, <2>2, <3>2 DEF FilesInv, CallerSound, UsesWell
        <3> QED BY <1>4, <2>2, <3>3, <3>4 DEF FilesInv, CallerSound
    <2> QED BY <2>1, <2>2
<1> QED BY <1>7, <1>10, <1>11, <1>12, <1>13 DEF FilesInv

LEMMA CompleteStep ==
    ASSUME FilesInv, NEW c \in Callers, Staging!Complete(c)
    PROVE  FilesInv'
<1> DEFINE r == [caller[c] EXCEPT !.pc = "publish"]
           d == caller[c].directory
<1>1. /\ caller' = [caller EXCEPT ![c] = r] /\ caller[c].pc = "download" /\ d # 0 /\ reserved' = reserved - 1
      /\ disk' = [disk EXCEPT ![d] = [made |-> clock, whole |-> TRUE]] /\ UNCHANGED <<clock, cache, inflight>>
    BY DEF Staging!Complete, Staging!Set
<1>2. /\ d \in Staging!Directories /\ OwnsWell(c) /\ d \in 0..MaxDownloads
      /\ clock \in 0..MaxClock /\ clock \in Nat /\ StaleAfter \in Nat /\ MaxClock \in Nat
      /\ disk \in [Staging!Directories -> Staging!Directory]
    BY <1>1, CallerFields, StagingConstants DEF Staging!Directories, FilesInv, FileTypes, CallerSound
<1>3. r \in Staging!Caller /\ r.pc = "publish" /\ r.file = caller[c].file /\ r.directory = d
    BY CallerFields DEF FilesInv, Staging!Caller, Staging!Steps
<1>4. \A e \in Callers : caller'[e] = IF e = c THEN r ELSE caller[e]
    BY <1>1, <1>3, OneCaller DEF FilesInv
<1>5. /\ disk'[d] = [made |-> clock, whole |-> TRUE]
      /\ \A x \in Staging!Directories : x # d => disk'[x] = disk[x]
    BY <1>1, <1>2
<1>6. (\A f \in Files : cache[f] # d) /\ (\A e \in Callers : e # c => caller[e].directory # d)
    BY <1>2 DEF OwnsWell
<1>7. FileTypes'
    <2>1. [made |-> clock, whole |-> TRUE] \in Staging!Directory
        BY <1>2 DEF Staging!Directory
    <2>2. disk' \in [Staging!Directories -> Staging!Directory]
        BY <1>1, <1>2, <2>1
    <2> QED BY <1>1, <1>3, <2>2, OneCaller DEF FilesInv, FileTypes
<1>8. disk[d] # Staging!Unused
    BY <1>2 DEF OwnsWell, Staging!Unused
<1> HIDE DEF r, d
<1>9. RoomInv'
    <2>1. /\ Downloads' = Downloads \ {c} /\ InSlots' = InSlots \ {c} /\ c \in Downloads /\ c \in InSlots
        BY <1>1, <1>3, <1>4 DEF Downloads, InSlots, Staging!SlotSteps
    <2>2. Undecided' = Undecided
        BY <1>1, <1>3, <1>4 DEF Downloads, Undecided, d
    <2>3. Staging!OnDisk' = Staging!OnDisk
        <3>1. disk'[d] # Staging!Unused
            BY <1>5 DEF Staging!Unused
        <3> QED BY <1>2, <1>5, <1>8, <3>1 DEF Staging!OnDisk
    <2>4. /\ Cardinality(Downloads') = Cardinality(Downloads) - 1
          /\ Cardinality(InSlots') = Cardinality(InSlots) - 1 /\ Cardinality(InSlots) \in Nat
        BY <2>1, RoomFinite, OneLess
    <2>5. Cardinality(InSlots') <= Slots
        BY <2>4, StagingConstants DEF FilesInv, RoomInv
    <2> QED BY <1>1, <2>2, <2>3, <2>4, <2>5 DEF FilesInv, RoomInv
<1>10. CacheInv'
    BY <1>1, <1>5, <1>6 DEF FilesInv, CacheInv, FileTypes, Staging!Directories
<1>11. WaitInv'
    BY <1>1, <1>3, <1>4 DEF FilesInv, WaitInv, AtWork
<1>12. ASSUME NEW e \in Callers PROVE CallerSound(e)'
    <2>1. CASE e = c
        <3>1. disk'[d].made = clock /\ disk'[d].whole
            BY <1>5
        <3>2. disk'[d].made >= 0 /\ clock <= disk'[d].made + StaleAfter
            BY <1>2, <3>1
        <3>3. OwnsWell(c)'
            BY <1>1, <1>3, <1>4, <1>6, <3>1, <3>2 DEF OwnsWell
        <3> QED BY <1>3, <1>4, <2>1, <3>3 DEF CallerSound
    <2>2. CASE e # c
        <3>1. caller[e].directory \in 0..MaxDownloads /\ caller[e].directory # d
            BY <1>6, <2>2, CallerFields DEF FilesInv
        <3>2. caller[e].directory # 0 => disk'[caller[e].directory] = disk[caller[e].directory]
            BY <1>5, <3>1 DEF Staging!Directories
        <3>3. caller[e].pc \in {"download", "publish"} /\ caller[e].directory # 0 => OwnsWell(e)'
            BY <1>1, <1>3, <1>4, <2>2, <3>1, <3>2 DEF FilesInv, CallerSound, OwnsWell
        <3>4. caller[e].pc = "use" => UsesWell(e)'
            BY <1>1, <1>4, <2>2, <3>2 DEF FilesInv, CallerSound, UsesWell
        <3> QED BY <1>4, <2>2, <3>3, <3>4 DEF FilesInv, CallerSound
    <2> QED BY <2>1, <2>2
<1> QED BY <1>7, <1>9, <1>10, <1>11, <1>12 DEF FilesInv

LEMMA FailStep ==
    ASSUME FilesInv, NEW c \in Callers, Staging!Fail(c)
    PROVE  FilesInv'
<1> DEFINE r == [caller[c] EXCEPT !.pc = "publish", !.directory = 0]
           d == caller[c].directory
<1>1. /\ caller' = [caller EXCEPT ![c] = r] /\ caller[c].pc \in {"queue", "clean", "reserve", "download"}
      /\ reserved' = IF caller[c].pc = "download" THEN reserved - 1 ELSE reserved
      /\ disk' = [x \in Staging!Directories |-> IF x = d THEN Staging!Unused ELSE disk[x]]
      /\ UNCHANGED <<clock, cache, inflight>>
    BY DEF Staging!Fail, Staging!Set
<1>2. /\ d # 0 => OwnsWell(c)
      /\ clock \in 0..MaxClock /\ MaxClock \in Nat /\ MaxDownloads \in Nat
      /\ disk \in [Staging!Directories -> Staging!Directory]
    BY <1>1, StagingConstants DEF FilesInv, FileTypes, CallerSound
<1>3. r \in Staging!Caller /\ r.pc = "publish" /\ r.file = caller[c].file /\ r.directory = 0
    <2>1. caller[c] \in Staging!Caller
        BY CallerFields DEF FilesInv
    <2>2. /\ r \in [pc: {"publish"}, file: Files, directory: {0}, since: 0..MaxClock]
          /\ r.pc = "publish" /\ r.file = caller[c].file /\ r.directory = 0
        BY <2>1 DEF Staging!Caller
    <2> HIDE DEF r
    <2> QED BY <1>2, <2>2 DEF Staging!Caller, Staging!Steps
<1>4. \A e \in Callers : caller'[e] = IF e = c THEN r ELSE caller[e]
    BY <1>1, <1>3, OneCaller DEF FilesInv
<1>5. \A x \in Staging!Directories : x # d => disk'[x] = disk[x]
    BY <1>1
<1>6. d # 0 => (\A f \in Files : cache[f] # d) /\ (\A e \in Callers : e # c => caller[e].directory # d)
    BY <1>2 DEF OwnsWell
<1>7. FileTypes'
    <2>1. Staging!Unused \in Staging!Directory
        BY <1>2 DEF Staging!Directory, Staging!Unused
    <2>2. disk' \in [Staging!Directories -> Staging!Directory]
        BY <1>1, <1>2, <2>1
    <2> QED BY <1>1, <1>3, <2>2, OneCaller DEF FilesInv, FileTypes
<1> HIDE DEF r
<1>8. RoomInv'
    <2>1. InSlots' \subseteq InSlots /\ Undecided' \subseteq Undecided
        BY <1>1, <1>3, <1>4 DEF Downloads, Undecided, InSlots, Staging!SlotSteps
    <2>2. Staging!OnDisk' \subseteq Staging!OnDisk
        BY <1>1, <1>5 DEF Staging!OnDisk
    <2>3. CASE caller[c].pc = "download"
        <3>1. Downloads' = Downloads \ {c} /\ c \in Downloads
            BY <1>3, <1>4, <2>3 DEF Downloads
        <3>2. reserved' = Cardinality(Downloads')
            BY <1>1, <2>3, <3>1, RoomFinite, OneLess DEF FilesInv, RoomInv
        <3>3. /\ Cardinality(InSlots') \in Nat /\ Cardinality(InSlots') <= Cardinality(InSlots)
              /\ Cardinality(Undecided') \in Nat /\ Cardinality(Undecided') <= Cardinality(Undecided)
              /\ Cardinality(Staging!OnDisk') \in Nat /\ Cardinality(Staging!OnDisk') <= Cardinality(Staging!OnDisk)
            BY <2>1, <2>2, RoomFinite, SmallerRoom
        <3>4. /\ Cardinality(InSlots') <= Slots
              /\ Cardinality(Staging!OnDisk') + Cardinality(Undecided') <= MaxFiles
            BY <3>3, RoomFinite, StagingConstants DEF FilesInv, RoomInv
        <3> QED BY <3>2, <3>4 DEF RoomInv
    <2>4. CASE caller[c].pc # "download"
        <3>1. Downloads' = Downloads
            BY <1>3, <1>4, <2>4 DEF Downloads
        <3> QED BY <1>1, <2>1, <2>2, <2>4, <3>1, RoomKept DEF FilesInv
    <2> QED BY <2>3, <2>4
<1>9. CacheInv'
    BY <1>1, <1>5, <1>6 DEF FilesInv, CacheInv, FileTypes, Staging!Directories
<1>10. WaitInv'
    BY <1>1, <1>3, <1>4 DEF FilesInv, WaitInv, AtWork
<1>11. ASSUME NEW e \in Callers PROVE CallerSound(e)'
    <2>1. CASE e = c
        BY <1>3, <1>4, <2>1 DEF CallerSound
    <2>2. CASE e # c
        <3>1. caller[e].directory \in 0..MaxDownloads /\ (d # 0 => caller[e].directory # d)
            BY <1>6, <2>2, CallerFields DEF FilesInv
        <3>2. caller[e].directory # 0 => disk'[caller[e].directory] = disk[caller[e].directory]
            BY <1>5, <3>1 DEF Staging!Directories
        <3> HIDE DEF d
        <3>3. caller[e].pc \in {"download", "publish"} /\ caller[e].directory # 0 => OwnsWell(e)'
            BY <1>1, <1>3, <1>4, <2>2, <3>1, <3>2 DEF FilesInv, CallerSound, OwnsWell
        <3>4. caller[e].pc = "use" => UsesWell(e)'
            BY <1>1, <1>4, <2>2, <3>2 DEF FilesInv, CallerSound, UsesWell
        <3> QED BY <1>4, <2>2, <3>3, <3>4 DEF FilesInv, CallerSound
    <2> QED BY <2>1, <2>2
<1> QED BY <1>7, <1>8, <1>9, <1>10, <1>11 DEF FilesInv

\* What was downloaded is given to the cache and to all who waited for it.
LEMMA FinishStep ==
    ASSUME FilesInv, NEW c \in Callers, Staging!Finish(c)
    PROVE  FilesInv'
<1> DEFINE d == caller[c].directory
           f == caller[c].file
           Served(e) == e = c \/ (caller[e].pc = "wait" /\ caller[e].file = f)
<1>1. PICK r : /\ r = IF d = 0 THEN Staging!Done ELSE [caller[c] EXCEPT !.pc = "use", !.since = clock]
               /\ caller' = [e \in Callers |-> IF Served(e) THEN r ELSE caller[e]]
    BY DEF Staging!Finish
<1>2. /\ caller[c].pc = "publish" /\ cache' = (IF d = 0 THEN cache ELSE [cache EXCEPT ![f] = d])
      /\ inflight' = inflight \ {f} /\ UNCHANGED <<clock, reserved, disk>>
    BY DEF Staging!Finish
<1>3. /\ d # 0 => OwnsWell(c) /\ disk[d].whole
      /\ clock \in 0..MaxClock /\ MaxClock \in Nat /\ CleanupGrace \in Nat /\ StaleAfter \in Nat
      /\ d \in 0..MaxDownloads /\ f \in Files
    BY <1>2, CallerFields, StagingConstants DEF FilesInv, FileTypes, CallerSound, OwnsWell
<1>4. /\ r \in Staging!Caller
      /\ \/ d = 0 /\ r.pc = "idle" /\ r.directory = 0
         \/ d # 0 /\ r.pc = "use" /\ r.directory = d /\ r.since = clock
    <2>1. CASE d = 0
        BY <1>1, <2>1, DoneCaller
    <2>2. CASE d # 0
        BY <1>1, <1>3, <2>2, CallerFields DEF FilesInv, Staging!Caller, Staging!Steps
    <2> QED BY <2>1, <2>2
<1>5. \A e \in Callers : caller'[e] = IF Served(e) THEN r ELSE caller[e]
    BY <1>1
<1>6. \A e \in Callers : Served(e) => caller[e].pc \in {"publish", "wait"}
    BY <1>2
<1>7. FileTypes'
    <2>1. cache' \in [Files -> 0..MaxDownloads]
        BY <1>2, <1>3 DEF FilesInv, FileTypes
    <2>2. caller' \in [Callers -> Staging!Caller]
        BY <1>1, <1>4, CallerFields DEF FilesInv
    <2>3. inflight' \subseteq Files
        BY <1>2 DEF FilesInv, FileTypes
    <2> QED BY <1>2, <2>1, <2>2, <2>3 DEF FilesInv, FileTypes
<1>8. Served(c)
    OBVIOUS
<1> HIDE DEF d
<1>9. RoomInv'
    <2>1. /\ Downloads' = Downloads /\ InSlots' = InSlots /\ Undecided' = Undecided
        BY <1>4, <1>5, <1>6 DEF Downloads, InSlots, Undecided, Staging!SlotSteps
    <2>2. Staging!OnDisk' = Staging!OnDisk
        BY <1>2 DEF Staging!OnDisk
    <2> QED BY <1>2, <2>1, <2>2, RoomKept DEF FilesInv
<1>10. \A g \in Files : cache'[g] = cache[g] \/ (cache'[g] = d /\ d # 0)
    BY <1>2 DEF FilesInv, FileTypes
<1>11. CacheInv'
    BY <1>2, <1>3, <1>10 DEF FilesInv, CacheInv
<1>12. WaitInv'
    <2>1. ASSUME NEW e \in Callers, caller'[e].pc = "wait" PROVE caller'[e].file \in inflight'
        BY <1>2, <1>4, <1>5, <2>1 DEF FilesInv, WaitInv
    <2>2. ASSUME NEW g \in inflight' PROVE AtWork(g)'
        <3>1. g \in inflight /\ g # f
            BY <1>2
        <3>2. PICK e \in Callers : caller[e].file = g /\ caller[e].pc \notin {"idle", "wait", "use"}
            BY <3>1 DEF FilesInv, WaitInv, AtWork
        <3>3. ~Served(e)
            BY <3>1, <3>2
        <3> QED BY <1>5, <3>2, <3>3 DEF AtWork
    <2> QED BY <2>1, <2>2 DEF WaitInv
<1>13. ASSUME NEW e \in Callers PROVE CallerSound(e)'
    <2>1. CASE Served(e)
        <3>1. caller'[e] = r
            BY <1>5, <2>1
        <3>2. CASE d = 0
            BY <1>4, <3>1, <3>2 DEF CallerSound
        <3>3. CASE d # 0
            <4>1. clock <= r.since + CleanupGrace /\ r.since <= disk[d].made + StaleAfter
                BY <1>3, <1>4, <3>3 DEF OwnsWell, d
            <4>2. UsesWell(e)'
                BY <1>2, <1>3, <1>4, <3>1, <3>3, <4>1 DEF UsesWell
            <4> QED BY <1>4, <3>1, <3>3, <4>2 DEF CallerSound
        <3> QED BY <3>2, <3>3
    <2>2. CASE ~Served(e)
        <3>1. caller'[e] = caller[e] /\ e # c
            BY <1>5, <1>8, <2>2
        <3>2. ASSUME caller[e].pc \in {"download", "publish"}, caller[e].directory # 0 PROVE OwnsWell(e)'
            <4>1. OwnsWell(e)
                BY <3>2 DEF FilesInv, CallerSound
            <4>2. caller[e].directory # d
                BY <3>1, <4>1 DEF OwnsWell, d
            <4>3. \A x \in Callers : x # e => caller'[x].directory # caller[e].directory
                BY <1>4, <1>5, <3>2, <4>1, <4>2 DEF OwnsWell
            <4>4. \A g \in Files : cache'[g] # caller[e].directory
                BY <1>10, <4>1, <4>2 DEF OwnsWell
            <4> QED BY <1>2, <3>1, <4>1, <4>3, <4>4 DEF OwnsWell
        <3>3. caller[e].pc = "use" => UsesWell(e)'
            BY <1>2, <3>1 DEF FilesInv, CallerSound, UsesWell
        <3> QED BY <3>1, <3>2, <3>3 DEF FilesInv, CallerSound
    <2> QED BY <2>1, <2>2
<1> QED BY <1>7, <1>9, <1>11, <1>12, <1>13 DEF FilesInv

LEMMA PassClockStep ==
    ASSUME FilesInv, Staging!PassClock
    PROVE  FilesInv'
<1>1. /\ clock < MaxClock /\ clock' = clock + 1 /\ UNCHANGED <<caller, cache, inflight, reserved, disk>>
      /\ clock \in 0..MaxClock /\ MaxClock \in Nat /\ CleanupGrace \in Nat /\ StaleAfter \in Nat
    BY StagingConstants DEF Staging!PassClock, FilesInv, FileTypes
<1>2. FileTypes'
    BY <1>1 DEF FilesInv, FileTypes
<1>3. RoomInv' /\ CacheInv' /\ WaitInv'
    BY <1>1 DEF FilesInv, RoomInv, Downloads, InSlots, Undecided, Staging!OnDisk, CacheInv, WaitInv, AtWork
<1>4. ASSUME NEW c \in Callers PROVE CallerSound(c)'
    <2> DEFINE d == caller[c].directory
    <2>1. /\ caller[c].since \in Int /\ d \in 0..MaxDownloads
          /\ d # 0 => disk[d].made \in Int
        BY CallerFields DEF FilesInv, FileTypes, Staging!Caller, Staging!Directory, Staging!Directories
    <2>2. ASSUME caller[c].pc \in {"download", "publish"}, d # 0 PROVE OwnsWell(c)'
        <3>1. clock < disk[d].made + StaleAfter /\ OwnsWell(c)
            BY <2>2 DEF Staging!PassClock, FilesInv, CallerSound
        <3>2. clock' <= disk[d].made + StaleAfter
            BY <1>1, <2>1, <2>2, <3>1
        <3> QED BY <1>1, <3>1, <3>2 DEF OwnsWell
    <2>3. ASSUME caller[c].pc = "use" PROVE UsesWell(c)'
        <3>1. clock < caller[c].since + CleanupGrace /\ UsesWell(c)
            BY <2>3 DEF Staging!PassClock, FilesInv, CallerSound
        <3>2. clock' <= caller[c].since + CleanupGrace
            BY <1>1, <2>1, <3>1
        <3> QED BY <1>1, <3>1, <3>2 DEF UsesWell
    <2> QED BY <1>1, <2>2, <2>3 DEF FilesInv, CallerSound
<1> QED BY <1>2, <1>3, <1>4 DEF FilesInv

LEMMA ForgetStagingStep ==
    ASSUME FilesInv, Staging!ForgetStaging
    PROVE  FilesInv'
<1>1. /\ caller' = [c \in Callers |-> Staging!Done] /\ inflight' = {} /\ reserved' = 0
      /\ cache' = [f \in Files |-> 0] /\ UNCHANGED <<clock, disk>>
    BY DEF Staging!ForgetStaging
<1>2. FileTypes'
    BY <1>1, DoneCaller, StagingConstants DEF FilesInv, FileTypes
<1>3. RoomInv'
    <2>1. Downloads' = {} /\ InSlots' = {} /\ Undecided' = {} /\ Staging!OnDisk' = Staging!OnDisk
        BY <1>1, DoneCaller DEF Downloads, InSlots, Undecided, Staging!SlotSteps, Staging!OnDisk
    <2>2. Cardinality(Downloads') = 0 /\ Cardinality(InSlots') = 0 /\ Cardinality(Undecided') = 0
        BY <2>1, FS_EmptySet
    <2>3. Cardinality(Staging!OnDisk) <= MaxFiles
        BY RoomFinite, StagingConstants DEF FilesInv, RoomInv
    <2> QED BY <1>1, <2>1, <2>2, <2>3, RoomFinite, StagingConstants DEF RoomInv
<1>4. CacheInv' /\ WaitInv'
    BY <1>1, DoneCaller DEF CacheInv, WaitInv
<1>5. \A c \in Callers : CallerSound(c)'
    BY <1>1, DoneCaller DEF CallerSound
<1> QED BY <1>2, <1>3, <1>4, <1>5 DEF FilesInv

LEMMA FilesBegin == BotInit => FilesInv
<1> SUFFICES ASSUME BotInit PROVE FilesInv
    OBVIOUS
<1>1. /\ clock = 0 /\ caller = [c \in Callers |-> Staging!Done] /\ cache = [f \in Files |-> 0]
      /\ inflight = {} /\ reserved = 0 /\ disk = [d \in Staging!Directories |-> Staging!Unused]
    BY DEF BotInit, Staging!StagingInit
<1>2. FileTypes
    BY <1>1, DoneCaller, StagingConstants DEF FileTypes, Staging!Directory, Staging!Unused
<1>3. RoomInv
    <2>1. Downloads = {} /\ InSlots = {} /\ Undecided = {} /\ Staging!OnDisk = {}
        BY <1>1, DoneCaller DEF Downloads, InSlots, Undecided, Staging!SlotSteps, Staging!OnDisk
    <2>2. /\ Cardinality(Downloads) = 0 /\ Cardinality(InSlots) = 0 /\ Cardinality(Undecided) = 0
          /\ Cardinality(Staging!OnDisk) = 0
        BY <2>1, FS_EmptySet
    <2> QED BY <1>1, <2>2, StagingConstants DEF RoomInv
<1>4. CacheInv /\ WaitInv
    BY <1>1, DoneCaller DEF CacheInv, WaitInv
<1>5. \A c \in Callers : CallerSound(c)
    BY <1>1, DoneCaller DEF CallerSound
<1> QED BY <1>2, <1>3, <1>4, <1>5 DEF FilesInv

LEMMA FilesInvHolds == BotSpec => []FilesInv
<1>1. FilesInv /\ [BotNext]_botVars => FilesInv'
    <2> SUFFICES ASSUME FilesInv, [BotNext]_botVars PROVE FilesInv'
        OBVIOUS
    <2>1. CASE UNCHANGED staging
        BY <2>1 DEF staging, FilesInv, FileTypes, RoomInv, Downloads, InSlots, Undecided, Staging!OnDisk,
                    CacheInv, WaitInv, AtWork, CallerSound, OwnsWell, UsesWell
    <2>2. CASE Staging!StagingNext
        BY <2>2, CachedOrBeginStep, StopWaitingStep, TakeSlotStep, RemoveStaleStep, ReserveStep,
           MakeDirectoryStep, CompleteStep, FailStep, FinishStep, PassClockStep DEF Staging!StagingNext
    <2> QED BY <2>1, <2>2, ForgetStagingStep, StepsOfParts
<1> QED BY <1>1, FilesBegin, PTL DEF BotSpec

\* A file that was handed out is whole and in its place for as long as its upload may
\* take, the directory never holds more files than it may, and nobody waits for a
\* download that nobody works on: Stage, removeStale, reserveStagingCapacity, finish.
THEOREM BotKeepsFiles == BotSpec => []FilesAreKept
<1>1. ASSUME FilesInv PROVE FilesAreKept
    <2>1. Staging!StagingTypeOK
        <3>1. /\ reserved = Cardinality(Downloads) /\ Cardinality(Downloads) \in Nat
              /\ Cardinality(Downloads) <= Cardinality(InSlots) /\ Cardinality(InSlots) \in Nat
              /\ Cardinality(InSlots) <= Slots
            BY <1>1, RoomFinite DEF FilesInv, RoomInv
        <3>2. reserved \in 0..Slots
            BY <3>1, StagingConstants
        <3> QED BY <1>1, <3>2 DEF FilesInv, FileTypes, Staging!StagingTypeOK
    <2>2. Staging!HandedOutStays
        BY <1>1 DEF FilesInv, CallerSound, UsesWell, Staging!HandedOutStays
    <2>3. Staging!DirectoryStaysSmall
        <3>1. Cardinality(Staging!OnDisk) <= MaxFiles
            BY <1>1, RoomFinite, StagingConstants DEF FilesInv, RoomInv
        <3>2. Staging!Cardinality(Staging!OnDisk) <= MaxFiles
            BY <3>1, OneCardinality
        <3> QED BY <1>1, <3>2 DEF FilesInv, WaitInv, AtWork, Staging!DirectoryStaysSmall
    <2> QED BY <2>1, <2>2, <2>3 DEF FilesAreKept
<1> QED BY <1>1, FilesInvHolds, PTL

(***************************************************************************)
(* The telemetry: every observation is accounted for, an answer of the     *)
(* analytics page counts no event twice and leaves out none that was       *)
(* stored in time, and no event is purged before a daily row took it over. *)
(*                                                                         *)
(* Counts are sums over finite sets of events.  What a sum does when its   *)
(* set or its summands grow is proved first, by well-founded induction     *)
(* over the subsets of a finite set.                                       *)
(***************************************************************************)

(***************************************************************************)
(* Sums over finite sets.                                                  *)
(***************************************************************************)

First(s) == CHOOSE x \in s : TRUE

\* g is what the sums of f over the subsets of S are.
Summing(f, S, g) ==
    \A s \in SUBSET S : g[s] = IF s = {} THEN 0 ELSE f[First(s)] + g[s \ {First(s)}]

Sums(f, S) ==
    CHOOSE g : g = [s \in SUBSET S |-> IF s = {} THEN 0 ELSE f[First(s)] + g[s \ {First(s)}]]

Total(f, S) == Metrics!SumFunctionOnSet(f, S)

LEMMA TotalIsSum ==
    ASSUME NEW f, NEW S
    PROVE  Total(f, S) = Sums(f, S)[S]
BY DEF Total, Metrics!SumFunctionOnSet, Metrics!FoldFunctionOnSet, Metrics!MapThenFoldSet, Sums, First

\* What holds of a set as soon as it holds of its smaller subsets holds of all
\* subsets of a finite set.
LEMMA SubsetInduction ==
    ASSUME NEW E, IsFiniteSet(E), NEW T,
           \A s \in SUBSET E : (\A u \in SUBSET s : u # s => u \in T) => s \in T
    PROVE  SUBSET E \subseteq T
<1> SUFFICES ASSUME ~(SUBSET E \subseteq T) PROVE FALSE
    OBVIOUS
<1>1. IsWellFoundedOn(StrictSubsetOrdering(E), SUBSET E)
    <2>1. IsWellFoundedOn(StrictSubsetOrdering(E), FiniteSubsetsOf(E))
        BY FS_StrictSubsetOrderingWellFounded, Zenon
    <2>2. FiniteSubsetsOf(E) = SUBSET E
        BY FS_FiniteSubsetsOfFinite
    <2> QED BY <2>1, <2>2
<1> DEFINE B == (SUBSET E) \ T
<1>2. \E s \in B : \A u \in B : <<u, s>> \notin StrictSubsetOrdering(E)
    <2>1. B \subseteq SUBSET E /\ B # {}
        OBVIOUS
    <2> HIDE DEF B
    <2> QED BY <1>1, <2>1, WFMin
<1> QED BY <1>2 DEF StrictSubsetOrdering

LEMMA SumsUnique ==
    ASSUME NEW S, IsFiniteSet(S), NEW U \in SUBSET S, NEW f, NEW g, NEW h,
           Summing(f, S, g), Summing(f, U, h)
    PROVE  \A u \in SUBSET U : g[u] = h[u]
<1> DEFINE T == {u \in SUBSET U : g[u] = h[u]}
<1>1. ASSUME NEW s \in SUBSET U, \A u \in SUBSET s : u # s => u \in T
      PROVE  s \in T
    <2>1. s \in SUBSET S
        OBVIOUS
    <2>2. CASE s = {}
        BY <2>1, <2>2 DEF Summing
    <2>3. CASE s # {}
        <3>1. First(s) \in s
            BY <2>3 DEF First
        <3>2. g[s \ {First(s)}] = h[s \ {First(s)}]
            BY <1>1, <3>1
        <3> QED BY <2>1, <2>3, <3>2 DEF Summing
    <2> QED BY <2>2, <2>3
<1>2. IsFiniteSet(U)
    BY FS_Subset
<1> HIDE DEF T
<1>3. \A s \in SUBSET U : (\A u \in SUBSET s : u # s => u \in T) => s \in T
    BY <1>1
<1>4. SUBSET U \subseteq T
    BY <1>2, <1>3, SubsetInduction
<1> QED BY <1>4 DEF T

LEMMA SumsExist ==
    ASSUME NEW E, IsFiniteSet(E), NEW f, \A x \in E : f[x] \in Nat
    PROVE  Sums(f, E) \in [SUBSET E -> Nat] /\ Summing(f, E, Sums(f, E))
<1>0. \A s \in SUBSET E : s # {} =>
        /\ First(s) \in s /\ First(s) \in E /\ f[First(s)] \in Nat
        /\ s \ {First(s)} \in SUBSET s /\ s \ {First(s)} # s
    BY DEF First
<1>1. \A S \in SUBSET E : IsFiniteSet(S)
    BY FS_Subset
<1> DEFINE G(s) == CHOOSE g \in [SUBSET s -> Nat] : Summing(f, s, g)
           T == {s \in SUBSET E : \E g \in [SUBSET s -> Nat] : Summing(f, s, g)}
<1>2. ASSUME NEW s \in SUBSET E, \A u \in SUBSET s : u # s => u \in T
      PROVE  s \in T
    <2>1. \A u \in SUBSET s : u # s =>
            G(u) \in [SUBSET u -> Nat] /\ Summing(f, u, G(u)) /\ u \in SUBSET u /\ G(u)[u] \in Nat
        BY <1>2
    <2> DEFINE top == IF s = {} THEN 0 ELSE f[First(s)] + G(s \ {First(s)})[s \ {First(s)}]
               g == [u \in SUBSET s |-> IF u = s THEN top ELSE G(u)[u]]
    <2> HIDE DEF G
    <2>2. top \in Nat
        <3>1. CASE s = {}
            BY <3>1
        <3>2. CASE s # {}
            <4>1. f[First(s)] \in Nat /\ G(s \ {First(s)})[s \ {First(s)}] \in Nat
                BY <1>0, <2>1, <3>2
            <4> QED BY <3>2, <4>1
        <3> QED BY <3>1, <3>2
    <2>3. g \in [SUBSET s -> Nat]
        <3> HIDE DEF top
        <3> QED BY <2>1, <2>2
    <2>4. ASSUME NEW u \in SUBSET s
          PROVE  g[u] = IF u = {} THEN 0 ELSE f[First(u)] + g[u \ {First(u)}]
        <3>1. CASE u = s
            BY <1>0, <3>1
        <3>2. CASE u # s
            <4> DEFINE v == u \ {First(u)}
            <4>1. g[u] = G(u)[u] /\ Summing(f, u, G(u)) /\ G(u) \in [SUBSET u -> Nat]
                BY <2>1, <3>2
            <4>2. CASE u = {}
                BY <4>1, <4>2 DEF Summing
            <4>3. CASE u # {}
                <5>1. v \in SUBSET u /\ v \in SUBSET s /\ v # s /\ u \in SUBSET E
                    BY <1>0, <3>2, <4>3
                <5> HIDE DEF v
                <5>2. g[v] = G(v)[v] /\ Summing(f, v, G(v)) /\ G(v) \in [SUBSET v -> Nat]
                    BY <2>1, <5>1
                <5>3. G(u)[v] = G(v)[v]
                    <6> DEFINE gu == G(u)
                               gv == G(v)
                    <6>1. u \in SUBSET E /\ v \in SUBSET u /\ Summing(f, u, gu) /\ Summing(f, v, gv)
                        BY <4>1, <5>1, <5>2
                    <6> HIDE DEF gu, gv
                    <6>2. IsFiniteSet(u)
                        BY <1>1, <6>1
                    <6>3. \A x \in SUBSET v : gu[x] = gv[x]
                        BY <6>1, <6>2, SumsUnique
                    <6> QED BY <6>3 DEF gu, gv
                <5>4. G(u)[u] = f[First(u)] + G(u)[v]
                    BY <4>1, <4>3 DEF Summing, v
                <5> QED BY <4>1, <4>3, <5>2, <5>3, <5>4 DEF v
            <4> QED BY <4>2, <4>3
        <3> QED BY <3>1, <3>2
    <2> HIDE DEF g
    <2> QED BY <2>3, <2>4 DEF Summing
<1>3. E \in T
    <2> HIDE DEF T
    <2> QED BY <1>2, SubsetInduction
<1>4. PICK g \in [SUBSET E -> Nat] : Summing(f, E, g)
    BY <1>3
<1>5. g = [s \in SUBSET E |-> IF s = {} THEN 0 ELSE f[First(s)] + g[s \ {First(s)}]]
    BY <1>4 DEF Summing
<1> DEFINE h == Sums(f, E)
<1>6. h = [s \in SUBSET E |-> IF s = {} THEN 0 ELSE f[First(s)] + h[s \ {First(s)}]]
    BY <1>5 DEF Sums
<1> HIDE DEF h
<1>7. Summing(f, E, h)
    BY <1>6 DEF Summing
<1>8. \A u \in SUBSET E : h[u] = g[u]
    BY <1>4, <1>7, SumsUnique
<1>9. h \in [SUBSET E -> Nat]
    BY <1>4, <1>6, <1>8
<1> QED BY <1>7, <1>9 DEF h

\* The sum over a set is that over the set without one of its elements, and that
\* element.
LEMMA TotalUnfolds ==
    ASSUME NEW E, IsFiniteSet(E), NEW f, \A x \in E : f[x] \in Nat
    PROVE  \A s \in SUBSET E :
             /\ Total(f, s) \in Nat
             /\ Total(f, s) = IF s = {} THEN 0 ELSE f[First(s)] + Total(f, s \ {First(s)})
<1> DEFINE g == Sums(f, E)
<1>1. g \in [SUBSET E -> Nat] /\ Summing(f, E, g)
    BY SumsExist
<1> HIDE DEF g
<1>2. ASSUME NEW s \in SUBSET E PROVE Total(f, s) = g[s]
    <2> DEFINE h == Sums(f, s)
    <2>1. IsFiniteSet(s) /\ \A x \in s : f[x] \in Nat
        BY FS_Subset
    <2>2. Summing(f, s, h)
        BY <2>1, SumsExist
    <2>3. Total(f, s) = h[s] /\ s \in SUBSET s
        BY TotalIsSum
    <2> HIDE DEF h
    <2>4. \A u \in SUBSET s : g[u] = h[u]
        BY <1>1, <2>2, SumsUnique
    <2> QED BY <2>3, <2>4
<1>3. ASSUME NEW s \in SUBSET E
      PROVE  Total(f, s) = IF s = {} THEN 0 ELSE f[First(s)] + Total(f, s \ {First(s)})
    <2>1. s \ {First(s)} \in SUBSET E
        OBVIOUS
    <2> QED BY <1>1, <1>2, <2>1 DEF Summing
<1> QED BY <1>1, <1>2, <1>3

LEMMA TotalWithout ==
    ASSUME NEW E, IsFiniteSet(E), NEW f, \A x \in E : f[x] \in Nat
    PROVE  \A s \in SUBSET E : \A x \in s : Total(f, s) = f[x] + Total(f, s \ {x})
<1> DEFINE T == {s \in SUBSET E : \A x \in s : Total(f, s) = f[x] + Total(f, s \ {x})}
<1>1. ASSUME NEW s \in SUBSET E, \A u \in SUBSET s : u # s => u \in T, NEW x \in s
      PROVE  Total(f, s) = f[x] + Total(f, s \ {x})
    <2> DEFINE y == First(s)
               sy == s \ {y}
               sx == s \ {x}
               rest == s \ {x, y}
    <2>1. y \in s /\ Total(f, s) = f[y] + Total(f, sy)
        <3>1. y \in s /\ s # {}
            BY DEF First
        <3>2. Total(f, s) = IF s = {} THEN 0 ELSE f[First(s)] + Total(f, s \ {First(s)})
            BY TotalUnfolds
        <3> QED BY <3>1, <3>2
    <2>2. CASE x = y
        BY <2>1, <2>2
    <2>3. CASE x # y
        <3>1. sy \in T /\ sx \in T
            BY <1>1, <2>1
        <3>2. x \in sy /\ y \in sx /\ sy \ {x} = rest /\ sx \ {y} = rest
            BY <2>1, <2>3
        <3>3. Total(f, sy) = f[x] + Total(f, rest) /\ Total(f, sx) = f[y] + Total(f, rest)
            BY <3>1, <3>2
        <3>4. rest \in SUBSET E /\ f[x] \in Nat /\ f[y] \in Nat
            BY <2>1
        <3> HIDE DEF y, sy, sx, rest
        <3>5. Total(f, rest) \in Nat
            BY <3>4, TotalUnfolds
        <3>6. Total(f, s) = f[x] + Total(f, sx)
            BY <2>1, <3>3, <3>4, <3>5
        <3> QED BY <3>6 DEF sx
    <2> QED BY <2>2, <2>3
<1>2. \A s \in SUBSET E : (\A u \in SUBSET s : u # s => u \in T) => s \in T
    BY <1>1
<1> HIDE DEF T
<1>3. SUBSET E \subseteq T
    BY <1>2, SubsetInduction
<1> QED BY <1>3 DEF T

\* A sum grows with its summands and with its set.
LEMMA TotalGrows ==
    ASSUME NEW E, IsFiniteSet(E), NEW f, NEW g,
           \A x \in E : f[x] \in Nat /\ g[x] \in Nat /\ f[x] <= g[x]
    PROVE  \A u \in SUBSET E : \A s \in SUBSET u : Total(f, s) <= Total(g, u)
<1> DEFINE T == {u \in SUBSET E : \A s \in SUBSET u : Total(f, s) <= Total(g, u)}
<1>0. /\ \A s \in SUBSET E : Total(f, s) \in Nat /\ Total(g, s) \in Nat
      /\ Total(f, {}) = 0
    BY TotalUnfolds
<1>1. ASSUME NEW u \in SUBSET E, \A v \in SUBSET u : v # u => v \in T, NEW s \in SUBSET u
      PROVE  Total(f, s) <= Total(g, u)
    <2>1. CASE u = {}
        BY <1>0, <2>1
    <2>2. CASE u # {}
        <3>1. PICK x \in u : TRUE
            BY <2>2
        <3> DEFINE v == u \ {x}
                   r == s \ {x}
        <3>2. v \in T /\ r \in SUBSET v /\ v \in SUBSET E /\ r \in SUBSET E /\ s \in SUBSET E
            BY <1>1, <3>1
        <3>3. Total(f, r) <= Total(g, v)
            BY <3>2
        <3>4. Total(g, u) = g[x] + Total(g, v)
            BY <3>1, TotalWithout
        <3>5. x \in s => Total(f, s) = f[x] + Total(f, r)
            BY <3>2, TotalWithout
        <3>6. x \notin s => r = s
            OBVIOUS
        <3>7. Total(f, r) \in Nat /\ Total(g, v) \in Nat /\ f[x] \in Nat /\ g[x] \in Nat /\ f[x] <= g[x]
            BY <1>0, <3>1, <3>2
        <3> HIDE DEF v, r
        <3> QED BY <3>3, <3>4, <3>5, <3>6, <3>7
    <2> QED BY <2>1, <2>2
<1>2. \A u \in SUBSET E : (\A v \in SUBSET u : v # u => v \in T) => u \in T
    BY <1>1
<1> HIDE DEF T
<1>3. SUBSET E \subseteq T
    BY <1>2, SubsetInduction
<1> QED BY <1>3 DEF T

\* A sum is at least the number of the elements that count.
LEMMA TotalCounts ==
    ASSUME NEW E, IsFiniteSet(E), NEW f, \A x \in E : f[x] \in Nat
    PROVE  \A s \in SUBSET E : \A c \in SUBSET s : (\A x \in c : f[x] >= 1) => Cardinality(c) <= Total(f, s)
<1> DEFINE T == {s \in SUBSET E : \A c \in SUBSET s : (\A x \in c : f[x] >= 1) => Cardinality(c) <= Total(f, s)}
<1>0. /\ \A s \in SUBSET E : Total(f, s) \in Nat
      /\ \A s \in SUBSET E : IsFiniteSet(s) /\ Cardinality(s) \in Nat
    BY TotalUnfolds, FS_Subset, FS_CardinalityType
<1>1. ASSUME NEW s \in SUBSET E, \A v \in SUBSET s : v # s => v \in T,
             NEW c \in SUBSET s, \A x \in c : f[x] >= 1
      PROVE  Cardinality(c) <= Total(f, s)
    <2>1. CASE c = {}
        BY <1>0, <2>1, FS_EmptySet
    <2>2. CASE c # {}
        <3>1. PICK x \in c : TRUE
            BY <2>2
        <3> DEFINE v == s \ {x}
                   r == c \ {x}
        <3>2. v \in T /\ r \in SUBSET v /\ v \in SUBSET E /\ c \in SUBSET E /\ r \in SUBSET E
            BY <1>1, <3>1
        <3>3. Cardinality(r) <= Total(f, v)
            BY <1>1, <3>2
        <3>4. Total(f, s) = f[x] + Total(f, v)
            BY <3>1, TotalWithout
        <3>5. Cardinality(r) = Cardinality(c) - 1
            BY <1>0, <3>1, <3>2, FS_RemoveElement
        <3>6. /\ Total(f, v) \in Nat /\ Cardinality(r) \in Nat /\ Cardinality(c) \in Nat
              /\ f[x] \in Nat /\ f[x] >= 1
            BY <1>0, <1>1, <3>1, <3>2
        <3> HIDE DEF v, r
        <3> QED BY <3>3, <3>4, <3>5, <3>6
    <2> QED BY <2>1, <2>2
<1>2. \A s \in SUBSET E : (\A v \in SUBSET s : v # s => v \in T) => s \in T
    BY <1>1
<1> HIDE DEF T
<1>3. SUBSET E \subseteq T
    BY <1>2, SubsetInduction
<1> QED BY <1>3 DEF T

(***************************************************************************)
(* Days, and the rows of a day.                                            *)
(***************************************************************************)

LEMMA DayOf ==
    ASSUME NEW t \in Nat
    PROVE  Metrics!Day(t) \in Nat /\ 2 * Metrics!Day(t) <= t /\ t < 2 * Metrics!Day(t) + 2
BY DEF Metrics!Day

LEMMA DaysPass ==
    ASSUME NEW s \in Nat, NEW t \in Nat, s <= t
    PROVE  Metrics!Day(s) <= Metrics!Day(t)
<1>1. /\ Metrics!Day(s) \in Nat /\ 2 * Metrics!Day(s) <= s
      /\ Metrics!Day(t) \in Nat /\ t < 2 * Metrics!Day(t) + 2
    BY DayOf
<1> QED BY <1>1

LEMMA TelemetryConstants ==
    /\ Capacity \in Nat /\ Capacity >= 1 /\ BatchSize \in Nat /\ BatchSize >= 1
    /\ RetentionDays \in Nat /\ RetentionDays >= 1
    /\ MaxEvents \in Nat /\ MaxTime \in Nat
    /\ Metrics!Days = 0..Metrics!Day(MaxTime) /\ Metrics!Day(MaxTime) \in Nat
    /\ Metrics!Events = 1..MaxEvents /\ IsFiniteSet(Metrics!Events)
<1>1. /\ Capacity \in Nat /\ Capacity >= 1 /\ BatchSize \in Nat /\ BatchSize >= 1
      /\ RetentionDays \in Nat /\ RetentionDays >= 1 /\ MaxEvents \in Nat /\ MaxTime \in Nat
    BY BotAssumption DEF Metrics!TelemetryAssumption
<1> QED BY <1>1, DayOf, FS_Interval DEF Metrics!Days, Metrics!Events

\* The observations of a day.
Of(d) == {e \in DOMAIN at : Metrics!Day(at[e]) = d}

LEMMA Observed ==
    ASSUME Metrics!TelemetryTypeOK
    PROVE  /\ Len(at) \in Nat /\ Len(at) <= MaxEvents /\ DOMAIN at = 1..Len(at)
           /\ DOMAIN at \subseteq Metrics!Events /\ IsFiniteSet(DOMAIN at)
           /\ now \in 0..MaxTime /\ now \in Nat /\ Metrics!Day(now) \in Metrics!Days
           /\ \A e \in DOMAIN at : /\ at[e] \in 0..MaxTime /\ at[e] \in Nat
                                   /\ Metrics!Day(at[e]) \in Metrics!Days
           /\ \A d : Of(d) \subseteq Metrics!Events
<1>1. /\ Len(at) \in Nat /\ Len(at) <= MaxEvents /\ DOMAIN at = 1..Len(at) /\ now \in 0..MaxTime
      /\ \A e \in DOMAIN at : at[e] \in 0..MaxTime
    <2>1. at \in Seq(0..MaxTime) /\ Len(at) <= MaxEvents /\ now \in 0..MaxTime
        BY DEF Metrics!TelemetryTypeOK
    <2> DEFINE T == 0..MaxTime
    <2>2. at \in Seq(T)
        BY <2>1
    <2> HIDE DEF T
    <2>3. Len(at) \in Nat /\ DOMAIN at = 1..Len(at) /\ \A e \in DOMAIN at : at[e] \in T
        BY <2>2
    <2> QED BY <2>1, <2>3 DEF T
<1>2. DOMAIN at \subseteq Metrics!Events /\ IsFiniteSet(DOMAIN at)
    <2>1. IsFiniteSet(1..Len(at))
        BY <1>1, FS_Interval
    <2>2. 1..Len(at) \subseteq 1..MaxEvents
        BY <1>1, TelemetryConstants
    <2> QED BY <1>1, <2>1, <2>2, TelemetryConstants
<1>3. \A t \in 0..MaxTime : t \in Nat /\ Metrics!Day(t) \in Metrics!Days
    <2> SUFFICES ASSUME NEW t \in 0..MaxTime
                 PROVE  t \in Nat /\ Metrics!Day(t) \in Metrics!Days
        OBVIOUS
    <2>1. t \in Nat /\ t <= MaxTime /\ MaxTime \in Nat
        BY TelemetryConstants
    <2>2. Metrics!Day(t) \in Nat /\ Metrics!Day(t) <= Metrics!Day(MaxTime)
        BY <2>1, DayOf, DaysPass
    <2> QED BY <2>1, <2>2, TelemetryConstants
<1> QED BY <1>1, <1>2, <1>3 DEF Of

LEMMA RowsOfTotal == \A rows, d : Metrics!RowsOf(rows, d) = Total(rows, Of(d))
BY DEF Metrics!RowsOf, Total, Of

LEMMA RowsAreCounted ==
    ASSUME Metrics!TelemetryTypeOK, NEW rows \in [Metrics!Events -> Nat]
    PROVE  \A d : Metrics!RowsOf(rows, d) \in Nat
<1>1. ASSUME NEW d PROVE Metrics!RowsOf(rows, d) \in Nat
    <2>1. Of(d) \in SUBSET Metrics!Events /\ IsFiniteSet(Metrics!Events)
        BY Observed, TelemetryConstants
    <2>2. \A x \in Metrics!Events : rows[x] \in Nat
        OBVIOUS
    <2>3. Total(rows, Of(d)) \in Nat
        BY <2>1, <2>2, TotalUnfolds
    <2> QED BY <2>3, RowsOfTotal
<1> QED BY <1>1

LEMMA RowsGrow ==
    ASSUME Metrics!TelemetryTypeOK, NEW f \in [Metrics!Events -> Nat], NEW g \in [Metrics!Events -> Nat],
           \A e \in Metrics!Events : f[e] <= g[e], NEW d
    PROVE  Metrics!RowsOf(f, d) <= Metrics!RowsOf(g, d)
<1>1. Of(d) \in SUBSET Metrics!Events /\ IsFiniteSet(Metrics!Events)
    BY Observed, TelemetryConstants
<1>2. \A e \in Metrics!Events : f[e] \in Nat /\ g[e] \in Nat /\ f[e] <= g[e]
    OBVIOUS
<1>3. Total(f, Of(d)) <= Total(g, Of(d))
    BY <1>1, <1>2, TotalGrows
<1> QED BY <1>3, RowsOfTotal

(***************************************************************************)
(* The events in memory.  An event is in memory once, so that the number   *)
(* of those that a shutdown gives up is the length of the batch and of the *)
(* queue.                                                                  *)
(***************************************************************************)

Held(s) == {s[i] : i \in DOMAIN s}
Once(s) == \A i, j \in DOMAIN s : s[i] = s[j] => i = j

\* The observations in memory, and those that are nowhere.
HandInv ==
    /\ process = "down" => worker = "off"
    /\ worker = "off" => queue = <<>> /\ batch = <<>>
    /\ accepting => worker = "run"
    /\ Held(queue) \subseteq DOMAIN at /\ Held(batch) \subseteq DOMAIN at
    /\ Once(queue) /\ Once(batch) /\ Held(queue) \cap Held(batch) = {}

GivenUp == {e \in DOMAIN at : e \notin Metrics!Pending /\ e \notin lost /\ stored[e] = 0}
Gone == {e \in DOMAIN at : e \notin Metrics!Pending}

Accounted == Cardinality(GivenUp) <= dropped /\ dropped <= Cardinality(Gone)

\* No row without an observation, which nobody makes in the future.
RowsInv ==
    /\ \A e \in DOMAIN at : at[e] <= now
    /\ \A e \in Metrics!Events : raw[e] <= stored[e] /\ (stored[e] > 0 => e \in DOMAIN at)
    /\ inTime \subseteq DOMAIN at

EventsInv == Metrics!TelemetryTypeOK /\ HandInv /\ RowsInv /\ Accounted

LEMMA HeldOnce ==
    ASSUME NEW S, NEW s \in Seq(S), Once(s)
    PROVE  IsFiniteSet(Held(s)) /\ Cardinality(Held(s)) = Len(s)
<1>1. Len(s) \in Nat /\ DOMAIN s = 1..Len(s)
    OBVIOUS
<1>2. s \in Bijection(1..Len(s), Held(s))
    BY <1>1 DEF Held, Once, Bijection, Injection, Surjection, IsInjective
<1>3. ExistsBijection(1..Len(s), Held(s))
    BY <1>2 DEF ExistsBijection
<1> QED BY <1>1, <1>3, FS_NatBijection, FS_CountingElements

LEMMA ApartCount ==
    ASSUME NEW S, NEW T, IsFiniteSet(S), IsFiniteSet(T), S \cap T = {}
    PROVE  IsFiniteSet(S \cup T) /\ Cardinality(S \cup T) = Cardinality(S) + Cardinality(T)
<1>1. Cardinality(S) \in Nat /\ Cardinality(T) \in Nat /\ Cardinality(S \cap T) = 0
    BY FS_CardinalityType, FS_EmptySet
<1>2. IsFiniteSet(S \cup T) /\ Cardinality(S \cup T) = Cardinality(S) + Cardinality(T) - Cardinality(S \cap T)
    BY FS_Union
<1> QED BY <1>1, <1>2

LEMMA EmptyHeld == Held(<<>>) = {} /\ Once(<<>>)
BY DEF Held, Once

LEMMA InHand ==
    ASSUME HandInv, queue \in Seq(Metrics!Events), batch \in Seq(Metrics!Events)
    PROVE  /\ Metrics!Pending = Held(queue) \cup Held(batch)
           /\ IsFiniteSet(Metrics!Pending) /\ Metrics!Pending \subseteq DOMAIN at
           /\ Cardinality(Metrics!Pending) = Len(queue) + Len(batch)
           /\ worker = "off" => Metrics!Pending = {}
<1>1. Metrics!Pending = Held(queue) \cup Held(batch)
    BY EmptyHeld DEF HandInv, Metrics!Pending, Held
<1>2. /\ IsFiniteSet(Held(queue)) /\ Cardinality(Held(queue)) = Len(queue)
      /\ IsFiniteSet(Held(batch)) /\ Cardinality(Held(batch)) = Len(batch)
    BY HeldOnce DEF HandInv
<1>3. Held(queue) \cap Held(batch) = {} /\ Held(queue) \subseteq DOMAIN at /\ Held(batch) \subseteq DOMAIN at
    BY DEF HandInv
<1>4. /\ IsFiniteSet(Held(queue) \cup Held(batch))
      /\ Cardinality(Held(queue) \cup Held(batch)) = Cardinality(Held(queue)) + Cardinality(Held(batch))
    BY <1>2, <1>3, ApartCount
<1>5. worker = "off" => Metrics!Pending = {}
    BY DEF Metrics!Pending
<1> QED BY <1>1, <1>2, <1>3, <1>4, <1>5

LEMMA FinitePart ==
    ASSUME NEW S, NEW s \in Seq(S), NEW g \in SUBSET (DOMAIN s)
    PROVE  IsFiniteSet(g) /\ Cardinality(g) \in Nat
<1>1. DOMAIN s = 1..Len(s) /\ Len(s) \in Nat
    OBVIOUS
<1>2. IsFiniteSet(DOMAIN s)
    BY <1>1, FS_Interval
<1>3. IsFiniteSet(g)
    BY <1>2, FS_Subset
<1> QED BY <1>3, FS_CardinalityType

LEMMA SetsOfEvents ==
    ASSUME Metrics!TelemetryTypeOK
    PROVE  /\ IsFiniteSet(GivenUp) /\ Cardinality(GivenUp) \in Nat
           /\ IsFiniteSet(Gone) /\ Cardinality(Gone) \in Nat /\ dropped \in Nat
<1>1. GivenUp \in SUBSET (DOMAIN at) /\ Gone \in SUBSET (DOMAIN at) /\ IsFiniteSet(DOMAIN at)
    BY Observed DEF GivenUp, Gone
<1>2. IsFiniteSet(GivenUp) /\ IsFiniteSet(Gone)
    BY <1>1, FS_Subset
<1> QED BY <1>2, FS_CardinalityType DEF Metrics!TelemetryTypeOK

\* The rows of these events are stored: AppendTelemetryEvents.
RowsAdded(more) ==
    /\ raw' = [e \in Metrics!Events |-> IF e \in more THEN raw[e] + 1 ELSE raw[e]]
    /\ stored' = [e \in Metrics!Events |-> IF e \in more THEN stored[e] + 1 ELSE stored[e]]
    /\ inTime' = inTime \cup {e \in more : Metrics!Day(at[e]) = Metrics!Day(now)}

\* A step that changes the tables in no other way.
RowsStored ==
    \E more \in SUBSET (DOMAIN at) : RowsAdded(more) /\ UNCHANGED <<now, at, daily, upkeep, summary, trimmed>>

LEMMA MemoryRowTypes ==
    ASSUME Metrics!TelemetryTypeOK
    PROVE  /\ raw \in [Metrics!Events -> Nat] /\ stored \in [Metrics!Events -> Nat]
           /\ \A e \in Metrics!Events : raw[e] \in Nat /\ stored[e] \in Nat
           /\ inTime \subseteq Metrics!Events /\ lost \subseteq Metrics!Events /\ trimmed \subseteq Metrics!Days
           /\ queue \in Seq(Metrics!Events) /\ batch \in Seq(Metrics!Events)
           /\ Len(queue) \in Nat /\ Len(queue) <= Capacity /\ Len(batch) \in Nat /\ Len(batch) <= BatchSize
           /\ dropped \in Nat
BY DEF Metrics!TelemetryTypeOK

LEMMA NothingAdded ==
    ASSUME Metrics!TelemetryTypeOK, UNCHANGED <<raw, stored, inTime>>
    PROVE  RowsAdded({})
BY MemoryRowTypes DEF RowsAdded

LEMMA AddedAre ==
    ASSUME NEW b, Metrics!Appended(b)
    PROVE  RowsAdded(Held(b))
BY DEF Metrics!Appended, RowsAdded, Held

LEMMA FlushAdds ==
    ASSUME Metrics!TelemetryTypeOK, NEW b, NEW o, Metrics!Flush(b, o)
    PROVE  (batch' = b /\ RowsAdded({})) \/ (batch' \in {<<>>, b} /\ RowsAdded(Held(b)))
<1>1. CASE o = "refused"
    <2>1. UNCHANGED <<raw, stored, inTime>> /\ batch' = b
        BY <1>1 DEF Metrics!Flush, Metrics!KeptBatch, Metrics!tableVars
    <2> QED BY <2>1, NothingAdded
<1>2. CASE o # "refused"
    BY <1>2, AddedAre DEF Metrics!Flush, Metrics!KeptBatch
<1> QED BY <1>1, <1>2

LEMMA AddedRows ==
    ASSUME Metrics!TelemetryTypeOK, RowsInv, NEW more \in SUBSET (DOMAIN at), RowsAdded(more), UNCHANGED <<now, at>>
    PROVE  /\ raw' \in [Metrics!Events -> Nat] /\ stored' \in [Metrics!Events -> Nat]
           /\ inTime' \subseteq Metrics!Events /\ RowsInv'
           /\ \A e \in Metrics!Events :
                /\ stored'[e] >= stored[e] /\ raw'[e] >= raw[e]
                /\ e \in more => stored'[e] > 0 /\ raw'[e] > 0
<1>1. \A e \in Metrics!Events :
        /\ raw[e] \in Nat /\ stored[e] \in Nat
        /\ raw'[e] = IF e \in more THEN raw[e] + 1 ELSE raw[e]
        /\ stored'[e] = IF e \in more THEN stored[e] + 1 ELSE stored[e]
    BY MemoryRowTypes DEF RowsAdded
<1>2. raw' \in [Metrics!Events -> Nat] /\ stored' \in [Metrics!Events -> Nat]
    BY <1>1 DEF RowsAdded
<1>3. inTime' \subseteq DOMAIN at /\ DOMAIN at \subseteq Metrics!Events
    BY Observed DEF RowsAdded, RowsInv
<1>4. RowsInv'
    BY <1>1, <1>3 DEF RowsInv
<1> QED BY <1>1, <1>2, <1>3, <1>4

\* What a step may do to the counter, without giving up an event.
LEMMA NoneGivenUp ==
    ASSUME Metrics!TelemetryTypeOK, Accounted, Metrics!TelemetryTypeOK',
           GivenUp' \subseteq GivenUp, Gone \subseteq Gone', UNCHANGED dropped
    PROVE  Accounted'
<1>1. /\ IsFiniteSet(GivenUp) /\ Cardinality(GivenUp) \in Nat /\ Cardinality(Gone) \in Nat /\ dropped \in Nat
    BY SetsOfEvents
<1>2. IsFiniteSet(Gone') /\ Cardinality(Gone') \in Nat
    <2>1. at' \in Seq(0..MaxTime) /\ Gone' \in SUBSET (DOMAIN at')
        BY DEF Metrics!TelemetryTypeOK, Gone
    <2> QED BY <2>1, FinitePart
<1>3. IsFiniteSet(GivenUp') /\ Cardinality(GivenUp') <= Cardinality(GivenUp) /\ Cardinality(Gone) <= Cardinality(Gone')
    BY <1>1, <1>2, FS_Subset
<1>4. Cardinality(GivenUp') \in Nat
    BY <1>3, FS_CardinalityType
<1> QED BY <1>1, <1>2, <1>3, <1>4 DEF Accounted

LEMMA MemoryTypes ==
    ASSUME Metrics!TelemetryTypeOK, RowsInv, NEW more \in SUBSET (DOMAIN at), RowsAdded(more),
           UNCHANGED <<now, at, lost, daily, upkeep, summary, trimmed>>,
           queue' \in Seq(Metrics!Events), Len(queue') <= Capacity,
           batch' \in Seq(Metrics!Events), Len(batch') <= BatchSize,
           worker' \in {"run", "drain", "off"}, accepting' \in BOOLEAN, dropped' \in Nat
    PROVE  Metrics!TelemetryTypeOK'
<1>1. raw' \in [Metrics!Events -> Nat] /\ stored' \in [Metrics!Events -> Nat] /\ inTime' \subseteq Metrics!Events
    BY AddedRows
<1>2. inTime' \cup lost' \subseteq Metrics!Events
    BY <1>1, MemoryRowTypes
<1> QED BY <1>1, <1>2 DEF Metrics!TelemetryTypeOK

LEMMA PendingIsHeld ==
    ASSUME HandInv'
    PROVE  Metrics!Pending' = Held(queue') \cup Held(batch')
<1>1. worker' = "off" => queue' = <<>> /\ batch' = <<>>
    BY DEF HandInv
<1>2. CASE worker' = "off"
    BY <1>1, <1>2, EmptyHeld DEF Metrics!Pending
<1>3. CASE worker' # "off"
    BY <1>3 DEF Metrics!Pending, Held
<1> QED BY <1>2, <1>3

\* Who leaves the memory has a row.
LEMMA MemoryKept ==
    ASSUME EventsInv, NEW more \in SUBSET (DOMAIN at), RowsAdded(more),
           UNCHANGED <<now, at, lost, dropped>>, Metrics!TelemetryTypeOK', HandInv',
           Held(queue') \cup Held(batch') \subseteq Held(queue) \cup Held(batch),
           Held(queue) \cup Held(batch) \subseteq Held(queue') \cup Held(batch') \cup more
    PROVE  EventsInv'
<1> USE DEF EventsInv
<1>1. Metrics!Pending = Held(queue) \cup Held(batch) /\ Metrics!Pending' = Held(queue') \cup Held(batch')
    BY InHand, PendingIsHeld, MemoryRowTypes
<1>2. /\ RowsInv' /\ DOMAIN at \subseteq Metrics!Events
      /\ \A e \in Metrics!Events : stored[e] \in Nat /\ stored'[e] \in Nat
                                   /\ stored'[e] >= stored[e] /\ (e \in more => stored'[e] > 0)
    BY AddedRows, MemoryRowTypes, Observed
<1>3. Gone \subseteq Gone'
    BY <1>1 DEF Gone
<1>4. GivenUp' \subseteq GivenUp
    <2> SUFFICES ASSUME NEW e \in GivenUp' PROVE e \in GivenUp
        OBVIOUS
    <2>1. e \in DOMAIN at /\ e \notin Metrics!Pending' /\ e \notin lost /\ stored'[e] = 0
        BY DEF GivenUp
    <2>2. e \notin more /\ stored[e] = 0
        BY <1>2, <2>1
    <2>3. e \notin Metrics!Pending
        BY <1>1, <2>1, <2>2
    <2> QED BY <2>1, <2>2, <2>3 DEF GivenUp
<1> QED BY <1>2, <1>3, <1>4, NoneGivenUp

LEMMA QueueHead ==
    ASSUME NEW S, NEW s \in Seq(S), s # <<>>, Once(s)
    PROVE  /\ Tail(s) \in Seq(S) /\ Len(Tail(s)) <= Len(s) /\ Head(s) \in S
           /\ Held(s) = Held(Tail(s)) \cup {Head(s)} /\ Head(s) \notin Held(Tail(s)) /\ Once(Tail(s))
<1>1. /\ Head(s) = s[1] /\ s[1] \in S /\ Tail(s) \in Seq(S)
      /\ Len(s) \in Nat /\ Len(s) >= 1 /\ Len(Tail(s)) = Len(s) - 1
      /\ DOMAIN s = 1..Len(s) /\ DOMAIN Tail(s) = 1..(Len(s) - 1)
      /\ \A i \in 1..(Len(s) - 1) : Tail(s)[i] = s[i + 1]
    BY HeadAndTail
<1>2. \A i \in 1..(Len(s) - 1) : i + 1 \in DOMAIN s /\ i + 1 # 1
    BY <1>1
<1>3. Head(s) \notin Held(Tail(s)) /\ Once(Tail(s))
    <2>1. ASSUME NEW i \in 1..(Len(s) - 1) PROVE Tail(s)[i] # s[1]
        BY <1>1, <1>2 DEF Once
    <2>2. ASSUME NEW i \in 1..(Len(s) - 1), NEW j \in 1..(Len(s) - 1), Tail(s)[i] = Tail(s)[j] PROVE i = j
        <3>1. s[i + 1] = s[j + 1]
            BY <1>1, <2>2
        <3>2. i + 1 = j + 1
            BY <1>2, <3>1 DEF Once
        <3> QED BY <3>2
    <2> QED BY <1>1, <2>1, <2>2 DEF Once, Held
<1>4. Held(s) = Held(Tail(s)) \cup {Head(s)}
    <2>1. \A i \in DOMAIN s : i = 1 \/ (i - 1 \in 1..(Len(s) - 1) /\ s[i] = Tail(s)[i - 1])
        BY <1>1
    <2>2. \A i \in 1..(Len(s) - 1) : Tail(s)[i] \in Held(s)
        BY <1>1, <1>2 DEF Held
    <2>3. Held(s) \subseteq Held(Tail(s)) \cup {Head(s)}
        BY <1>1, <2>1 DEF Held
    <2>4. Head(s) \in Held(s)
        BY <1>1 DEF Held
    <2> QED BY <1>1, <2>2, <2>3, <2>4 DEF Held
<1> QED BY <1>1, <1>3, <1>4

LEMMA BatchEnd ==
    ASSUME NEW S, NEW s \in Seq(S), NEW e \in S, e \notin Held(s), Once(s)
    PROVE  /\ Append(s, e) \in Seq(S) /\ Len(Append(s, e)) = Len(s) + 1 /\ Len(s) \in Nat
           /\ Held(Append(s, e)) = Held(s) \cup {e} /\ Once(Append(s, e))
<1>1. /\ Append(s, e) \in Seq(S) /\ Len(s) \in Nat /\ Len(Append(s, e)) = Len(s) + 1
      /\ DOMAIN s = 1..Len(s) /\ DOMAIN Append(s, e) = 1..(Len(s) + 1)
      /\ Append(s, e)[Len(s) + 1] = e
      /\ \A i \in 1..Len(s) : Append(s, e)[i] = s[i]
    BY AppendedLast
<1> DEFINE t == Append(s, e)
<1>2. \A i \in DOMAIN t : (i = Len(s) + 1 /\ t[i] = e) \/ (i \in DOMAIN s /\ t[i] = s[i] /\ t[i] # e)
    BY <1>1 DEF Held
<1>3. DOMAIN s \subseteq DOMAIN t /\ Len(s) + 1 \in DOMAIN t
    BY <1>1
<1> HIDE DEF t
<1>4. Held(t) = Held(s) \cup {e}
    BY <1>1, <1>2, <1>3 DEF Held, t
<1>5. Once(t)
    BY <1>2 DEF Once
<1> QED BY <1>1, <1>4, <1>5 DEF t

LEMMA TakeEvent ==
    ASSUME EventsInv, NEW o, Metrics!Take(o)
    PROVE  EventsInv' /\ RowsStored
<1> USE DEF EventsInv
<1> DEFINE b == Append(batch, Head(queue))
<1>1. /\ worker = "run" /\ queue # <<>> /\ Len(batch) < BatchSize /\ queue' = Tail(queue)
      /\ UNCHANGED <<process, now, at, worker, accepting, dropped, lost, daily, upkeep, summary, trimmed>>
    BY DEF Metrics!Take
<1>2. /\ queue \in Seq(Metrics!Events) /\ batch \in Seq(Metrics!Events) /\ Len(queue) \in Nat
      /\ Len(queue) <= Capacity /\ Len(batch) \in Nat /\ BatchSize \in Nat /\ Capacity \in Nat
      /\ Once(queue) /\ Once(batch) /\ Held(queue) \cap Held(batch) = {}
      /\ Held(queue) \subseteq DOMAIN at /\ Held(batch) \subseteq DOMAIN at
    BY MemoryRowTypes, TelemetryConstants DEF HandInv
<1>3. /\ Tail(queue) \in Seq(Metrics!Events) /\ Len(Tail(queue)) <= Len(queue) /\ Head(queue) \in Metrics!Events
      /\ Held(queue) = Held(Tail(queue)) \cup {Head(queue)} /\ Head(queue) \notin Held(Tail(queue))
      /\ Once(Tail(queue))
    BY <1>1, <1>2, QueueHead
<1>4. /\ b \in Seq(Metrics!Events) /\ Len(b) = Len(batch) + 1
      /\ Held(b) = Held(batch) \cup {Head(queue)} /\ Once(b)
    BY <1>2, <1>3, BatchEnd
<1>5. \/ batch' = b /\ RowsAdded({})
      \/ batch' \in {<<>>, b} /\ RowsAdded(Held(b))
    <2>1. CASE Len(b) = BatchSize
        BY <2>1, FlushAdds DEF Metrics!Take
    <2>2. CASE Len(b) # BatchSize
        <3>1. batch' = b /\ UNCHANGED <<raw, stored, inTime>>
            BY <2>2 DEF Metrics!Take, Metrics!tableVars
        <3> QED BY <3>1, NothingAdded
    <2> QED BY <2>1, <2>2
<1> HIDE DEF b
<1>6. PICK more \in SUBSET (DOMAIN at) :
        /\ RowsAdded(more) /\ (batch' = b \/ (batch' = <<>> /\ Held(b) \subseteq more))
    <2>1. Held(b) \in SUBSET (DOMAIN at) /\ {} \in SUBSET (DOMAIN at)
        BY <1>2, <1>3, <1>4
    <2> QED BY <1>5, <2>1
<1>7. /\ batch' \in Seq(Metrics!Events) /\ Len(batch') <= BatchSize /\ Once(batch')
      /\ Held(batch') \subseteq Held(b) /\ Held(b) \subseteq Held(batch') \cup more
    <2>1. CASE batch' = b
        BY <1>1, <1>2, <1>4, <2>1
    <2>2. CASE batch' = <<>> /\ Held(b) \subseteq more
        BY <1>2, <2>2, EmptyHeld
    <2> QED BY <1>6, <2>1, <2>2
<1>8. Metrics!TelemetryTypeOK'
    <2>1. worker' \in {"run", "drain", "off"} /\ accepting' \in BOOLEAN /\ dropped' \in Nat /\ Len(queue') <= Capacity
        BY <1>1, <1>2, <1>3 DEF Metrics!TelemetryTypeOK
    <2> QED BY <1>1, <1>3, <1>6, <1>7, <2>1, MemoryTypes
<1>9. HandInv'
    BY <1>1, <1>2, <1>3, <1>4, <1>7 DEF HandInv
<1>10. EventsInv'
    BY <1>1, <1>3, <1>4, <1>6, <1>7, <1>8, <1>9, MemoryKept
<1>11. RowsStored
    BY <1>1, <1>6 DEF RowsStored
<1> QED BY <1>10, <1>11

LEMMA TickFlushes ==
    ASSUME EventsInv, NEW o, Metrics!Tick(o)
    PROVE  EventsInv' /\ RowsStored
<1> USE DEF EventsInv
<1>1. /\ worker = "run"
      /\ UNCHANGED <<process, now, at, queue, worker, accepting, dropped, lost, daily, upkeep, summary, trimmed>>
    BY DEF Metrics!Tick
<1>2. /\ queue \in Seq(Metrics!Events) /\ batch \in Seq(Metrics!Events) /\ Held(batch) \in SUBSET (DOMAIN at)
      /\ Len(queue) <= Capacity /\ Len(batch) <= BatchSize /\ BatchSize \in Nat /\ {} \in SUBSET (DOMAIN at)
    BY MemoryRowTypes, TelemetryConstants DEF HandInv
<1>3. PICK more \in SUBSET (DOMAIN at) :
        /\ RowsAdded(more) /\ (batch' = batch \/ (batch' = <<>> /\ Held(batch) \subseteq more))
    <2>1. (batch' = batch /\ RowsAdded({})) \/ (batch' \in {<<>>, batch} /\ RowsAdded(Held(batch)))
        BY FlushAdds DEF Metrics!Tick
    <2> QED BY <1>2, <2>1
<1>4. /\ batch' \in Seq(Metrics!Events) /\ Len(batch') <= BatchSize /\ Once(batch')
      /\ Held(batch') \subseteq Held(batch) /\ Held(batch) \subseteq Held(batch') \cup more
    <2>1. CASE batch' = batch
        BY <1>2, <2>1 DEF HandInv
    <2>2. CASE batch' = <<>> /\ Held(batch) \subseteq more
        BY <1>2, <2>2, EmptyHeld
    <2> QED BY <1>3, <2>1, <2>2
<1>5. Metrics!TelemetryTypeOK'
    <2>1. worker' \in {"run", "drain", "off"} /\ accepting' \in BOOLEAN /\ dropped' \in Nat
        BY <1>1 DEF Metrics!TelemetryTypeOK
    <2> QED BY <1>1, <1>2, <1>3, <1>4, <2>1, MemoryTypes
<1>6. HandInv'
    BY <1>1, <1>4 DEF HandInv
<1>7. EventsInv'
    BY <1>1, <1>3, <1>4, <1>5, <1>6, MemoryKept
<1>8. RowsStored
    BY <1>1, <1>3 DEF RowsStored
<1> QED BY <1>7, <1>8

LEMMA SeqDomain ==
    ASSUME NEW S, NEW s \in Seq(S)
    PROVE  Len(s) \in Nat /\ DOMAIN s = 1..Len(s)
OBVIOUS

LEMMA PartOf ==
    ASSUME NEW S, NEW t \in Seq(S), NEW m \in Nat, NEW k \in Nat, m >= 1, m <= k + 1, k <= Len(t)
    PROVE  /\ SubSeq(t, m, k) \in Seq(S) /\ Len(SubSeq(t, m, k)) = k - m + 1
           /\ \A i \in 1..(k - m + 1) : SubSeq(t, m, k)[i] = t[m + i - 1]
<1>1. m \in Int /\ k \in Int /\ \A i \in m..k : t[i] \in S
    OBVIOUS
<1>2. /\ SubSeq(t, m, k) \in Seq(S)
      /\ Len(SubSeq(t, m, k)) = IF m <= k THEN k - m + 1 ELSE 0
      /\ \A i \in 1..(k - m + 1) : SubSeq(t, m, k)[i] = t[m + i - 1]
    BY <1>1, SubSeqProperties
<1>3. (IF m <= k THEN k - m + 1 ELSE 0) = k - m + 1
    OBVIOUS
<1> QED BY <1>2, <1>3

LEMMA Joined ==
    ASSUME NEW S, NEW s \in Seq(S), NEW t \in Seq(S)
    PROVE  /\ s \o t \in Seq(S) /\ Len(s \o t) = Len(s) + Len(t)
           /\ \A i \in 1..Len(s) : (s \o t)[i] = s[i]
           /\ \A i \in 1..Len(t) : (s \o t)[Len(s) + i] = t[i]
BY ConcatProperties

LEMMA HeldHas ==
    ASSUME NEW s, NEW i \in DOMAIN s
    PROVE  s[i] \in Held(s)
BY DEF Held

LEMMA HeldWithin ==
    ASSUME NEW s, NEW S, \A i \in DOMAIN s : s[i] \in S
    PROVE  Held(s) \subseteq S
BY DEF Held

\* A sequence t that is cut in two, with another one before its front.
Pieces(S, s, t, n, front, rest, b) ==
    /\ s \in Seq(S) /\ t \in Seq(S) /\ n \in Nat /\ n <= Len(t)
    /\ front \in Seq(S) /\ Len(front) = n /\ \A i \in 1..n : front[i] = t[i]
    /\ rest \in Seq(S) /\ Len(rest) = Len(t) - n /\ \A i \in 1..(Len(t) - n) : rest[i] = t[n + i]
    /\ b \in Seq(S) /\ Len(b) = Len(s) + n /\ \A i \in 1..Len(s) : b[i] = s[i]
    /\ \A i \in 1..n : b[Len(s) + i] = front[i]

LEMMA PiecesHold ==
    ASSUME NEW S, NEW s, NEW t, NEW n, NEW front, NEW rest, NEW b, Pieces(S, s, t, n, front, rest, b),
           Once(t), Held(s) \cap Held(t) = {}
    PROVE  /\ Once(rest) /\ Held(b) \cap Held(rest) = {}
           /\ Held(b) \cup Held(rest) = Held(s) \cup Held(t)
<1>0. /\ s \in Seq(S) /\ t \in Seq(S) /\ n \in Nat /\ n <= Len(t)
      /\ front \in Seq(S) /\ Len(front) = n /\ \A i \in 1..n : front[i] = t[i]
      /\ rest \in Seq(S) /\ Len(rest) = Len(t) - n /\ \A i \in 1..(Len(t) - n) : rest[i] = t[n + i]
      /\ b \in Seq(S) /\ Len(b) = Len(s) + n /\ \A i \in 1..Len(s) : b[i] = s[i]
      /\ \A i \in 1..n : b[Len(s) + i] = front[i]
    BY DEF Pieces
<1>1. /\ Len(t) \in Nat /\ Len(s) \in Nat /\ DOMAIN t = 1..Len(t) /\ DOMAIN s = 1..Len(s)
      /\ n \in Nat /\ n <= Len(t)
    BY <1>0, SeqDomain
<1>2. DOMAIN front = 1..n /\ \A i \in 1..n : front[i] = t[i]
    BY <1>0, SeqDomain
<1>3. DOMAIN rest = 1..(Len(t) - n) /\ \A i \in 1..(Len(t) - n) : rest[i] = t[n + i]
    BY <1>0, SeqDomain
<1>4. DOMAIN b = 1..(Len(s) + n) /\ (\A i \in 1..Len(s) : b[i] = s[i]) /\ \A i \in 1..n : b[Len(s) + i] = front[i]
    BY <1>0, SeqDomain
<1>5. Held(b) = Held(s) \cup Held(front)
    <2>1. \A i \in DOMAIN b : b[i] \in Held(s) \cup Held(front)
        <3> SUFFICES ASSUME NEW i \in DOMAIN b PROVE b[i] \in Held(s) \cup Held(front)
            OBVIOUS
        <3>1. CASE i \in 1..Len(s)
            BY <1>1, <1>4, <3>1 DEF Held
        <3>2. CASE i \notin 1..Len(s)
            <4>1. i - Len(s) \in 1..n /\ Len(s) + (i - Len(s)) = i
                BY <1>1, <1>4, <3>2
            <4>2. b[i] = front[i - Len(s)]
                BY <1>4, <4>1
            <4> QED BY <1>2, <4>1, <4>2 DEF Held
        <3> QED BY <3>1, <3>2
    <2>2. \A i \in DOMAIN s : s[i] \in Held(b)
        BY <1>1, <1>4 DEF Held
    <2>3. \A i \in DOMAIN front : front[i] \in Held(b)
        <3> SUFFICES ASSUME NEW i \in DOMAIN front PROVE front[i] \in Held(b)
            OBVIOUS
        <3>1. Len(s) + i \in DOMAIN b /\ b[Len(s) + i] = front[i]
            BY <1>1, <1>2, <1>4
        <3> QED BY <3>1 DEF Held
    <2>4. Held(b) \subseteq Held(s) \cup Held(front)
        BY <2>1, HeldWithin
    <2>5. Held(s) \subseteq Held(b) /\ Held(front) \subseteq Held(b)
        BY <2>2, <2>3, HeldWithin
    <2> QED BY <2>4, <2>5
<1>6. Held(front) \cup Held(rest) = Held(t) /\ Held(front) \cap Held(rest) = {} /\ Once(rest)
    <2>1. \A i \in 1..(Len(t) - n) : n + i \in DOMAIN t /\ n + i \notin 1..n
        BY <1>1
    <2>2. \A i \in 1..n : i \in DOMAIN t
        BY <1>1
    <2>3. \A i \in DOMAIN t : i \in 1..n \/ (i - n \in 1..(Len(t) - n) /\ rest[i - n] = t[i])
        BY <1>1, <1>3
    <2>4. Held(front) \cup Held(rest) = Held(t)
        <3>1. Held(front) \subseteq Held(t)
            <4>1. \A i \in DOMAIN front : front[i] \in Held(t)
                BY <1>2, <2>2, HeldHas
            <4> QED BY <4>1, HeldWithin
        <3>2. Held(rest) \subseteq Held(t)
            <4>1. \A i \in DOMAIN rest : rest[i] \in Held(t)
                BY <1>3, <2>1, HeldHas
            <4> QED BY <4>1, HeldWithin
        <3>3. Held(t) \subseteq Held(front) \cup Held(rest)
            <4>1. ASSUME NEW i \in DOMAIN t PROVE t[i] \in Held(front) \cup Held(rest)
                <5>1. CASE i \in 1..n
                    <6>1. i \in DOMAIN front /\ front[i] = t[i]
                        BY <1>2, <5>1
                    <6> QED BY <6>1, HeldHas
                <5>2. CASE i - n \in 1..(Len(t) - n) /\ rest[i - n] = t[i]
                    <6>1. i - n \in DOMAIN rest
                        BY <1>3, <5>2
                    <6> QED BY <5>2, <6>1, HeldHas
                <5> QED BY <2>3, <5>1, <5>2
            <4> QED BY <4>1, HeldWithin
        <3> QED BY <3>1, <3>2, <3>3
    <2>5. ASSUME NEW i \in 1..n, NEW j \in 1..(Len(t) - n) PROVE front[i] # rest[j]
        <3>1. n + j \in DOMAIN t /\ n + j # i /\ i \in DOMAIN t
            BY <2>1, <2>2
        <3>2. t[i] # t[n + j]
            BY <3>1 DEF Once
        <3> QED BY <1>2, <1>3, <3>2
    <2>6. Held(front) \cap Held(rest) = {}
        BY <1>2, <1>3, <2>5 DEF Held
    <2>7. ASSUME NEW i \in DOMAIN rest, NEW j \in DOMAIN rest, rest[i] = rest[j] PROVE i = j
        <3>1. t[n + i] = t[n + j] /\ n + i \in DOMAIN t /\ n + j \in DOMAIN t
            BY <1>3, <2>1, <2>7
        <3>2. n + i = n + j
            BY <3>1 DEF Once
        <3> QED BY <1>1, <1>3, <3>2
    <2> QED BY <2>4, <2>6, <2>7 DEF Once
<1> QED BY <1>5, <1>6

\* What a round of the shutdown takes from the queue, and what it leaves.
Front(t, n) == SubSeq(t, 1, n)
Rest(t, n) == SubSeq(t, n + 1, Len(t))
Join(s, t) == s \o t

LEMMA FrontOf ==
    ASSUME NEW S, NEW t \in Seq(S), NEW n \in Nat, n <= Len(t)
    PROVE  Front(t, n) \in Seq(S) /\ Len(Front(t, n)) = n /\ \A i \in 1..n : Front(t, n)[i] = t[i]
<1>1. 1 \in Nat /\ 1 >= 1 /\ 1 <= n + 1
    OBVIOUS
<1>2. /\ Front(t, n) \in Seq(S) /\ Len(Front(t, n)) = n - 1 + 1
      /\ \A i \in 1..(n - 1 + 1) : Front(t, n)[i] = t[1 + i - 1]
    BY <1>1, PartOf DEF Front
<1>3. n - 1 + 1 = n /\ \A i \in 1..n : 1 + i - 1 = i
    OBVIOUS
<1> QED BY <1>2, <1>3

LEMMA RestOf ==
    ASSUME NEW S, NEW t \in Seq(S), NEW n \in Nat, n <= Len(t)
    PROVE  /\ Rest(t, n) \in Seq(S) /\ Len(Rest(t, n)) = Len(t) - n
           /\ \A i \in 1..(Len(t) - n) : Rest(t, n)[i] = t[n + i]
<1>1. Len(t) \in Nat
    BY SeqDomain
<1>2. n + 1 \in Nat /\ n + 1 >= 1 /\ n + 1 <= Len(t) + 1 /\ Len(t) <= Len(t)
    BY <1>1
<1>3. /\ Rest(t, n) \in Seq(S) /\ Len(Rest(t, n)) = Len(t) - (n + 1) + 1
      /\ \A i \in 1..(Len(t) - (n + 1) + 1) : Rest(t, n)[i] = t[(n + 1) + i - 1]
    BY <1>1, <1>2, PartOf DEF Rest
<1>4. Len(t) - (n + 1) + 1 = Len(t) - n /\ \A i \in 1..(Len(t) - n) : (n + 1) + i - 1 = n + i
    BY <1>1
<1> QED BY <1>3, <1>4

LEMMA QueueSplits ==
    ASSUME NEW S, NEW s \in Seq(S), NEW t \in Seq(S), Once(t), Held(s) \cap Held(t) = {},
           NEW n \in Nat, n <= Len(t)
    PROVE  /\ Join(s, Front(t, n)) \in Seq(S) /\ Rest(t, n) \in Seq(S) /\ Once(Rest(t, n))
           /\ Held(Join(s, Front(t, n))) \cap Held(Rest(t, n)) = {}
           /\ Held(Join(s, Front(t, n))) \cup Held(Rest(t, n)) = Held(s) \cup Held(t)
           /\ Len(Join(s, Front(t, n))) + Len(Rest(t, n)) = Len(s) + Len(t) /\ Len(Rest(t, n)) <= Len(t)
<1>1. Len(t) \in Nat /\ Len(s) \in Nat
    BY SeqDomain
<1>2. PICK front \in Seq(S) : front = Front(t, n) /\ Len(front) = n /\ \A i \in 1..n : front[i] = t[i]
    BY FrontOf
<1>3. PICK rest \in Seq(S) :
        /\ rest = Rest(t, n) /\ Len(rest) = Len(t) - n
        /\ \A i \in 1..(Len(t) - n) : rest[i] = t[n + i]
    BY RestOf
<1>4. /\ Join(s, front) \in Seq(S) /\ Len(Join(s, front)) = Len(s) + n
      /\ \A i \in 1..Len(s) : Join(s, front)[i] = s[i]
      /\ \A i \in 1..n : Join(s, front)[Len(s) + i] = front[i]
    <2>1. /\ Join(s, front) \in Seq(S) /\ Len(Join(s, front)) = Len(s) + Len(front)
          /\ \A i \in 1..Len(s) : Join(s, front)[i] = s[i]
          /\ \A i \in 1..Len(front) : Join(s, front)[Len(s) + i] = front[i]
        BY Joined DEF Join
    <2> QED BY <1>2, <2>1
<1>5. PICK b \in Seq(S) :
        /\ b = Join(s, front) /\ Len(b) = Len(s) + n
        /\ \A i \in 1..Len(s) : b[i] = s[i]
        /\ \A i \in 1..n : b[Len(s) + i] = front[i]
    BY <1>4
<1>6. /\ Once(rest) /\ Held(b) \cap Held(rest) = {}
      /\ Held(b) \cup Held(rest) = Held(s) \cup Held(t)
    <2>1. Pieces(S, s, t, n, front, rest, b)
        BY <1>2, <1>3, <1>5 DEF Pieces
    <2> QED BY <2>1, PiecesHold
<1>7. Len(b) + Len(rest) = Len(s) + Len(t) /\ Len(rest) <= Len(t)
    BY <1>1, <1>3, <1>5
<1>8. b = Join(s, Front(t, n)) /\ rest = Rest(t, n)
    BY <1>2, <1>3, <1>5
<1> QED BY <1>3, <1>5, <1>6, <1>7, <1>8

\* These events are given up.
LEMMA SomeGivenUp ==
    ASSUME Metrics!TelemetryTypeOK, Accounted, Metrics!TelemetryTypeOK', NEW S, IsFiniteSet(S), S \cap Gone = {},
           GivenUp' \subseteq GivenUp \cup S, Gone \cup S \subseteq Gone', dropped' = dropped + Cardinality(S)
    PROVE  Accounted'
<1>1. /\ IsFiniteSet(GivenUp) /\ Cardinality(GivenUp) \in Nat /\ IsFiniteSet(Gone) /\ Cardinality(Gone) \in Nat
      /\ dropped \in Nat /\ Cardinality(S) \in Nat
    BY SetsOfEvents, FS_CardinalityType
<1>2. IsFiniteSet(Gone') /\ Cardinality(Gone') \in Nat
    <2>1. at' \in Seq(0..MaxTime) /\ Gone' \in SUBSET (DOMAIN at')
        BY DEF Metrics!TelemetryTypeOK, Gone
    <2> QED BY <2>1, FinitePart
<1>3. Cardinality(Gone) + Cardinality(S) <= Cardinality(Gone')
    <2>1. Cardinality(Gone \cup S) = Cardinality(Gone) + Cardinality(S)
        BY <1>1, ApartCount
    <2>2. Cardinality(Gone \cup S) <= Cardinality(Gone')
        BY <1>2, FS_Subset
    <2> QED BY <2>1, <2>2
<1>4. Cardinality(GivenUp') \in Nat /\ Cardinality(GivenUp') <= Cardinality(GivenUp) + Cardinality(S)
    <2> DEFINE m == GivenUp \cap S
    <2>1. IsFiniteSet(m) /\ Cardinality(m) \in Nat
        BY <1>1, FS_Subset, FS_CardinalityType
    <2>2. /\ IsFiniteSet(GivenUp \cup S)
          /\ Cardinality(GivenUp \cup S) = Cardinality(GivenUp) + Cardinality(S) - Cardinality(m)
        BY <1>1, FS_Union
    <2>3. IsFiniteSet(GivenUp') /\ Cardinality(GivenUp') <= Cardinality(GivenUp \cup S)
        BY <2>2, FS_Subset
    <2>4. Cardinality(GivenUp') \in Nat
        BY <2>3, FS_CardinalityType
    <2> HIDE DEF m
    <2> QED BY <1>1, <2>1, <2>2, <2>3, <2>4
<1> QED BY <1>1, <1>2, <1>3, <1>4 DEF Accounted

LEMMA DrainRound ==
    ASSUME EventsInv, NEW o, Metrics!Drain(o)
    PROVE  EventsInv' /\ RowsStored
<1> USE DEF EventsInv
<1> DEFINE room == BatchSize - Len(batch)
           n == IF Len(queue) < room THEN Len(queue) ELSE room
           b == Join(batch, Front(queue, n))
           rest == Rest(queue, n)
<1>1. /\ process = "up" /\ worker = "drain"
      /\ (o = "refused" /\ UNCHANGED <<raw, stored, inTime>>) \/ (o # "refused" /\ Metrics!Appended(b))
      /\ batch' = <<>> /\ queue' = (IF o = "done" THEN rest ELSE <<>>)
      /\ dropped' = (IF o = "done" THEN dropped ELSE dropped + (Len(b) + Len(rest)))
      /\ worker' = (IF o = "done" /\ rest # <<>> THEN "drain" ELSE "off")
      /\ UNCHANGED <<process, now, at, accepting, lost, daily, upkeep, summary, trimmed>>
    BY DEF Metrics!Drain, Metrics!Discarded, Metrics!tableVars, Join, Front, Rest
<1>2. /\ queue \in Seq(Metrics!Events) /\ batch \in Seq(Metrics!Events) /\ Len(queue) \in Nat
      /\ Len(queue) <= Capacity /\ Len(batch) \in Nat /\ Len(batch) <= BatchSize /\ BatchSize \in Nat
      /\ Capacity \in Nat /\ Once(queue) /\ Once(batch) /\ Held(queue) \cap Held(batch) = {}
      /\ Held(queue) \subseteq DOMAIN at /\ Held(batch) \subseteq DOMAIN at /\ dropped \in Nat
      /\ accepting \in BOOLEAN /\ ~accepting
    BY <1>1, MemoryRowTypes, TelemetryConstants DEF HandInv, Metrics!TelemetryTypeOK
<1>3. n \in Nat /\ n <= Len(queue)
    BY <1>2
<1> HIDE DEF n
<1>4. /\ b \in Seq(Metrics!Events) /\ rest \in Seq(Metrics!Events) /\ Once(rest)
      /\ Held(b) \cup Held(rest) = Held(batch) \cup Held(queue)
      /\ Len(b) + Len(rest) = Len(batch) + Len(queue) /\ Len(rest) <= Len(queue)
    <2>1. Held(batch) \cap Held(queue) = {}
        BY <1>2
    <2> QED BY <1>2, <1>3, <2>1, QueueSplits
<1> HIDE DEF b, rest
<1>5. PICK more \in SUBSET (DOMAIN at) : RowsAdded(more) /\ (o = "done" => Held(b) \subseteq more)
    <2>1. Held(b) \in SUBSET (DOMAIN at) /\ {} \in SUBSET (DOMAIN at)
        BY <1>2, <1>4
    <2>2. CASE o = "refused" /\ UNCHANGED <<raw, stored, inTime>>
        <3>1. RowsAdded({})
            BY <2>2, NothingAdded
        <3> QED BY <2>1, <2>2, <3>1
    <2>3. CASE o # "refused" /\ Metrics!Appended(b)
        BY <2>1, <2>3, AddedAre
    <2> QED BY <1>1, <2>2, <2>3
<1>6. /\ <<>> \in Seq(Metrics!Events) /\ Len(<<>>) = 0 /\ Held(<<>>) = {} /\ Once(<<>>)
    BY EmptyHeld
<1>7. Len(b) \in Nat /\ Len(rest) \in Nat
    BY <1>4, SeqDomain
<1>8. Metrics!TelemetryTypeOK'
    <2>1. /\ queue' \in Seq(Metrics!Events) /\ Len(queue') <= Capacity
          /\ batch' \in Seq(Metrics!Events) /\ Len(batch') <= BatchSize
        <3>1. CASE o = "done"
            BY <1>1, <1>2, <1>4, <1>6, <1>7, <3>1
        <3>2. CASE o # "done"
            BY <1>1, <1>2, <1>6, <3>2
        <3> QED BY <3>1, <3>2
    <2>2. worker' \in {"run", "drain", "off"} /\ accepting' \in BOOLEAN /\ dropped' \in Nat
        BY <1>1, <1>2, <1>7
    <2> QED BY <1>1, <1>5, <2>1, <2>2, MemoryTypes
<1>9. HandInv'
    <2>1. Held(rest) \subseteq DOMAIN at
        BY <1>2, <1>4
    <2>2. CASE o = "done"
        <3>1. queue' = rest /\ (worker' = "off" => rest = <<>>)
            BY <1>1, <2>2
        <3> QED BY <1>1, <1>2, <1>4, <1>6, <2>1, <3>1 DEF HandInv
    <2>3. CASE o # "done"
        <3>1. queue' = <<>>
            BY <1>1, <2>3
        <3> QED BY <1>1, <1>2, <1>6, <3>1 DEF HandInv
    <2> QED BY <2>2, <2>3
<1>10. ASSUME o = "done" PROVE EventsInv'
    <2>1. queue' = rest /\ batch' = <<>> /\ dropped' = dropped
        BY <1>1, <1>10
    <2>2. /\ Held(queue') \cup Held(batch') \subseteq Held(queue) \cup Held(batch)
          /\ Held(queue) \cup Held(batch) \subseteq Held(queue') \cup Held(batch') \cup more
        BY <1>4, <1>5, <1>6, <1>10, <2>1
    <2> QED BY <1>1, <1>5, <1>8, <1>9, <2>1, <2>2, MemoryKept
<1>11. ASSUME o # "done" PROVE EventsInv'
    <2>1. queue' = <<>> /\ batch' = <<>> /\ worker' = "off" /\ dropped' = dropped + (Len(b) + Len(rest))
        BY <1>1, <1>11
    <2>2. Metrics!Pending' = {}
        BY <2>1 DEF Metrics!Pending
    <2>3. /\ IsFiniteSet(Metrics!Pending) /\ Metrics!Pending \subseteq DOMAIN at
          /\ Cardinality(Metrics!Pending) = Len(queue) + Len(batch)
        BY <1>2, InHand
    <2>4. dropped' = dropped + Cardinality(Metrics!Pending)
        <3>1. Len(batch) + Len(queue) = Len(queue) + Len(batch)
            BY <1>2
        <3>2. Len(b) + Len(rest) = Cardinality(Metrics!Pending)
            BY <1>4, <2>3, <3>1, Zenon
        <3> QED BY <2>1, <3>2, Zenon
    <2>5. Metrics!Pending \cap Gone = {} /\ Gone \cup Metrics!Pending \subseteq Gone'
        BY <1>1, <2>2, <2>3 DEF Gone
    <2>6. GivenUp' \subseteq GivenUp \cup Metrics!Pending
        <3>1. /\ RowsInv' /\ DOMAIN at \subseteq Metrics!Events
              /\ \A e \in Metrics!Events : stored[e] \in Nat /\ stored'[e] \in Nat /\ stored'[e] >= stored[e]
            BY <1>1, <1>5, AddedRows, MemoryRowTypes, Observed
        <3>2. ASSUME NEW e \in GivenUp' PROVE e \in GivenUp \cup Metrics!Pending
            <4>1. e \in DOMAIN at /\ e \notin lost /\ stored'[e] = 0
                BY <1>1, <3>2 DEF GivenUp
            <4>2. stored[e] = 0
                BY <3>1, <4>1
            <4> QED BY <4>1, <4>2 DEF GivenUp
        <3> QED BY <3>2
    <2>7. RowsInv'
        BY <1>1, <1>5, AddedRows
    <2>8. Accounted'
        BY <1>8, <2>3, <2>4, <2>5, <2>6, SomeGivenUp
    <2> QED BY <1>8, <1>9, <2>7, <2>8
<1>13. RowsStored
    BY <1>1, <1>5 DEF RowsStored
<1> QED BY <1>10, <1>11, <1>13

\* A step that leaves memory and rows alone.
LEMMA MemoryUntouched ==
    ASSUME EventsInv, Metrics!TelemetryTypeOK', HandInv', RowsInv', Metrics!Pending' = Metrics!Pending,
           UNCHANGED <<at, stored, lost, dropped>>
    PROVE  EventsInv'
<1>1. GivenUp' = GivenUp /\ Gone' = Gone
    BY DEF GivenUp, Gone
<1> QED BY <1>1, NoneGivenUp DEF EventsInv

LEMMA StopAcceptingKeeps ==
    ASSUME EventsInv, Metrics!StopAccepting
    PROVE  EventsInv'
<1>1. /\ process = "up" /\ worker = "run" /\ worker' = "drain" /\ accepting' = FALSE
      /\ UNCHANGED <<process, now, at, queue, batch, dropped, lost, raw, stored, inTime, daily, upkeep, summary, trimmed>>
    BY DEF Metrics!StopAccepting, Metrics!tableVars
<1>2. Metrics!TelemetryTypeOK'
    BY <1>1 DEF EventsInv, Metrics!TelemetryTypeOK
<1>3. HandInv'
    BY <1>1 DEF EventsInv, HandInv
<1>4. RowsInv'
    BY <1>1 DEF EventsInv, RowsInv
<1>5. Metrics!Pending' = Metrics!Pending
    BY <1>1 DEF Metrics!Pending
<1> QED BY <1>1, <1>2, <1>3, <1>4, <1>5, MemoryUntouched

\* An observation is in memory, or counted as given up.
LEMMA RecordKeeps ==
    ASSUME EventsInv, NEW valid, Metrics!Record(valid)
    PROVE  EventsInv'
<1> USE DEF EventsInv
<1> DEFINE n == Len(at) + 1
<1>1. /\ process = "up" /\ Len(at) < MaxEvents /\ at' = Append(at, now)
      /\ \/ /\ accepting /\ Len(queue) < Capacity /\ queue' = Append(queue, n) /\ dropped' = dropped
         \/ queue' = queue /\ dropped' = dropped + 1
      /\ UNCHANGED <<process, now, batch, worker, accepting, lost, raw, stored, inTime, daily, upkeep, summary, trimmed>>
    BY DEF Metrics!Record, Metrics!Enters, Metrics!tableVars
<1>2. /\ Len(at) \in Nat /\ DOMAIN at = 1..Len(at) /\ DOMAIN at \subseteq Metrics!Events /\ now \in 0..MaxTime /\ now \in Nat
      /\ MaxEvents \in Nat /\ Metrics!Events = 1..MaxEvents /\ Capacity \in Nat /\ at \in Seq(0..MaxTime)
    BY Observed, TelemetryConstants DEF Metrics!TelemetryTypeOK
<1>3. /\ at' \in Seq(0..MaxTime) /\ Len(at') = n /\ DOMAIN at' = DOMAIN at \cup {n} /\ n \notin DOMAIN at
      /\ at'[n] = now /\ \A e \in DOMAIN at : at'[e] = at[e]
    <2> DEFINE T == 0..MaxTime
    <2>1. at \in Seq(T) /\ now \in T
        BY <1>2
    <2> HIDE DEF T
    <2>2. /\ Append(at, now) \in Seq(T) /\ Len(Append(at, now)) = n
          /\ Append(at, now)[n] = now /\ \A i \in 1..Len(at) : Append(at, now)[i] = at[i]
        BY <2>1, AppendedLast
    <2>3. DOMAIN Append(at, now) = 1..n
        BY <2>2, SeqDomain
    <2>4. 1..n = 1..Len(at) \cup {n} /\ n \notin 1..Len(at)
        BY <1>2
    <2> HIDE DEF n
    <2> QED BY <1>1, <1>2, <2>2, <2>3, <2>4 DEF T
<1>4. n \in Metrics!Events /\ n <= MaxEvents
    BY <1>1, <1>2
<1> HIDE DEF n
<1>5. /\ queue \in Seq(Metrics!Events) /\ batch \in Seq(Metrics!Events) /\ Len(queue) \in Nat
      /\ Len(queue) <= Capacity /\ Len(batch) <= BatchSize /\ dropped \in Nat
      /\ Metrics!Pending = Held(queue) \cup Held(batch) /\ Metrics!Pending \subseteq DOMAIN at
    BY MemoryRowTypes, InHand
<1>6. n \notin Held(queue) /\ n \notin Held(batch)
    BY <1>3, <1>5
<1>7. RowsInv'
    BY <1>1, <1>2, <1>3 DEF RowsInv
<1>8. CASE accepting /\ Len(queue) < Capacity /\ queue' = Append(queue, n) /\ dropped' = dropped
    <2>1. /\ queue' \in Seq(Metrics!Events) /\ Len(queue') = Len(queue) + 1
          /\ Held(queue') = Held(queue) \cup {n} /\ Once(queue')
        BY <1>4, <1>5, <1>6, <1>8, BatchEnd DEF HandInv
    <2>2. Metrics!TelemetryTypeOK'
        <3>1. Len(queue') <= Capacity
            BY <1>2, <1>5, <1>8, <2>1
        <3> QED BY <1>1, <1>3, <1>4, <1>8, <2>1, <3>1 DEF Metrics!TelemetryTypeOK
    <2>3. HandInv'
        BY <1>1, <1>3, <1>5, <1>6, <1>8, <2>1 DEF HandInv
    <2>4. Metrics!Pending' = Metrics!Pending \cup {n}
        BY <1>1, <1>5, <2>1, <2>3, PendingIsHeld
    <2>5. GivenUp' \subseteq GivenUp /\ Gone \subseteq Gone'
        BY <1>1, <1>3, <2>4 DEF GivenUp, Gone
    <2>6. Accounted'
        BY <1>8, <2>2, <2>5, NoneGivenUp
    <2> QED BY <1>7, <2>2, <2>3, <2>6
<1>9. CASE queue' = queue /\ dropped' = dropped + 1
    <2>1. Metrics!TelemetryTypeOK'
        BY <1>1, <1>3, <1>4, <1>5, <1>9 DEF Metrics!TelemetryTypeOK
    <2>2. HandInv'
        BY <1>1, <1>3, <1>9 DEF HandInv
    <2>3. Metrics!Pending' = Metrics!Pending
        BY <1>1, <1>9 DEF Metrics!Pending
    <2>4. GivenUp' \subseteq GivenUp \cup {n}
        BY <1>1, <1>3, <2>3 DEF GivenUp
    <2>5. {n} \cap Gone = {} /\ Gone \cup {n} \subseteq Gone'
        BY <1>3, <1>5, <2>3 DEF Gone
    <2>6. IsFiniteSet({n}) /\ Cardinality({n}) = 1
        BY FS_Singleton
    <2>7. dropped' = dropped + Cardinality({n})
        BY <1>9, <2>6
    <2>8. Accounted'
        BY <2>1, <2>4, <2>5, <2>6, <2>7, SomeGivenUp
    <2> QED BY <1>7, <2>1, <2>2, <2>8
<1> QED BY <1>1, <1>8, <1>9

LEMMA MemoryStands ==
    ASSUME EventsInv, Metrics!TelemetryTypeOK', RowsInv',
           UNCHANGED <<process, at, queue, batch, worker, accepting, dropped, lost, stored>>
    PROVE  EventsInv'
<1>1. HandInv'
    BY DEF EventsInv, HandInv
<1>2. Metrics!Pending' = Metrics!Pending
    BY DEF Metrics!Pending
<1> QED BY <1>1, <1>2, MemoryUntouched

LEMMA RunTypes ==
    ASSUME Metrics!TelemetryTypeOK
    PROVE  /\ upkeep \in Metrics!Upkeep /\ summary \in Metrics!Summary
           /\ upkeep.pc \in {"idle", "loaded", "stored"} /\ upkeep.cutoff \in Int
           /\ upkeep.rows \in [Metrics!Events -> Nat]
           /\ summary.pc \in {"idle", "read", "dated", "done"} /\ summary.query \in Windows \cup {Metrics!NoQuery}
           /\ summary.rows \in [Metrics!Events -> Nat] /\ summary.count \in [Metrics!Days -> Nat]
           /\ summary.due \subseteq Metrics!Events /\ summary.dates \cup summary.late \subseteq Metrics!Days
           /\ daily \in [Metrics!Days -> Nat \cup {Metrics!None}]
BY DEF Metrics!TelemetryTypeOK, Metrics!Upkeep, Metrics!Summary

LEMMA IdleRuns ==
    /\ Metrics!NoRows \in [Metrics!Events -> Nat]
    /\ Metrics!IdleUpkeep \in Metrics!Upkeep /\ Metrics!IdleSummary \in Metrics!Summary
<1>1. Metrics!NoRows \in [Metrics!Events -> Nat]
    BY DEF Metrics!NoRows
<1>2. Metrics!IdleUpkeep \in Metrics!Upkeep
    BY <1>1 DEF Metrics!IdleUpkeep, Metrics!Upkeep
<1>3. [d \in Metrics!Days |-> 0] \in [Metrics!Days -> Nat]
    OBVIOUS
<1>4. Metrics!IdleSummary \in Metrics!Summary
    BY <1>1, <1>3 DEF Metrics!IdleSummary, Metrics!Summary
<1> QED BY <1>1, <1>2, <1>4

LEMMA PassTimeKeeps ==
    ASSUME EventsInv, Metrics!PassTime
    PROVE  EventsInv'
<1>1. /\ now < MaxTime /\ now' = now + 1
      /\ UNCHANGED <<process, at, queue, batch, worker, accepting, dropped, lost, raw, stored, inTime, daily, upkeep, summary, trimmed>>
    BY DEF Metrics!PassTime, Metrics!tableVars, Metrics!memoryVars
<1>2. /\ now \in Nat /\ MaxTime \in Nat /\ \A e \in DOMAIN at : at[e] \in Nat
    BY Observed, TelemetryConstants DEF EventsInv
<1>3. Metrics!TelemetryTypeOK'
    <2>1. now' \in 0..MaxTime
        BY <1>1, <1>2
    <2> QED BY <1>1, <2>1 DEF EventsInv, Metrics!TelemetryTypeOK
<1>4. RowsInv'
    <2>1. \A e \in DOMAIN at : at[e] <= now'
        BY <1>1, <1>2 DEF EventsInv, RowsInv
    <2> QED BY <1>1, <2>1 DEF EventsInv, RowsInv
<1> QED BY <1>1, <1>3, <1>4, MemoryStands

LEMMA LoadEventsKeeps ==
    ASSUME EventsInv, Metrics!LoadEvents
    PROVE  EventsInv'
<1>1. UNCHANGED <<process, now, at, queue, batch, worker, accepting, dropped, lost, raw, stored, inTime, daily, summary, trimmed>>
    BY DEF Metrics!LoadEvents, Metrics!tableVars, Metrics!memoryVars
<1>2. upkeep' \in Metrics!Upkeep
    <2>1. now - 2 * RetentionDays \in Int /\ "loaded" \in {"idle", "loaded", "stored"}
        BY Observed, TelemetryConstants DEF EventsInv
    <2>2. [e \in Metrics!Events |-> IF e \in DOMAIN at /\ Metrics!Day(at[e]) < Metrics!Day(now) THEN raw[e] ELSE 0]
            \in [Metrics!Events -> Nat]
        BY MemoryRowTypes DEF EventsInv
    <2> QED BY <2>1, <2>2 DEF Metrics!LoadEvents, Metrics!Upkeep
<1>3. Metrics!TelemetryTypeOK'
    BY <1>1, <1>2 DEF EventsInv, Metrics!TelemetryTypeOK
<1>4. RowsInv'
    BY <1>1 DEF EventsInv, RowsInv
<1> QED BY <1>1, <1>3, <1>4, MemoryStands

LEMMA AggregateKeeps ==
    ASSUME EventsInv, NEW o, Metrics!AggregateTelemetryDaily(o)
    PROVE  EventsInv'
<1>1. /\ UNCHANGED <<process, now, at, queue, batch, worker, accepting, dropped, lost, raw, stored, inTime, summary, trimmed>>
      /\ upkeep' = [upkeep EXCEPT !.pc = Metrics!AfterAggregation(o)]
      /\ \/ daily' = daily
         \/ daily' = [d \in Metrics!Days |-> IF d \in Metrics!DatesOf(upkeep.rows)
                                             THEN Metrics!RowsOf(upkeep.rows, d) ELSE daily[d]]
    BY DEF Metrics!AggregateTelemetryDaily, Metrics!tableVars, Metrics!memoryVars
<1>2. upkeep' \in Metrics!Upkeep
    <2>1. Metrics!AfterAggregation(o) \in {"idle", "loaded", "stored"}
        BY DEF Metrics!AfterAggregation
    <2> QED BY <1>1, <2>1, RunTypes DEF EventsInv, Metrics!Upkeep
<1>3. daily' \in [Metrics!Days -> Nat \cup {Metrics!None}]
    <2>1. \A d : Metrics!RowsOf(upkeep.rows, d) \in Nat
        BY RunTypes, RowsAreCounted DEF EventsInv
    <2> QED BY <1>1, <2>1, RunTypes DEF EventsInv
<1>4. Metrics!TelemetryTypeOK'
    BY <1>1, <1>2, <1>3 DEF EventsInv, Metrics!TelemetryTypeOK
<1>5. RowsInv'
    BY <1>1 DEF EventsInv, RowsInv
<1> QED BY <1>1, <1>4, <1>5, MemoryStands

LEMMA PurgeKeeps ==
    ASSUME EventsInv, NEW o, Metrics!PurgeTelemetryEvents(o)
    PROVE  EventsInv'
<1> DEFINE old == {e \in DOMAIN at : raw[e] > 0 /\ at[e] < upkeep.cutoff}
<1>1. /\ UNCHANGED <<process, now, at, queue, batch, worker, accepting, dropped, lost, stored, inTime, daily, summary>>
      /\ upkeep' = Metrics!IdleUpkeep
      /\ \/ raw' = raw /\ trimmed' = trimmed
         \/ /\ raw' = [e \in Metrics!Events |-> IF e \in old THEN 0 ELSE raw[e]]
            /\ trimmed' = trimmed \cup {Metrics!Day(at[e]) : e \in old}
    BY DEF Metrics!PurgeTelemetryEvents, Metrics!memoryVars
<1>2. raw' \in [Metrics!Events -> Nat] /\ \A e \in Metrics!Events : raw'[e] <= raw[e] /\ raw[e] \in Nat /\ stored[e] \in Nat
    <2>1. raw \in [Metrics!Events -> Nat] /\ \A e \in Metrics!Events : raw[e] \in Nat /\ stored[e] \in Nat
        BY MemoryRowTypes DEF EventsInv
    <2>2. CASE raw' = raw
        BY <2>1, <2>2
    <2> HIDE DEF old
    <2>3. CASE raw' = [e \in Metrics!Events |-> IF e \in old THEN 0 ELSE raw[e]]
        <3>1. \A e \in Metrics!Events : raw'[e] = IF e \in old THEN 0 ELSE raw[e]
            BY <2>3
        <3>2. raw' \in [Metrics!Events -> Nat]
            BY <2>1, <2>3
        <3> QED BY <2>1, <3>1, <3>2
    <2> QED BY <1>1, <2>2, <2>3 DEF old
<1>3. trimmed' \subseteq Metrics!Days
    <2>1. {Metrics!Day(at[e]) : e \in old} \subseteq Metrics!Days
        BY Observed DEF EventsInv
    <2> QED BY <1>1, <2>1, MemoryRowTypes DEF EventsInv
<1>4. Metrics!TelemetryTypeOK'
    BY <1>1, <1>2, <1>3, IdleRuns DEF EventsInv, Metrics!TelemetryTypeOK
<1>5. RowsInv'
    <2>1. \A e \in Metrics!Events : raw'[e] <= stored[e]
        BY <1>2 DEF EventsInv, RowsInv
    <2> QED BY <1>1, <2>1 DEF EventsInv, RowsInv
<1> QED BY <1>1, <1>4, <1>5, MemoryStands

LEMMA LoadAnalyticsEventsKeeps ==
    ASSUME EventsInv, NEW q \in Metrics!Queries, Metrics!LoadAnalyticsEvents(q)
    PROVE  EventsInv'
<1> DEFINE read == [e \in Metrics!Events |-> IF Metrics!InWindow(e, q) THEN raw[e] ELSE 0]
           due == {e \in inTime : Metrics!InWindow(e, q)}
<1>1. /\ UNCHANGED <<process, now, at, queue, batch, worker, accepting, dropped, lost, raw, stored, inTime, daily, upkeep, trimmed>>
      /\ summary' = [Metrics!IdleSummary EXCEPT !.pc = "read", !.query = q, !.rows = read, !.due = due]
    BY DEF Metrics!LoadAnalyticsEvents, Metrics!tableVars, Metrics!memoryVars
<1>2. q \in Windows \cup {Metrics!NoQuery}
    BY DEF Metrics!Queries
<1>3. read \in [Metrics!Events -> Nat] /\ due \in SUBSET Metrics!Events
    BY MemoryRowTypes DEF EventsInv
<1> HIDE DEF read, due
<1>4. summary' \in Metrics!Summary
    BY <1>1, <1>2, <1>3, IdleRuns DEF Metrics!Summary
<1>5. Metrics!TelemetryTypeOK'
    BY <1>1, <1>4 DEF EventsInv, Metrics!TelemetryTypeOK
<1>6. RowsInv'
    BY <1>1 DEF EventsInv, RowsInv
<1> QED BY <1>1, <1>5, <1>6, MemoryStands

LEMMA LoadDailyDatesKeeps ==
    ASSUME EventsInv, Metrics!LoadDailyDates
    PROVE  EventsInv'
<1>1. /\ UNCHANGED <<process, now, at, queue, batch, worker, accepting, dropped, lost, raw, stored, inTime, daily, upkeep, trimmed>>
      /\ summary' = [summary EXCEPT !.pc = "dated", !.dates = Metrics!RolledUp]
    BY DEF Metrics!LoadDailyDates, Metrics!tableVars, Metrics!memoryVars
<1>2. Metrics!RolledUp \in SUBSET Metrics!Days
    BY DEF Metrics!RolledUp, Metrics!FullDays
<1>3. summary' \in Metrics!Summary
    BY <1>1, <1>2, RunTypes DEF EventsInv, Metrics!Summary
<1>4. Metrics!TelemetryTypeOK'
    BY <1>1, <1>3 DEF EventsInv, Metrics!TelemetryTypeOK
<1>5. RowsInv'
    BY <1>1 DEF EventsInv, RowsInv
<1> QED BY <1>1, <1>4, <1>5, MemoryStands

\* What an answer says of a day.
LEMMA CountOfDay ==
    ASSUME Metrics!TelemetryTypeOK, NEW d \in Metrics!Days
    PROVE  /\ Metrics!Combined(d) \in Nat /\ Metrics!RowsOf(summary.rows, d) \in Nat
           /\ d \in Metrics!DailyRead => d \in Metrics!RolledUp /\ daily[d] # Metrics!None /\ daily[d] \in Nat
           /\ Metrics!Combined(d) = (IF d \in Metrics!DailyRead THEN daily[d] ELSE 0)
                                    + (IF d \in summary.dates THEN 0 ELSE Metrics!RowsOf(summary.rows, d))
<1>1. Metrics!RowsOf(summary.rows, d) \in Nat /\ daily[d] \in Nat \cup {Metrics!None}
    BY RunTypes, RowsAreCounted
<1>2. d \in Metrics!DailyRead => d \in Metrics!RolledUp /\ daily[d] # Metrics!None
    BY DEF Metrics!DailyRead, Metrics!RolledUp
<1>3. Metrics!Combined(d) = (IF d \in Metrics!DailyRead THEN daily[d] ELSE 0)
                            + (IF d \in summary.dates THEN 0 ELSE Metrics!RowsOf(summary.rows, d))
    BY DEF Metrics!Combined, Metrics!ExcludeRolledUpEvents
<1> QED BY <1>1, <1>2, <1>3

LEMMA LoadAnalyticsDailyKeeps ==
    ASSUME EventsInv, Metrics!LoadAnalyticsDaily
    PROVE  EventsInv'
<1> DEFINE count == [d \in Metrics!Days |-> Metrics!Combined(d)]
           late == Metrics!DailyRead \ summary.dates
<1>1. /\ UNCHANGED <<process, now, at, queue, batch, worker, accepting, dropped, lost, raw, stored, inTime, daily, upkeep, trimmed>>
      /\ summary' = [summary EXCEPT !.pc = "done", !.rows = Metrics!NoRows, !.dates = {}, !.count = count, !.late = late]
    BY DEF Metrics!LoadAnalyticsDaily, Metrics!tableVars, Metrics!memoryVars
<1>2. count \in [Metrics!Days -> Nat] /\ late \in SUBSET Metrics!Days
    BY CountOfDay DEF EventsInv, Metrics!DailyRead, Metrics!RolledUp, Metrics!FullDays
<1> HIDE DEF count, late
<1>3. summary' \in Metrics!Summary
    BY <1>1, <1>2, IdleRuns, RunTypes DEF EventsInv, Metrics!Summary
<1>4. Metrics!TelemetryTypeOK'
    BY <1>1, <1>3 DEF EventsInv, Metrics!TelemetryTypeOK
<1>5. RowsInv'
    BY <1>1 DEF EventsInv, RowsInv
<1> QED BY <1>1, <1>4, <1>5, MemoryStands

LEMMA AnswerSummaryKeeps ==
    ASSUME EventsInv, Metrics!AnswerSummary
    PROVE  EventsInv'
<1>1. /\ UNCHANGED <<process, now, at, queue, batch, worker, accepting, dropped, lost, raw, stored, inTime, daily, upkeep, trimmed>>
      /\ summary' = Metrics!IdleSummary
    BY DEF Metrics!AnswerSummary, Metrics!tableVars, Metrics!memoryVars
<1>2. Metrics!TelemetryTypeOK'
    BY <1>1, IdleRuns DEF EventsInv, Metrics!TelemetryTypeOK
<1>3. RowsInv'
    BY <1>1 DEF EventsInv, RowsInv
<1> QED BY <1>1, <1>2, <1>3, MemoryStands

\* What dies with the process is not given up.
LEMMA ForgetEventsKeeps ==
    ASSUME EventsInv, Metrics!ForgetEvents
    PROVE  EventsInv'
<1>1. /\ queue' = <<>> /\ batch' = <<>> /\ worker' = "off" /\ accepting' = FALSE
      /\ lost' = lost \cup Metrics!Pending /\ upkeep' = Metrics!IdleUpkeep /\ summary' = Metrics!IdleSummary
      /\ UNCHANGED <<now, at, dropped, raw, stored, inTime, daily, trimmed>>
    BY DEF Metrics!ForgetEvents, Metrics!tableVars
<1>2. Metrics!Pending \subseteq DOMAIN at /\ DOMAIN at \subseteq Metrics!Events
    BY InHand, MemoryRowTypes, Observed DEF EventsInv
<1>3. Metrics!TelemetryTypeOK'
    <2>1. <<>> \in Seq(Metrics!Events) /\ Len(<<>>) = 0
        OBVIOUS
    <2>2. Len(queue') <= Capacity /\ Len(batch') <= BatchSize
        BY <1>1, <2>1, TelemetryConstants
    <2>3. inTime \cup lost' \subseteq Metrics!Events
        BY <1>1, <1>2, MemoryRowTypes DEF EventsInv
    <2> QED BY <1>1, <2>1, <2>2, <2>3, IdleRuns DEF EventsInv, Metrics!TelemetryTypeOK
<1>4. HandInv'
    BY <1>1, EmptyHeld DEF HandInv
<1>5. RowsInv'
    BY <1>1 DEF EventsInv, RowsInv
<1>6. Metrics!Pending' = {}
    BY <1>1 DEF Metrics!Pending
<1>7. GivenUp' \subseteq GivenUp /\ Gone \subseteq Gone'
    BY <1>1, <1>6 DEF GivenUp, Gone
<1> QED BY <1>1, <1>3, <1>4, <1>5, <1>7, NoneGivenUp DEF EventsInv

LEMMA StartWorkersKeeps ==
    ASSUME EventsInv, process = "down", process' = "up", Metrics!StartWorkers
    PROVE  EventsInv'
<1>1. /\ worker = "off" /\ queue = <<>> /\ batch = <<>> /\ worker' = "run" /\ accepting' = TRUE
      /\ UNCHANGED <<now, at, queue, batch, dropped, lost, raw, stored, inTime, daily, upkeep, summary, trimmed>>
    BY DEF Metrics!StartWorkers, Metrics!tableVars, EventsInv, HandInv
<1>2. Metrics!TelemetryTypeOK'
    BY <1>1 DEF EventsInv, Metrics!TelemetryTypeOK
<1>3. HandInv'
    BY <1>1 DEF EventsInv, HandInv
<1>4. RowsInv'
    BY <1>1 DEF EventsInv, RowsInv
<1>5. Metrics!Pending' = Metrics!Pending
    <2>1. Metrics!Pending' = {}
        BY <1>1, <1>3, PendingIsHeld, EmptyHeld
    <2> QED BY <1>1, <2>1 DEF Metrics!Pending
<1> QED BY <1>1, <1>2, <1>3, <1>4, <1>5, MemoryUntouched

LEMMA EventsInitInv ==
    ASSUME process = "up", Metrics!TelemetryInit
    PROVE  EventsInv
<1>1. /\ now = 0 /\ at = <<>> /\ queue = <<>> /\ batch = <<>> /\ worker = "run" /\ accepting = TRUE /\ dropped = 0
      /\ raw = Metrics!NoRows /\ stored = Metrics!NoRows /\ daily = [d \in Metrics!Days |-> Metrics!None]
      /\ upkeep = Metrics!IdleUpkeep /\ summary = Metrics!IdleSummary
      /\ inTime = {} /\ lost = {} /\ trimmed = {}
    BY DEF Metrics!TelemetryInit
<1>2. Metrics!TelemetryTypeOK
    <2>1. 0 \in 0..MaxTime /\ 0 <= MaxEvents /\ 0 <= Capacity /\ 0 <= BatchSize /\ 0 \in Nat
        BY TelemetryConstants
    <2>2. /\ <<>> \in Seq(0..MaxTime) /\ <<>> \in Seq(Metrics!Events) /\ Len(<<>>) = 0
        OBVIOUS
    <2>3. [d \in Metrics!Days |-> Metrics!None] \in [Metrics!Days -> Nat \cup {Metrics!None}]
        OBVIOUS
    <2> QED BY <1>1, <2>1, <2>2, <2>3, IdleRuns DEF Metrics!TelemetryTypeOK
<1>3. HandInv
    BY <1>1, EmptyHeld DEF HandInv
<1>4. DOMAIN at = {}
    BY <1>1
<1>5. RowsInv
    <2>1. \A e \in Metrics!Events : raw[e] = 0 /\ stored[e] = 0
        BY <1>1 DEF Metrics!NoRows
    <2> QED BY <1>1, <1>4, <2>1 DEF RowsInv
<1>6. Accounted
    <2>1. GivenUp = {} /\ Gone = {}
        BY <1>4 DEF GivenUp, Gone
    <2> QED BY <1>1, <2>1, FS_EmptySet DEF Accounted
<1> QED BY <1>2, <1>3, <1>5, <1>6 DEF EventsInv

LEMMA EventsStepInv ==
    ASSUME EventsInv,
           \/ Metrics!TelemetryNext
           \/ Crash /\ Metrics!ForgetEvents
           \/ Start /\ Metrics!StartWorkers
           \/ UNCHANGED <<process, telemetry>>
    PROVE  EventsInv'
<1>1. CASE Metrics!TelemetryNext
    BY <1>1, RecordKeeps, TakeEvent, TickFlushes, DrainRound, StopAcceptingKeeps, LoadEventsKeeps, AggregateKeeps,
       PurgeKeeps, LoadAnalyticsEventsKeeps, LoadDailyDatesKeeps, LoadAnalyticsDailyKeeps, AnswerSummaryKeeps, PassTimeKeeps
       DEF Metrics!TelemetryNext
<1>2. CASE Crash /\ Metrics!ForgetEvents
    BY <1>2, ForgetEventsKeeps
<1>3. CASE Start /\ Metrics!StartWorkers
    BY <1>3, StartWorkersKeeps DEF Start
<1>4. CASE UNCHANGED <<process, telemetry>>
    <2>1. UNCHANGED <<process, now, at, queue, batch, worker, accepting, dropped, lost, raw, stored, inTime, daily,
                      upkeep, summary, trimmed>>
        BY <1>4 DEF telemetry
    <2>2. Metrics!TelemetryTypeOK'
        BY <2>1 DEF EventsInv, Metrics!TelemetryTypeOK
    <2>3. RowsInv'
        BY <2>1 DEF EventsInv, RowsInv
    <2> QED BY <2>1, <2>2, <2>3, MemoryStands
<1> QED BY <1>1, <1>2, <1>3, <1>4

LEMMA EventsInvHolds == BotSpec => []EventsInv
<1>1. BotInit => EventsInv
    BY EventsInitInv DEF BotInit, Init
<1>2. EventsInv /\ [BotNext]_botVars => EventsInv'
    BY StepsOfParts, EventsStepInv
<1> QED BY <1>1, <1>2, PTL DEF BotSpec

\* Every observation is in memory, in the table or counted as given up, unless it
\* died with a process, and no more are counted than were given up: Record, flush,
\* flushOnShutdown.
THEOREM BotAccountsForEvents == BotSpec => []EventsAreAccounted
<1>1. EventsInv => EventsAreAccounted
    <2> SUFFICES ASSUME EventsInv PROVE EventsAreAccounted
        OBVIOUS
    <2>1. Metrics!TelemetryTypeOK /\ Accounted
        BY DEF EventsInv
    <2>2. Cardinality(GivenUp) <= dropped /\ dropped <= Cardinality(Gone)
        BY <2>1 DEF Accounted
    <2>3. Metrics!EventsAreAccounted
        <3> DEFINE gone == {e \in DOMAIN at : e \notin Metrics!Pending /\ e \notin lost}
        <3>1. {e \in gone : stored[e] = 0} = GivenUp /\ {e \in DOMAIN at : e \notin Metrics!Pending} = Gone
            BY DEF GivenUp, Gone
        <3>2. /\ Metrics!Cardinality({e \in gone : stored[e] = 0}) = Cardinality(GivenUp)
              /\ Metrics!Cardinality({e \in DOMAIN at : e \notin Metrics!Pending}) = Cardinality(Gone)
            BY <3>1, OneCardinality
        <3> QED BY <2>2, <3>2 DEF Metrics!EventsAreAccounted
    <2> QED BY <2>1, <2>3 DEF EventsAreAccounted
<1> QED BY <1>1, EventsInvHolds, PTL

(***************************************************************************)
(* Counts.  An event that was stored on its own day keeps a row until its  *)
(* day is trimmed, and leaves the table for a daily row; a daily row       *)
(* counts those events, and no more rows than there were.  What a          *)
(* maintenance run or a query has read stays true of the tables, since     *)
(* rows of a day that is over are added to, but events are stored on their *)
(* own day on that day only.                                               *)
(***************************************************************************)

DayAt(e) == Metrics!Day(at[e])
Today == Metrics!Day(now)

KeptRows ==
    \A e \in inTime :
        /\ DayAt(e) \notin trimmed => raw[e] >= 1
        /\ raw[e] = 0 => daily[DayAt(e)] # Metrics!None

DailyRows ==
    \A d \in Metrics!Days : daily[d] # Metrics!None =>
        /\ d < Today /\ daily[d] <= Total(stored, Of(d))
        /\ d \notin trimmed => Cardinality(inTime \cap Of(d)) <= daily[d]

\* What the maintenance run has read of the days before today.
UpkeepRead ==
    /\ \A e \in Metrics!Events : upkeep.rows[e] > 0 =>
          e \in DOMAIN at /\ DayAt(e) < Today /\ upkeep.rows[e] <= stored[e]
    /\ \A e \in inTime, x \in DOMAIN at :
          DayAt(e) \notin trimmed /\ upkeep.rows[x] > 0 /\ DayAt(x) = DayAt(e) => upkeep.rows[e] >= 1

\* Events before the cutoff have a daily row when the purge begins.
PurgeReady ==
    /\ upkeep.pc # "idle" => upkeep.cutoff <= now - 2
    /\ \A e \in inTime : at[e] < upkeep.cutoff =>
          /\ upkeep.pc = "loaded" => upkeep.rows[e] >= 1 \/ daily[DayAt(e)] # Metrics!None
          /\ upkeep.pc = "stored" => daily[DayAt(e)] # Metrics!None

\* What a query has read of the events of its window.
QueryRead ==
    /\ \A e \in Metrics!Events : summary.rows[e] > 0 =>
          Metrics!InWindow(e, summary.query) /\ summary.rows[e] <= stored[e]
    /\ \A e \in summary.due : e \in inTime /\ Metrics!InWindow(e, summary.query)
    /\ summary.pc \in {"read", "dated"} => \A e \in summary.due : DayAt(e) \notin trimmed => summary.rows[e] >= 1

\* The days of the dates it has read keep their daily rows.
DatesRead == summary.pc = "dated" => summary.dates \subseteq Metrics!RolledUp

WindowRows == [e \in Metrics!Events |-> IF Metrics!InWindow(e, summary.query) THEN stored[e] ELSE 0]

\* A day whose rows were read without its date may count its events twice.
Allowed(n, d) == n + (IF d \in summary.late THEN n ELSE 0)

AnswerCounts ==
    summary.pc = "done" =>
        \A d \in Metrics!Days :
            /\ summary.count[d] <= Allowed(Total(WindowRows, Of(d)), d)
            /\ d \notin trimmed => Cardinality(summary.due \cap Of(d)) <= summary.count[d]

CountsInv == KeptRows /\ DailyRows /\ UpkeepRead /\ PurgeReady /\ QueryRead /\ DatesRead /\ AnswerCounts

LEMMA DatesStand ==
    ASSUME DatesRead, UNCHANGED summary,
           \A d \in Metrics!Days : daily[d] # Metrics!None => daily'[d] # Metrics!None
    PROVE  DatesRead'
<1>1. Metrics!RolledUp \subseteq Metrics!RolledUp'
    BY DEF Metrics!RolledUp, Metrics!FullDays
<1> QED BY <1>1 DEF DatesRead

LEMMA CountsStand ==
    ASSUME CountsInv, UNCHANGED <<now, at, raw, stored, inTime, daily, upkeep, summary, trimmed>>
    PROVE  CountsInv'
<1>1. Today' = Today /\ (\A e : DayAt(e)' = DayAt(e)) /\ (\A d : Of(d)' = Of(d)) /\ WindowRows' = WindowRows
    BY DEF Today, DayAt, Of, WindowRows, Metrics!InWindow
<1>2. KeptRows' /\ UpkeepRead' /\ PurgeReady'
    BY <1>1 DEF CountsInv, KeptRows, UpkeepRead, PurgeReady
<1>3. DailyRows'
    BY <1>1 DEF CountsInv, DailyRows
<1>4. QueryRead'
    BY <1>1 DEF CountsInv, QueryRead, Metrics!InWindow
<1>5. AnswerCounts'
    BY <1>1 DEF CountsInv, AnswerCounts, Allowed
<1> QED BY <1>2, <1>3, <1>4, <1>5, DatesStand DEF CountsInv

LEMMA EventTimes ==
    ASSUME EventsInv
    PROVE  /\ inTime \subseteq DOMAIN at /\ DOMAIN at \subseteq Metrics!Events
           /\ IsFiniteSet(Metrics!Events) /\ IsFiniteSet(DOMAIN at)
           /\ \A d : Of(d) \subseteq DOMAIN at /\ Of(d) \subseteq Metrics!Events
           /\ \A d, e : e \in Of(d) <=> e \in DOMAIN at /\ DayAt(e) = d
           /\ now \in Nat /\ Today \in Nat /\ Today \in Metrics!Days /\ 2 * Today <= now /\ now < 2 * Today + 2
           /\ \A e \in DOMAIN at :
                /\ at[e] \in Nat /\ at[e] <= now /\ DayAt(e) \in Nat /\ DayAt(e) \in Metrics!Days
                /\ 2 * DayAt(e) <= at[e] /\ at[e] < 2 * DayAt(e) + 2
<1>1. /\ DOMAIN at \subseteq Metrics!Events /\ IsFiniteSet(DOMAIN at) /\ now \in Nat /\ Today \in Metrics!Days
      /\ \A e \in DOMAIN at : at[e] \in Nat /\ DayAt(e) \in Metrics!Days
    BY Observed DEF EventsInv, DayAt, Today
<1>2. inTime \subseteq DOMAIN at /\ \A e \in DOMAIN at : at[e] <= now
    BY DEF EventsInv, RowsInv
<1>3. Today \in Nat /\ 2 * Today <= now /\ now < 2 * Today + 2
    BY <1>1, DayOf DEF Today
<1>4. \A e \in DOMAIN at : DayAt(e) \in Nat /\ 2 * DayAt(e) <= at[e] /\ at[e] < 2 * DayAt(e) + 2
    BY <1>1, DayOf DEF DayAt
<1>5. \A d, e : e \in Of(d) <=> e \in DOMAIN at /\ DayAt(e) = d
    BY DEF Of, DayAt
<1>6. \A d : Of(d) \subseteq DOMAIN at /\ Of(d) \subseteq Metrics!Events
    BY <1>1, <1>5
<1> QED BY <1>1, <1>2, <1>3, <1>4, <1>5, <1>6, TelemetryConstants

\* Sums over a day grow with its rows.
LEMMA DayGrows ==
    ASSUME NEW f, NEW g, NEW s, NEW u \in SUBSET Metrics!Events, s \subseteq u,
           \A e \in Metrics!Events : f[e] \in Nat /\ g[e] \in Nat /\ f[e] <= g[e]
    PROVE  Total(f, s) <= Total(g, u) /\ Total(f, s) \in Nat /\ Total(g, u) \in Nat
<1>1. IsFiniteSet(Metrics!Events) /\ s \in SUBSET Metrics!Events
    BY TelemetryConstants
<1>2. Total(f, s) <= Total(g, u)
    BY <1>1, TotalGrows
<1>3. Total(f, s) \in Nat /\ Total(g, u) \in Nat
    BY <1>1, TotalUnfolds
<1> QED BY <1>2, <1>3

LEMMA DayCounts ==
    ASSUME NEW f, NEW c, NEW u \in SUBSET Metrics!Events, c \subseteq u,
           \A e \in Metrics!Events : f[e] \in Nat, \A e \in c : f[e] >= 1
    PROVE  Cardinality(c) <= Total(f, u)
BY TelemetryConstants, TotalCounts

LEMMA ReadTypes ==
    ASSUME EventsInv
    PROVE  /\ \A e \in Metrics!Events : /\ raw[e] \in Nat /\ stored[e] \in Nat /\ upkeep.rows[e] \in Nat
                                        /\ summary.rows[e] \in Nat /\ WindowRows[e] \in Nat
                                        /\ raw[e] <= stored[e] /\ (stored[e] > 0 => e \in DOMAIN at)
                                        /\ WindowRows[e] = IF Metrics!InWindow(e, summary.query) THEN stored[e] ELSE 0
           /\ \A d \in Metrics!Days : daily[d] \in Int /\ (daily[d] # Metrics!None => daily[d] \in Nat)
                                      /\ summary.count[d] \in Nat
           /\ Metrics!None \notin Nat
<1>1. /\ \A e \in Metrics!Events : raw[e] \in Nat /\ stored[e] \in Nat /\ upkeep.rows[e] \in Nat /\ summary.rows[e] \in Nat
      /\ \A d \in Metrics!Days : daily[d] \in Nat \cup {Metrics!None} /\ summary.count[d] \in Nat
    BY MemoryRowTypes, RunTypes DEF EventsInv
<1>2. \A e \in Metrics!Events : raw[e] <= stored[e] /\ (stored[e] > 0 => e \in DOMAIN at)
    BY DEF EventsInv, RowsInv
<1>3. \A e \in Metrics!Events : WindowRows[e] = IF Metrics!InWindow(e, summary.query) THEN stored[e] ELSE 0
    BY DEF WindowRows
<1>4. Metrics!None \notin Nat /\ Metrics!None \in Int
    BY DEF Metrics!None
<1> QED BY <1>1, <1>2, <1>3, <1>4

\* Rows are added: to the days that are over too, but not of events of those days
\* that were stored in time.
LEMMA CountsAdded ==
    ASSUME EventsInv, CountsInv, NEW more \in SUBSET (DOMAIN at), RowsAdded(more),
           UNCHANGED <<now, at, daily, upkeep, summary, trimmed>>
    PROVE  CountsInv'
<1>1. Today' = Today /\ (\A e : DayAt(e)' = DayAt(e)) /\ (\A d : Of(d)' = Of(d))
    BY DEF Today, DayAt, Of
<1>2. /\ \A e \in Metrics!Events : /\ raw'[e] \in Nat /\ stored'[e] \in Nat /\ stored'[e] >= stored[e] /\ raw'[e] >= raw[e]
                                   /\ e \in more => raw'[e] > 0
      /\ inTime \subseteq inTime' /\ inTime' \subseteq DOMAIN at
      /\ \A e \in inTime' : e \in inTime \/ (e \in more /\ DayAt(e) = Today)
    <2>1. /\ raw' \in [Metrics!Events -> Nat] /\ stored' \in [Metrics!Events -> Nat]
          /\ \A e \in Metrics!Events : /\ stored'[e] >= stored[e] /\ raw'[e] >= raw[e]
                                       /\ e \in more => stored'[e] > 0 /\ raw'[e] > 0
        BY AddedRows DEF EventsInv
    <2>2. /\ inTime \subseteq inTime' /\ inTime' \subseteq DOMAIN at
          /\ \A e \in inTime' : e \in inTime \/ (e \in more /\ DayAt(e) = Today)
        BY EventTimes DEF RowsAdded, DayAt, Today
    <2> QED BY <2>1, <2>2
<1>3. KeptRows'
    <2> SUFFICES ASSUME NEW e \in inTime'
                 PROVE  (DayAt(e) \notin trimmed => raw'[e] >= 1) /\ (raw'[e] = 0 => daily[DayAt(e)] # Metrics!None)
        BY <1>1 DEF KeptRows
    <2>1. e \in Metrics!Events
        BY <1>2, EventTimes
    <2>2. CASE e \in inTime
        BY <1>2, <2>1, <2>2, ReadTypes DEF CountsInv, KeptRows
    <2>3. CASE e \in more
        BY <1>2, <2>1, <2>3
    <2> QED BY <1>2, <2>2, <2>3
<1>4. DailyRows'
    <2> SUFFICES ASSUME NEW d \in Metrics!Days, daily[d] # Metrics!None
                 PROVE  /\ d < Today /\ daily[d] <= Total(stored', Of(d))
                        /\ d \notin trimmed => Cardinality(inTime' \cap Of(d)) <= daily[d]
        BY <1>1 DEF DailyRows
    <2>1. /\ d < Today /\ daily[d] <= Total(stored, Of(d)) /\ daily[d] \in Nat
          /\ d \notin trimmed => Cardinality(inTime \cap Of(d)) <= daily[d]
        BY ReadTypes DEF CountsInv, DailyRows
    <2>2. /\ Total(stored, Of(d)) <= Total(stored', Of(d)) /\ Total(stored, Of(d)) \in Nat /\ Total(stored', Of(d)) \in Nat
        <3>1. \A e \in Metrics!Events : stored[e] \in Nat /\ stored'[e] \in Nat /\ stored[e] <= stored'[e]
            BY <1>2, ReadTypes
        <3>2. Of(d) \in SUBSET Metrics!Events
            BY EventTimes
        <3> QED BY <3>1, <3>2, DayGrows
    <2>3. inTime' \cap Of(d) = inTime \cap Of(d)
        <3>1. \A e \in inTime' : e \in Of(d) => e \in inTime
            BY <1>2, <2>1, EventTimes
        <3> QED BY <1>2, <3>1
    <2>4. daily[d] <= Total(stored', Of(d))
        BY <2>1, <2>2
    <2> QED BY <2>1, <2>3, <2>4
<1>5. UpkeepRead'
    <2>1. ASSUME NEW e \in Metrics!Events, upkeep.rows[e] > 0
          PROVE  e \in DOMAIN at /\ DayAt(e) < Today /\ upkeep.rows[e] <= stored'[e]
        <3>1. e \in DOMAIN at /\ DayAt(e) < Today /\ upkeep.rows[e] <= stored[e]
            BY <2>1 DEF CountsInv, UpkeepRead
        <3> QED BY <1>2, <3>1, ReadTypes
    <2>2. ASSUME NEW e \in inTime', NEW x \in DOMAIN at, DayAt(e) \notin trimmed, upkeep.rows[x] > 0, DayAt(x) = DayAt(e)
          PROVE  upkeep.rows[e] >= 1
        <3>1. x \in Metrics!Events /\ Today \in Nat
            BY EventTimes
        <3>2. DayAt(x) < Today
            BY <2>2, <3>1 DEF CountsInv, UpkeepRead
        <3>3. e \in inTime
            BY <1>2, <2>2, <3>1, <3>2
        <3> QED BY <2>2, <3>3 DEF CountsInv, UpkeepRead
    <2> QED BY <1>1, <2>1, <2>2 DEF UpkeepRead
<1>6. PurgeReady'
    <2>1. ASSUME NEW e \in inTime', at[e] < upkeep.cutoff, upkeep.pc # "idle"
          PROVE  e \in inTime
        <3>1. upkeep.cutoff <= now - 2 /\ upkeep.cutoff \in Int /\ e \in DOMAIN at
            BY <1>2, <2>1, RunTypes DEF CountsInv, PurgeReady, EventsInv
        <3>2. DayAt(e) # Today
            BY <2>1, <3>1, EventTimes
        <3> QED BY <1>2, <3>2
    <2>2. ASSUME NEW e \in inTime', at[e] < upkeep.cutoff
          PROVE  /\ upkeep.pc = "loaded" => upkeep.rows[e] >= 1 \/ daily[DayAt(e)] # Metrics!None
                 /\ upkeep.pc = "stored" => daily[DayAt(e)] # Metrics!None
        BY <2>1, <2>2 DEF CountsInv, PurgeReady
    <2> QED BY <1>1, <2>2 DEF CountsInv, PurgeReady
<1>7. \A e : Metrics!InWindow(e, summary.query)' <=> Metrics!InWindow(e, summary.query)
    BY DEF Metrics!InWindow
<1>8. QueryRead'
    <2>1. ASSUME NEW e \in Metrics!Events, summary.rows[e] > 0
          PROVE  Metrics!InWindow(e, summary.query) /\ summary.rows[e] <= stored'[e]
        <3>1. Metrics!InWindow(e, summary.query) /\ summary.rows[e] <= stored[e]
            BY <2>1 DEF CountsInv, QueryRead
        <3> QED BY <1>2, <3>1, ReadTypes
    <2>2. /\ \A e \in summary.due : e \in inTime' /\ Metrics!InWindow(e, summary.query)
          /\ summary.pc \in {"read", "dated"} => \A e \in summary.due : DayAt(e) \notin trimmed => summary.rows[e] >= 1
        BY <1>2 DEF CountsInv, QueryRead
    <2> QED BY <1>1, <1>7, <2>1, <2>2 DEF QueryRead
<1>9. AnswerCounts'
    <2> SUFFICES ASSUME summary.pc = "done", NEW d \in Metrics!Days
                 PROVE  /\ summary.count[d] <= Allowed(Total(WindowRows', Of(d)), d)
                        /\ d \notin trimmed => Cardinality(summary.due \cap Of(d)) <= summary.count[d]
        BY <1>1 DEF AnswerCounts, Allowed
    <2>1. /\ summary.count[d] <= Allowed(Total(WindowRows, Of(d)), d) /\ summary.count[d] \in Nat
          /\ d \notin trimmed => Cardinality(summary.due \cap Of(d)) <= summary.count[d]
        BY ReadTypes DEF CountsInv, AnswerCounts
    <2>2. \A e \in Metrics!Events : WindowRows'[e] = IF Metrics!InWindow(e, summary.query) THEN stored'[e] ELSE 0
        BY <1>7 DEF WindowRows
    <2>3. \A e \in Metrics!Events : WindowRows[e] \in Nat /\ WindowRows'[e] \in Nat /\ WindowRows[e] <= WindowRows'[e]
        BY <1>2, <2>2, ReadTypes
    <2>4. Of(d) \in SUBSET Metrics!Events
        BY EventTimes
    <2>5. Total(WindowRows, Of(d)) <= Total(WindowRows', Of(d)) /\ Total(WindowRows, Of(d)) \in Nat /\ Total(WindowRows', Of(d)) \in Nat
        BY <2>3, <2>4, DayGrows
    <2>6. summary.count[d] <= Allowed(Total(WindowRows', Of(d)), d)
        BY <2>1, <2>5 DEF Allowed
    <2> QED BY <2>1, <2>6
<1> QED BY <1>3, <1>4, <1>5, <1>6, <1>8, <1>9, DatesStand DEF CountsInv

LEMMA RecordCounts ==
    ASSUME EventsInv, CountsInv, NEW valid, Metrics!Record(valid)
    PROVE  CountsInv'
<1> DEFINE n == Len(at) + 1
<1>1. at' = Append(at, now) /\ UNCHANGED <<now, raw, stored, inTime, daily, upkeep, summary, trimmed>>
    BY DEF Metrics!Record, Metrics!tableVars
<1>2. DOMAIN at' = DOMAIN at \cup {n} /\ n \notin DOMAIN at /\ at'[n] = now /\ \A e \in DOMAIN at : at'[e] = at[e]
    <2>1. at \in Seq(0..MaxTime) /\ now \in 0..MaxTime
        BY DEF EventsInv, Metrics!TelemetryTypeOK
    <2> DEFINE T == 0..MaxTime
    <2>2. at \in Seq(T) /\ now \in T
        BY <2>1
    <2> HIDE DEF T
    <2>3. /\ Append(at, now) \in Seq(T) /\ Len(Append(at, now)) = n /\ Len(at) \in Nat
          /\ Append(at, now)[n] = now /\ \A i \in 1..Len(at) : Append(at, now)[i] = at[i]
        BY <2>2, AppendedLast, SeqDomain
    <2>4. DOMAIN Append(at, now) = 1..n /\ DOMAIN at = 1..Len(at)
        BY <2>2, <2>3, SeqDomain
    <2>5. 1..n = 1..Len(at) \cup {n} /\ n \notin 1..Len(at)
        BY <2>3
    <2> HIDE DEF n
    <2> QED BY <1>1, <2>3, <2>4, <2>5
<1> HIDE DEF n
<1>3. DOMAIN at' \subseteq Metrics!Events
    <2>1. EventsInv'
        BY RecordKeeps
    <2>2. at' \in Seq(0..MaxTime) /\ Len(at') <= MaxEvents
        BY <2>1 DEF EventsInv, Metrics!TelemetryTypeOK
    <2> DEFINE k == Len(at')
    <2>3. k \in Nat /\ DOMAIN at' = 1..k
        BY <2>2, SeqDomain
    <2>4. k <= MaxEvents
        BY <2>2
    <2> HIDE DEF k
    <2> QED BY <2>3, <2>4, TelemetryConstants
<1>4. /\ Today' = Today /\ (\A e \in DOMAIN at : DayAt(e)' = DayAt(e))
      /\ \A e \in DOMAIN at : e \in DOMAIN at' /\ (Metrics!InWindow(e, summary.query)' <=> Metrics!InWindow(e, summary.query))
    BY <1>1, <1>2 DEF Today, DayAt, Metrics!InWindow
<1>5. \A d : /\ Of(d)' \subseteq Metrics!Events /\ Of(d) \subseteq Of(d)'
             /\ \A e \in DOMAIN at : e \in Of(d)' <=> e \in Of(d)
    BY <1>2, <1>3, <1>4 DEF Of, DayAt
<1>6. inTime \subseteq DOMAIN at /\ \A e \in summary.due : e \in DOMAIN at
    BY EventTimes DEF CountsInv, QueryRead
<1>7. KeptRows'
    BY <1>1, <1>4, <1>6 DEF CountsInv, KeptRows
<1>8. DailyRows'
    <2> SUFFICES ASSUME NEW d \in Metrics!Days, daily[d] # Metrics!None
                 PROVE  /\ d < Today /\ daily[d] <= Total(stored, Of(d)')
                        /\ d \notin trimmed => Cardinality(inTime \cap Of(d)') <= daily[d]
        BY <1>1, <1>4 DEF DailyRows
    <2>1. /\ d < Today /\ daily[d] <= Total(stored, Of(d)) /\ daily[d] \in Nat
          /\ d \notin trimmed => Cardinality(inTime \cap Of(d)) <= daily[d]
        BY ReadTypes DEF CountsInv, DailyRows
    <2>2. /\ Total(stored, Of(d)) <= Total(stored, Of(d)') /\ Total(stored, Of(d)) \in Nat /\ Total(stored, Of(d)') \in Nat
        <3>1. \A e \in Metrics!Events : stored[e] \in Nat /\ stored[e] <= stored[e]
            BY ReadTypes
        <3>2. Of(d)' \in SUBSET Metrics!Events /\ Of(d) \subseteq Of(d)'
            BY <1>5
        <3> QED BY <3>1, <3>2, DayGrows
    <2>3. inTime \cap Of(d)' = inTime \cap Of(d)
        BY <1>5, <1>6
    <2>4. daily[d] <= Total(stored, Of(d)')
        BY <2>1, <2>2
    <2> QED BY <2>1, <2>3, <2>4
<1>9. UpkeepRead'
    <2>1. ASSUME NEW e \in Metrics!Events, upkeep.rows[e] > 0
          PROVE  e \in DOMAIN at' /\ DayAt(e)' < Today /\ upkeep.rows[e] <= stored[e] /\ e \in DOMAIN at
        BY <1>4, <2>1 DEF CountsInv, UpkeepRead
    <2>2. ASSUME NEW e \in inTime, NEW x \in DOMAIN at', DayAt(e)' \notin trimmed, upkeep.rows[x] > 0, DayAt(x)' = DayAt(e)'
          PROVE  upkeep.rows[e] >= 1
        <3>1. x \in DOMAIN at
            BY <1>3, <2>1, <2>2
        <3> QED BY <1>4, <1>6, <2>2, <3>1 DEF CountsInv, UpkeepRead
    <2> QED BY <1>1, <1>4, <2>1, <2>2 DEF UpkeepRead
<1>10. PurgeReady'
    BY <1>1, <1>2, <1>4, <1>6 DEF CountsInv, PurgeReady
<1>11. QueryRead'
    <2>1. ASSUME NEW e \in Metrics!Events, summary.rows[e] > 0
          PROVE  Metrics!InWindow(e, summary.query)' /\ summary.rows[e] <= stored[e]
        <3>1. Metrics!InWindow(e, summary.query) /\ summary.rows[e] <= stored[e]
            BY <2>1 DEF CountsInv, QueryRead
        <3>2. e \in DOMAIN at
            BY <3>1 DEF Metrics!InWindow
        <3> QED BY <1>4, <3>1, <3>2
    <2>2. \A e \in summary.due : e \in inTime /\ Metrics!InWindow(e, summary.query)'
        BY <1>4, <1>6 DEF CountsInv, QueryRead
    <2>3. summary.pc \in {"read", "dated"} => \A e \in summary.due : DayAt(e)' \notin trimmed => summary.rows[e] >= 1
        BY <1>4, <1>6 DEF CountsInv, QueryRead
    <2> QED BY <1>1, <2>1, <2>2, <2>3 DEF QueryRead
<1>12. AnswerCounts'
    <2> SUFFICES ASSUME summary.pc = "done", NEW d \in Metrics!Days
                 PROVE  /\ summary.count[d] <= Allowed(Total(WindowRows', Of(d)'), d)
                        /\ d \notin trimmed => Cardinality(summary.due \cap Of(d)') <= summary.count[d]
        BY <1>1 DEF AnswerCounts, Allowed
    <2>1. /\ summary.count[d] <= Allowed(Total(WindowRows, Of(d)), d) /\ summary.count[d] \in Nat
          /\ d \notin trimmed => Cardinality(summary.due \cap Of(d)) <= summary.count[d]
        BY ReadTypes DEF CountsInv, AnswerCounts
    <2>2. \A e \in Metrics!Events : WindowRows'[e] = IF Metrics!InWindow(e, summary.query)' THEN stored[e] ELSE 0
        BY <1>1 DEF WindowRows
    <2>3. \A e \in Metrics!Events : WindowRows[e] \in Nat /\ WindowRows'[e] \in Nat /\ WindowRows[e] <= WindowRows'[e]
        <3> SUFFICES ASSUME NEW e \in Metrics!Events
                     PROVE  WindowRows[e] \in Nat /\ WindowRows'[e] \in Nat /\ WindowRows[e] <= WindowRows'[e]
            OBVIOUS
        <3>1. WindowRows[e] = (IF Metrics!InWindow(e, summary.query) THEN stored[e] ELSE 0) /\ stored[e] \in Nat
            BY ReadTypes
        <3>2. CASE Metrics!InWindow(e, summary.query)
            <4>1. Metrics!InWindow(e, summary.query)'
                BY <1>4, <3>2 DEF Metrics!InWindow
            <4> QED BY <2>2, <3>1, <3>2, <4>1
        <3>3. CASE ~Metrics!InWindow(e, summary.query)
            BY <2>2, <3>1, <3>3
        <3> QED BY <3>2, <3>3
    <2>4. Of(d)' \in SUBSET Metrics!Events /\ Of(d) \subseteq Of(d)'
        BY <1>5
    <2>5. /\ Total(WindowRows, Of(d)) <= Total(WindowRows', Of(d)')
          /\ Total(WindowRows, Of(d)) \in Nat /\ Total(WindowRows', Of(d)') \in Nat
        BY <2>3, <2>4, DayGrows
    <2>6. summary.count[d] <= Allowed(Total(WindowRows', Of(d)'), d)
        BY <2>1, <2>5 DEF Allowed
    <2>7. summary.due \cap Of(d)' = summary.due \cap Of(d)
        BY <1>5, <1>6
    <2> QED BY <2>1, <2>6, <2>7
<1> QED BY <1>1, <1>7, <1>8, <1>9, <1>10, <1>11, <1>12, DatesStand DEF CountsInv

LEMMA PassTimeCounts ==
    ASSUME EventsInv, CountsInv, Metrics!PassTime
    PROVE  CountsInv'
<1>1. now' = now + 1 /\ UNCHANGED <<at, raw, stored, inTime, daily, upkeep, summary, trimmed>>
    BY DEF Metrics!PassTime, Metrics!tableVars
<1>2. /\ (\A e : DayAt(e)' = DayAt(e)) /\ (\A d : Of(d)' = Of(d)) /\ WindowRows' = WindowRows
      /\ \A e, q : Metrics!InWindow(e, q)' <=> Metrics!InWindow(e, q)
    BY <1>1 DEF DayAt, Of, WindowRows, Metrics!InWindow
<1>3. Today \in Nat /\ Today' \in Nat /\ Today <= Today' /\ now \in Nat
    <2>1. now \in Nat
        BY EventTimes
    <2>2. now' \in Nat /\ now <= now'
        BY <1>1, <2>1
    <2> QED BY <2>1, <2>2, DaysPass, DayOf DEF Today
<1>4. KeptRows'
    BY <1>1, <1>2 DEF CountsInv, KeptRows
<1>5. DailyRows'
    <2>1. \A d \in Metrics!Days : d \in Nat
        BY TelemetryConstants
    <2>2. \A d \in Metrics!Days : d < Today => d < Today'
        BY <1>3, <2>1
    <2> QED BY <1>1, <1>2, <2>2 DEF CountsInv, DailyRows
<1>6. UpkeepRead'
    <2>1. \A e \in DOMAIN at : DayAt(e) < Today => DayAt(e) < Today'
        BY <1>3, EventTimes
    <2> QED BY <1>1, <1>2, <2>1 DEF CountsInv, UpkeepRead
<1>7. PurgeReady'
    <2>1. upkeep.pc # "idle" => upkeep.cutoff <= now' - 2
        BY <1>1, <1>3, RunTypes DEF CountsInv, PurgeReady, EventsInv
    <2> QED BY <1>1, <1>2, <2>1 DEF CountsInv, PurgeReady
<1>8. QueryRead'
    BY <1>1, <1>2 DEF CountsInv, QueryRead
<1>9. AnswerCounts'
    BY <1>1, <1>2 DEF CountsInv, AnswerCounts, Allowed
<1> QED BY <1>1, <1>4, <1>5, <1>6, <1>7, <1>8, <1>9, DatesStand DEF CountsInv

LEMMA LoadEventsCounts ==
    ASSUME EventsInv, CountsInv, Metrics!LoadEvents
    PROVE  CountsInv'
<1> DEFINE read == [e \in Metrics!Events |-> IF e \in DOMAIN at /\ Metrics!Day(at[e]) < Metrics!Day(now) THEN raw[e] ELSE 0]
           run == [pc |-> "loaded", cutoff |-> now - 2 * RetentionDays, rows |-> read]
<1>1. upkeep' = run /\ UNCHANGED <<now, at, raw, stored, inTime, daily, summary, trimmed>>
    BY DEF Metrics!LoadEvents, Metrics!tableVars
<1>2. run.pc = "loaded" /\ run.cutoff = now - 2 * RetentionDays /\ run.rows = read
    OBVIOUS
<1>3. \A e \in Metrics!Events : read[e] = IF e \in DOMAIN at /\ DayAt(e) < Today THEN raw[e] ELSE 0
    BY DEF DayAt, Today
<1> HIDE DEF read, run
<1>4. /\ Today' = Today /\ (\A e : DayAt(e)' = DayAt(e)) /\ (\A d : Of(d)' = Of(d)) /\ WindowRows' = WindowRows
      /\ \A e, q : Metrics!InWindow(e, q)' <=> Metrics!InWindow(e, q)
    BY <1>1 DEF Today, DayAt, Of, WindowRows, Metrics!InWindow
<1>5. now - 2 * RetentionDays <= now - 2 /\ now - 2 * RetentionDays \in Int /\ now \in Nat
    BY EventTimes, TelemetryConstants
<1>6. UpkeepRead'
    <2>1. ASSUME NEW e \in Metrics!Events, read[e] > 0
          PROVE  e \in DOMAIN at /\ DayAt(e) < Today /\ read[e] <= stored[e]
        BY <1>3, <2>1, ReadTypes
    <2>2. ASSUME NEW e \in inTime, NEW x \in DOMAIN at, DayAt(e) \notin trimmed, read[x] > 0, DayAt(x) = DayAt(e)
          PROVE  read[e] >= 1
        <3>1. x \in Metrics!Events /\ e \in Metrics!Events /\ e \in DOMAIN at
            BY EventTimes
        <3>2. DayAt(x) < Today
            BY <2>1, <2>2, <3>1
        <3>3. raw[e] >= 1
            BY <2>2 DEF CountsInv, KeptRows
        <3> QED BY <1>3, <2>2, <3>1, <3>2, <3>3
    <2> QED BY <1>1, <1>2, <1>4, <2>1, <2>2 DEF UpkeepRead
<1>7. PurgeReady'
    <2>1. ASSUME NEW e \in inTime, at[e] < now - 2 * RetentionDays
          PROVE  read[e] >= 1 \/ daily[DayAt(e)] # Metrics!None
        <3>1. e \in Metrics!Events /\ e \in DOMAIN at /\ raw[e] \in Nat
            BY EventTimes, ReadTypes
        <3>2. DayAt(e) < Today
            BY <1>5, <2>1, <3>1, EventTimes
        <3>3. read[e] = raw[e]
            BY <1>3, <3>1, <3>2
        <3>4. raw[e] = 0 => daily[DayAt(e)] # Metrics!None
            BY DEF CountsInv, KeptRows
        <3> QED BY <3>1, <3>3, <3>4
    <2> QED BY <1>1, <1>2, <1>4, <1>5, <2>1 DEF PurgeReady
<1>8. KeptRows' /\ DailyRows' /\ QueryRead' /\ AnswerCounts'
    BY <1>1, <1>4 DEF CountsInv, KeptRows, DailyRows, QueryRead, AnswerCounts, Allowed
<1> QED BY <1>1, <1>6, <1>7, <1>8, DatesStand DEF CountsInv

\* The daily rows of the days that were read count what was read of them.
LEMMA AggregateCounts ==
    ASSUME EventsInv, CountsInv, NEW o, Metrics!AggregateTelemetryDaily(o)
    PROVE  CountsInv'
<1> DEFINE rolled == [d \in Metrics!Days |-> IF d \in Metrics!DatesOf(upkeep.rows)
                                             THEN Metrics!RowsOf(upkeep.rows, d) ELSE daily[d]]
<1>1. /\ UNCHANGED <<now, at, raw, stored, inTime, summary, trimmed>>
      /\ upkeep.pc = "loaded" /\ upkeep' = [upkeep EXCEPT !.pc = Metrics!AfterAggregation(o)]
      /\ (o = "refused" /\ daily' = daily) \/ daily' = rolled
    BY DEF Metrics!AggregateTelemetryDaily, Metrics!tableVars
<1>2. /\ upkeep'.pc = (IF o = "done" THEN "stored" ELSE "idle") /\ upkeep'.cutoff = upkeep.cutoff
      /\ upkeep'.rows = upkeep.rows
    BY <1>1, RunTypes DEF EventsInv, Metrics!AfterAggregation, Metrics!Upkeep
<1>3. /\ Today' = Today /\ (\A e : DayAt(e)' = DayAt(e)) /\ (\A d : Of(d)' = Of(d)) /\ WindowRows' = WindowRows
      /\ \A e, q : Metrics!InWindow(e, q)' <=> Metrics!InWindow(e, q)
    BY <1>1 DEF Today, DayAt, Of, WindowRows, Metrics!InWindow
<1>4. \A d : d \in Metrics!DatesOf(upkeep.rows) <=> \E x \in DOMAIN at : upkeep.rows[x] > 0 /\ DayAt(x) = d
    BY DEF Metrics!DatesOf, DayAt
<1>5. ASSUME NEW d \in Metrics!Days
      PROVE  \/ daily'[d] = daily[d] /\ (daily' = daily \/ d \notin Metrics!DatesOf(upkeep.rows))
             \/ daily'[d] = Total(upkeep.rows, Of(d)) /\ d \in Metrics!DatesOf(upkeep.rows) /\ daily' = rolled
    BY <1>1, RowsOfTotal
<1>6. ASSUME NEW d \in Metrics!Days
      PROVE  Total(upkeep.rows, Of(d)) \in Nat /\ Total(upkeep.rows, Of(d)) <= Total(stored, Of(d))
    <2>1. \A e \in Metrics!Events : upkeep.rows[e] \in Nat /\ stored[e] \in Nat /\ upkeep.rows[e] <= stored[e]
        <3>1. \A e \in Metrics!Events : upkeep.rows[e] > 0 => upkeep.rows[e] <= stored[e]
            BY DEF CountsInv, UpkeepRead
        <3> QED BY <3>1, ReadTypes
    <2>2. Of(d) \in SUBSET Metrics!Events
        BY EventTimes
    <2> QED BY <2>1, <2>2, DayGrows
<1> HIDE DEF rolled
<1>7. \A d \in Metrics!Days : daily[d] # Metrics!None => daily'[d] # Metrics!None
    BY <1>5, <1>6, ReadTypes
<1>8. KeptRows'
    <2>1. \A e \in inTime : DayAt(e) \in Metrics!Days
        BY EventTimes
    <2> QED BY <1>1, <1>3, <1>7, <2>1 DEF CountsInv, KeptRows
<1>9. DailyRows'
    <2> SUFFICES ASSUME NEW d \in Metrics!Days, daily'[d] # Metrics!None
                 PROVE  /\ d < Today /\ daily'[d] <= Total(stored, Of(d))
                        /\ d \notin trimmed => Cardinality(inTime \cap Of(d)) <= daily'[d]
        BY <1>1, <1>3 DEF DailyRows
    <2>1. CASE daily'[d] = daily[d]
        BY <2>1 DEF CountsInv, DailyRows
    <2>2. CASE daily'[d] = Total(upkeep.rows, Of(d)) /\ d \in Metrics!DatesOf(upkeep.rows)
        <3>1. PICK x \in DOMAIN at : upkeep.rows[x] > 0 /\ DayAt(x) = d
            BY <1>4, <2>2
        <3>2. d < Today
            BY <3>1, EventTimes DEF CountsInv, UpkeepRead
        <3>3. ASSUME d \notin trimmed PROVE Cardinality(inTime \cap Of(d)) <= Total(upkeep.rows, Of(d))
            <4>1. \A e \in inTime \cap Of(d) : upkeep.rows[e] >= 1
                BY <3>1, <3>3, EventTimes DEF CountsInv, UpkeepRead
            <4>2. \A e \in Metrics!Events : upkeep.rows[e] \in Nat
                BY ReadTypes
            <4>3. Of(d) \in SUBSET Metrics!Events /\ inTime \cap Of(d) \subseteq Of(d)
                BY EventTimes
            <4> QED BY <4>1, <4>2, <4>3, DayCounts
        <3> QED BY <1>6, <2>2, <3>2, <3>3
    <2> QED BY <1>5, <2>1, <2>2
<1>10. UpkeepRead'
    BY <1>1, <1>2, <1>3 DEF CountsInv, UpkeepRead
<1>11. PurgeReady'
    <2>1. upkeep.cutoff <= now - 2
        BY <1>1 DEF CountsInv, PurgeReady
    <2>2. ASSUME NEW e \in inTime, at[e] < upkeep.cutoff, o = "done"
          PROVE  daily'[DayAt(e)] # Metrics!None
        <3>1. DayAt(e) \in Metrics!Days /\ e \in DOMAIN at
            BY EventTimes
        <3>2. upkeep.rows[e] >= 1 \/ daily[DayAt(e)] # Metrics!None
            BY <1>1, <2>2 DEF CountsInv, PurgeReady
        <3>3. CASE daily[DayAt(e)] # Metrics!None
            BY <1>7, <3>1, <3>3
        <3>4. CASE upkeep.rows[e] >= 1
            <4>1. e \in Metrics!Events /\ upkeep.rows[e] \in Nat
                BY <3>1, EventTimes, ReadTypes
            <4>2. DayAt(e) \in Metrics!DatesOf(upkeep.rows)
                BY <1>4, <3>1, <3>4, <4>1
            <4>3. daily' = rolled
                BY <1>1, <2>2
            <4>4. daily'[DayAt(e)] = Total(upkeep.rows, Of(DayAt(e)))
                BY <3>1, <4>2, <4>3, RowsOfTotal DEF rolled
            <4> QED BY <1>6, <3>1, <4>4, ReadTypes
        <3> QED BY <3>2, <3>3, <3>4
    <2> QED BY <1>1, <1>2, <1>3, <2>1, <2>2 DEF PurgeReady
<1>12. QueryRead' /\ AnswerCounts'
    BY <1>1, <1>3 DEF CountsInv, QueryRead, AnswerCounts, Allowed
<1> QED BY <1>1, <1>7, <1>8, <1>9, <1>10, <1>11, <1>12, DatesStand DEF CountsInv

\* The purge takes rows of days only that have daily rows, and marks their days.
LEMMA PurgeCounts ==
    ASSUME EventsInv, CountsInv, NEW o, Metrics!PurgeTelemetryEvents(o)
    PROVE  /\ CountsInv'
           /\ \A e \in inTime : raw[e] > 0 /\ raw'[e] = 0 => daily[DayAt(e)] # Metrics!None
<1> DEFINE old == {e \in DOMAIN at : raw[e] > 0 /\ at[e] < upkeep.cutoff}
<1>1. /\ UNCHANGED <<now, at, stored, inTime, daily, summary>> /\ upkeep.pc = "stored"
      /\ upkeep' = Metrics!IdleUpkeep
      /\ \/ raw' = raw /\ trimmed' = trimmed
         \/ /\ raw' = [e \in Metrics!Events |-> IF e \in old THEN 0 ELSE raw[e]]
            /\ trimmed' = trimmed \cup {Metrics!Day(at[e]) : e \in old}
    BY DEF Metrics!PurgeTelemetryEvents
<1>2. /\ Today' = Today /\ (\A e : DayAt(e)' = DayAt(e)) /\ (\A d : Of(d)' = Of(d)) /\ WindowRows' = WindowRows
      /\ \A e, q : Metrics!InWindow(e, q)' <=> Metrics!InWindow(e, q)
    BY <1>1 DEF Today, DayAt, Of, WindowRows, Metrics!InWindow
<1>3. /\ trimmed \subseteq trimmed'
      /\ \A e \in Metrics!Events : raw'[e] = raw[e] \/ (e \in old /\ DayAt(e) \in trimmed')
    <2>1. raw \in [Metrics!Events -> Nat]
        BY MemoryRowTypes DEF EventsInv
    <2>2. CASE raw' = raw /\ trimmed' = trimmed
        BY <2>2
    <2>3. CASE /\ raw' = [e \in Metrics!Events |-> IF e \in old THEN 0 ELSE raw[e]]
               /\ trimmed' = trimmed \cup {Metrics!Day(at[e]) : e \in old}
        <3>1. \A e \in old : DayAt(e) \in trimmed'
            BY <2>3 DEF DayAt
        <3> HIDE DEF old
        <3> QED BY <2>3, <3>1
    <2> QED BY <1>1, <2>2, <2>3
<1>4. \A e \in old : e \in DOMAIN at /\ at[e] < upkeep.cutoff
    OBVIOUS
<1> HIDE DEF old
<1>5. inTime \subseteq Metrics!Events
    BY EventTimes
<1>6. \A e \in inTime : e \in old => daily[DayAt(e)] # Metrics!None
    BY <1>1, <1>4 DEF CountsInv, PurgeReady
<1>7. \A e \in inTime : raw[e] > 0 /\ raw'[e] = 0 => daily[DayAt(e)] # Metrics!None
    BY <1>3, <1>5, <1>6
<1>8. KeptRows'
    <2>1. ASSUME NEW e \in inTime, DayAt(e) \notin trimmed' PROVE raw'[e] >= 1
        <3>1. raw'[e] = raw[e] /\ DayAt(e) \notin trimmed
            BY <1>3, <1>5, <2>1
        <3> QED BY <3>1 DEF CountsInv, KeptRows
    <2>2. ASSUME NEW e \in inTime, raw'[e] = 0 PROVE daily[DayAt(e)] # Metrics!None
        <3>1. CASE raw'[e] = raw[e]
            BY <2>2, <3>1 DEF CountsInv, KeptRows
        <3> QED BY <1>3, <1>5, <1>6, <3>1
    <2> QED BY <1>1, <1>2, <2>1, <2>2 DEF KeptRows
<1>9. DailyRows'
    BY <1>1, <1>2, <1>3 DEF CountsInv, DailyRows
<1>10. UpkeepRead' /\ PurgeReady'
    <2>1. upkeep'.pc = "idle" /\ \A e \in Metrics!Events : upkeep'.rows[e] = 0
        BY <1>1 DEF Metrics!IdleUpkeep, Metrics!NoRows
    <2>2. DOMAIN at \subseteq Metrics!Events
        BY EventTimes
    <2> QED BY <1>1, <2>1, <2>2 DEF UpkeepRead, PurgeReady
<1>11. QueryRead' /\ AnswerCounts'
    BY <1>1, <1>2, <1>3 DEF CountsInv, QueryRead, AnswerCounts, Allowed
<1> QED BY <1>1, <1>7, <1>8, <1>9, <1>10, <1>11, DatesStand DEF CountsInv

\* A query that begins, or is answered.
LEMMA QueryCounts ==
    ASSUME EventsInv, CountsInv, UNCHANGED <<now, at, raw, stored, inTime, daily, upkeep, trimmed>>,
           QueryRead', DatesRead', summary'.pc # "done"
    PROVE  CountsInv'
<1>1. Today' = Today /\ (\A e : DayAt(e)' = DayAt(e)) /\ (\A d : Of(d)' = Of(d))
    BY DEF Today, DayAt, Of
<1>2. KeptRows' /\ UpkeepRead' /\ PurgeReady'
    BY <1>1 DEF CountsInv, KeptRows, UpkeepRead, PurgeReady
<1>3. DailyRows'
    BY <1>1 DEF CountsInv, DailyRows
<1>4. AnswerCounts'
    BY DEF AnswerCounts
<1> QED BY <1>2, <1>3, <1>4 DEF CountsInv

LEMMA LoadAnalyticsEventsCounts ==
    ASSUME EventsInv, CountsInv, NEW q, Metrics!LoadAnalyticsEvents(q)
    PROVE  CountsInv'
<1> DEFINE read == [e \in Metrics!Events |-> IF Metrics!InWindow(e, q) THEN raw[e] ELSE 0]
           due == {e \in inTime : Metrics!InWindow(e, q)}
<1>1. /\ summary' = [Metrics!IdleSummary EXCEPT !.pc = "read", !.query = q, !.rows = read, !.due = due]
      /\ UNCHANGED <<now, at, raw, stored, inTime, daily, upkeep, trimmed>>
    BY DEF Metrics!LoadAnalyticsEvents, Metrics!tableVars
<1>2. /\ \A e \in Metrics!Events : read[e] = IF Metrics!InWindow(e, q) THEN raw[e] ELSE 0
      /\ \A e \in due : e \in inTime /\ Metrics!InWindow(e, q)
    OBVIOUS
<1> HIDE DEF read, due
<1>3. summary'.pc = "read" /\ summary'.query = q /\ summary'.rows = read /\ summary'.due = due
    BY <1>1 DEF Metrics!IdleSummary
<1>4. (\A e : DayAt(e)' = DayAt(e)) /\ \A e : Metrics!InWindow(e, q)' <=> Metrics!InWindow(e, q)
    BY <1>1 DEF DayAt, Metrics!InWindow
<1>5. QueryRead'
    <2>1. ASSUME NEW e \in Metrics!Events, read[e] > 0
          PROVE  Metrics!InWindow(e, q) /\ read[e] <= stored[e]
        BY <1>2, <2>1, ReadTypes
    <2>2. ASSUME NEW e \in due, DayAt(e) \notin trimmed PROVE read[e] >= 1
        BY <1>2, <2>2, EventTimes DEF CountsInv, KeptRows
    <2>3. \A e : Metrics!InWindow(e, summary.query)' <=> Metrics!InWindow(e, q)
        BY <1>1, <1>3 DEF Metrics!InWindow
    <2> QED BY <1>1, <1>2, <1>3, <1>4, <2>1, <2>2, <2>3 DEF QueryRead
<1>6. DatesRead' /\ summary'.pc # "done"
    BY <1>3 DEF DatesRead
<1> QED BY <1>1, <1>5, <1>6, QueryCounts

LEMMA LoadDailyDatesCounts ==
    ASSUME EventsInv, CountsInv, Metrics!LoadDailyDates
    PROVE  CountsInv'
<1>1. /\ summary' = [summary EXCEPT !.pc = "dated", !.dates = Metrics!RolledUp] /\ summary.pc = "read"
      /\ UNCHANGED <<now, at, raw, stored, inTime, daily, upkeep, trimmed>>
    BY DEF Metrics!LoadDailyDates, Metrics!tableVars
<1>2. /\ summary'.pc = "dated" /\ summary'.dates = Metrics!RolledUp
      /\ summary'.query = summary.query /\ summary'.rows = summary.rows /\ summary'.due = summary.due
    BY <1>1, RunTypes DEF EventsInv, Metrics!Summary
<1>3. /\ \A e : DayAt(e)' = DayAt(e)
      /\ \A e : Metrics!InWindow(e, summary.query)' <=> Metrics!InWindow(e, summary.query)
    BY <1>1, <1>2 DEF DayAt, Metrics!InWindow
<1>4. QueryRead'
    BY <1>1, <1>2, <1>3 DEF CountsInv, QueryRead
<1>5. DatesRead'
    BY <1>1, <1>2 DEF DatesRead, Metrics!RolledUp, Metrics!FullDays
<1>6. summary'.pc # "done"
    BY <1>2
<1> QED BY <1>1, <1>4, <1>5, <1>6, QueryCounts

LEMMA IdleQueryReads ==
    ASSUME summary' = Metrics!IdleSummary
    PROVE  QueryRead' /\ DatesRead' /\ summary'.pc # "done"
<1>1. summary'.pc = "idle" /\ summary'.due = {} /\ \A e \in Metrics!Events : summary'.rows[e] = 0
    BY DEF Metrics!IdleSummary, Metrics!NoRows
<1> QED BY <1>1 DEF QueryRead, DatesRead

\* A day that lies in the window as a whole has all its rows in the window.
LEMMA FullDayRows ==
    ASSUME EventsInv, NEW d \in Metrics!RolledUp
    PROVE  Total(stored, Of(d)) <= Total(WindowRows, Of(d))
<1>1. d \in Metrics!Days /\ summary.query.from <= 2 * d /\ 2 * d + 2 <= summary.query.to
    BY DEF Metrics!RolledUp, Metrics!FullDays
<1>2. summary.query.from \in Nat /\ summary.query.to \in Nat /\ d \in Nat
    <2>1. summary.query \in Windows \cup {Metrics!NoQuery}
        BY RunTypes DEF EventsInv
    <2>2. Windows \subseteq [from: Nat, to: Nat, daily: BOOLEAN]
        BY BotAssumption DEF Metrics!TelemetryAssumption
    <2>3. Metrics!NoQuery.from \in Nat /\ Metrics!NoQuery.to \in Nat
        BY DEF Metrics!NoQuery
    <2>4. d \in Nat
        BY <1>1, TelemetryConstants
    <2> QED BY <2>1, <2>2, <2>3, <2>4
<1>3. \A e \in Of(d) : Metrics!InWindow(e, summary.query)
    <2> SUFFICES ASSUME NEW e \in Of(d) PROVE Metrics!InWindow(e, summary.query)
        OBVIOUS
    <2>1. e \in DOMAIN at /\ at[e] \in Nat /\ 2 * d <= at[e] /\ at[e] < 2 * d + 2
        BY EventTimes
    <2>2. summary.query.from <= at[e] /\ at[e] < summary.query.to
        BY <1>1, <1>2, <2>1
    <2> QED BY <2>1, <2>2 DEF Metrics!InWindow
<1>4. Of(d) \subseteq Metrics!Events /\ IsFiniteSet(Of(d))
    <2>1. Of(d) \subseteq DOMAIN at /\ Of(d) \subseteq Metrics!Events /\ IsFiniteSet(DOMAIN at)
        BY EventTimes
    <2> QED BY <2>1, FS_Subset
<1>5. \A e \in Of(d) : stored[e] \in Nat /\ WindowRows[e] \in Nat /\ stored[e] <= WindowRows[e]
    BY <1>3, <1>4, ReadTypes
<1> QED BY <1>4, <1>5, TotalGrows

\* What the daily row of a day that was rolled up, and what the raw events that a query
\* has read of a day, count of it.
DailyOf(d) ==
    /\ daily[d] \in Nat /\ daily[d] <= Total(WindowRows, Of(d))
    /\ Total(WindowRows, Of(d)) \in Nat /\ Cardinality(summary.due \cap Of(d)) \in Nat
    /\ d \notin trimmed => Cardinality(summary.due \cap Of(d)) <= daily[d]

RawOf(d) ==
    /\ Total(summary.rows, Of(d)) \in Nat /\ Total(summary.rows, Of(d)) <= Total(WindowRows, Of(d))
    /\ Total(WindowRows, Of(d)) \in Nat /\ Cardinality(summary.due \cap Of(d)) \in Nat
    /\ d \notin trimmed => Cardinality(summary.due \cap Of(d)) <= Total(summary.rows, Of(d))

LEMMA QueryTotals ==
    ASSUME EventsInv, CountsInv, NEW d
    PROVE  /\ Of(d) \in SUBSET Metrics!Events /\ summary.due \subseteq inTime
           /\ Total(WindowRows, Of(d)) \in Nat /\ Total(stored, Of(d)) \in Nat /\ Total(summary.rows, Of(d)) \in Nat
           /\ IsFiniteSet(inTime \cap Of(d)) /\ Cardinality(inTime \cap Of(d)) \in Nat
           /\ IsFiniteSet(summary.due \cap Of(d)) /\ Cardinality(summary.due \cap Of(d)) \in Nat
           /\ Cardinality(summary.due \cap Of(d)) <= Cardinality(inTime \cap Of(d))
<1>1. Of(d) \in SUBSET Metrics!Events /\ IsFiniteSet(Metrics!Events)
    BY EventTimes
<1>2. IsFiniteSet(Of(d))
    BY <1>1, FS_Subset
<1>3. IsFiniteSet(inTime \cap Of(d))
    BY <1>2, FS_Subset
<1>4. summary.due \subseteq inTime
    BY DEF CountsInv, QueryRead
<1>5. summary.due \cap Of(d) \subseteq inTime \cap Of(d)
    BY <1>4
<1>6. /\ IsFiniteSet(summary.due \cap Of(d))
      /\ Cardinality(summary.due \cap Of(d)) <= Cardinality(inTime \cap Of(d))
    BY <1>3, <1>5, FS_Subset
<1>7. \A e \in Metrics!Events : stored[e] \in Nat /\ WindowRows[e] \in Nat /\ summary.rows[e] \in Nat
    BY ReadTypes
<1>8. Total(WindowRows, Of(d)) \in Nat /\ Total(stored, Of(d)) \in Nat /\ Total(summary.rows, Of(d)) \in Nat
    BY <1>1, <1>7, TotalUnfolds
<1> QED BY <1>1, <1>3, <1>4, <1>6, <1>8, FS_CardinalityType

LEMMA DailyOfDay ==
    ASSUME EventsInv, CountsInv, NEW d \in Metrics!RolledUp
    PROVE  DailyOf(d)
<1>1. d \in Metrics!Days /\ daily[d] # Metrics!None
    BY DEF Metrics!RolledUp, Metrics!FullDays
<1>2. daily[d] \in Nat /\ daily[d] <= Total(stored, Of(d)) /\ (d \notin trimmed => Cardinality(inTime \cap Of(d)) <= daily[d])
    BY <1>1, ReadTypes DEF CountsInv, DailyRows
<1>3. Total(stored, Of(d)) <= Total(WindowRows, Of(d))
    BY FullDayRows
<1>4. /\ Total(WindowRows, Of(d)) \in Nat /\ Total(stored, Of(d)) \in Nat
      /\ Cardinality(inTime \cap Of(d)) \in Nat /\ Cardinality(summary.due \cap Of(d)) \in Nat
      /\ Cardinality(summary.due \cap Of(d)) <= Cardinality(inTime \cap Of(d))
    BY QueryTotals
<1> QED BY <1>2, <1>3, <1>4 DEF DailyOf

LEMMA RawOfDay ==
    ASSUME EventsInv, CountsInv, summary.pc \in {"read", "dated"}, NEW d \in Metrics!Days
    PROVE  RawOf(d)
<1>1. \A e \in Metrics!Events : WindowRows[e] \in Nat /\ summary.rows[e] \in Nat
    BY ReadTypes
<1>2. \A e \in Metrics!Events : summary.rows[e] <= WindowRows[e]
    <2> SUFFICES ASSUME NEW e \in Metrics!Events PROVE summary.rows[e] <= WindowRows[e]
        OBVIOUS
    <2>1. summary.rows[e] > 0 => Metrics!InWindow(e, summary.query) /\ summary.rows[e] <= stored[e]
        BY DEF CountsInv, QueryRead
    <2> QED BY <1>1, <2>1, ReadTypes
<1>3. Total(summary.rows, Of(d)) <= Total(WindowRows, Of(d))
    BY <1>1, <1>2, QueryTotals, DayGrows
<1>4. ASSUME d \notin trimmed PROVE Cardinality(summary.due \cap Of(d)) <= Total(summary.rows, Of(d))
    <2>1. \A e \in summary.due \cap Of(d) : summary.rows[e] >= 1
        BY <1>4, EventTimes DEF CountsInv, QueryRead
    <2> QED BY <1>1, <2>1, QueryTotals, DayCounts
<1> QED BY <1>3, <1>4, QueryTotals DEF RawOf

LEMMA LoadAnalyticsDailyCounts ==
    ASSUME EventsInv, CountsInv, Metrics!LoadAnalyticsDaily
    PROVE  CountsInv'
<1> DEFINE count == [d \in Metrics!Days |-> Metrics!Combined(d)]
           late == Metrics!DailyRead \ summary.dates
<1>1. /\ summary' = [summary EXCEPT !.pc = "done", !.rows = Metrics!NoRows, !.dates = {}, !.count = count, !.late = late]
      /\ summary.pc = "dated"
      /\ UNCHANGED <<now, at, raw, stored, inTime, daily, upkeep, trimmed>>
    BY DEF Metrics!LoadAnalyticsDaily, Metrics!tableVars
<1>2. /\ \A d \in Metrics!Days : count[d] = Metrics!Combined(d)
      /\ \A d : d \in late <=> d \in Metrics!DailyRead /\ d \notin summary.dates
    OBVIOUS
<1> HIDE DEF count, late
<1>3. /\ summary'.pc = "done" /\ summary'.rows = Metrics!NoRows /\ summary'.count = count /\ summary'.late = late
      /\ summary'.query = summary.query /\ summary'.due = summary.due
    BY <1>1, RunTypes DEF EventsInv, Metrics!Summary
<1>4. /\ Today' = Today /\ (\A e : DayAt(e)' = DayAt(e)) /\ (\A d : Of(d)' = Of(d))
      /\ \A e : Metrics!InWindow(e, summary.query)' <=> Metrics!InWindow(e, summary.query)
    BY <1>1, <1>3 DEF Today, DayAt, Of, Metrics!InWindow
<1>5. WindowRows' = WindowRows
    BY <1>1, <1>3, <1>4 DEF WindowRows
<1>6. KeptRows' /\ UpkeepRead' /\ PurgeReady'
    BY <1>1, <1>4 DEF CountsInv, KeptRows, UpkeepRead, PurgeReady
<1>7. DailyRows'
    BY <1>1, <1>4 DEF CountsInv, DailyRows
<1>8. QueryRead'
    <2>1. \A e \in Metrics!Events : summary'.rows[e] = 0
        BY <1>3 DEF Metrics!NoRows
    <2> QED BY <1>1, <1>3, <1>4, <2>1 DEF CountsInv, QueryRead
<1>9. AnswerCounts'
    <2> SUFFICES ASSUME NEW d \in Metrics!Days
                 PROVE  /\ count[d] <= Total(WindowRows, Of(d)) + (IF d \in late THEN Total(WindowRows, Of(d)) ELSE 0)
                        /\ d \notin trimmed => Cardinality(summary.due \cap Of(d)) <= count[d]
        BY <1>1, <1>3, <1>4, <1>5 DEF AnswerCounts, Allowed
    <2>1. /\ count[d] = (IF d \in Metrics!DailyRead THEN daily[d] ELSE 0)
                        + (IF d \in summary.dates THEN 0 ELSE Total(summary.rows, Of(d)))
          /\ d \in Metrics!DailyRead => d \in Metrics!RolledUp
        BY <1>2, CountOfDay, RowsOfTotal DEF EventsInv
    <2>2. d \in summary.dates => d \in Metrics!DailyRead
        BY <1>1 DEF CountsInv, DatesRead, Metrics!DailyRead
    <2>3. d \in Metrics!DailyRead => DailyOf(d)
        BY <2>1, DailyOfDay
    <2>4. RawOf(d)
        BY <1>1, RawOfDay
    <2> QED BY <1>2, <2>1, <2>2, <2>3, <2>4 DEF DailyOf, RawOf
<1>10. DatesRead'
    BY <1>3 DEF DatesRead
<1> QED BY <1>6, <1>7, <1>8, <1>9, <1>10 DEF CountsInv

LEMMA ForgetEventsCounts ==
    ASSUME EventsInv, CountsInv, Metrics!ForgetEvents
    PROVE  CountsInv'
<1>1. /\ upkeep' = Metrics!IdleUpkeep /\ summary' = Metrics!IdleSummary
      /\ UNCHANGED <<now, at, raw, stored, inTime, daily, trimmed>>
    BY DEF Metrics!ForgetEvents, Metrics!tableVars
<1>2. Today' = Today /\ (\A e : DayAt(e)' = DayAt(e)) /\ (\A d : Of(d)' = Of(d))
    BY <1>1 DEF Today, DayAt, Of
<1>3. KeptRows' /\ DailyRows'
    BY <1>1, <1>2 DEF CountsInv, KeptRows, DailyRows
<1>4. UpkeepRead' /\ PurgeReady'
    <2>1. upkeep'.pc = "idle" /\ \A e \in Metrics!Events : upkeep'.rows[e] = 0
        BY <1>1 DEF Metrics!IdleUpkeep, Metrics!NoRows
    <2>2. DOMAIN at \subseteq Metrics!Events
        BY EventTimes
    <2> QED BY <1>1, <2>1, <2>2 DEF UpkeepRead, PurgeReady
<1>5. QueryRead' /\ DatesRead' /\ AnswerCounts'
    BY <1>1, IdleQueryReads DEF AnswerCounts
<1> QED BY <1>3, <1>4, <1>5 DEF CountsInv

LEMMA CountsInitInv ==
    ASSUME Metrics!TelemetryInit
    PROVE  CountsInv
<1>1. /\ inTime = {} /\ at = <<>> /\ daily = [d \in Metrics!Days |-> Metrics!None]
      /\ upkeep = Metrics!IdleUpkeep /\ summary = Metrics!IdleSummary
    BY DEF Metrics!TelemetryInit
<1>2. /\ upkeep.pc = "idle" /\ summary.pc = "idle" /\ summary.due = {}
      /\ \A e \in Metrics!Events : upkeep.rows[e] = 0 /\ summary.rows[e] = 0
    BY <1>1 DEF Metrics!IdleUpkeep, Metrics!IdleSummary, Metrics!NoRows
<1>3. KeptRows /\ DailyRows
    BY <1>1 DEF KeptRows, DailyRows
<1>4. UpkeepRead /\ PurgeReady /\ QueryRead /\ DatesRead /\ AnswerCounts
    BY <1>1, <1>2 DEF UpkeepRead, PurgeReady, QueryRead, DatesRead, AnswerCounts
<1> QED BY <1>3, <1>4 DEF CountsInv

\* The rows of events stored in time go when their day has a daily row only.
PurgeIsCounted == \A e \in inTime : raw[e] > 0 /\ raw'[e] = 0 => daily[DayAt(e)] # Metrics!None

LEMMA RawKept ==
    ASSUME EventsInv, raw' = raw
    PROVE  PurgeIsCounted
BY EventTimes, ReadTypes DEF PurgeIsCounted

LEMMA CountsStored ==
    ASSUME EventsInv, CountsInv, RowsStored
    PROVE  CountsInv' /\ PurgeIsCounted
<1>1. PICK more \in SUBSET (DOMAIN at) : RowsAdded(more) /\ UNCHANGED <<now, at, daily, upkeep, summary, trimmed>>
    BY DEF RowsStored
<1>2. \A e \in Metrics!Events : raw'[e] >= raw[e] /\ raw[e] \in Nat /\ raw'[e] \in Nat
    <2>1. raw' \in [Metrics!Events -> Nat] /\ \A e \in Metrics!Events : raw'[e] >= raw[e]
        BY <1>1, AddedRows DEF EventsInv
    <2> QED BY <2>1, ReadTypes
<1>3. PurgeIsCounted
    BY <1>2, EventTimes DEF PurgeIsCounted
<1> QED BY <1>1, <1>3, CountsAdded

LEMMA CountsStepInv ==
    ASSUME EventsInv, CountsInv,
           \/ Metrics!TelemetryNext
           \/ Crash /\ Metrics!ForgetEvents
           \/ Start /\ Metrics!StartWorkers
           \/ UNCHANGED <<process, telemetry>>
    PROVE  CountsInv' /\ PurgeIsCounted
<1>1. ASSUME NEW valid, Metrics!Record(valid) PROVE CountsInv' /\ PurgeIsCounted
    BY <1>1, RecordCounts, RawKept DEF Metrics!Record, Metrics!tableVars
<1>2. ASSUME NEW o, Metrics!Take(o) \/ Metrics!Tick(o) \/ Metrics!Drain(o) PROVE CountsInv' /\ PurgeIsCounted
    BY <1>2, TakeEvent, TickFlushes, DrainRound, CountsStored
<1>3. CASE Metrics!StopAccepting
    BY <1>3, CountsStand, RawKept DEF Metrics!StopAccepting, Metrics!tableVars
<1>4. CASE Metrics!LoadEvents
    BY <1>4, LoadEventsCounts, RawKept DEF Metrics!LoadEvents, Metrics!tableVars
<1>5. ASSUME NEW o, Metrics!AggregateTelemetryDaily(o) PROVE CountsInv' /\ PurgeIsCounted
    BY <1>5, AggregateCounts, RawKept DEF Metrics!AggregateTelemetryDaily, Metrics!tableVars
<1>6. ASSUME NEW o, Metrics!PurgeTelemetryEvents(o) PROVE CountsInv' /\ PurgeIsCounted
    BY <1>6, PurgeCounts DEF PurgeIsCounted
<1>7. ASSUME NEW q, Metrics!LoadAnalyticsEvents(q) PROVE CountsInv' /\ PurgeIsCounted
    BY <1>7, LoadAnalyticsEventsCounts, RawKept DEF Metrics!LoadAnalyticsEvents, Metrics!tableVars
<1>8. CASE Metrics!LoadDailyDates
    BY <1>8, LoadDailyDatesCounts, RawKept DEF Metrics!LoadDailyDates, Metrics!tableVars
<1>9. CASE Metrics!LoadAnalyticsDaily
    BY <1>9, LoadAnalyticsDailyCounts, RawKept DEF Metrics!LoadAnalyticsDaily, Metrics!tableVars
<1>10. CASE Metrics!AnswerSummary
    <2>1. summary' = Metrics!IdleSummary /\ UNCHANGED <<now, at, raw, stored, inTime, daily, upkeep, trimmed>>
        BY <1>10 DEF Metrics!AnswerSummary, Metrics!tableVars
    <2> QED BY <2>1, IdleQueryReads, QueryCounts, RawKept
<1>11. CASE Metrics!PassTime
    BY <1>11, PassTimeCounts, RawKept DEF Metrics!PassTime, Metrics!tableVars
<1>12. CASE Metrics!TelemetryNext
    BY <1>1, <1>2, <1>3, <1>4, <1>5, <1>6, <1>7, <1>8, <1>9, <1>10, <1>11, <1>12 DEF Metrics!TelemetryNext
<1>13. CASE Crash /\ Metrics!ForgetEvents
    BY <1>13, ForgetEventsCounts, RawKept DEF Metrics!ForgetEvents, Metrics!tableVars
<1>14. CASE Start /\ Metrics!StartWorkers
    BY <1>14, CountsStand, RawKept DEF Metrics!StartWorkers, Metrics!tableVars
<1>15. CASE UNCHANGED <<process, telemetry>>
    BY <1>15, CountsStand, RawKept DEF telemetry
<1> QED BY <1>12, <1>13, <1>14, <1>15

\* An answer leaves out no event that was stored on its own day, as long as the purge
\* has not reached that day, and counts no row twice, although days are rolled up and
\* purged between its readings: but a day that is rolled up between the reading of the
\* dates and that of the daily rows counts its daily row and its raw events, so that it
\* counts no row more than twice.  And the purge takes events only that a daily row has
\* taken over: LoadSummary, loadAnalyticsDaily, excludeRolledUpEvents, runOnce.
THEOREM BotKeepsCounts == BotSpec => CountsAreKept
<1> DEFINE A == \A e \in inTime : raw[e] > 0 /\ raw'[e] = 0 => daily[Metrics!Day(at[e])] # Metrics!None
<1>1. BotInit => CountsInv
    BY CountsInitInv DEF BotInit
<1>2. EventsInv /\ CountsInv /\ [BotNext]_botVars => CountsInv' /\ PurgeIsCounted
    BY StepsOfParts, CountsStepInv
<1>3. PurgeIsCounted => A
    BY DEF PurgeIsCounted, DayAt
<1>4. CountsInv => Metrics!SummariesCountOnce
    <2> SUFFICES ASSUME CountsInv, summary.pc = "done", NEW d \in Metrics!Days
                 PROVE  /\ summary.count[d] <= Metrics!RowsOf(WindowRows, d)
                                              + (IF d \in summary.late THEN Metrics!RowsOf(WindowRows, d) ELSE 0)
                        /\ d \notin trimmed =>
                               Metrics!Cardinality({e \in summary.due : Metrics!Day(at[e]) = d}) <= summary.count[d]
        BY DEF Metrics!SummariesCountOnce, WindowRows
    <2>1. /\ summary.count[d] <= Allowed(Total(WindowRows, Of(d)), d)
          /\ d \notin trimmed => Cardinality(summary.due \cap Of(d)) <= summary.count[d]
        BY DEF CountsInv, AnswerCounts
    <2>2. {e \in summary.due : Metrics!Day(at[e]) = d} = summary.due \cap Of(d)
        BY DEF CountsInv, QueryRead, Metrics!InWindow, Of
    <2>3. Metrics!RowsOf(WindowRows, d) = Total(WindowRows, Of(d))
        BY RowsOfTotal
    <2>4. Metrics!Cardinality(summary.due \cap Of(d)) = Cardinality(summary.due \cap Of(d))
        BY OneCardinality
    <2> QED BY <2>1, <2>2, <2>3, <2>4 DEF Allowed
<1> HIDE DEF A
<1>5. BotSpec => []Metrics!SummariesCountOnce /\ [][A]_(Metrics!telemetryVars)
    BY <1>1, <1>2, <1>3, <1>4, EventsInvHolds, PTL DEF BotSpec
<1> QED BY <1>5 DEF CountsAreKept, Metrics!PurgedIsCounted, A

=============================================================================
