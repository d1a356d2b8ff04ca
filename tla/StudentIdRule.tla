--------------------------- MODULE StudentIdRule ---------------------------
(***************************************************************************)
(* The rule that says what a student's number tells of his year and major: *)
(* src/internal/groups/joinrequests/student_id_rules.go and service.go,    *)
(* src/internal/platform/storage/manager_student_id_rules.go.              *)
(*                                                                         *)
(* One row holds the rule.  Pages are annotated by a copy in memory, which *)
(* an update replaces after its transaction, without a lock around both,   *)
(* and which a start loads.  Numbers, and the parts of them that the rule  *)
(* reads, are sequences of digits.                                         *)
(***************************************************************************)
EXTENDS Integers, Sequences, FiniteSets

CONSTANTS
    Admins,         \* administrators with the page of the rule open
    IdLength,       \* StudentIDLength
    YearLength,     \* length of the part that is the year
    RulePatches,    \* patches of the rule: new values of some of its fields
    Numbers,        \* numbers of applicants
    MaxRuleVersion, \* bound: versions of the rule explored
    MaxFaults       \* bound: database calls that fail or lose their answer

None == [offset |-> 0, length |-> 0]
Digits == 0..9
OtherCharacter == 10
Majors == {"m1", "m2"}

\* The name of a major and its aliases, for a year and a code.
Mapping == [year: Seq(Digits), code: Seq(Digits), names: SUBSET Majors]

\* A part of a number, or None.
Segment == [offset: Nat, length: Nat \ {0}] \cup {None}

\* decodeStudentIDRulePatch.
FieldNames == {"enabled", "year", "code", "table"}
IsPatch(p) ==
    /\ DOMAIN p # {} /\ DOMAIN p \subseteq FieldNames
    /\ "enabled" \in DOMAIN p => p.enabled \in BOOLEAN
    /\ "year" \in DOMAIN p => p.year \in Segment
    /\ "code" \in DOMAIN p => p.code \in Segment
    /\ "table" \in DOMAIN p => IsFiniteSet(p.table) /\ p.table \subseteq Mapping

RuleAssumption ==
    /\ IsFiniteSet(Admins) /\ IdLength \in Nat /\ YearLength \in Nat
    /\ \A p \in RulePatches : IsPatch(p)
    /\ Numbers \subseteq Seq(Digits \cup {OtherCharacter}) /\ {MaxRuleVersion, MaxFaults} \subseteq Nat

VARIABLES
    process, faults,
    ruleRow,        \* student_id_rules
    rule,           \* what pages are annotated by: studentIDRule
    ruleSeen,       \* the version that each administrator's page shows
    ruleTask,       \* the update of each administrator
    ruleWanted,     \* history: what all patches that were stored amount to
    ruleMissed      \* history: a version was stored and its answer lost

ruleVars == <<ruleRow, rule, ruleSeen, ruleTask, ruleWanted, ruleMissed>>

-----------------------------------------------------------------------------
(* What a rule may be, and what it tells of a number.                       *)

\* validStudentIDSegment.
Fits(s) == s = None \/ s.offset + s.length <= IdLength

\* segmentsOverlap.
Overlap(s, t) ==
    s # None /\ t # None /\ s.offset < t.offset + t.length /\ t.offset < s.offset + s.length

\* studentIDRuleConfigured.
Configured(c) ==
    /\ c.enabled /\ c.year # None /\ c.code # None /\ c.year.length = YearLength
    /\ Fits(c.year) /\ Fits(c.code) /\ ~Overlap(c.year, c.code) /\ c.table # {}

\* validStudentIDRule.
ValidRule(c) ==
    /\ Fits(c.year) /\ Fits(c.code) /\ ~Overlap(c.year, c.code)
    /\ c.year # None => c.year.length = YearLength
    /\ \A m \in c.table : /\ Len(m.year) = YearLength /\ m.year[1] # 0 /\ m.names # {}
                          /\ Len(m.code) \in 1..IdLength
                          /\ c.code # None => Len(m.code) = c.code.length
    /\ \A m, n \in c.table : m.year = n.year /\ m.code = n.code => m = n
    /\ c.enabled => Configured(c)

Part(number, s) == SubSeq(number, s.offset + 1, s.offset + s.length)

\* The mappings that the rule c finds for a number.
Found(c, number) == {m \in c.table : m.year = Part(number, c.year) /\ m.code = Part(number, c.code)}

\* AssessStudentID: the first thing that is wrong.
Assess(c, number, major) ==
    CASE ~Configured(c) -> "unconfigured"
      [] Configured(c) /\ number = <<>> -> "student_id_missing"
      [] Configured(c) /\ number # <<>> /\ Len(number) # IdLength -> "student_id_length_mismatch"
      [] Configured(c) /\ Len(number) = IdLength ->
           IF \E i \in DOMAIN number : number[i] \notin Digits THEN "student_id_not_numeric"
           ELSE IF \A m \in c.table : m.year # Part(number, c.year) THEN "enrollment_year_unmapped"
           ELSE IF Found(c, number) = {} THEN "major_code_unmapped"
           ELSE IF major = "" THEN "major_missing"
           ELSE IF \A m \in Found(c, number) : major \notin m.names THEN "major_mismatch" ELSE "matched"

\* applyStudentIDRulePatch.
Patched(c, patch) == [f \in FieldNames |-> IF f \in DOMAIN patch THEN patch[f] ELSE c[f]]

-----------------------------------------------------------------------------
(* Service.GetStudentIDRule, UpdateStudentIDRule and ReloadStudentIDRule.   *)

OpenRule(a) ==
    /\ process = "up" /\ ruleSeen[a] # rule.version
    /\ ruleSeen' = [ruleSeen EXCEPT ![a] = rule.version]
    /\ UNCHANGED <<process, faults, ruleRow, rule, ruleTask, ruleWanted, ruleMissed>>

NoTask == [pc |-> "idle"]

\* The rule is computed from the memory, which the page must show.
BeginRuleUpdate(a, patch) ==
    /\ process = "up" /\ ruleTask[a].pc = "idle" /\ rule.version = ruleSeen[a]
    /\ ValidRule(Patched(rule.config, patch))
    /\ ruleTask' = [ruleTask EXCEPT ![a] =
                      [pc |-> "store", version |-> ruleSeen[a], patch |-> patch,
                       config |-> Patched(rule.config, patch)]]
    /\ UNCHANGED <<process, faults, ruleRow, rule, ruleSeen, ruleWanted, ruleMissed>>

\* Mutant: the version is left to the comparison with the memory.
MayStoreAny(t) == TRUE

\* The row is still what the page shows.
MayStore(t) == ruleRow.version = t.version

\* Store.UpdateStudentIDRule: a transaction, which may fail, and whose answer may
\* be lost.
StoreRule(a, o) ==
    /\ process = "up" /\ ruleTask[a].pc = "store" /\ ruleRow.version < MaxRuleVersion
    /\ faults' = IF o = "done" THEN faults ELSE faults + 1
    /\ faults' <= MaxFaults
    /\ LET t == ruleTask[a]
           stored == o # "refused" /\ MayStore(t)
       IN /\ ruleRow' = IF stored THEN [version |-> ruleRow.version + 1, config |-> t.config] ELSE ruleRow
          /\ ruleWanted' = IF stored THEN Patched(ruleWanted, t.patch) ELSE ruleWanted
          /\ ruleMissed' = (ruleMissed \/ (stored /\ o = "lost"))
          /\ ruleTask' = [ruleTask EXCEPT ![a] =
                            IF stored /\ o = "done" THEN [pc |-> "publish", stored |-> ruleRow'] ELSE NoTask]
    /\ UNCHANGED <<process, rule, ruleSeen>>

\* The answer replaces what the memory holds, and goes to the page.
PublishRule(a) ==
    /\ process = "up" /\ ruleTask[a].pc = "publish"
    /\ rule' = ruleTask[a].stored
    /\ ruleSeen' = [ruleSeen EXCEPT ![a] = rule'.version]
    /\ ruleTask' = [ruleTask EXCEPT ![a] = NoTask]
    /\ UNCHANGED <<process, faults, ruleRow, ruleWanted, ruleMissed>>

ForgetRule ==
    /\ ruleTask' = [a \in Admins |-> NoTask]
    /\ UNCHANGED <<ruleRow, rule, ruleSeen, ruleWanted, ruleMissed>>

\* ReloadStudentIDRule, at every start.
LoadRule ==
    /\ ValidRule(ruleRow.config)
    /\ rule' = ruleRow /\ ruleMissed' = FALSE
    /\ UNCHANGED <<ruleRow, ruleSeen, ruleTask, ruleWanted>>

-----------------------------------------------------------------------------

\* The row that the schema inserts.
NoRule == [enabled |-> FALSE, year |-> None, code |-> None, table |-> {}]

RuleInit ==
    /\ ruleRow = [version |-> 1, config |-> NoRule] /\ rule = ruleRow
    /\ ruleSeen = [a \in Admins |-> 0] /\ ruleTask = [a \in Admins |-> NoTask]
    /\ ruleWanted = NoRule /\ ruleMissed = FALSE

RuleReplies == {"done", "lost", "refused"}

RuleNext ==
    \E a \in Admins :
        \/ OpenRule(a) \/ PublishRule(a)
        \/ \E patch \in RulePatches : BeginRuleUpdate(a, patch)
        \/ \E o \in RuleReplies : StoreRule(a, o)

-----------------------------------------------------------------------------
(* Properties.                                                              *)

\* No patch undoes another one, although each is applied to the copy in memory and
\* stored under the version of a page; the copy is the row of some time, and the
\* latest unless its update is not finished or lost its answer; and whatever the
\* rule says of a number, one mapping says it.
RuleKeepsPatches ==
    /\ ruleRow.config = ruleWanted
    /\ ValidRule(rule.config) /\ rule.version <= ruleRow.version
    /\ process = "up" /\ ~ruleMissed /\ (\A a \in Admins : ruleTask[a].pc # "publish") => rule = ruleRow
    /\ \A n \in Numbers, major \in Majors \cup {""} :
          Assess(rule.config, n, major) \in {"major_mismatch", "matched"} =>
              Cardinality(Found(rule.config, n)) = 1
=============================================================================
