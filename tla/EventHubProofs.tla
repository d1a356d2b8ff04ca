--------------------------- MODULE EventHubProofs ---------------------------
(***************************************************************************)
(* Theorems of EventHub, for any number of clients, topics, roles, events  *)
(* and restarts and any capacity: no client misses an event unknowingly,   *)
(* gets one twice or gets one that its role forbids.                       *)
(*                                                                         *)
(* The invariant relates what waits for a client to what it was sent: the  *)
(* buffer holds every event of its topics after the last one it heard, up  *)
(* to the end of the log while the subscription is registered, and up to   *)
(* the last buffered one after the hub has closed it (Delivered).          *)
(***************************************************************************)
EXTENDS EventHub, FiniteSetTheorems, SequenceTheorems, WellFoundedInduction, TLAPS

Entry == [topic : Topics, session : SUBSET Clients]

Stream == [phase : {"off", "checked", "on"}, registered : BOOLEAN, grant : SUBSET Topics,
           topics : SUBSET Topics, buffer : Seq(Nat), room : Nat]

Client == [id : Nat, base : Nat, topics : SUBSET Topics, heard : Seq(Nat)]

\* The hub retains an end of the log.
HubInv ==
    /\ log \in Seq(Entry) /\ Len(log) <= MaxEvents
    /\ retained \in Seq(Nat) /\ Len(retained) <= Capacity /\ Len(retained) <= Len(log)
    /\ \A i \in 1..Len(retained) : retained[i] = Len(log) - Len(retained) + i

HubTypes ==
    /\ stream \in [Clients -> Stream] /\ client \in [Clients -> Client]
    /\ granted \in [Clients -> SUBSET Topics]
    /\ revoking \in [Clients -> {"no", "publish", "close"}]

LastOf(k) == IF k.heard = <<>> THEN 0 ELSE k.heard[Len(k.heard)]

\* What a client was sent ascends, ends with its cursor unless that is none or a
\* reset, and misses nothing since the client last started anew.
ClientSound(k) ==
    /\ k.base <= Len(log)
    /\ \A i \in 1..Len(k.heard) : k.heard[i] \in 1..Len(log)
    /\ \A i, j \in 1..Len(k.heard) : i < j => k.heard[i] < k.heard[j]
    /\ k.id \in {NoId, ResetId} \/ (k.heard # <<>> /\ k.id = LastOf(k))
    /\ \A n \in 1..Len(log) :
          k.base < n /\ n <= LastOf(k) /\ log[n].topic \in k.topics =>
              \E i \in 1..Len(k.heard) : k.heard[i] = n

\* A buffer ascends after a reset, which comes first, and holds what its request
\* may read.
StreamSound(s) ==
    /\ s.registered => s.phase = "on"
    /\ s.phase = "on" => s.topics \subseteq s.grant
    /\ s.phase # "on" => s.buffer = <<>>
    /\ Len(s.buffer) <= s.room
    /\ \A i \in 1..Len(s.buffer) :
          s.buffer[i] = ResetId \/ (s.buffer[i] \in 1..Len(log) /\ log[s.buffer[i]].topic \in s.topics)
    /\ \A i, j \in 1..Len(s.buffer) :
          i < j => s.buffer[j] # ResetId /\ (s.buffer[i] = ResetId \/ s.buffer[i] < s.buffer[j])

\* Nothing is missing between what a client was sent and what waits for it.
Delivered(s, k) ==
    s.phase = "on" =>
        /\ k.topics \subseteq s.topics
        /\ \A i \in 1..Len(s.buffer) : s.buffer[i] > LastOf(k)
        /\ \A n \in 1..Len(log) :
              /\ n > k.base /\ n > LastOf(k) /\ log[n].topic \in k.topics
              /\ s.registered \/ \E i \in 1..Len(s.buffer) : s.buffer[i] # ResetId /\ n <= s.buffer[i]
              => \E j \in 1..Len(s.buffer) : s.buffer[j] = n

Sound(c) == ClientSound(client[c]) /\ StreamSound(stream[c]) /\ Delivered(stream[c], client[c])

StreamsInv == HubInv /\ HubTypes /\ \A c \in Clients : Sound(c)

-----------------------------------------------------------------------------
(* Ascending sequences.                                                     *)

LEMMA HubConstants ==
    /\ Capacity \in Nat /\ Capacity >= 1 /\ SubscriberBuffer \in Nat /\ SubscriberBuffer >= 1
    /\ MaxEvents \in Nat /\ NoId = 0 /\ ResetId \in Nat /\ ResetId = MaxEvents + 1
    /\ "auth" \in Topics /\ Roles \subseteq SUBSET Topics /\ Requested \in [Clients -> SUBSET Topics]
BY EventHubAssumption DEF NoId, ResetId

\* What holds of a set as soon as it holds of its smaller subsets holds of all
\* subsets of a finite set.
LEMMA SubsetInduction ==
    ASSUME NEW E, IsFiniteSet(E), NEW T,
           \A s \in SUBSET E : (\A u \in SUBSET s : u # s => u \in T) => s \in T
    PROVE  E \in T
<1> SUFFICES ASSUME E \notin T PROVE FALSE
    OBVIOUS
<1>1. IsWellFoundedOn(StrictSubsetOrdering(E), SUBSET E)
    <2>1. IsWellFoundedOn(StrictSubsetOrdering(E), FiniteSubsetsOf(E))
        BY FS_StrictSubsetOrderingWellFounded, Zenon
    <2>2. FiniteSubsetsOf(E) = SUBSET E
        BY FS_FiniteSubsetsOfFinite
    <2> QED BY <2>1, <2>2
<1> DEFINE B == (SUBSET E) \ T
<1>2. \E s \in B : \A u \in B : <<u, s>> \notin StrictSubsetOrdering(E)
    <2>1. B \subseteq SUBSET E /\ B # {}
        OBVIOUS
    <2> HIDE DEF B
    <2> QED BY <1>1, <2>1, WFMin
<1> QED BY <1>2 DEF StrictSubsetOrdering

\* A finite set of numbers has a greatest one.
LEMMA GreatestExists ==
    ASSUME NEW S \in SUBSET Nat, IsFiniteSet(S), S # {}
    PROVE  \E m \in S : \A x \in S : x <= m
<1> DEFINE T == {s \in SUBSET S : s = {} \/ \E m \in s : \A x \in s : x <= m}
<1>1. ASSUME NEW s \in SUBSET S, \A u \in SUBSET s : u # s => u \in T
      PROVE  s \in T
    <2>1. CASE s = {}
        BY <2>1
    <2>2. ASSUME NEW y \in s PROVE s \in T
        <3>1. s \ {y} \in T
            BY <1>1, <2>2
        <3>2. CASE s \ {y} = {}
            BY <2>2, <3>2
        <3>3. ASSUME NEW m \in s \ {y}, \A x \in s \ {y} : x <= m PROVE s \in T
            <4>1. m \in Nat /\ y \in Nat /\ s \subseteq Nat
                OBVIOUS
            <4>2. CASE y <= m
                <5>1. \A x \in s : x <= m
                    BY <3>3, <4>2
                <5> QED BY <5>1
            <4>3. CASE m <= y
                <5>1. \A x \in s : x <= y
                    BY <3>3, <4>1, <4>3
                <5> QED BY <5>1
            <4> QED BY <4>1, <4>2, <4>3
        <3> QED BY <3>1, <3>2, <3>3
    <2> QED BY <2>1, <2>2
<1> HIDE DEF T
<1>2. S \in T
    BY <1>1, SubsetInduction
<1> QED BY <1>2 DEF T

LEMMA AscendingExists ==
    ASSUME NEW S \in SUBSET Nat, IsFiniteSet(S)
    PROVE  \E f \in [1..Cardinality(S) -> S] : \A i, k \in 1..Cardinality(S) : i < k => f[i] < f[k]
<1> DEFINE Sorted(s, f) == /\ f \in [1..Cardinality(s) -> s]
                           /\ \A i, k \in 1..Cardinality(s) : i < k => f[i] < f[k]
           T == {s \in SUBSET S : \E f : Sorted(s, f)}
<1>1. ASSUME NEW s \in SUBSET S, \A u \in SUBSET s : u # s => u \in T
      PROVE  s \in T
    <2>0. IsFiniteSet(s)
        BY FS_Subset
    <2>1. CASE s = {}
        <3>1. Cardinality(s) = 0 /\ 1..0 = {}
            BY <2>1, FS_EmptySet
        <3>2. Sorted(s, [i \in {} |-> 0])
            BY <2>1, <3>1
        <3> QED BY <3>2
    <2>2. ASSUME NEW m \in s, \A x \in s : x <= m PROVE s \in T
        <3> DEFINE u == s \ {m}
        <3>1. IsFiniteSet(u) /\ Cardinality(u) \in Nat /\ Cardinality(s) = Cardinality(u) + 1
            <4>1. IsFiniteSet(u) /\ Cardinality(u) = Cardinality(s) - 1
                BY <2>0, FS_RemoveElement
            <4> QED BY <2>0, <4>1, FS_CardinalityType
        <3>2. PICK f : Sorted(u, f)
            BY <1>1
        <3> DEFINE g == [i \in 1..Cardinality(s) |-> IF i = Cardinality(s) THEN m ELSE f[i]]
        <3> HIDE DEF u
        <3>3. \A i \in 1..Cardinality(u) : f[i] \in u /\ g[i] = f[i] /\ f[i] \in s /\ f[i] < m
            <4>1. \A x \in u : x \in s /\ x \in Nat /\ m \in Nat /\ x < m
                BY <2>2 DEF u
            <4> QED BY <3>1, <3>2, <4>1
        <3>4. g[Cardinality(s)] = m
            BY <3>1
        <3>5. g \in [1..Cardinality(s) -> s]
            <4> SUFFICES ASSUME NEW i \in 1..Cardinality(s) PROVE (IF i = Cardinality(s) THEN m ELSE f[i]) \in s
                OBVIOUS
            <4>1. CASE i = Cardinality(s)
                BY <2>2, <4>1
            <4>2. CASE i # Cardinality(s)
                <5>1. i \in 1..Cardinality(u)
                    BY <3>1, <4>2
                <5> QED BY <3>3, <4>2, <5>1
            <4> QED BY <4>1, <4>2
        <3>6. \A i, k \in 1..Cardinality(s) : i < k => g[i] < g[k]
            <4> SUFFICES ASSUME NEW i \in 1..Cardinality(s), NEW k \in 1..Cardinality(s), i < k
                         PROVE  g[i] < g[k]
                OBVIOUS
            <4> HIDE DEF g
            <4>1. i \in 1..Cardinality(u)
                BY <3>1
            <4>2. CASE k = Cardinality(s)
                BY <3>3, <3>4, <4>1, <4>2
            <4>3. CASE k # Cardinality(s)
                <5>1. k \in 1..Cardinality(u)
                    BY <3>1, <4>3
                <5> QED BY <3>2, <3>3, <4>1, <5>1
            <4> QED BY <4>2, <4>3
        <3>7. Sorted(s, g)
            BY <3>5, <3>6
        <3> QED BY <3>7
    <2>3. s # {} => \E m \in s : \A x \in s : x <= m
        BY <2>0, GreatestExists
    <2> QED BY <2>1, <2>2, <2>3
<1> HIDE DEF T
<1>2. S \in T
    BY <1>1, SubsetInduction
<1> QED BY <1>2 DEF T

\* Every number of the set has its place in the sequence.
LEMMA AscendingSound ==
    ASSUME NEW S \in SUBSET Nat, IsFiniteSet(S)
    PROVE  /\ Cardinality(S) \in Nat
           /\ Ascending(S) \in [1..Cardinality(S) -> S]
           /\ \A i, k \in 1..Cardinality(S) : i < k => Ascending(S)[i] < Ascending(S)[k]
           /\ \A x \in S : \E i \in 1..Cardinality(S) : Ascending(S)[i] = x
<1> DEFINE n == Cardinality(S)
           f == Ascending(S)
<1>1. n \in Nat
    BY FS_CardinalityType
<1>2. f \in [1..n -> S] /\ \A i \in 1..n : \A k \in 1..n : i < k => f[i] < f[k]
    BY AscendingExists DEF Ascending
<1> HIDE DEF f, n
<1>3. ASSUME NEW i \in 1..n, NEW k \in 1..n, i # k PROVE f[i] # f[k]
    <2>1. i \in Int /\ k \in Int /\ f[i] \in Nat /\ f[k] \in Nat
        <3>1. f[i] \in S /\ f[k] \in S
            BY <1>2
        <3>2. f[i] \in Nat /\ f[k] \in Nat
            BY <3>1
        <3> HIDE DEF n, f
        <3>3. i \in Int /\ k \in Int
            BY <1>1
        <3> QED BY <3>2, <3>3
    <2>2. i < k => f[i] < f[k]
        BY <1>2
    <2>3. k < i => f[k] < f[i]
        BY <1>2
    <2> QED BY <1>3, <2>1, <2>2, <2>3
<1>4. f \in Injection(1..n, S)
    BY <1>2, <1>3 DEF Injection, IsInjective
<1>5. Cardinality(1..n) = n
    BY <1>1, FS_Interval
<1>6. f \in Surjection(1..n, S)
    BY <1>4, <1>5, FS_Injection DEF n
<1>7. \A x \in S : \E i \in 1..n : f[i] = x
    BY <1>6 DEF Surjection
<1> USE DEF f, n
<1> QED BY <1>1, <1>2, <1>7

-----------------------------------------------------------------------------
(* The hub.                                                                 *)

\* Where an end of the log of that length begins.
EndOfLog(events) ==
    /\ events \in Seq(Nat) /\ Len(events) \in Nat /\ Len(events) <= Len(log)
    /\ \A i \in 1..Len(events) : events[i] = Len(log) - Len(events) + i

LEMMA LogNumbers ==
    ASSUME HubInv
    PROVE  /\ Len(log) \in Nat /\ Len(log) < ResetId /\ ResetId \in Nat /\ ResetId # NoId
           /\ \A n \in 1..Len(log) : log[n] \in Entry /\ n # ResetId /\ n # NoId /\ n \in Nat
BY HubConstants DEF HubInv, NoId

LEMMA PrunedIsEnd ==
    ASSUME HubInv, NEW events \in Pruned
    PROVE  EndOfLog(events) /\ Len(events) <= Len(retained)
<1>1. PICK k \in 1..Len(retained) + 1 : events = SubSeq(retained, k, Len(retained))
    BY DEF Pruned
<1>2. Len(retained) \in Nat /\ Len(log) \in Nat /\ retained \in Seq(Nat) /\ k \in Int
    BY DEF HubInv
<1>3. \A i \in k..Len(retained) : retained[i] \in Nat
    BY <1>2
<1>4. /\ events \in Seq(Nat) /\ Len(events) = Len(retained) - k + 1
      /\ \A i \in 1..(Len(retained) - k + 1) : events[i] = retained[k + i - 1]
    <2>1. /\ SubSeq(retained, k, Len(retained)) \in Seq(Nat)
          /\ Len(SubSeq(retained, k, Len(retained))) = IF k <= Len(retained) THEN Len(retained) - k + 1 ELSE 0
          /\ \A i \in 1..(Len(retained) - k + 1) : SubSeq(retained, k, Len(retained))[i] = retained[k + i - 1]
        BY <1>2, <1>3, SubSeqProperties
    <2> QED BY <1>1, <1>2, <2>1
<1>5. \A i \in 1..(Len(retained) - k + 1) : k + i - 1 \in 1..Len(retained)
    BY <1>2
<1> QED BY <1>2, <1>4, <1>5 DEF HubInv, EndOfLog

\* A hub that publishes keeps an end of the longer log.
LEMMA KeptIsEnd ==
    ASSUME HubInv, NEW events \in Pruned, NEW entry \in Entry, Len(log) + 1 <= MaxEvents,
           log' = Append(log, entry), retained' = Kept(Append(events, Len(log) + 1))
    PROVE  HubInv' /\ Len(log') = Len(log) + 1 /\ \A n \in 1..Len(log) : log'[n] = log[n]
<1> DEFINE longer == Append(events, Len(log) + 1)
           from == IF Len(longer) > Capacity THEN Len(longer) - Capacity + 1 ELSE 1
<1>1. EndOfLog(events) /\ Len(log) \in Nat /\ Capacity \in Nat /\ Capacity >= 1
    BY PrunedIsEnd, HubConstants DEF HubInv
<1>2. /\ log' \in Seq(Entry) /\ Len(log') = Len(log) + 1
      /\ \A n \in 1..Len(log) : log'[n] = log[n]
    BY AppendProperties DEF HubInv
<1>3. /\ longer \in Seq(Nat) /\ Len(longer) = Len(events) + 1
      /\ \A i \in 1..Len(longer) : longer[i] = Len(log) - Len(events) + i
    <2>1. /\ longer \in Seq(Nat) /\ Len(longer) = Len(events) + 1
          /\ \A i \in 1..Len(events) : longer[i] = events[i]
          /\ longer[Len(events) + 1] = Len(log) + 1
        BY <1>1, AppendProperties DEF EndOfLog
    <2> HIDE DEF longer
    <2>2. ASSUME NEW i \in 1..Len(longer) PROVE longer[i] = Len(log) - Len(events) + i
        <3>1. CASE i = Len(events) + 1
            BY <1>1, <2>1, <3>1 DEF EndOfLog
        <3>2. CASE i # Len(events) + 1
            <4>1. i \in 1..Len(events)
                BY <1>1, <2>1, <3>2 DEF EndOfLog
            <4> QED BY <1>1, <2>1, <4>1 DEF EndOfLog
        <3> QED BY <3>1, <3>2
    <2> QED BY <2>1, <2>2
<1>4. retained' = SubSeq(longer, from, Len(longer))
    BY DEF Kept
<1> HIDE DEF longer
<1>5. Len(longer) \in Nat /\ from \in 1..Len(longer) /\ Len(longer) - from + 1 <= Capacity
    BY <1>1, <1>3 DEF EndOfLog
<1> HIDE DEF from
<1>6. \A i \in from..Len(longer) : longer[i] \in Nat
    BY <1>3, <1>5
<1>7. /\ SubSeq(longer, from, Len(longer)) \in Seq(Nat)
      /\ Len(SubSeq(longer, from, Len(longer))) = IF from <= Len(longer) THEN Len(longer) - from + 1 ELSE 0
      /\ \A i \in 1..(Len(longer) - from + 1) : SubSeq(longer, from, Len(longer))[i] = longer[from + i - 1]
    BY <1>5, <1>6, SubSeqProperties
<1>8. /\ retained' \in Seq(Nat) /\ Len(retained') = Len(longer) - from + 1
      /\ \A i \in 1..(Len(longer) - from + 1) : retained'[i] = longer[from + i - 1]
    <2>1. from <= Len(longer)
        BY <1>5
    <2> DEFINE kept == SubSeq(longer, from, Len(longer))
    <2> HIDE DEF kept
    <2>2. /\ kept \in Seq(Nat) /\ Len(kept) = Len(longer) - from + 1
          /\ \A i \in 1..(Len(longer) - from + 1) : kept[i] = longer[from + i - 1]
        BY <1>7, <2>1 DEF kept
    <2>3. retained' = kept
        BY <1>4 DEF kept
    <2> QED BY <2>2, <2>3
<1>9. \A i \in 1..(Len(longer) - from + 1) : from + i - 1 \in 1..Len(longer)
    BY <1>5
<1>10. \A i \in 1..Len(retained') : retained'[i] = Len(log') - Len(retained') + i
    <2> SUFFICES ASSUME NEW i \in 1..(Len(longer) - from + 1)
                 PROVE  retained'[i] = Len(log') - Len(retained') + i
        BY <1>8
    <2>1. from + i - 1 \in 1..Len(longer) /\ retained'[i] = longer[from + i - 1]
        BY <1>8, <1>9
    <2>2. retained'[i] = Len(log) - Len(events) + (from + i - 1)
        BY <1>3, <2>1
    <2>3. Len(longer) = Len(events) + 1 /\ Len(events) \in Nat
        BY <1>1, <1>3 DEF EndOfLog
    <2>4. Len(log') - Len(retained') + i = (Len(log) + 1) - (Len(longer) - from + 1) + i
        BY <1>2, <1>8
    <2>5. from \in Int /\ i \in Int /\ Len(log) \in Int
        BY <1>1, <1>5
    <2> QED BY <2>2, <2>3, <2>4, <2>5
<1>11. Len(retained') <= Capacity /\ Len(retained') <= Len(log') /\ Len(log') <= MaxEvents
    BY <1>1, <1>2, <1>3, <1>5, <1>8 DEF EndOfLog
<1> QED BY <1>2, <1>8, <1>10, <1>11 DEF HubInv

\* A pruned hub is as good as the one before.
LEMMA PrunedHub ==
    ASSUME HubInv, NEW events \in Pruned, retained' = events, UNCHANGED log
    PROVE  HubInv'
<1>1. EndOfLog(events) /\ Len(events) <= Len(retained)
    BY PrunedIsEnd
<1>2. Len(retained) \in Nat /\ Capacity \in Nat
    BY HubConstants DEF HubInv
<1> QED BY <1>1, <1>2 DEF HubInv, EndOfLog

\* A replay is what the hub has after the cursor, in order, and leaves out nothing of
\* the subscription's topics.
ReplayOf(r, id, topics) ==
    /\ r \in Seq(Nat)
    /\ \A i \in 1..Len(r) : r[i] \in 1..Len(log) /\ r[i] > id /\ log[r[i]].topic \in topics
    /\ \A i, j \in 1..Len(r) : i < j => r[i] < r[j]
    /\ \A n \in 1..Len(log) : n > id /\ log[n].topic \in topics => \E j \in 1..Len(r) : r[j] = n

LEMMA ReplaySound ==
    ASSUME HubInv, NEW events, EndOfLog(events), NEW id \in Range(events), NEW topics
    PROVE  ReplayOf(Replay(events, id, topics), id, topics)
<1> DEFINE cursor == CHOOSE i \in DOMAIN events : events[i] = id
           wanted == {i \in cursor + 1..Len(events) : TopicOf(events[i]) \in topics}
           order == Ascending(wanted)
           r == [i \in 1..Cardinality(wanted) |-> events[order[i]]]
<1>1. /\ Len(log) \in Nat /\ Len(events) \in Nat /\ Len(events) <= Len(log) /\ DOMAIN events = 1..Len(events)
      /\ \A i \in 1..Len(events) : events[i] = Len(log) - Len(events) + i
    BY DEF HubInv, EndOfLog
<1>2. cursor \in 1..Len(events) /\ events[cursor] = id
    BY <1>1 DEF Range
<1> HIDE DEF cursor
<1>3. id = Len(log) - Len(events) + cursor
    BY <1>1, <1>2
<1>4. /\ \A i \in cursor + 1..Len(events) :
             /\ i \in 1..Len(events) /\ i \in Nat /\ events[i] \in 1..Len(log) /\ events[i] > id
             /\ TopicOf(events[i]) = log[events[i]].topic
      /\ \A n \in 1..Len(log) : n > id =>
             \E i \in cursor + 1..Len(events) : events[i] = n
    <2>1. ASSUME NEW i \in cursor + 1..Len(events)
          PROVE  /\ i \in 1..Len(events) /\ i \in Nat /\ events[i] \in 1..Len(log) /\ events[i] > id
                 /\ TopicOf(events[i]) = log[events[i]].topic
        <3>1. i \in 1..Len(events) /\ i \in Nat
            BY <1>1, <1>2
        <3>2. events[i] \in 1..Len(log) /\ events[i] > id
            BY <1>1, <1>2, <1>3, <3>1
        <3> QED BY <3>1, <3>2, LogNumbers DEF TopicOf
    <2>2. ASSUME NEW n \in 1..Len(log), n > id
          PROVE  \E i \in cursor + 1..Len(events) : events[i] = n
        <3> DEFINE i == n - Len(log) + Len(events)
        <3>1. i \in cursor + 1..Len(events) /\ i \in 1..Len(events)
            BY <1>1, <1>2, <1>3, <2>2
        <3>2. events[i] = n
            BY <1>1, <3>1
        <3> QED BY <3>1, <3>2
    <2> QED BY <2>1, <2>2
<1>5. wanted \in SUBSET Nat /\ IsFiniteSet(wanted)
    <2>1. IsFiniteSet(cursor + 1..Len(events))
        BY <1>1, <1>2, FS_Interval
    <2>2. wanted \in SUBSET (cursor + 1..Len(events))
        OBVIOUS
    <2> QED BY <1>4, <2>1, <2>2, FS_Subset
<1>6. /\ Cardinality(wanted) \in Nat /\ order \in [1..Cardinality(wanted) -> wanted]
      /\ \A i, k \in 1..Cardinality(wanted) : i < k => order[i] < order[k]
      /\ \A x \in wanted : \E i \in 1..Cardinality(wanted) : order[i] = x
    BY <1>5, AscendingSound
<1>7. \A x \in wanted : /\ x \in 1..Len(events) /\ events[x] \in 1..Len(log) /\ events[x] > id
                        /\ log[events[x]].topic \in topics
    BY <1>4
<1>8. \A n \in 1..Len(log) : n > id /\ log[n].topic \in topics => \E x \in wanted : events[x] = n
    BY <1>4
<1>9. Replay(events, id, topics) = r
    BY DEF Replay, cursor
<1> HIDE DEF wanted, order
<1>10. r \in Seq(Nat) /\ Len(r) = Cardinality(wanted)
    <2>1. \A i \in 1..Cardinality(wanted) : events[order[i]] \in Nat
        BY <1>1, <1>6, <1>7
    <2>2. r \in [1..Cardinality(wanted) -> Nat]
        BY <2>1
    <2> QED BY <1>6, <2>2
<1>11. \A i \in 1..Len(r) : r[i] = events[order[i]] /\ order[i] \in wanted
    BY <1>6, <1>10
<1> HIDE DEF r
<1>12. \A i \in 1..Len(r) : r[i] \in 1..Len(log) /\ r[i] > id /\ log[r[i]].topic \in topics
    BY <1>7, <1>11
<1>13. ASSUME NEW i \in 1..Len(r), NEW j \in 1..Len(r), i < j PROVE r[i] < r[j]
    <2>1. order[i] < order[j]
        BY <1>6, <1>10, <1>13
    <2>2. order[i] \in 1..Len(events) /\ order[j] \in 1..Len(events)
        BY <1>7, <1>11
    <2>3. r[i] = Len(log) - Len(events) + order[i] /\ r[j] = Len(log) - Len(events) + order[j]
        BY <1>1, <1>11, <2>2
    <2> QED BY <1>1, <2>1, <2>2, <2>3
<1>14. ASSUME NEW n \in 1..Len(log), n > id, log[n].topic \in topics PROVE \E j \in 1..Len(r) : r[j] = n
    <2>1. PICK x \in wanted : events[x] = n
        BY <1>8, <1>14
    <2>2. PICK j \in 1..Cardinality(wanted) : order[j] = x
        BY <1>6
    <2> QED BY <1>10, <1>11, <2>1, <2>2
<1>15. ReplayOf(r, id, topics)
    BY <1>10, <1>12, <1>13, <1>14 DEF ReplayOf
<1> QED BY <1>9, <1>15

-----------------------------------------------------------------------------
(* Streams.                                                                 *)

LEMMA ShapesOf ==
    ASSUME HubTypes, NEW c \in Clients
    PROVE  /\ stream[c] \in Stream /\ client[c] \in Client
           /\ stream[c].buffer \in Seq(Nat) /\ Len(stream[c].buffer) \in Nat /\ stream[c].room \in Nat
           /\ client[c].heard \in Seq(Nat) /\ Len(client[c].heard) \in Nat
           /\ client[c].base \in Nat /\ client[c].id \in Nat
<1>1. stream[c] \in Stream /\ client[c] \in Client
    BY DEF HubTypes
<1> QED BY <1>1 DEF Stream, Client

LEMMA LastIsLogged ==
    ASSUME HubInv, NEW k \in Client, ClientSound(k)
    PROVE  /\ LastOf(k) \in Nat /\ LastOf(k) <= Len(log)
           /\ \A i \in 1..Len(k.heard) : k.heard[i] <= LastOf(k)
<1>1. k.heard \in Seq(Nat) /\ Len(k.heard) \in Nat /\ Len(log) \in Nat
    BY DEF Client, HubInv
<1>2. CASE k.heard = <<>>
    BY <1>1, <1>2 DEF LastOf
<1>3. CASE k.heard # <<>>
    <2>1. Len(k.heard) \in 1..Len(k.heard) /\ LastOf(k) = k.heard[Len(k.heard)]
        BY <1>1, <1>3 DEF LastOf
    <2>2. \A i \in 1..Len(k.heard) : i = Len(k.heard) \/ i < Len(k.heard)
        BY <1>1
    <2>3. \A i \in 1..Len(k.heard) : k.heard[i] = LastOf(k) \/ k.heard[i] < LastOf(k)
        BY <2>1, <2>2 DEF ClientSound
    <2>4. \A i \in 1..Len(k.heard) : k.heard[i] \in 1..Len(log)
        BY DEF ClientSound
    <2>5. LastOf(k) \in 1..Len(log)
        BY <2>1, <2>4
    <2> QED BY <1>1, <2>3, <2>4, <2>5
<1> QED BY <1>2, <1>3

LEMMA OffIsSound ==
    ASSUME NEW k
    PROVE  Off \in Stream /\ StreamSound(Off) /\ Delivered(Off, k)
<1>1. /\ Off.phase = "off" /\ Off.registered = FALSE /\ Off.grant = {} /\ Off.topics = {}
      /\ Off.buffer = <<>> /\ Off.room = 0
    BY DEF Off
<1>2. <<>> \in Seq(Nat) /\ Len(<<>>) = 0 /\ 1..0 = {}
    OBVIOUS
<1>3. Off \in Stream
    BY <1>2 DEF Off, Stream
<1>4. StreamSound(Off)
    BY <1>1, <1>2 DEF StreamSound
<1>5. Delivered(Off, k)
    BY <1>1 DEF Delivered
<1> QED BY <1>3, <1>4, <1>5

\* A client and a stream that nothing happens to stay as good as they are.
LEMMA NothingHappens ==
    ASSUME NEW c \in Clients, Sound(c), stream'[c] = stream[c], client'[c] = client[c], UNCHANGED log
    PROVE  Sound(c)'
BY DEF Sound, ClientSound, StreamSound, Delivered, LastOf

\* Nor is a client harmed by the end of its stream.
LEMMA StreamEnds ==
    ASSUME NEW c \in Clients, ClientSound(client[c]), stream'[c] = Off, client'[c] = client[c], UNCHANGED log
    PROVE  Sound(c)'
<1>1. ClientSound(client[c])'
    BY DEF ClientSound, LastOf
<1>2. StreamSound(stream[c])' /\ Delivered(stream[c], client[c])'
    <2>1. /\ stream'[c].phase = "off" /\ stream'[c].registered = FALSE /\ stream'[c].buffer = <<>>
          /\ stream'[c].room = 0
        BY DEF Off
    <2>2. Len(<<>>) = 0 /\ 1..0 = {}
        OBVIOUS
    <2> QED BY <2>1, <2>2 DEF StreamSound, Delivered
<1> QED BY <1>1, <1>2 DEF Sound

\* What a client knows of the log does not depend on what is published later.
LEMMA LogGrows ==
    ASSUME HubInv, NEW k \in Client, ClientSound(k), k' = k,
           Len(log') = Len(log) + 1, \A n \in 1..Len(log) : log'[n] = log[n]
    PROVE  ClientSound(k)'
<1>1. LastOf(k) \in Nat /\ LastOf(k) <= Len(log) /\ Len(log) \in Nat /\ LastOf(k)' = LastOf(k)
    BY LastIsLogged DEF HubInv, LastOf
<1>2. k.base \in Nat /\ k.heard \in Seq(Nat) /\ Len(k.heard) \in Nat
    BY DEF Client
<1>3. \A n \in 1..Len(log) : n \in 1..Len(log')
    BY <1>1
<1>4. \A n \in 1..Len(log') : n <= LastOf(k) => n \in 1..Len(log)
    BY <1>1
<1>5. k.base <= Len(log')
    BY <1>1, <1>2 DEF ClientSound
<1>6. \A n \in 1..Len(log') :
          k.base < n /\ n <= LastOf(k) /\ log'[n].topic \in k.topics =>
              \E i \in 1..Len(k.heard) : k.heard[i] = n
    BY <1>4 DEF ClientSound
<1> QED BY <1>1, <1>3, <1>5, <1>6 DEF ClientSound

LEMMA Publication ==
    ASSUME HubInv, HubTypes, \A c \in Clients : Sound(c),
           NEW topic \in Topics, NEW session \in SUBSET Clients, PublishEvent(topic, session), UNCHANGED client
    PROVE  HubInv' /\ stream' \in [Clients -> Stream] /\ \A c \in Clients : Sound(c)'
<1> DEFINE n == Len(log) + 1
           entry == [topic |-> topic, session |-> session]
<1>1. /\ n <= MaxEvents /\ log' = Append(log, entry) /\ entry \in Entry
      /\ \E events \in Pruned : retained' = Kept(Append(events, n))
      /\ stream' = [c \in Clients |->
           IF stream[c].registered /\ topic \in stream[c].topics
           THEN Offered(stream[c], n) ELSE stream[c]]
    BY DEF PublishEvent, Entry
<1>2. HubInv' /\ Len(log') = n /\ \A m \in 1..Len(log) : log'[m] = log[m]
    BY <1>1, KeptIsEnd
<1>3. log'[n].topic = topic /\ Len(log) \in Nat /\ n \in Nat /\ n # ResetId
    <2>1. log'[n] = entry /\ Len(log) \in Nat
        BY <1>1, AppendProperties DEF HubInv
    <2> QED BY <1>1, <2>1, HubConstants
<1> HIDE DEF n, entry
<1>4. ASSUME NEW c \in Clients PROVE stream'[c] \in Stream /\ Sound(c)'
    <2> DEFINE s == stream[c]
               k == client[c]
    <2>1. /\ s \in Stream /\ k \in Client /\ s.buffer \in Seq(Nat) /\ Len(s.buffer) \in Nat /\ s.room \in Nat
          /\ ClientSound(k) /\ StreamSound(s) /\ Delivered(s, k) /\ client'[c] = k
        BY <1>4, ShapesOf DEF Sound
    <2>2. ClientSound(client[c])'
        BY <1>2, <2>1, LogGrows DEF n
    <2>3. LastOf(k) \in Nat /\ LastOf(k) <= Len(log) /\ LastOf(client'[c]) = LastOf(k)
        BY <2>1, LastIsLogged
    <2>4. /\ \A m \in 1..Len(log') : m \in 1..Len(log) \/ m = n
          /\ \A m \in 1..Len(log) : m \in 1..Len(log') /\ m < n
        BY <1>2, <1>3 DEF n
    <2>5. \A i \in 1..Len(s.buffer) :
             s.buffer[i] = ResetId \/ (s.buffer[i] \in 1..Len(log) /\ s.buffer[i] < n
                                       /\ log'[s.buffer[i]].topic \in s.topics)
        BY <1>2, <2>1, <2>4 DEF StreamSound
    <2>6. CASE ~(s.registered /\ topic \in s.topics)
        <3>1. stream'[c] = s
            BY <1>1, <2>6
        <3>2. StreamSound(s)'
            BY <2>1, <2>4, <2>5, <3>1 DEF StreamSound
        <3>3. ASSUME s.phase = "on", NEW m \in 1..Len(log'),
                     m > k.base /\ m > LastOf(k) /\ log'[m].topic \in k.topics,
                     s.registered \/ \E i \in 1..Len(s.buffer) : s.buffer[i] # ResetId /\ m <= s.buffer[i]
              PROVE  \E j \in 1..Len(s.buffer) : s.buffer[j] = m
            <4>1. CASE m \in 1..Len(log)
                BY <1>2, <2>1, <3>3, <4>1 DEF Delivered
            <4>2. CASE m = n
                <5>1. ~s.registered
                    BY <1>3, <2>1, <2>6, <3>3, <4>2 DEF Delivered
                <5>2. PICK i \in 1..Len(s.buffer) : s.buffer[i] # ResetId /\ m <= s.buffer[i]
                    BY <3>3, <5>1
                <5>3. s.buffer[i] \in Nat /\ s.buffer[i] < n
                    BY <2>1, <2>5, <5>2
                <5> QED BY <1>3, <4>2, <5>2, <5>3
            <4> QED BY <2>4, <4>1, <4>2
        <3>4. Delivered(s, k)'
            BY <2>1, <2>3, <3>1, <3>3 DEF Delivered
        <3> QED BY <2>1, <2>2, <3>1, <3>2, <3>4 DEF Sound
    <2>7. CASE s.registered /\ topic \in s.topics /\ Len(s.buffer) < s.room
        <3> DEFINE longer == Append(s.buffer, n)
        <3>1. stream'[c] = [s EXCEPT !.buffer = longer]
            BY <1>1, <2>7 DEF Offered
        <3>2. /\ longer \in Seq(Nat) /\ Len(longer) = Len(s.buffer) + 1
              /\ \A i \in 1..Len(s.buffer) : longer[i] = s.buffer[i]
              /\ longer[Len(s.buffer) + 1] = n
            BY <1>3, <2>1, AppendProperties
        <3> HIDE DEF longer
        <3>3. /\ stream'[c] \in Stream /\ stream'[c].phase = s.phase /\ stream'[c].registered = s.registered
              /\ stream'[c].grant = s.grant /\ stream'[c].topics = s.topics
              /\ stream'[c].buffer = longer /\ stream'[c].room = s.room
            BY <2>1, <3>1, <3>2 DEF Stream
        <3>4. \A i \in 1..Len(longer) :
                 (i \in 1..Len(s.buffer) /\ longer[i] = s.buffer[i]) \/ (i = Len(s.buffer) + 1 /\ longer[i] = n)
            BY <2>1, <3>2
        <3>5. StreamSound(stream[c])'
            <4>1. s.phase = "on" /\ s.topics \subseteq s.grant /\ Len(longer) <= s.room
                BY <2>1, <2>7, <3>2 DEF StreamSound
            <4>2. \A i \in 1..Len(longer) :
                     longer[i] = ResetId \/ (longer[i] \in 1..Len(log') /\ log'[longer[i]].topic \in s.topics)
                <5> SUFFICES ASSUME NEW i \in 1..Len(longer)
                             PROVE  longer[i] = ResetId \/ (longer[i] \in 1..Len(log')
                                                            /\ log'[longer[i]].topic \in s.topics)
                    OBVIOUS
                <5>1. CASE i \in 1..Len(s.buffer) /\ longer[i] = s.buffer[i]
                    BY <2>4, <2>5, <5>1
                <5>2. CASE longer[i] = n
                    <6>1. n \in 1..Len(log')
                        BY <1>2, <1>3 DEF n
                    <6> QED BY <1>3, <2>7, <5>2, <6>1
                <5> QED BY <3>4, <5>1, <5>2
            <4>3. ASSUME NEW i \in 1..Len(longer), NEW j \in 1..Len(longer), i < j
                  PROVE  longer[j] # ResetId /\ (longer[i] = ResetId \/ longer[i] < longer[j])
                <5>1. i \in 1..Len(s.buffer) /\ longer[i] = s.buffer[i]
                    BY <2>1, <3>2, <4>3
                <5>2. CASE j \in 1..Len(s.buffer)
                    BY <2>1, <3>2, <4>3, <5>1, <5>2 DEF StreamSound
                <5>3. CASE longer[j] = n
                    BY <1>3, <2>5, <5>1, <5>3
                <5> QED BY <3>4, <5>2, <5>3
            <4> QED BY <3>3, <4>1, <4>2, <4>3 DEF StreamSound
        <3>6. Delivered(stream[c], client[c])'
            <4>1. ASSUME NEW i \in 1..Len(longer) PROVE longer[i] > LastOf(k)
                <5>1. CASE i \in 1..Len(s.buffer) /\ longer[i] = s.buffer[i]
                    BY <2>1, <2>7, <5>1 DEF Delivered, StreamSound
                <5>2. CASE longer[i] = n
                    BY <1>3, <2>3, <5>2 DEF n
                <5> QED BY <3>4, <5>1, <5>2
            <4>2. ASSUME NEW m \in 1..Len(log'), m > k.base /\ m > LastOf(k) /\ log'[m].topic \in k.topics
                  PROVE  \E j \in 1..Len(longer) : longer[j] = m
                <5>1. CASE m \in 1..Len(log)
                    <6>1. PICK j \in 1..Len(s.buffer) : s.buffer[j] = m
                        BY <1>2, <2>1, <2>7, <4>2, <5>1 DEF Delivered, StreamSound
                    <6>2. j \in 1..Len(longer)
                        BY <2>1, <3>2
                    <6>3. longer[j] = m
                        BY <3>2, <6>1
                    <6> QED BY <6>2, <6>3
                <5>2. CASE m = n
                    <6>1. Len(s.buffer) + 1 \in 1..Len(longer)
                        BY <2>1, <3>2
                    <6> QED BY <3>2, <5>2, <6>1
                <5> QED BY <2>4, <5>1, <5>2
            <4>3. k.topics \subseteq s.topics
                BY <2>1, <2>7 DEF Delivered, StreamSound
            <4> QED BY <2>1, <2>3, <3>3, <4>1, <4>2, <4>3 DEF Delivered
        <3> QED BY <2>2, <3>3, <3>5, <3>6 DEF Sound
    <2>8. CASE s.registered /\ topic \in s.topics /\ ~(Len(s.buffer) < s.room)
        <3>1. stream'[c] = [s EXCEPT !.registered = FALSE]
            BY <1>1, <2>8 DEF Offered
        <3>2. /\ stream'[c] \in Stream /\ stream'[c].phase = s.phase /\ stream'[c].registered = FALSE
              /\ stream'[c].grant = s.grant /\ stream'[c].topics = s.topics
              /\ stream'[c].buffer = s.buffer /\ stream'[c].room = s.room
            BY <2>1, <3>1 DEF Stream
        <3>3. StreamSound(stream[c])'
            BY <2>1, <2>4, <2>5, <3>2 DEF StreamSound
        <3>4. ASSUME s.phase = "on", NEW m \in 1..Len(log'),
                     m > k.base /\ m > LastOf(k) /\ log'[m].topic \in k.topics,
                     NEW i \in 1..Len(s.buffer), s.buffer[i] # ResetId /\ m <= s.buffer[i]
              PROVE  \E j \in 1..Len(s.buffer) : s.buffer[j] = m
            <4>1. s.buffer[i] \in Nat /\ s.buffer[i] < n
                <5>1. s.buffer[i] \in 1..Len(log) /\ s.buffer[i] < n
                    BY <2>5, <3>4
                <5> QED BY <1>3, <5>1
            <4>2. m \in 1..Len(log)
                BY <1>3, <2>4, <3>4, <4>1
            <4> QED BY <1>2, <2>1, <3>4, <4>2 DEF Delivered
        <3>5. Delivered(stream[c], client[c])'
            BY <2>1, <2>3, <3>2, <3>4 DEF Delivered
        <3> QED BY <2>2, <3>2, <3>3, <3>5 DEF Sound
    <2> QED BY <2>6, <2>7, <2>8
<1>5. stream' \in [Clients -> Stream]
    BY <1>1, <1>4
<1> QED BY <1>2, <1>4, <1>5

-----------------------------------------------------------------------------
(* Handlers.                                                                *)

\* A step of one handler leaves the others' clients alone.
LEMMA OneStream ==
    ASSUME StreamsInv, HubInv', HubTypes', UNCHANGED log, NEW c \in Clients, Sound(c)',
           \A d \in Clients \ {c} : stream'[d] = stream[d] /\ client'[d] = client[d]
    PROVE  StreamsInv'
<1>1. ASSUME NEW d \in Clients, d # c PROVE Sound(d)'
    BY <1>1, NothingHappens DEF StreamsInv
<1> QED BY <1>1 DEF StreamsInv

LEMMA StepOfOne ==
    ASSUME HubTypes, NEW c \in Clients, NEW s \in Stream, NEW k \in Client,
           stream' = [stream EXCEPT ![c] = s], client' = [client EXCEPT ![c] = k], UNCHANGED <<granted, revoking>>
    PROVE  /\ HubTypes' /\ stream'[c] = s /\ client'[c] = k
           /\ \A d \in Clients \ {c} : stream'[d] = stream[d] /\ client'[d] = client[d]
<1>1. stream \in [Clients -> Stream] /\ client \in [Clients -> Client]
    BY DEF HubTypes
<1>2. stream' \in [Clients -> Stream] /\ client' \in [Clients -> Client]
    BY <1>1
<1>3. /\ stream'[c] = s /\ client'[c] = k
      /\ \A d \in Clients \ {c} : stream'[d] = stream[d] /\ client'[d] = client[d]
    BY <1>1
<1> QED BY <1>2, <1>3 DEF HubTypes

\* The hub does not change while a handler ends or authenticates.
LEMMA QuitKeeps ==
    ASSUME StreamsInv, NEW c \in Clients, Quits(c)
    PROVE  StreamsInv'
<1>1. /\ stream' = [stream EXCEPT ![c] = Off] /\ client' = [client EXCEPT ![c] = client[c]]
      /\ UNCHANGED <<log, retained, granted, client, revoking>>
    BY DEF Quits, StreamsInv, HubTypes
<1>2. Off \in Stream /\ client[c] \in Client
    BY OffIsSound, ShapesOf DEF StreamsInv
<1>3. /\ HubTypes' /\ stream'[c] = Off /\ client'[c] = client[c]
      /\ \A d \in Clients \ {c} : stream'[d] = stream[d] /\ client'[d] = client[d]
    BY <1>1, <1>2, StepOfOne DEF StreamsInv
<1>4. HubInv'
    BY <1>1 DEF StreamsInv, HubInv
<1>5. Sound(c)'
    BY <1>1, <1>3, StreamEnds DEF StreamsInv, Sound
<1> QED BY <1>1, <1>3, <1>4, <1>5, OneStream

LEMMA AuthenticateKeeps ==
    ASSUME StreamsInv, NEW c \in Clients, Authenticate(c)
    PROVE  StreamsInv'
<1> DEFINE s == [Off EXCEPT !.phase = "checked", !.grant = granted[c]]
<1>1. /\ stream' = [stream EXCEPT ![c] = s] /\ client' = [client EXCEPT ![c] = client[c]]
      /\ UNCHANGED <<log, retained, granted, client, revoking>>
    BY DEF Authenticate, StreamsInv, HubTypes
<1>2. /\ s.phase = "checked" /\ ~s.registered /\ s.buffer = <<>> /\ s.room = 0 /\ s \in Stream
      /\ client[c] \in Client
    <2>1. granted[c] \in SUBSET Topics /\ client[c] \in Client
        BY DEF StreamsInv, HubTypes
    <2>2. Off \in Stream /\ Off.registered = FALSE /\ Off.buffer = <<>> /\ Off.room = 0
        BY OffIsSound DEF Off
    <2> QED BY <2>1, <2>2 DEF Stream
<1> HIDE DEF s
<1>3. /\ HubTypes' /\ stream'[c] = s /\ client'[c] = client[c]
      /\ \A d \in Clients \ {c} : stream'[d] = stream[d] /\ client'[d] = client[d]
    BY <1>1, <1>2, StepOfOne DEF StreamsInv
<1>4. HubInv'
    BY <1>1 DEF StreamsInv, HubInv
<1>5. Sound(c)'
    <2>1. ClientSound(client[c])'
        BY <1>1 DEF StreamsInv, Sound, ClientSound, LastOf
    <2>2. Len(<<>>) = 0 /\ 1..0 = {}
        OBVIOUS
    <2>3. StreamSound(stream[c])' /\ Delivered(stream[c], client[c])'
        BY <1>2, <1>3, <2>2 DEF StreamSound, Delivered
    <2> QED BY <2>1, <2>3 DEF Sound
<1> QED BY <1>1, <1>3, <1>4, <1>5, OneStream

\* What a subscription starts with: nothing or a reset if the client starts anew.
Begins(first, k, topics) ==
    /\ k.id = NoId \/ first = <<ResetId>> => first = <<>> \/ first = <<ResetId>>
    /\ k.id # NoId /\ first # <<ResetId>> => k.id = LastOf(k) /\ ReplayOf(first, k.id, topics)

LEMMA FirstBuffer ==
    ASSUME StreamsInv, NEW c \in Clients, NEW events \in Pruned, NEW topics
    PROVE  Begins(InitialBuffer(events, client[c].id, topics), client[c], topics)
<1> DEFINE id == client[c].id
           first == InitialBuffer(events, id, topics)
<1>1. /\ EndOfLog(events) /\ HubInv /\ id \in Nat
      /\ id \in {NoId, ResetId} \/ id = LastOf(client[c])
    BY PrunedIsEnd, ShapesOf DEF StreamsInv, Sound, ClientSound
<1>2. id \in Range(events) => id \in 1..Len(log)
    <2>1. DOMAIN events = 1..Len(events) /\ Len(events) \in Nat /\ Len(log) \in Nat
        BY <1>1 DEF EndOfLog, HubInv
    <2> QED BY <1>1, <2>1 DEF Range, EndOfLog
<1>3. id \in Range(events) => id # NoId /\ id = LastOf(client[c])
    BY <1>1, <1>2, LogNumbers
<1>4. CASE id = NoId
    BY <1>3, <1>4 DEF InitialBuffer, Begins
<1>5. CASE id # NoId /\ id \in Range(events)
    <2>1. first = Replay(events, id, topics)
        BY <1>5 DEF InitialBuffer
    <2>2. ReplayOf(first, id, topics)
        BY <1>1, <1>5, <2>1, ReplaySound
    <2>3. first # <<ResetId>>
        <3> SUFFICES ASSUME first = <<ResetId>> PROVE FALSE
            OBVIOUS
        <3>1. first[1] = ResetId /\ 1 \in 1..Len(first)
            OBVIOUS
        <3>2. ResetId \in 1..Len(log)
            BY <2>2, <3>1 DEF ReplayOf
        <3> QED BY <1>1, <3>2, LogNumbers
    <2> QED BY <1>3, <1>5, <2>2, <2>3 DEF Begins
<1>6. CASE id # NoId /\ id \notin Range(events)
    BY <1>6 DEF InitialBuffer, Begins
<1> QED BY <1>4, <1>5, <1>6

LEMMA SubscribeKeeps ==
    ASSUME StreamsInv, NEW c \in Clients, Subscribe(c)
    PROVE  StreamsInv'
<1> DEFINE topics == Subscription(c)
<1>1. PICK events \in Pruned :
         /\ retained' = events
         /\ stream' = [stream EXCEPT ![c] =
              [stream[c] EXCEPT !.phase = "on", !.registered = TRUE, !.topics = topics,
                                !.buffer = InitialBuffer(events, client[c].id, topics),
                                !.room = SubscriberBuffer + Len(InitialBuffer(events, client[c].id, topics))]]
         /\ client' = [client EXCEPT ![c] =
              IF client[c].id = NoId \/ InitialBuffer(events, client[c].id, topics) = <<ResetId>>
              THEN [client[c] EXCEPT !.base = Len(log), !.topics = topics]
              ELSE [client[c] EXCEPT !.topics = client[c].topics \cap topics]]
    BY DEF Subscribe
<1> DEFINE k == client[c]
           first == InitialBuffer(events, k.id, topics)
           anew == k.id = NoId \/ first = <<ResetId>>
           s == [stream[c] EXCEPT !.phase = "on", !.registered = TRUE, !.topics = topics,
                                  !.buffer = first, !.room = SubscriberBuffer + Len(first)]
           j == IF anew THEN [k EXCEPT !.base = Len(log), !.topics = topics]
                ELSE [k EXCEPT !.topics = k.topics \cap topics]
<1>2. /\ retained' = events /\ UNCHANGED <<log, granted, revoking, restarts>>
      /\ Requested[c] \subseteq stream[c].grant
    BY <1>1 DEF Subscribe
<1>3. /\ HubInv /\ HubTypes /\ stream[c] \in Stream /\ k \in Client /\ ClientSound(k)
      /\ k.base \in Nat /\ Len(log) \in Nat
    BY ShapesOf DEF StreamsInv, Sound, HubInv
<1>4. topics \in SUBSET Topics /\ topics \subseteq stream[c].grant
    BY <1>2, <1>3, HubConstants DEF Subscription, Stream
<1>5. /\ anew => first = <<>> \/ first = <<ResetId>>
      /\ ~anew => k.id = LastOf(k) /\ ReplayOf(first, k.id, topics)
    <2>1. Begins(first, k, topics)
        BY FirstBuffer
    <2> HIDE DEF topics, first, k
    <2> QED BY <2>1 DEF Begins
<1>6. stream' = [stream EXCEPT ![c] = s] /\ client' = [client EXCEPT ![c] = j]
    BY <1>1
<1> HIDE DEF topics, first
<1>7. first \in Seq(Nat) /\ Len(first) \in Nat
    <2>1. <<>> \in Seq(Nat) /\ <<ResetId>> \in Seq(Nat)
        BY HubConstants
    <2>2. ReplayOf(first, k.id, topics) => first \in Seq(Nat)
        BY DEF ReplayOf
    <2> HIDE DEF k
    <2>3. first \in Seq(Nat)
        BY <1>5, <2>1, <2>2
    <2> QED BY <2>3
<1>8. /\ s \in Stream /\ s.phase = "on" /\ s.registered = TRUE /\ s.topics = topics
      /\ s.grant = stream[c].grant /\ s.buffer = first /\ s.room = SubscriberBuffer + Len(first)
    <2>1. SubscriberBuffer + Len(first) \in Nat
        BY <1>7, HubConstants
    <2>2. topics \in SUBSET Topics /\ first \in Seq(Nat) /\ stream[c] \in Stream
        BY <1>3, <1>4, <1>7
    <2> QED BY <2>1, <2>2 DEF Stream
<1>9. /\ j \in Client /\ j.id = k.id /\ j.heard = k.heard /\ LastOf(j) = LastOf(k)
      /\ anew => j.base = Len(log) /\ j.topics = topics
      /\ ~anew => j.base = k.base /\ j.topics = k.topics \cap topics
    BY <1>3, <1>4 DEF Client, LastOf
<1> HIDE DEF s, j, k, anew
<1>10. LastOf(k) \in Nat /\ LastOf(k) <= Len(log)
    BY <1>3, LastIsLogged
<1>11. ClientSound(j)
    <2>1. CASE anew
        BY <1>3, <1>9, <1>10, <2>1 DEF ClientSound
    <2>2. CASE ~anew
        BY <1>3, <1>9, <1>10, <2>2 DEF ClientSound
    <2> QED BY <2>1, <2>2
<1>12. StreamSound(s) /\ Delivered(s, j)
    <2>1. s.topics \subseteq s.grant /\ Len(s.buffer) <= s.room
        BY <1>4, <1>7, <1>8, HubConstants
    <2>2. CASE anew /\ first = <<>>
        <3>1. Len(first) = 0 /\ 1..0 = {}
            BY <2>2
        <3>2. \A n \in 1..Len(log) : ~(n > j.base)
            BY <1>3, <1>9, <2>2
        <3> QED BY <1>8, <1>9, <2>1, <2>2, <3>1, <3>2 DEF StreamSound, Delivered
    <2>3. CASE anew /\ first = <<ResetId>>
        <3>1. Len(first) = 1 /\ \A i \in 1..1 : i = 1 /\ first[i] = ResetId
            BY <2>3
        <3>2. \A n \in 1..Len(log) : ~(n > j.base)
            BY <1>3, <1>9, <2>3
        <3>3. ResetId > LastOf(j)
            BY <1>3, <1>9, <1>10, LogNumbers
        <3>4. \A i, m \in 1..1 : ~(i < m)
            OBVIOUS
        <3>5. StreamSound(s)
            BY <1>8, <2>1, <3>1, <3>4 DEF StreamSound
        <3>6. Delivered(s, j)
            BY <1>8, <1>9, <2>3, <3>1, <3>2, <3>3 DEF Delivered
        <3> QED BY <3>5, <3>6
    <2>4. CASE ~anew
        <3>1. StreamSound(s)
            <4>1. \A i \in 1..Len(first) : first[i] \in 1..Len(log) /\ log[first[i]].topic \in topics
                BY <1>5, <2>4 DEF ReplayOf
            <4>2. \A i, m \in 1..Len(first) : i < m => first[m] # ResetId /\ first[i] < first[m]
                BY <1>3, <1>5, <2>4, LogNumbers DEF ReplayOf
            <4> QED BY <1>8, <2>1, <4>1, <4>2 DEF StreamSound
        <3>2. Delivered(s, j)
            BY <1>5, <1>8, <1>9, <2>4 DEF Delivered, ReplayOf
        <3> QED BY <3>1, <3>2
    <2> QED BY <1>5, <2>2, <2>3, <2>4
<1>13. /\ HubTypes' /\ stream'[c] = s /\ client'[c] = j
       /\ \A d \in Clients \ {c} : stream'[d] = stream[d] /\ client'[d] = client[d]
    BY <1>2, <1>3, <1>6, <1>8, <1>9, StepOfOne
<1>14. HubInv'
    BY <1>2, <1>3, PrunedHub
<1>15. Sound(c)'
    BY <1>2, <1>11, <1>12, <1>13 DEF Sound, ClientSound, StreamSound, Delivered, LastOf
<1> QED BY <1>2, <1>13, <1>14, <1>15, OneStream

LEMMA Appended ==
    ASSUME NEW s \in Seq(Nat), NEW e \in Nat
    PROVE  /\ Append(s, e) # <<>> /\ Len(Append(s, e)) = Len(s) + 1 /\ Append(s, e)[Len(s) + 1] = e
           /\ \A i \in 1..Len(s) : Append(s, e)[i] = s[i]
BY AppendProperties

\* A client that was sent the first event of its buffer has all up to it.
LEMMA HeardOneMore ==
    ASSUME HubInv, NEW s \in Stream, NEW k \in Client, s.phase = "on", s.buffer # <<>>,
           ClientSound(k), StreamSound(s), Delivered(s, k),
           NEW n, n = Head(s.buffer), n # ResetId,
           NEW j \in Client, j.id = n, j.heard = Append(k.heard, n), j.base = k.base, j.topics = k.topics
    PROVE  ClientSound(j) /\ LastOf(j) = n
<1>1. /\ s.buffer \in Seq(Nat) /\ Len(s.buffer) \in Nat /\ Len(s.buffer) >= 1 /\ n = s.buffer[1]
      /\ k.heard \in Seq(Nat) /\ Len(k.heard) \in Nat /\ k.base \in Nat /\ Len(log) \in Nat
    BY DEF Stream, Client, HubInv
<1>2. /\ n \in 1..Len(log) /\ n > LastOf(k) /\ LastOf(k) \in Nat
      /\ \A i \in 1..Len(k.heard) : k.heard[i] \in 1..Len(log) /\ k.heard[i] <= LastOf(k)
    <2>1. 1 \in 1..Len(s.buffer)
        BY <1>1
    <2>2. n \in 1..Len(log) /\ n > LastOf(k)
        BY <1>1, <2>1 DEF StreamSound, Delivered
    <2>3. LastOf(k) \in Nat /\ \A i \in 1..Len(k.heard) : k.heard[i] <= LastOf(k)
        BY LastIsLogged
    <2> QED BY <2>2, <2>3 DEF ClientSound
<1>3. /\ Len(j.heard) = Len(k.heard) + 1 /\ j.heard[Len(k.heard) + 1] = n /\ j.heard # <<>>
      /\ \A i \in 1..Len(k.heard) : j.heard[i] = k.heard[i]
    <2>1. n \in Nat
        BY <1>1, <1>2
    <2> DEFINE h == Append(k.heard, n)
    <2>2. /\ h # <<>> /\ Len(h) = Len(k.heard) + 1 /\ h[Len(k.heard) + 1] = n
          /\ \A i \in 1..Len(k.heard) : h[i] = k.heard[i]
        BY <1>1, <2>1, Appended
    <2> HIDE DEF h
    <2>3. j.heard = h
        BY DEF h
    <2> QED BY <2>2, <2>3
<1>4. LastOf(j) = n
    BY <1>3 DEF LastOf
<1>5. \A i \in 1..Len(j.heard) :
         (i \in 1..Len(k.heard) /\ j.heard[i] = k.heard[i]) \/ (i = Len(k.heard) + 1 /\ j.heard[i] = n)
    BY <1>1, <1>3
<1>6. \A i \in 1..Len(j.heard) : j.heard[i] \in 1..Len(log)
    BY <1>2, <1>5
<1>7. ASSUME NEW i \in 1..Len(j.heard), NEW m \in 1..Len(j.heard), i < m PROVE j.heard[i] < j.heard[m]
    <2>1. i \in 1..Len(k.heard) /\ j.heard[i] = k.heard[i]
        BY <1>1, <1>3, <1>7
    <2>2. CASE m \in 1..Len(k.heard) /\ j.heard[m] = k.heard[m]
        BY <1>7, <2>1, <2>2 DEF ClientSound
    <2>3. CASE j.heard[m] = n
        <3>1. k.heard[i] \in Nat /\ k.heard[i] <= LastOf(k) /\ n \in Nat
            BY <1>1, <1>2, <2>1
        <3> QED BY <1>2, <2>1, <2>3, <3>1
    <2> QED BY <1>5, <2>2, <2>3
<1>8. ASSUME NEW m \in 1..Len(log), k.base < m, m <= n, log[m].topic \in k.topics
      PROVE  \E i \in 1..Len(j.heard) : j.heard[i] = m
    <2>1. CASE m <= LastOf(k)
        <3>1. PICK i \in 1..Len(k.heard) : k.heard[i] = m
            BY <1>8, <2>1 DEF ClientSound
        <3>2. i \in 1..Len(j.heard)
            BY <1>1, <1>3
        <3> QED BY <1>3, <3>1, <3>2
    <2>2. CASE m > LastOf(k)
        <3>1. 1 \in 1..Len(s.buffer) /\ s.buffer[1] # ResetId /\ m <= s.buffer[1]
            BY <1>1, <1>8
        <3>2. PICK i \in 1..Len(s.buffer) : s.buffer[i] = m
            BY <1>1, <1>8, <2>2, <3>1 DEF Delivered
        <3>3. m = n
            <4>1. CASE i = 1
                BY <1>1, <3>2, <4>1
            <4>2. CASE i # 1
                <5>1. 1 < i
                    BY <1>1, <4>2
                <5>2. s.buffer[1] < s.buffer[i]
                    BY <3>1, <5>1 DEF StreamSound
                <5> QED BY <1>1, <1>2, <1>8, <3>2, <5>2
            <4> QED BY <4>1, <4>2
        <3>4. Len(k.heard) + 1 \in 1..Len(j.heard)
            BY <1>1, <1>3
        <3> QED BY <1>3, <3>3, <3>4
    <2>3. m \in Int
        OBVIOUS
    <2> QED BY <1>2, <2>1, <2>2, <2>3
<1> QED BY <1>1, <1>3, <1>4, <1>6, <1>7, <1>8 DEF ClientSound

\* What is left of a buffer waits behind what was written.
LEMMA RestWaits ==
    ASSUME HubInv, NEW s \in Stream, NEW k \in Client, s.phase = "on", s.buffer # <<>>,
           ClientSound(k), StreamSound(s), Delivered(s, k),
           NEW r \in Stream, r = [s EXCEPT !.buffer = Tail(s.buffer)],
           NEW j \in Client, j.base = k.base, j.topics = k.topics,
           LastOf(j) = IF Head(s.buffer) = ResetId THEN LastOf(k) ELSE Head(s.buffer)
    PROVE  StreamSound(r) /\ Delivered(r, j)
<1> DEFINE b == s.buffer
           rest == Tail(s.buffer)
<1>1. /\ b \in Seq(Nat) /\ Len(b) \in Nat /\ Len(b) >= 1 /\ Head(b) = b[1] /\ s.room \in Nat
      /\ rest \in Seq(Nat) /\ Len(rest) = Len(b) - 1
      /\ \A i \in 1..Len(rest) : rest[i] = b[i + 1] /\ i + 1 \in 1..Len(b) /\ 1 < i + 1
    <2>1. b \in Seq(Nat) /\ s.room \in Nat
        BY DEF Stream
    <2> HIDE DEF b, rest
    <2>2. Len(b) \in Nat /\ Len(b) >= 1 /\ Head(b) = b[1]
        BY <2>1 DEF b
    <2>3. rest \in Seq(Nat) /\ Len(rest) = Len(b) - 1 /\ \A i \in 1..Len(rest) : rest[i] = b[i + 1]
        BY <2>1, HeadTailProperties DEF b, rest
    <2> QED BY <2>1, <2>2, <2>3
<1>2. /\ r.phase = "on" /\ r.registered = s.registered /\ r.grant = s.grant /\ r.topics = s.topics
      /\ r.buffer = rest /\ r.room = s.room
    BY DEF Stream
<1>3. 1 \in 1..Len(b)
    BY <1>1
<1> HIDE DEF b, rest
<1>4. \A i \in 1..Len(rest) :
         /\ rest[i] # ResetId /\ rest[i] \in 1..Len(log) /\ log[rest[i]].topic \in s.topics
         /\ b[1] = ResetId \/ b[1] < rest[i]
    BY <1>1, <1>3 DEF StreamSound, b
<1>5. StreamSound(r)
    <2>1. s.topics \subseteq s.grant /\ Len(rest) <= s.room
        BY <1>1 DEF StreamSound, b
    <2>2. \A i, m \in 1..Len(rest) : i < m => rest[i] < rest[m]
        <3> SUFFICES ASSUME NEW i \in 1..Len(rest), NEW m \in 1..Len(rest), i < m PROVE rest[i] < rest[m]
            OBVIOUS
        <3>1. i + 1 < m + 1 /\ i + 1 \in 1..Len(b) /\ m + 1 \in 1..Len(b)
            BY <1>1
        <3>2. b[i + 1] = ResetId \/ b[i + 1] < b[m + 1]
            BY <3>1 DEF StreamSound, b
        <3> QED BY <1>1, <1>4, <3>2
    <2> QED BY <1>2, <1>4, <2>1, <2>2 DEF StreamSound
<1>6. Delivered(r, j)
    <2>1. ASSUME NEW i \in 1..Len(rest) PROVE rest[i] > LastOf(j)
        <3>1. CASE b[1] = ResetId
            <4>1. rest[i] > LastOf(k)
                BY <1>1 DEF Delivered, b
            <4> QED BY <1>1, <3>1, <4>1 DEF b
        <3>2. CASE b[1] # ResetId
            <4>1. LastOf(j) = b[1]
                BY <1>1, <3>2 DEF b
            <4> QED BY <1>1, <1>4, <3>2, <4>1
        <3> QED BY <3>1, <3>2
    <2>2. ASSUME NEW n \in 1..Len(log), n > j.base, n > LastOf(j), log[n].topic \in j.topics,
                 s.registered \/ \E i \in 1..Len(rest) : rest[i] # ResetId /\ n <= rest[i]
          PROVE  \E i \in 1..Len(rest) : rest[i] = n
        <3>1. n > LastOf(k)
            <4>1. CASE b[1] = ResetId
                BY <1>1, <2>2, <4>1 DEF b
            <4>2. CASE b[1] # ResetId
                <5>1. LastOf(j) = b[1] /\ b[1] > LastOf(k)
                    BY <1>1, <1>3, <4>2 DEF b, Delivered
                <5>2. LastOf(k) \in Nat
                    BY LastIsLogged
                <5>3. b[1] \in Nat
                    BY <1>1, <1>3
                <5> QED BY <2>2, <5>1, <5>2, <5>3
            <4> QED BY <4>1, <4>2
        <3>2. s.registered \/ \E i \in 1..Len(b) : b[i] # ResetId /\ n <= b[i]
            BY <1>1, <2>2
        <3>3. PICK i \in 1..Len(b) : b[i] = n
            BY <2>2, <3>1, <3>2 DEF Delivered, b
        <3>4. i # 1
            <4> SUFFICES ASSUME i = 1 PROVE FALSE
                OBVIOUS
            <4>1. n # ResetId
                BY LogNumbers
            <4>2. LastOf(j) = n
                BY <1>1, <3>3, <4>1 DEF b
            <4> QED BY <2>2, <4>2
        <3>5. i - 1 \in 1..Len(rest) /\ rest[i - 1] = b[i]
            <4>1. i - 1 \in 1..Len(rest) /\ (i - 1) + 1 = i
                BY <1>1, <3>4
            <4> QED BY <1>1, <4>1
        <3> QED BY <3>3, <3>5
    <2>3. j.topics \subseteq s.topics
        BY DEF Delivered
    <2> QED BY <1>2, <2>1, <2>2, <2>3 DEF Delivered
<1> QED BY <1>5, <1>6

LEMMA WriteKeeps ==
    ASSUME StreamsInv, NEW c \in Clients, Write(c)
    PROVE  StreamsInv'
<1> DEFINE n == Head(stream[c].buffer)
           k == client[c]
           heard == IF n = ResetId THEN k.heard ELSE Append(k.heard, n)
           j == [k EXCEPT !.id = n, !.heard = heard]
           r == [stream[c] EXCEPT !.buffer = Tail(stream[c].buffer)]
           s == IF n # ResetId /\ c \in log[n].session THEN Off ELSE r
<1>1. /\ stream[c].phase = "on" /\ stream[c].buffer # <<>>
      /\ stream' = [stream EXCEPT ![c] = s]
      /\ UNCHANGED <<log, retained, granted, revoking, restarts>>
    BY DEF Write
<1>2. client' = [client EXCEPT ![c] = j]
    BY DEF Write, StreamsInv, HubTypes, Client
<1>3. /\ HubInv /\ HubTypes /\ stream[c] \in Stream /\ k \in Client
      /\ ClientSound(k) /\ StreamSound(stream[c]) /\ Delivered(stream[c], k)
      /\ stream[c].buffer \in Seq(Nat)
    BY ShapesOf DEF StreamsInv, Sound
<1>4. n \in Nat /\ Tail(stream[c].buffer) \in Seq(Nat)
    BY <1>1, <1>3, HeadTailProperties
<1> HIDE DEF n
<1>5. /\ r \in Stream
      /\ j \in Client /\ j.id = n /\ j.base = k.base /\ j.topics = k.topics /\ j.heard = heard
    <2>1. heard \in Seq(Nat)
        BY <1>3, <1>4, AppendProperties DEF Client
    <2> HIDE DEF heard
    <2> QED BY <1>3, <1>4, <2>1 DEF Stream, Client
<1> HIDE DEF j, r, k
<1>6. ClientSound(j) /\ LastOf(j) = IF n = ResetId THEN LastOf(k) ELSE n
    <2>1. CASE n = ResetId
        BY <1>3, <1>5, <2>1 DEF ClientSound, LastOf
    <2>2. CASE n # ResetId
        BY <1>1, <1>3, <1>5, <2>2, HeardOneMore DEF n
    <2> QED BY <2>1, <2>2
<1>7. StreamSound(r) /\ Delivered(r, j)
    BY <1>1, <1>3, <1>5, <1>6, RestWaits DEF n, r
<1>8. s \in Stream /\ StreamSound(s) /\ Delivered(s, j)
    BY <1>5, <1>7, OffIsSound
<1> HIDE DEF s
<1>9. /\ HubTypes' /\ stream'[c] = s /\ client'[c] = j
      /\ \A d \in Clients \ {c} : stream'[d] = stream[d] /\ client'[d] = client[d]
    BY <1>1, <1>2, <1>3, <1>5, <1>8, StepOfOne
<1>10. HubInv'
    BY <1>1, <1>3 DEF HubInv
<1>11. Sound(c)'
    BY <1>1, <1>6, <1>8, <1>9 DEF Sound, ClientSound, StreamSound, Delivered, LastOf
<1> QED BY <1>1, <1>9, <1>10, <1>11, OneStream

-----------------------------------------------------------------------------
(* Publications, revocations and restarts.                                  *)

LEMMA PublishKeeps ==
    ASSUME StreamsInv, NEW topic \in Topics, NEW session \in SUBSET Clients, PublishEvent(topic, session),
           UNCHANGED <<client, granted>>, revoking' \in [Clients -> {"no", "publish", "close"}]
    PROVE  StreamsInv'
<1>1. HubInv' /\ stream' \in [Clients -> Stream] /\ \A c \in Clients : Sound(c)'
    BY Publication DEF StreamsInv
<1> QED BY <1>1 DEF StreamsInv, HubTypes

\* Subscriptions are unaffected by what the database says of sessions and roles.
LEMMA GrantsChange ==
    ASSUME StreamsInv, UNCHANGED <<log, retained, stream, client>>,
           granted' \in [Clients -> SUBSET Topics], revoking' \in [Clients -> {"no", "publish", "close"}]
    PROVE  StreamsInv'
<1>1. HubInv' /\ HubTypes'
    BY DEF StreamsInv, HubInv, HubTypes
<1>2. \A c \in Clients : Sound(c)'
    BY NothingHappens DEF StreamsInv
<1> QED BY <1>1, <1>2 DEF StreamsInv

LEMMA CloseKeeps ==
    ASSUME StreamsInv, NEW c \in Clients, Close(c)
    PROVE  StreamsInv'
<1> DEFINE s == [stream[c] EXCEPT !.registered = FALSE]
<1>1. /\ stream \in [Clients -> Stream] /\ revoking \in [Clients -> {"no", "publish", "close"}]
      /\ stream[c] \in Stream /\ HubInv
    BY DEF StreamsInv, HubTypes
<1>2. /\ stream'[c] = s /\ \A d \in Clients \ {c} : stream'[d] = stream[d]
      /\ stream' = [stream EXCEPT ![c] = s]
      /\ UNCHANGED <<log, retained, granted, client>>
      /\ revoking' = [revoking EXCEPT ![c] = "no"]
    BY <1>1 DEF Close
<1>3. /\ s \in Stream /\ s.phase = stream[c].phase /\ s.registered = FALSE /\ s.grant = stream[c].grant
      /\ s.topics = stream[c].topics /\ s.buffer = stream[c].buffer /\ s.room = stream[c].room
    BY <1>1 DEF Stream
<1> HIDE DEF s
<1>4. HubTypes' /\ HubInv'
    BY <1>1, <1>2, <1>3 DEF StreamsInv, HubTypes, HubInv
<1>5. Sound(c)'
    <2>1. ClientSound(client[c])'
        BY <1>2 DEF StreamsInv, Sound, ClientSound, LastOf
    <2>2. StreamSound(stream[c])'
        BY <1>2, <1>3 DEF StreamsInv, Sound, StreamSound
    <2>3. Delivered(stream[c], client[c])'
        BY <1>2, <1>3 DEF StreamsInv, Sound, Delivered, LastOf
    <2> QED BY <2>1, <2>2, <2>3 DEF Sound
<1> QED BY <1>2, <1>4, <1>5, OneStream

LEMMA RestartKeeps ==
    ASSUME StreamsInv, Restart
    PROVE  StreamsInv'
<1>1. /\ retained' = <<>> /\ UNCHANGED <<log, granted, client>>
      /\ stream' = [c \in Clients |-> Off] /\ revoking' = [c \in Clients |-> "no"]
    BY DEF Restart
<1>2. HubInv'
    <2>1. <<>> \in Seq(Nat) /\ Len(<<>>) = 0 /\ 1..0 = {}
        OBVIOUS
    <2>2. Len(log) \in Nat /\ Capacity \in Nat
        BY HubConstants DEF StreamsInv, HubInv
    <2> QED BY <1>1, <2>1, <2>2 DEF StreamsInv, HubInv
<1>3. HubTypes'
    BY <1>1, OffIsSound DEF StreamsInv, HubTypes
<1>4. \A c \in Clients : Sound(c)'
    BY <1>1, StreamEnds DEF StreamsInv, Sound
<1> QED BY <1>2, <1>3, <1>4 DEF StreamsInv

LEMMA StreamsBegin == Init => StreamsInv
<1> SUFFICES ASSUME Init PROVE StreamsInv
    OBVIOUS
<1> DEFINE k == [id |-> NoId, base |-> 0, topics |-> {}, heard |-> <<>>]
<1>1. <<>> \in Seq(Nat) /\ <<>> \in Seq(Entry) /\ Len(<<>>) = 0 /\ 1..0 = {}
    OBVIOUS
<1>2. HubInv
    BY <1>1, HubConstants DEF Init, HubInv
<1>3. /\ k \in Client /\ k.id = NoId /\ k.base = 0 /\ k.heard = <<>> /\ LastOf(k) = 0
    BY <1>1 DEF Client, NoId, LastOf
<1>4. \A c \in Clients : stream[c] = Off /\ client[c] = k
    BY DEF Init
<1>5. HubTypes
    BY <1>3, HubConstants, OffIsSound DEF Init, HubTypes
<1> HIDE DEF k
<1>6. ClientSound(k)
    BY <1>1, <1>3 DEF ClientSound, Init
<1>7. \A c \in Clients : Sound(c)
    BY <1>4, <1>6, OffIsSound DEF Sound
<1> QED BY <1>2, <1>5, <1>7 DEF StreamsInv

LEMMA StreamsStep ==
    ASSUME StreamsInv, [Next]_vars
    PROVE  StreamsInv'
<1>0. granted \in [Clients -> SUBSET Topics] /\ revoking \in [Clients -> {"no", "publish", "close"}]
    BY DEF StreamsInv, HubTypes
<1>1. ASSUME NEW t \in Topics, Publish(t) PROVE StreamsInv'
    BY <1>0, <1>1, PublishKeeps DEF Publish
<1>2. ASSUME NEW c \in Clients, Serve(c) PROVE StreamsInv'
    BY <1>2, SubscribeKeeps, WriteKeeps, QuitKeeps DEF Serve, Forbidden, Drop, Quits
<1>3. ASSUME NEW c \in Clients, Heartbeat(c) \/ Leave(c) PROVE StreamsInv'
    BY <1>3, QuitKeeps DEF Heartbeat, Leave
<1>4. ASSUME NEW c \in Clients, Revoke(c) PROVE StreamsInv'
    BY <1>0, <1>4, GrantsChange DEF Revoke
<1>5. ASSUME NEW c \in Clients, NEW r \in Roles, ChangeRole(c, r) PROVE StreamsInv'
    BY <1>0, <1>5, GrantsChange, HubConstants DEF ChangeRole
<1>6. ASSUME NEW c \in Clients, PublishRevocation(c) PROVE StreamsInv'
    <2>1. /\ UNCHANGED <<granted, client>> /\ revoking' \in [Clients -> {"no", "publish", "close"}]
          /\ PublishEvent("auth", {c}) \/ UNCHANGED <<log, retained, stream>>
        BY <1>0, <1>6 DEF PublishRevocation
    <2>2. CASE PublishEvent("auth", {c})
        BY <2>1, <2>2, PublishKeeps, HubConstants
    <2>3. CASE UNCHANGED <<log, retained, stream>>
        BY <1>0, <2>1, <2>3, GrantsChange
    <2> QED BY <2>1, <2>2, <2>3
<1>7. ASSUME NEW c \in Clients, Close(c) PROVE StreamsInv'
    BY <1>7, CloseKeeps
<1>8. ASSUME NEW c \in Clients, Authenticate(c) PROVE StreamsInv'
    BY <1>8, AuthenticateKeeps
<1>9. CASE Restart
    BY <1>9, RestartKeeps
<1>10. CASE UNCHANGED vars
    BY <1>0, <1>10, GrantsChange DEF vars
<1> QED BY <1>1, <1>2, <1>3, <1>4, <1>5, <1>6, <1>7, <1>8, <1>9, <1>10 DEF Next, Revocation

\* A client that leaves, falls behind, returns with a cursor of any age or outlives a
\* restart misses no event of its topics without a reset and gets none twice or out
\* of order; nothing its role forbids waits for it; the hub and its buffers keep
\* their bounds: Publish, Subscribe, replayLocked, ServeHTTP.
THEOREM StreamsStaySound == Spec => []StreamsAreSound
<1>1. ASSUME StreamsInv PROVE StreamsAreSound
    <2>1. /\ HubInv /\ HubTypes /\ \A c \in Clients : Sound(c)
          /\ Len(log) \in Nat /\ ResetId \in Nat /\ NoId = 0
          /\ DOMAIN retained = 1..Len(retained)
        BY <1>1, HubConstants DEF StreamsInv, HubInv
    <2>2. ASSUME NEW c \in Clients
          PROVE  /\ DOMAIN stream[c].buffer = 1..Len(stream[c].buffer)
                 /\ DOMAIN client[c].heard = 1..Len(client[c].heard)
                 /\ LastHeard(c) = LastOf(client[c]) /\ LastOf(client[c]) \in Nat /\ LastOf(client[c]) <= Len(log)
                 /\ client[c].base \in Nat
        BY <2>1, ShapesOf, LastIsLogged DEF LastHeard, LastOf, Sound
    <2>3. TypeOK
        <3>1. ASSUME NEW c \in Clients
              PROVE  /\ stream[c].phase \in {"off", "checked", "on"}
                     /\ Len(stream[c].buffer) <= stream[c].room
                     /\ Range(stream[c].buffer) \subseteq Ids \ {NoId}
                     /\ client[c].id \in Ids /\ client[c].topics \subseteq Topics
                     /\ revoking[c] \in {"no", "publish", "close"}
            <4>1. 1..Len(log) \subseteq Ids \ {NoId} /\ ResetId \in Ids \ {NoId} /\ NoId \in Ids
                BY <2>1, LogNumbers DEF Ids, NoId
            <4>2. Range(stream[c].buffer) \subseteq Ids \ {NoId}
                BY <2>1, <2>2, <4>1 DEF Range, Sound, StreamSound
            <4>3. client[c].id \in Ids
                <5>1. client[c].id \in {NoId, ResetId} \/ (client[c].heard # <<>> /\ client[c].id = LastOf(client[c]))
                    BY <2>1 DEF Sound, ClientSound
                <5>2. LastOf(client[c]) \in Ids
                    BY <2>1, <2>2, LogNumbers DEF Ids
                <5> QED BY <4>1, <5>1, <5>2
            <4>4. stream[c] \in Stream /\ client[c] \in Client /\ revoking[c] \in {"no", "publish", "close"}
                BY <2>1 DEF HubTypes
            <4>5. Len(stream[c].buffer) <= stream[c].room
                BY <2>1 DEF Sound, StreamSound
            <4> QED BY <4>2, <4>3, <4>4, <4>5 DEF Stream, Client
        <3> QED BY <2>1, <3>1 DEF TypeOK, HubInv
    <2>4. NoGap
        <3>1. ASSUME NEW c \in Clients, NEW n \in client[c].base + 1 .. LastHeard(c),
                     log[n].topic \in client[c].topics
              PROVE  n \in Range(client[c].heard)
            <4>1. n \in 1..Len(log) /\ client[c].base < n /\ n <= LastOf(client[c])
                BY <2>1, <2>2
            <4>2. \E i \in 1..Len(client[c].heard) : client[c].heard[i] = n
                BY <2>1, <3>1, <4>1 DEF Sound, ClientSound
            <4> QED BY <2>2, <4>2 DEF Range
        <3>2. \A c \in Clients : \A i, m \in DOMAIN client[c].heard : i < m => client[c].heard[i] < client[c].heard[m]
            BY <2>1, <2>2 DEF Sound, ClientSound
        <3> QED BY <3>1, <3>2 DEF NoGap
    <2>5. OnlyGrantedTopics
        <3> SUFFICES ASSUME NEW c \in Clients, NEW n \in Range(stream[c].buffer) \ {ResetId}
                     PROVE  TopicOf(n) \in stream[c].grant
            BY DEF OnlyGrantedTopics
        <3>1. PICK i \in 1..Len(stream[c].buffer) : stream[c].buffer[i] = n
            BY <2>2 DEF Range
        <3>2. StreamSound(stream[c])
            BY <2>1 DEF Sound
        <3>3. log[n].topic \in stream[c].topics
            BY <3>1, <3>2 DEF StreamSound
        <3>4. stream[c].phase = "on"
            <4>1. Len(<<>>) = 0 /\ 1..0 = {}
                OBVIOUS
            <4> QED BY <3>1, <3>2, <4>1 DEF StreamSound
        <3> QED BY <3>2, <3>3, <3>4 DEF StreamSound, TopicOf
    <2> QED BY <2>3, <2>4, <2>5 DEF StreamsAreSound
<1>2. Spec => []StreamsInv
    BY StreamsBegin, StreamsStep, PTL DEF Spec
<1> QED BY <1>1, <1>2, PTL

=============================================================================
