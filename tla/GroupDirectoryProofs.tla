------------------------ MODULE GroupDirectoryProofs ------------------------
(***************************************************************************)
(* Proofs about GroupDirectory, for any number of groups, handlers, keys,  *)
(* changes of the groups the bot is in, faults and crashes: no list of     *)
(* groups replaces a later one, a notice is asked for once per key and     *)
(* group, and a completed publication tells what was shown.                *)
(*                                                                         *)
(* The two halves of the module share no variables but the ids, so each    *)
(* has an invariant of its own.  A sync may write the directory while its  *)
(* row is open; there is one such row, and its list is no older than the   *)
(* directory (ListsAreNewer).  A handler that publishes holds the one row  *)
(* of its key (Publishing), and has asked for nothing it has no item of.   *)
(***************************************************************************)
EXTENDS GroupDirectory, TLAPS

-----------------------------------------------------------------------------
(* Types.                                                                    *)

Lists == [groups : SUBSET Groups, version : Nat]
Items == UNION {[S -> ItemStatuses] : S \in SUBSET Groups}

LoadingCalls == [phase : {"loading"}, id : Nat]
SettlingCalls == [phase : {"settling"}, id : Nat, found : SUBSET Lists]
ReservingCalls == [phase : {"reserving"}, key : Keys, targets : SUBSET Groups]
PublishingCalls ==
    [phase : {"publishing"}, id : Nat, key : Keys, targets : SUBSET Groups, items : Items]

Calls == {Idle} \cup LoadingCalls \cup SettlingCalls \cup ReservingCalls \cup PublishingCalls

SyncRows == [key : Keys, state : States, expired : BOOLEAN]
NoticeRows == [key : Keys, targets : SUBSET Groups, state : States,
               items : Items, expired : BOOLEAN]

Types ==
    /\ remote \in Lists /\ issued \in Nat /\ up \in BOOLEAN
    /\ DOMAIN managed \subseteq Groups
    /\ \A g \in DOMAIN managed : managed[g] \in [shown : BOOLEAN, from : Nat]
    /\ DOMAIN syncs \subseteq 1..issued /\ DOMAIN notices \subseteq 1..issued
    /\ \A i \in DOMAIN syncs : syncs[i] \in SyncRows
    /\ \A i \in DOMAIN notices : notices[i] \in NoticeRows
    /\ call \in [Handlers -> Calls]
    /\ retries \subseteq [id : Nat, found : SUBSET Lists]
    /\ sent \in [Keys \X Groups -> Nat]

InService(h) == call[h].phase \in {"loading", "settling", "publishing"}

\* Everybody works on a row that was handed out.
IdsAreIssued ==
    /\ \A h \in Handlers : InService(h) => call[h].id \in 1..issued
    /\ \A r \in retries : r.id \in 1..issued
    /\ \A x \in posted : x[1] \in 1..issued

-----------------------------------------------------------------------------
(* The directory.                                                            *)

OneOpenSync == \A i, j \in DOMAIN syncs : Open(i) /\ Open(j) => i = j

\* The directory is not newer than what NapCat says now, nor than a list that a
\* sync in progress has in hand.
NoNewerThan(version) == \A g \in DOMAIN managed : managed[g].from <= version

InHand(i, list) ==
    list.version <= remote.version /\ (Open(i) => NoNewerThan(list.version))

ListsAreNewer ==
    /\ NoNewerThan(remote.version)
    /\ \A h \in Handlers : call[h].phase = "settling" =>
         \A list \in call[h].found : InHand(call[h].id, list)
    /\ \A r \in retries : \A list \in r.found : InHand(r.id, list)

-----------------------------------------------------------------------------
(* Notices.                                                                  *)

\* The items of a publication say what is known of each group.
TellTruth(i, items) ==
    \A g \in DOMAIN items :
        /\ items[g] = "success" => <<i, g>> \in posted
        /\ items[g] \in {"denied", "failed"} => <<i, g>> \notin posted

\* Who publishes holds an open row, and has not asked for what has no item.
Publishing ==
    \A h \in Handlers : call[h].phase = "publishing" =>
        /\ call[h].id \in DOMAIN notices
        /\ notices[call[h].id].state = "open"
        /\ notices[call[h].id].key = call[h].key
        /\ notices[call[h].id].targets = call[h].targets
        /\ DOMAIN call[h].items \subseteq call[h].targets
        /\ TellTruth(call[h].id, call[h].items)
        /\ \A g \in call[h].targets \ DOMAIN call[h].items :
             sent[<<call[h].key, g>>] = 0 /\ <<call[h].id, g>> \notin posted

OnePublisher ==
    \A h, f \in Handlers :
        (/\ call[h].phase = "publishing" /\ call[f].phase = "publishing"
         /\ call[h].key = call[f].key) => h = f

OneRowPerKey == \A i, j \in DOMAIN notices : notices[i].key = notices[j].key => i = j

\* A key without a row was not used.
UnusedKeys == \A k \in Keys, g \in Groups : NoticesOf(k) = {} => sent[<<k, g>>] = 0

CompletedItems ==
    \A i \in DOMAIN notices : notices[i].state # "open" =>
        /\ DOMAIN notices[i].items = notices[i].targets
        /\ TellTruth(i, notices[i].items)
        /\ notices[i].state = "succeeded" <=>
             \E g \in notices[i].targets : notices[i].items[g] = "success"
        /\ notices[i].state = "failed" =>
             \A g \in notices[i].targets : notices[i].items[g] \in {"denied", "failed"}

NoticesInv ==
    Publishing /\ OnePublisher /\ OneRowPerKey /\ UnusedKeys /\ NoticesOnce /\ CompletedItems

NothingWhileDown == ~up => retries = {} /\ \A h \in Handlers : call[h] = Idle

Common == Types /\ IdsAreIssued /\ NothingWhileDown
DirectoryInv == OneOpenSync /\ ListsAreNewer
Inv == Common /\ DirectoryInv /\ NoticesInv

-----------------------------------------------------------------------------
(* What a step leaves alone.                                                 *)

LEMMA CallTypes ==
    ASSUME Types, NEW h \in Handlers
    PROVE  /\ Idle \in Calls /\ call[h] \in Calls /\ Idle.phase = "idle"
           /\ call[h].phase = "loading" => call[h] \in LoadingCalls
           /\ call[h].phase = "settling" => call[h] \in SettlingCalls
           /\ call[h].phase = "reserving" => call[h] \in ReservingCalls
           /\ call[h].phase = "publishing" => call[h] \in PublishingCalls
BY DEF Types, Calls, Idle, LoadingCalls, SettlingCalls, ReservingCalls, PublishingCalls

LEMMA BecomeType ==
    ASSUME Types, NEW h \in Handlers, NEW state \in Calls, Become(h, state)
    PROVE  /\ call' \in [Handlers -> Calls] /\ call'[h] = state
           /\ \A f \in Handlers \ {h} : call'[f] = call[f]
BY DEF Types, Become

\* A transaction's failures are counted, and nothing else is.
LEMMA TypesFrame ==
    ASSUME Types, call' \in [Handlers -> Calls],
           UNCHANGED <<remote, managed, syncs, notices, issued, up, retries, sent>>
    PROVE  Types'
BY DEF Types

LEMMA IdsFrame ==
    ASSUME IdsAreIssued, Types, issued' \in Nat, issued <= issued',
           \A h \in Handlers : \/ call'[h] = call[h]
                               \/ call'[h].phase \in {"idle", "reserving"}
                               \/ call'[h].id \in 1..issued',
           \A r \in retries' : r \in retries \/ r.id \in 1..issued',
           \A x \in posted' : x \in posted \/ x[1] \in 1..issued'
    PROVE  IdsAreIssued'
<1>1. 1..issued \subseteq 1..issued'
    BY DEF Types
<1>2. ASSUME NEW h \in Handlers, InService(h)' PROVE call'[h].id \in 1..issued'
    BY <1>1, <1>2 DEF IdsAreIssued, InService
<1>3. ASSUME NEW r \in retries' PROVE r.id \in 1..issued'
    BY <1>1 DEF IdsAreIssued
<1>4. ASSUME NEW x \in posted' PROVE x[1] \in 1..issued'
    BY <1>1 DEF IdsAreIssued
<1> QED BY <1>2, <1>3, <1>4 DEF IdsAreIssued

LEMMA DirectoryFrame ==
    ASSUME DirectoryInv, UNCHANGED <<remote, managed, syncs, retries>>,
           \A h \in Handlers : call'[h] = call[h] \/ call'[h].phase # "settling"
    PROVE  DirectoryInv'
BY DEF DirectoryInv, OneOpenSync, ListsAreNewer, InHand, NoNewerThan, Open

LEMMA NoticesFrame ==
    ASSUME NoticesInv, UNCHANGED <<notices, sent, posted>>,
           \A h \in Handlers : call'[h] = call[h] \/ call'[h].phase # "publishing"
    PROVE  NoticesInv'
<1>1. Publishing'
    BY DEF NoticesInv, Publishing, TellTruth
<1>2. OnePublisher'
    BY DEF NoticesInv, OnePublisher
<1>3. OneRowPerKey' /\ UnusedKeys' /\ NoticesOnce' /\ CompletedItems'
    BY DEF NoticesInv, OneRowPerKey, UnusedKeys, NoticesOf, NoticesOnce, CompletedItems, TellTruth
<1> QED BY <1>1, <1>2, <1>3 DEF NoticesInv

\* One handler goes on to a state that concerns neither the directory nor notices.
LEMMA CallStep ==
    ASSUME Inv, NEW h \in Handlers, NEW state \in Calls, Become(h, state), up = TRUE,
           state.phase \in {"idle", "reserving"} \/ state.id \in 1..issued,
           state.phase \notin {"settling", "publishing"},
           UNCHANGED <<remote, managed, syncs, notices, issued, up, retries, sent, posted>>
    PROVE  Inv'
<1>1. Types /\ issued \in Nat
    BY DEF Inv, Common, Types
<1>2. /\ call' \in [Handlers -> Calls] /\ call'[h] = state
      /\ \A f \in Handlers \ {h} : call'[f] = call[f]
    BY <1>1, BecomeType
<1>3. Types'
    BY <1>1, <1>2, TypesFrame
<1>4. IdsAreIssued'
    BY <1>1, <1>2, IdsFrame DEF Inv, Common
<1>5. DirectoryInv' /\ NoticesInv'
    BY <1>2, DirectoryFrame, NoticesFrame DEF Inv
<1> QED BY <1>3, <1>4, <1>5 DEF Inv, Common, NothingWhileDown

-----------------------------------------------------------------------------
(* Syncs.                                                                    *)

LEMMA BeginGroupSyncStep ==
    ASSUME Inv, NEW h \in Handlers, NEW k \in Keys, NEW o \in Outcomes, BeginGroupSync(h, k, o)
    PROVE  Inv'
<1> DEFINE i == issued + 1
           kept == Without(syncs, SyncsOf(k))
           row == [key |-> k, state |-> "open", expired |-> FALSE]
           state == IF o = "lost" THEN call[h] ELSE [phase |-> "loading", id |-> i]
<1>1. /\ Types /\ IdsAreIssued /\ issued \in Nat /\ up = TRUE
      /\ call \in [Handlers -> Calls] /\ call[h] = Idle
      /\ Active(kept, k) = {} /\ syncs' = With(kept, i, row) /\ issued' = i
      /\ UNCHANGED <<remote, managed, notices, up, retries, sent, posted>>
    BY DEF Inv, Common, Types, BeginGroupSync
<1>2. /\ call' \in [Handlers -> Calls] /\ call'[h] = state
      /\ \A f \in Handlers \ {h} : call'[f] = call[f]
    <2>1. [phase |-> "loading", id |-> i] \in Calls
        BY <1>1 DEF Calls, LoadingCalls
    <2>2. CASE o = "lost"
        BY <1>1, <2>2 DEF BeginGroupSync
    <2>3. CASE o # "lost"
        BY <1>1, <2>1, <2>3, BecomeType DEF BeginGroupSync
    <2> QED BY <2>2, <2>3
<1>3. state.phase \in {"idle", "loading"} /\ (state.phase = "loading" => state.id = i)
    BY <1>1, CallTypes
<1>4. /\ DOMAIN kept \subseteq DOMAIN syncs
      /\ \A j \in DOMAIN kept : kept[j] = syncs[j]
      /\ DOMAIN syncs' = DOMAIN kept \cup {i} /\ syncs'[i] = row
      /\ \A j \in DOMAIN kept : j # i => syncs'[j] = kept[j]
    BY <1>1 DEF Without, With
<1>5. DOMAIN syncs \subseteq 1..issued /\ i \notin 1..issued /\ 1..issued \subseteq 1..i /\ i \in 1..i
    BY <1>1 DEF Types
<1>6. \A j \in DOMAIN kept : syncs[j].state # "open"
    BY <1>1, <1>4 DEF Active
<1> HIDE DEF i, kept, state
<1>7. Types'
    <2>1. row \in SyncRows
        BY DEF SyncRows, States
    <2>2. \A j \in DOMAIN syncs' : syncs'[j] \in SyncRows
        BY <1>1, <1>4, <1>5, <2>1 DEF Types
    <2>3. DOMAIN syncs' \subseteq 1..i /\ DOMAIN notices \subseteq 1..i
        BY <1>1, <1>4, <1>5 DEF Types
    <2>4. i \in Nat
        BY <1>1 DEF i
    <2> QED BY <1>1, <1>2, <2>2, <2>3, <2>4 DEF Types
<1>8. IdsAreIssued'
    <2>1. issued' \in Nat /\ issued <= issued'
        BY <1>1 DEF i
    <2> QED BY <1>1, <1>2, <1>3, <1>5, <2>1, IdsFrame
<1>9. \A j : Open(j)' => j = i
    BY <1>4, <1>5, <1>6 DEF Open
<1>10. DirectoryInv'
    <2>1. OneOpenSync'
        BY <1>9 DEF OneOpenSync
    <2>2. NoNewerThan(remote.version)'
        BY <1>1 DEF Inv, DirectoryInv, ListsAreNewer, NoNewerThan
    <2>3. ASSUME NEW f \in Handlers, call'[f].phase = "settling", NEW list \in call'[f].found
          PROVE  InHand(call[f].id, list)'
        <3>1. f # h /\ call'[f] = call[f]
            BY <1>2, <1>3, <2>3
        <3>2. call[f].id \in 1..issued /\ list.version <= remote.version
            BY <1>1, <2>3, <3>1 DEF Inv, DirectoryInv, ListsAreNewer, InHand, IdsAreIssued, InService
        <3>3. ~Open(call[f].id)'
            BY <1>5, <1>9, <3>1, <3>2
        <3> QED BY <1>1, <3>2, <3>3 DEF InHand
    <2>4. ASSUME NEW r \in retries, NEW list \in r.found PROVE InHand(r.id, list)'
        <3>1. r.id \in 1..issued /\ list.version <= remote.version
            BY <1>1 DEF Inv, DirectoryInv, ListsAreNewer, InHand, IdsAreIssued
        <3> QED BY <1>1, <1>5, <1>9, <3>1 DEF InHand
    <2> QED BY <1>1, <2>1, <2>2, <2>3, <2>4 DEF DirectoryInv, ListsAreNewer
<1>11. NoticesInv'
    BY <1>1, <1>2, <1>3, NoticesFrame DEF Inv
<1> QED BY <1>1, <1>7, <1>8, <1>10, <1>11 DEF Inv, Common, NothingWhileDown

LEMMA LoadRemoteGroupsStep ==
    ASSUME Inv, NEW h \in Handlers, LoadRemoteGroups(h)
    PROVE  Inv'
<1>1. PICK found \in {{}, {remote}} :
            Become(h, [phase |-> "settling", id |-> call[h].id, found |-> found])
    BY DEF LoadRemoteGroups
<1> DEFINE state == [phase |-> "settling", id |-> call[h].id, found |-> found]
<1>2. /\ Types /\ IdsAreIssued /\ issued \in Nat /\ up = TRUE
      /\ call[h].id \in 1..issued /\ call[h].phase = "loading"
      /\ remote \in Lists
      /\ UNCHANGED <<remote, managed, syncs, notices, issued, up, retries, sent, posted>>
    BY DEF Inv, Common, Types, NothingWhileDown, Idle, LoadRemoteGroups, IdsAreIssued, InService,
           outside
<1>3. state \in Calls /\ state.phase = "settling"
    BY <1>2 DEF Calls, SettlingCalls
<1>4. /\ call' \in [Handlers -> Calls] /\ call'[h] = state
      /\ \A f \in Handlers \ {h} : call'[f] = call[f]
    BY <1>1, <1>2, <1>3, BecomeType
<1>5. Types'
    BY <1>2, <1>4, TypesFrame
<1>6. IdsAreIssued'
    BY <1>2, <1>4, IdsFrame
<1>7. DirectoryInv'
    <2>1. OneOpenSync' /\ NoNewerThan(remote.version)'
        BY <1>2 DEF Inv, DirectoryInv, OneOpenSync, ListsAreNewer, NoNewerThan, Open
    <2>2. ASSUME NEW f \in Handlers, call'[f].phase = "settling", NEW list \in call'[f].found
          PROVE  InHand(call[f].id, list)'
        <3>1. CASE f = h
            <4>1. list = remote /\ list.version <= remote.version
                BY <1>2, <1>4, <2>2, <3>1 DEF Lists
            <4> QED BY <1>2, <2>1, <4>1 DEF InHand
        <3>2. CASE f # h
            BY <1>2, <1>4, <2>2, <3>2 DEF Inv, DirectoryInv, ListsAreNewer, InHand, NoNewerThan, Open
        <3> QED BY <3>1, <3>2
    <2>3. ASSUME NEW r \in retries, NEW list \in r.found PROVE InHand(r.id, list)'
        BY <1>2 DEF Inv, DirectoryInv, ListsAreNewer, InHand, NoNewerThan, Open
    <2> QED BY <1>2, <2>1, <2>2, <2>3 DEF DirectoryInv, ListsAreNewer
<1>8. NoticesInv'
    BY <1>2, <1>3, <1>4, NoticesFrame DEF Inv
<1> QED BY <1>2, <1>5, <1>6, <1>7, <1>8 DEF Inv, Common, NothingWhileDown

\* A list replaces the directory only through the open sync, whose list is not
\* older; no sync is open afterwards.
LEMMA SettleRows ==
    ASSUME Inv, NEW i \in 1..issued, NEW found \in SUBSET Lists, NEW o, Settle(i, found, o),
           \A list \in found : InHand(i, list), UNCHANGED remote
    PROVE  /\ DOMAIN syncs' = DOMAIN syncs /\ \A j \in DOMAIN syncs : syncs'[j] \in SyncRows
           /\ DOMAIN managed' \subseteq Groups
           /\ \A g \in DOMAIN managed' : managed'[g] \in [shown : BOOLEAN, from : Nat]
           /\ OneOpenSync' /\ NoNewerThan(remote.version)'
           /\ \A j, list : InHand(j, list) => InHand(j, list)'
           /\ \A g \in DOMAIN managed' :
                \/ g \in DOMAIN managed /\ managed'[g] = managed[g]
                \/ \A e \in DOMAIN managed : managed'[g].from >= managed[e].from
<1>1. Types
    BY DEF Inv, Common
<1>2. CASE UNCHANGED <<syncs, managed>>
    BY <1>1, <1>2 DEF Types, Inv, DirectoryInv, OneOpenSync, ListsAreNewer, InHand, NoNewerThan, Open
<1>3. CASE ~UNCHANGED <<syncs, managed>>
    <2>1. /\ Open(i)
          /\ syncs' = [syncs EXCEPT ![i].state = IF found = {} THEN "failed" ELSE "succeeded"]
          /\ UNCHANGED managed \/ \E list \in found : managed' = Replaced(list)
        BY <1>3 DEF Settle
    <2>2. /\ DOMAIN syncs' = DOMAIN syncs /\ \A j \in DOMAIN syncs : syncs'[j] \in SyncRows
          /\ syncs'[i].state # "open" /\ \A j \in DOMAIN syncs \ {i} : syncs'[j] = syncs[j]
        BY <1>1, <2>1 DEF Types, Open, SyncRows, States
    <2>3. \A j : ~Open(j)'
        BY <2>1, <2>2 DEF Inv, DirectoryInv, OneOpenSync, Open
    <2>4. CASE UNCHANGED managed
        BY <1>1, <2>2, <2>3, <2>4
            DEF Types, Inv, DirectoryInv, OneOpenSync, ListsAreNewer, InHand, NoNewerThan
    <2>5. ASSUME NEW list \in found, managed' = Replaced(list)
          PROVE  /\ DOMAIN managed' \subseteq Groups
                 /\ \A g \in DOMAIN managed' : managed'[g] \in [shown : BOOLEAN, from : Nat]
                 /\ NoNewerThan(remote.version)'
                 /\ \A g \in DOMAIN managed' :
                      \/ g \in DOMAIN managed /\ managed'[g] = managed[g]
                      \/ \A e \in DOMAIN managed : managed'[g].from >= managed[e].from
        <3>1. list \in Lists /\ list.version \in Nat /\ list.groups \subseteq Groups
            BY DEF Lists
        <3>2. list.version <= remote.version /\ NoNewerThan(list.version)
            BY <2>1 DEF InHand
        <3>3. /\ DOMAIN managed' = DOMAIN managed \cup list.groups
              /\ \A g \in DOMAIN managed' :
                   \/ g \in DOMAIN managed /\ managed'[g] = managed[g]
                   \/ /\ managed'[g].from = list.version
                      /\ managed'[g] \in [shown : BOOLEAN, from : Nat]
            BY <2>5, <3>1 DEF Replaced
        <3>4. \A e \in DOMAIN managed : managed[e].from \in Nat /\ managed[e].from <= list.version
            BY <1>1, <3>2 DEF Types, NoNewerThan
        <3>5. NoNewerThan(remote.version)'
            BY <3>1, <3>2, <3>3, <1>1 DEF Inv, DirectoryInv, ListsAreNewer, NoNewerThan
        <3> QED BY <1>1, <3>1, <3>3, <3>4, <3>5 DEF Types
    <2> QED BY <2>1, <2>2, <2>3, <2>4, <2>5 DEF OneOpenSync, InHand
<1> QED BY <1>2, <1>3

\* A list that could not be recorded stays in hand.
LEMMA SettleKeeps ==
    ASSUME Inv, NEW i \in 1..issued, NEW found \in SUBSET Lists, NEW o, Settle(i, found, o),
           \A list \in found : InHand(i, list),
           retries' \subseteq retries \cup {[id |-> i, found |-> found]},
           call' \in [Handlers -> Calls],
           \A h \in Handlers : call'[h] = call[h] \/ call'[h] = Idle,
           UNCHANGED <<remote, notices, issued, up, sent, posted>>, up = TRUE
    PROVE  Inv'
<1>1. Types /\ IdsAreIssued /\ issued \in Nat /\ Idle.phase = "idle"
    BY DEF Inv, Common, Types, Idle
<1>2. [id |-> i, found |-> found] \in [id : Nat, found : SUBSET Lists]
    BY <1>1
<1>3. /\ DOMAIN syncs' = DOMAIN syncs /\ \A j \in DOMAIN syncs : syncs'[j] \in SyncRows
      /\ DOMAIN managed' \subseteq Groups
      /\ \A g \in DOMAIN managed' : managed'[g] \in [shown : BOOLEAN, from : Nat]
      /\ OneOpenSync' /\ NoNewerThan(remote.version)'
      /\ \A j, list : InHand(j, list) => InHand(j, list)'
    BY SettleRows
<1>4. Types'
    BY <1>1, <1>2, <1>3 DEF Types
<1>5. IdsAreIssued'
    BY <1>1, IdsFrame
<1>6. ListsAreNewer'
    <2>1. ASSUME NEW h \in Handlers, call'[h].phase = "settling", NEW list \in call'[h].found
          PROVE  InHand(call[h].id, list)' /\ call'[h] = call[h]
        <3>1. call'[h] = call[h]
            BY <1>1, <2>1
        <3>2. InHand(call[h].id, list)
            BY <2>1, <3>1 DEF Inv, DirectoryInv, ListsAreNewer
        <3> QED BY <1>3, <3>1, <3>2 DEF InHand
    <2>2. ASSUME NEW r \in retries', NEW list \in r.found PROVE InHand(r.id, list)'
        <3>1. InHand(r.id, list)
            BY DEF Inv, DirectoryInv, ListsAreNewer
        <3> QED BY <1>3, <3>1
    <2> QED BY <1>3, <2>1, <2>2 DEF ListsAreNewer
<1>7. NoticesInv'
    BY <1>1, NoticesFrame DEF Inv
<1> QED BY <1>3, <1>4, <1>5, <1>6, <1>7 DEF Inv, Common, DirectoryInv, NothingWhileDown

LEMMA SettleSyncStep ==
    ASSUME Inv, NEW h \in Handlers, NEW o \in Outcomes, SettleSync(h, o)
    PROVE  Inv'
<1> DEFINE i == call[h].id
           found == call[h].found
<1>1. Types /\ call[h].phase = "settling" /\ up = TRUE
    BY DEF Inv, Common, NothingWhileDown, Types, Idle, SettleSync
<1>2. i \in 1..issued /\ found \in SUBSET Lists /\ \A list \in found : InHand(i, list)
    <2>1. call[h] \in SettlingCalls
        BY <1>1, CallTypes
    <2> QED BY <1>1, <2>1 DEF SettlingCalls, Inv, Common, IdsAreIssued, InService,
                              DirectoryInv, ListsAreNewer
<1>3. /\ Settle(i, found, o) /\ Become(h, Idle)
      /\ retries' \subseteq retries \cup {[id |-> i, found |-> found]}
      /\ UNCHANGED <<remote, notices, issued, up, sent, posted>>
    BY DEF SettleSync, Repeated, outside
<1>4. /\ call' \in [Handlers -> Calls]
      /\ \A f \in Handlers : call'[f] = call[f] \/ call'[f] = Idle
    BY <1>1, <1>3, CallTypes, BecomeType
<1> HIDE DEF i, found
<1> QED BY <1>1, <1>2, <1>3, <1>4, SettleKeeps

LEMMA RetrySyncStep ==
    ASSUME Inv, NEW r \in retries, NEW o \in Outcomes, RetrySync(r, o)
    PROVE  Inv'
<1>1. Types /\ up = TRUE /\ call \in [Handlers -> Calls]
    BY DEF Inv, Common, NothingWhileDown, Types
<1>2. r.id \in 1..issued /\ r.found \in SUBSET Lists /\ \A list \in r.found : InHand(r.id, list)
    BY <1>1 DEF Types, Inv, Common, IdsAreIssued, DirectoryInv, ListsAreNewer
<1>3. /\ Settle(r.id, r.found, o) /\ retries' \subseteq retries
      /\ UNCHANGED <<remote, notices, issued, up, sent, posted, call>>
    BY DEF RetrySync, outside
<1> QED BY <1>1, <1>2, <1>3, SettleKeeps

-----------------------------------------------------------------------------
(* Notices.                                                                  *)

LEMMA ResolveStep ==
    ASSUME Inv, NEW h \in Handlers, NEW k \in Keys, NEW targets \in SUBSET Groups,
           ResolveNoticeTargets(h, k, targets)
    PROVE  Inv'
<1> DEFINE state == [phase |-> "reserving", key |-> k, targets |-> targets]
<1>1. state \in Calls /\ state.phase = "reserving"
    BY DEF Calls, ReservingCalls
<1>2. /\ Become(h, state) /\ up = TRUE
      /\ UNCHANGED <<remote, managed, syncs, notices, issued, up, retries, sent, posted>>
    BY DEF ResolveNoticeTargets, outside, Inv, Common, Types
<1> HIDE DEF state
<1> QED BY <1>1, <1>2, CallStep

LEMMA ReplayStep ==
    ASSUME Inv, NEW h \in Handlers, ReplayNotices(h)
    PROVE  Inv'
<1>1. Types /\ Become(h, Idle) /\ up = TRUE
    BY DEF Inv, Common, NothingWhileDown, Types, Idle, ReplayNotices
<1>2. UNCHANGED <<remote, managed, syncs, notices, issued, up, retries, sent, posted>>
    BY DEF ReplayNotices, outside
<1>3. Idle \in Calls /\ Idle.phase = "idle"
    BY <1>1, CallTypes
<1> QED BY <1>1, <1>2, <1>3, CallStep

LEMMA NoItems == <<>> \in Items /\ DOMAIN <<>> = {}
<1>1. <<>> \in [{} -> ItemStatuses]
    OBVIOUS
<1> QED BY <1>1 DEF Items

LEMMA Untouched == \A i : TellTruth(i, <<>>)
BY NoItems DEF TellTruth

\* The new row replaces the key's completed ones, and nobody works on those.
LEMMA BeginNoticesStep ==
    ASSUME Inv, NEW h \in Handlers, NEW o \in Outcomes, BeginGroupNoticePublication(h, o)
    PROVE  Inv'
<1> DEFINE k == call[h].key
           i == issued + 1
           gone == {j \in NoticesOf(k) : notices[j].state # "open"}
           kept == Without(notices, gone)
           row == [key |-> k, targets |-> call[h].targets, state |-> "open",
                   items |-> <<>>, expired |-> FALSE]
           publishing == [phase |-> "publishing", id |-> i, key |-> k,
                          targets |-> call[h].targets, items |-> <<>>]
           state == IF o = "done" THEN publishing ELSE Idle
<1>1. /\ Types /\ IdsAreIssued /\ issued \in Nat /\ up = TRUE /\ Idle.phase = "idle"
      /\ call[h].phase = "reserving" /\ call[h] \in ReservingCalls /\ Idle \in Calls
      /\ NoticesInv /\ DirectoryInv
    <2>1. Types /\ call[h].phase = "reserving"
        BY DEF Inv, Common, BeginGroupNoticePublication
    <2> QED BY <2>1, CallTypes DEF Inv, Common, Types, NothingWhileDown
<1>2. k \in Keys /\ call[h].targets \subseteq Groups /\ row \in NoticeRows /\ publishing \in Calls
    BY <1>1, NoItems DEF ReservingCalls, NoticeRows, States, Calls, PublishingCalls
<1>3. /\ UNCHANGED <<remote, managed, syncs, up, retries, posted>>
      /\ Become(h, state)
    BY DEF BeginGroupNoticePublication
<1>4. /\ call' \in [Handlers -> Calls] /\ call'[h] = state
      /\ \A f \in Handlers \ {h} : call'[f] = call[f]
    BY <1>1, <1>2, <1>3, BecomeType
<1>5. state.phase = (IF o = "done" THEN "publishing" ELSE "idle")
    BY <1>1
<1>6. CASE o = "failed"
    <2>1. UNCHANGED <<issued, notices, sent>> /\ call'[h].phase = "idle"
        BY <1>4, <1>5, <1>6 DEF BeginGroupNoticePublication
    <2> HIDE DEF state
    <2>2. Types'
        BY <1>1, <1>3, <1>4, <2>1, TypesFrame
    <2>3. IdsAreIssued'
        BY <1>1, <1>3, <1>4, <2>1, IdsFrame
    <2>4. DirectoryInv' /\ NoticesInv'
        BY <1>1, <1>3, <1>4, <2>1, DirectoryFrame, NoticesFrame
    <2> QED BY <1>1, <1>3, <2>2, <2>3, <2>4 DEF Inv, Common, NothingWhileDown
<1>7. CASE o # "failed"
    <2>1. /\ issued' = i /\ notices' = With(kept, i, row)
          /\ sent' = IF gone = {} THEN sent
                     ELSE [x \in DOMAIN sent |-> IF x[1] = k THEN 0 ELSE sent[x]]
        BY <1>7 DEF BeginGroupNoticePublication
    <2>2. gone = NoticesOf(k)
        BY DEF BeginGroupNoticePublication, Holds
    <2>3. /\ DOMAIN notices' = (DOMAIN notices \ NoticesOf(k)) \cup {i}
          /\ notices'[i] = row
          /\ \A j \in DOMAIN notices \ NoticesOf(k) : j # i => notices'[j] = notices[j]
        BY <2>1, <2>2 DEF Without, With
    <2>4. /\ i \in Nat /\ i \notin 1..issued /\ i \in 1..i /\ 1..issued \subseteq 1..i
          /\ DOMAIN notices \subseteq 1..issued /\ DOMAIN syncs \subseteq 1..issued
        BY <1>1 DEF Types
    <2>5. \A j \in DOMAIN notices : notices[j].key # k =>
            j \in DOMAIN notices' /\ j # i /\ notices'[j] = notices[j]
        BY <2>3, <2>4 DEF NoticesOf
    <2>6. \A j \in DOMAIN notices' : j # i =>
            j \in DOMAIN notices /\ notices[j].key # k /\ notices'[j] = notices[j]
        BY <2>3, <2>4 DEF NoticesOf
    <2>7. /\ sent' \in [Keys \X Groups -> Nat]
          /\ \A g \in Groups : sent'[<<k, g>>] = 0
          /\ \A c \in Keys, g \in Groups : c # k => sent'[<<c, g>>] = sent[<<c, g>>]
        <3>1. sent \in [Keys \X Groups -> Nat]
            BY <1>1 DEF Types
        <3>2. CASE gone = {}
            BY <1>1, <1>2, <2>1, <2>2, <3>1, <3>2 DEF NoticesInv, UnusedKeys
        <3>3. CASE gone # {}
            BY <1>2, <2>1, <3>1, <3>3
        <3> QED BY <3>2, <3>3
    <2>8. row.key = k /\ row.state = "open" /\ row.targets = call[h].targets
        OBVIOUS
    <2>9. call'[h].phase = "publishing" =>
            /\ call'[h].id = i /\ call'[h].key = k /\ call'[h].targets = call[h].targets
            /\ call'[h].items = <<>>
        BY <1>1, <1>4
    <2>10. call'[h].phase \in {"publishing", "idle"}
        BY <1>4, <1>5
    <2> HIDE DEF i, gone, kept, row, state, publishing
    <2>11. Types'
        <3>1. \A j \in DOMAIN notices' : notices'[j] \in NoticeRows
            BY <1>1, <1>2, <2>3, <2>6 DEF Types
        <3>2. DOMAIN notices' \subseteq 1..i /\ DOMAIN syncs \subseteq 1..i
            BY <2>4, <2>6
        <3> QED BY <1>1, <1>3, <1>4, <2>1, <2>4, <2>7, <3>1, <3>2 DEF Types
    <2>12. IdsAreIssued'
        <3>1. issued' \in Nat /\ issued <= issued'
            BY <1>1, <2>1 DEF i
        <3> QED BY <1>1, <1>3, <1>4, <2>1, <2>4, <2>9, <2>10, <3>1, IdsFrame
    <2>13. DirectoryInv'
        BY <1>1, <1>3, <1>4, <2>10, DirectoryFrame
    <2>14. \A f \in Handlers \ {h} : call[f].phase = "publishing" => call[f].key # k
        \* An open row holds its key.
        <3> SUFFICES ASSUME NEW f \in Handlers \ {h}, call[f].phase = "publishing", call[f].key = k
                     PROVE  FALSE
            OBVIOUS
        <3>1. /\ call[f].id \in DOMAIN notices /\ notices[call[f].id].state = "open"
              /\ notices[call[f].id].key = k
            BY <1>1 DEF NoticesInv, Publishing
        <3> QED BY <2>2, <3>1 DEF NoticesOf, gone
    <2>15. OnePublisher'
        <3> SUFFICES ASSUME NEW f \in Handlers, NEW e \in Handlers,
                            call'[f].phase = "publishing", call'[e].phase = "publishing",
                            call'[f].key = call'[e].key
                     PROVE  f = e
            BY DEF OnePublisher
        <3>1. CASE f # h /\ e # h
            BY <1>1, <1>4, <3>1 DEF NoticesInv, OnePublisher
        <3>2. CASE f = h /\ e # h
            BY <1>4, <2>9, <2>14, <3>2
        <3>3. CASE f # h /\ e = h
            BY <1>4, <2>9, <2>14, <3>3
        <3> QED BY <3>1, <3>2, <3>3
    <2>16. Publishing'
        <3> SUFFICES ASSUME NEW f \in Handlers, call'[f].phase = "publishing"
                     PROVE  /\ call'[f].id \in DOMAIN notices'
                            /\ notices'[call'[f].id].state = "open"
                            /\ notices'[call'[f].id].key = call'[f].key
                            /\ notices'[call'[f].id].targets = call'[f].targets
                            /\ DOMAIN call'[f].items \subseteq call'[f].targets
                            /\ TellTruth(call[f].id, call[f].items)'
                            /\ \A g \in call'[f].targets \ DOMAIN call'[f].items :
                                 /\ sent'[<<call'[f].key, g>>] = 0
                                 /\ <<call'[f].id, g>> \notin posted'
            BY DEF Publishing
        <3>1. CASE f = h
            <4>1. \A g : <<i, g>> \notin posted
                BY <1>1, <2>4 DEF IdsAreIssued
            <4>2. TellTruth(call[f].id, call[f].items)'
                BY <2>9, <3>1, NoItems DEF TellTruth
            <4> QED BY <1>2, <1>3, <2>3, <2>7, <2>8, <2>9, <3>1, <4>1, <4>2, NoItems
        <3>2. CASE f # h
            <4>1. call'[f] = call[f] /\ call[f].key # k /\ call[f] \in PublishingCalls
                BY <1>1, <1>4, <2>14, <3>2, CallTypes
            <4>2. /\ call[f].id \in DOMAIN notices /\ notices[call[f].id].state = "open"
                  /\ notices[call[f].id].key = call[f].key
                  /\ notices[call[f].id].targets = call[f].targets
                  /\ DOMAIN call[f].items \subseteq call[f].targets
                  /\ TellTruth(call[f].id, call[f].items)
                  /\ \A g \in call[f].targets \ DOMAIN call[f].items :
                       sent[<<call[f].key, g>>] = 0 /\ <<call[f].id, g>> \notin posted
                BY <1>1, <4>1 DEF NoticesInv, Publishing
            <4>3. call[f].key \in Keys /\ call[f].targets \subseteq Groups
                BY <4>1 DEF PublishingCalls
            <4>4. notices'[call[f].id] = notices[call[f].id] /\ call[f].id \in DOMAIN notices'
                BY <2>5, <4>1, <4>2
            <4>5. TellTruth(call[f].id, call[f].items)'
                BY <1>3, <4>1, <4>2 DEF TellTruth
            <4> QED BY <1>3, <2>7, <4>1, <4>2, <4>3, <4>4, <4>5
        <3> QED BY <3>1, <3>2
    <2>17. OneRowPerKey'
        BY <1>1, <2>3, <2>6, <2>8 DEF NoticesInv, OneRowPerKey
    <2>18. UnusedKeys'
        <3> SUFFICES ASSUME NEW c \in Keys, NEW g \in Groups, NoticesOf(c)' = {}
                     PROVE  sent'[<<c, g>>] = 0
            BY DEF UnusedKeys, NoticesOf
        <3>1. c # k
            BY <2>3, <2>8 DEF NoticesOf
        <3>2. NoticesOf(c) = {}
            BY <2>5, <3>1 DEF NoticesOf
        <3> QED BY <1>1, <2>7, <3>1, <3>2 DEF NoticesInv, UnusedKeys
    <2>19. NoticesOnce'
        <3> SUFFICES ASSUME NEW x \in DOMAIN sent' PROVE sent'[x] <= 1
            BY DEF NoticesOnce
        <3>1. PICK c \in Keys, g \in Groups : x = <<c, g>>
            BY <2>7
        <3>2. sent \in [Keys \X Groups -> Nat]
            BY <1>1 DEF Types
        <3>3. sent[<<c, g>>] <= 1
            BY <1>1, <3>2 DEF NoticesInv, NoticesOnce
        <3> QED BY <2>7, <3>1, <3>3
    <2>20. CompletedItems'
        <3> SUFFICES ASSUME NEW j \in DOMAIN notices', notices'[j].state # "open"
                     PROVE  /\ j \in DOMAIN notices /\ notices'[j] = notices[j]
            BY <1>1, <1>3 DEF NoticesInv, CompletedItems, TellTruth
        <3> QED BY <2>3, <2>6, <2>8
    <2> QED BY <1>1, <1>3, <2>11, <2>12, <2>13, <2>15, <2>16, <2>17, <2>18, <2>19, <2>20
            DEF Inv, Common, NoticesInv, NothingWhileDown
<1> QED BY <1>6, <1>7

\* A group's notice is asked for while nothing is known of it yet.
LEMMA PublishItemStep ==
    ASSUME Inv, NEW h \in Handlers, NEW g \in Groups, NEW answer \in Answers,
           PublishNoticeItem(h, g, answer)
    PROVE  Inv'
<1> DEFINE i == call[h].id
           k == call[h].key
           old == call[h].items
           items == With(old, g, ItemStatus(answer))
           state == [call[h] EXCEPT !.items = items]
<1>1. /\ Types /\ IdsAreIssued /\ issued \in Nat /\ up = TRUE /\ NoticesInv /\ DirectoryInv
      /\ call[h].phase = "publishing" /\ call[h] \in PublishingCalls
      /\ sent \in [Keys \X Groups -> Nat]
    <2>1. Types /\ call[h].phase = "publishing"
        BY DEF Inv, Common, PublishNoticeItem
    <2> QED BY <2>1, CallTypes DEF Inv, Common, Types, NothingWhileDown, Idle
<1>2. /\ g \in call[h].targets \ DOMAIN old
      /\ Become(h, state)
      /\ UNCHANGED <<remote, managed, syncs, notices, issued, up, retries>>
      /\ sent' = IF answer \in {"confirmed", "timeout"}
                 THEN [sent EXCEPT ![<<k, g>>] = @ + 1] ELSE sent
    BY DEF PublishNoticeItem
<1>3. PICK appears \in Appears(answer) :
            posted' = IF appears THEN posted \cup {<<i, g>>} ELSE posted
    BY DEF PublishNoticeItem
<1>4. /\ ItemStatus(answer) \in ItemStatuses
      /\ ItemStatus(answer) = "success" => appears
      /\ ItemStatus(answer) \in {"denied", "failed"} => ~appears
    BY DEF ItemStatus, ItemStatuses, Appears, Answers
<1>5. /\ DOMAIN items = DOMAIN old \cup {g} /\ items[g] = ItemStatus(answer)
      /\ \A e \in DOMAIN old : items[e] = old[e]
    BY <1>2 DEF With
<1>6. /\ items \in Items /\ k \in Keys /\ i \in Nat /\ i \in 1..issued
      /\ call[h].targets \subseteq Groups
    <2>1. old \in Items /\ k \in Keys /\ i \in Nat /\ call[h].targets \subseteq Groups
        BY <1>1 DEF PublishingCalls
    <2>2. PICK S \in SUBSET Groups : old \in [S -> ItemStatuses]
        BY <2>1 DEF Items
    <2>3. items \in [S \cup {g} -> ItemStatuses]
        BY <1>4, <2>2 DEF With
    <2>4. items \in Items
        <3>1. S \cup {g} \in SUBSET Groups
            OBVIOUS
        <3> HIDE DEF items
        <3> QED BY <2>3, <3>1 DEF Items
    <2> QED BY <1>1, <2>1, <2>4 DEF IdsAreIssued, InService
<1>7. /\ state \in PublishingCalls /\ state.phase = "publishing" /\ state.id = i
      /\ state.key = k /\ state.targets = call[h].targets /\ state.items = items
    <2> HIDE DEF items
    <2> QED BY <1>1, <1>6 DEF PublishingCalls
<1>8. /\ call' \in [Handlers -> Calls] /\ call'[h] = state
      /\ \A f \in Handlers \ {h} : call'[f] = call[f]
    <2>1. state \in Calls
        BY <1>7 DEF Calls
    <2> HIDE DEF state
    <2> QED BY <1>1, <1>2, <2>1, BecomeType
<1>9. /\ i \in DOMAIN notices /\ notices[i].state = "open" /\ notices[i].key = k
      /\ notices[i].targets = call[h].targets /\ DOMAIN old \subseteq call[h].targets
      /\ TellTruth(i, old) /\ sent[<<k, g>>] = 0 /\ <<i, g>> \notin posted
      /\ \A e \in call[h].targets \ DOMAIN old : sent[<<k, e>>] = 0 /\ <<i, e>> \notin posted
    BY <1>1, <1>2 DEF NoticesInv, Publishing
<1> HIDE DEF i, k, old, items, state
<1>10. /\ sent' \in [Keys \X Groups -> Nat] /\ sent'[<<k, g>>] <= 1
       /\ \A c \in Keys, e \in Groups : <<c, e>> # <<k, g>> => sent'[<<c, e>>] = sent[<<c, e>>]
    BY <1>1, <1>2, <1>6, <1>9
<1>11. \A x : x # <<i, g>> => (x \in posted' <=> x \in posted)
    BY <1>3
<1>12. Types'
    BY <1>1, <1>2, <1>8, <1>10 DEF Types
<1>13. IdsAreIssued'
    <2>1. \A x \in posted' : x \in posted \/ x[1] \in 1..issued
        BY <1>3, <1>6
    <2> QED BY <1>1, <1>2, <1>6, <1>7, <1>8, <2>1, IdsFrame
<1>14. DirectoryInv'
    BY <1>1, <1>2, <1>7, <1>8, DirectoryFrame
<1>15. OnePublisher'
    BY <1>1, <1>7, <1>8 DEF NoticesInv, OnePublisher, k
<1>16. Publishing'
    <2>2. \A e \in DOMAIN items :
            /\ items[e] = "success" => <<i, e>> \in posted'
            /\ items[e] \in {"denied", "failed"} => <<i, e>> \notin posted'
        <3> SUFFICES ASSUME NEW e \in DOMAIN items
                     PROVE  /\ items[e] = "success" => <<i, e>> \in posted'
                            /\ items[e] \in {"denied", "failed"} => <<i, e>> \notin posted'
            OBVIOUS
        <3>1. CASE e = g
            BY <1>3, <1>4, <1>5, <1>9, <3>1
        <3>2. CASE e # g
            BY <1>5, <1>9, <1>11, <3>2 DEF TellTruth
        <3> QED BY <3>1, <3>2
    <2>3. ASSUME NEW f \in Handlers \ {h}, call[f].phase = "publishing"
          PROVE  call[f].key # k /\ call[f].id # i /\ call[f].key \in Keys
                 /\ call[f].targets \subseteq Groups
        <3>1. call[f].key # k
            BY <1>1, <2>3 DEF NoticesInv, OnePublisher, k
        <3>2. call[f].id # i
            BY <1>1, <1>9, <2>3, <3>1 DEF NoticesInv, Publishing
        <3>3. call[f] \in PublishingCalls
            BY <1>1, <2>3, CallTypes
        <3> QED BY <3>1, <3>2, <3>3 DEF PublishingCalls
    <2> SUFFICES ASSUME NEW f \in Handlers, call'[f].phase = "publishing"
                 PROVE  /\ call'[f].id \in DOMAIN notices
                        /\ notices[call'[f].id].state = "open"
                        /\ notices[call'[f].id].key = call'[f].key
                        /\ notices[call'[f].id].targets = call'[f].targets
                        /\ DOMAIN call'[f].items \subseteq call'[f].targets
                        /\ TellTruth(call[f].id, call[f].items)'
                        /\ \A e \in call'[f].targets \ DOMAIN call'[f].items :
                             /\ sent'[<<call'[f].key, e>>] = 0
                             /\ <<call'[f].id, e>> \notin posted'
        BY <1>2 DEF Publishing
    <2>4. CASE f = h
        <3>1. TellTruth(call[f].id, call[f].items)'
            BY <1>7, <1>8, <2>2, <2>4 DEF TellTruth
        <3>2. ASSUME NEW e \in call[h].targets \ DOMAIN items
              PROVE  sent'[<<k, e>>] = 0 /\ <<i, e>> \notin posted'
            <4>1. e # g /\ e \in call[h].targets \ DOMAIN old /\ e \in Groups
                BY <1>5, <1>6
            <4>2. <<k, e>> # <<k, g>> /\ <<i, e>> # <<i, g>>
                BY <4>1
            <4> QED BY <1>6, <1>9, <1>10, <1>11, <4>1, <4>2
        <3> QED BY <1>2, <1>5, <1>7, <1>8, <1>9, <2>4, <3>1, <3>2
    <2>5. CASE f # h
        <3>1. call'[f] = call[f] /\ call[f].phase = "publishing"
            BY <1>8, <2>5
        <3>2. /\ call[f].id \in DOMAIN notices /\ notices[call[f].id].state = "open"
              /\ notices[call[f].id].key = call[f].key
              /\ notices[call[f].id].targets = call[f].targets
              /\ DOMAIN call[f].items \subseteq call[f].targets
              /\ TellTruth(call[f].id, call[f].items)
              /\ \A e \in call[f].targets \ DOMAIN call[f].items :
                   sent[<<call[f].key, e>>] = 0 /\ <<call[f].id, e>> \notin posted
            BY <1>1, <3>1 DEF NoticesInv, Publishing
        <3>3. call[f].key # k /\ call[f].id # i /\ call[f].key \in Keys
              /\ call[f].targets \subseteq Groups
            BY <2>3, <2>5, <3>1
        <3>4. TellTruth(call[f].id, call[f].items)'
            BY <1>11, <3>1, <3>2, <3>3 DEF TellTruth
        <3>5. \A e \in call[f].targets \ DOMAIN call[f].items :
                sent'[<<call[f].key, e>>] = 0 /\ <<call[f].id, e>> \notin posted'
            BY <1>10, <1>11, <3>2, <3>3
        <3> QED BY <3>1, <3>2, <3>4, <3>5
    <2> QED BY <2>4, <2>5
<1>17. OneRowPerKey'
    BY <1>1, <1>2 DEF NoticesInv, OneRowPerKey
<1>18. UnusedKeys'
    <2> SUFFICES ASSUME NEW c \in Keys, NEW e \in Groups, NoticesOf(c) = {}
                 PROVE  sent'[<<c, e>>] = 0
        BY <1>2 DEF UnusedKeys, NoticesOf
    <2>1. c # k
        BY <1>9 DEF NoticesOf
    <2> QED BY <1>1, <1>10, <2>1 DEF NoticesInv, UnusedKeys
<1>19. NoticesOnce'
    <2> SUFFICES ASSUME NEW x \in DOMAIN sent' PROVE sent'[x] <= 1
        BY DEF NoticesOnce
    <2>1. PICK c \in Keys, e \in Groups : x = <<c, e>>
        BY <1>10
    <2>2. sent[<<c, e>>] <= 1
        BY <1>1 DEF NoticesInv, NoticesOnce
    <2> QED BY <1>10, <2>1, <2>2
<1>20. CompletedItems'
    <2> SUFFICES ASSUME NEW j \in DOMAIN notices, notices[j].state # "open"
                 PROVE  TellTruth(j, notices[j].items)'
        BY <1>1, <1>2 DEF NoticesInv, CompletedItems
    <2>1. TellTruth(j, notices[j].items) /\ j # i
        BY <1>1, <1>9 DEF NoticesInv, CompletedItems
    <2> QED BY <1>2, <1>11, <2>1 DEF TellTruth
<1> QED BY <1>1, <1>2, <1>12, <1>13, <1>14, <1>15, <1>16, <1>17, <1>18, <1>19, <1>20
        DEF Inv, Common, NoticesInv, NothingWhileDown

\* A publication is recorded as its handler saw it, if its row is still open.
LEMMA CompleteNoticesStep ==
    ASSUME Inv, NEW h \in Handlers, NEW o \in Outcomes, CompleteGroupNoticePublication(h, o)
    PROVE  Inv'
<1> DEFINE i == call[h].id
           items == call[h].items
<1>1. /\ Types /\ IdsAreIssued /\ issued \in Nat /\ up = TRUE /\ NoticesInv /\ DirectoryInv
      /\ call[h].phase = "publishing" /\ call[h] \in PublishingCalls /\ Idle \in Calls
      /\ Idle.phase = "idle" /\ DOMAIN items = call[h].targets /\ Become(h, Idle)
      /\ UNCHANGED <<remote, managed, syncs, issued, up, retries, sent, posted>>
    <2>1. Types /\ call[h].phase = "publishing"
        BY DEF Inv, Common, CompleteGroupNoticePublication
    <2> QED BY <2>1, CallTypes DEF Inv, Common, Types, NothingWhileDown, Idle,
                                   CompleteGroupNoticePublication, outside
<1>2. /\ call' \in [Handlers -> Calls] /\ call'[h] = Idle
      /\ \A f \in Handlers \ {h} : call'[f] = call[f]
    BY <1>1, BecomeType
<1>3. /\ i \in DOMAIN notices /\ notices[i].state = "open" /\ notices[i].key = call[h].key
      /\ notices[i].targets = call[h].targets /\ TellTruth(i, items) /\ items \in Items
      /\ notices[i] \in NoticeRows
    BY <1>1 DEF NoticesInv, Publishing, PublishingCalls, Types
<1>4. IdsAreIssued'
    BY <1>1, <1>2, IdsFrame
<1>5. DirectoryInv'
    BY <1>1, <1>2, DirectoryFrame
<1>6. CASE UNCHANGED notices
    BY <1>1, <1>2, <1>4, <1>5, <1>6, TypesFrame, NoticesFrame DEF Inv, Common, NothingWhileDown
<1>7. CASE notices' # notices
    <2> DEFINE row == [notices[i] EXCEPT !.items = items, !.state = NoticeOutcome(items)]
    <2>1. notices' = [notices EXCEPT ![i].items = items, ![i].state = NoticeOutcome(items)]
        BY <1>7 DEF CompleteGroupNoticePublication
    <2>2. NoticeOutcome(items) \in States \ {"open"}
        BY DEF NoticeOutcome, States
    <2>3. /\ row \in NoticeRows /\ row.key = notices[i].key /\ row.targets = notices[i].targets
          /\ row.items = items /\ row.state = NoticeOutcome(items)
        BY <1>3, <2>2 DEF NoticeRows
    <2>4. /\ DOMAIN notices' = DOMAIN notices /\ notices'[i] = row
          /\ \A j \in DOMAIN notices \ {i} : notices'[j] = notices[j]
        BY <1>3, <2>1 DEF NoticeRows
    <2> HIDE DEF row
    <2>5. Types'
        BY <1>1, <1>2, <2>3, <2>4 DEF Types
    <2>6. \A f \in Handlers : call'[f].phase = "publishing" => f # h /\ call'[f] = call[f]
        BY <1>1, <1>2
    <2>7. Publishing'
        <3> SUFFICES ASSUME NEW f \in Handlers, call'[f].phase = "publishing"
                     PROVE  /\ call[f].id \in DOMAIN notices'
                            /\ notices'[call[f].id].state = "open"
                            /\ notices'[call[f].id].key = call[f].key
                            /\ notices'[call[f].id].targets = call[f].targets
                            /\ DOMAIN call[f].items \subseteq call[f].targets
                            /\ TellTruth(call[f].id, call[f].items)
                            /\ \A g \in call[f].targets \ DOMAIN call[f].items :
                                 sent[<<call[f].key, g>>] = 0 /\ <<call[f].id, g>> \notin posted
            BY <1>1, <2>6 DEF Publishing, TellTruth
        <3>1. f # h /\ call[f].phase = "publishing"
            BY <2>6
        <3>2. call[f].key # call[h].key
            BY <1>1, <3>1 DEF NoticesInv, OnePublisher
        <3>3. call[f].id # i /\ call[f].id \in DOMAIN notices
            BY <1>1, <1>3, <3>1, <3>2 DEF NoticesInv, Publishing
        <3> QED BY <1>1, <2>4, <3>1, <3>3 DEF NoticesInv, Publishing
    <2>8. OnePublisher'
        BY <1>1, <2>6 DEF NoticesInv, OnePublisher
    <2>9. OneRowPerKey'
        BY <1>1, <2>3, <2>4 DEF NoticesInv, OneRowPerKey
    <2>10. UnusedKeys'
        <3> SUFFICES ASSUME NEW c \in Keys, NEW g \in Groups, NoticesOf(c)' = {}
                     PROVE  sent[<<c, g>>] = 0
            BY <1>1 DEF UnusedKeys, NoticesOf
        <3>1. NoticesOf(c) = {}
            BY <2>3, <2>4 DEF NoticesOf
        <3> QED BY <1>1, <3>1 DEF NoticesInv, UnusedKeys
    <2>11. NoticesOnce'
        BY <1>1 DEF NoticesInv, NoticesOnce
    <2>12. CompletedItems'
        <3> SUFFICES ASSUME NEW j \in DOMAIN notices, notices'[j].state # "open"
                     PROVE  /\ DOMAIN notices'[j].items = notices'[j].targets
                            /\ TellTruth(j, notices'[j].items)
                            /\ notices'[j].state = "succeeded" <=>
                                 \E g \in notices'[j].targets : notices'[j].items[g] = "success"
                            /\ notices'[j].state = "failed" =>
                                 \A g \in notices'[j].targets :
                                    notices'[j].items[g] \in {"denied", "failed"}
            BY <1>1, <2>4 DEF CompletedItems, TellTruth
        <3>1. CASE j # i
            BY <1>1, <2>4, <3>1 DEF NoticesInv, CompletedItems
        <3>2. CASE j = i
            <4>1. NoticeOutcome(items) = "succeeded" <=> \E g \in DOMAIN items : items[g] = "success"
                BY DEF NoticeOutcome, Statuses
            <4>2. ASSUME NoticeOutcome(items) = "failed", NEW g \in DOMAIN items
                  PROVE  items[g] \in {"denied", "failed"}
                <5>1. items[g] \in ItemStatuses
                    <6>1. PICK S \in SUBSET Groups : items \in [S -> ItemStatuses]
                        BY <1>3 DEF Items
                    <6> QED BY <4>2, <6>1
                <5> QED BY <4>2, <5>1 DEF NoticeOutcome, Statuses, ItemStatuses
            <4> HIDE DEF i, items
            <4> QED BY <1>1, <1>3, <2>3, <2>4, <3>2, <4>1, <4>2 DEF items
        <3> QED BY <3>1, <3>2
    <2> QED BY <1>1, <1>4, <1>5, <2>5, <2>7, <2>8, <2>9, <2>10, <2>11, <2>12
            DEF Inv, Common, NoticesInv, NothingWhileDown
<1> QED BY <1>6, <1>7

-----------------------------------------------------------------------------
(* Time, the groups the bot is in, and the process.                          *)

LEMMA ExpireStep ==
    ASSUME Inv, NEW i \in Ids, Expire(i)
    PROVE  Inv'
<1>1. /\ Types /\ IdsAreIssued /\ NoticesInv /\ DirectoryInv /\ issued \in Nat
      /\ UNCHANGED <<remote, sent, posted, managed, issued, up, call, retries>>
    BY DEF Inv, Common, Types, Expire, outside
<1>2. IdsAreIssued'
    BY <1>1, IdsFrame
<1>3. CASE syncs' # syncs
    <2>1. i \in DOMAIN syncs /\ syncs' = [syncs EXCEPT ![i].expired = TRUE] /\ UNCHANGED notices
        BY <1>3 DEF Expire
    <2>2. /\ DOMAIN syncs' = DOMAIN syncs
          /\ \A j \in DOMAIN syncs : syncs'[j] \in SyncRows /\ syncs'[j].state = syncs[j].state
        BY <1>1, <2>1 DEF Types, SyncRows
    <2>3. Types'
        BY <1>1, <2>1, <2>2 DEF Types
    <2>4. \A j : Open(j)' <=> Open(j)
        BY <2>2 DEF Open
    <2>5. DirectoryInv'
        BY <1>1, <2>2, <2>4 DEF DirectoryInv, OneOpenSync, ListsAreNewer, InHand, NoNewerThan
    <2>6. NoticesInv'
        BY <1>1, <2>1, NoticesFrame
    <2> QED BY <1>1, <1>2, <2>3, <2>5, <2>6 DEF Inv, Common, NothingWhileDown
<1>4. CASE syncs' = syncs
    <2>1. i \in DOMAIN notices /\ notices' = [notices EXCEPT ![i].expired = TRUE]
        <3>1. ~(i \in DOMAIN syncs /\ ~syncs[i].expired
                /\ syncs' = [syncs EXCEPT ![i].expired = TRUE])
            <4> SUFFICES ASSUME i \in DOMAIN syncs, ~syncs[i].expired,
                                syncs' = [syncs EXCEPT ![i].expired = TRUE]
                         PROVE  FALSE
                OBVIOUS
            <4>1. syncs[i] \in SyncRows
                BY <1>1 DEF Types
            <4>2. syncs'[i].expired = TRUE
                BY <4>1 DEF SyncRows
            <4> QED BY <1>4, <4>2
        <3> QED BY <3>1 DEF Expire
    <2>2. /\ DOMAIN notices' = DOMAIN notices
          /\ \A j \in DOMAIN notices :
               /\ notices'[j] \in NoticeRows /\ notices'[j].state = notices[j].state
               /\ notices'[j].key = notices[j].key /\ notices'[j].targets = notices[j].targets
               /\ notices'[j].items = notices[j].items
        BY <1>1, <2>1 DEF Types, NoticeRows
    <2>3. Types'
        BY <1>1, <1>4, <2>2 DEF Types
    <2>4. DirectoryInv'
        BY <1>1, <1>4, DirectoryFrame
    <2>5. Publishing' /\ OnePublisher'
        BY <1>1, <2>2 DEF NoticesInv, Publishing, OnePublisher, TellTruth
    <2>6. OneRowPerKey' /\ UnusedKeys' /\ NoticesOnce'
        BY <1>1, <2>2 DEF NoticesInv, OneRowPerKey, UnusedKeys, NoticesOf, NoticesOnce
    <2>7. CompletedItems'
        BY <1>1, <2>2 DEF NoticesInv, CompletedItems, TellTruth
    <2> QED BY <1>1, <1>2, <2>3, <2>4, <2>5, <2>6, <2>7
            DEF Inv, Common, NoticesInv, NothingWhileDown
<1> QED BY <1>3, <1>4

\* What NapCat says later is newer than every list in hand.
LEMMA ChangeRemoteStep ==
    ASSUME Inv, NEW groups \in SUBSET Groups, ChangeRemote(groups)
    PROVE  Inv'
<1>1. /\ Types /\ IdsAreIssued /\ NoticesInv /\ DirectoryInv /\ issued \in Nat
      /\ UNCHANGED <<managed, syncs, notices, issued, up, call, retries, sent, posted>>
      /\ remote.version \in Nat
    BY DEF Inv, Common, Types, ChangeRemote, Lists
<1>2. remote' \in Lists /\ remote'.version = remote.version + 1
    BY <1>1 DEF ChangeRemote, Lists
<1>3. Types'
    BY <1>1, <1>2 DEF Types
<1>4. IdsAreIssued'
    BY <1>1, IdsFrame
<1>5. DirectoryInv'
    <2>1. OneOpenSync'
        BY <1>1 DEF DirectoryInv, OneOpenSync, Open
    <2>2. NoNewerThan(remote.version)'
        <3>1. \A g \in DOMAIN managed : managed[g].from \in Nat
            BY <1>1 DEF Types
        <3> QED BY <1>1, <1>2, <3>1 DEF DirectoryInv, ListsAreNewer, NoNewerThan
    <2>3. ASSUME NEW j, NEW list \in Lists, InHand(j, list) PROVE InHand(j, list)'
        <3>1. list.version \in Nat
            BY DEF Lists
        <3> QED BY <1>1, <1>2, <2>3, <3>1 DEF InHand, NoNewerThan, Open
    <2>4. ASSUME NEW h \in Handlers, call[h].phase = "settling", NEW list \in call[h].found
          PROVE  InHand(call[h].id, list)'
        <3>1. list \in Lists
            BY <1>1, <2>4, CallTypes DEF SettlingCalls
        <3>2. InHand(call[h].id, list)
            BY <1>1, <2>4 DEF DirectoryInv, ListsAreNewer
        <3>3. call'[h] = call[h]
            BY <1>1
        <3> QED BY <1>1, <1>2, <3>1, <3>2, <3>3, <2>3 DEF InHand, NoNewerThan, Open
    <2>5. ASSUME NEW r \in retries, NEW list \in r.found PROVE InHand(r.id, list)'
        <3>1. list \in Lists /\ InHand(r.id, list)
            BY <1>1 DEF Types, DirectoryInv, ListsAreNewer
        <3> QED BY <3>1, <2>3
    <2> QED BY <1>1, <2>1, <2>2, <2>4, <2>5 DEF DirectoryInv, ListsAreNewer
<1>6. NoticesInv'
    BY <1>1, NoticesFrame
<1> QED BY <1>1, <1>3, <1>4, <1>5, <1>6 DEF Inv, Common, NothingWhileDown

LEMMA CrashStep ==
    ASSUME Inv, Crash
    PROVE  Inv'
<1>1. /\ Types /\ IdsAreIssued /\ NoticesInv /\ DirectoryInv /\ issued \in Nat
      /\ UNCHANGED <<remote, managed, syncs, notices, issued, sent, posted>>
      /\ up' = FALSE /\ retries' = {} /\ call' = [h \in Handlers |-> Idle]
      /\ Idle \in Calls /\ Idle.phase = "idle"
    BY DEF Inv, Common, Types, Crash, outside, Calls, Idle
<1>2. Types'
    BY <1>1 DEF Types
<1>3. IdsAreIssued'
    BY <1>1, IdsFrame
<1>4. DirectoryInv'
    BY <1>1 DEF DirectoryInv, OneOpenSync, ListsAreNewer, NoNewerThan, Open
<1>5. NoticesInv'
    BY <1>1, NoticesFrame
<1> QED BY <1>1, <1>2, <1>3, <1>4, <1>5 DEF Inv, Common, NothingWhileDown

\* Recovery says unknown of everything, which is always true.
LEMMA StartStep ==
    ASSUME Inv, Start
    PROVE  Inv'
<1>1. /\ Types /\ IdsAreIssued /\ NoticesInv /\ DirectoryInv /\ issued \in Nat
      /\ UNCHANGED <<remote, managed, issued, sent, posted, call, retries>> /\ up' = TRUE
      /\ retries = {} /\ \A h \in Handlers : call[h].phase = "idle"
    <2>1. retries = {} /\ \A h \in Handlers : call[h].phase = "idle"
        <3>1. ~up
            BY DEF Start
        <3> QED BY <3>1 DEF Inv, Common, NothingWhileDown, Idle
    <2>2. /\ UNCHANGED <<remote, managed, issued, sent, posted, call, retries>> /\ up' = TRUE
        BY DEF Start, outside
    <2> QED BY <2>1, <2>2 DEF Inv, Common, Types
<1>2. /\ DOMAIN syncs' = DOMAIN syncs
      /\ \A j \in DOMAIN syncs : syncs'[j] \in SyncRows /\ syncs'[j].state # "open"
    BY <1>1 DEF Types, Start, SyncRows, States
<1>3. ASSUME NEW j \in DOMAIN notices
      PROVE  /\ notices'[j] \in NoticeRows /\ notices'[j].key = notices[j].key
             /\ notices[j].state # "open" => notices'[j] = notices[j]
             /\ notices[j].state = "open" =>
                  /\ notices'[j].state = "unknown"
                  /\ notices'[j].items = [g \in notices'[j].targets |-> "unknown"]
    <2>1. notices[j] \in NoticeRows
        BY <1>1 DEF Types
    <2> DEFINE unknown == [g \in notices[j].targets |-> "unknown"]
    <2>2. unknown \in Items
        <3>1. unknown \in [notices[j].targets -> ItemStatuses]
            BY DEF ItemStatuses
        <3>2. notices[j].targets \in SUBSET Groups
            BY <2>1 DEF NoticeRows
        <3> HIDE DEF unknown
        <3> QED BY <3>1, <3>2 DEF Items
    <2>3. notices'[j] = IF notices[j].state = "open"
                        THEN [notices[j] EXCEPT !.state = "unknown", !.items = unknown]
                        ELSE notices[j]
        BY DEF Start
    <2> HIDE DEF unknown
    <2>4. [notices[j] EXCEPT !.state = "unknown", !.items = unknown] \in NoticeRows
        BY <2>1, <2>2 DEF NoticeRows, States
    <2> QED BY <2>1, <2>3, <2>4 DEF NoticeRows, unknown
<1>4. DOMAIN notices' = DOMAIN notices
    BY DEF Start
<1>5. Types'
    BY <1>1, <1>2, <1>3, <1>4 DEF Types
<1>6. IdsAreIssued'
    BY <1>1, IdsFrame
<1>7. DirectoryInv'
    BY <1>1, <1>2 DEF DirectoryInv, OneOpenSync, ListsAreNewer, NoNewerThan, Open
<1>8. Publishing' /\ OnePublisher' /\ NoticesOnce'
    BY <1>1 DEF NoticesInv, Publishing, OnePublisher, NoticesOnce
<1>9. OneRowPerKey' /\ UnusedKeys'
    <2>1. OneRowPerKey'
        BY <1>1, <1>3, <1>4 DEF NoticesInv, OneRowPerKey
    <2>2. ASSUME NEW k \in Keys, NoticesOf(k)' = {} PROVE NoticesOf(k) = {}
        <3>1. \A j \in DOMAIN notices : notices'[j].key # k
            BY <1>4, <2>2 DEF NoticesOf
        <3> QED BY <1>3, <3>1 DEF NoticesOf
    <2>3. UnusedKeys'
        <3>1. UNCHANGED sent /\ UnusedKeys
            BY <1>1 DEF NoticesInv
        <3> QED BY <2>2, <3>1 DEF UnusedKeys
    <2> QED BY <2>1, <2>3
<1>10. CompletedItems'
    <2> SUFFICES ASSUME NEW j \in DOMAIN notices
                 PROVE  /\ DOMAIN notices'[j].items = notices'[j].targets
                        /\ TellTruth(j, notices'[j].items)
                        /\ notices'[j].state = "succeeded" <=>
                             \E g \in notices'[j].targets : notices'[j].items[g] = "success"
                        /\ notices'[j].state = "failed" =>
                             \A g \in notices'[j].targets :
                                notices'[j].items[g] \in {"denied", "failed"}
        BY <1>1, <1>4 DEF CompletedItems, TellTruth
    <2>1. CASE notices[j].state # "open"
        <3>1. notices'[j] = notices[j]
            BY <1>3, <2>1
        <3>2. CompletedItems
            BY <1>1 DEF NoticesInv
        <3> QED BY <2>1, <3>1, <3>2 DEF CompletedItems
    <2>2. CASE notices[j].state = "open"
        <3>1. /\ notices'[j].state = "unknown"
              /\ notices'[j].items = [g \in notices'[j].targets |-> "unknown"]
            BY <1>3, <2>2
        <3> QED BY <3>1 DEF TellTruth
    <2> QED BY <2>1, <2>2
<1> QED BY <1>1, <1>5, <1>6, <1>7, <1>8, <1>9, <1>10 DEF Inv, Common, NoticesInv, NothingWhileDown

-----------------------------------------------------------------------------
(* The theorems.                                                             *)

LEMMA InitInv == Init => Inv
<1> SUFFICES ASSUME Init PROVE Inv
    OBVIOUS
<1>1. /\ syncs = <<>> /\ notices = <<>> /\ DOMAIN syncs = {} /\ DOMAIN notices = {}
      /\ Idle \in Calls /\ Idle.phase = "idle" /\ remote.version = 1 /\ remote \in Lists
    BY DEF Init, Calls, Idle, Lists
<1>2. /\ DOMAIN managed \subseteq Groups
      /\ \A g \in DOMAIN managed : managed[g] \in [shown : BOOLEAN, from : Nat] /\ managed[g].from = 0
    <2>1. CASE managed = <<>>
        BY <2>1
    <2>2. CASE managed = [g \in Groups |-> [shown |-> TRUE, from |-> 0]]
        BY <2>2
    <2> QED BY <2>1, <2>2 DEF Init
<1>3. Types
    BY <1>1, <1>2 DEF Init, Types
<1>4. IdsAreIssued /\ NothingWhileDown
    BY <1>1 DEF Init, IdsAreIssued, InService, NothingWhileDown
<1>5. DirectoryInv
    BY <1>1, <1>2 DEF Init, DirectoryInv, OneOpenSync, ListsAreNewer, NoNewerThan
<1>6. NoticesInv
    BY <1>1 DEF Init, NoticesInv, Publishing, OnePublisher, OneRowPerKey, UnusedKeys, NoticesOnce,
                CompletedItems
<1> QED BY <1>3, <1>4, <1>5, <1>6 DEF Inv, Common

LEMMA NextInv == Inv /\ [Next]_vars => Inv'
<1> SUFFICES ASSUME Inv, [Next]_vars PROVE Inv'
    OBVIOUS
<1>1. ASSUME NEW h \in Handlers, Begin(h) PROVE Inv'
    BY <1>1, BeginGroupSyncStep, ResolveStep DEF Begin
<1>2. ASSUME NEW h \in Handlers, Serve(h) PROVE Inv'
    BY <1>2, LoadRemoteGroupsStep, ReplayStep, SettleSyncStep, BeginNoticesStep,
       CompleteNoticesStep, PublishItemStep DEF Serve
<1>3. ASSUME NEW r \in retries, Retry(r) PROVE Inv'
    BY <1>3, RetrySyncStep DEF Retry
<1>4. CASE UNCHANGED vars
    <2>1. UNCHANGED <<remote, managed, syncs, notices, issued, up, call, retries, sent, posted>>
        BY <1>4 DEF vars
    <2>2. Types /\ issued \in Nat /\ call \in [Handlers -> Calls]
        BY DEF Inv, Common, Types
    <2>3. Types' /\ IdsAreIssued'
        BY <2>1, <2>2, TypesFrame, IdsFrame DEF Inv, Common
    <2> QED BY <2>1, <2>3, DirectoryFrame, NoticesFrame DEF Inv, Common, NothingWhileDown
<1> QED BY <1>1, <1>2, <1>3, <1>4, ExpireStep, ChangeRemoteStep, CrashStep, StartStep DEF Next

LEMMA InvHolds == Spec => []Inv
BY InitInv, NextInv, PTL DEF Spec

\* A notice is asked for once per key and group, and a completed publication tells
\* what was shown: BeginGroupNoticePublication, noticeFailureItem, the recovery of
\* a start.
THEOREM NoticesStaySound == Spec => []NoticesAreSound
<1>1. ASSUME Inv PROVE NoticesAreSound
    <2>1. TypeOK
        <3>1. \A h \in Handlers : call[h].phase \in {"idle", "loading", "settling", "reserving", "publishing"}
            BY <1>1 DEF Inv, Common, Types, Calls, Idle, LoadingCalls, SettlingCalls,
                        ReservingCalls, PublishingCalls
        <3>2. ASSUME NEW i \in DOMAIN notices, notices[i].state # "open"
              PROVE  notices[i].items \in [notices[i].targets -> ItemStatuses]
            <4>1. notices[i].items \in Items /\ DOMAIN notices[i].items = notices[i].targets
                BY <1>1, <3>2 DEF Inv, Common, Types, NoticeRows, NoticesInv, CompletedItems
            <4> QED BY <4>1 DEF Items
        <3> QED BY <1>1, <3>1, <3>2
                DEF Inv, Common, Types, IdsAreIssued, TypeOK, Lists, SyncRows, NoticeRows
    <2>2. NoticesOnce
        BY <1>1 DEF Inv, NoticesInv
    <2>3. NoticesTellTruth
        <3> SUFFICES ASSUME NEW i \in DOMAIN notices, notices[i].state # "open"
                     PROVE  /\ \A g \in notices[i].targets :
                                 CASE notices[i].items[g] = "success" -> <<i, g>> \in posted
                                   [] notices[i].items[g] = "unknown" -> TRUE
                                   [] OTHER -> <<i, g>> \notin posted
                            /\ notices[i].state = "succeeded" <=>
                                 \E g \in notices[i].targets : notices[i].items[g] = "success"
                            /\ notices[i].state = "failed" =>
                                 \A g \in notices[i].targets : <<i, g>> \notin posted
            BY DEF NoticesTellTruth
        <3>1. \A g \in notices[i].targets : notices[i].items[g] \in ItemStatuses
            BY <2>1 DEF TypeOK
        <3>2. /\ DOMAIN notices[i].items = notices[i].targets /\ TellTruth(i, notices[i].items)
              /\ notices[i].state = "succeeded" <=>
                   \E g \in notices[i].targets : notices[i].items[g] = "success"
              /\ notices[i].state = "failed" =>
                   \A g \in notices[i].targets : notices[i].items[g] \in {"denied", "failed"}
            BY <1>1 DEF Inv, NoticesInv, CompletedItems
        <3> QED BY <3>1, <3>2 DEF TellTruth, ItemStatuses
    <2> QED BY <2>1, <2>2, <2>3 DEF NoticesAreSound
<1> QED BY <1>1, InvHolds, PTL

\* A list of groups never replaces a later one, whichever handler, retry or
\* repetition brings it: BeginGroupSync lets one sync in, and its list is read after
\* every earlier one was recorded.
THEOREM NewestListWins == Spec => DirectoryNeverGoesBack
<1> DEFINE A == \A g \in DOMAIN managed' :
                  \/ g \in DOMAIN managed /\ managed'[g] = managed[g]
                  \/ \A e \in DOMAIN managed : managed'[g].from >= managed[e].from
<1>1. ASSUME Inv, [Next]_vars PROVE [A]_vars
    <2>1. ASSUME NEW h \in Handlers, NEW o, SettleSync(h, o) PROVE A
        <3>1. Types /\ call[h].phase = "settling"
            BY <1>1, <2>1 DEF Inv, Common, SettleSync
        <3>2. call[h] \in SettlingCalls
            BY <3>1, CallTypes
        <3>3. /\ call[h].id \in 1..issued /\ call[h].found \in SUBSET Lists
              /\ \A list \in call[h].found : InHand(call[h].id, list)
            BY <1>1, <3>1, <3>2 DEF SettlingCalls, Inv, Common, IdsAreIssued, InService,
                                    DirectoryInv, ListsAreNewer
        <3>4. Settle(call[h].id, call[h].found, o) /\ UNCHANGED remote
            BY <2>1 DEF SettleSync, outside
        <3> QED BY <1>1, <3>3, <3>4, SettleRows
    <2>2. ASSUME NEW r \in retries, NEW o, RetrySync(r, o) PROVE A
        <3>1. /\ r.id \in 1..issued /\ r.found \in SUBSET Lists
              /\ \A list \in r.found : InHand(r.id, list)
            BY <1>1 DEF Inv, Common, Types, IdsAreIssued, DirectoryInv, ListsAreNewer
        <3>2. Settle(r.id, r.found, o) /\ UNCHANGED remote
            BY <2>2 DEF RetrySync, outside
        <3> QED BY <1>1, <3>1, <3>2, SettleRows
    <2>3. CASE UNCHANGED managed
        BY <2>3
    <2>4. \/ UNCHANGED managed
          \/ \E h \in Handlers, o \in Outcomes : SettleSync(h, o)
          \/ \E r \in retries, o \in Outcomes : RetrySync(r, o)
        BY <1>1 DEF Next, Begin, Serve, Retry, vars, BeginGroupSync, ResolveNoticeTargets,
                    LoadRemoteGroups, ReplayNotices, BeginGroupNoticePublication,
                    CompleteGroupNoticePublication, PublishNoticeItem, Expire, ChangeRemote,
                    Crash, Start
    <2> QED BY <2>1, <2>2, <2>3, <2>4
<1> QED BY <1>1, InvHolds, PTL DEF Spec, DirectoryNeverGoesBack

=============================================================================
