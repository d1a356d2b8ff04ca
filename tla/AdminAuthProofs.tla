-------------------------- MODULE AdminAuthProofs --------------------------
(***************************************************************************)
(* Proofs about AdminAuth, for any sets of users, sessions, requests, keys *)
(* and roles: one super admin remains; the tables are well formed,         *)
(* replacements ascend and no active session is older than its password; a *)
(* change overwrites the password its caller proved to know; a change or a *)
(* reset is done once, and the answer of a change can be fetched again.    *)
(*                                                                         *)
(* Requests run on with what they have read.  The invariant says of each   *)
(* how that relates to the tables now (GoodCall), and of what was done     *)
(* why it cannot be done again (Finished).  Both hold on because a row of  *)
(* a user only grows in revision, and a session that has ended is final    *)
(* (UsersKept, SessionsKept).                                              *)
(***************************************************************************)
EXTENDS AdminAuth, FiniteSetTheorems, WellFoundedInduction, TLAPS

-----------------------------------------------------------------------------
(* Some super admin.  The invariant adds that a request in service implies  *)
(* that there are users (CreateAdminUser never inserts the first), and the  *)
(* shape of a row (an edit changes no other row and no other column).       *)

Columns == {"role", "enabled", "password", "revision"}
RowsComplete == \A u \in DOMAIN user : DOMAIN user[u] = Columns
ServedByUsers == DOMAIN call # {} => DOMAIN user # {}
InOffice == DOMAIN user # {} => EnabledSuperAdmins # {}
OfficeInv == RowsComplete /\ ServedByUsers /\ InOffice

\* A row that only changes its password or its revision stays in office.
LEMMA SameOffice ==
  ASSUME OfficeInv, DOMAIN user' = DOMAIN user,
         \A u \in DOMAIN user : /\ DOMAIN user'[u] = Columns
                                /\ user'[u].role = user[u].role
                                /\ user'[u].enabled = user[u].enabled,
         DOMAIN call' \subseteq DOMAIN call
  PROVE  OfficeInv'
  BY DEF OfficeInv, RowsComplete, ServedByUsers, InOffice, EnabledSuperAdmins

LEMMA PasswordSameOffice ==
  ASSUME OfficeInv, NEW u, NEW password, NewPassword(u, password),
         DOMAIN call' \subseteq DOMAIN call
  PROVE  OfficeInv'
  <1>1. DOMAIN user' = DOMAIN user
    BY DEF NewPassword
  <1>2. ASSUME NEW v \in DOMAIN user
        PROVE  /\ DOMAIN user'[v] = Columns
               /\ user'[v].role = user[v].role
               /\ user'[v].enabled = user[v].enabled
    BY <1>2 DEF NewPassword, OfficeInv, RowsComplete, Columns
  <1> QED
    BY <1>1, <1>2, SameOffice

LEMMA UpdateKeepsOffice ==
  ASSUME OfficeInv, NEW p, NEW u, NEW expected, NEW role, NEW enabled,
         UpdateAdminUser(p, u, expected, role, enabled)
  PROVE  OfficeInv'
  <1>1. /\ u \in DOMAIN user /\ ~LastSuperAdmin(u, role, enabled)
        /\ DOMAIN user' = DOMAIN user
    BY DEF UpdateAdminUser
  <1>2. \A v \in DOMAIN user : v # u => user'[v] = user[v]
    BY DEF UpdateAdminUser
  <1>3. /\ DOMAIN user'[u] = Columns
        /\ user'[u].role = role /\ user'[u].enabled = enabled
    BY <1>1 DEF UpdateAdminUser, OfficeInv, RowsComplete, Columns
  <1>4. RowsComplete'
    BY <1>1, <1>2, <1>3 DEF OfficeInv, RowsComplete
  <1>5. EnabledSuperAdmins' # {}
    <2>1. CASE EnabledSuperAdmins = {u}
      <3>1. role = "super_admin" /\ enabled
        BY <1>1, <2>1 DEF LastSuperAdmin
      <3> QED
        BY <1>1, <1>3, <3>1 DEF EnabledSuperAdmins
    <2>2. CASE EnabledSuperAdmins # {u}
      <3>1. PICK v \in EnabledSuperAdmins : v # u
        BY <1>1, <2>2 DEF OfficeInv, InOffice
      <3>2. v \in DOMAIN user' /\ user'[v] = user[v]
        BY <1>1, <1>2, <3>1 DEF EnabledSuperAdmins
      <3> QED
        BY <3>1, <3>2 DEF EnabledSuperAdmins
    <2> QED
      BY <2>1, <2>2
  <1> QED
    BY <1>1, <1>4, <1>5 DEF OfficeInv, InOffice, ServedByUsers

LEMMA CreateKeepsOffice ==
  ASSUME OfficeInv, NEW p, NEW u, NEW role, NEW password,
         CreateAdminUser(p, u, role, password)
  PROVE  OfficeInv'
  <1>1. /\ p \in DOMAIN call /\ u \notin DOMAIN user
        /\ user' = Put(user, u, NewUser(role, password))
    BY DEF CreateAdminUser, Manages, Ready
  <1>2. \A v \in DOMAIN user : v \in DOMAIN user' /\ user'[v] = user[v]
    BY <1>1 DEF Put
  <1>3. RowsComplete'
    BY <1>1 DEF OfficeInv, RowsComplete, Put, NewUser, Columns
  <1>4. EnabledSuperAdmins' # {}
    <2>1. PICK v \in EnabledSuperAdmins : TRUE
      BY <1>1 DEF OfficeInv, InOffice, ServedByUsers
    <2> QED
      BY <1>2, <2>1 DEF EnabledSuperAdmins
  <1> QED
    BY <1>3, <1>4 DEF OfficeInv, InOffice, ServedByUsers, EnabledSuperAdmins

LEMMA BootstrapKeepsOffice ==
  ASSUME OfficeInv, NEW u, NEW password, CreateFirstSuperAdmin(u, password)
  PROVE  OfficeInv'
  <1>1. user' = Put(user, u, NewUser("super_admin", password)) /\ DOMAIN user = {}
    BY DEF CreateFirstSuperAdmin
  <1>2. DOMAIN user' = {u} /\ user'[u] = NewUser("super_admin", password)
    BY <1>1 DEF Put
  <1>3. u \in EnabledSuperAdmins' /\ DOMAIN user'[u] = Columns
    BY <1>2 DEF EnabledSuperAdmins, NewUser, Columns
  <1> QED
    BY <1>2, <1>3 DEF OfficeInv, RowsComplete, InOffice, ServedByUsers

\* Whoever is authenticated is a user.
LEMMA ArrivalKeepsOffice ==
  ASSUME OfficeInv, UNCHANGED user, NEW u, Enabled(u)
  PROVE  OfficeInv'
  BY DEF OfficeInv, RowsComplete, InOffice, ServedByUsers, EnabledSuperAdmins, Enabled

LEMMA CommitLoginKeepsOffice ==
  ASSUME OfficeInv, NEW p, NEW s, CommitLogin(p, s)
  PROVE  OfficeInv'
  <1>1. DOMAIN call' \subseteq DOMAIN call
    BY DEF CommitLogin, Done, Without
  <1>2. CASE user' = user
    BY <1>1, <1>2, SameOffice DEF OfficeInv, RowsComplete
  <1>3. CASE user' = [user EXCEPT ![call[p].user].password = call[p].password,
                                  ![call[p].user].revision = @ + 1]
    BY <1>1, <1>3, PasswordSameOffice DEF NewPassword
  <1> QED
    BY <1>2, <1>3 DEF CommitLogin

LEMMA OfficeStep == OfficeInv /\ [Next]_vars => OfficeInv'
  <1> SUFFICES ASSUME OfficeInv, [Next]_vars PROVE OfficeInv'
    OBVIOUS
  <1>1. ASSUME UNCHANGED user, DOMAIN call' \subseteq DOMAIN call PROVE OfficeInv'
    BY <1>1, SameOffice DEF OfficeInv, RowsComplete
  <1>2. CASE UNCHANGED vars
    BY <1>1, <1>2 DEF vars, tables
  <1>3. ASSUME NEW p \in Calls, SessionStep(p) PROVE OfficeInv'
    <2>1. CASE \E s \in Sessions : Authenticate(p, s) \/ AuthenticateForRotation(p, s)
      BY <2>1, ArrivalKeepsOffice DEF Authenticate, AuthenticateForRotation, Valid, Rotatable, tables
    <2>2. CASE TouchSessionIfStale(p) \/ Fail(p) \/ VerifyPassword(p) \/ RevokeCurrentSession(p)
      BY <1>1, <2>2 DEF TouchSessionIfStale, Fail, VerifyPassword, RevokeCurrentSession,
                        Become, Done, Without, tables
    <2>3. CASE \E u \in Users, password \in Passwords, prior \in DOMAIN session \cup {NotReplaced} :
                   \E upgrade \in BOOLEAN : Login(p, u, password, prior, upgrade)
      BY <2>3, ArrivalKeepsOffice DEF Login, tables
    <2>4. CASE \E s \in Sessions : CommitLogin(p, s)
      BY <2>4, CommitLoginKeepsOffice
    <2>5. CASE \E k \in Keys, current, new \in Passwords : ChangePassword(p, k, current, new)
      BY <1>1, <2>5 DEF ChangePassword, Done, Without, tables
    <2>6. CASE \E s \in Sessions : CommitPasswordChange(p, s)
      <3>1. DOMAIN call' \subseteq DOMAIN call
        BY <2>6 DEF CommitPasswordChange, Done, Without
      <3>2. UNCHANGED user \/ \E u, password : NewPassword(u, password)
        BY <2>6 DEF CommitPasswordChange, tables
      <3> QED
        BY <1>1, <3>1, <3>2, PasswordSameOffice
    <2> QED
      BY <1>3, <2>1, <2>2, <2>3, <2>4, <2>5, <2>6 DEF SessionStep
  <1>4. ASSUME NEW p \in Calls, AdminStep(p) PROVE OfficeInv'
    <2>1. CASE \E u \in Users, role \in Roles, password \in Passwords :
                   CreateAdminUser(p, u, role, password)
      BY <2>1, CreateKeepsOffice
    <2>2. CASE \E u \in Users, expected \in 1..MaxRevision, role \in Roles, enabled \in BOOLEAN :
                   UpdateAdminUser(p, u, expected, role, enabled)
      BY <2>2, UpdateKeepsOffice
    <2>3. CASE \E k \in Keys, u \in Users, expected \in 1..MaxRevision, password \in Passwords :
                   ResetAdminUserPassword(p, k, u, expected, password)
      <3>1. DOMAIN call' \subseteq DOMAIN call
        BY <2>3 DEF ResetAdminUserPassword, Done, Without
      <3>2. UNCHANGED user \/ \E u, password : NewPassword(u, password)
        BY <2>3 DEF ResetAdminUserPassword, tables
      <3> QED
        BY <1>1, <3>1, <3>2, PasswordSameOffice
    <2>4. CASE \/ \E k \in Keys, u \in Users : RevokeAdminUserSessions(p, k, u)
               \/ \E k \in Keys, s \in Sessions : RevokeAdminSession(p, k, s)
               \/ ListAdminSessions(p)
      BY <1>1, <2>4 DEF RevokeAdminUserSessions, RevokeAdminSession, ListAdminSessions, Done, Without
    <2> QED
      BY <1>4, <2>1, <2>2, <2>3, <2>4 DEF AdminStep
  <1>5. CASE \E u \in Users, password \in Passwords : CreateFirstSuperAdmin(u, password)
    BY <1>5, BootstrapKeepsOffice
  <1>6. CASE (\E k \in DOMAIN key : ExpireKey(k)) \/ Tick
    BY <1>1, <1>6 DEF ExpireKey, Tick, tables
  <1> QED
    BY <1>2, <1>3, <1>4, <1>5, <1>6 DEF Next

\* Whatever administrators do to each other, and whatever requests are still in
\* service, some super admin stays enabled once there is a user.
THEOREM SuperAdminRemains == Spec => []SomeSuperAdmin
  <1>1. Init => OfficeInv
    BY DEF Init, Empty, OfficeInv, RowsComplete, ServedByUsers, InOffice
  <1>2. OfficeInv => SomeSuperAdmin
    BY DEF OfficeInv, InOffice, SomeSuperAdmin
  <1> QED
    BY <1>1, <1>2, OfficeStep, PTL DEF Spec

-----------------------------------------------------------------------------
(* What has ended is final.                                                 *)

\* Put of a new key leaves the rows alone that are there.
LEMMA PutNew ==
  ASSUME NEW f, NEW x, NEW y, x \notin DOMAIN f, NEW z \in DOMAIN f
  PROVE  z \in DOMAIN Put(f, x, y) /\ Put(f, x, y)[z] = f[z]
  BY DEF Put

\* What a step may do to the rows of sessions: add rows, and change active ones.
EndedKept ==
    \A s \in DOMAIN session : ~Active(s) => s \in DOMAIN session' /\ session'[s] = session[s]

LEMMA UnchangedKept == UNCHANGED session => EndedKept
  BY DEF EndedKept

LEMMA RevokeAllKept ==
  ASSUME NEW u, session' = RevokeAll(u)
  PROVE  EndedKept
  BY DEF RevokeAll, ActiveOf, EndedKept, Active

\* A new row, and active ones replaced by it.
LEMMA ReplacedKept ==
  ASSUME NEW s, NextSession(s), NEW row, NEW ended,
         \A t \in ended : Active(t),
         session' = Put([t \in DOMAIN session |->
                            IF t \in ended THEN ReplacedBy(session[t], s) ELSE session[t]], s, row)
  PROVE  EndedKept
  <1> DEFINE rows == [t \in DOMAIN session |->
                         IF t \in ended THEN ReplacedBy(session[t], s) ELSE session[t]]
  <1>1. DOMAIN rows = DOMAIN session /\ s \notin DOMAIN rows
    BY DEF NextSession
  <1> SUFFICES ASSUME NEW t \in DOMAIN session, ~Active(t)
               PROVE  t \in DOMAIN session' /\ session'[t] = session[t]
    BY DEF EndedKept
  <1>2. t \in DOMAIN Put(rows, s, row) /\ Put(rows, s, row)[t] = rows[t]
    BY <1>1, PutNew
  <1> QED
    BY <1>2

LEMMA SessionStepKept ==
  ASSUME NEW p \in Calls, SessionStep(p)
  PROVE  EndedKept
  <1>1. CASE \E s \in Sessions : Authenticate(p, s) \/ AuthenticateForRotation(p, s)
    BY <1>1, UnchangedKept DEF Authenticate, AuthenticateForRotation, tables
  <1>2. CASE \E s \in Sessions : CommitLogin(p, s)
    <2>1. PICK s \in Sessions : CommitLogin(p, s)
      BY <1>2
    <2>2. \A t \in Prior(call[p]) : Active(t)
      BY DEF Prior
    <2> QED
      BY <2>1, <2>2, ReplacedKept DEF CommitLogin
  <1>3. CASE \E s \in Sessions : CommitPasswordChange(p, s)
    <2>1. PICK s \in Sessions : CommitPasswordChange(p, s)
      BY <1>3
    <2>2. CASE UNCHANGED tables
      BY <2>2, UnchangedKept DEF tables
    <2>3. CASE NextSession(s) /\ \E u, row : session' = ReplaceAll(u, s, row)
      <3>1. PICK u, row : session' = ReplaceAll(u, s, row)
        BY <2>3
      <3>2. \A t \in ActiveOf(u) : Active(t)
        BY DEF ActiveOf, Active
      <3> QED
        BY <2>3, <3>1, <3>2, ReplacedKept DEF ReplaceAll
    <2> QED
      BY <2>1, <2>2, <2>3 DEF CommitPasswordChange
  <1>4. CASE TouchSessionIfStale(p)
    BY <1>4 DEF TouchSessionIfStale, MayTouch, EndedKept
  <1>5. CASE RevokeCurrentSession(p)
    BY <1>5 DEF RevokeCurrentSession, EndedKept
  <1>6. CASE \/ Fail(p) \/ VerifyPassword(p)
             \/ \E k \in Keys, current, new \in Passwords : ChangePassword(p, k, current, new)
             \/ \E u \in Users, password \in Passwords, prior \in DOMAIN session \cup {NotReplaced} :
                    \E upgrade \in BOOLEAN : Login(p, u, password, prior, upgrade)
    BY <1>6, UnchangedKept DEF Fail, VerifyPassword, ChangePassword, Login, tables
  <1> QED
    BY <1>1, <1>2, <1>3, <1>4, <1>5, <1>6 DEF SessionStep

LEMMA AdminStepKept ==
  ASSUME NEW p \in Calls, AdminStep(p)
  PROVE  EndedKept
  <1>1. CASE \E k \in Keys, u \in Users, expected \in 1..MaxRevision, password \in Passwords :
                 ResetAdminUserPassword(p, k, u, expected, password)
    BY <1>1, UnchangedKept, RevokeAllKept DEF ResetAdminUserPassword, tables
  <1>2. CASE \E k \in Keys, u \in Users : RevokeAdminUserSessions(p, k, u)
    BY <1>2, UnchangedKept, RevokeAllKept DEF RevokeAdminUserSessions
  <1>3. CASE \E k \in Keys, s \in Sessions : RevokeAdminSession(p, k, s)
    BY <1>3 DEF RevokeAdminSession, EndedKept
  <1>4. CASE ListAdminSessions(p)
    <2>1. \A s \in DOMAIN session : Over(session[s]) => Active(s)
      BY DEF Over, Active
    <2> DEFINE expired(s) == [session[s] EXCEPT !.status = "expired"]
    <2>2. session' = [s \in DOMAIN session |-> IF Over(session[s]) THEN expired(s) ELSE session[s]]
      BY <1>4 DEF ListAdminSessions
    <2> HIDE DEF expired
    <2> QED
      BY <2>1, <2>2 DEF EndedKept
  <1>5. CASE \/ \E u \in Users, role \in Roles, password \in Passwords :
                    CreateAdminUser(p, u, role, password)
             \/ \E u \in Users, expected \in 1..MaxRevision, role \in Roles, enabled \in BOOLEAN :
                    UpdateAdminUser(p, u, expected, role, enabled)
    BY <1>5, UnchangedKept DEF CreateAdminUser, UpdateAdminUser
  <1> QED
    BY <1>1, <1>2, <1>3, <1>4, <1>5 DEF AdminStep

\* A session that was revoked or has expired never changes again, whatever the
\* requests it was still authenticated for do.
THEOREM EndedStaysEnded == Spec => EndedIsFinal
  <1>1. [Next]_vars => EndedKept
    <2> SUFFICES ASSUME [Next]_vars PROVE EndedKept
      OBVIOUS
    <2>1. CASE UNCHANGED vars
      BY <2>1, UnchangedKept DEF vars, tables
    <2>2. CASE \E u \in Users, password \in Passwords : CreateFirstSuperAdmin(u, password)
      BY <2>2, UnchangedKept DEF CreateFirstSuperAdmin
    <2>3. CASE (\E k \in DOMAIN key : ExpireKey(k)) \/ Tick
      BY <2>3, UnchangedKept DEF ExpireKey, Tick, tables
    <2> QED
      BY <2>1, <2>2, <2>3, SessionStepKept, AdminStepKept DEF Next
  <1>2. [Next]_vars => [\A s \in DOMAIN session : ~Active(s) => session'[s] = session[s]]_vars
    BY <1>1 DEF EndedKept
  <1> QED
    BY <1>2, PTL DEF Spec, EndedIsFinal

-----------------------------------------------------------------------------
(* The invariant.                                                            *)

UsersOK == DOMAIN user \subseteq Users /\ \A u \in DOMAIN user : user[u] \in Row

SessionsOK ==
    /\ DOMAIN session \subseteq Sessions
    /\ \A s \in DOMAIN session : /\ session[s] \in SessionRow /\ session[s].user \in DOMAIN user
                                 /\ session[s].expires <= session[s].absolute

\* What a request in service has read, and how it relates to the tables now.
GoodCall(c) ==
    /\ c \in Served
    /\ c.stage = "login" => c.user \in DOMAIN user
    /\ c.stage # "login" => c.session \in DOMAIN session
    /\ c.stage \in {"verify", "commit"} =>
         c.request.session = c.session /\ session[c.session].user = c.request.actor
    /\ c.stage = "commit" =>
         /\ c.request.actor \in DOMAIN user
         /\ c.revision <= user[c.request.actor].revision
         /\ user[c.request.actor].revision = c.revision =>
              user[c.request.actor].password = c.request.current

CallsOK == DOMAIN call \subseteq Calls /\ \A p \in DOMAIN call : GoodCall(call[p])

\* What the answer to a repeated change is made of.
Fetched(r, s) ==
    /\ r.session \in DOMAIN session /\ session[r.session].user = r.actor
    /\ session[r.session].status = "revoked" /\ session[r.session].replaced # NotReplaced
    /\ s \in DOMAIN session /\ session[s].user = r.actor

GoodKey(k, row) ==
    /\ row.request \in Requests /\ KeyOf(row.request) = k
    /\ row.result \in DOMAIN session \cup {NotReplaced}
    /\ row.request.op = "change" => Fetched(row.request, row.result)

KeysOK == \A k \in DOMAIN key : GoodKey(k, key[k])

\* Why a change or a reset that was done is not done again.
Finished(r) ==
    /\ r.op = "change" => r.session \in DOMAIN session /\ ~Active(r.session)
    /\ r.op = "reset" => r.target \in DOMAIN user /\ user[r.target].revision > r.expected

HistoryOK ==
    /\ clock \in 0..MaxTime /\ era \in [Users -> Nat]
    /\ DOMAIN applied \subseteq Requests
    /\ \A r \in DOMAIN applied : applied[r] \in Nat /\ Finished(r)

Inv ==
    /\ UsersOK /\ SessionsOK /\ ReplacementsAscend /\ NoSessionOutlivesItsPassword
    /\ CallsOK /\ KeysOK /\ HistoryOK

-----------------------------------------------------------------------------
(* What no step does to the tables.                                          *)

UsersKept ==
    \A u \in DOMAIN user :
        /\ u \in DOMAIN user' /\ user[u].revision <= user'[u].revision
        /\ user'[u].revision = user[u].revision => user'[u].password = user[u].password

SessionsKept ==
    \A s \in DOMAIN session :
        /\ s \in DOMAIN session' /\ session'[s].user = session[s].user
        /\ ~Active(s) => session'[s] = session[s]

LEMMA CallKept ==
    ASSUME UsersOK, UsersOK', UsersKept, SessionsKept, NEW c, GoodCall(c)
    PROVE  GoodCall(c)'
<1>1. CASE c.stage = "commit"
    <2>1. /\ c \in [stage : {"commit"}, session : Sessions, request : ChangeRequests,
                    revision : Nat, at : Nat]
          /\ c.session \in DOMAIN session
        BY <1>1 DEF GoodCall, Served
    <2> DEFINE u == c.request.actor
    <2>2. /\ u \in DOMAIN user /\ c.revision <= user[u].revision
          /\ user[u].revision = c.revision => user[u].password = c.request.current
        BY <1>1 DEF GoodCall
    <2>3. /\ u \in DOMAIN user' /\ user[u].revision <= user'[u].revision
          /\ user'[u].revision = user[u].revision => user'[u].password = user[u].password
        BY <2>2 DEF UsersKept
    <2>4. user[u].revision \in Nat /\ user'[u].revision \in Nat /\ c.revision \in Nat
        BY <2>1, <2>2, <2>3 DEF UsersOK, Row
    <2>5. c.revision <= user'[u].revision
        BY <2>2, <2>3, <2>4
    <2>6. user'[u].revision = c.revision => user'[u].password = c.request.current
        BY <2>2, <2>3, <2>4
    <2> QED BY <1>1, <2>1, <2>3, <2>5, <2>6 DEF GoodCall, SessionsKept
<1>2. CASE c.stage # "commit"
    BY <1>2 DEF GoodCall, UsersKept, SessionsKept
<1> QED BY <1>1, <1>2

LEMMA KeyKept ==
    ASSUME SessionsKept, NEW k, NEW row, GoodKey(k, row)
    PROVE  GoodKey(k, row)'
BY DEF GoodKey, Fetched, SessionsKept, Active

LEMMA FinishedKept ==
    ASSUME UsersOK, UsersOK', UsersKept, SessionsKept, NEW r \in Requests, Finished(r)
    PROVE  Finished(r)'
<1>1. CASE r.op = "reset"
    <2>1. r \in ResetRequests
        BY <1>1 DEF Requests, ChangeRequests, RevokeUserRequests, RevokeSessionRequests
    <2>2. r.expected \in Nat /\ r.target \in DOMAIN user /\ user[r.target].revision > r.expected
        BY <1>1, <2>1 DEF ResetRequests, Finished
    <2>3. r.target \in DOMAIN user' /\ user[r.target].revision <= user'[r.target].revision
        BY <2>2 DEF UsersKept
    <2>4. user[r.target].revision \in Nat /\ user'[r.target].revision \in Nat
        BY <2>2, <2>3 DEF UsersOK, Row
    <2>5. user'[r.target].revision > r.expected
        BY <2>2, <2>3, <2>4
    <2> QED BY <1>1, <2>3, <2>5 DEF Finished
<1>2. CASE r.op # "reset"
    BY <1>2 DEF Finished, SessionsKept, Active
<1> QED BY <1>1, <1>2

-----------------------------------------------------------------------------
(* The deepest session of a user: there is one, since the sets of sessions   *)
(* at least as deep as one of them are well-founded under inclusion.         *)

LEMMA GreatestValue ==
    ASSUME NEW S, IsFiniteSet(S), S # {}, NEW f \in [S -> Nat]
    PROVE  \E x \in S : \A y \in S : f[y] <= f[x]
<1> DEFINE Above(x) == {y \in S : f[x] <= f[y]}
           Up == {Above(x) : x \in S}
<1>1. Up \subseteq FiniteSubsetsOf(S) /\ Up # {}
    <2>1. FiniteSubsetsOf(S) = SUBSET S
        BY FS_FiniteSubsetsOfFinite
    <2>2. \A x \in S : Above(x) \in SUBSET S
        OBVIOUS
    <2> HIDE DEF Above
    <2> QED BY <2>1, <2>2
<1>2. PICK I \in Up : \A J \in Up : <<J, I>> \notin StrictSubsetOrdering(S)
    <2>1. IsWellFoundedOn(StrictSubsetOrdering(S), FiniteSubsetsOf(S))
        BY FS_StrictSubsetOrderingWellFounded
    <2> HIDE DEF Up
    <2> QED BY <1>1, <2>1, WFMin, Zenon
<1>3. PICK x \in S : I = Above(x)
    OBVIOUS
<1>4. ASSUME NEW y \in S, ~(f[y] <= f[x]) PROVE FALSE
    <2>1. f[x] \in Nat /\ f[y] \in Nat /\ f[x] < f[y]
        BY <1>4
    <2>2. Above(y) \subseteq Above(x)
        <3> SUFFICES ASSUME NEW z \in S, f[y] <= f[z] PROVE f[x] <= f[z]
            OBVIOUS
        <3>1. f[z] \in Nat
            OBVIOUS
        <3> QED BY <2>1, <3>1
    <2>3. x \in Above(x) /\ x \notin Above(y)
        BY <2>1
    <2>4. Above(y) \in SUBSET S /\ Above(x) \in SUBSET S /\ Above(y) \in Up
        OBVIOUS
    <2> HIDE DEF Above, Up
    <2> QED BY <1>2, <1>3, <2>2, <2>3, <2>4 DEF StrictSubsetOrdering
<1> QED BY <1>4

LEMMA MaxDepthIs ==
    ASSUME SessionsOK, NEW u
    PROVE  /\ MaxDepth(u) \in Nat
           /\ \A t \in DOMAIN session : session[t].user = u => session[t].depth <= MaxDepth(u)
<1> DEFINE own == {t \in DOMAIN session : session[t].user = u}
           depths == {0} \cup {session[s].depth : s \in own}
           f == [s \in own |-> session[s].depth]
<1>1. \A s \in DOMAIN session : session[s].depth \in Nat
    BY DEF SessionsOK, SessionRow
<1>2. \E d \in depths : \A e \in depths : e <= d
    <2>1. CASE own = {}
        BY <2>1
    <2>2. CASE own # {}
        <3>1. IsFiniteSet(own)
            BY ConstantsAssumption, FS_Subset DEF SessionsOK
        <3>2. f \in [own -> Nat]
            BY <1>1
        <3>3. PICK x \in own : \A y \in own : f[y] <= f[x]
            <4> HIDE DEF f, own
            <4> QED BY <2>2, <3>1, <3>2, GreatestValue
        <3>4. session[x].depth \in depths /\ session[x].depth \in Nat
            BY <1>1
        <3>5. \A y \in own : session[y].depth <= session[x].depth
            BY <3>3
        <3>6. \A e \in depths : e <= session[x].depth
            <4> HIDE DEF own, f
            <4> QED BY <3>4, <3>5
        <3> QED BY <3>4, <3>6
    <2> QED BY <2>1, <2>2
<1>3. MaxDepth(u) \in depths /\ \A e \in depths : e <= MaxDepth(u)
    <2>1. MaxDepth(u) = CHOOSE d \in depths : \A e \in depths : e <= d
        BY DEF MaxDepth
    <2> HIDE DEF depths
    <2> QED BY <1>2, <2>1
<1>4. depths \subseteq Nat
    BY <1>1
<1> QED BY <1>3, <1>4

-----------------------------------------------------------------------------
(* What the transactions do to the rows of users ...                         *)

LEMMA NewPasswordKept ==
    ASSUME UsersOK, NEW u \in DOMAIN user, NEW password \in Passwords, NewPassword(u, password)
    PROVE  /\ UsersOK' /\ UsersKept /\ DOMAIN user' = DOMAIN user
           /\ user'[u].revision = user[u].revision + 1
<1> DEFINE old == user[u]
           known == [old EXCEPT !.password = password]
           row == [known EXCEPT !.revision = old.revision + 1]
<1>1. /\ \A v \in DOMAIN user : user[v] \in Row /\ user[v].revision \in Nat
    BY DEF UsersOK, Row
<1>2. /\ DOMAIN user' = DOMAIN user /\ user'[u] = row
      /\ \A v \in DOMAIN user \ {u} : user'[v] = user[v]
    BY <1>1 DEF NewPassword, Row
<1>3. row \in Row /\ row.revision = user[u].revision + 1
    <2>1. old \in Row /\ old.revision \in Nat
        BY <1>1
    <2> HIDE DEF old
    <2>2. known \in Row /\ known.revision = old.revision
        BY <2>1 DEF Row
    <2> HIDE DEF known
    <2>3. row \in Row /\ row.revision = old.revision + 1
        BY <2>1, <2>2 DEF Row
    <2> QED BY <2>3 DEF old
<1> HIDE DEF row
<1>4. UsersOK'
    BY <1>2, <1>3 DEF UsersOK
<1>5. UsersKept
    BY <1>1, <1>2, <1>3 DEF UsersKept
<1> QED BY <1>2, <1>3, <1>4, <1>5

LEMMA NewUserKept ==
    ASSUME UsersOK, NEW u \in Users \ DOMAIN user, NEW role \in Roles, NEW password \in Passwords,
           user' = Put(user, u, NewUser(role, password))
    PROVE  UsersOK' /\ UsersKept
<1>1. NewUser(role, password) \in Row
    BY DEF NewUser, Row
<1>2. /\ DOMAIN user' = DOMAIN user \cup {u} /\ user'[u] = NewUser(role, password)
      /\ \A v \in DOMAIN user : user'[v] = user[v]
    BY DEF Put
<1>3. \A v \in DOMAIN user : user[v].revision \in Nat
    BY DEF UsersOK, Row
<1> QED BY <1>1, <1>2, <1>3 DEF UsersOK, UsersKept

LEMMA EditedKept ==
    ASSUME UsersOK, NEW u \in DOMAIN user, NEW role \in Roles, NEW enabled \in BOOLEAN,
           user' = [user EXCEPT ![u].role = role, ![u].enabled = enabled, ![u].revision = @ + 1]
    PROVE  UsersOK' /\ UsersKept
<1> DEFINE row == [user[u] EXCEPT !.role = role, !.enabled = enabled, !.revision = @ + 1]
<1>1. /\ \A v \in DOMAIN user : user[v] \in Row /\ user[v].revision \in Nat
    BY DEF UsersOK, Row
<1>2. row \in Row /\ row.revision = user[u].revision + 1
    BY <1>1 DEF Row
<1>3. /\ DOMAIN user' = DOMAIN user /\ user'[u] = row
      /\ \A v \in DOMAIN user \ {u} : user'[v] = user[v]
    OBVIOUS
<1> HIDE DEF row
<1> QED BY <1>1, <1>2, <1>3 DEF UsersOK, UsersKept

LEMMA UsersStay ==
    ASSUME UsersOK, UNCHANGED user
    PROVE  UsersOK' /\ UsersKept
<1>1. \A u \in DOMAIN user : user[u].revision \in Nat
    BY DEF UsersOK, Row
<1> QED BY <1>1 DEF UsersOK, UsersKept

-----------------------------------------------------------------------------
(* ... and of sessions.                                                      *)

SessionsStillOK ==
    SessionsKept /\ SessionsOK' /\ ReplacementsAscend' /\ NoSessionOutlivesItsPassword'

\* Rows are ended or touched, each by itself.
LEMMA ModestRows ==
    ASSUME Inv, UsersKept, DOMAIN session' = DOMAIN session,
           \A s \in DOMAIN session :
               \/ session'[s] = session[s]
               \/ /\ Active(s) /\ session'[s] \in SessionRow
                  /\ session'[s].user = session[s].user /\ session'[s].depth = session[s].depth
                  /\ session'[s].replaced = session[s].replaced
                  /\ session'[s].era = session[s].era
                  /\ session'[s].expires <= session'[s].absolute,
           \A s \in DOMAIN session :
               session'[s].status = "active" => era'[session[s].user] = era[session[s].user]
    PROVE  SessionsStillOK
<1>1. SessionsOK /\ ReplacementsAscend /\ NoSessionOutlivesItsPassword
    BY DEF Inv
<1>2. \A s \in DOMAIN session : /\ session'[s].user = session[s].user
                                /\ session'[s].depth = session[s].depth
                                /\ session'[s].era = session[s].era
                                /\ session'[s].replaced = session[s].replaced
                                /\ ~Active(s) => session'[s] = session[s]
                                /\ session'[s].status = "active" => Active(s)
    BY DEF Active
<1>3. SessionsKept
    BY <1>2 DEF SessionsKept
<1>4. SessionsOK'
    BY <1>1, <1>2 DEF SessionsOK, UsersKept
<1>5. ReplacementsAscend'
    <2> SUFFICES ASSUME NEW s \in DOMAIN session, session'[s].replaced # NotReplaced
                 PROVE  /\ session'[s].status = "revoked"
                        /\ session'[s].replaced \in DOMAIN session
                        /\ session'[session'[s].replaced].user = session'[s].user
                        /\ session'[session'[s].replaced].depth > session'[s].depth
        BY DEF ReplacementsAscend
    <2>1. /\ session[s].replaced # NotReplaced /\ session[s].status = "revoked"
          /\ session[s].replaced \in DOMAIN session
          /\ session[session[s].replaced].user = session[s].user
          /\ session[session[s].replaced].depth > session[s].depth
        BY <1>1, <1>2 DEF ReplacementsAscend
    <2>2. session'[s] = session[s]
        BY <1>2, <2>1 DEF Active
    <2> QED BY <1>2, <2>1, <2>2
<1>6. NoSessionOutlivesItsPassword'
    BY <1>1, <1>2 DEF NoSessionOutlivesItsPassword, Active
<1> QED BY <1>3, <1>4, <1>5, <1>6 DEF SessionsStillOK

LEMMA SessionsStay ==
    ASSUME Inv, UsersKept, UNCHANGED <<session, era>>
    PROVE  SessionsStillOK
BY ModestRows

LEMMA RevokedRow ==
    ASSUME NEW row \in SessionRow, row.expires <= row.absolute
    PROVE  /\ Revoked(row) \in SessionRow /\ Revoked(row).status = "revoked"
           /\ Revoked(row).user = row.user /\ Revoked(row).depth = row.depth
           /\ Revoked(row).replaced = row.replaced /\ Revoked(row).era = row.era
           /\ Revoked(row).expires <= Revoked(row).absolute
BY DEF Revoked, SessionRow

\* All active sessions of a user are revoked, and nobody else's era changes.
LEMMA RevokeAllRows ==
    ASSUME Inv, UsersKept, NEW u, session' = RevokeAll(u), \A v \in Users \ {u} : era'[v] = era[v]
    PROVE  SessionsStillOK
<1>1. \A s \in DOMAIN session : session[s] \in SessionRow
                                /\ session[s].expires <= session[s].absolute /\ session[s].user \in Users
    BY DEF Inv, SessionsOK, UsersOK
<1>2. DOMAIN session' = DOMAIN session
    BY DEF RevokeAll
<1>3. ASSUME NEW s \in DOMAIN session, session[s].user = u, Active(s)
      PROVE  session'[s] = Revoked(session[s])
    BY <1>3 DEF RevokeAll, ActiveOf, Active
<1>4. ASSUME NEW s \in DOMAIN session, ~(session[s].user = u /\ Active(s))
      PROVE  session'[s] = session[s]
    BY <1>4 DEF RevokeAll, ActiveOf, Active
<1>5. ASSUME NEW s \in DOMAIN session, session'[s].status = "active"
      PROVE  era'[session[s].user] = era[session[s].user]
    BY <1>1, <1>3, <1>4, <1>5, RevokedRow DEF Active
<1> QED BY <1>1, <1>2, <1>3, <1>4, <1>5, RevokedRow, ModestRows

\* A new session replaces some active ones of its user.
LEMMA ReplacedRows ==
    ASSUME Inv, UsersKept, NEW s, NextSession(s), NEW row \in SessionRow,
           row.status = "active", row.replaced = NotReplaced, row.expires <= row.absolute,
           row.user \in DOMAIN user', row.era = era'[row.user],
           NEW ended \in SUBSET DOMAIN session,
           \A t \in ended : /\ Active(t) /\ session[t].user = row.user
                            /\ session[t].depth < row.depth,
           \A t \in DOMAIN session \ ended :
               session[t].status = "active" => era'[session[t].user] = era[session[t].user],
           session' = Put([t \in DOMAIN session |->
                             IF t \in ended THEN ReplacedBy(session[t], s) ELSE session[t]], s, row)
    PROVE  /\ SessionsStillOK /\ s \in DOMAIN session' /\ session'[s] = row
           /\ \A t \in ended : session'[t].status = "revoked" /\ session'[t].replaced = s
           /\ s \in Sessions /\ s # NotReplaced
<1>1. SessionsOK /\ ReplacementsAscend /\ NoSessionOutlivesItsPassword
    BY DEF Inv
<1>2. s \in Sessions /\ s \notin DOMAIN session /\ s # NotReplaced
    BY ConstantsAssumption DEF NextSession, NotReplaced
<1>3. /\ DOMAIN session' = DOMAIN session \cup {s} /\ session'[s] = row
      /\ \A t \in DOMAIN session \ ended : session'[t] = session[t]
      /\ \A t \in ended : session'[t] = ReplacedBy(session[t], s)
    BY <1>2 DEF Put
<1>4. ASSUME NEW t \in ended
      PROVE  /\ session'[t] \in SessionRow /\ session'[t].status = "revoked"
             /\ session'[t].replaced = s /\ session'[t].user = session[t].user
             /\ session'[t].depth = session[t].depth /\ session'[t].expires <= session'[t].absolute
    <2>1. session[t] \in SessionRow /\ session[t].expires <= session[t].absolute
        BY <1>1 DEF SessionsOK
    <2> DEFINE old == session[t]
               over == [old EXCEPT !.status = "revoked"]
               next == [over EXCEPT !.replaced = s]
    <2>2. session'[t] = next
        BY <1>3, <2>1 DEF ReplacedBy, SessionRow
    <2>3. old \in SessionRow /\ old.expires <= old.absolute
        BY <2>1
    <2> HIDE DEF old
    <2>4. /\ over \in SessionRow /\ over.status = "revoked" /\ over.user = old.user
          /\ over.depth = old.depth /\ over.expires = old.expires /\ over.absolute = old.absolute
        BY <2>3 DEF SessionRow
    <2> HIDE DEF over
    <2>5. /\ next \in SessionRow /\ next.status = "revoked" /\ next.replaced = s
          /\ next.user = old.user /\ next.depth = old.depth
          /\ next.expires = old.expires /\ next.absolute = old.absolute
        BY <1>2, <2>4 DEF SessionRow
    <2> HIDE DEF next
    <2> QED BY <2>2, <2>3, <2>5 DEF old
<1>5. \A t \in DOMAIN session : session'[t].user = session[t].user /\ session'[t].depth = session[t].depth
    BY <1>3, <1>4
<1>6. SessionsKept
    BY <1>3, <1>5 DEF SessionsKept
<1>7. SessionsOK'
    BY <1>1, <1>2, <1>3, <1>4 DEF SessionsOK, UsersKept
<1>8. ReplacementsAscend'
    <2> SUFFICES ASSUME NEW t \in DOMAIN session', session'[t].replaced # NotReplaced
                 PROVE  /\ session'[t].status = "revoked"
                        /\ session'[t].replaced \in DOMAIN session'
                        /\ session'[session'[t].replaced].user = session'[t].user
                        /\ session'[session'[t].replaced].depth > session'[t].depth
        BY DEF ReplacementsAscend
    <2>1. CASE t = s
        BY <1>3, <2>1
    <2>2. CASE t \in ended
        <3>1. session[t].depth \in Nat /\ row.depth \in Nat
            BY <1>1, <2>2 DEF SessionsOK, SessionRow
        <3>2. /\ session'[t].replaced = s /\ session'[t].depth = session[t].depth
              /\ session'[t].user = session[t].user /\ session'[t].status = "revoked"
            BY <1>4, <2>2
        <3>3. session'[s] = row /\ s \in DOMAIN session'
            BY <1>3
        <3> QED BY <2>2, <3>1, <3>2, <3>3
    <2>3. CASE t \in DOMAIN session \ ended
        BY <1>1, <1>3, <1>5, <2>3 DEF ReplacementsAscend
    <2> QED BY <1>3, <2>1, <2>2, <2>3
<1>9. NoSessionOutlivesItsPassword'
    <2> SUFFICES ASSUME NEW t \in DOMAIN session', session'[t].status = "active"
                 PROVE  session'[t].era = era'[session'[t].user]
        BY DEF NoSessionOutlivesItsPassword
    <2>1. CASE t = s
        BY <1>3, <2>1
    <2>2. CASE t \in ended
        BY <1>4, <2>2
    <2>3. CASE t \in DOMAIN session \ ended
        BY <1>1, <1>3, <2>3 DEF NoSessionOutlivesItsPassword
    <2> QED BY <1>3, <2>1, <2>2, <2>3
<1> QED BY <1>2, <1>3, <1>4, <1>6, <1>7, <1>8, <1>9 DEF SessionsStillOK

-----------------------------------------------------------------------------
(* Requests in service, keys and history.                                    *)

\* One request goes on or ends.
LEMMA CallsGo ==
    ASSUME Inv, UsersOK', UsersKept, SessionsKept, NEW p \in Calls,
           DOMAIN call' \subseteq DOMAIN call \cup {p},
           \A q \in DOMAIN call' \ {p} : call'[q] = call[q],
           p \in DOMAIN call' => GoodCall(call[p])'
    PROVE  CallsOK'
<1>1. \A c : GoodCall(c) => GoodCall(c)'
    BY CallKept DEF Inv
<1>2. ASSUME NEW q \in DOMAIN call' PROVE GoodCall(call[q])'
    <2>1. CASE q = p
        BY <2>1
    <2>2. CASE q # p
        <3>1. q \in DOMAIN call /\ call'[q] = call[q]
            BY <2>2
        <3>2. GoodCall(call[q])
            BY <3>1 DEF Inv, CallsOK
        <3> QED BY <1>1, <3>1, <3>2
    <2> QED BY <2>1, <2>2
<1>3. DOMAIN call' \subseteq Calls
    BY DEF Inv, CallsOK
<1> QED BY <1>2, <1>3 DEF CallsOK

LEMMA KeysStay ==
    ASSUME Inv, UsersOK', UsersKept, SessionsKept, DOMAIN key' \subseteq DOMAIN key,
           \A k \in DOMAIN key' : key'[k] = key[k],
           UNCHANGED applied, clock' \in 0..MaxTime, era' \in [Users -> Nat]
    PROVE  KeysOK' /\ HistoryOK'
<1>1. KeysOK'
    BY KeyKept DEF Inv, KeysOK
<1>2. HistoryOK'
    BY FinishedKept DEF Inv, HistoryOK
<1> QED BY <1>1, <1>2

LEMMA KeysComplete ==
    ASSUME Inv, UsersOK', UsersKept, SessionsKept, NEW r \in Requests, NEW s, Complete(r, s),
           GoodKey(KeyOf(r), [request |-> r, result |-> s])', Finished(r)',
           clock' \in 0..MaxTime, era' \in [Users -> Nat]
    PROVE  KeysOK' /\ HistoryOK'
<1>1. /\ DOMAIN key' = DOMAIN key \cup {KeyOf(r)} /\ key'[KeyOf(r)] = [request |-> r, result |-> s]
      /\ \A k \in DOMAIN key \ {KeyOf(r)} : key'[k] = key[k]
    BY DEF Complete, Put
<1>2. KeysOK'
    BY <1>1, KeyKept DEF Inv, KeysOK
<1>3. /\ DOMAIN applied' = DOMAIN applied \cup {r} /\ applied'[r] \in Nat
      /\ \A q \in DOMAIN applied \ {r} : applied'[q] = applied[q]
    BY DEF Inv, HistoryOK, Complete, Put
<1>4. HistoryOK'
    BY <1>3, FinishedKept DEF Inv, HistoryOK
<1> QED BY <1>2, <1>4

-----------------------------------------------------------------------------
(* The actions.                                                              *)

LEMMA Assembled ==
    ASSUME UsersOK', SessionsStillOK, CallsOK', KeysOK', HistoryOK'
    PROVE  Inv'
BY DEF Inv, SessionsStillOK

LEMMA DoneGo ==
    ASSUME Inv, UsersOK', UsersKept, SessionsKept, NEW p \in Calls, Done(p)
    PROVE  CallsOK'
<1>1. /\ DOMAIN call' = DOMAIN call \ {p}
      /\ \A q \in DOMAIN call' : call'[q] = call[q]
    BY DEF Done, Without
<1> QED BY <1>1, CallsGo

\* The request goes on with c, or ends, and the tables stay as they are.
LEMMA CallOnly ==
    ASSUME Inv, UNCHANGED <<clock, tables, era, applied>>, NEW p \in Calls,
           DOMAIN call' \subseteq DOMAIN call \cup {p},
           \A q \in DOMAIN call' \ {p} : call'[q] = call[q],
           p \in DOMAIN call' => GoodCall(call'[p])
    PROVE  Inv'
<1>1. UsersOK' /\ UsersKept
    BY UsersStay DEF Inv, tables
<1>2. SessionsStillOK
    BY <1>1, SessionsStay DEF tables
<1>3. SessionsKept
    BY <1>2 DEF SessionsStillOK
<1>4. CallsOK'
    <2>1. \A c : GoodCall(c) => GoodCall(c)'
        BY <1>1, <1>3, CallKept DEF Inv
    <2>2. p \in DOMAIN call' => GoodCall(call[p])'
        BY <2>1
    <2> QED BY <1>1, <1>3, <2>2, CallsGo
<1>5. KeysOK' /\ HistoryOK'
    BY <1>1, <1>3, KeysStay DEF tables, Inv, HistoryOK
<1> QED BY <1>1, <1>2, <1>4, <1>5, Assembled

LEMMA PutCall ==
    ASSUME NEW p, NEW c, call' = Put(call, p, c)
    PROVE  /\ DOMAIN call' = DOMAIN call \cup {p} /\ call'[p] = c
           /\ \A q \in DOMAIN call' \ {p} : call'[q] = call[q]
BY DEF Put

LEMMA ClockIsNat ==
    ASSUME Inv PROVE clock \in Nat
BY ConstantsAssumption DEF Inv, HistoryOK

LEMMA ArrivedIsGood ==
    ASSUME Inv, NEW s \in DOMAIN session, NEW stage \in {"touch", "ready", "rotating"}
    PROVE  GoodCall(Arrived(s, stage))
<1>1. s \in Sessions /\ clock \in Nat
    BY ClockIsNat DEF Inv, SessionsOK
<1> QED BY <1>1 DEF Arrived, GoodCall, Served

LEMMA AuthenticateKeeps ==
    ASSUME Inv, NEW p \in Calls, NEW s \in Sessions,
           Authenticate(p, s) \/ AuthenticateForRotation(p, s)
    PROVE  Inv'
<1>1. PICK stage \in {"touch", "ready", "rotating"} : call' = Put(call, p, Arrived(s, stage))
    BY DEF Authenticate, AuthenticateForRotation
<1>2. s \in DOMAIN session /\ UNCHANGED <<clock, tables, era, applied>>
    BY DEF Authenticate, AuthenticateForRotation, Valid, Active, Rotatable
<1>3. GoodCall(Arrived(s, stage))
    BY <1>2, ArrivedIsGood
<1>4. /\ DOMAIN call' = DOMAIN call \cup {p} /\ call'[p] = Arrived(s, stage)
      /\ \A q \in DOMAIN call' \ {p} : call'[q] = call[q]
    BY <1>1, PutCall
<1> QED BY <1>2, <1>3, <1>4, CallOnly

LEMMA LoginKeeps ==
    ASSUME Inv, NEW p \in Calls, NEW u \in Users, NEW password \in Passwords,
           NEW prior \in DOMAIN session \cup {NotReplaced}, NEW upgrade \in BOOLEAN,
           Login(p, u, password, prior, upgrade)
    PROVE  Inv'
<1> DEFINE c == [stage |-> "login", user |-> u, password |-> password, prior |-> prior,
                 upgrade |-> upgrade, revision |-> user[u].revision, at |-> clock]
<1>1. UNCHANGED <<clock, tables, era, applied>> /\ u \in DOMAIN user /\ call' = Put(call, p, c)
    BY DEF Login, Enabled
<1>2. clock \in Nat /\ user[u].revision \in Nat /\ prior \in Sessions \cup {NotReplaced}
    BY <1>1, ClockIsNat DEF Inv, UsersOK, Row, SessionsOK
<1>3. GoodCall(c)
    BY <1>1, <1>2 DEF GoodCall, Served
<1> HIDE DEF c
<1>4. /\ DOMAIN call' = DOMAIN call \cup {p} /\ call'[p] = c
      /\ \A q \in DOMAIN call' \ {p} : call'[q] = call[q]
    BY <1>1, PutCall
<1> QED BY <1>1, <1>3, <1>4, CallOnly

LEMMA FailKeeps ==
    ASSUME Inv, NEW p \in Calls, Done(p), UNCHANGED <<clock, tables, era, applied>>
    PROVE  Inv'
<1>1. /\ DOMAIN call' = DOMAIN call \ {p}
      /\ \A q \in DOMAIN call' : call'[q] = call[q]
    BY DEF Done, Without
<1> QED BY <1>1, CallOnly

LEMMA ChangePasswordKeeps ==
    ASSUME Inv, NEW p \in Calls, NEW k \in Keys, NEW current \in Passwords, NEW new \in Passwords,
           ChangePassword(p, k, current, new)
    PROVE  Inv'
<1> DEFINE r == [op |-> "change", actor |-> Actor(p), session |-> call[p].session,
                 key |-> k, current |-> current, new |-> new]
           c == [stage |-> "verify", session |-> r.session, request |-> r, at |-> clock]
<1>1. /\ UNCHANGED <<clock, tables, era, applied>> /\ p \in DOMAIN call
      /\ call[p].stage \in {"ready", "rotating"}
      /\ call' = [call EXCEPT ![p] = c] \/ Done(p)
    BY DEF ChangePassword
<1>2. CASE Done(p)
    BY <1>1, <1>2, FailKeeps
<1>3. CASE call' = [call EXCEPT ![p] = c]
    <2>1. GoodCall(call[p]) /\ call[p].session \in DOMAIN session
        BY <1>1 DEF Inv, CallsOK, GoodCall
    <2>2. /\ call[p].session \in Sessions /\ Actor(p) \in Users /\ clock \in Nat
          /\ session[call[p].session].user = Actor(p)
        BY <2>1, ClockIsNat DEF Inv, SessionsOK, UsersOK, Actor
    <2>3. r \in ChangeRequests
        BY <2>2 DEF ChangeRequests
    <2>4. c \in Served
        BY <2>2, <2>3 DEF Served
    <2>5. GoodCall(c)
        BY <2>1, <2>2, <2>4 DEF GoodCall
    <2> HIDE DEF c, r
    <2> QED BY <1>1, <1>3, <2>5, CallOnly
<1> QED BY <1>1, <1>2, <1>3

LEMMA VerifyPasswordKeeps ==
    ASSUME Inv, NEW p \in Calls, VerifyPassword(p)
    PROVE  Inv'
<1> DEFINE r == call[p].request
           c == [stage |-> "commit", session |-> r.session, request |-> r,
                 revision |-> user[r.actor].revision, at |-> call[p].at]
<1>1. /\ UNCHANGED <<clock, tables, era, applied>> /\ p \in DOMAIN call
      /\ call[p].stage = "verify" /\ r.actor \in DOMAIN user /\ user[r.actor].password = r.current
      /\ call' = [call EXCEPT ![p] = c]
    BY DEF VerifyPassword, Enabled
<1>2. GoodCall(call[p])
    BY <1>1 DEF Inv, CallsOK
<1>3. /\ call[p] \in [stage : {"verify"}, session : Sessions, request : ChangeRequests, at : Nat]
      /\ call[p].session \in DOMAIN session
      /\ r.session = call[p].session /\ session[call[p].session].user = r.actor
    BY <1>1, <1>2 DEF GoodCall, Served
<1>4. user[r.actor].revision \in Nat
    BY <1>1 DEF Inv, UsersOK, Row
<1>5. c \in Served
    BY <1>3, <1>4 DEF Served
<1>6. GoodCall(c)
    BY <1>1, <1>3, <1>4, <1>5 DEF GoodCall
<1> HIDE DEF c, r
<1> QED BY <1>1, <1>6, CallOnly

\* Transactions that leave users, passwords, keys and requests done alone.
LEMMA SessionsOnly ==
    ASSUME Inv, UNCHANGED <<user, key, era, applied>>, clock' \in 0..MaxTime, UsersKept,
           SessionsStillOK, CallsOK'
    PROVE  Inv'
<1>1. UsersOK' /\ SessionsKept
    BY UsersStay DEF Inv, SessionsStillOK
<1>2. KeysOK' /\ HistoryOK'
    BY <1>1, KeysStay DEF Inv, HistoryOK
<1> QED BY <1>1, <1>2, Assembled

LEMMA IdleIsSound ==
    ASSUME NEW at \in Nat, NEW absolute \in Nat
    PROVE  Idle(at, absolute) \in Nat /\ Idle(at, absolute) <= absolute
BY ConstantsAssumption DEF Idle, Least

LEMMA TouchKeeps ==
    ASSUME Inv, NEW p \in Calls, TouchSessionIfStale(p)
    PROVE  Inv'
<1> DEFINE s == call[p].session
           at == call[p].at
           old == session[s]
           seen == [old EXCEPT !.seen = at]
           row == [seen EXCEPT !.expires = Idle(at, old.absolute)]
<1>1. /\ UNCHANGED <<clock, user, key, era, applied>>
      /\ p \in DOMAIN call /\ call[p].stage = "touch"
      /\ call' = [call EXCEPT ![p].stage = "ready"]
    BY DEF TouchSessionIfStale, Become
<1>2. GoodCall(call[p])
    BY <1>1 DEF Inv, CallsOK
<1>3. /\ call[p] \in [stage : {"touch", "ready", "rotating"}, session : Sessions,
                      at : Nat, super : BOOLEAN]
      /\ s \in DOMAIN session
    BY <1>1, <1>2 DEF GoodCall, Served
<1>4. UsersOK' /\ UsersKept
    BY <1>1, UsersStay DEF Inv
<1>5. old \in SessionRow /\ at \in Nat
    BY <1>3 DEF Inv, SessionsOK
<1>6. Idle(at, old.absolute) \in Nat /\ Idle(at, old.absolute) <= old.absolute
    BY <1>5, IdleIsSound DEF SessionRow
<1>7. \/ UNCHANGED session
      \/ /\ Active(s) /\ DOMAIN session' = DOMAIN session /\ session'[s] = row
         /\ \A t \in DOMAIN session \ {s} : session'[t] = session[t]
    <2>1. session' = IF MayTouch(s, at)
                     THEN [session EXCEPT ![s].seen = at, ![s].expires = Idle(at, session[s].absolute)]
                     ELSE session
        BY DEF TouchSessionIfStale
    <2> DEFINE e == Idle(at, session[s].absolute)
    <2>2. CASE MayTouch(s, at)
        <3>1. session' = [session EXCEPT ![s].seen = at, ![s].expires = e]
            BY <2>1, <2>2
        <3>2. DOMAIN session' = DOMAIN session /\ \A t \in DOMAIN session \ {s} : session'[t] = session[t]
            BY <1>3, <3>1
        <3>3. session'[s] = row
            <4> HIDE DEF e, s, at
            <4>1. s \in DOMAIN session /\ session[s] \in SessionRow
                BY <1>3, <1>5
            <4>2. session'[s] = [seen EXCEPT !.expires = e]
                BY <3>1, <4>1 DEF SessionRow
            <4> QED BY <4>2 DEF e
        <3> QED BY <2>2, <3>2, <3>3 DEF MayTouch
    <2>3. CASE ~MayTouch(s, at)
        BY <2>1, <2>3
    <2> QED BY <2>2, <2>3
<1>8. /\ row \in SessionRow /\ row.user = old.user /\ row.depth = old.depth
      /\ row.replaced = old.replaced /\ row.era = old.era /\ row.expires <= row.absolute
    <2> HIDE DEF s, at, old
    <2>1. /\ seen \in SessionRow /\ seen.user = old.user /\ seen.depth = old.depth
          /\ seen.replaced = old.replaced /\ seen.era = old.era /\ seen.absolute = old.absolute
        BY <1>5 DEF SessionRow
    <2> HIDE DEF seen
    <2> DEFINE e == Idle(at, old.absolute)
    <2>2. e \in Nat /\ e <= old.absolute /\ row = [seen EXCEPT !.expires = e]
        BY <1>6
    <2> HIDE DEF e, row
    <2>3. /\ row \in SessionRow /\ row.user = seen.user /\ row.depth = seen.depth
          /\ row.replaced = seen.replaced /\ row.era = seen.era
          /\ row.absolute = seen.absolute /\ row.expires = e
        BY <2>1, <2>2 DEF SessionRow
    <2> QED BY <2>1, <2>2, <2>3
<1>9. SessionsStillOK
    <2>1. CASE UNCHANGED session
        BY <1>1, <1>4, <2>1, SessionsStay
    <2>2. CASE ~UNCHANGED session
        <3> HIDE DEF row
        <3>1. /\ Active(s) /\ DOMAIN session' = DOMAIN session /\ session'[s] = row
              /\ \A t \in DOMAIN session \ {s} : session'[t] = session[t]
            BY <1>7, <2>2
        <3> QED BY <1>1, <1>4, <1>8, <3>1, ModestRows
    <2> QED BY <2>1, <2>2
<1> DEFINE c == [call[p] EXCEPT !.stage = "ready"]
<1>10. /\ DOMAIN call' = DOMAIN call /\ call'[p] = c
       /\ \A q \in DOMAIN call' \ {p} : call'[q] = call[q]
    BY <1>1
<1>11. GoodCall(c)
    BY <1>3 DEF GoodCall, Served
<1> HIDE DEF c, s, at, old, seen, row
<1>12. GoodCall(call[p])'
    <2>1. \A d : GoodCall(d) => GoodCall(d)'
        BY <1>4, <1>9, CallKept DEF Inv, SessionsStillOK
    <2> QED BY <1>10, <1>11, <2>1
<1>13. CallsOK'
    BY <1>4, <1>9, <1>10, <1>12, CallsGo DEF SessionsStillOK
<1> QED BY <1>1, <1>4, <1>9, <1>13, SessionsOnly DEF Inv, HistoryOK

\* Transactions that end some active sessions for good, one way or another.
LEMMA EndingKeeps ==
    ASSUME Inv, NEW p \in Calls, Done(p), UNCHANGED <<clock, user, key, era, applied>>,
           SessionsStillOK, UsersKept
    PROVE  Inv'
<1>1. UsersOK' /\ SessionsKept
    BY UsersStay DEF Inv, SessionsStillOK
<1>2. CallsOK'
    BY <1>1, DoneGo
<1> QED BY <1>2, SessionsOnly DEF Inv, HistoryOK

LEMMA RevokedOne ==
    ASSUME Inv, UsersKept, UNCHANGED era, NEW s \in DOMAIN session,
           session' = IF Active(s) THEN [session EXCEPT ![s] = Revoked(@)] ELSE session
    PROVE  SessionsStillOK
<1>1. session[s] \in SessionRow /\ session[s].expires <= session[s].absolute
    BY DEF Inv, SessionsOK
<1>2. /\ DOMAIN session' = DOMAIN session
      /\ session'[s] = session[s] \/ (Active(s) /\ session'[s] = Revoked(session[s]))
      /\ \A t \in DOMAIN session \ {s} : session'[t] = session[t]
    OBVIOUS
<1> QED BY <1>1, <1>2, RevokedRow, ModestRows

LEMMA RevokeCurrentKeeps ==
    ASSUME Inv, NEW p \in Calls, RevokeCurrentSession(p)
    PROVE  Inv'
<1>1. /\ Done(p) /\ UNCHANGED <<clock, user, key, era, applied>>
      /\ p \in DOMAIN call /\ call[p].stage = "ready"
      /\ session' = IF Active(call[p].session)
                    THEN [session EXCEPT ![call[p].session] = Revoked(@)] ELSE session
    BY DEF RevokeCurrentSession, Ready
<1>2. call[p].session \in DOMAIN session
    BY <1>1 DEF Inv, CallsOK, GoodCall
<1>3. UsersKept
    BY <1>1, UsersStay DEF Inv
<1>4. SessionsStillOK
    BY <1>1, <1>2, <1>3, RevokedOne
<1> QED BY <1>1, <1>3, <1>4, EndingKeeps

LEMMA ListKeeps ==
    ASSUME Inv, NEW p \in Calls, ListAdminSessions(p)
    PROVE  Inv'
<1> DEFINE expired(s) == [session[s] EXCEPT !.status = "expired"]
<1>1. /\ Done(p) /\ UNCHANGED <<clock, user, key, era, applied>>
      /\ session' = [s \in DOMAIN session |-> IF Over(session[s]) THEN expired(s) ELSE session[s]]
    BY DEF ListAdminSessions
<1>2. UsersKept
    BY <1>1, UsersStay DEF Inv
<1>3. ASSUME NEW s \in DOMAIN session
      PROVE  /\ expired(s) \in SessionRow /\ expired(s).user = session[s].user
             /\ expired(s).depth = session[s].depth /\ expired(s).replaced = session[s].replaced
             /\ expired(s).era = session[s].era /\ expired(s).expires <= expired(s).absolute
    <2>1. session[s] \in SessionRow /\ session[s].expires <= session[s].absolute
        BY DEF Inv, SessionsOK
    <2> QED BY <2>1 DEF SessionRow
<1>4. \A s \in DOMAIN session : Over(session[s]) => Active(s)
    BY DEF Over, Active
<1> HIDE DEF expired
<1>5. SessionsStillOK
    BY <1>1, <1>2, <1>3, <1>4, ModestRows
<1> QED BY <1>1, <1>2, <1>5, EndingKeeps

\* A transaction that writes users only.
LEMMA UsersOnly ==
    ASSUME Inv, UsersOK', UsersKept, UNCHANGED <<clock, session, key, era, applied>>,
           UNCHANGED call \/ \E p \in Calls : Done(p)
    PROVE  Inv'
<1>1. SessionsStillOK
    BY SessionsStay
<1>2. SessionsKept
    BY <1>1 DEF SessionsStillOK
<1>3. CallsOK'
    <2>1. CASE UNCHANGED call
        <3>1. \A c : GoodCall(c) => GoodCall(c)'
            BY <1>2, CallKept DEF Inv
        <3>2. ASSUME NEW q \in DOMAIN call' PROVE GoodCall(call[q])'
            <4>1. call'[q] = call[q] /\ GoodCall(call[q])
                BY <2>1 DEF Inv, CallsOK
            <4> QED BY <3>1, <4>1
        <3> QED BY <2>1, <3>2 DEF Inv, CallsOK
    <2>2. CASE \E p \in Calls : Done(p)
        BY <1>2, <2>2, DoneGo
    <2> QED BY <2>1, <2>2
<1>4. KeysOK' /\ HistoryOK'
    BY <1>2, KeysStay DEF Inv, HistoryOK
<1> QED BY <1>1, <1>3, <1>4, Assembled

LEMMA CreateAdminKeeps ==
    ASSUME Inv, NEW p \in Calls, NEW u \in Users, NEW role \in Roles, NEW password \in Passwords,
           CreateAdminUser(p, u, role, password)
    PROVE  Inv'
<1>1. UsersOK' /\ UsersKept
    BY NewUserKept DEF CreateAdminUser, Inv
<1> QED BY <1>1, UsersOnly DEF CreateAdminUser

LEMMA UpdateAdminKeeps ==
    ASSUME Inv, NEW p \in Calls, NEW u \in Users, NEW expected, NEW role \in Roles,
           NEW enabled \in BOOLEAN, UpdateAdminUser(p, u, expected, role, enabled)
    PROVE  Inv'
<1>1. UsersOK' /\ UsersKept
    BY EditedKept DEF UpdateAdminUser, Inv
<1> QED BY <1>1, UsersOnly DEF UpdateAdminUser

LEMMA BootstrapKeeps ==
    ASSUME Inv, NEW u \in Users, NEW password \in Passwords, CreateFirstSuperAdmin(u, password)
    PROVE  Inv'
<1>1. UsersOK' /\ UsersKept
    BY ConstantsAssumption, NewUserKept DEF CreateFirstSuperAdmin, Inv
<1> QED BY <1>1, UsersOnly DEF CreateFirstSuperAdmin

\* Neither time nor the end of a key changes what is kept.
LEMMA TimeKeeps ==
    ASSUME Inv, UNCHANGED <<user, session, call, era, applied>>, clock' \in 0..MaxTime,
           DOMAIN key' \subseteq DOMAIN key, \A k \in DOMAIN key' : key'[k] = key[k]
    PROVE  Inv'
<1>1. UsersOK' /\ UsersKept
    BY UsersStay DEF Inv
<1>2. SessionsStillOK
    BY <1>1, SessionsStay
<1>3. SessionsKept
    BY <1>2 DEF SessionsStillOK
<1>4. CallsOK'
    <2>1. \A c : GoodCall(c) => GoodCall(c)'
        BY <1>1, <1>3, CallKept DEF Inv
    <2>2. ASSUME NEW q \in DOMAIN call' PROVE GoodCall(call[q])'
        <3>1. call'[q] = call[q] /\ GoodCall(call[q])
            BY DEF Inv, CallsOK
        <3> QED BY <2>1, <3>1
    <2> QED BY <2>2 DEF Inv, CallsOK
<1>5. KeysOK' /\ HistoryOK'
    BY <1>1, <1>3, KeysStay DEF Inv, HistoryOK
<1> QED BY <1>1, <1>2, <1>4, <1>5, Assembled

LEMMA OpenedIsSound ==
    ASSUME NEW u \in Users, NEW at \in Nat, NEW depth \in Nat, NEW changes \in Nat,
           NEW row, row = Opened(u, at, depth, changes)
    PROVE  /\ row \in SessionRow /\ row.status = "active" /\ row.replaced = NotReplaced
           /\ row.user = u /\ row.depth = depth /\ row.era = changes
           /\ row.expires <= row.absolute
<1>1. at + AbsoluteTTL \in Nat
    BY ConstantsAssumption
<1>2. Idle(at, at + AbsoluteTTL) \in Nat /\ Idle(at, at + AbsoluteTTL) <= at + AbsoluteTTL
    BY <1>1, IdleIsSound
<1> QED BY <1>1, <1>2 DEF Opened, SessionRow

LEMMA CommitLoginKeeps ==
    ASSUME Inv, NEW p \in Calls, NEW s \in Sessions, CommitLogin(p, s)
    PROVE  Inv'
<1>1. PICK c : c = call[p]
    OBVIOUS
<1>2. PICK ended : ended = Prior(c)
    OBVIOUS
<1>3. PICK row : row = Opened(c.user, c.at, DepthAfter(ended), era[c.user])
    OBVIOUS
<1>4. /\ c \in [stage : {"login"}, user : Users, password : Passwords,
                prior : Sessions \cup {NotReplaced}, upgrade : BOOLEAN, revision : Nat, at : Nat]
      /\ c.user \in DOMAIN user
    <2>1. GoodCall(c) /\ c.stage = "login"
        BY <1>1 DEF CommitLogin, Inv, CallsOK
    <2> QED BY <2>1 DEF GoodCall, Served
<1>5. UsersOK' /\ UsersKept
    <2>1. \/ UNCHANGED user
          \/ NewPassword(c.user, c.password)
        BY <1>1 DEF CommitLogin, NewPassword
    <2> QED BY <1>4, <2>1, UsersStay, NewPasswordKept DEF Inv
<1>6. /\ \A t \in ended : t \in DOMAIN session /\ Active(t) /\ session[t].user = c.user
      /\ \A t, q \in ended : t = q
    BY <1>2 DEF Prior, Active
<1>7. /\ DepthAfter(ended) \in Nat
      /\ \A t \in ended : session[t].depth < DepthAfter(ended)
    <2>1. \A t \in ended : session[t].depth \in Nat
        BY <1>6 DEF Inv, SessionsOK, SessionRow
    <2>2. CASE ended = {}
        BY <2>2 DEF DepthAfter
    <2>3. CASE ended # {}
        <3>1. PICK t \in ended : t = CHOOSE q \in ended : TRUE
            BY <2>3
        <3>2. DepthAfter(ended) = session[t].depth + 1
            BY <2>3, <3>1 DEF DepthAfter
        <3> QED BY <1>6, <2>1, <3>1, <3>2
    <2> QED BY <2>2, <2>3
<1>8. era[c.user] \in Nat
    BY <1>4 DEF Inv, HistoryOK
<1>9. /\ row \in SessionRow /\ row.status = "active" /\ row.replaced = NotReplaced
      /\ row.user = c.user /\ row.depth = DepthAfter(ended) /\ row.era = era[c.user]
      /\ row.expires <= row.absolute
    <2> DEFINE depth == DepthAfter(ended)
    <2>1. depth \in Nat /\ row = Opened(c.user, c.at, depth, era[c.user])
        BY <1>3, <1>7
    <2> HIDE DEF depth
    <2>2. /\ row \in SessionRow /\ row.status = "active" /\ row.replaced = NotReplaced
          /\ row.user = c.user /\ row.depth = depth /\ row.era = era[c.user]
          /\ row.expires <= row.absolute
        BY <1>4, <1>8, <2>1, OpenedIsSound
    <2> QED BY <2>2 DEF depth
<1>10. /\ NextSession(s) /\ Done(p) /\ UNCHANGED <<clock, key, era, applied>>
       /\ session' = Put([t \in DOMAIN session |->
                             IF t \in ended THEN ReplacedBy(session[t], s) ELSE session[t]], s, row)
    BY <1>1, <1>2, <1>3 DEF CommitLogin
<1>11. SessionsStillOK
    <2>1. ended \in SUBSET DOMAIN session
        BY <1>6
    <2>2. row.user \in DOMAIN user' /\ row.era = era'[row.user]
        BY <1>4, <1>5, <1>9, <1>10 DEF UsersKept
    <2>3. \A t \in ended : Active(t) /\ session[t].user = row.user /\ session[t].depth < row.depth
        BY <1>6, <1>7, <1>9
    <2> QED BY <1>5, <1>9, <1>10, <2>1, <2>2, <2>3, ReplacedRows
<1>12. CallsOK' /\ KeysOK' /\ HistoryOK'
    BY <1>5, <1>10, <1>11, DoneGo, KeysStay DEF SessionsStillOK, Inv, HistoryOK
<1> QED BY <1>5, <1>11, <1>12, Assembled

\* The history of passwords after a change or a reset.
LEMMA NextEra ==
    ASSUME Inv, NEW u \in Users, NewEra(u)
    PROVE  /\ era' \in [Users -> Nat] /\ era'[u] = era[u] + 1
           /\ \A v \in Users \ {u} : era'[v] = era[v]
BY DEF Inv, HistoryOK, NewEra

LEMMA CommitChangeKeeps ==
    ASSUME Inv, NEW p \in Calls, NEW s \in Sessions, CommitPasswordChange(p, s)
    PROVE  Inv'
<1>1. PICK r : r = call[p].request
    OBVIOUS
<1> DEFINE u == r.actor
<1>2. /\ r \in ChangeRequests /\ r \in Requests /\ r.op = "change"
      /\ u \in DOMAIN user /\ u \in Users /\ r.new \in Passwords
      /\ r.session \in DOMAIN session /\ session[r.session].user = u /\ call[p].at \in Nat
    <2>1. GoodCall(call[p]) /\ call[p].stage = "commit"
        BY DEF CommitPasswordChange, Inv, CallsOK
    <2>2. /\ call[p] \in [stage : {"commit"}, session : Sessions, request : ChangeRequests,
                          revision : Nat, at : Nat]
          /\ call[p].session \in DOMAIN session /\ call[p].request.session = call[p].session
          /\ session[call[p].session].user = call[p].request.actor
          /\ call[p].request.actor \in DOMAIN user
        BY <2>1 DEF GoodCall, Served
    <2>3. r \in ChangeRequests
        BY <1>1, <2>2
    <2>4. r \in Requests /\ r.op = "change" /\ u \in Users /\ r.new \in Passwords
        BY <2>3 DEF Requests, ChangeRequests
    <2> QED BY <1>1, <2>2, <2>3, <2>4
<1>3. PICK row : row = Opened(u, call[p].at, MaxDepth(u) + 1, era[u] + 1)
    OBVIOUS
<1>4. \/ UNCHANGED <<tables, era, applied>>
      \/ /\ Active(r.session) /\ NextSession(s) /\ session' = ReplaceAll(u, s, row)
         /\ NewPassword(u, r.new) /\ NewEra(u) /\ Complete(r, s)
    BY <1>1, <1>3 DEF CommitPasswordChange, Unmoved
<1>5. Done(p) /\ UNCHANGED clock
    BY DEF CommitPasswordChange
<1>6. CASE UNCHANGED <<tables, era, applied>>
    BY <1>5, <1>6, FailKeeps
<1>7. ASSUME Active(r.session), NextSession(s), session' = ReplaceAll(u, s, row),
             NewPassword(u, r.new), NewEra(u), Complete(r, s)
      PROVE  Inv'
    <2>1. PICK ended : ended = ActiveOf(u)
        OBVIOUS
    <2>2. UsersOK' /\ UsersKept /\ DOMAIN user' = DOMAIN user
        BY <1>2, <1>7, NewPasswordKept DEF Inv
    <2>3. era[u] \in Nat /\ MaxDepth(u) \in Nat
        BY <1>2, MaxDepthIs DEF Inv, HistoryOK
    <2>4. /\ row \in SessionRow /\ row.status = "active" /\ row.replaced = NotReplaced
          /\ row.user = u /\ row.depth = MaxDepth(u) + 1 /\ row.era = era[u] + 1
          /\ row.expires <= row.absolute
        <3> DEFINE depth == MaxDepth(u) + 1
                   changes == era[u] + 1
        <3>1. depth \in Nat /\ changes \in Nat /\ row = Opened(u, call[p].at, depth, changes)
            BY <1>3, <2>3
        <3> HIDE DEF depth, changes, u
        <3>2. /\ row \in SessionRow /\ row.status = "active" /\ row.replaced = NotReplaced
              /\ row.user = u /\ row.depth = depth /\ row.era = changes
              /\ row.expires <= row.absolute
            BY <1>2, <3>1, OpenedIsSound
        <3> QED BY <3>2 DEF depth, changes
    <2>5. ended \in SUBSET DOMAIN session
        BY <2>1 DEF ActiveOf
    <2>6. \A t \in ended : Active(t) /\ session[t].user = row.user /\ session[t].depth < row.depth
        <3> SUFFICES ASSUME NEW t \in ended
                     PROVE  Active(t) /\ session[t].user = row.user /\ session[t].depth < row.depth
            OBVIOUS
        <3>1. t \in DOMAIN session /\ Active(t) /\ session[t].user = u
            BY <2>1 DEF ActiveOf, Active
        <3>2. session[t].depth \in Nat /\ session[t].depth <= MaxDepth(u)
            BY <3>1, MaxDepthIs DEF Inv, SessionsOK, SessionRow
        <3> QED BY <2>3, <2>4, <3>1, <3>2
    <2>7. row.user \in DOMAIN user' /\ row.era = era'[row.user]
        BY <1>2, <1>7, <2>2, <2>4, NextEra
    <2>8. \A t \in DOMAIN session \ ended :
              session[t].status = "active" => era'[session[t].user] = era[session[t].user]
        <3>1. \A t \in DOMAIN session : session[t].user \in Users
            BY DEF Inv, SessionsOK, UsersOK
        <3>2. \A t \in DOMAIN session \ ended : session[t].status = "active" => session[t].user # u
            BY <2>1 DEF ActiveOf
        <3>3. \A v \in Users \ {u} : era'[v] = era[v]
            BY <1>2, <1>7, NextEra
        <3> QED BY <3>1, <3>2, <3>3
    <2>9. session' = Put([t \in DOMAIN session |->
                             IF t \in ended THEN ReplacedBy(session[t], s) ELSE session[t]], s, row)
        BY <1>7, <2>1 DEF ReplaceAll
    <2>10. /\ SessionsStillOK /\ s \in DOMAIN session' /\ session'[s] = row
           /\ \A t \in ended : session'[t].status = "revoked" /\ session'[t].replaced = s
           /\ s # NotReplaced
        BY <1>7, <2>2, <2>4, <2>5, <2>6, <2>7, <2>8, <2>9, ReplacedRows
    <2>11. /\ r.session \in DOMAIN session' /\ session'[r.session].user = u
           /\ session'[r.session].status = "revoked" /\ session'[r.session].replaced # NotReplaced
        <3>1. r.session \in ended
            BY <1>2, <1>7, <2>1 DEF ActiveOf, Active
        <3> QED BY <1>2, <2>10, <3>1 DEF SessionsStillOK, SessionsKept
    <2>12. GoodKey(KeyOf(r), [request |-> r, result |-> s])'
        BY <1>2, <2>4, <2>10, <2>11 DEF GoodKey, Fetched
    <2>13. Finished(r)'
        BY <1>2, <2>11 DEF Finished, Active
    <2>14. SessionsKept
        BY <2>10 DEF SessionsStillOK
    <2>15. CallsOK'
        BY <1>5, <2>2, <2>14, DoneGo
    <2>16. clock' \in 0..MaxTime /\ era' \in [Users -> Nat]
        BY <1>2, <1>5, <1>7, NextEra DEF Inv, HistoryOK
    <2>17. KeysOK' /\ HistoryOK'
        BY <1>2, <1>7, <2>2, <2>12, <2>13, <2>14, <2>16, KeysComplete
    <2> QED BY <2>2, <2>10, <2>15, <2>17, Assembled
<1> QED BY <1>4, <1>6, <1>7

\* Requests of administrators that end sessions and are answered with no session.
LEMMA AnsweredKeeps ==
    ASSUME Inv, NEW p \in Calls, Done(p), UNCHANGED clock, NEW r \in Requests, r.op # "change",
           UsersOK', UsersKept, SessionsStillOK, era' \in [Users -> Nat],
           Complete(r, NotReplaced), Finished(r)'
    PROVE  Inv'
<1>1. SessionsKept
    BY DEF SessionsStillOK
<1>2. GoodKey(KeyOf(r), [request |-> r, result |-> NotReplaced])'
    BY DEF GoodKey
<1>3. clock' \in 0..MaxTime
    BY DEF Inv, HistoryOK
<1>4. KeysOK' /\ HistoryOK'
    BY <1>1, <1>2, <1>3, KeysComplete
<1> QED BY <1>1, <1>4, DoneGo, Assembled

\* Whoever manages users came with a session.
LEMMA ActorIsUser ==
    ASSUME Inv, NEW p \in Calls, Manages(p)
    PROVE  Actor(p) \in Users
<1>1. call[p].session \in DOMAIN session
    BY DEF Manages, Ready, Inv, CallsOK, GoodCall
<1> QED BY <1>1 DEF Actor, Inv, SessionsOK, UsersOK

LEMMA ResetKeeps ==
    ASSUME Inv, NEW p \in Calls, NEW k \in Keys, NEW u \in Users, NEW expected \in 1..MaxRevision,
           NEW password \in Passwords, ResetAdminUserPassword(p, k, u, expected, password)
    PROVE  Inv'
<1>1. PICK r : r = [op |-> "reset", actor |-> Actor(p), key |-> k, target |-> u,
                    expected |-> expected, new |-> password]
    OBVIOUS
<1>2. r \in Requests /\ r.op = "reset" /\ r.target = u /\ r.expected = expected
    <2>1. Actor(p) \in Users
        BY ActorIsUser DEF ResetAdminUserPassword
    <2>2. r \in ResetRequests
        BY <1>1, <2>1 DEF ResetRequests
    <2> QED BY <1>1, <2>2 DEF Requests
<1>3. \/ UNCHANGED <<tables, era, applied>>
      \/ /\ u \in DOMAIN user /\ user[u].revision = expected /\ session' = RevokeAll(u)
         /\ NewPassword(u, password) /\ NewEra(u) /\ Complete(r, NotReplaced)
    BY <1>1 DEF ResetAdminUserPassword, SameRevision
<1>4. Done(p) /\ UNCHANGED clock
    BY DEF ResetAdminUserPassword
<1>5. CASE UNCHANGED <<tables, era, applied>>
    BY <1>4, <1>5, FailKeeps
<1>6. ASSUME u \in DOMAIN user, user[u].revision = expected, session' = RevokeAll(u),
             NewPassword(u, password), NewEra(u), Complete(r, NotReplaced)
      PROVE  Inv'
    <2>1. UsersOK' /\ UsersKept /\ DOMAIN user' = DOMAIN user
          /\ user'[u].revision = user[u].revision + 1
        BY <1>6, NewPasswordKept DEF Inv
    <2>2. SessionsStillOK /\ era' \in [Users -> Nat]
        BY <1>6, <2>1, NextEra, RevokeAllRows
    <2>3. Finished(r)'
        <3>1. u \in DOMAIN user' /\ user'[u].revision > expected
            BY <1>6, <2>1
        <3> QED BY <1>2, <3>1 DEF Finished
    <2> QED BY <1>2, <1>4, <1>6, <2>1, <2>2, <2>3, AnsweredKeeps
<1> QED BY <1>3, <1>5, <1>6

LEMMA RevokeUserKeeps ==
    ASSUME Inv, NEW p \in Calls, NEW k \in Keys, NEW u \in Users, RevokeAdminUserSessions(p, k, u)
    PROVE  Inv'
<1>1. PICK r : r = [op |-> "revoke_user", actor |-> Actor(p), key |-> k, target |-> u]
    OBVIOUS
<1>2. r \in Requests /\ r.op = "revoke_user"
    <2>1. Actor(p) \in Users
        BY ActorIsUser DEF RevokeAdminUserSessions
    <2> QED BY <1>1, <2>1 DEF Requests, RevokeUserRequests
<1>3. \/ UNCHANGED <<session, key, applied>>
      \/ session' = RevokeAll(u) /\ Complete(r, NotReplaced)
    BY <1>1 DEF RevokeAdminUserSessions
<1>4. Done(p) /\ UNCHANGED <<clock, user, era>>
    BY DEF RevokeAdminUserSessions
<1>5. CASE UNCHANGED <<session, key, applied>>
    BY <1>4, <1>5, FailKeeps DEF tables
<1>6. ASSUME session' = RevokeAll(u), Complete(r, NotReplaced)
      PROVE  Inv'
    <2>1. UsersOK' /\ UsersKept
        BY <1>4, UsersStay DEF Inv
    <2>2. SessionsStillOK /\ era' \in [Users -> Nat]
        BY <1>4, <1>6, <2>1, RevokeAllRows DEF Inv, HistoryOK
    <2>3. Finished(r)'
        BY <1>2 DEF Finished
    <2> QED BY <1>2, <1>4, <1>6, <2>1, <2>2, <2>3, AnsweredKeeps
<1> QED BY <1>3, <1>5, <1>6

LEMMA RevokeSessionKeeps ==
    ASSUME Inv, NEW p \in Calls, NEW k \in Keys, NEW s \in Sessions, RevokeAdminSession(p, k, s)
    PROVE  Inv'
<1>1. PICK r : r = [op |-> "revoke_session", actor |-> Actor(p), key |-> k, target |-> s]
    OBVIOUS
<1>2. r \in Requests /\ r.op = "revoke_session"
    <2>1. Actor(p) \in Users
        BY ActorIsUser DEF RevokeAdminSession
    <2> QED BY <1>1, <2>1 DEF Requests, RevokeSessionRequests
<1>3. \/ UNCHANGED <<session, key, applied>>
      \/ /\ s \in DOMAIN session /\ Complete(r, NotReplaced)
         /\ session' = IF Active(s) THEN [session EXCEPT ![s] = Revoked(@)] ELSE session
    BY <1>1 DEF RevokeAdminSession
<1>4. Done(p) /\ UNCHANGED <<clock, user, era>>
    BY DEF RevokeAdminSession
<1>5. CASE UNCHANGED <<session, key, applied>>
    BY <1>4, <1>5, FailKeeps DEF tables
<1>6. ASSUME s \in DOMAIN session, Complete(r, NotReplaced),
             session' = IF Active(s) THEN [session EXCEPT ![s] = Revoked(@)] ELSE session
      PROVE  Inv'
    <2>1. UsersOK' /\ UsersKept
        BY <1>4, UsersStay DEF Inv
    <2>2. SessionsStillOK /\ era' \in [Users -> Nat]
        BY <1>4, <1>6, <2>1, RevokedOne DEF Inv, HistoryOK
    <2>3. Finished(r)'
        BY <1>2 DEF Finished
    <2> QED BY <1>2, <1>4, <1>6, <2>1, <2>2, <2>3, AnsweredKeeps
<1> QED BY <1>3, <1>5, <1>6

LEMMA InitSound == Init => Inv
<1> SUFFICES ASSUME Init PROVE Inv
    OBVIOUS
<1>1. /\ DOMAIN user = {} /\ DOMAIN session = {} /\ DOMAIN key = {} /\ DOMAIN call = {}
      /\ DOMAIN applied = {}
    BY DEF Init, Empty
<1>2. clock \in 0..MaxTime /\ era \in [Users -> Nat]
    BY ConstantsAssumption DEF Init
<1> QED BY <1>1, <1>2 DEF Inv, UsersOK, SessionsOK, ReplacementsAscend,
                          NoSessionOutlivesItsPassword, CallsOK, KeysOK, HistoryOK

LEMMA NextSound == Inv /\ [Next]_vars => Inv'
<1> SUFFICES ASSUME Inv, [Next]_vars PROVE Inv'
    OBVIOUS
<1>1. CASE UNCHANGED vars
    BY <1>1, TimeKeeps DEF vars, tables, Inv, HistoryOK
<1>2. ASSUME NEW p \in Calls, SessionStep(p) PROVE Inv'
    <2>1. CASE \E s \in Sessions : Authenticate(p, s) \/ AuthenticateForRotation(p, s)
        BY <2>1, AuthenticateKeeps
    <2>2. CASE \E s \in Sessions : CommitLogin(p, s)
        BY <2>2, CommitLoginKeeps
    <2>3. CASE \E s \in Sessions : CommitPasswordChange(p, s)
        BY <2>3, CommitChangeKeeps
    <2>4. CASE TouchSessionIfStale(p) \/ VerifyPassword(p) \/ RevokeCurrentSession(p)
        BY <2>4, TouchKeeps, VerifyPasswordKeeps, RevokeCurrentKeeps
    <2>5. CASE Fail(p)
        BY <2>5, FailKeeps DEF Fail
    <2>6. CASE \E u \in Users, password \in Passwords, prior \in DOMAIN session \cup {NotReplaced} :
                   \E upgrade \in BOOLEAN : Login(p, u, password, prior, upgrade)
        BY <2>6, LoginKeeps
    <2>7. CASE \E k \in Keys, current, new \in Passwords : ChangePassword(p, k, current, new)
        BY <2>7, ChangePasswordKeeps
    <2> QED BY <1>2, <2>1, <2>2, <2>3, <2>4, <2>5, <2>6, <2>7 DEF SessionStep
<1>3. ASSUME NEW p \in Calls, AdminStep(p) PROVE Inv'
    <2>1. CASE \E u \in Users, role \in Roles, password \in Passwords :
                   CreateAdminUser(p, u, role, password)
        BY <2>1, CreateAdminKeeps
    <2>2. CASE \E u \in Users, expected \in 1..MaxRevision, role \in Roles, enabled \in BOOLEAN :
                   UpdateAdminUser(p, u, expected, role, enabled)
        BY <2>2, UpdateAdminKeeps
    <2>3. CASE \E k \in Keys, u \in Users, expected \in 1..MaxRevision, password \in Passwords :
                   ResetAdminUserPassword(p, k, u, expected, password)
        BY <2>3, ResetKeeps
    <2>4. CASE \E k \in Keys, u \in Users : RevokeAdminUserSessions(p, k, u)
        BY <2>4, RevokeUserKeeps
    <2>5. CASE \E k \in Keys, s \in Sessions : RevokeAdminSession(p, k, s)
        BY <2>5, RevokeSessionKeeps
    <2>6. CASE ListAdminSessions(p)
        BY <2>6, ListKeeps
    <2> QED BY <1>3, <2>1, <2>2, <2>3, <2>4, <2>5, <2>6 DEF AdminStep
<1>4. CASE \E u \in Users, password \in Passwords : CreateFirstSuperAdmin(u, password)
    BY <1>4, BootstrapKeeps
<1>5. CASE \E k \in DOMAIN key : ExpireKey(k)
    BY <1>5, TimeKeeps DEF ExpireKey, Without, Inv, HistoryOK
<1>6. CASE Tick
    BY <1>6, TimeKeeps, ConstantsAssumption DEF Tick, tables, Inv, HistoryOK
<1> QED BY <1>1, <1>2, <1>3, <1>4, <1>5, <1>6 DEF Next

LEMMA SpecSound == Spec => []Inv
BY InitSound, NextSound, PTL DEF Spec

-----------------------------------------------------------------------------
(* What is known of a request at the moment it takes effect.                 *)

Doing(r) ==
    /\ Fresh(r)
    /\ r.op = "change" => user[r.actor].password = r.current /\ Active(r.session)
    /\ r.op = "reset" => user[r.target].revision = r.expected

LEMMA CompletesOne ==
    ASSUME Inv, NEW q, NEW s, Complete(q, s), NEW r, Times(r)' > Times(r)
    PROVE  r = q
<1>1. Times(r) \in Nat
    BY DEF Times, Inv, HistoryOK
<1>2. r # q => Times(r)' = Times(r)
    BY DEF Complete, Put, Times
<1> QED BY <1>1, <1>2

LEMMA NothingDone ==
    ASSUME Inv, UNCHANGED applied, NEW r PROVE ~(Times(r)' > Times(r))
<1>1. Times(r) \in Nat
    BY DEF Times, Inv, HistoryOK
<1>2. Times(r)' = Times(r)
    BY DEF Times
<1> QED BY <1>1, <1>2

LEMMA EffectsAreDue ==
    ASSUME Inv, [Next]_vars, NEW r, Times(r)' > Times(r)
    PROVE  Doing(r)
<1>1. ASSUME NEW q, NEW s, Complete(q, s), Doing(q) PROVE Doing(r)
    BY <1>1, CompletesOne
<1>2. ~UNCHANGED applied
    BY NothingDone
<1>3. CASE \E p \in Calls, s \in Sessions : CommitPasswordChange(p, s)
    <2>1. PICK p \in Calls, s \in Sessions : CommitPasswordChange(p, s)
        BY <1>3
    <2>2. PICK q : q = call[p].request
        OBVIOUS
    <2>3. Fresh(q) /\ Unmoved(call[p]) /\ Complete(q, s)
        BY <1>2, <2>1, <2>2 DEF CommitPasswordChange
    <2>4. GoodCall(call[p]) /\ call[p].stage = "commit"
        BY <2>1 DEF CommitPasswordChange, Inv, CallsOK
    <2>5. q.op = "change"
        BY <2>2, <2>4 DEF GoodCall, Served, ChangeRequests
    <2>6. user[q.actor].password = q.current /\ Active(q.session)
        BY <2>2, <2>3, <2>4 DEF GoodCall, Unmoved, SameRevision
    <2>7. Doing(q)
        BY <2>3, <2>5, <2>6 DEF Doing
    <2> QED BY <1>1, <2>3, <2>7
<1>4. CASE \E p \in Calls, k \in Keys, u \in Users, expected \in 1..MaxRevision, password \in Passwords :
               ResetAdminUserPassword(p, k, u, expected, password)
    <2>1. PICK p \in Calls, k \in Keys, u \in Users, expected \in 1..MaxRevision, password \in Passwords :
               ResetAdminUserPassword(p, k, u, expected, password)
        BY <1>4
    <2>2. PICK q : q = [op |-> "reset", actor |-> Actor(p), key |-> k, target |-> u,
                        expected |-> expected, new |-> password]
        OBVIOUS
    <2>3. Fresh(q) /\ user[u].revision = expected /\ Complete(q, NotReplaced)
        BY <1>2, <2>1, <2>2 DEF ResetAdminUserPassword, SameRevision
    <2>4. Doing(q)
        BY <2>2, <2>3 DEF Doing
    <2> QED BY <1>1, <2>3, <2>4
<1>5. CASE \E p \in Calls, k \in Keys, u \in Users : RevokeAdminUserSessions(p, k, u)
    <2>1. PICK p \in Calls, k \in Keys, u \in Users : RevokeAdminUserSessions(p, k, u)
        BY <1>5
    <2>2. PICK q : q = [op |-> "revoke_user", actor |-> Actor(p), key |-> k, target |-> u]
        OBVIOUS
    <2>3. Fresh(q) /\ Complete(q, NotReplaced)
        BY <1>2, <2>1, <2>2 DEF RevokeAdminUserSessions
    <2>4. Doing(q)
        BY <2>2, <2>3 DEF Doing
    <2> QED BY <1>1, <2>3, <2>4
<1>6. CASE \E p \in Calls, k \in Keys, s \in Sessions : RevokeAdminSession(p, k, s)
    <2>1. PICK p \in Calls, k \in Keys, s \in Sessions : RevokeAdminSession(p, k, s)
        BY <1>6
    <2>2. PICK q : q = [op |-> "revoke_session", actor |-> Actor(p), key |-> k, target |-> s]
        OBVIOUS
    <2>3. Fresh(q) /\ Complete(q, NotReplaced)
        BY <1>2, <2>1, <2>2 DEF RevokeAdminSession
    <2>4. Doing(q)
        BY <2>2, <2>3 DEF Doing
    <2> QED BY <1>1, <2>3, <2>4
<1>7. ASSUME NEW p \in Calls, SessionStep(p), ~\E s \in Sessions : CommitPasswordChange(p, s)
      PROVE  UNCHANGED applied
    BY <1>7 DEF SessionStep, Authenticate, AuthenticateForRotation, CommitLogin, TouchSessionIfStale,
                Fail, Login, ChangePassword, VerifyPassword, RevokeCurrentSession
<1>8. ASSUME NEW p \in Calls, AdminStep(p),
             ~\E k \in Keys, u \in Users, expected \in 1..MaxRevision, password \in Passwords :
                  ResetAdminUserPassword(p, k, u, expected, password),
             ~\E k \in Keys, u \in Users : RevokeAdminUserSessions(p, k, u),
             ~\E k \in Keys, s \in Sessions : RevokeAdminSession(p, k, s)
      PROVE  UNCHANGED applied
    BY <1>8 DEF AdminStep, CreateAdminUser, UpdateAdminUser, ListAdminSessions
<1>9. CASE \/ \E u \in Users, password \in Passwords : CreateFirstSuperAdmin(u, password)
           \/ \E k \in DOMAIN key : ExpireKey(k)
           \/ Tick \/ UNCHANGED vars
    BY <1>2, <1>9 DEF CreateFirstSuperAdmin, ExpireKey, Tick, vars
<1> QED BY <1>2, <1>3, <1>4, <1>5, <1>6, <1>7, <1>8, <1>9 DEF Next

-----------------------------------------------------------------------------
(* The theorems.                                                             *)

\* The tables stay well formed, no chain of replaced sessions ends in itself, and
\* no active session is older than its user's password: changes and resets race
\* with logins that verified the old one, with touches and with each other.
THEOREM SessionsStaySound == Spec => []SessionsAreSound
<1>1. Inv => SessionsAreSound
    <2> SUFFICES ASSUME Inv PROVE SessionsAreSound
        OBVIOUS
    <2>1. \A p \in DOMAIN call : call[p] \in Served
        BY DEF Inv, CallsOK, GoodCall
    <2>2. \A k \in DOMAIN key : /\ key[k].request \in Requests /\ KeyOf(key[k].request) = k
                                /\ key[k].result \in DOMAIN session \cup {NotReplaced}
        BY DEF Inv, KeysOK, GoodKey
    <2>3. TypeOK
        BY <2>1, <2>2 DEF TypeOK, Inv, UsersOK, SessionsOK, CallsOK, HistoryOK
    <2> QED BY <2>3 DEF SessionsAreSound, Inv
<1> QED BY <1>1, SpecSound, PTL

\* A change of a password, committed by a transaction of its own after the old one
\* was verified, overwrites the very password that was verified.
THEOREM VerifiedIsReplaced == Spec => ChangesReplaceWhatTheyVerified
<1> DEFINE A == \A r \in DOMAIN applied' :
                    r.op = "change" /\ Times(r)' > Times(r) => user[r.actor].password = r.current
<1>1. Inv /\ [Next]_vars => A
    BY EffectsAreDue DEF Doing
<1>2. Inv /\ [Next]_vars => [A]_vars
    BY <1>1
<1> HIDE DEF A
<1>3. Spec => [][A]_vars
    BY <1>2, SpecSound, PTL DEF Spec
<1> QED BY <1>3 DEF A, ChangesReplaceWhatTheyVerified

\* However late and however often a request is repeated, a change or a reset is done
\* once and a revocation once while its key is kept; and the session that a change
\* opened can be fetched by who lost the answer.
THEOREM RepeatingIsSafe == Spec => RepetitionsAreSafe
<1> DEFINE A == \A r \in DOMAIN applied :
                    Times(r)' > Times(r) =>
                        r.op \in {"revoke_user", "revoke_session"} /\ KeyOf(r) \notin DOMAIN key
<1>1. Inv /\ [Next]_vars => A
    <2> SUFFICES ASSUME Inv, [Next]_vars, NEW r \in DOMAIN applied, Times(r)' > Times(r)
                 PROVE  r.op \in {"revoke_user", "revoke_session"} /\ KeyOf(r) \notin DOMAIN key
        OBVIOUS
    <2>1. Doing(r) /\ Finished(r) /\ r \in Requests
        BY EffectsAreDue DEF Inv, HistoryOK
    <2>2. r.op # "change"
        BY <2>1 DEF Doing, Finished
    <2>3. r.op # "reset"
        <3> SUFFICES ASSUME r.op = "reset" PROVE FALSE
            OBVIOUS
        <3>1. r \in ResetRequests
            BY <2>1 DEF Requests, ChangeRequests, RevokeUserRequests, RevokeSessionRequests
        <3>2. r.expected \in Nat /\ user[r.target].revision = r.expected
              /\ user[r.target].revision > r.expected
            BY <2>1, <3>1 DEF ResetRequests, Doing, Finished
        <3> QED BY <3>2
    <2> QED BY <2>1, <2>2, <2>3 DEF Doing, Fresh, Requests, ChangeRequests, ResetRequests,
                                    RevokeUserRequests, RevokeSessionRequests
<1>2. Inv /\ [Next]_vars => [A]_vars
    BY <1>1
<1> HIDE DEF A
<1>3. Spec => [][A]_vars
    BY <1>2, SpecSound, PTL DEF Spec
<1>4. Inv => LostAnswersCanBeFetched
    BY DEF Inv, KeysOK, GoodKey, Fetched, LostAnswersCanBeFetched, Rotatable
<1>5. Spec => []LostAnswersCanBeFetched
    BY <1>4, SpecSound, PTL
<1> QED BY <1>3, <1>5 DEF A, RepetitionsAreSafe, RetriesTakeEffectOnce
=============================================================================
