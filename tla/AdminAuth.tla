----------------------------- MODULE AdminAuth -----------------------------
(***************************************************************************)
(* Administrators and their sessions: src/internal/management/auth (the    *)
(* two services), the authentication of src/internal/management/api and    *)
(* the transactions of src/internal/platform/storage/manager_auth.go.      *)
(*                                                                         *)
(* A request is authenticated against the tables, then its session is      *)
(* touched, then its handler runs; a login and a change of password read   *)
(* the password, verify it outside any transaction and commit in a later   *)
(* one.  Other requests commit in between.  Each transaction locks what it *)
(* reads (SELECT ... FOR UPDATE) and is one step here.                     *)
(*                                                                         *)
(* The rate limiter only refuses requests, which then change nothing: Fail *)
(* stands for that, for every refusal, for a database error and for a      *)
(* crash of the process.  Tokens are the ids of their sessions, a password *)
(* hash is the password, the audit row of each transaction is left out.    *)
(***************************************************************************)
EXTENDS Integers, FiniteSets

CONSTANTS
    Users,          \* ids of admin_users
    Sessions,       \* ids of admin_sessions, in the order they are given
    Calls,          \* requests being served at a time
    Keys,           \* idempotency keys chosen by clients
    Passwords,
    Roles,          \* has "super_admin", the one role that manages users
    IdleTTL,        \* SessionIdleTTL
    AbsoluteTTL,    \* SessionAbsoluteTTL
    TouchInterval,  \* sessionTouchInterval
    MaxTime,        \* bound: time explored
    MaxRevision     \* bound: edits of a user

ASSUME ConstantsAssumption ==
    /\ Sessions \subseteq Nat \ {0} /\ IsFiniteSet(Sessions)
    /\ "super_admin" \in Roles
    /\ {IdleTTL, AbsoluteTTL, TouchInterval} \subseteq Nat \ {0}
    /\ {MaxTime, MaxRevision} \subseteq Nat

VARIABLES
    clock,
    user,       \* admin_users
    session,    \* admin_sessions
    key,        \* admin_idempotency_keys
    call,       \* requests in service, with what they have read
    \* History
    era,        \* how often the password of a user was replaced
    applied     \* how often a keyed request took effect

tables == <<user, session, key>>
vars == <<clock, tables, call, era, applied>>

Empty == [x \in {} |-> 0]
Put(f, x, y) == [z \in DOMAIN f \cup {x} |-> IF z = x THEN y ELSE f[z]]
Without(f, x) == [z \in DOMAIN f \ {x} |-> f[z]]

NotReplaced == 0
Least(a, b) == IF a <= b THEN a ELSE b

\* Requests with an idempotency key.  The hash the row keeps covers all of it.
ChangeRequests ==
    [op : {"change"}, actor : Users, session : Sessions, key : Keys,
     current : Passwords, new : Passwords]
ResetRequests ==
    [op : {"reset"}, actor : Users, key : Keys, target : Users,
     expected : 1..MaxRevision, new : Passwords]
RevokeUserRequests == [op : {"revoke_user"}, actor : Users, key : Keys, target : Users]
RevokeSessionRequests == [op : {"revoke_session"}, actor : Users, key : Keys, target : Sessions]
Requests == ChangeRequests \cup ResetRequests \cup RevokeUserRequests \cup RevokeSessionRequests

KeyOf(r) == <<r.actor, r.op, r.key>>

(***************************************************************************)
(* What a request reads.                                                   *)
(***************************************************************************)

Enabled(u) == u \in DOMAIN user /\ user[u].enabled
EnabledSuperAdmins == {u \in DOMAIN user : user[u].enabled /\ user[u].role = "super_admin"}

Active(s) == s \in DOMAIN session /\ session[s].status = "active"
Valid(s) ==
    /\ Active(s) /\ Enabled(session[s].user)
    /\ session[s].expires > clock /\ session[s].absolute > clock
\* What LookupReplacedSession lets in, for a change of password only.
Rotatable(s) ==
    /\ s \in DOMAIN session /\ Enabled(session[s].user)
    /\ session[s].status = "revoked" /\ session[s].replaced # NotReplaced

\* Mutant: the row of an earlier request is not noticed.
FreshAlways(r) == TRUE
\* The key has no row, or only an expired one (see ExpireKey).
Fresh(r) == KeyOf(r) \notin DOMAIN key
Replayed(r) == ~Fresh(r) /\ key[KeyOf(r)].request = r

(***************************************************************************)
(* What a transaction writes.                                              *)
(***************************************************************************)

\* Ids are given in order; which one a session gets makes no difference.
NextSession(s) ==
    s \in Sessions \ DOMAIN session /\ \A t \in Sessions \ DOMAIN session : s <= t

Idle(at, absolute) == Least(at + IdleTTL, absolute)
Opened(u, at, depth, changes) ==
    [user |-> u, status |-> "active", depth |-> depth, replaced |-> NotReplaced,
     seen |-> at, expires |-> Idle(at, at + AbsoluteTTL),
     absolute |-> at + AbsoluteTTL, era |-> changes]

Revoked(row) == [row EXCEPT !.status = "revoked"]
ReplacedBy(row, s) == [row EXCEPT !.status = "revoked", !.replaced = s]

\* Mutant: a change or a revocation ends the newest session only.
NewestOf(u) ==
    {s \in DOMAIN session : /\ session[s].user = u /\ session[s].status = "active"
                           /\ \A t \in DOMAIN session : session[t].user = u => t <= s}
\* The sessions of u that a change or a revocation ends.
ActiveOf(u) == {s \in DOMAIN session : session[s].user = u /\ session[s].status = "active"}
RevokeAll(u) == [s \in DOMAIN session |->
                    IF s \in ActiveOf(u) THEN Revoked(session[s]) ELSE session[s]]
MaxDepth(u) ==
    LET depths == {0} \cup {session[s].depth : s \in {t \in DOMAIN session : session[t].user = u}}
    IN  CHOOSE d \in depths : \A e \in depths : e <= d
ReplaceAll(u, s, row) ==
    Put([t \in DOMAIN session |->
            IF t \in ActiveOf(u) THEN ReplacedBy(session[t], s) ELSE session[t]], s, row)

NewPassword(u, password) ==
    user' = [user EXCEPT ![u].password = password, ![u].revision = @ + 1]
NewEra(u) == era' = [era EXCEPT ![u] = @ + 1]
Complete(r, s) ==
    /\ key' = Put(key, KeyOf(r), [request |-> r, result |-> s])
    /\ applied' = Put(applied, r, IF r \in DOMAIN applied THEN applied[r] + 1 ELSE 1)
CanEdit(u) == user[u].revision < MaxRevision

Actor(p) == session[call[p].session].user
Become(p, stage) == call' = [call EXCEPT ![p].stage = stage]
Done(p) == call' = Without(call, p)

(***************************************************************************)
(* Requests come in, are authenticated and touch their session.            *)
(***************************************************************************)

Stale(s) == clock >= session[s].seen + TouchInterval
Arrived(s, stage) ==
    [stage |-> stage, session |-> s, at |-> clock,
     super |-> user[session[s].user].role = "super_admin"]

Authenticate(p, s) ==
    /\ p \notin DOMAIN call /\ Valid(s)
    /\ call' = Put(call, p, Arrived(s, IF Stale(s) THEN "touch" ELSE "ready"))
    /\ UNCHANGED <<clock, tables, era, applied>>

\* The session was replaced by an earlier try of the same change, maybe.
AuthenticateForRotation(p, s) ==
    /\ p \notin DOMAIN call /\ ~Valid(s) /\ Rotatable(s)
    /\ call' = Put(call, p, Arrived(s, "rotating"))
    /\ UNCHANGED <<clock, tables, era, applied>>

\* Mutant: the row is updated by its id alone.
MayTouchEnded(s, at) == session[s].seen <= at - TouchInterval
MayTouch(s, at) == Active(s) /\ session[s].seen <= at - TouchInterval

TouchSessionIfStale(p) ==
    /\ p \in DOMAIN call /\ call[p].stage = "touch"
    /\ LET s == call[p].session
           at == call[p].at
       IN  session' = IF MayTouch(s, at)
                      THEN [session EXCEPT ![s].seen = at,
                               ![s].expires = Idle(at, session[s].absolute)]
                      ELSE session
    /\ Become(p, "ready")
    /\ UNCHANGED <<clock, user, key, era, applied>>

Fail(p) ==
    /\ p \in DOMAIN call /\ Done(p)
    /\ UNCHANGED <<clock, tables, era, applied>>

(***************************************************************************)
(* Login.  The hash may be of older parameters and is then upgraded.       *)
(***************************************************************************)

Login(p, u, password, prior, upgrade) ==
    /\ p \notin DOMAIN call
    /\ Enabled(u) /\ user[u].password = password
    /\ call' = Put(call, p, [stage |-> "login", user |-> u, password |-> password,
                             prior |-> prior, upgrade |-> upgrade,
                             revision |-> user[u].revision, at |-> clock])
    /\ UNCHANGED <<clock, tables, era, applied>>

\* The session of the browser, if it is the user's own and still active.
Prior(c) == IF Active(c.prior) /\ session[c.prior].user = c.user THEN {c.prior} ELSE {}
DepthAfter(ended) == IF ended = {} THEN 0 ELSE session[CHOOSE s \in ended : TRUE].depth + 1

CommitLogin(p, s) ==
    /\ p \in DOMAIN call /\ call[p].stage = "login"
    /\ NextSession(s)
    /\ LET c == call[p]
           u == c.user
           row == Opened(u, c.at, DepthAfter(Prior(c)), era[u])
       IN  /\ Enabled(u)
           /\ c.upgrade => user[u].revision = c.revision /\ CanEdit(u)
           /\ user' = IF c.upgrade
                      THEN [user EXCEPT ![u].password = c.password, ![u].revision = @ + 1]
                      ELSE user
           /\ session' = Put([t \in DOMAIN session |->
                                 IF t \in Prior(c) THEN ReplacedBy(session[t], s) ELSE session[t]],
                             s, row)
    /\ Done(p)
    /\ UNCHANGED <<clock, key, era, applied>>

(***************************************************************************)
(* Change of the own password.  A try that finds the key completed answers *)
(* with the session of the first; the tokens are derived from the request. *)
(***************************************************************************)

ChangePassword(p, k, current, new) ==
    /\ p \in DOMAIN call /\ call[p].stage \in {"ready", "rotating"}
    /\ LET r == [op |-> "change", actor |-> Actor(p), session |-> call[p].session,
                 key |-> k, current |-> current, new |-> new]
       IN  IF Fresh(r)
           THEN call' = [call EXCEPT ![p] =
                            [stage |-> "verify", session |-> r.session, request |-> r, at |-> clock]]
           ELSE Done(p)
    /\ UNCHANGED <<clock, tables, era, applied>>

VerifyPassword(p) ==
    /\ p \in DOMAIN call /\ call[p].stage = "verify"
    /\ LET r == call[p].request
       IN  /\ Enabled(r.actor) /\ user[r.actor].password = r.current
           /\ call' = [call EXCEPT ![p] =
                          [stage |-> "commit", session |-> r.session, request |-> r,
                           revision |-> user[r.actor].revision, at |-> @.at]]
    /\ UNCHANGED <<clock, tables, era, applied>>

SameRevision(u, revision) == user[u].revision = revision
\* Mutant: what VerifyPassword has read is not compared with what is committed to.
EnabledStill(c) == Enabled(c.request.actor)
\* The user is as it was read, and the session the client came with is still there.
Unmoved(c) ==
    /\ Enabled(c.request.actor)
    /\ SameRevision(c.request.actor, c.revision) /\ Active(c.request.session)

CommitPasswordChange(p, s) ==
    /\ p \in DOMAIN call /\ call[p].stage = "commit"
    /\ LET r == call[p].request
           u == r.actor
           row == Opened(u, call[p].at, MaxDepth(u) + 1, era[u] + 1)
       IN  \/ /\ Replayed(r)
              /\ UNCHANGED <<tables, era, applied>>
           \/ /\ Fresh(r) /\ Unmoved(call[p]) /\ NextSession(s) /\ CanEdit(u)
              /\ session' = ReplaceAll(u, s, row)
              /\ NewPassword(u, r.new) /\ NewEra(u) /\ Complete(r, s)
    /\ Done(p)
    /\ UNCHANGED clock

(***************************************************************************)
(* The other handlers.  Each ends its request.                             *)
(***************************************************************************)

Ready(p) == p \in DOMAIN call /\ call[p].stage = "ready"
\* The role the administrator had when the request was authenticated.
Manages(p) == Ready(p) /\ call[p].super

RevokeCurrentSession(p) ==
    /\ Ready(p)
    /\ LET s == call[p].session
       IN  session' = IF Active(s) THEN [session EXCEPT ![s] = Revoked(@)] ELSE session
    /\ Done(p)
    /\ UNCHANGED <<clock, user, key, era, applied>>

NewUser(role, password) ==
    [role |-> role, enabled |-> TRUE, password |-> password, revision |-> 1]

\* admin-bootstrap, which runs beside the server and may run more than once.
CreateFirstSuperAdmin(u, password) ==
    /\ DOMAIN user = {}
    /\ user' = Put(user, u, NewUser("super_admin", password))
    /\ UNCHANGED <<clock, session, key, call, era, applied>>

CreateAdminUser(p, u, role, password) ==
    /\ Manages(p) /\ u \notin DOMAIN user
    /\ user' = Put(user, u, NewUser(role, password))
    /\ Done(p)
    /\ UNCHANGED <<clock, session, key, era, applied>>

\* Mutant: a last super admin keeps the role, but may be disabled.
LastSuperAdminRole(u, role, enabled) ==
    EnabledSuperAdmins = {u} /\ role # "super_admin"
LastSuperAdmin(u, role, enabled) ==
    /\ EnabledSuperAdmins = {u}
    /\ role # "super_admin" \/ ~enabled

UpdateAdminUser(p, u, expected, role, enabled) ==
    /\ Manages(p) /\ u \in DOMAIN user
    /\ SameRevision(u, expected) /\ CanEdit(u)
    /\ ~LastSuperAdmin(u, role, enabled)
    /\ user' = [user EXCEPT ![u].role = role, ![u].enabled = enabled, ![u].revision = @ + 1]
    /\ Done(p)
    /\ UNCHANGED <<clock, session, key, era, applied>>

ResetAdminUserPassword(p, k, u, expected, password) ==
    /\ Manages(p)
    /\ LET r == [op |-> "reset", actor |-> Actor(p), key |-> k, target |-> u,
                 expected |-> expected, new |-> password]
       IN  \/ /\ Replayed(r)
              /\ UNCHANGED <<tables, era, applied>>
           \/ /\ Fresh(r) /\ u \in DOMAIN user
              /\ SameRevision(u, expected) /\ CanEdit(u)
              /\ session' = RevokeAll(u)
              /\ NewPassword(u, password) /\ NewEra(u) /\ Complete(r, NotReplaced)
    /\ Done(p)
    /\ UNCHANGED clock

RevokeAdminUserSessions(p, k, u) ==
    /\ Manages(p)
    /\ LET r == [op |-> "revoke_user", actor |-> Actor(p), key |-> k, target |-> u]
       IN  \/ /\ Replayed(r)
              /\ UNCHANGED <<session, key, applied>>
           \/ /\ Fresh(r) /\ u \in DOMAIN user
              /\ session' = RevokeAll(u) /\ Complete(r, NotReplaced)
    /\ Done(p)
    /\ UNCHANGED <<clock, user, era>>

RevokeAdminSession(p, k, s) ==
    /\ Manages(p)
    /\ LET r == [op |-> "revoke_session", actor |-> Actor(p), key |-> k, target |-> s]
       IN  \/ /\ Replayed(r)
              /\ UNCHANGED <<session, key, applied>>
           \/ /\ Fresh(r) /\ s \in DOMAIN session
              /\ session' = IF Active(s) THEN [session EXCEPT ![s] = Revoked(@)] ELSE session
              /\ Complete(r, NotReplaced)
    /\ Done(p)
    /\ UNCHANGED <<clock, user, era>>

Over(row) == row.status = "active" /\ (row.expires <= clock \/ row.absolute <= clock)
ListAdminSessions(p) ==
    /\ Manages(p)
    /\ session' = [s \in DOMAIN session |->
                      IF Over(session[s]) THEN [session[s] EXCEPT !.status = "expired"]
                      ELSE session[s]]
    /\ Done(p)
    /\ UNCHANGED <<clock, user, key, era, applied>>

\* managerAuthIdempotencyTTL is over: the next reservation replaces the row.
ExpireKey(k) ==
    /\ k \in DOMAIN key
    /\ key' = Without(key, k)
    /\ UNCHANGED <<clock, user, session, call, era, applied>>

Tick ==
    /\ clock < MaxTime /\ clock' = clock + 1
    /\ UNCHANGED <<tables, call, era, applied>>

Init ==
    /\ clock = 0
    /\ user = Empty /\ session = Empty /\ key = Empty
    /\ call = Empty
    /\ era = [u \in Users |-> 0] /\ applied = Empty

SessionStep(p) ==
    \/ \E s \in Sessions :
          \/ Authenticate(p, s) \/ AuthenticateForRotation(p, s)
          \/ CommitLogin(p, s) \/ CommitPasswordChange(p, s)
    \/ TouchSessionIfStale(p) \/ Fail(p)
    \/ \E u \in Users, password \in Passwords, prior \in DOMAIN session \cup {NotReplaced} :
           \E upgrade \in BOOLEAN : Login(p, u, password, prior, upgrade)
    \/ \E k \in Keys, current, new \in Passwords : ChangePassword(p, k, current, new)
    \/ VerifyPassword(p)
    \/ RevokeCurrentSession(p)

AdminStep(p) ==
    \/ \E u \in Users, role \in Roles, password \in Passwords : CreateAdminUser(p, u, role, password)
    \/ \E u \in Users, expected \in 1..MaxRevision, role \in Roles, enabled \in BOOLEAN :
           UpdateAdminUser(p, u, expected, role, enabled)
    \/ \E k \in Keys, u \in Users, expected \in 1..MaxRevision, password \in Passwords :
           ResetAdminUserPassword(p, k, u, expected, password)
    \/ \E k \in Keys, u \in Users : RevokeAdminUserSessions(p, k, u)
    \/ \E k \in Keys, s \in Sessions : RevokeAdminSession(p, k, s)
    \/ ListAdminSessions(p)

Next ==
    \/ \E p \in Calls : SessionStep(p) \/ AdminStep(p)
    \/ \E u \in Users, password \in Passwords : CreateFirstSuperAdmin(u, password)
    \/ \E k \in DOMAIN key : ExpireKey(k)
    \/ Tick

Spec == Init /\ [][Next]_vars

(***************************************************************************)
(* Properties.                                                             *)
(***************************************************************************)

Row == [role : Roles, enabled : BOOLEAN, password : Passwords, revision : Nat]
SessionRow ==
    [user : Users, status : {"active", "revoked", "expired"}, depth : Nat,
     replaced : Sessions \cup {NotReplaced}, seen : Nat, expires : Nat, absolute : Nat, era : Nat]
Served ==
    [stage : {"touch", "ready", "rotating"}, session : Sessions, at : Nat, super : BOOLEAN]
    \cup [stage : {"login"}, user : Users, password : Passwords,
          prior : Sessions \cup {NotReplaced}, upgrade : BOOLEAN, revision : Nat, at : Nat]
    \cup [stage : {"verify"}, session : Sessions, request : ChangeRequests, at : Nat]
    \cup [stage : {"commit"}, session : Sessions, request : ChangeRequests, revision : Nat, at : Nat]

\* The tables and the requests in service are well formed: ids refer to rows, and
\* no session, however often it is touched, lives beyond its absolute end.
TypeOK ==
    /\ clock \in 0..MaxTime
    /\ DOMAIN user \subseteq Users /\ \A u \in DOMAIN user : user[u] \in Row
    /\ DOMAIN session \subseteq Sessions
    /\ \A s \in DOMAIN session : session[s] \in SessionRow /\ session[s].user \in DOMAIN user
                              /\ session[s].expires <= session[s].absolute
    /\ \A k \in DOMAIN key : key[k].request \in Requests /\ KeyOf(key[k].request) = k
                             /\ key[k].result \in DOMAIN session \cup {NotReplaced}
    /\ DOMAIN call \subseteq Calls /\ \A p \in DOMAIN call : call[p] \in Served
    /\ era \in [Users -> Nat]
    /\ DOMAIN applied \subseteq Requests /\ \A r \in DOMAIN applied : applied[r] \in Nat

\* Once there are administrators, one of them is an enabled super admin:
\* UpdateAdminUser refuses the edit that would leave none (ErrLastSuperAdmin),
\* also when administrators demote and disable each other at once.
SomeSuperAdmin == DOMAIN user # {} => EnabledSuperAdmins # {}

\* A session that was replaced points to a deeper one of the same user, so that
\* no chain of replacements ends in itself (replacement_depth, replaced_by_depth).
ReplacementsAscend ==
    \A s \in DOMAIN session : session[s].replaced # NotReplaced =>
        /\ session[s].status = "revoked"
        /\ session[s].replaced \in DOMAIN session
        /\ session[session[s].replaced].user = session[s].user
        /\ session[session[s].replaced].depth > session[s].depth

\* No active session is older than the password of its user: a change or a
\* reset leaves none but the session the change itself opens.
NoSessionOutlivesItsPassword ==
    \A s \in DOMAIN session : session[s].status = "active" => session[s].era = era[session[s].user]

\* A client that lost the answer to its change of password can still fetch it:
\* while the key is kept, the session it was sent with is let in once more.
LostAnswersCanBeFetched ==
    \A k \in DOMAIN key :
        LET r == key[k].request
        IN  r.op = "change" /\ Enabled(r.actor) =>
                Rotatable(r.session) /\ session[key[k].result].user = r.actor

\* The rows of the tables are well formed, no chain of replacements ends in itself,
\* and a change or a reset of a password ends every session opened before it:
\* CommitLogin, CommitPasswordChange, ResetAdminUserPassword.
SessionsAreSound == TypeOK /\ ReplacementsAscend /\ NoSessionOutlivesItsPassword

\* A session that was revoked or has expired never changes again, whatever the
\* requests it was still authenticated for do.
EndedIsFinal ==
    [][\A s \in DOMAIN session : ~Active(s) => session'[s] = session[s]]_vars

Times(r) == IF r \in DOMAIN applied THEN applied[r] ELSE 0

\* A change overwrites the very password its caller has proved to know, not one
\* that an administrator has set between VerifyPassword and the commit.
ChangesReplaceWhatTheyVerified ==
    [][\A r \in DOMAIN applied' :
           r.op = "change" /\ Times(r)' > Times(r) => user[r.actor].password = r.current]_vars

\* A change or a reset takes effect once, however late it is repeated; a
\* revocation is repeated only after its key has expired, so that a retry does
\* not end the sessions opened since.
RetriesTakeEffectOnce ==
    [][\A r \in DOMAIN applied :
           Times(r)' > Times(r) =>
               r.op \in {"revoke_user", "revoke_session"} /\ KeyOf(r) \notin DOMAIN key]_vars

\* A client may repeat what it had no answer to: it is not done again, and the
\* session that a change of the password opened can still be fetched:
\* CommitPasswordChange, LookupPasswordChange.
RepetitionsAreSafe == []LostAnswersCanBeFetched /\ RetriesTakeEffectOnce

=============================================================================
