------------------------------ MODULE EventHub ------------------------------
(***************************************************************************)
(* The console's event stream: the hub that retains a bounded number of    *)
(* events, replays them to clients that come back and drops subscribers    *)
(* that cannot keep up; the handlers that authenticate a client, subscribe *)
(* it and write events to it until it leaves, is dropped, or loses its     *)
(* session or role; and the handlers that revoke (management/events/       *)
(* hub.go, management/api/events_handler.go, auth and users handlers).     *)
(*                                                                         *)
(* An event is the number of its publication; ids are opaque in the code.  *)
(* A client stands for one session of one user.                            *)
(***************************************************************************)
EXTENDS Integers, Sequences, FiniteSets, Functions

CONSTANTS
    Clients,
    Topics,             \* event topics; "auth" carries revocations
    Roles,              \* the sets of topics the roles may read
    Requested,          \* topics each client asks for; none means all it may read
    Capacity,           \* events the hub retains
    SubscriberBuffer,   \* events a subscriber may lag behind
    MaxEvents, MaxRestarts   \* bounds

ASSUME EventHubAssumption ==
    /\ "auth" \in Topics
    /\ Roles \subseteq SUBSET Topics /\ \A r \in Roles : "auth" \in r
    /\ Requested \in [Clients -> SUBSET Topics]
    /\ {Capacity, SubscriberBuffer} \subseteq Nat \ {0}
    /\ {MaxEvents, MaxRestarts} \subseteq Nat

VARIABLES
    log,        \* history: every event published, [topic, session]
    retained,   \* Hub.events: numbers of retained events, oldest first
    stream,     \* each client's request and its subscription
    granted,    \* topics the client's session and role allow; {} once revoked
    revoking,   \* what the handler that changed granted still has to do
    client,     \* what the client knows: its cursor and the events it was sent
    restarts

vars == <<log, retained, stream, granted, revoking, client, restarts>>

NoId == 0                   \* no Last-Event-ID
ResetId == MaxEvents + 1    \* the id of a stream.reset event, never retained

Off == [phase |-> "off", registered |-> FALSE, grant |-> {}, topics |-> {},
        buffer |-> <<>>, room |-> 0]

TopicOf(n) == IF n = ResetId THEN "system" ELSE log[n].topic

-----------------------------------------------------------------------------
(* The hub.                                                                *)

\* pruneLocked: the oldest events are past the retention time.
Pruned == {SubSeq(retained, k, Len(retained)) : k \in 1..Len(retained) + 1}

\* Overflow beyond the capacity drops the oldest events.
Kept(events) ==
    SubSeq(events, IF Len(events) > Capacity THEN Len(events) - Capacity + 1 ELSE 1, Len(events))

\* Mutant: a subscriber that lags behind misses the event and stays.
OfferedDrop(s, n) ==
    IF Len(s.buffer) < s.room THEN [s EXCEPT !.buffer = Append(@, n)] ELSE s

\* A subscriber whose buffer is full is closed; its handler may still write what
\* was in the buffer.
Offered(s, n) ==
    IF Len(s.buffer) < s.room THEN [s EXCEPT !.buffer = Append(@, n)]
    ELSE [s EXCEPT !.registered = FALSE]

PublishEvent(topic, session) ==
    LET n == Len(log) + 1 IN
    /\ n <= MaxEvents
    /\ log' = Append(log, [topic |-> topic, session |-> session])
    /\ \E events \in Pruned : retained' = Kept(Append(events, n))
    /\ stream' = [c \in Clients |->
         IF stream[c].registered /\ topic \in stream[c].topics
         THEN Offered(stream[c], n) ELSE stream[c]]

\* Any service publishes.
Publish(topic) ==
    /\ PublishEvent(topic, {})
    /\ UNCHANGED <<granted, revoking, client, restarts>>

\* A finite set of numbers in ascending order.
Ascending(S) ==
    CHOOSE order \in [1..Cardinality(S) -> S] :
        \A i, k \in 1..Cardinality(S) : i < k => order[i] < order[k]

\* The retained events after the cursor, of the subscriber's topics, as they were
\* published.
Replay(events, id, topics) ==
    LET cursor == CHOOSE i \in DOMAIN events : events[i] = id
        wanted == {i \in cursor + 1..Len(events) : TopicOf(events[i]) \in topics}
    IN [i \in 1..Cardinality(wanted) |-> events[Ascending(wanted)[i]]]

\* replayLocked: live, a replay, or a single reset.
InitialBuffer(events, id, topics) ==
    CASE id = NoId -> <<>>
      [] id \in Range(events) -> Replay(events, id, topics)
      [] OTHER -> <<ResetId>>

-----------------------------------------------------------------------------
(* The stream handler of client c.                                         *)

\* AuthenticatePassive on entry.
Authenticate(c) ==
    /\ stream[c].phase = "off" /\ granted[c] # {}
    /\ stream' = [stream EXCEPT ![c] = [Off EXCEPT !.phase = "checked", !.grant = granted[c]]]
    /\ UNCHANGED <<log, retained, granted, revoking, client, restarts>>

\* subscriptionTopics
Subscription(c) == IF Requested[c] = {} THEN stream[c].grant ELSE Requested[c]

\* Subscribe; what was granted may have changed since Authenticate.
Subscribe(c) ==
    LET topics == Subscription(c) IN
    /\ stream[c].phase = "checked"
    /\ Requested[c] \subseteq stream[c].grant
    /\ \E events \in Pruned :
         LET first == InitialBuffer(events, client[c].id, topics)
             anew == client[c].id = NoId \/ first = <<ResetId>>
         IN /\ retained' = events
            /\ stream' = [stream EXCEPT ![c] =
                 [@ EXCEPT !.phase = "on", !.registered = TRUE, !.topics = topics,
                           !.buffer = first, !.room = SubscriberBuffer + Len(first)]]
            /\ client' = [client EXCEPT ![c] =
                 IF anew THEN [@ EXCEPT !.base = Len(log), !.topics = topics]
                 ELSE [@ EXCEPT !.topics = client[c].topics \cap topics]]
    /\ UNCHANGED <<log, granted, revoking, restarts>>

Forbidden(c) ==
    /\ stream[c].phase = "checked" /\ ~(Requested[c] \subseteq stream[c].grant)
    /\ stream' = [stream EXCEPT ![c] = Off]
    /\ UNCHANGED <<log, retained, granted, revoking, client, restarts>>

\* The next buffered event is written and becomes the client's cursor; after the
\* revocation of its own session the handler returns.
Write(c) ==
    /\ stream[c].phase = "on" /\ stream[c].buffer # <<>>
    /\ LET n == Head(stream[c].buffer) IN
         /\ client' = [client EXCEPT ![c].id = n,
                                     ![c].heard = IF n = ResetId THEN @ ELSE Append(@, n)]
         /\ stream' = [stream EXCEPT ![c] =
              IF n # ResetId /\ c \in log[n].session THEN Off
              ELSE [@ EXCEPT !.buffer = Tail(stream[c].buffer)]]
    /\ UNCHANGED <<log, retained, granted, revoking, restarts>>

Quits(c) ==
    /\ stream' = [stream EXCEPT ![c] = Off]
    /\ UNCHANGED <<log, retained, granted, revoking, client, restarts>>

\* Done: the subscription was closed, buffered events or not.
Drop(c) == stream[c].phase = "on" /\ ~stream[c].registered /\ Quits(c)

\* Mutant: the heartbeat only checks that the session exists at all.
SameAuthorizationActive(c) == granted[c] # {}

\* sameStreamAuthorization
SameAuthorization(c) == granted[c] = stream[c].grant

\* The ticker authenticates again.
Heartbeat(c) == stream[c].phase = "on" /\ ~SameAuthorization(c) /\ Quits(c)

\* The connection breaks, the client goes away, or authentication is unavailable.
Leave(c) == stream[c].phase \in {"checked", "on"} /\ Quits(c)

-----------------------------------------------------------------------------
(* Revocations.                                                            *)

\* The session is revoked in the database ...
Revoke(c) ==
    /\ granted[c] # {} /\ revoking[c] = "no"
    /\ granted' = [granted EXCEPT ![c] = {}]
    /\ revoking' = [revoking EXCEPT ![c] = "publish"]
    /\ UNCHANGED <<log, retained, stream, client, restarts>>

\* ... then published ...
PublishRevocation(c) ==
    /\ revoking[c] = "publish"
    /\ IF Len(log) < MaxEvents THEN PublishEvent("auth", {c}) ELSE UNCHANGED <<log, retained, stream>>
    /\ revoking' = [revoking EXCEPT ![c] = "close"]
    /\ UNCHANGED <<granted, client, restarts>>

\* UpdateUser gives the user another role.
ChangeRole(c, role) ==
    /\ granted[c] # {} /\ role # granted[c] /\ revoking[c] = "no"
    /\ granted' = [granted EXCEPT ![c] = role]
    /\ revoking' = [revoking EXCEPT ![c] = "close"]
    /\ UNCHANGED <<log, retained, stream, client, restarts>>

\* CloseSession, CloseUser: subscriptions registered by then.
Close(c) ==
    /\ revoking[c] = "close"
    /\ stream' = [stream EXCEPT ![c].registered = FALSE]
    /\ revoking' = [revoking EXCEPT ![c] = "no"]
    /\ UNCHANGED <<log, retained, granted, client, restarts>>

\* The process restarts; the hub was in memory.
Restart ==
    /\ restarts < MaxRestarts
    /\ restarts' = restarts + 1
    /\ retained' = <<>>
    /\ stream' = [c \in Clients |-> Off]
    /\ revoking' = [c \in Clients |-> "no"]
    /\ UNCHANGED <<log, granted, client>>

-----------------------------------------------------------------------------

Init ==
    /\ log = <<>> /\ retained = <<>>
    /\ stream = [c \in Clients |-> Off]
    /\ granted \in [Clients -> Roles]
    /\ revoking = [c \in Clients |-> "no"]
    /\ client = [c \in Clients |-> [id |-> NoId, base |-> 0, topics |-> {}, heard |-> <<>>]]
    /\ restarts = 0

Serve(c) == Subscribe(c) \/ Forbidden(c) \/ Write(c) \/ Drop(c)
Revocation(c) == PublishRevocation(c) \/ Close(c)

Next ==
    \/ \E t \in Topics : Publish(t)
    \/ \E c \in Clients :
         \/ Authenticate(c) \/ Serve(c) \/ Heartbeat(c) \/ Leave(c)
         \/ Revoke(c) \/ Revocation(c)
         \/ \E r \in Roles : ChangeRole(c, r)
    \/ Restart

Spec == Init /\ [][Next]_vars

\* Handlers run on; the ticker goes on ticking and Go's select takes each ready
\* case with equal chance.  A client reads or its connection breaks (Leave).
Fairness == \A c \in Clients :
    WF_vars(Serve(c)) /\ WF_vars(Heartbeat(c)) /\ WF_vars(Revocation(c))
LiveSpec == Spec /\ Fairness

-----------------------------------------------------------------------------
(* Properties.                                                             *)

Ids == NoId..ResetId

\* What each variable holds; the hub retains the newest events, at most Capacity
\* (Hub), and a buffer never holds more than its channel's capacity.
TypeOK ==
    /\ Len(log) <= MaxEvents /\ Len(retained) <= Capacity
    /\ \A i \in DOMAIN retained : retained[i] = Len(log) - Len(retained) + i
    /\ \A c \in Clients :
         /\ stream[c].phase \in {"off", "checked", "on"}
         /\ Len(stream[c].buffer) <= stream[c].room
         /\ Range(stream[c].buffer) \subseteq Ids \ {NoId}
         /\ client[c].id \in Ids /\ client[c].topics \subseteq Topics
         /\ revoking[c] \in {"no", "publish", "close"}

LastHeard(c) ==
    IF client[c].heard = <<>> THEN 0 ELSE client[c].heard[Len(client[c].heard)]

\* Since it last started anew (without a cursor or with a reset) a client has had
\* every event of its topics up to the last one it has, in order and none of them
\* twice: whatever it lost in between by lagging, disconnecting or a restart was
\* replayed or reset (Publish's closing of full subscribers, replayLocked).
NoGap ==
    \A c \in Clients :
      /\ \A n \in client[c].base + 1 .. LastHeard(c) :
           log[n].topic \in client[c].topics => n \in Range(client[c].heard)
      /\ \A i, k \in DOMAIN client[c].heard :
           i < k => client[c].heard[i] < client[c].heard[k]

\* What waits for a client is of the topics its role allowed when its request was
\* authenticated (subscriptionTopics).
OnlyGrantedTopics ==
    \A c \in Clients : \A n \in Range(stream[c].buffer) \ {ResetId} :
      TopicOf(n) \in stream[c].grant

\* A client has all that it was granted, once and in order, and nothing else: Publish,
\* replayLocked, subscriptionTopics.
StreamsAreSound == TypeOK /\ NoGap /\ OnlyGrantedTopics

\* A stream whose session was revoked or whose role changed ends, also when the
\* change came between its authentication and its subscription, where CloseSession
\* and CloseUser find nothing to close (events_handler.go's heartbeat).
RevokedStreamsEnd ==
    \A c \in Clients :
      stream[c].phase = "on" /\ stream[c].grant # granted[c] ~>
        stream[c].phase # "on" \/ stream[c].grant = granted[c]

=============================================================================
