--------------------------- MODULE GroupMessages ---------------------------
(***************************************************************************)
(* Messages of groups: src/internal/bot/pipeline.go, command_router.go and *)
(* keyword_reply.go behind the connection of                               *)
(* src/internal/platform/napcat/adapter.go.                                *)
(*                                                                         *)
(* While the process is connected to NapCat, a loop takes events and gives *)
(* each to a worker, as long as there is a free slot.  A worker offers its *)
(* message to the features in turn, and reads the settings anew for each   *)
(* of them.  Questions to the language model go on in goroutines of their  *)
(* own, with slots of their own.  When the connection ends, the workers    *)
(* are cancelled and waited for before the gateway reports it; the         *)
(* questions are cancelled but not waited for.                             *)
(***************************************************************************)
EXTENDS Integers, Sequences, FiniteSets

CONSTANTS
    Workers,        \* slots for events that are handled at once
    AiSlots,        \* slots for questions to the language model
    Messages,       \* messages: what they are and what would answer them
    MaxMessages,    \* bound: messages
    MaxSessions     \* bound: connections

\* What an event is: one of the commands of GroupCommandRouter, an ordinary or an
\* empty text, or the notice that somebody has joined.
Commands == {"/test", "/reload", "/q", "/ai", "/admin", "none", "empty", "joined"}

\* Features that answer, apart from the fixed commands, and can be switched.
Features == {"quote", "ai", "custom", "link", "keyword", "welcome"}

\* Parts of a keyword's answer: a text alone, or chains of texts and images between
\* files; a file whose source is not valid is rejected by the parser.
Parts == {"text", "chain", "file", "rejected"}

Message == [command: Commands, mention: BOOLEAN, matches: SUBSET {"custom", "link", "keyword"},
            parts: Seq(Parts)]
NoMessage == [command |-> "none", mention |-> FALSE, matches |-> {}, parts |-> <<>>]

GroupMessagesAssumption ==
    /\ IsFiniteSet(Workers) /\ IsFiniteSet(AiSlots) /\ Messages \subseteq Message
    /\ \A m \in Messages : "keyword" \in m.matches => m.parts # <<>>
    /\ {MaxMessages, MaxSessions} \subseteq Nat

VARIABLES
    enabled,        \* features that the snapshot of the settings switches on
    gateway,        \* the state of the gateway that senders see
    session,        \* the loop of the connection: "none", "open" or "closing"
    handler,        \* the worker of each slot
    asking,         \* the goroutine of each slot of the language model
    arrived

messageVars == <<gateway, session, handler, asking, arrived>>

-----------------------------------------------------------------------------

\* What a caller learns of a call: done, refused, the client's own timeout, or
\* another failure (QQ timed out, the connection or the context ended).  Only after
\* a refusal is it certain that nothing was sent.
Outcomes == {"confirmed", "refused", "timeout", "failed"}

Repliers == Features \cup Commands \cup {"busy", "disabled"}

\* tried, answers, on and off are history: the parts of the keyword's answer with
\* their outcomes, what answered the message, and the features that were on, and
\* off, at some time since it arrived; counted: the statistics count the keyword.
Handler == [pc: {"idle", "route", "role", "custom", "link", "keyword", "reply", "parts",
                 "hint", "fallback"},
            message: Messages \cup {NoMessage}, generation: 0..MaxSessions, replier: Repliers,
            rest: Seq(Parts), tried: Seq([part: Parts \cup {"hint", "fallback"}, outcome: Outcomes]),
            counted: BOOLEAN, answers: SUBSET Repliers, on: SUBSET Features, off: SUBSET Features]

Idle == [pc |-> "idle", message |-> NoMessage, generation |-> 0, replier |-> "none",
         rest |-> <<>>, tried |-> <<>>, counted |-> FALSE, answers |-> {}, on |-> {}, off |-> {}]

Question == [pc: {"free", "asking", "answering", "failing"}, generation: 0..MaxSessions]
FreeSlot == [pc |-> "free", generation |-> 0]

MessagesTypeOK ==
    /\ enabled \subseteq Features
    /\ gateway \in [connected: BOOLEAN, generation: 0..MaxSessions]
    /\ session \in {"none", "open", "closing"} /\ handler \in [Workers -> Handler]
    /\ asking \in [AiSlots -> Question] /\ arrived \in 0..MaxMessages

Busy(w) == handler[w].pc # "idle"
Go(w, pc) == handler' = [handler EXCEPT ![w].pc = pc]
ReplyBy(w, f) == handler' = [handler EXCEPT ![w].pc = "reply", ![w].replier = f]
Leave(w) == Go(w, "idle")

\* A worker's step that touches nothing else.
OnlyHandler == UNCHANGED <<gateway, session, asking, arrived>>

-----------------------------------------------------------------------------
(* The connection.                                                          *)

\* DialWebSocket succeeds: Attach.
Connect ==
    /\ session = "none" /\ gateway.generation < MaxSessions
    /\ session' = "open"
    /\ gateway' = [connected |-> TRUE, generation |-> gateway.generation + 1]
    /\ UNCHANGED <<handler, asking, arrived>>

\* The stream of events ends: the context of the session is cancelled.
Disconnect ==
    /\ session = "open" /\ session' = "closing"
    /\ UNCHANGED <<gateway, handler, asking, arrived>>

\* Mutant: sessionWorkers.Close does not wait.
WorkersDoneAlways == TRUE

\* sessionWorkers.Close waits for the workers of the session.
WorkersDone == \A w \in Workers : ~Busy(w)

\* Detach, and the loop of Serve goes on.
Close ==
    /\ session = "closing" /\ WorkersDone
    /\ session' = "none" /\ gateway' = [gateway EXCEPT !.connected = FALSE]
    /\ UNCHANGED <<handler, asking, arrived>>

\* consume takes the next event once there is a free slot.
Arrive(w, m) ==
    /\ session = "open" /\ ~Busy(w) /\ arrived < MaxMessages
    /\ arrived' = arrived + 1
    /\ handler' = [handler EXCEPT ![w] =
                      [Idle EXCEPT !.pc = "route", !.message = m, !.generation = gateway.generation,
                                   !.on = enabled, !.off = Features \ enabled]]
    /\ UNCHANGED <<gateway, session, asking>>

\* Outcomes of a call of NapCat in the context of a session.
Calls(generation) ==
    IF session = "open" /\ generation = gateway.generation THEN Outcomes ELSE {"refused", "failed"}

-----------------------------------------------------------------------------
(* GroupCommandRouter.Handle.                                               *)

RoutesTo(w, command) == handler[w].pc = "route" /\ handler[w].message.command = command
Mentioned(w) == handler[w].message.mention

RouteFixed(w) ==
    /\ RoutesTo(w, "/test") \/ (RoutesTo(w, "empty") /\ Mentioned(w))
    /\ ReplyBy(w, handler[w].message.command) /\ OnlyHandler

\* A message that no command takes goes on to the custom commands.
RouteOther(w) ==
    /\ \/ RoutesTo(w, "none")
       \/ ~Mentioned(w) /\ (RoutesTo(w, "empty") \/ RoutesTo(w, "/admin"))
    /\ Go(w, "custom") /\ OnlyHandler

\* handleReload and handleAdmin look up the role of the sender first.
RouteAdmin(w) ==
    /\ RoutesTo(w, "/reload") \/ (RoutesTo(w, "/admin") /\ Mentioned(w))
    /\ Go(w, "role") /\ OnlyHandler

\* authorizeNativeAdmin and the command behind it: each of them says how it went,
\* unless the restart of NapCat, an export or a command on scheduled jobs fails.
ExecuteCommand(w) ==
    /\ handler[w].pc = "role"
    /\ \/ ReplyBy(w, handler[w].message.command)
       \/ handler[w].message.command = "/admin" /\ Leave(w)
    /\ OnlyHandler

\* handleQuote says so as well when it has no image.
RouteQuote(w) ==
    /\ RoutesTo(w, "/q")
    /\ ReplyBy(w, IF "quote" \in enabled THEN "quote" ELSE "disabled") /\ OnlyHandler

FreeSlots == {s \in AiSlots : asking[s].pc = "free"}

\* startAI takes a slot without waiting, and the worker is done.
RouteQuestion(w) ==
    /\ RoutesTo(w, "/ai") /\ "ai" \in enabled
    /\ IF FreeSlots = {} THEN ReplyBy(w, "busy") /\ UNCHANGED asking
       ELSE /\ \E s \in FreeSlots :
                  asking' = [asking EXCEPT ![s] = [pc |-> "asking",
                                                   generation |-> handler[w].generation]]
            /\ Leave(w)
    /\ UNCHANGED <<gateway, session, arrived>>

RefuseQuestion(w) ==
    /\ RoutesTo(w, "/ai") /\ "ai" \notin enabled
    /\ ReplyBy(w, "disabled") /\ OnlyHandler

\* HandleGroupIncrease: the switch and the text come from one look at the settings.
Welcome(w) ==
    /\ RoutesTo(w, "joined")
    /\ IF "welcome" \in enabled THEN ReplyBy(w, "welcome") ELSE Leave(w)
    /\ OnlyHandler

-----------------------------------------------------------------------------
(* HandleGroupMessage, after the router.                                    *)

\* A feature takes a message if it is on now and finds something to answer.
Offers(w, f) == f \in enabled /\ f \in handler[w].message.matches

\* handleCustomCommand: the command answers, ends without an answer (its role
\* lookup fails, or it is denied), or is not there any more.
Custom(w) ==
    /\ handler[w].pc = "custom"
    /\ \/ Offers(w, "custom") /\ (ReplyBy(w, "custom") \/ Leave(w))
       \/ Go(w, "link")
    /\ OnlyHandler

\* The link cleaner answers if it could clean a link; an empty text ends here.
Link(w) ==
    /\ handler[w].pc = "link"
    /\ \/ Offers(w, "link") /\ ReplyBy(w, "link")
       \/ handler[w].message.command # "empty" /\ Go(w, "keyword")
       \/ handler[w].message.command = "empty" /\ Leave(w)
    /\ OnlyHandler

\* LookupConflict answers with one message, Lookup with the parts of the answer.
Keyword(w) ==
    /\ handler[w].pc = "keyword"
    /\ \/ Offers(w, "keyword") /\ ReplyBy(w, "keyword")
       \/ /\ Offers(w, "keyword")
          /\ handler' = [handler EXCEPT ![w].pc = "parts", ![w].replier = "keyword",
                                        ![w].rest = handler[w].message.parts]
       \/ ~Offers(w, "keyword") /\ Leave(w)
    /\ OnlyHandler

\* A feature that replied ends the handling of the message.
AfterReply(w) == "idle"

\* A reply of one message.
SendReply(w, o) ==
    /\ handler[w].pc = "reply" /\ o \in Calls(handler[w].generation)
    /\ handler' = [handler EXCEPT ![w].pc = AfterReply(w),
                                  ![w].answers = IF o = "refused" THEN @
                                                 ELSE @ \cup {handler[w].replier}]
    /\ OnlyHandler

-----------------------------------------------------------------------------
(* sendKeywordReply.                                                        *)

\* One more attempt for part p of the answer, and where the worker goes on.
Tried(w, p, o, pc, rest) ==
    handler' = [handler EXCEPT ![w].pc = pc, ![w].rest = rest,
                               ![w].tried = Append(@, [part |-> p, outcome |-> o]),
                               ![w].answers = IF o = "refused" THEN @ ELSE @ \cup {"keyword"},
                               ![w].counted = pc = "idle" /\ o = "confirmed"]

\* isAmbiguousSendTimeout.  safeOperationError has replaced the error that says
\* that QQ timed out, so only the client's own timeout is recognised.
IsAmbiguousSendTimeout(o) == o = "timeout"

\* The reply is over with its last part.
Onward(rest) == IF rest = <<>> THEN "idle" ELSE "parts"

\* Mutant: a file that cannot be sent is left out.
AfterFailureSilent(p, rest) == IF p = "file" THEN Onward(rest) ELSE "fallback"

\* A file that was refused is replaced by a hint, a chain by the text of the whole
\* answer or a word that it is incomplete, after which the rest is not sent.
AfterFailure(p, rest) == IF p = "file" THEN "hint" ELSE "fallback"

SendPart(w, o) ==
    /\ handler[w].pc = "parts" /\ o \in Calls(handler[w].generation)
    /\ LET p == Head(handler[w].rest)
           rest == Tail(handler[w].rest)
       IN Tried(w, p, o,
                CASE o = "confirmed" -> Onward(rest)
                  [] o # "confirmed" /\ (p \in {"text", "rejected"} \/ IsAmbiguousSendTimeout(o)) -> "idle"
                  [] OTHER -> AfterFailure(p, rest),
                rest)
    /\ OnlyHandler

SendHint(w, o) ==
    /\ handler[w].pc = "hint" /\ o \in Calls(handler[w].generation)
    /\ Tried(w, "hint", o, IF o = "confirmed" THEN Onward(handler[w].rest) ELSE "idle", handler[w].rest)
    /\ OnlyHandler

SendFallback(w, o) ==
    /\ handler[w].pc = "fallback" /\ o \in Calls(handler[w].generation)
    /\ Tried(w, "fallback", o, "idle", handler[w].rest)
    /\ OnlyHandler

-----------------------------------------------------------------------------
(* The goroutine of a question: handleAI and what startAI defers.           *)

Slot(s, q) == asking' = [asking EXCEPT ![s] = q] /\ UNCHANGED <<gateway, session, handler, arrived>>

Answer(s) == asking[s].pc = "asking" /\ Slot(s, [asking[s] EXCEPT !.pc = "answering"])

\* AnswerWithSources fails or times out.
FailToAnswer(s) == asking[s].pc = "asking" /\ Slot(s, [asking[s] EXCEPT !.pc = "failing"])

\* The deferred calls run after a panic, too: safego.Recover, and the slot.
AfterPanic(s) == FreeSlot

Panic(s) == asking[s].pc = "asking" /\ Slot(s, AfterPanic(s))

SendAnswer(s, o) ==
    /\ asking[s].pc = "answering" /\ o \in Calls(asking[s].generation)
    /\ Slot(s, IF o = "confirmed" THEN FreeSlot ELSE [asking[s] EXCEPT !.pc = "failing"])

SendFailure(s, o) ==
    /\ asking[s].pc = "failing" /\ o \in Calls(asking[s].generation)
    /\ Slot(s, FreeSlot)

-----------------------------------------------------------------------------
(* What the settings and the end of the process do here.                    *)

\* The snapshot changes while messages are handled.
NoteSettings ==
    /\ handler' = [w \in Workers |->
                      IF Busy(w) THEN [handler[w] EXCEPT !.on = @ \cup enabled',
                                                         !.off = @ \cup (Features \ enabled')]
                                 ELSE handler[w]]
    /\ OnlyHandler

ForgetMessages ==
    /\ gateway' = [connected |-> FALSE, generation |-> gateway.generation] /\ session' = "none"
    /\ handler' = [w \in Workers |-> Idle] /\ asking' = [s \in AiSlots |-> FreeSlot]
    /\ UNCHANGED arrived

MessagesInit ==
    /\ gateway = [connected |-> FALSE, generation |-> 0] /\ session = "none"
    /\ handler = [w \in Workers |-> Idle] /\ asking = [s \in AiSlots |-> FreeSlot]
    /\ arrived = 0

WorkerStep(w) ==
    \/ RouteFixed(w) \/ RouteOther(w) \/ RouteAdmin(w) \/ ExecuteCommand(w) \/ RouteQuote(w)
    \/ RouteQuestion(w) \/ RefuseQuestion(w)
    \/ Custom(w) \/ Link(w) \/ Keyword(w) \/ Welcome(w)
    \/ \E o \in Outcomes : SendReply(w, o) \/ SendPart(w, o) \/ SendHint(w, o) \/ SendFallback(w, o)

QuestionStep(s) ==
    \/ Answer(s) \/ FailToAnswer(s) \/ Panic(s)
    \/ \E o \in Outcomes : SendAnswer(s, o) \/ SendFailure(s, o)

MessagesNext ==
    \/ Connect \/ Disconnect \/ Close
    \/ \E w \in Workers : WorkerStep(w) \/ \E m \in Messages : Arrive(w, m)
    \/ \E s \in AiSlots : QuestionStep(s)

-----------------------------------------------------------------------------
(* Properties.                                                              *)

\* At most one feature answers a message, and it was on at some time while the
\* message was handled; whoever is told that a feature is off can find it was:
\* HandleGroupMessage, GroupCommandRouter.Handle.
OneFeatureAnswers ==
    \A w \in Workers :
        LET h == handler[w]
        IN /\ Cardinality(h.answers) <= 1
           /\ h.answers \cap Features \subseteq h.on
           /\ "disabled" \in h.answers => h.off \cap {"quote", "ai"} # {}

\* The first n parts of the answer were tried, one after the other, and no other.
TriedInOrder(h, n) ==
    \E place \in [1..n -> DOMAIN h.tried] :
        /\ \A i, j \in 1..n : i < j => place[i] < place[j]
        /\ \A i \in 1..n : h.tried[place[i]].part = h.message.parts[i]
        /\ \A k \in DOMAIN h.tried : h.tried[k].part \in Parts => \E i \in 1..n : place[i] = k

\* The statistics count a keyword only if each part of its answer was sent, or a
\* hint for a file, or in the end the text instead of the rest: sendKeywordReply,
\* HandleGroupMessage ("successfully sent keyword replies" of the README).
CountedWasSent ==
    \A w \in Workers :
        LET h == handler[w]
            Failed(i) == h.tried[i].outcome # "confirmed"
        IN h.counted =>
              /\ h.tried # <<>>
              /\ \A i \in DOMAIN h.tried :
                    Failed(i) => /\ i < Len(h.tried) /\ ~Failed(i + 1)
                                 /\ h.tried[i + 1].part \in {"hint", "fallback"}
              /\ h.tried[Len(h.tried)].part = "fallback" \/ TriedInOrder(h, Len(h.message.parts))

\* Messages are handled in the session they came from: while the gateway is
\* connected no worker of an earlier session is left, and a worker that is still
\* at work keeps its session from being reported as over: sessionWorkers, Detach.
SessionsDoNotOverlap ==
    \A w \in Workers : Busy(w) => gateway.connected /\ handler[w].generation = gateway.generation
=============================================================================
