------------------------------- MODULE MCBot -------------------------------
(* Small instances of Bot: each scenario moves one part of it, or messages    *)
(* together with the settings, under crashes and starts.                     *)
EXTENDS Bot, Sequences, TLC

CONSTANTS a1, a2, g1, w1, w2, c1, c2, f1, f2, r1, r2

VARIABLE scenario

Text(command, mention) ==
    [command |-> command, mention |-> mention, matches |-> {}, parts |-> <<>>]

\* A text that all features would answer, a question, and a command that is an
\* ordinary text unless the bot is mentioned.
MCMessages ==
    {[Text("none", FALSE) EXCEPT !.matches = {"custom", "link", "keyword"},
                                 !.parts = <<"chain", "file">>],
     Text("/ai", FALSE)}

\* One of each of the others, which come alone.
OtherMessages ==
    {Text("/admin", TRUE), Text("/q", FALSE), Text("/test", FALSE), Text("joined", FALSE),
     [Text("empty", FALSE) EXCEPT !.matches = {"link"}],
     [Text("none", FALSE) EXCEPT !.matches = {"keyword"}, !.parts = <<"file", "rejected", "chain">>]}

AllMessages == MCMessages \cup OtherMessages

Alone == \A w \in Workers : handler'[w].message \in OtherMessages => arrived' = 1

\* Workers and requests are alike: the first one comes first; and the second request
\* is written in one way and left to the automatic review.
FirstWorker == handler[w2] = Chat!Idle /\ handler'[w2] # Chat!Idle => handler[w1] # Chat!Idle
FirstRequest ==
    application'[r2].seen => application'[r1].seen /\ application'[r2].comment.labels # {}
                              /\ application'[r2].by # "manual"

\* Everything, and what begins in the middle of the first day, by days; and
\* everything by hours.
MCWindows ==
    {[from |-> 0, to |-> MaxTime + 1, daily |-> TRUE],
     [from |-> 1, to |-> MaxTime + 1, daily |-> TRUE],
     [from |-> 0, to |-> MaxTime + 1, daily |-> FALSE]}

\* Summaries are asked for from the end of the second day on when something was
\* stored, nothing was given up and the process is not about to stop; by hours, or
\* from the middle of the first day, on the third day.
Asking ==
    summary.pc = "idle" /\ summary'.pc = "read" =>
        /\ now >= MaxTime - 1 /\ worker = "run" /\ dropped = 0 /\ lost = {}
        /\ \E e \in DOMAIN at : stored[e] > 0
        /\ now = MaxTime \/ (summary'.query.from = 0 /\ summary'.query.daily)

\* Nothing is observed in the last half day.
Observing == at' # at => now < MaxTime

\* Maintenance begins on the second day's afternoon: before there is nothing to purge.
Maintaining == upkeep.pc = "idle" /\ upkeep'.pc = "loaded" => now >= 3

\* The process stops or crashes on the first day.
Ending == now < 2
Stopping == worker = "run" /\ worker' = "drain" => Ending

Handling == \E w \in Workers : Chat!Busy(w)

\* An administrator switches one feature while messages are handled.
Switching ==
    \/ \E f \in Fields, v \in Values : UpdateGroup(a1, g1, [x \in {f} |-> v], "done")
    \/ Apply

SwitchStep ==
    /\ Switching /\ Handling /\ groupRows'[g1].revision = 1 /\ seen[a1].groups[g1].revision = 0
    /\ IF snapshot' = snapshot THEN UNCHANGED messages ELSE Chat!NoteSettings
    /\ UNCHANGED <<telemetry, staging, review, studentRule>>

\* An application without labels, and the same with another major and labels.
MCComments ==
    {[number |-> "n1", major |-> "m1", labels |-> {}],
     [number |-> "n1", major |-> "m2", labels |-> {"number", "major"}]}

MCDatasets == {{"n1"}, {"n1", "short"}}

\* Administrators do one thing about the evidence or the roster.
Sparing ==
    Len(imports') + Cardinality(rebuilds')
        + Cardinality({r \in Applications : corrected'[r] # <<>>}) <= 1

\* Numbers of a year, a code and the rest; rules that read a code of one digit or of
\* two, that are off, and that do not fit together.
Codes(codes, name) == {[year |-> <<1>>, code |-> c, names |-> {name}] : c \in codes}
Position(offset, length) == [offset |-> offset, length |-> length]
MCRulePatches ==
    {[enabled |-> TRUE, year |-> Position(0, 1), code |-> Position(1, 1),
      table |-> Codes({<<1>>}, "m1") \cup Codes({<<2>>}, "m2")],
     [code |-> Position(1, 2), table |-> Codes({<<1, 1>>, <<1, 2>>}, "m2")],
     [table |-> Codes({<<1>>}, "m1") \cup Codes({<<1>>}, "m2")],
     [table |-> Codes({<<1>>}, "m2")],
     [code |-> Position(0, 1)], [enabled |-> FALSE]}
MCNumbers == {<<>>, <<1, 1>>, <<1, 1, 2>>, <<1, 2, 0>>, <<2, 1, 0>>, <<1, 10, 2>>}

\* Everything is on at first; with messages, everything may be off as well.
MCInit ==
    /\ BotInit /\ scenario \in {"settings", "messages", "telemetry", "staging", "review", "rule"}
    /\ scenario # "messages" => \A f \in Fields : globalRow.features[f] = "on"

MCNext ==
    /\ UNCHANGED scenario
    /\ \/ scenario = "settings" /\ SettingsStep
       \/ scenario = "messages" /\ (MessagesStep \/ SwitchStep) /\ Alone /\ FirstWorker
       \/ scenario = "telemetry" /\ TelemetryStep /\ Asking /\ Observing /\ Maintaining /\ Stopping
       \/ scenario = "staging" /\ StagingStep
       \/ scenario = "review" /\ ReviewStep /\ Sparing /\ FirstRequest
       \/ scenario = "rule" /\ RuleStep
       \/ /\ Die /\ (scenario = "telemetry" => Ending)
          /\ scenario = "messages" => Handling \/ gateway.generation = 1
       \/ StartProcess

MCSpec == MCInit /\ [][MCNext]_<<botVars, scenario>>
=============================================================================
