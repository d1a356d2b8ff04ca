---------------------- MODULE MCSystemAdministration -----------------------
(* Small instances of SystemAdministration.                                 *)
EXTENDS SystemAdministration, TLC

CONSTANTS k1, k2, h1, h2

\* The knowledge base as a start leaves it.
NoReloads ==
    /\ reloads = <<>> /\ source = 1 /\ bot = "idle"
    /\ \A h \in Requests : request[h].pc = "idle"

OneKey ==
    /\ \A o \in DOMAIN ops : ops[o].key = k1
    /\ \A h \in Handlers : handler[h].key # k2

\* NapCat restarts under two keys that do not expire.
NapCatAlone ==
    /\ NoReloads /\ audits = <<>> /\ \A h \in Handlers : handler[h] = Idle
    /\ Len(ops) <= 2 /\ expiries = 0 /\ \A o \in DOMAIN ops : ops[o].type = "napcat"

\* Restarts of the bot and NapCat under one key, a third one around a lost key;
\* one request at a time after a signal or a crash.
Restarting ==
    /\ NoReloads /\ audits = <<>> /\ OneKey
    /\ stops = 0 \/ handler[h2] = Idle
    /\ Len(ops) = 3 => Orphaned /\ ops[3].type = "napcat" /\ faults = 1

\* Two updates of the configuration.
Editing == NoReloads /\ ops = <<>> /\ \A h \in Handlers : handler[h].key = 0

\* One update around restarts of the bot.
Applying ==
    /\ NoReloads /\ Len(audits) <= 1 /\ expiries = 0
    /\ OneKey /\ \A o \in DOMAIN ops : ops[o].type = "bot"

\* Reloads alone, under signals and crashes: two of them, or one and the bot's.
Reloading ==
    /\ ops = <<>> /\ audits = <<>> /\ \A h \in Handlers : handler[h] = Idle
    /\ bot # "idle" => Len(reloads) <= 1
    /\ source = 1 \/ aged = 0

\* A reload under a restart of the bot, with a key that is lost.
Interrupting ==
    /\ Len(reloads) <= 1 /\ bot = "idle" /\ source = 1 /\ aged = 0 /\ audits = <<>>
    /\ OneKey /\ handler[h2] = Idle /\ Len(ops) <= 2 /\ \A o \in DOMAIN ops : ops[o].type = "bot"

Scenarios ==
    NapCatAlone \/ Restarting \/ Editing \/ Applying \/ Reloading \/ Interrupting
=============================================================================
