-------------------------- MODULE MCScheduledJobs --------------------------
(* Small instances of ScheduledJobs: one job in three scenarios.            *)
EXTENDS ScheduledJobs, TLC

CONSTANTS h1, h2, k1

VARIABLE scenario

\* A daily job of the morning, never edited.
Daily == \A j \in Jobs : ~job'[j].once /\ job'[j].half = 0 /\ job'[j].revision <= 1

\* The loop, over two days, a crash and a database fault.
Looping == scenario = "loop" /\ Daily /\ requests' = 0

\* Creation and edits under the loop until the next morning, or with a crash until
\* the end of the day.
Editing ==
    /\ scenario = "edit" /\ requests' = 0 /\ faults' = 0
    /\ now' <= 3 \/ (crashes' = 0 /\ now' <= 4)

\* Test sends of a job that the loop does not list.  Handlers are alike: the second
\* one begins while the first one is busy.
Testing ==
    /\ scenario = "test" /\ Daily /\ now' = 2
    /\ \A j \in Jobs : ~job'[j].enabled
    /\ tester[h2].pc = "idle" /\ tester'[h2].request # tester[h2].request /\ tester'[h2].request # 0
         => tester[h1].pc # "idle"

MCInit == Init /\ scenario \in {"loop", "edit", "test"}

MCNext == Next /\ (Looping \/ Editing \/ Testing) /\ UNCHANGED scenario

\* Only the environment is restricted, so the fairness is that of ScheduledJobs.
MCSpec == MCInit /\ [][MCNext]_<<vars, scenario>> /\ Fairness
=============================================================================
