---------------------------- MODULE FileStaging ----------------------------
(***************************************************************************)
(* Staging of remote files: src/internal/messaging/flashfile/stager.go.    *)
(*                                                                         *)
(* Answers of the bot may send files from the web.  They are downloaded    *)
(* into a shared directory first, and NapCat uploads them from there.  A   *)
(* file that was staged lately is used again; whoever asks for one that is *)
(* being downloaded waits for that download.  Downloads clean the          *)
(* directory up and reserve room in it before they begin.                  *)
(***************************************************************************)
EXTENDS Integers, FiniteSets

CONSTANTS
    Callers,        \* calls of Stage at work
    Files,          \* source and name of what they ask for
    Slots,          \* downloads at once
    MaxFiles,       \* files in the directory
    StaleAfter,     \* for how long a file is used again
    CleanupGrace,   \* for how long it is kept after that
    MaxDownloads,   \* bound: directories ever made
    MaxClock        \* bound: time

StagingAssumption ==
    /\ IsFiniteSet(Callers) /\ IsFiniteSet(Files) /\ Files # {}
    /\ {Slots, MaxFiles, StaleAfter, CleanupGrace} \subseteq Nat \ {0}
    /\ {MaxDownloads, MaxClock} \subseteq Nat

VARIABLES
    clock,
    caller,         \* the call of Stage of each caller
    cache,          \* the directory that the cache knows for a file, or 0
    inflight,       \* files that are being downloaded
    reserved,       \* the room that downloads have reserved
    disk            \* directories: when they were made, 0 when there is none

stagingVars == <<clock, caller, cache, inflight, reserved, disk>>

-----------------------------------------------------------------------------

Directories == 1..MaxDownloads

\* What a caller does: it waits for another one's download, or for a slot, cleans
\* up, reserves room, downloads, publishes the result, and uses the file.
Steps == {"idle", "wait", "queue", "clean", "reserve", "download", "publish", "use"}
SlotSteps == {"clean", "reserve", "download"}

\* since is when the caller got the file.
Caller == [pc: Steps, file: Files, directory: 0..MaxDownloads, since: 0..MaxClock]
Done == [pc |-> "idle", file |-> CHOOSE f \in Files : TRUE, directory |-> 0, since |-> 0]

\* A directory is free, or holds a file, which may not be complete.
Directory == [made: -1..MaxClock, whole: BOOLEAN]
Unused == [made |-> -1, whole |-> FALSE]

StagingTypeOK ==
    /\ clock \in 0..MaxClock /\ caller \in [Callers -> Caller] /\ inflight \subseteq Files
    /\ cache \in [Files -> 0..MaxDownloads] /\ reserved \in 0..Slots
    /\ disk \in [Directories -> Directory]

OnDisk == {d \in Directories : disk[d] # Unused}

\* Directories are numbered as they are made; the cleanup may make room again.
NextDirectory == {d \in Directories : disk[d] = Unused /\ \A e \in 1..(d - 1) : disk[e] # Unused}

\* cachedOrBegin and removeStale: entries of the cache that are too old, or whose
\* file is gone, are dropped first.
Cached(limit) ==
    [f \in Files |-> IF cache[f] \in OnDisk /\ disk[cache[f]].made + limit > clock
                        THEN cache[f] ELSE 0]

Fresh == Cached(StaleAfter)

Set(c, r) == caller' = [caller EXCEPT ![c] = r]

-----------------------------------------------------------------------------
(* Stage.                                                                   *)

\* cachedOrBegin.
CachedOrBegin(c, f) ==
    /\ caller[c].pc = "idle"
    /\ cache' = Fresh
    /\ LET Begun(pc) == [Done EXCEPT !.pc = pc, !.file = f]
       IN CASE Fresh[f] # 0 ->
                  /\ Set(c, [Begun("use") EXCEPT !.directory = Fresh[f], !.since = clock])
                  /\ UNCHANGED inflight
            [] Fresh[f] = 0 /\ f \in inflight -> Set(c, Begun("wait")) /\ UNCHANGED inflight
            [] OTHER -> Set(c, Begun("queue")) /\ inflight' = inflight \cup {f}
    /\ UNCHANGED <<clock, reserved, disk>>

\* A caller that waits is cancelled.
StopWaiting(c) ==
    /\ caller[c].pc = "wait" /\ Set(c, Done)
    /\ UNCHANGED <<clock, cache, inflight, reserved, disk>>

TakeSlot(c) ==
    /\ caller[c].pc = "queue"
    /\ Cardinality({d \in Callers : caller[d].pc \in SlotSteps}) < Slots
    /\ Set(c, [caller[c] EXCEPT !.pc = "clean"])
    /\ UNCHANGED <<clock, cache, inflight, reserved, disk>>

\* Mutant: files go as soon as they are not used again.
KeptForStale == StaleAfter

\* For how long a file is kept.
KeptFor == StaleAfter + CleanupGrace

\* removeStale: directories that are older, unless the cache still holds them.
RemoveStale(c) ==
    LET kept == Cached(KeptFor)
    IN /\ caller[c].pc = "clean"
       /\ cache' = kept
       /\ disk' = [d \in Directories |->
                      IF disk[d].made < clock - KeptFor /\ \A f \in Files : kept[f] # d
                         THEN Unused ELSE disk[d]]
       /\ Set(c, [caller[c] EXCEPT !.pc = "reserve"])
       /\ UNCHANGED <<clock, inflight, reserved>>

HasRoom == Cardinality(OnDisk) + reserved + 1 <= MaxFiles

\* reserveStagingCapacity.
Reserve(c) ==
    /\ caller[c].pc = "reserve" /\ HasRoom
    /\ reserved' = reserved + 1
    /\ Set(c, [caller[c] EXCEPT !.pc = "download"])
    /\ UNCHANGED <<clock, cache, inflight, disk>>

\* The directory is made once the server has answered.
MakeDirectory(c) ==
    /\ caller[c].pc = "download" /\ caller[c].directory = 0
    /\ \E d \in NextDirectory :
          /\ disk' = [disk EXCEPT ![d] = [made |-> clock, whole |-> FALSE]]
          /\ Set(c, [caller[c] EXCEPT !.directory = d])
    /\ UNCHANGED <<clock, cache, inflight, reserved>>

\* The file is complete: its time is set and the room is given back.
Complete(c) ==
    /\ caller[c].pc = "download" /\ caller[c].directory # 0
    /\ disk' = [disk EXCEPT ![caller[c].directory] = [made |-> clock, whole |-> TRUE]]
    /\ reserved' = reserved - 1
    /\ Set(c, [caller[c] EXCEPT !.pc = "publish"])
    /\ UNCHANGED <<clock, cache, inflight>>

\* stage returns an error: in the queue, from the file system, for want of room, or
\* from the download.  What it has made is removed and its room is given back.
Fail(c) ==
    /\ caller[c].pc \in {"queue", "clean", "reserve", "download"}
    /\ disk' = [d \in Directories |-> IF d = caller[c].directory THEN Unused ELSE disk[d]]
    /\ reserved' = IF caller[c].pc = "download" THEN reserved - 1 ELSE reserved
    /\ Set(c, [caller[c] EXCEPT !.pc = "publish", !.directory = 0])
    /\ UNCHANGED <<clock, cache, inflight>>

\* finish: the cache learns of the file and all who waited get the result.
Finish(c) ==
    /\ caller[c].pc = "publish"
    /\ LET f == caller[c].file
           result == IF caller[c].directory = 0 THEN Done
                     ELSE [caller[c] EXCEPT !.pc = "use", !.since = clock]
       IN /\ caller' = [d \in Callers |->
                          IF d = c \/ (caller[d].pc = "wait" /\ caller[d].file = f)
                             THEN result ELSE caller[d]]
          /\ cache' = IF caller[c].directory = 0 THEN cache
                      ELSE [cache EXCEPT ![f] = caller[c].directory]
          /\ inflight' = inflight \ {f}
    /\ UNCHANGED <<clock, reserved, disk>>

\* NapCat has uploaded the file, or the call has failed.
Use(c) ==
    /\ caller[c].pc = "use" /\ Set(c, Done)
    /\ UNCHANGED <<clock, cache, inflight, reserved, disk>>

\* A request to NapCat takes less than the grace, a download less than the time a
\* file is kept.
PassClock ==
    /\ clock < MaxClock /\ clock' = clock + 1
    /\ \A c \in Callers :
          /\ caller[c].pc = "use" => clock < caller[c].since + CleanupGrace
          /\ caller[c].pc \in {"download", "publish"} /\ caller[c].directory # 0
                => clock < disk[caller[c].directory].made + StaleAfter
    /\ UNCHANGED <<caller, cache, inflight, reserved, disk>>

\* The end of the process leaves the directory as it is.
ForgetStaging ==
    /\ caller' = [c \in Callers |-> Done] /\ inflight' = {} /\ reserved' = 0
    /\ cache' = [f \in Files |-> 0]
    /\ UNCHANGED <<clock, disk>>

StagingInit ==
    /\ clock = 0 /\ caller = [c \in Callers |-> Done] /\ cache = [f \in Files |-> 0]
    /\ inflight = {} /\ reserved = 0 /\ disk = [d \in Directories |-> Unused]

StagingNext ==
    \/ \E c \in Callers, f \in Files : CachedOrBegin(c, f)
    \/ \E c \in Callers : \/ StopWaiting(c) \/ TakeSlot(c) \/ RemoveStale(c) \/ Reserve(c)
                          \/ MakeDirectory(c) \/ Complete(c) \/ Fail(c) \/ Finish(c) \/ Use(c)
    \/ PassClock

-----------------------------------------------------------------------------
(* Properties.                                                              *)

\* A file is complete and in its place for as long as a caller that was given it
\* may take to have it uploaded, although others clean up meanwhile and the file
\* came from the cache at the end of its time: cachedOrBegin, removeStale.
HandedOutStays ==
    \A c \in Callers : caller[c].pc = "use" => disk[caller[c].directory].whole

\* The directory never holds more files than it may, those of downloads at work
\* and those that a crash left included; and who waits for a download waits for
\* one that is at work: reserveStagingCapacity, finish.
DirectoryStaysSmall ==
    /\ Cardinality(OnDisk) <= MaxFiles
    /\ \A c \in Callers : caller[c].pc = "wait" =>
          \E d \in Callers : caller[d].file = caller[c].file /\ caller[d].pc \notin {"idle", "wait", "use"}
=============================================================================
