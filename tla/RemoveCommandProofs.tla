------------------------ MODULE RemoveCommandProofs ------------------------
(***************************************************************************)
(* Theorems about RemoveCommand, for any number of processes and paths, any *)
(* choice of slots, any failing operations and any number of crashes.       *)
(***************************************************************************)
EXTENDS RemoveCommand, TLAPS

Steps == {"open", "transform", "read", "create", "write", "sync", "rename", "cleanup"} \cup Ended

HasTemp(step) == step \in {"write", "sync", "rename", "cleanup"}

ProcessesOK ==
    /\ process \in [Commands -> Processes]
    /\ \A c \in Commands : process[c].temp = "none" <=> ~HasTemp(process[c].at)

(* A change of a process's record keeps the processes' types.               *)
LEMMA MoveIsTyped ==
    ASSUME TypeOK, NEW c \in Commands,
           NEW p \in Processes, p.temp = "none" <=> ~HasTemp(p.at),
           process' = [process EXCEPT ![c] = p]
    PROVE  ProcessesOK'
BY DEF TypeOK, HasTemp, ProcessesOK

LEMMA StepIsProcess ==
    ASSUME NEW p \in Processes, NEW step \in Steps
    PROVE  /\ [p EXCEPT !.at = step] \in Processes
           /\ [p EXCEPT !.at = step].at = step
           /\ [p EXCEPT !.at = step].temp = p.temp
BY DEF Processes, Steps

(* The two ways in which an action moves a process.                         *)
LEMMA GoKeepsType ==
    ASSUME TypeOK, NEW c \in Commands, NEW step \in Steps,
           HasTemp(step) <=> HasTemp(process[c].at), Go(c, step)
    PROVE  ProcessesOK'
<1>1. process[c] \in Processes /\ (process[c].temp = "none" <=> ~HasTemp(process[c].at))
  BY DEF TypeOK, HasTemp
<1>. DEFINE moved == [process[c] EXCEPT !.at = step]
<1>2. process' = [process EXCEPT ![c] = moved]
  BY DEF Go
<1>3. moved \in Processes /\ (moved.temp = "none" <=> ~HasTemp(moved.at))
  BY <1>1, StepIsProcess
<1>. HIDE DEF moved
<1>. QED  BY <1>2, <1>3, MoveIsTyped

LEMMA GoWithTempKeepsType ==
    ASSUME TypeOK, NEW c \in Commands, NEW step \in Steps,
           NEW temp \in {"none", "partial", "full", "synced"},
           temp = "none" <=> ~HasTemp(step), GoWithTemp(c, step, temp)
    PROVE  ProcessesOK'
<1>1. process[c] \in Processes
  BY DEF TypeOK
<1>. DEFINE moved == [process[c] EXCEPT !.at = step, !.temp = temp]
<1>2. process' = [process EXCEPT ![c] = moved]
  BY DEF GoWithTemp
<1>3. moved \in Processes /\ (moved.temp = "none" <=> ~HasTemp(moved.at))
  <2>1. moved \in Processes /\ moved.at = step /\ moved.temp = temp
    BY <1>1 DEF Processes, Steps
  <2>. QED  BY <2>1
<1>. HIDE DEF moved
<1>. QED  BY <1>2, <1>3, MoveIsTyped

LEMMA RemainingIs ==
    ASSUME TypeOK, NEW c \in Commands
    PROVE  /\ Remaining(c) \in Contents
           /\ Remaining(c).slots = process[c].loaded.slots \ Clears(c, process[c].loaded)
           /\ Remaining(c).signed = process[c].loaded.signed
           /\ Remaining(c).went = process[c].loaded.went \cup {c}
BY DEF TypeOK, Processes, Contents, Remaining

LEMMA BlankIsContent == Blank \in Contents /\ Blank.went = {} /\ Blank.slots = {}
BY DEF Blank, Contents

LEMMA ResultIsFile == ASSUME TypeOK, NEW c \in Commands PROVE Result(c) \in Files
BY DEF TypeOK, Processes, Result, Apk, Files

LEMMA SettledIsFile == ASSUME NEW f \in Files PROVE Settled(f) \in Files
BY BlankIsContent DEF Settled, Absent, Files

-----------------------------------------------------------------------------
LEMMA InitType == Init => TypeOK
<1>. SUFFICES ASSUME Init PROVE TypeOK
  OBVIOUS
<1>1. Absent \in Files /\ \A content \in Original : Apk(content, TRUE) \in Files
  BY BlankIsContent DEF Absent, Apk, Files, Original
<1>2. Fresh \in Processes /\ Fresh.temp = "none" /\ Fresh.at = "open"
  BY BlankIsContent DEF Fresh, Processes
<1>3. disk \in [Paths -> Files]
  BY <1>1 DEF Init
<1>4. process \in [Commands -> Processes]
  BY <1>2 DEF Init
<1>5. \A c \in Commands : process[c].temp = "none" /\ process[c].at = "open"
  BY <1>2 DEF Init
<1>6. litter \in BOOLEAN
  BY DEF Init
<1>7. crashes \in 0 .. MaxCrashes
  <2>1. MaxCrashes \in Nat
    BY RemoveAssumption
  <2>. QED  BY <2>1 DEF Init
<1>. QED  BY <1>3, <1>4, <1>5, <1>6, <1>7 DEF Init, TypeOK

LEMMA DiesIsProcess ==
    ASSUME TypeOK, NEW c \in Commands
    PROVE  Dies(c) \in Processes /\ Dies(c).temp = "none" /\ Dies(c).at \in Ended
<1>1. process[c] \in Processes
  BY DEF TypeOK
<1>2. process[c].at \in Ended \/ process[c].at \notin Ended
  OBVIOUS
<1>. QED  BY <1>1, <1>2 DEF Processes, Dies, Ended

(* The moves of each action, before what it does to the disk.               *)
LEMMA ActionMoves ==
    ASSUME TypeOK, NEW c \in Commands,
           Open(c) \/ Transform(c) \/ Read(c) \/ CreateTemp(c) \/ WriteTemp(c) \/ SyncTemp(c)
           \/ Rename(c) \/ Cleanup(c) \/ Kill(c)
    PROVE  ProcessesOK'
<1>. USE DEF Steps, Ended, HasTemp, MayFail
<1>0. process[c] \in Processes
  BY DEF TypeOK
<1>1. CASE Open(c)
  <2>1. CASE disk[Source[c]].kind = "apk" /\ ~Go(c, "failed")
    <3>. DEFINE moved == [at |-> IF Op[c] = "get" THEN "read" ELSE "transform",
                          loaded |-> disk[Source[c]].holds, temp |-> "none", after |-> Removals]
    <3>1. process' = [process EXCEPT ![c] = moved]
      BY <1>1, <2>1 DEF Open
    <3>2. disk[Source[c]].holds \in Contents /\ Removals \in SUBSET Commands
      BY RemoveAssumption DEF TypeOK, Files, Removals
    <3>3. moved \in Processes /\ moved.temp = "none" /\ ~HasTemp(moved.at)
      BY <3>2 DEF Processes
    <3>. HIDE DEF moved
    <3>. QED  BY <3>1, <3>3, MoveIsTyped
  <2>2. CASE Go(c, "failed")
    BY <1>1, <2>2, GoKeepsType DEF Open
  <2>. QED  BY <1>1, <2>1, <2>2 DEF Open
<1>2. CASE Transform(c)
  <2>1. CASE ~Go(c, "failed")
    <3>. DEFINE moved == [process[c] EXCEPT !.at = "create", !.loaded = Remaining(c)]
    <3>1. process' = [process EXCEPT ![c] = moved]
      BY <1>2, <2>1 DEF Transform
    <3>2. moved \in Processes /\ moved.at = "create" /\ moved.temp = process[c].temp
      BY <1>0, RemainingIs DEF Processes
    <3>3. moved.temp = "none"
      BY <1>2, <3>2 DEF Transform, TypeOK
    <3>. HIDE DEF moved
    <3>. QED  BY <3>1, <3>2, <3>3, MoveIsTyped
  <2>. QED  BY <1>2, <2>1, GoKeepsType DEF Transform
<1>3. CASE Read(c)
  BY <1>3, GoKeepsType DEF Read
<1>4. CASE CreateTemp(c)
  BY <1>4, GoKeepsType, GoWithTempKeepsType DEF CreateTemp
<1>5. CASE WriteTemp(c)
  BY <1>5, GoKeepsType, GoWithTempKeepsType DEF WriteTemp
<1>6. CASE SyncTemp(c)
  BY <1>6, GoKeepsType, GoWithTempKeepsType DEF SyncTemp
<1>7. CASE Rename(c)
  BY <1>7, GoKeepsType, GoWithTempKeepsType DEF Rename
<1>8. CASE Cleanup(c)
  BY <1>8, GoWithTempKeepsType DEF Cleanup
<1>9. CASE Kill(c)
  <2>. DEFINE moved == Dies(c)
  <2>1. process' = [process EXCEPT ![c] = moved]
    BY <1>9 DEF Kill
  <2>2. moved \in Processes /\ moved.temp = "none" /\ ~HasTemp(moved.at)
    BY DiesIsProcess
  <2>. HIDE DEF moved
  <2>. QED  BY <2>1, <2>2, MoveIsTyped
<1>. QED  BY <1>1, <1>2, <1>3, <1>4, <1>5, <1>6, <1>7, <1>8, <1>9

LEMMA CrashSettles ==
    ASSUME TypeOK, Crash, NEW p \in Paths
    PROVE  disk'[p] \in {stable[p], Settled(disk[p])} /\ stable'[p] = disk'[p]
BY DEF Crash, AfterCrash

LEMMA StepType == TypeOK /\ [Next]_vars => TypeOK'
<1>. SUFFICES ASSUME TypeOK, [Next]_vars PROVE TypeOK'
  OBVIOUS
<1>. SUFFICES /\ ProcessesOK'
              /\ disk' \in [Paths -> Files] /\ stable' \in [Paths -> Files]
              /\ litter' \in BOOLEAN /\ crashes' \in 0 .. MaxCrashes
  BY DEF TypeOK, ProcessesOK, HasTemp
<1>1. ASSUME NEW c \in Commands,
             Open(c) \/ Transform(c) \/ Read(c) \/ CreateTemp(c) \/ WriteTemp(c) \/ SyncTemp(c)
             \/ Rename(c) \/ Cleanup(c) \/ Kill(c)
      PROVE  /\ ProcessesOK'
             /\ disk' \in [Paths -> Files] /\ stable' \in [Paths -> Files]
             /\ litter' \in BOOLEAN /\ crashes' \in 0 .. MaxCrashes
  <2>1. ProcessesOK'
    BY <1>1, ActionMoves
  <2>2. disk' \in [Paths -> Files]
    BY <1>1, ResultIsFile
      DEF TypeOK, Open, Transform, Read, CreateTemp, WriteTemp, SyncTemp, Rename, Cleanup, Kill
  <2>3. stable' = stable /\ crashes' = crashes
    BY <1>1 DEF Open, Transform, Read, CreateTemp, WriteTemp, SyncTemp, Rename, Cleanup, Kill
  <2>4. litter' \in BOOLEAN
    BY <1>1 DEF TypeOK, Open, Transform, Read, CreateTemp, WriteTemp, SyncTemp, Rename, Cleanup, Kill
  <2>. QED  BY <2>1, <2>2, <2>3, <2>4 DEF TypeOK
<1>2. ASSUME Crash
      PROVE  /\ ProcessesOK'
             /\ disk' \in [Paths -> Files] /\ stable' \in [Paths -> Files]
             /\ litter' \in BOOLEAN /\ crashes' \in 0 .. MaxCrashes
  <2>1. \A c \in Commands :
           Dies(c) \in Processes /\ Dies(c).temp = "none" /\ Dies(c).at \in Ended
    BY DiesIsProcess
  <2>2. ProcessesOK'
    BY <1>2, <2>1 DEF Crash, ProcessesOK, HasTemp, Ended
  <2>3. \A p \in Paths : disk'[p] \in Files
    BY <1>2, CrashSettles, SettledIsFile DEF TypeOK
  <2>4. \E f : disk' = [p \in Paths |-> f[p]]
    BY <1>2 DEF Crash, AfterCrash
  <2>5. disk' \in [Paths -> Files] /\ stable' \in [Paths -> Files]
    BY <1>2, <2>3, <2>4 DEF Crash
  <2>6. crashes' \in 0 .. MaxCrashes
    <3>1. MaxCrashes \in Nat
      BY RemoveAssumption
    <3>. QED  BY <1>2, <3>1 DEF Crash, TypeOK
  <2>7. litter' \in BOOLEAN
    BY <1>2 DEF Crash, TypeOK
  <2>. QED  BY <2>2, <2>5, <2>6, <2>7
<1>3. CASE UNCHANGED vars
  BY <1>3 DEF vars, TypeOK, ProcessesOK, HasTemp
<1>. QED  BY <1>1, <1>2, <1>3 DEF Next

(* A process has a temporary file exactly while it works on one, and files  *)
(* and processes keep their shape through failures, kills and crashes.      *)
THEOREM TypeCorrect == Spec => []TypeOK
BY InitType, StepType, PTL DEF Spec

-----------------------------------------------------------------------------
(* NothingTorn is not inductive: a process may be about to rename data that *)
(* was not synced, and a crash may bring back what it should not.           *)
WholeFiles ==
    /\ \A p \in Paths :
          /\ disk[p].kind # "torn" /\ disk[p].synced = TRUE
          /\ stable[p].kind # "torn" /\ stable[p].synced = TRUE
    /\ \A c \in Commands : process[c].at = "rename" => process[c].temp = "synced"

LEMMA InitWhole == Init => WholeFiles
<1>. SUFFICES ASSUME Init PROVE WholeFiles
  OBVIOUS
<1>1. \A p \in Paths : disk[p].kind # "torn" /\ disk[p].synced = TRUE
  BY DEF Init, Absent, Apk
<1>2. \A c \in Commands : process[c].at = "open"
  BY DEF Init, Fresh
<1>. QED  BY <1>1, <1>2 DEF Init, WholeFiles

LEMMA StepWhole == TypeOK /\ WholeFiles /\ [Next]_vars => WholeFiles'
<1>. SUFFICES ASSUME TypeOK, WholeFiles, [Next]_vars PROVE WholeFiles'
  OBVIOUS
<1>1. ASSUME NEW c \in Commands,
             Open(c) \/ Transform(c) \/ Read(c) \/ CreateTemp(c) \/ WriteTemp(c) \/ SyncTemp(c)
             \/ Cleanup(c) \/ Kill(c)
      PROVE  WholeFiles'
  <2>1. disk' = disk /\ stable' = stable
    BY <1>1 DEF Open, Transform, Read, CreateTemp, WriteTemp, SyncTemp, Cleanup, Kill
  <2>2. \A d \in Commands \ {c} : process'[d] = process[d]
    BY <1>1 DEF TypeOK, Open, Transform, Read, CreateTemp, WriteTemp, SyncTemp, Cleanup, Kill,
                Go, GoWithTemp, MayFail
  <2>3. process'[c].at = "rename" => process'[c].temp = "synced"
    <3>1. process[c] \in Processes /\ process \in [Commands -> Processes]
      BY DEF TypeOK
    <3>2. CASE Open(c) \/ Transform(c) \/ Read(c) \/ CreateTemp(c) \/ WriteTemp(c)
               \/ SyncTemp(c) \/ Cleanup(c)
      BY <3>1, <3>2 DEF Processes, Open, Transform, Read, CreateTemp, WriteTemp, SyncTemp,
                        Cleanup, Go, GoWithTemp, MayFail
    <3>3. CASE Kill(c)
      BY <3>1, <3>3, DiesIsProcess DEF Kill, Ended
    <3>. QED  BY <1>1, <3>2, <3>3
  <2>. QED  BY <2>1, <2>2, <2>3 DEF WholeFiles
<1>2. ASSUME NEW c \in Commands, Rename(c) PROVE WholeFiles'
  <2>1. process[c].temp = "synced"
    BY <1>2 DEF WholeFiles, Rename
  <2>2. Result(c).kind = "apk" /\ Result(c).synced = TRUE
    BY <2>1 DEF Result, Apk
  <2>3. \A p \in Paths : disk'[p] = disk[p] \/ disk'[p] = Result(c)
    BY <1>2 DEF TypeOK, Rename
  <2>4. \A d \in Commands : process'[d] = process[d] \/ process'[d].at \in {"done", "cleanup"}
    BY <1>2 DEF TypeOK, Processes, Rename, Go, GoWithTemp, MayFail
  <2>5. stable' = stable
    BY <1>2 DEF Rename
  <2>. QED  BY <2>2, <2>3, <2>4, <2>5 DEF WholeFiles
<1>3. ASSUME Crash PROVE WholeFiles'
  <2>1. \A p \in Paths : Settled(disk[p]) = disk[p]
    BY DEF WholeFiles, Settled
  <2>2. \A p \in Paths : disk'[p] \in {stable[p], disk[p]} /\ stable'[p] = disk'[p]
    BY <1>3, <2>1, CrashSettles
  <2>3. \A c \in Commands : process'[c].at # "rename"
    BY <1>3, DiesIsProcess DEF Crash, Ended
  <2>. QED  BY <2>2, <2>3 DEF WholeFiles
<1>4. CASE UNCHANGED vars
  BY <1>4 DEF vars, WholeFiles
<1>. QED  BY <1>1, <1>2, <1>3, <1>4 DEF Next

(* Whatever fails, is killed or crashes, in-place removal never leaves part *)
(* of an APK at any path.                                                   *)
THEOREM NothingIsTorn == Spec => []NothingTorn
<1>1. WholeFiles => NothingTorn
  BY DEF WholeFiles, NothingTorn
<1>. QED  BY <1>1, InitType, StepType, InitWhole, StepWhole, PTL DEF Spec

-----------------------------------------------------------------------------
(* FailedChangedNothing is not inductive either: what a command made must   *)
(* not have reached a file or another process before it is done, and a      *)
(* crash must not bring back a file of one that wrote nothing.              *)
OnlyDoneWrote ==
    \A c \in Commands : process[c].at # "done" =>
        /\ \A p \in Paths : c \notin disk[p].holds.went /\ c \notin stable[p].holds.went
        /\ \A x \in Commands \ {c} : c \notin process[x].loaded.went

LEMMA InitWrote == Init => OnlyDoneWrote
<1>. SUFFICES ASSUME Init PROVE OnlyDoneWrote
  OBVIOUS
<1>1. \A p \in Paths : disk[p].holds.went = {}
  BY BlankIsContent DEF Init, Absent, Apk, Original
<1>2. \A x \in Commands : process[x].loaded.went = {}
  BY BlankIsContent DEF Init, Fresh
<1>. QED  BY <1>1, <1>2 DEF Init, OnlyDoneWrote

(* What a step of a process does to it and to the others.                   *)
LEMMA ActionLoads ==
    ASSUME TypeOK, NEW c \in Commands,
           Open(c) \/ Transform(c) \/ Read(c) \/ CreateTemp(c) \/ WriteTemp(c) \/ SyncTemp(c)
           \/ Rename(c) \/ Cleanup(c) \/ Kill(c)
    PROVE  /\ process[c].at # "done"
           /\ \A x \in Commands \ {c} : process'[x] = process[x]
           /\ \/ process'[c].loaded = process[c].loaded
              \/ Open(c) /\ process'[c].loaded = disk[Source[c]].holds
              \/ Transform(c) /\ process'[c].loaded = Remaining(c)
<1>0. process \in [Commands -> Processes] /\ process[c] \in Processes
  BY DEF TypeOK
<1>1. process[c].at # "done"
  BY DEF Open, Transform, Read, CreateTemp, WriteTemp, SyncTemp, Rename, Cleanup, Kill, Ended
<1>2. \A x \in Commands \ {c} : process'[x] = process[x]
  BY <1>0 DEF Open, Transform, Read, CreateTemp, WriteTemp, SyncTemp, Rename, Cleanup, Kill,
         Go, GoWithTemp, MayFail
<1>3. CASE Open(c)
  BY <1>0, <1>1, <1>2, <1>3 DEF Open, Go, MayFail, Processes
<1>4. CASE Transform(c)
  <2>1. CASE process' = [process EXCEPT ![c].at = "create", ![c].loaded = Remaining(c)]
    BY <1>0, <1>1, <1>2, <1>4, <2>1 DEF Processes
  <2>2. CASE Go(c, "failed")
    BY <1>0, <1>1, <1>2, <2>2 DEF Go, Processes
  <2>. QED  BY <1>4, <2>1, <2>2 DEF Transform, MayFail
<1>5. CASE Kill(c)
  BY <1>0, <1>1, <1>2, <1>5 DEF Kill, Dies, Processes
<1>6. CASE Read(c) \/ CreateTemp(c) \/ WriteTemp(c) \/ SyncTemp(c) \/ Rename(c) \/ Cleanup(c)
  BY <1>0, <1>1, <1>2, <1>6
    DEF Read, CreateTemp, WriteTemp, SyncTemp, Rename, Cleanup, Go, GoWithTemp, MayFail, Processes
<1>. QED  BY <1>3, <1>4, <1>5, <1>6

LEMMA StepWrote == TypeOK /\ OnlyDoneWrote /\ [Next]_vars => OnlyDoneWrote'
<1>. SUFFICES ASSUME TypeOK, OnlyDoneWrote, [Next]_vars PROVE OnlyDoneWrote'
  OBVIOUS
<1>0. \A p \in Paths : disk[p].holds \in Contents
  BY DEF TypeOK, Files
<1>1. ASSUME NEW c \in Commands,
             Open(c) \/ Transform(c) \/ Read(c) \/ CreateTemp(c) \/ WriteTemp(c) \/ SyncTemp(c)
             \/ Rename(c) \/ Cleanup(c) \/ Kill(c)
      PROVE  OnlyDoneWrote'
  <2>1. SUFFICES ASSUME NEW d \in Commands, process'[d].at # "done"
                 PROVE  /\ \A p \in Paths : /\ d \notin disk'[p].holds.went
                                            /\ d \notin stable'[p].holds.went
                        /\ \A x \in Commands \ {d} : d \notin process'[x].loaded.went
    BY DEF OnlyDoneWrote
  <2>2. process[d].at # "done"
    BY <1>1, <2>1, ActionLoads
  <2>3. /\ \A p \in Paths : d \notin disk[p].holds.went /\ d \notin stable[p].holds.went
        /\ \A x \in Commands \ {d} : d \notin process[x].loaded.went
    BY <2>2 DEF OnlyDoneWrote
  <2>4. ASSUME NEW x \in Commands \ {d} PROVE d \notin process'[x].loaded.went
    <3>1. Source[x] \in Paths
      BY RemoveAssumption
    <3>. QED  BY <1>1, <2>3, <3>1, ActionLoads, RemainingIs
  <2>5. stable' = stable
    BY <1>1 DEF Open, Transform, Read, CreateTemp, WriteTemp, SyncTemp, Rename, Cleanup, Kill
  <2>6. ASSUME NEW p \in Paths PROVE d \notin disk'[p].holds.went
    <3>1. CASE disk' = disk
      BY <2>3, <3>1
    <3>2. CASE Rename(c) /\ disk' # disk
      <4>1. disk' = [disk EXCEPT ![Dest[c]] = Result(c)] /\ GoWithTemp(c, "done", "none")
        BY <3>2 DEF Rename
      <4>2. process'[c].at = "done"
        BY <4>1 DEF TypeOK, Processes, GoWithTemp
      <4>3. d # c
        BY <2>1, <4>2
      <4>4. disk'[p] = disk[p] \/ disk'[p].holds = process[c].loaded
        BY <4>1 DEF TypeOK, Result, Apk
      <4>. QED  BY <2>3, <4>3, <4>4
    <3>. QED  BY <1>1, <3>1, <3>2
                DEF Open, Transform, Read, CreateTemp, WriteTemp, SyncTemp, Cleanup, Kill
  <2>. QED  BY <2>3, <2>4, <2>5, <2>6
<1>3. ASSUME Crash PROVE OnlyDoneWrote'
  <2>1. \A p \in Paths : /\ disk'[p].holds.went \in {stable[p].holds.went, disk[p].holds.went, {}}
                         /\ stable'[p] = disk'[p]
    BY <1>3, CrashSettles, BlankIsContent DEF Settled, Absent
  <2>2. \A c \in Commands : /\ process[c].at = "done" => process'[c].at = "done"
                            /\ process'[c].loaded = process[c].loaded
    <3>1. ASSUME NEW c \in Commands
          PROVE  /\ process[c].at = "done" => Dies(c).at = "done"
                 /\ Dies(c).loaded = process[c].loaded
      <4>1. process[c] \in Processes
        BY DEF TypeOK
      <4>. QED  BY <4>1 DEF Processes, Dies, Ended
    <3>. QED  BY <1>3, <3>1 DEF Crash
  <2>. QED  BY <2>1, <2>2 DEF OnlyDoneWrote
<1>4. CASE UNCHANGED vars
  BY <1>4 DEF vars, OnlyDoneWrote
<1>. QED  BY <1>1, <1>3, <1>4 DEF Next

(* A removal that reports an error has left every file as it was, and left  *)
(* nothing to other removals that a file could hold, at every point of any  *)
(* number of other removals and crashes.                                    *)
THEOREM FailedRemovalIsHarmless == Spec => []FailedChangedNothing
<1>1. OnlyDoneWrote => FailedChangedNothing
  BY DEF OnlyDoneWrote, FailedChangedNothing
<1>. QED  BY <1>1, InitType, StepType, InitWrote, StepWrote, PTL DEF Spec

-----------------------------------------------------------------------------
Tidy == crashes = 0 /\ faults \cap {"cleanup", "kill"} = {} => ~litter

LEMMA StepTidy == TypeOK /\ Tidy /\ [Next]_vars => Tidy'
<1>1. ASSUME [Next]_vars PROVE faults' = faults
  BY <1>1 DEF Next, vars, Open, Transform, Read, CreateTemp, WriteTemp, SyncTemp, Rename,
              Cleanup, Kill, Crash
<1>2. SUFFICES ASSUME TypeOK, Tidy, [Next]_vars, crashes' = 0, faults \cap {"cleanup", "kill"} = {}
               PROVE  ~litter'
  BY <1>1 DEF Tidy
<1>3. ASSUME NEW c \in Commands,
             Open(c) \/ Transform(c) \/ Read(c) \/ CreateTemp(c) \/ WriteTemp(c) \/ SyncTemp(c)
             \/ Rename(c) \/ Cleanup(c) \/ Kill(c)
      PROVE  ~litter'
  <2>1. ~Kill(c) /\ "cleanup" \notin faults
    BY <1>2 DEF Kill
  <2>2. crashes = 0 /\ litter' = litter
    BY <1>2, <1>3, <2>1 DEF Open, Transform, Read, CreateTemp, WriteTemp, SyncTemp, Rename, Cleanup
  <2>. QED  BY <1>2, <2>2 DEF Tidy
<1>4. ~Crash
  BY <1>2 DEF Crash, TypeOK
<1>5. CASE UNCHANGED vars
  BY <1>2, <1>5 DEF vars, Tidy
<1>. QED  BY <1>2, <1>3, <1>4, <1>5 DEF Next

(* Without kills and crashes, and while os.Remove works, no removal leaves  *)
(* a temporary file, whichever of its steps fails.                          *)
THEOREM NoLitter == Spec => []NoTempLeft
<1>1. Init => Tidy
  BY DEF Init, Tidy
<1>2. TypeOK /\ Tidy => NoTempLeft
  BY DEF TypeOK, Tidy, NoTempLeft, Ended
<1>. QED  BY <1>1, <1>2, InitType, StepType, StepTidy, PTL DEF Spec

-----------------------------------------------------------------------------
(* RemovedIsNotRead follows the cleared slots through every content that    *)
(* has gone through a removal.                                              *)

InFlight == {"create", "write", "sync", "rename", "cleanup"}

(* A removal's result has gone through it, and a process knows only         *)
(* removals that were reported.                                             *)
OwnSteps ==
    \A x \in Commands :
        /\ process[x].at \in InFlight => x \in process[x].loaded.went
        /\ process[x].at \in InFlight \cup {"transform"} => Op[x] = "remove"
        /\ process[x].at = "read" => Op[x] = "get"
        /\ process[x].after \subseteq Removals

(* No removal that the content went through has left a slot it clears.      *)
Honest(content) ==
    \A d \in content.went : content.slots \cap Clears(d, process[d].loaded) = {}

(* The content has gone through d, or through one that overlooked d.        *)
Explained(d, content) ==
    d \in content.went \/ \E e \in content.went : Overlooks(e, d)

Traced ==
    crashes = 0 =>
        /\ \A p \in Paths : Honest(disk[p].holds)
        /\ \A x \in Commands : Honest(process[x].loaded)
        /\ \A d \in Removals : Explained(d, disk[Dest[d]].holds)
        /\ \A x \in Commands : \A d \in process[x].after :
              Source[x] = Dest[d] => Explained(d, process[x].loaded)

(* A step that opens no file, builds no result and puts nothing in place.   *)
Passing ==
    /\ UNCHANGED <<disk, crashes>> /\ Removals' = Removals
    /\ \A x \in Commands :
          process'[x].after = process[x].after /\ process'[x].loaded = process[x].loaded
    /\ OwnSteps'

(* A step that changes what process c holds, and nothing else.              *)
Moves(c) ==
    /\ UNCHANGED <<disk, crashes>> /\ Removals' = Removals /\ process[c].at # "done"
    /\ \A x \in Commands \ {c} : process'[x] = process[x]
    /\ OwnSteps'

Opens(c) ==
    /\ Moves(c)
    /\ process'[c].loaded = disk[Source[c]].holds /\ process'[c].after = Removals

Transforms(c) ==
    /\ Moves(c)
    /\ process'[c].loaded = Remaining(c) /\ process'[c].after = process[c].after

Reports(c) ==
    /\ UNCHANGED crashes /\ Removals' = Removals \cup {c} /\ c \notin Removals
    /\ \A x \in Commands :
          process'[x].after = process[x].after /\ process'[x].loaded = process[x].loaded
    /\ disk' = [disk EXCEPT ![Dest[c]] = Result(c)]
    /\ c \in process[c].loaded.went
    /\ OwnSteps'

(* Every action of a process is of one of these kinds.                      *)
LEMMA ActionKinds ==
    ASSUME TypeOK, OwnSteps, NEW c \in Commands,
           Open(c) \/ Transform(c) \/ Read(c) \/ CreateTemp(c) \/ WriteTemp(c) \/ SyncTemp(c)
           \/ Rename(c) \/ Cleanup(c) \/ Kill(c)
    PROVE  Passing \/ Opens(c) \/ Transforms(c) \/ Reports(c)
<1>0. /\ process \in [Commands -> Processes] /\ process[c] \in Processes
      /\ process[c].at # "done" /\ c \notin Removals
      /\ \A x \in Commands \ {c} : process'[x] = process[x]
      /\ UNCHANGED crashes
  BY ActionLoads
    DEF TypeOK, Open, Transform, Read, CreateTemp, WriteTemp, SyncTemp, Rename, Cleanup, Kill, Removals
<1>1. ASSUME ~(Op[c] = "remove" /\ process'[c].at = "done")
      PROVE  Removals' = Removals
  BY <1>0, <1>1 DEF Removals
<1>2. ASSUME Removals \subseteq Removals',
             process'[c].at \in InFlight => c \in process'[c].loaded.went,
             process'[c].at \in InFlight \cup {"transform"} => Op[c] = "remove",
             process'[c].at = "read" => Op[c] = "get",
             process'[c].after \subseteq Removals'
      PROVE  OwnSteps'
  BY <1>0, <1>2 DEF OwnSteps
<1>3. CASE Open(c) /\ process'[c].at # "failed"
  <2>1. /\ process'[c].at = IF Op[c] = "get" THEN "read" ELSE "transform"
        /\ process'[c].loaded = disk[Source[c]].holds /\ process'[c].after = Removals
        /\ disk' = disk
    BY <1>0, <1>3 DEF Open, Go, MayFail, Processes
  <2>2. Op[c] \in {"get", "remove"}
    BY RemoveAssumption
  <2>3. Removals' = Removals
    BY <1>1, <2>1
  <2>4. OwnSteps'
    BY <1>2, <2>1, <2>2, <2>3 DEF InFlight
  <2>. QED  BY <1>0, <2>1, <2>3, <2>4 DEF Opens, Moves
<1>4. CASE Transform(c) /\ process'[c].at # "failed"
  <2>1. process' = [process EXCEPT ![c].at = "create", ![c].loaded = Remaining(c)]
    BY <1>0, <1>4 DEF Transform, Go, MayFail, Processes
  <2>2. /\ process'[c].at = "create" /\ process'[c].loaded = Remaining(c)
        /\ process'[c].after = process[c].after
    BY <1>0, <2>1 DEF Processes
  <2>3. disk' = disk /\ process[c].at = "transform"
    BY <1>4 DEF Transform
  <2>4. Removals' = Removals
    BY <1>1, <2>2
  <2>5. OwnSteps'
    BY <1>2, <2>2, <2>3, <2>4, RemainingIs DEF OwnSteps
  <2>. QED  BY <1>0, <2>2, <2>3, <2>4, <2>5 DEF Transforms, Moves
<1>5. CASE Rename(c) /\ process'[c].at = "done"
  <2>1. process[c].at = "rename" /\ ~Go(c, "cleanup")
    BY <1>0, <1>5 DEF Rename, Go, Processes
  <2>2. disk' = [disk EXCEPT ![Dest[c]] = Result(c)] /\ GoWithTemp(c, "done", "none")
    BY <1>5, <2>1 DEF Rename, MayFail
  <2>3. process'[c].after = process[c].after /\ process'[c].loaded = process[c].loaded
    BY <1>0, <2>2 DEF GoWithTemp, Processes
  <2>4. c \in process[c].loaded.went /\ Op[c] = "remove" /\ process[c].after \subseteq Removals
    BY <2>1 DEF OwnSteps, InFlight
  <2>5. Removals' = Removals \cup {c}
    BY <1>0, <1>5, <2>4 DEF Removals
  <2>6. OwnSteps'
    BY <1>2, <1>5, <2>3, <2>4, <2>5 DEF InFlight
  <2>. QED  BY <1>0, <2>2, <2>3, <2>4, <2>5, <2>6 DEF Reports
<1>6. CASE /\ ~(Open(c) /\ process'[c].at # "failed") /\ ~(Transform(c) /\ process'[c].at # "failed")
           /\ ~(Rename(c) /\ process'[c].at = "done")
  <2>1. disk' = disk
    <3>1. CASE Rename(c)
      <4>1. ~GoWithTemp(c, "done", "none")
        BY <1>0, <1>6, <3>1 DEF GoWithTemp, Processes
      <4>. QED  BY <3>1, <4>1 DEF Rename
    <3>. QED  BY <3>1 DEF Open, Transform, Read, CreateTemp, WriteTemp, SyncTemp, Cleanup, Kill
  <2>2. /\ process'[c].after = process[c].after
        /\ process'[c].loaded = process[c].loaded
        /\ process'[c].at \in InFlight => process[c].at \in InFlight
        /\ process'[c].at = "transform" => process[c].at = "transform"
        /\ process'[c].at = "read" => process[c].at = "read"
        /\ process'[c].at = "done" => process[c].at = "read"
    <3>1. CASE Kill(c)
      BY <1>0, <3>1 DEF Kill, Dies, Ended, Processes, InFlight
    <3>2. CASE Open(c)
      BY <1>0, <1>6, <3>2 DEF Open, Go, MayFail, Processes, InFlight
    <3>3. CASE Transform(c)
      <4>1. CASE process' = [process EXCEPT ![c].at = "create", ![c].loaded = Remaining(c)]
        BY <1>0, <1>6, <3>3, <4>1 DEF Processes
      <4>. QED  BY <1>0, <3>3, <4>1 DEF Transform, Go, MayFail, Processes, InFlight
    <3>4. CASE CreateTemp(c)
      BY <1>0, <3>4 DEF CreateTemp, Go, GoWithTemp, MayFail, Processes, InFlight
    <3>5. CASE Read(c) \/ WriteTemp(c) \/ SyncTemp(c) \/ Rename(c) \/ Cleanup(c)
      BY <1>0, <1>6, <3>5 DEF Read, WriteTemp, SyncTemp, Rename, Cleanup, Go, GoWithTemp,
                      MayFail, Processes, InFlight
    <3>. QED  BY <3>1, <3>2, <3>3, <3>4, <3>5
  <2>3. process[c].at = "read" => Op[c] # "remove"
    BY DEF OwnSteps
  <2>4. Removals' = Removals
    BY <1>1, <2>2, <2>3
  <2>5. OwnSteps'
    BY <1>2, <2>2, <2>4 DEF OwnSteps
  <2>6. \A x \in Commands :
           process'[x].after = process[x].after /\ process'[x].loaded = process[x].loaded
    BY <1>0, <2>2
  <2>. QED  BY <1>0, <2>1, <2>4, <2>5, <2>6 DEF Passing
<1>. QED  BY <1>3, <1>4, <1>5, <1>6

LEMMA InitTraced == Init => OwnSteps /\ Traced
<1>. SUFFICES ASSUME Init PROVE OwnSteps /\ Traced
  OBVIOUS
<1>1. \A x \in Commands :
         process[x].at = "open" /\ process[x].after = {} /\ process[x].loaded.went = {}
  BY BlankIsContent DEF Init, Fresh
<1>2. Removals = {}
  BY <1>1 DEF Removals
<1>3. \A p \in Paths : disk[p].holds.went = {}
  BY BlankIsContent DEF Init, Absent, Apk, Original
<1>. QED  BY <1>1, <1>2, <1>3 DEF OwnSteps, Traced, InFlight, Honest

(* Every removal a content went through is a command.                       *)
LEMMA WentThrough ==
    ASSUME TypeOK
    PROVE  /\ \A p \in Paths : disk[p].holds.went \subseteq Commands
           /\ \A x \in Commands : process[x].loaded.went \subseteq Commands
           /\ Removals \subseteq Commands
           /\ \A x \in Commands : process[x].after \subseteq Commands
           /\ \A x \in Commands : Source[x] \in Paths /\ Dest[x] \in Paths
BY RemoveAssumption DEF TypeOK, Files, Contents, Processes, Removals

LEMMA PassingTraced ==
    ASSUME TypeOK, Traced, crashes = 0, Passing
    PROVE  Traced'
<1>1. \A d \in Commands :
         Clears(d, process'[d].loaded) = Clears(d, process[d].loaded)
  BY DEF Passing
<1>2. \A e, d \in Commands : Overlooks(e, d) => Overlooks(e, d)'
  BY DEF Passing, Overlooks
<1>3. \A p \in Paths : Honest(disk[p].holds)'
  BY <1>1, WentThrough DEF Passing, Traced, Honest
<1>4. \A x \in Commands : Honest(process[x].loaded)'
  BY <1>1, WentThrough DEF Passing, Traced, Honest
<1>5. \A d \in Removals' : Explained(d, disk[Dest[d]].holds)'
  BY <1>2, WentThrough DEF Passing, Traced, Explained
<1>6. ASSUME NEW x \in Commands, NEW d \in process'[x].after, Source[x] = Dest[d]
      PROVE  Explained(d, process[x].loaded)'
  <2>1. d \in process[x].after /\ process'[x].loaded = process[x].loaded
    BY <1>6 DEF Passing
  <2>2. Explained(d, process[x].loaded)
    BY <1>6, <2>1 DEF Traced
  <2>. QED  BY <1>2, <2>1, <2>2, WentThrough DEF Explained
<1>. QED  BY <1>3, <1>4, <1>5, <1>6 DEF Traced

(* When process c changes what it holds, nothing changes for a content that *)
(* has not gone through c.                                                  *)
LEMMA OthersUnmoved ==
    ASSUME TypeOK, OnlyDoneWrote, NEW c \in Commands, Moves(c)
    PROVE  /\ \A p \in Paths : c \notin disk[p].holds.went
           /\ \A x \in Commands \ {c} : c \notin process[x].loaded.went
           /\ \A d \in Commands \ {c} :
                 Clears(d, process'[d].loaded) = Clears(d, process[d].loaded)
           /\ \A e, d \in Commands : e # c /\ Overlooks(e, d) => Overlooks(e, d)'
<1>1. process[c].at # "done" /\ \A x \in Commands \ {c} : process'[x] = process[x]
  BY DEF Moves
<1>. QED  BY <1>1 DEF OnlyDoneWrote, Overlooks

LEMMA MoveTraced ==
    ASSUME TypeOK, OnlyDoneWrote, Traced, crashes = 0, NEW c \in Commands, Moves(c),
           Honest(process[c].loaded)',
           \A d \in process'[c].after : Source[c] = Dest[d] => Explained(d, process[c].loaded)'
    PROVE  Traced'
<1>1. disk' = disk /\ crashes' = crashes /\ Removals' = Removals
  BY DEF Moves
<1>2. ASSUME NEW p \in Paths PROVE Honest(disk[p].holds)'
  BY <1>1, WentThrough, OthersUnmoved DEF Traced, Honest
<1>3. ASSUME NEW x \in Commands PROVE Honest(process[x].loaded)'
  <2>1. CASE x # c
    <3>1. process'[x] = process[x]
      BY <2>1 DEF Moves
    <3>. QED  BY <2>1, <3>1, WentThrough, OthersUnmoved DEF Traced, Honest
  <2>. QED  BY <2>1
<1>4. ASSUME NEW d \in Removals' PROVE Explained(d, disk[Dest[d]].holds)'
  <2>1. d \in Removals /\ d \in Commands /\ Dest[d] \in Paths
    BY <1>1, <1>4, WentThrough
  <2>2. Explained(d, disk[Dest[d]].holds)
    BY <2>1 DEF Traced
  <2>. QED  BY <1>1, <2>1, <2>2, WentThrough, OthersUnmoved DEF Explained
<1>5. ASSUME NEW x \in Commands, NEW d \in process'[x].after, Source[x] = Dest[d]
      PROVE  Explained(d, process[x].loaded)'
  <2>1. CASE x # c
    <3>1. process'[x] = process[x]
      BY <2>1 DEF Moves
    <3>2. d \in Commands /\ Explained(d, process[x].loaded)
      BY <1>5, <3>1, WentThrough DEF Traced
    <3>. QED  BY <2>1, <3>1, <3>2, WentThrough, OthersUnmoved DEF Explained
  <2>. QED  BY <1>5, <2>1
<1>. QED  BY <1>2, <1>3, <1>4, <1>5 DEF Traced

LEMMA OpenTraced ==
    ASSUME TypeOK, OnlyDoneWrote, Traced, crashes = 0, NEW c \in Commands, Opens(c)
    PROVE  Traced'
<1>1. /\ Moves(c) /\ Source[c] \in Paths
      /\ process'[c].loaded = disk[Source[c]].holds /\ process'[c].after = Removals
  BY RemoveAssumption DEF Opens
<1>2. Honest(process[c].loaded)'
  BY <1>1, WentThrough, OthersUnmoved DEF Traced, Honest
<1>3. ASSUME NEW d \in process'[c].after, Source[c] = Dest[d]
      PROVE  Explained(d, process[c].loaded)'
  <2>1. d \in Removals /\ d \in Commands
    BY <1>1, <1>3, WentThrough
  <2>2. Explained(d, disk[Source[c]].holds)
    BY <1>3, <2>1 DEF Traced
  <2>. QED  BY <1>1, <2>1, <2>2, WentThrough, OthersUnmoved DEF Explained
<1>. QED  BY <1>1, <1>2, <1>3, MoveTraced

LEMMA TransformTraced ==
    ASSUME TypeOK, OnlyDoneWrote, Traced, crashes = 0, NEW c \in Commands, Transforms(c)
    PROVE  Traced'
<1>1. /\ Moves(c)
      /\ process'[c].loaded = Remaining(c) /\ process'[c].after = process[c].after
  BY DEF Transforms
<1>2. \A d \in Commands : Clears(d, process'[d].loaded) = Clears(d, process[d].loaded)
  <2>1. Clears(c, process'[c].loaded) = Clears(c, process[c].loaded)
    BY <1>1, RemainingIs DEF Clears
  <2>. QED  BY <1>1, <2>1, OthersUnmoved
<1>3. Honest(process[c].loaded)'
  BY <1>1, <1>2, RemainingIs, WentThrough DEF Traced, Honest
<1>4. \A e, d \in Commands : Overlooks(e, d) => Overlooks(e, d)'
  BY <1>1, OthersUnmoved DEF Overlooks
<1>5. ASSUME NEW d \in process'[c].after, Source[c] = Dest[d]
      PROVE  Explained(d, process[c].loaded)'
  <2>1. d \in Commands /\ Explained(d, process[c].loaded)
    BY <1>1, <1>5, WentThrough DEF Traced
  <2>. QED  BY <1>1, <1>4, <2>1, RemainingIs, WentThrough DEF Explained
<1>. QED  BY <1>1, <1>3, <1>5, MoveTraced

LEMMA ReportTraced ==
    ASSUME TypeOK, OwnSteps, Traced, crashes = 0, NEW c \in Commands, Reports(c)
    PROVE  Traced'
<1>1. /\ \A x \in Commands :
            process'[x].after = process[x].after /\ process'[x].loaded = process[x].loaded
      /\ Removals' = Removals \cup {c} /\ c \notin Removals /\ c \in process[c].loaded.went
  BY DEF Reports
<1>2. /\ disk'[Dest[c]].holds = process[c].loaded
      /\ \A p \in Paths \ {Dest[c]} : disk'[p] = disk[p]
  BY WentThrough DEF Reports, TypeOK, Result, Apk
<1>3. \A d \in Commands : Clears(d, process'[d].loaded) = Clears(d, process[d].loaded)
  BY <1>1
<1>4. \A e, d \in Commands : Overlooks(e, d) => Overlooks(e, d)'
  BY <1>1 DEF Overlooks
<1>5. ASSUME NEW p \in Paths PROVE Honest(disk[p].holds)'
  BY <1>2, <1>3, WentThrough DEF Traced, Honest
<1>6. ASSUME NEW x \in Commands PROVE Honest(process[x].loaded)'
  BY <1>1, <1>3, WentThrough DEF Traced, Honest
<1>7. ASSUME NEW d \in Removals' PROVE Explained(d, disk[Dest[d]].holds)'
  <2>0. d \in Commands /\ Dest[d] \in Paths
    BY <1>1, WentThrough
  <2>1. CASE d = c
    BY <1>1, <1>2, <2>1 DEF Explained
  <2>2. CASE d # c /\ Dest[d] # Dest[c]
    <3>1. Explained(d, disk[Dest[d]].holds) /\ disk'[Dest[d]] = disk[Dest[d]]
      BY <1>1, <1>2, <2>0, <2>2 DEF Traced
    <3>. QED  BY <1>4, <2>0, <3>1, WentThrough DEF Explained
  <2>3. CASE d # c /\ Dest[d] = Dest[c] /\ Source[c] = Dest[d] /\ d \in process[c].after
    <3>1. Explained(d, process[c].loaded)
      BY <2>3 DEF Traced
    <3>. QED  BY <1>2, <1>4, <2>0, <2>3, <3>1, WentThrough DEF Explained
  <2>4. CASE d # c /\ Dest[d] = Dest[c] /\ ~(Source[c] = Dest[d] /\ d \in process[c].after)
    <3>1. Overlooks(c, d)
      BY <2>4 DEF Overlooks
    <3>. QED  BY <1>1, <1>2, <1>4, <2>0, <2>4, <3>1 DEF Explained
  <2>. QED  BY <2>1, <2>2, <2>3, <2>4
<1>8. ASSUME NEW x \in Commands, NEW d \in process'[x].after, Source[x] = Dest[d]
      PROVE  Explained(d, process[x].loaded)'
  <2>1. d \in process[x].after /\ d \in Commands /\ process'[x].loaded = process[x].loaded
    BY <1>1, <1>8, WentThrough
  <2>2. Explained(d, process[x].loaded)
    BY <1>8, <2>1 DEF Traced
  <2>. QED  BY <1>4, <2>1, <2>2, WentThrough DEF Explained
<1>. QED  BY <1>5, <1>6, <1>7, <1>8 DEF Traced

LEMMA StepTraced ==
    TypeOK /\ OnlyDoneWrote /\ OwnSteps /\ Traced /\ [Next]_vars => OwnSteps' /\ Traced'
<1>. SUFFICES ASSUME TypeOK, OnlyDoneWrote, OwnSteps, Traced, [Next]_vars
              PROVE  OwnSteps' /\ Traced'
  OBVIOUS
<1>1. ASSUME crashes # 0, crashes' = crashes PROVE Traced'
  BY <1>1 DEF Traced
<1>2. CASE Passing
  BY <1>1, <1>2, PassingTraced DEF Passing
<1>3. ASSUME NEW c \in Commands, Opens(c) \/ Transforms(c) \/ Reports(c)
      PROVE  OwnSteps' /\ Traced'
  <2>1. OwnSteps' /\ crashes' = crashes
    BY <1>3 DEF Opens, Transforms, Reports, Moves
  <2>. QED  BY <1>1, <1>3, <2>1, OpenTraced, TransformTraced, ReportTraced
<1>4. ASSUME Crash PROVE OwnSteps' /\ Traced'
  <2>1. crashes' # 0
    BY <1>4, RemoveAssumption DEF Crash, TypeOK
  <2>2. \A x \in Commands :
           /\ process'[x].at \in Ended /\ process'[x].after = process[x].after
           /\ process[x].at = "done" => process'[x].at = "done"
    <3>1. ASSUME NEW x \in Commands
          PROVE  /\ Dies(x).at \in Ended /\ Dies(x).after = process[x].after
                 /\ process[x].at = "done" => Dies(x).at = "done"
      <4>1. process[x] \in Processes
        BY DEF TypeOK
      <4>. QED  BY <4>1, DiesIsProcess DEF Processes, Dies, Ended
    <3>. QED  BY <1>4, <3>1 DEF Crash
  <2>3. Removals \subseteq Removals'
    BY <2>2 DEF Removals
  <2>4. OwnSteps'
    BY <2>2, <2>3 DEF OwnSteps, InFlight, Ended
  <2>. QED  BY <2>1, <2>4 DEF Traced
<1>5. CASE UNCHANGED vars
  <2>1. Passing
    BY <1>5 DEF vars, Passing, Removals, OwnSteps
  <2>. QED  BY <1>2, <2>1 DEF Passing
<1>6. CASE \E c \in Commands :
             Open(c) \/ Transform(c) \/ Read(c) \/ CreateTemp(c) \/ WriteTemp(c) \/ SyncTemp(c)
             \/ Rename(c) \/ Cleanup(c) \/ Kill(c)
  <2>1. CASE Passing
    BY <1>2, <2>1 DEF Passing
  <2>. QED  BY <1>3, <1>6, <2>1, ActionKinds
<1>. QED  BY <1>4, <1>5, <1>6 DEF Next

(* A get that opens a file after the removal that wrote it was reported     *)
(* prints a channel of a slot that this removal cleared only where another  *)
(* removal replaced its result unseen; on blocks with and without a         *)
(* signature, in every mode, for any number of removals in flight, as long  *)
(* as the machine has not crashed.                                          *)
THEOREM RemovedStaysRemoved == Spec => []RemovedIsNotRead
<1>1. ASSUME TypeOK, Traced PROVE RemovedIsNotRead
  <2>1. SUFFICES ASSUME NEW c \in Commands, NEW d \in Commands, crashes = 0,
                        d \in process[c].after, Dest[d] = Source[c],
                        NEW slot \in Clears(d, process[d].loaded), Prints(c, slot)
                 PROVE  /\ d \notin process[c].loaded.went
                        /\ \E e \in process[c].loaded.went : Overlooks(e, d)
    BY DEF RemovedIsNotRead
  <2>2. slot \in process[c].loaded.slots
    BY <2>1 DEF Prints
  <2>3. d \notin process[c].loaded.went
    BY <1>1, <2>1, <2>2 DEF Traced, Honest
  <2>4. Explained(d, process[c].loaded)
    BY <1>1, <2>1 DEF Traced
  <2>. QED  BY <2>3, <2>4 DEF Explained
<1>2. TypeOK /\ Traced => RemovedIsNotRead
  BY <1>1
<1>. QED  BY <1>2, InitType, StepType, InitWrote, StepWrote, InitTraced, StepTraced, PTL DEF Spec
=============================================================================
