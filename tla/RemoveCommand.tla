--------------------------- MODULE RemoveCommand ---------------------------
(***************************************************************************)
(* Processes that run `apktag remove` and `apktag get` (cmd/apktag/main.go) *)
(* on shared files.  A removal opens its APK, builds the result in memory,  *)
(* and puts it at its destination, or back in place, by a temporary file    *)
(* and a rename; nothing locks the file in between.  Operations fail,       *)
(* processes are killed and the machine crashes.                            *)
(*                                                                          *)
(* An APK is the set of channel slots that hold a channel, and whether its  *)
(* block has a V2, V3 or V3.1 pair.  No writer changes a file once it has   *)
(* its name, so what a process will read is settled when it opens the file. *)
(* Each content carries the removals it went through, oldest APK to newest; *)
(* no step looks at them.                                                   *)
(***************************************************************************)
EXTENDS Naturals, Sequences, Functions

CONSTANTS
    Commands,    \* the processes
    Op,          \* Op[c]: "remove" or "get"
    Source,      \* Source[c]: the APK's path
    Dest,        \* Dest[c]: where a removal puts its result; Source[c] when in place
    Mode,        \* Mode[c]: --mode of a removal
    Target,      \* Target[c]: the pair that --block-id names
    Order,       \* Order[c]: the slots that a get looks at, in its order
    Paths,
    Pairs,       \* the channel pairs of a signing block
    Suffix,      \* the channel suffix of the ZIP comment
    FaultSets,   \* sets of steps that may fail; "kill": a process may be killed
    MaxCrashes   \* bound on crashes

Slots == Pairs \cup {Suffix}   \* places of a channel in an APK

ASSUME RemoveAssumption ==
    /\ Op \in [Commands -> {"remove", "get"}]
    /\ Source \in [Commands -> Paths] /\ Dest \in [Commands -> Paths]
    /\ Mode \in [Commands -> {"auto", "v1", "v2"}] /\ Target \in [Commands -> Pairs]
    /\ Order \in [Commands -> Seq(Slots)]
    /\ Suffix \notin Pairs /\ MaxCrashes \in Nat

VARIABLES
    disk,      \* the file at each path
    stable,    \* what a crash may bring back
    process,   \* per command
    litter,    \* a temporary file nobody will remove exists
    faults,    \* what may fail in this history
    crashes

vars == <<disk, stable, process, litter, faults, crashes>>

Contents == [slots : SUBSET Slots, signed : BOOLEAN, went : SUBSET Commands]

Blank == [slots |-> {}, signed |-> FALSE, went |-> {}]

Files == [kind : {"absent", "apk", "torn"}, holds : Contents, synced : BOOLEAN]

Absent == [kind |-> "absent", holds |-> Blank, synced |-> TRUE]

Apk(content, synced) == [kind |-> "apk", holds |-> content, synced |-> synced]

Settled(file) == IF file.synced THEN file ELSE [Absent EXCEPT !.kind = "torn"]

Ended == {"done", "failed", "killed"}

Processes ==
    [at : {"open", "transform", "read", "create", "write", "sync", "rename", "cleanup"} \cup Ended,
     loaded : Contents,                            \* what the opened file, then the result, holds
     temp   : {"none", "partial", "full", "synced"},
     after  : SUBSET Commands]                     \* removals reported before this one opened

Fresh == [at |-> "open", loaded |-> Blank, temp |-> "none", after |-> {}]

Original == {content \in Contents : content.went = {}}

Init ==
    /\ disk \in [Paths -> {Absent} \cup {Apk(content, TRUE) : content \in Original}]
    /\ stable = disk
    /\ process = [c \in Commands |-> Fresh]
    /\ litter = FALSE
    /\ faults \in FaultSets
    /\ crashes = 0

-----------------------------------------------------------------------------
Go(c, step) == process' = [process EXCEPT ![c].at = step]

GoWithTemp(c, step, temp) == process' = [process EXCEPT ![c].at = step, ![c].temp = temp]

MayFail(c, step) == process[c].at \in faults /\ Go(c, step)

Removals == {c \in Commands : Op[c] = "remove" /\ process[c].at = "done"}

(* os.Open and Stat, of either command.                                     *)
Open(c) ==
    /\ process[c].at = "open"
    /\ \/ /\ disk[Source[c]].kind = "apk"
          /\ process' = [process EXCEPT ![c] =
                [at |-> IF Op[c] = "get" THEN "read" ELSE "transform",
                 loaded |-> disk[Source[c]].holds, temp |-> "none", after |-> Removals]]
       \/ disk[Source[c]].kind # "apk" /\ Go(c, "failed")
       \/ MayFail(c, "failed")
    /\ UNCHANGED <<disk, stable, litter, faults, crashes>>

(* What --mode and --block-id select.                                       *)
Selected(c) ==
    CASE Mode[c] = "v1" -> {Suffix}
      [] Mode[c] = "v2" -> {Target[c]}
      [] OTHER          -> {Target[c], Suffix}

(* Automatic removal takes a pair only from a block with a V2, V3 or V3.1   *)
(* pair; otherwise it leaves it there and succeeds all the same.            *)
Clears(c, content) ==
    IF Mode[c] = "auto" /\ ~content.signed THEN {Suffix} ELSE Selected(c)

(* Mutant: automatic removal cuts the suffix off the file that it loaded,   *)
(* not off the one without the pair.                                        *)
RemainingOfOne(c) ==
    [process[c].loaded EXCEPT
        !.slots = IF Mode[c] = "auto" /\ Suffix \in @ THEN @ \ {Suffix} ELSE @ \ Clears(c, process[c].loaded),
        !.went = @ \cup {c}]

Remaining(c) ==
    [process[c].loaded EXCEPT
        !.slots = @ \ Clears(c, process[c].loaded), !.went = @ \cup {c}]

(* RemoveChannel is refused in mode v1 on a signed block, and without a     *)
(* channel in the selected slots.                                           *)
Refused(c) ==
    \/ Mode[c] = "v1" /\ process[c].loaded.signed
    \/ process[c].loaded.slots \cap Selected(c) = {}

(* RemoveChannel; its other errors, a signature that does not verify or an  *)
(* APK it cannot read, are the failures of this step.                       *)
Transform(c) ==
    /\ process[c].at = "transform"
    /\ \/ ~Refused(c) /\ process' = [process EXCEPT ![c].at = "create", ![c].loaded = Remaining(c)]
       \/ Refused(c) /\ Go(c, "failed")
       \/ MayFail(c, "failed")
    /\ UNCHANGED <<disk, stable, litter, faults, crashes>>

(* A get prints the first slot of its order that holds a channel.           *)
Prints(c, slot) ==
    \E i \in DOMAIN Order[c] :
        /\ Order[c][i] = slot /\ slot \in process[c].loaded.slots
        /\ \A j \in 1 .. i - 1 : Order[c][j] \notin process[c].loaded.slots

Read(c) ==
    /\ process[c].at = "read"
    /\ IF \E slot \in Slots : Prints(c, slot) THEN Go(c, "done") ELSE Go(c, "failed")
    /\ UNCHANGED <<disk, stable, litter, faults, crashes>>

(* atomicWrite of the command line; it never looks at what is there.        *)
CreateTemp(c) ==
    /\ process[c].at = "create"
    /\ GoWithTemp(c, "write", "partial") \/ MayFail(c, "failed")
    /\ UNCHANGED <<disk, stable, litter, faults, crashes>>

(* Mutant: a failed write returns before the deferred removal is set up.    *)
WriteTempLeaves(c) ==
    /\ process[c].at = "write"
    /\ GoWithTemp(c, "sync", "full") \/ MayFail(c, "failed")
    /\ UNCHANGED <<disk, stable, litter, faults, crashes>>

WriteTemp(c) ==
    /\ process[c].at = "write"
    /\ GoWithTemp(c, "sync", "full") \/ MayFail(c, "cleanup")
    /\ UNCHANGED <<disk, stable, litter, faults, crashes>>

(* Mutant: Close without Sync.                                              *)
CloseTemp(c) ==
    /\ process[c].at = "sync"
    /\ Go(c, "rename") \/ MayFail(c, "cleanup")
    /\ UNCHANGED <<disk, stable, litter, faults, crashes>>

SyncTemp(c) ==
    /\ process[c].at = "sync"
    /\ GoWithTemp(c, "rename", "synced") \/ MayFail(c, "cleanup")
    /\ UNCHANGED <<disk, stable, litter, faults, crashes>>

(* Mutant: the temporary file has a fixed name, and holds what the last     *)
(* process that wrote to it left there.                                     *)
ResultShared(c) ==
    \* another one with a temporary file for the same destination, if there is one
    LET sharing == {e \in Commands \ {c} : process[e].temp # "none" /\ Dest[e] = Dest[c]}
        writer  == CHOOSE e \in Commands : IF sharing = {} THEN e = c ELSE e \in sharing
    IN  Apk(process[writer].loaded, process[writer].temp = "synced")

Result(c) == Apk(process[c].loaded, process[c].temp = "synced")

Rename(c) ==
    /\ process[c].at = "rename"
    /\ \/ /\ disk' = [disk EXCEPT ![Dest[c]] = Result(c)]
          /\ GoWithTemp(c, "done", "none")
       \/ MayFail(c, "cleanup") /\ disk' = disk
    /\ UNCHANGED <<stable, litter, faults, crashes>>

(* Mutant: keep is set before the rename.                                   *)
CleanupKeeps(c) ==
    /\ process[c].at = "cleanup"
    /\ GoWithTemp(c, "failed", "none")
    /\ litter' = (litter \/ process[c].temp = "synced")
    /\ UNCHANGED <<disk, stable, faults, crashes>>

Cleanup(c) ==
    /\ process[c].at = "cleanup"
    /\ GoWithTemp(c, "failed", "none")
    /\ \/ litter' = litter
       \/ "cleanup" \in faults /\ litter' = TRUE
    /\ UNCHANGED <<disk, stable, faults, crashes>>

-----------------------------------------------------------------------------
Dies(c) == [process[c] EXCEPT !.at = IF @ \in Ended THEN @ ELSE "killed", !.temp = "none"]

Kill(c) ==
    /\ "kill" \in faults
    /\ process[c].at \notin Ended
    /\ process' = [process EXCEPT ![c] = Dies(c)]
    /\ litter' = (litter \/ process[c].temp # "none")
    /\ UNCHANGED <<disk, stable, faults, crashes>>

(* A rename that reached no directory block is undone, unsynced data is     *)
(* torn.                                                                    *)
AfterCrash ==
    {f \in [Paths -> Range(stable) \cup {Settled(disk[p]) : p \in Paths}] :
        \A p \in Paths : f[p] \in {stable[p], Settled(disk[p])}}

Crash ==
    /\ crashes < MaxCrashes
    /\ crashes' = crashes + 1
    /\ disk' \in AfterCrash
    /\ stable' = disk'
    /\ process' = [c \in Commands |-> Dies(c)]
    /\ litter' = (litter \/ \E c \in Commands : process[c].temp # "none")
    /\ UNCHANGED faults

Next ==
    \/ \E c \in Commands :
          Open(c) \/ Transform(c) \/ Read(c) \/ CreateTemp(c) \/ WriteTemp(c) \/ SyncTemp(c)
          \/ Rename(c) \/ Cleanup(c) \/ Kill(c)
    \/ Crash

Spec == Init /\ [][Next]_vars

-----------------------------------------------------------------------------
(* A temporary file exists exactly in the steps that work on it.            *)
TypeOK ==
    /\ disk \in [Paths -> Files]
    /\ stable \in [Paths -> Files]
    /\ process \in [Commands -> Processes]
    /\ \A c \in Commands :
          process[c].temp = "none" <=> process[c].at \notin {"write", "sync", "rename", "cleanup"}
    /\ litter \in BOOLEAN
    /\ crashes \in 0 .. MaxCrashes

(* No path ever shows part of an APK, whenever processes and the machine    *)
(* stop: an in-place removal must not destroy the only copy of its APK.     *)
NothingTorn == \A p \in Paths : disk[p].kind # "torn"

(* A command that reports an error has changed no file: no path holds what  *)
(* it made, nor what another removal made of that.                          *)
FailedChangedNothing ==
    \A c \in Commands : process[c].at = "failed" => \A p \in Paths : c \notin disk[p].holds.went

(* While no process is killed and os.Remove works, a command leaves no      *)
(* temporary file behind, whatever step failed.                             *)
NoTempLeft ==
    crashes = 0 /\ faults \cap {"cleanup", "kill"} = {} =>
        ~litter /\ \A c \in Commands : process[c].at \in Ended => process[c].temp = "none"

(* e replaces what d put at its destination without having seen it.         *)
Overlooks(e, d) ==
    e # d /\ Dest[e] = Dest[d] /\ (Source[e] # Dest[d] \/ d \notin process[e].after)

(* "removed CLI artifact still contains a channel" (main_test.go:105): a    *)
(* get that opens a file after a removal that wrote it was reported does    *)
(* not print a channel of the slots that this removal cleared.  It may only *)
(* where nothing of that removal is in the file it opened, because one that *)
(* had opened its APK before the report, or another file, replaced it.      *)
RemovedIsNotRead ==
    \A c, d \in Commands :
        /\ Op[c] = "get" /\ process[c].at = "done" /\ crashes = 0
        /\ d \in process[c].after /\ Dest[d] = Source[c]
        /\ \E slot \in Clears(d, process[d].loaded) : Prints(c, slot)
        => /\ d \notin process[c].loaded.went
           /\ \E e \in process[c].loaded.went : Overlooks(e, d)
=============================================================================
