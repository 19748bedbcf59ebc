----------------------------- MODULE PackFiles -----------------------------
(***************************************************************************)
(* PackFiles and atomicWrite (internal/core/files.go): a batch plans its    *)
(* output paths, then a feeder hands job indexes over an unbuffered channel *)
(* to a pool of workers; each packs its channel in memory, writes it to a   *)
(* temporary file, syncs it, looks once more that the output is absent and  *)
(* renames it; results travel over a channel with room for all of them to   *)
(* a collector.  Several batches may share a directory, file operations may *)
(* fail, and the machine may crash and the batches be run again.            *)
(*                                                                          *)
(* Names are abstract: PathOf gives each job its planned path.  Within one  *)
(* batch planning rejects two jobs with one path and a path that is the     *)
(* base APK, so PathOf[b] is injective and no path is the base.             *)
(***************************************************************************)
EXTENDS Integers, Sequences, FiniteSets

CONSTANTS
    Batches,      \* calls of PackFiles
    Jobs,         \* [Batches -> Nat]: number of channels after normalisation
    Workers,      \* worker goroutines of all batches
    BatchOf,      \* [Workers -> Batches]: the pool a worker belongs to
    Paths,        \* output paths
    PathOf,       \* PathOf[b][i]: the path of job i of batch b
    Overwrite,    \* [Batches -> BOOLEAN]: opts.Overwrite
    BadJobs,      \* BadJobs[b]: the jobs whose channel Pack rejects
    Faults,       \* the operations that may fail, by a worker's state; of a call:
                  \* "inspect" a path, "load" the base
    MaxCrashes    \* bound on crashes

JobsOf(b) == 1 .. Jobs[b]

Crew(b) == {w \in Workers : BatchOf[w] = b}

ASSUME BatchAssumption ==
    /\ Batches # {} /\ IsFiniteSet(Workers)
    /\ Jobs \in [Batches -> Nat \ {0}]
    /\ BatchOf \in [Workers -> Batches]
    /\ \A b \in Batches :
          /\ PathOf[b] \in [JobsOf(b) -> Paths]
          /\ \A i, j \in JobsOf(b) : i # j => PathOf[b][i] # PathOf[b][j]
          /\ Cardinality(Crew(b)) \in 1 .. Jobs[b]
    /\ Overwrite \in [Batches -> BOOLEAN]
    /\ MaxCrashes \in Nat

VARIABLES
    call,      \* per batch: the goroutines of PackFiles but its workers
    worker,    \* per worker
    disk,      \* the files at the output paths
    stable,    \* what a crash may bring back at these paths
    litter,    \* a temporary file nobody will remove exists
    crashes

files == <<disk, stable, litter, crashes>>
vars  == <<call, worker, files>>

-----------------------------------------------------------------------------
(* A call of PackFiles.                                                     *)

Results(b) == [index : JobsOf(b), ok : BOOLEAN]

CallState(b) ==
    [phase     : {"plan", "run", "refused", "done"},
     planned   : 0 .. Jobs[b],            \* paths inspected so far
     next      : 1 .. Jobs[b] + 1,        \* the index the feeder offers; the last: jobs is closed
     results   : Seq(Results(b)),         \* in the buffer of results
     closed    : BOOLEAN,                 \* results is closed
     artifacts : [JobsOf(b) -> 0 .. Jobs[b]],   \* the job whose artifact is in a slot, or 0
     firstErr  : 0 .. Jobs[b]]            \* the job that failed the call, or 0

FreshCall(b) ==
    [phase |-> "plan", planned |-> 0, next |-> 1, results |-> <<>>, closed |-> FALSE,
     artifacts |-> [i \in JobsOf(b) |-> 0], firstErr |-> 0]

(* A worker: what it does next, its job, and its temporary file.            *)
Steps == {"idle", "pack", "create", "write", "sync", "stat", "rename", "cleanup", "send", "exited"}

AtWork == Steps \ {"idle", "exited"}

WorkerState(w) ==
    {s \in [at : Steps, job : 0 .. Jobs[BatchOf[w]], failed : BOOLEAN,
            temp : {"none", "partial", "full", "synced"}] : s.at \in AtWork => s.job # 0}

FreshWorker == [at |-> "idle", job |-> 0, failed |-> FALSE, temp |-> "none"]

(* A file.                                                                  *)
Contents ==
    [kind : {"absent", "foreign", "apk", "torn"}, batch : Batches, index : Nat, synced : BOOLEAN]

NotOurs(kind) ==
    [kind |-> kind, batch |-> CHOOSE b \in Batches : TRUE, index |-> 0, synced |-> TRUE]

ApkFile(b, i, synced) == [kind |-> "apk", batch |-> b, index |-> i, synced |-> synced]

(* Mutant: only the tool's own outputs count as existing.                   *)
ExistsApk(path) == disk[path].kind = "apk"

Exists(path) == disk[path].kind # "absent"

(* What is left of a file's data after a crash.                             *)
Settled(content) == IF content.synced THEN content ELSE NotOurs("torn")

Init ==
    /\ call = [b \in Batches |-> FreshCall(b)]
    /\ worker = [w \in Workers |-> FreshWorker]
    /\ disk \in [Paths -> {NotOurs("absent"), NotOurs("foreign")}]
    /\ stable = disk
    /\ litter = FALSE
    /\ crashes = 0

-----------------------------------------------------------------------------
(* Planning: one os.Stat per path, then the base is loaded and the pool     *)
(* started.                                                                 *)

Refuse(b) == call' = [call EXCEPT ![b].phase = "refused"]

InspectPath(b) ==
    /\ call[b].phase = "plan"
    /\ call[b].planned < Jobs[b]
    /\ \/ /\ Overwrite[b] \/ ~Exists(PathOf[b][call[b].planned + 1])
          /\ call' = [call EXCEPT ![b].planned = @ + 1]
       \/ /\ ~Overwrite[b]
          /\ Exists(PathOf[b][call[b].planned + 1]) \/ "inspect" \in Faults
          /\ Refuse(b)
    /\ UNCHANGED <<worker, files>>

Load(b) ==
    /\ call[b].phase = "plan"
    /\ call[b].planned = Jobs[b]
    /\ \/ call' = [call EXCEPT ![b].phase = "run"]
       \/ "load" \in Faults /\ Refuse(b)
    /\ UNCHANGED <<worker, files>>

-----------------------------------------------------------------------------
(* The feeder: hands out the indexes, closes jobs, waits for the workers    *)
(* and closes results.                                                      *)

(* Mutant: the feeder's loop runs once too often.                           *)
HandOneMore(w) ==
    LET b == BatchOf[w]
    IN  /\ call[b].phase = "run"
        /\ call[b].next <= Jobs[b] + 1
        /\ worker[w].at = "idle"
        /\ worker' = [worker EXCEPT ![w] =
                         [at |-> "pack", job |-> call[b].next, failed |-> FALSE, temp |-> "none"]]
        /\ call' = [call EXCEPT ![b].next = @ + 1]
        /\ UNCHANGED files

Hand(w) ==
    LET b == BatchOf[w]
    IN  /\ call[b].phase = "run"
        /\ call[b].next <= Jobs[b]
        /\ worker[w].at = "idle"
        /\ worker' = [worker EXCEPT ![w] =
                         [at |-> "pack", job |-> call[b].next, failed |-> FALSE, temp |-> "none"]]
        /\ call' = [call EXCEPT ![b].next = @ + 1]
        /\ UNCHANGED files

(* A worker's range over jobs ends.                                         *)
Exit(w) ==
    /\ call[BatchOf[w]].phase = "run"
    /\ call[BatchOf[w]].next = Jobs[BatchOf[w]] + 1
    /\ worker[w].at = "idle"
    /\ worker' = [worker EXCEPT ![w].at = "exited"]
    /\ UNCHANGED <<call, files>>

CloseResults(b) ==
    /\ call[b].phase = "run"
    /\ call[b].next = Jobs[b] + 1
    /\ \A w \in Crew(b) : worker[w].at = "exited"
    /\ ~call[b].closed
    /\ call' = [call EXCEPT ![b].closed = TRUE]
    /\ UNCHANGED <<worker, files>>

-----------------------------------------------------------------------------
(* A worker's job.                                                          *)

PathFor(w) == PathOf[BatchOf[w]][worker[w].job]

Go(w, step) == worker' = [worker EXCEPT ![w].at = step]

GoWithTemp(w, step, state) == worker' = [worker EXCEPT ![w].at = step, ![w].temp = state]

Fail(w, step) == worker' = [worker EXCEPT ![w].at = step, ![w].failed = TRUE]

MayFail(w, step) == worker[w].at \in Faults /\ Fail(w, step)

PackJob(w) ==
    /\ worker[w].at = "pack"
    /\ IF worker[w].job \in BadJobs[BatchOf[w]] THEN Fail(w, "send") ELSE Go(w, "create")
    /\ UNCHANGED <<call, files>>

CreateTemp(w) ==
    /\ worker[w].at = "create"
    /\ GoWithTemp(w, "write", "partial") \/ MayFail(w, "send")
    /\ UNCHANGED <<call, files>>

(* Mutant: a failed write returns before the deferred removal is set up.    *)
WriteTempLeaves(w) ==
    /\ worker[w].at = "write"
    /\ GoWithTemp(w, "sync", "full") \/ MayFail(w, "send")
    /\ UNCHANGED <<call, files>>

WriteTemp(w) ==
    /\ worker[w].at = "write"
    /\ GoWithTemp(w, "sync", "full") \/ MayFail(w, "cleanup")
    /\ UNCHANGED <<call, files>>

AfterSync(w) == IF Overwrite[BatchOf[w]] THEN "rename" ELSE "stat"

(* Mutant: the file is closed without Sync.                                 *)
CloseTemp(w) ==
    /\ worker[w].at = "sync"
    /\ Go(w, AfterSync(w)) \/ MayFail(w, "cleanup")
    /\ UNCHANGED <<call, files>>

(* Chmod, Sync and Close.                                                   *)
SyncTemp(w) ==
    /\ worker[w].at = "sync"
    /\ GoWithTemp(w, AfterSync(w), "synced") \/ MayFail(w, "cleanup")
    /\ UNCHANGED <<call, files>>

(* The last look before the rename; other batches may act between the two.  *)
StatOutput(w) ==
    /\ worker[w].at = "stat"
    /\ \/ ~Exists(PathFor(w)) /\ Go(w, "rename")
       \/ Exists(PathFor(w)) /\ Fail(w, "cleanup")
       \/ MayFail(w, "cleanup")
    /\ UNCHANGED <<call, files>>

(* Mutant: the error of os.Rename is dropped.                               *)
RenameUnchecked(w) ==
    /\ worker[w].at = "rename"
    /\ GoWithTemp(w, "send", "none")
    /\ \/ disk' = [disk EXCEPT ![PathFor(w)] =
                       ApkFile(BatchOf[w], worker[w].job, worker[w].temp = "synced")]
       \/ "rename" \in Faults /\ disk' = disk
    /\ UNCHANGED <<call, stable, litter, crashes>>

(* Mutant: a step after the rename may still fail the job.                  *)
RenameThenFail(w) ==
    /\ worker[w].at = "rename"
    /\ GoWithTemp(w, "send", "none") \/ MayFail(w, "cleanup")
    /\ disk' = [disk EXCEPT ![PathFor(w)] =
                   ApkFile(BatchOf[w], worker[w].job, worker[w].temp = "synced")]
    /\ UNCHANGED <<call, stable, litter, crashes>>

Rename(w) ==
    /\ worker[w].at = "rename"
    /\ \/ /\ GoWithTemp(w, "send", "none")
          /\ disk' = [disk EXCEPT ![PathFor(w)] =
                         ApkFile(BatchOf[w], worker[w].job, worker[w].temp = "synced")]
       \/ MayFail(w, "cleanup") /\ disk' = disk
    /\ UNCHANGED <<call, stable, litter, crashes>>

(* The deferred os.Remove, whose error is ignored.                          *)
Cleanup(w) ==
    /\ worker[w].at = "cleanup"
    /\ GoWithTemp(w, "send", "none")
    /\ \/ litter' = litter
       \/ "cleanup" \in Faults /\ litter' = TRUE
    /\ UNCHANGED <<call, disk, stable, crashes>>

Outcome(w) == [index |-> worker[w].job, ok |-> ~worker[w].failed]

(* Mutant: a worker whose job failed stops ranging over jobs.               *)
SendResultAndStop(w) ==
    LET b == BatchOf[w]
    IN  /\ worker[w].at = "send"
        /\ Len(call[b].results) < Jobs[b]
        /\ call' = [call EXCEPT ![b].results = Append(@, Outcome(w))]
        /\ worker' = [worker EXCEPT ![w] =
                         IF @.failed THEN [FreshWorker EXCEPT !.at = "exited"] ELSE FreshWorker]
        /\ litter' = (litter \/ worker[w].temp # "none")
        /\ UNCHANGED <<disk, stable, crashes>>

(* Mutant: no continue after a failure is sent, so a success follows it.    *)
SendResultTwice(w) ==
    LET b == BatchOf[w]
    IN  /\ worker[w].at = "send"
        /\ Len(call[b].results) < Jobs[b]
        /\ call' = [call EXCEPT ![b].results = Append(@, Outcome(w))]
        /\ worker' = [worker EXCEPT ![w] =
                         IF @.failed THEN [@ EXCEPT !.failed = FALSE] ELSE FreshWorker]
        /\ litter' = (litter \/ worker[w].temp # "none")
        /\ UNCHANGED <<disk, stable, crashes>>

(* A temporary file that is still there now is never looked at again.       *)
SendResult(w) ==
    LET b == BatchOf[w]
    IN  /\ worker[w].at = "send"
        /\ Len(call[b].results) < Jobs[b]
        /\ call' = [call EXCEPT ![b].results = Append(@, Outcome(w))]
        /\ worker' = [worker EXCEPT ![w] = FreshWorker]
        /\ litter' = (litter \/ worker[w].temp # "none")
        /\ UNCHANGED <<disk, stable, crashes>>

-----------------------------------------------------------------------------
(* The collector, in the goroutine that called PackFiles.                   *)

(* Mutant: artifacts are appended as they arrive.                           *)
CollectOnArrival(b) ==
    /\ call[b].phase = "run"
    /\ call[b].results # <<>>
    /\ LET item == Head(call[b].results)
           slot == CHOOSE i \in JobsOf(b) :
                      /\ call[b].artifacts[i] = 0
                      /\ \A j \in 1 .. i - 1 : call[b].artifacts[j] # 0
       IN  call' = [call EXCEPT
              ![b].results = Tail(@),
              ![b].artifacts = IF item.ok THEN [@ EXCEPT ![slot] = item.index] ELSE @,
              ![b].firstErr = IF ~item.ok /\ @ = 0 THEN item.index ELSE @]
    /\ UNCHANGED <<worker, files>>

Collect(b) ==
    /\ call[b].phase = "run"
    /\ call[b].results # <<>>
    /\ LET item == Head(call[b].results)
       IN  call' = [call EXCEPT
              ![b].results = Tail(@),
              ![b].artifacts = IF item.ok THEN [@ EXCEPT ![item.index] = item.index] ELSE @,
              ![b].firstErr = IF ~item.ok /\ @ = 0 THEN item.index ELSE @]
    /\ UNCHANGED <<worker, files>>

Return(b) ==
    /\ call[b].phase = "run"
    /\ call[b].closed
    /\ call[b].results = <<>>
    /\ call' = [call EXCEPT ![b].phase = "done"]
    /\ UNCHANGED <<worker, files>>

-----------------------------------------------------------------------------
(* A crash: the processes die, temporary files stay behind, a rename that   *)
(* reached no directory block is undone, unsynced data is torn.  Batches    *)
(* that had not returned are run again with the same arguments.             *)

Running == {b \in Batches : call[b].phase \in {"plan", "run"}}

AfterCrash ==
    {f \in [Paths -> {stable[p] : p \in Paths} \cup {Settled(disk[p]) : p \in Paths}] :
        \A p \in Paths : f[p] \in {stable[p], Settled(disk[p])}}

Crash ==
    /\ crashes < MaxCrashes
    /\ crashes' = crashes + 1
    /\ disk' \in AfterCrash
    /\ stable' = disk'
    /\ litter' = (litter \/ \E w \in Workers : worker[w].temp # "none")
    /\ call' = [b \in Batches |-> IF b \in Running THEN FreshCall(b) ELSE call[b]]
    /\ worker' = [w \in Workers |-> IF BatchOf[w] \in Running THEN FreshWorker ELSE worker[w]]

-----------------------------------------------------------------------------
Plan(b) == InspectPath(b) \/ Load(b)

Work(w) ==
    \/ Hand(w) \/ Exit(w)
    \/ PackJob(w) \/ CreateTemp(w) \/ WriteTemp(w) \/ SyncTemp(w)
    \/ StatOutput(w) \/ Rename(w) \/ Cleanup(w) \/ SendResult(w)

Finish(b) == CloseResults(b) \/ Collect(b) \/ Return(b)

Next ==
    \/ \E b \in Batches : Plan(b) \/ Finish(b)
    \/ \E w \in Workers : Work(w)
    \/ Crash

(* The Go scheduler runs every goroutine that can run and every file        *)
(* operation returns.                                                       *)
Fairness ==
    /\ \A b \in Batches : WF_vars(Plan(b)) /\ WF_vars(Finish(b))
    /\ \A w \in Workers : WF_vars(Work(w))

Spec == Init /\ [][Next]_vars /\ Fairness

-----------------------------------------------------------------------------
(* Safety.                                                                  *)

(* Every index the feeder, the workers and the collector use names a job,   *)
(* and the buffer of results never holds more than its capacity.            *)
TypeOK ==
    /\ DOMAIN call = Batches
    /\ \A b \in Batches : call[b] \in CallState(b) /\ Len(call[b].results) <= Jobs[b]
    /\ DOMAIN worker = Workers
    /\ \A w \in Workers : worker[w] \in WorkerState(w)
    /\ disk \in [Paths -> Contents]
    /\ stable \in [Paths -> Contents]
    /\ litter \in BOOLEAN
    /\ crashes \in 0 .. MaxCrashes

Returned(b) == call[b].phase \in {"refused", "done"}

Succeeded(b) == call[b].phase = "done" /\ call[b].firstErr = 0

(* atomicWrite's purpose: no output path ever shows part of an APK, also    *)
(* when a crash loses what was not synced.                                  *)
NothingTorn == \A p \in Paths : disk[p].kind # "torn"

(* "Results retain the input channel order": a call that succeeds returns   *)
(* one artifact per channel, each in its channel's place, whatever the      *)
(* order in which the workers finished.                                     *)
ArtifactsInOrder ==
    \A b \in Batches : Succeeded(b) => \A i \in JobsOf(b) : call[b].artifacts[i] = i

(* A call that succeeds has written every artifact it returns: while the    *)
(* machine stays up the artifact's path holds a whole APK, packed for that  *)
(* path by this call or by another one that writes there too.               *)
ArtifactsOnDisk ==
    \A b \in Batches : Succeeded(b) /\ crashes = 0 =>
        \A i \in JobsOf(b) :
            \E c \in Batches : \E j \in JobsOf(c) :
                PathOf[c][j] = PathOf[b][i] /\ disk[PathOf[b][i]] = ApkFile(c, j, TRUE)

(* A job that is reported as failed did not publish its file.               *)
FailedJobWroteNothing ==
    \A b \in Batches : call[b].firstErr > 0 /\ crashes = 0 =>
        LET i == call[b].firstErr IN disk[PathOf[b][i]] # ApkFile(b, i, TRUE)

(* atomicWrite removes its temporary file on every return: as long as the   *)
(* machine is up and os.Remove works, none outlives its job.                *)
NoTempLeft == crashes = 0 /\ "cleanup" \notin Faults => ~litter

(* A worker with a result to send finds room in the channel: it never waits *)
(* for the collector, who may already have met an error.                    *)
ResultsHaveRoom ==
    \A w \in Workers : worker[w].at = "send" => Len(call[BatchOf[w]].results) < Jobs[BatchOf[w]]

-----------------------------------------------------------------------------
(* Action properties and liveness.                                          *)

(* Without Overwrite a file that exists is never replaced while the machine *)
(* is up, not even one the same batch wrote before a crash.                 *)
NoSilentReplace ==
    [][(\A b \in Batches : ~Overwrite[b]) /\ crashes' = crashes =>
          \A p \in Paths : disk[p].kind # "absent" => disk'[p] = disk[p]]_vars

(* Refinement.  An artifact is in place from its rename on: its worker is   *)
(* about to send a success, or the success is in the channel or collected.  *)

InPlace(b) ==
    {worker[w].job : w \in {v \in Crew(b) : worker[v].at = "send" /\ ~worker[v].failed}}
    \cup {call[b].results[k].index : k \in {j \in DOMAIN call[b].results : call[b].results[j].ok}}
    \cup {i \in JobsOf(b) : call[b].artifacts[i] # 0}

AnswerOf(b) ==
    IF Succeeded(b) THEN "ok" ELSE IF Returned(b) THEN "error" ELSE "pending"

Promise == INSTANCE Batch WITH
    Calls <- Batches,
    Artifacts <- [b \in Batches |-> JobsOf(b)],
    FileOf <- [b \in Batches |-> [i \in JobsOf(b) |-> ApkFile(b, i, TRUE)]],
    answer <- [b \in Batches |-> AnswerOf(b)],
    published <- [b \in Batches |-> InPlace(b)]

(* The goroutines, temporary files and retries of PackFiles keep the        *)
(* promise of Batch: artifacts appear whole and once, and the answer of a   *)
(* call is true of what it put in place.                                    *)
KeepsPromise == Promise!BatchSafety

(* And every call is answered.                                              *)
ImplementsBatch == Promise!BatchSpec

(* Every call of PackFiles returns: no worker, feeder or collector waits    *)
(* forever for another, whatever fails.                                     *)
Termination == \A b \in Batches : <>Returned(b)
=============================================================================
