-------------------------- MODULE PackFilesProofs --------------------------
(***************************************************************************)
(* Proofs about PackFiles for any number of batches, jobs, workers, paths   *)
(* and crashes: its types, whole files, room for results and order; then    *)
(* what a batch leaves on disk, and that it keeps the promise of Batch.     *)
(***************************************************************************)
EXTENDS PackFiles, FiniteSetTheorems, SequenceTheorems, TLAPS

-----------------------------------------------------------------------------
(* Types.                                                                   *)

(* A step that changes one call keeps the types of the others.              *)
LEMMA CallStep ==
    ASSUME TypeOK, NEW b \in Batches, NEW state \in CallState(b),
           Len(state.results) <= Jobs[b],
           call' = [call EXCEPT ![b] = state]
    PROVE  /\ DOMAIN call' = Batches
           /\ \A c \in Batches : call'[c] \in CallState(c) /\ Len(call'[c].results) <= Jobs[c]
BY DEF TypeOK

LEMMA WorkerStep ==
    ASSUME TypeOK, NEW w \in Workers, NEW state \in WorkerState(w),
           worker' = [worker EXCEPT ![w] = state]
    PROVE  /\ DOMAIN worker' = Workers
           /\ \A v \in Workers : worker'[v] \in WorkerState(v)
BY DEF TypeOK

(* What the moves of a worker do to its state.                              *)
LEMMA MoveType ==
    ASSUME TypeOK, NEW w \in Workers, NEW step \in Steps,
           NEW temp \in {"none", "partial", "full", "synced"},
           worker[w].at \in AtWork \/ step = "exited",
           Go(w, step) \/ GoWithTemp(w, step, temp) \/ MayFail(w, step) \/ Fail(w, step)
    PROVE  DOMAIN worker' = Workers /\ \A v \in Workers : worker'[v] \in WorkerState(v)
<1>1. worker[w] \in WorkerState(w) /\ DOMAIN worker = Workers
  BY DEF TypeOK
<1>2. Go(w, step) => worker' = [worker EXCEPT ![w] = [worker[w] EXCEPT !.at = step]]
  BY DEF Go
<1>3. GoWithTemp(w, step, temp) => worker' = [worker EXCEPT ![w] = [worker[w] EXCEPT !.at = step, !.temp = temp]]
  BY DEF GoWithTemp
<1>4. Fail(w, step) => worker' = [worker EXCEPT ![w] = [worker[w] EXCEPT !.at = step, !.failed = TRUE]]
  BY DEF Fail
<1>5. /\ [worker[w] EXCEPT !.at = step] \in WorkerState(w)
      /\ [worker[w] EXCEPT !.at = step, !.temp = temp] \in WorkerState(w)
      /\ [worker[w] EXCEPT !.at = step, !.failed = TRUE] \in WorkerState(w)
  BY <1>1 DEF WorkerState, AtWork, Steps
<1> QED
  BY <1>2, <1>3, <1>4, <1>5, WorkerStep DEF MayFail

(* The disjuncts of Next, one named case for each action.                   *)
LEMMA NextCases ==
    ASSUME Next, NEW Goal,
           ASSUME NEW b \in Batches,
                  InspectPath(b) \/ Load(b) \/ CloseResults(b) \/ Collect(b) \/ Return(b)
           PROVE  Goal,
           ASSUME NEW w \in Workers,
                  \/ Hand(w) \/ Exit(w) \/ PackJob(w) \/ CreateTemp(w) \/ WriteTemp(w)
                  \/ SyncTemp(w) \/ StatOutput(w) \/ Rename(w) \/ Cleanup(w) \/ SendResult(w)
           PROVE  Goal,
           Crash => Goal
    PROVE  Goal
BY DEF Next, Plan, Finish, Work

LEMMA FreshTypes ==
    /\ \A b \in Batches : FreshCall(b) \in CallState(b) /\ Len(FreshCall(b).results) = 0
    /\ \A w \in Workers : FreshWorker \in WorkerState(w)
<1>1. \A b \in Batches : Jobs[b] \in Nat \ {0}
  BY BatchAssumption
<1>2. \A w \in Workers : Jobs[BatchOf[w]] \in Nat \ {0}
  BY BatchAssumption
<1>3. ASSUME NEW b \in Batches PROVE FreshCall(b) \in CallState(b)
  <2>1. <<>> \in Seq(Results(b))
    OBVIOUS
  <2>2. [i \in JobsOf(b) |-> 0] \in [JobsOf(b) -> 0 .. Jobs[b]]
    BY <1>1
  <2> QED
    BY <1>1, <2>1, <2>2 DEF FreshCall, CallState
<1>4. \A b \in Batches : Len(FreshCall(b).results) = 0
  BY DEF FreshCall
<1>5. \A w \in Workers : FreshWorker \in WorkerState(w)
  BY <1>2 DEF FreshWorker, WorkerState, AtWork, Steps
<1> QED
  BY <1>3, <1>4, <1>5

LEMMA FileTypes ==
    /\ NotOurs("absent") \in Contents
    /\ NotOurs("foreign") \in Contents
    /\ NotOurs("torn") \in Contents
    /\ \A content \in Contents : Settled(content) \in Contents
    /\ \A b \in Batches, i \in Nat, synced \in BOOLEAN : ApkFile(b, i, synced) \in Contents
<1>1. (CHOOSE b \in Batches : TRUE) \in Batches
  BY BatchAssumption
<1> QED
  BY <1>1 DEF NotOurs, Contents, Settled, ApkFile

LEMMA SomeWorkerSomeBatch == \A w \in Workers : BatchOf[w] \in Batches /\ Jobs[BatchOf[w]] \in Nat \ {0}
BY BatchAssumption

LEMMA TypeInit == Init => TypeOK
<1> SUFFICES ASSUME Init PROVE TypeOK
  OBVIOUS
<1>1. disk \in [Paths -> Contents] /\ stable \in [Paths -> Contents]
  BY FileTypes DEF Init
<1>2. /\ DOMAIN call = Batches
      /\ \A b \in Batches : call[b] \in CallState(b) /\ Len(call[b].results) <= Jobs[b]
  BY FreshTypes, BatchAssumption DEF Init
<1>3. DOMAIN worker = Workers /\ \A w \in Workers : worker[w] \in WorkerState(w)
  BY FreshTypes DEF Init
<1> QED
  <2>0. MaxCrashes \in Nat
    BY BatchAssumption
  <2>1. litter = FALSE /\ crashes = 0
    BY DEF Init
  <2>2. litter \in BOOLEAN /\ crashes \in 0 .. MaxCrashes
    <3>1. litter \in BOOLEAN
      BY <2>1, Zenon
    <3>2. crashes \in 0 .. MaxCrashes
      <4>1. crashes = 0
        BY <2>1, Zenon
      <4> QED
        BY <2>0, <4>1
    <3> QED
      BY <3>1, <3>2, Zenon
  <2> QED
    BY <1>1, <1>2, <1>3, <2>2 DEF TypeOK

(* The actions of a call.                                                   *)
LEMMA CallActionsType ==
    ASSUME TypeOK, NEW b \in Batches,
           InspectPath(b) \/ Load(b) \/ CloseResults(b) \/ Collect(b) \/ Return(b)
    PROVE  TypeOK'
<1>0. Jobs[b] \in Nat \ {0}
  BY BatchAssumption
<1>1. /\ call[b] \in CallState(b)
      /\ Len(call[b].results) <= Jobs[b]
  BY DEF TypeOK
<1>2. worker' = worker /\ disk' = disk /\ stable' = stable /\ litter' = litter /\ crashes' = crashes
  BY DEF InspectPath, Load, CloseResults, Collect, Return, files
<1> DEFINE Kept == /\ DOMAIN call' = Batches
                   /\ \A c \in Batches : call'[c] \in CallState(c) /\ Len(call'[c].results) <= Jobs[c]
<1>3. ASSUME NEW state \in CallState(b), state.results = call[b].results,
             call' = [call EXCEPT ![b] = state]
      PROVE  Kept
  BY <1>1, <1>3, CallStep
<1>4. \A phase \in {"run", "refused", "done"} : call' = [call EXCEPT ![b].phase = phase] => Kept
  <2> TAKE phase \in {"run", "refused", "done"}
  <2> DEFINE state == [call[b] EXCEPT !.phase = phase]
  <2>1. state \in CallState(b) /\ state.results = call[b].results
    BY <1>1 DEF CallState
  <2>2. [call EXCEPT ![b].phase = phase] = [call EXCEPT ![b] = state]
    OBVIOUS
  <2> HIDE DEF state, Kept
  <2> QED
    BY <1>3, <2>1, <2>2
<1>5. ASSUME InspectPath(b) PROVE Kept
  <2> DEFINE state == [call[b] EXCEPT !.planned = @ + 1]
  <2>1. state \in CallState(b) /\ state.results = call[b].results
    BY <1>0, <1>1, <1>5 DEF CallState, InspectPath
  <2>2. [call EXCEPT ![b].planned = @ + 1] = [call EXCEPT ![b] = state]
    OBVIOUS
  <2>3. Refuse(b) \/ call' = [call EXCEPT ![b].planned = @ + 1]
    BY <1>5 DEF InspectPath
  <2> HIDE DEF state, Kept
  <2> QED
    BY <1>3, <1>4, <2>1, <2>2, <2>3 DEF Refuse
<1>6. ASSUME Load(b) \/ Return(b) PROVE Kept
  <2> HIDE DEF Kept
  <2> QED
    BY <1>4, <1>6 DEF Load, Return, Refuse
<1>7. ASSUME CloseResults(b) PROVE Kept
  <2> DEFINE state == [call[b] EXCEPT !.closed = TRUE]
  <2>1. state \in CallState(b) /\ state.results = call[b].results
    BY <1>1 DEF CallState
  <2>2. call' = [call EXCEPT ![b] = state]
    BY <1>7 DEF CloseResults
  <2> HIDE DEF state, Kept
  <2> QED
    BY <1>3, <2>1, <2>2
<1>8. ASSUME Collect(b) PROVE Kept
  <2> DEFINE item == Head(call[b].results)
             slots == IF item.ok THEN [call[b].artifacts EXCEPT ![item.index] = item.index]
                                 ELSE call[b].artifacts
             error == IF ~item.ok /\ call[b].firstErr = 0 THEN item.index ELSE call[b].firstErr
             state == [call[b] EXCEPT
                !.results = Tail(call[b].results), !.artifacts = slots, !.firstErr = error]
  <2>1. /\ call[b].results \in Seq(Results(b))
        /\ call[b].results # <<>>
    BY <1>1, <1>8 DEF CallState, Collect
  <2>2. item \in Results(b) /\ Tail(call[b].results) \in Seq(Results(b))
        /\ Len(Tail(call[b].results)) <= Jobs[b]
    BY <1>0, <1>1, <2>1
  <2>3. item.index \in 1 .. Jobs[b] /\ item.ok \in BOOLEAN
    BY <2>2 DEF Results, JobsOf
  <2>4. call' = [call EXCEPT ![b] = state]
    BY <1>8 DEF Collect
  <2> HIDE DEF item
  <2>5. slots \in [JobsOf(b) -> 0 .. Jobs[b]]
    BY <1>0, <1>1, <2>3 DEF CallState, JobsOf
  <2>6. error \in 0 .. Jobs[b]
    BY <1>0, <1>1, <2>3 DEF CallState
  <2> HIDE DEF slots, error
  <2>7. state \in CallState(b) /\ state.results = Tail(call[b].results)
    BY <1>1, <2>2, <2>5, <2>6 DEF CallState
  <2> HIDE DEF state
  <2> QED
    BY <2>2, <2>4, <2>7, CallStep
<1>9. Kept
  BY <1>5, <1>6, <1>7, <1>8
<1> QED
  BY <1>2, <1>9 DEF TypeOK

(* The actions of a worker.                                                 *)
LEMMA WorkerActionsType ==
    ASSUME TypeOK, NEW w \in Workers,
           \/ Hand(w) \/ Exit(w) \/ PackJob(w) \/ CreateTemp(w) \/ WriteTemp(w)
           \/ SyncTemp(w) \/ StatOutput(w) \/ Rename(w) \/ Cleanup(w) \/ SendResult(w)
    PROVE  TypeOK'
<1> DEFINE b == BatchOf[w]
           WorkersKept == DOMAIN worker' = Workers /\ \A v \in Workers : worker'[v] \in WorkerState(v)
           CallsKept == /\ DOMAIN call' = Batches
                        /\ \A c \in Batches : call'[c] \in CallState(c) /\ Len(call'[c].results) <= Jobs[c]
<1>0. b \in Batches /\ Jobs[b] \in Nat \ {0}
  BY SomeWorkerSomeBatch
<1>1. /\ call[b] \in CallState(b)
      /\ Len(call[b].results) <= Jobs[b]
      /\ worker[w] \in WorkerState(w)
  BY <1>0 DEF TypeOK
<1>2. UNCHANGED call => CallsKept
  BY DEF TypeOK
<1>3. ASSUME NEW step \in Steps, NEW temp \in {"none", "partial", "full", "synced"},
             worker[w].at \in AtWork \/ step = "exited",
             Go(w, step) \/ GoWithTemp(w, step, temp) \/ MayFail(w, step) \/ Fail(w, step)
      PROVE  WorkersKept
  BY <1>3, MoveType
<1>4. CASE Hand(w)
  <2>1. [at |-> "pack", job |-> call[b].next, failed |-> FALSE, temp |-> "none"] \in WorkerState(w)
    BY <1>0, <1>1, <1>4 DEF CallState, WorkerState, AtWork, Steps, Hand
  <2>2. WorkersKept
    BY <1>4, <2>1, WorkerStep DEF Hand
  <2>3. [call[b] EXCEPT !.next = @ + 1] \in CallState(b)
    <3>1. call[b].next + 1 \in 1 .. Jobs[b] + 1
      BY <1>0, <1>1, <1>4 DEF CallState, Hand
    <3> QED
      BY <1>1, <3>1 DEF CallState
  <2>4. call' = [call EXCEPT ![b] = [call[b] EXCEPT !.next = @ + 1]]
    BY <1>4 DEF Hand
  <2>5. CallsKept
    BY <1>0, <1>1, <2>3, <2>4, CallStep DEF CallState
  <2> QED
    BY <1>4, <2>2, <2>5 DEF TypeOK, Hand, files
<1>5. CASE Exit(w) \/ PackJob(w) \/ CreateTemp(w) \/ WriteTemp(w) \/ SyncTemp(w) \/ StatOutput(w)
  <2>1. WorkersKept
    <3>0. AfterSync(w) \in Steps
      BY DEF AfterSync, Steps
    <3>1. \/ Go(w, "exited")
          \/ /\ worker[w].at \in AtWork
             /\ \/ Fail(w, "send") \/ Go(w, "create")
                \/ GoWithTemp(w, "write", "partial") \/ MayFail(w, "send")
                \/ GoWithTemp(w, "sync", "full") \/ MayFail(w, "cleanup")
                \/ GoWithTemp(w, AfterSync(w), "synced")
                \/ Fail(w, "cleanup") \/ Go(w, "rename")
      BY <1>5 DEF Exit, PackJob, CreateTemp, WriteTemp, SyncTemp, StatOutput, Go, AtWork, Steps
    <3> HIDE DEF WorkersKept
    <3> QED
      BY <1>3, <3>0, <3>1 DEF Steps
  <2>2. UNCHANGED <<call, files>>
    BY <1>5 DEF Exit, PackJob, CreateTemp, WriteTemp, SyncTemp, StatOutput
  <2> QED
    BY <1>2, <2>1, <2>2 DEF TypeOK, files
<1>6. CASE Rename(w)
  <2>1. WorkersKept
    BY <1>3, <1>6 DEF Rename, AtWork, Steps
  <2>2. worker[w].job \in Nat
    BY <1>0, <1>1 DEF WorkerState
  <2>3. \A synced \in BOOLEAN : ApkFile(b, worker[w].job, synced) \in Contents
    BY <1>0, <2>2, FileTypes
  <2>4. disk' \in [Paths -> Contents]
    BY <1>6, <2>3 DEF Rename, TypeOK
  <2> QED
    BY <1>2, <1>6, <2>1, <2>4 DEF TypeOK, Rename
<1>7. CASE Cleanup(w)
  <2>1. WorkersKept
    BY <1>3, <1>7 DEF Cleanup, AtWork, Steps
  <2>2. litter' \in BOOLEAN
    BY <1>7 DEF Cleanup, TypeOK
  <2> QED
    BY <1>2, <1>7, <2>1, <2>2 DEF TypeOK, Cleanup
<1>8. CASE SendResult(w)
  <2>1. WorkersKept
    BY <1>8, FreshTypes, WorkerStep DEF SendResult
  <2> DEFINE state == [call[b] EXCEPT !.results = Append(@, Outcome(w))]
  <2>2. Outcome(w) \in Results(b)
    <3>1. worker[w].at \in AtWork
      BY <1>8 DEF SendResult, AtWork, Steps
    <3>2. worker[w].job \in 1 .. Jobs[b] /\ worker[w].failed \in BOOLEAN
      BY <1>0, <1>1, <3>1 DEF WorkerState
    <3> QED
      BY <3>2 DEF Outcome, Results, JobsOf
  <2>3. /\ Append(call[b].results, Outcome(w)) \in Seq(Results(b))
        /\ Len(Append(call[b].results, Outcome(w))) <= Jobs[b]
    BY <1>0, <1>1, <1>8, <2>2 DEF CallState, SendResult
  <2>4. state \in CallState(b) /\ Len(state.results) <= Jobs[b]
    BY <1>1, <2>3 DEF CallState
  <2>5. CallsKept
    BY <1>0, <1>8, <2>4, CallStep DEF SendResult
  <2>6. litter' \in BOOLEAN
    BY <1>8 DEF SendResult, TypeOK
  <2> QED
    BY <1>8, <2>1, <2>5, <2>6 DEF TypeOK, SendResult
<1> QED
  BY <1>4, <1>5, <1>6, <1>7, <1>8

LEMMA CrashType == TypeOK /\ Crash => TypeOK'
<1> SUFFICES ASSUME TypeOK, Crash PROVE TypeOK'
  OBVIOUS
<1>1. /\ DOMAIN call' = Batches
      /\ \A b \in Batches : call'[b] \in CallState(b) /\ Len(call'[b].results) <= Jobs[b]
  <2> SUFFICES ASSUME NEW b \in Batches
               PROVE  call'[b] \in CallState(b) /\ Len(call'[b].results) <= Jobs[b]
    BY DEF Crash
  <2>1. call'[b] = IF b \in Running THEN FreshCall(b) ELSE call[b]
    BY DEF Crash
  <2>2. call[b] \in CallState(b) /\ Len(call[b].results) <= Jobs[b]
    BY DEF TypeOK
  <2>3. 0 <= Jobs[b]
    BY BatchAssumption
  <2> QED
    BY <2>1, <2>2, <2>3, FreshTypes
<1>2. DOMAIN worker' = Workers /\ \A w \in Workers : worker'[w] \in WorkerState(w)
  BY FreshTypes DEF Crash, TypeOK
<1>3. disk' \in [Paths -> Contents] /\ stable' = disk'
  <2>1. PICK f \in AfterCrash : disk' = f /\ stable' = f
    BY DEF Crash
  <2>2. \A p \in Paths : stable[p] \in Contents /\ Settled(disk[p]) \in Contents
    BY FileTypes DEF TypeOK
  <2> QED
    BY <2>1, <2>2 DEF AfterCrash
<1>4. litter' \in BOOLEAN /\ crashes' \in 0 .. MaxCrashes
  <2>1. crashes \in 0 .. MaxCrashes /\ litter \in BOOLEAN /\ MaxCrashes \in Nat
    BY BatchAssumption DEF TypeOK
  <2>2. crashes' = crashes + 1 /\ crashes < MaxCrashes
    BY DEF Crash
  <2>3. litter' \in BOOLEAN
    BY <2>1 DEF Crash
  <2> QED
    BY <2>1, <2>2, <2>3
<1> QED
  BY <1>1, <1>2, <1>3, <1>4 DEF TypeOK

LEMMA TypeStep == TypeOK /\ [Next]_vars => TypeOK'
<1> SUFFICES ASSUME TypeOK, [Next]_vars PROVE TypeOK'
  OBVIOUS
<1>1. CASE UNCHANGED vars
  BY <1>1 DEF TypeOK, vars, files
<1>2. CASE Next
  BY <1>2, NextCases, CallActionsType, WorkerActionsType, CrashType
<1> QED
  BY <1>1, <1>2

(* Every index the feeder, the workers and the collector of PackFiles use   *)
(* names a job, and the results channel never exceeds its capacity.         *)
THEOREM TypeCorrect == Spec => []TypeOK
BY TypeInit, TypeStep, PTL DEF Spec

-----------------------------------------------------------------------------
(* Files.                                                                   *)

(* Every visible file is whole and synced, because what a worker is about   *)
(* to rename is synced.                                                     *)
WholeFiles ==
    /\ \A p \in Paths : disk[p].kind # "torn" /\ disk[p].synced
    /\ \A p \in Paths : stable[p].kind # "torn" /\ stable[p].synced
    /\ \A w \in Workers : worker[w].at \in {"stat", "rename"} => worker[w].temp = "synced"

LEMMA WholeInit == Init => WholeFiles
BY DEF Init, WholeFiles, NotOurs, FreshWorker

LEMMA WholeStep == TypeOK /\ WholeFiles /\ [Next]_vars => WholeFiles'
<1> SUFFICES ASSUME TypeOK, WholeFiles, [Next]_vars PROVE WholeFiles'
  OBVIOUS
<1>1. CASE UNCHANGED vars
  BY <1>1 DEF WholeFiles, vars, files
<1>2. ASSUME NEW b \in Batches,
             InspectPath(b) \/ Load(b) \/ CloseResults(b) \/ Collect(b) \/ Return(b)
      PROVE  WholeFiles'
  <2>1. worker' = worker /\ disk' = disk /\ stable' = stable
    BY <1>2 DEF InspectPath, Load, CloseResults, Collect, Return, files
  <2> QED
    BY <2>1 DEF WholeFiles
<1>3. ASSUME NEW w \in Workers,
             \/ Hand(w) \/ Exit(w) \/ PackJob(w) \/ CreateTemp(w) \/ WriteTemp(w)
             \/ SyncTemp(w) \/ StatOutput(w) \/ Rename(w) \/ Cleanup(w) \/ SendResult(w)
      PROVE  WholeFiles'
  <2>1. stable' = stable
    BY <1>3 DEF Hand, Exit, PackJob, CreateTemp, WriteTemp, SyncTemp, StatOutput, Rename,
                Cleanup, SendResult, files
  <2>2. \A v \in Workers \ {w} : worker'[v] = worker[v]
    BY <1>3 DEF TypeOK, Hand, Exit, PackJob, CreateTemp, WriteTemp, SyncTemp, StatOutput, Rename,
                Cleanup, SendResult, Go, GoWithTemp, MayFail, Fail
  <2>3. worker[w] \in WorkerState(w) /\ DOMAIN worker = Workers
    BY DEF TypeOK
  <2>4. worker'[w].at \in {"stat", "rename"} => worker'[w].temp = "synced"
    BY <1>3, <2>3 DEF WorkerState, WholeFiles, Hand, Exit, PackJob, CreateTemp, WriteTemp, SyncTemp,
                StatOutput, Rename, Cleanup, SendResult, Go, GoWithTemp, MayFail, Fail, AfterSync,
                FreshWorker
  <2>5. \A p \in Paths : disk'[p].kind # "torn" /\ disk'[p].synced
    <3>1. CASE Rename(w)
      <4>1. ApkFile(BatchOf[w], worker[w].job, worker[w].temp = "synced").synced
        BY <3>1 DEF ApkFile, Rename, WholeFiles
      <4>2. ApkFile(BatchOf[w], worker[w].job, worker[w].temp = "synced").kind = "apk"
        BY DEF ApkFile
      <4> HIDE DEF ApkFile
      <4> QED
        BY <3>1, <4>1, <4>2 DEF Rename, WholeFiles, TypeOK
    <3>2. CASE ~Rename(w)
      <4>1. disk' = disk
        BY <1>3, <3>2 DEF Hand, Exit, PackJob, CreateTemp, WriteTemp, SyncTemp, StatOutput,
                          Cleanup, SendResult, files
      <4> QED
        BY <4>1 DEF WholeFiles
    <3> QED
      BY <3>1, <3>2
  <2> QED
    BY <2>1, <2>2, <2>4, <2>5 DEF WholeFiles
<1>4. ASSUME Crash PROVE WholeFiles'
  <2>1. \A p \in Paths : Settled(disk[p]) = disk[p]
    BY DEF WholeFiles, Settled
  <2>2. PICK f \in AfterCrash : disk' = f /\ stable' = f
    BY <1>4 DEF Crash
  <2>3. \A p \in Paths : f[p] \in {stable[p], disk[p]}
    BY <2>1 DEF AfterCrash
  <2>4. \A w \in Workers : worker'[w] \in {worker[w], FreshWorker}
    BY <1>4 DEF Crash
  <2> QED
    BY <2>2, <2>3, <2>4 DEF WholeFiles, FreshWorker
<1> QED
  BY <1>1, <1>2, <1>3, <1>4, NextCases

(* No output path ever shows part of an APK: atomicWrite syncs before it    *)
(* renames, so neither the interleaving of any number of batches nor a      *)
(* crash exposes unfinished data.                                           *)
THEOREM NothingIsTorn == Spec => []NothingTorn
<1>1. WholeFiles => NothingTorn
  BY DEF WholeFiles, NothingTorn
<1> QED
  BY <1>1, TypeInit, TypeStep, WholeInit, WholeStep, PTL DEF Spec

-----------------------------------------------------------------------------
(* Jobs and results.                                                        *)

BusyCrew(b) == {w \in Crew(b) : worker[w].at \in AtWork}

(* Every result, sent or still to be sent, belongs to an index handed out.  *)
Room(b) == Len(call[b].results) + Cardinality(BusyCrew(b)) <= call[b].next - 1

(* Every index handed out is with a worker, in the results channel or with  *)
(* the collector, who keeps its artifact or has an error to return.         *)
Accounted(b) ==
    \A i \in 1 .. call[b].next - 1 :
        \/ \E w \in BusyCrew(b) : worker[w].job = i
        \/ \E k \in 1 .. Len(call[b].results) : call[b].results[k].index = i
        \/ call[b].artifacts[i] = i
        \/ call[b].firstErr # 0

(* Once the results channel is closed nothing more can happen to it.        *)
Drained(b) ==
    /\ call[b].closed => call[b].next = Jobs[b] + 1 /\ \A w \in Crew(b) : worker[w].at = "exited"
    /\ call[b].phase = "done" => call[b].closed /\ call[b].results = <<>>

Book(b) == Room(b) /\ Accounted(b) /\ Drained(b)

LEMMA BusyCrewFinite ==
    \A b \in Batches : IsFiniteSet(BusyCrew(b)) /\ Cardinality(BusyCrew(b)) \in Nat
<1> TAKE b \in Batches
<1>1. IsFiniteSet(Workers)
  BY BatchAssumption
<1>2. BusyCrew(b) \in SUBSET Workers
  BY DEF BusyCrew, Crew
<1>3. IsFiniteSet(BusyCrew(b))
  BY <1>1, <1>2, FS_Subset
<1> QED
  BY <1>3, FS_CardinalityType

(* A step that leaves the jobs of a batch where they are.                   *)
Quiet(b) ==
    /\ call'[b] = call[b]
    /\ \A w \in Crew(b) :
          /\ worker'[w].at \in AtWork <=> worker[w].at \in AtWork
          /\ worker'[w].job = worker[w].job
          /\ worker[w].at = "exited" => worker'[w].at = "exited"

(* What a step can do to the jobs of one batch.                             *)
LEMMA BatchCases ==
    ASSUME TypeOK, [Next]_vars, NEW b \in Batches, NEW Goal,
           Quiet(b) => Goal,
           InspectPath(b) \/ Load(b) \/ CloseResults(b) \/ Return(b) => Goal,
           Collect(b) => Goal,
           ASSUME NEW w \in Workers, b = BatchOf[w], Hand(w) \/ SendResult(w) PROVE Goal,
           Crash => Goal
    PROVE  Goal
<1>1. CASE UNCHANGED vars
  BY <1>1 DEF vars, Quiet
<1>2. ASSUME NEW c \in Batches,
             InspectPath(c) \/ Load(c) \/ CloseResults(c) \/ Collect(c) \/ Return(c)
      PROVE  Goal
  <2>1. CASE b = c
    BY <1>2, <2>1
  <2>2. CASE b # c
    <3>1. call'[b] = call[b] /\ worker' = worker
      BY <1>2, <2>2 DEF InspectPath, Load, CloseResults, Collect, Return, Refuse, TypeOK
    <3> QED
      BY <3>1 DEF Quiet
  <2> QED
    BY <2>1, <2>2
<1>3. ASSUME NEW w \in Workers,
             \/ Hand(w) \/ Exit(w) \/ PackJob(w) \/ CreateTemp(w) \/ WriteTemp(w)
             \/ SyncTemp(w) \/ StatOutput(w) \/ Rename(w) \/ Cleanup(w) \/ SendResult(w)
      PROVE  Goal
  <2>1. \A v \in Workers \ {w} : worker'[v] = worker[v]
    BY <1>3 DEF TypeOK, Hand, Exit, PackJob, CreateTemp, WriteTemp, SyncTemp, StatOutput, Rename,
                Cleanup, SendResult, Go, GoWithTemp, MayFail, Fail
  <2>2. CASE b # BatchOf[w]
    <3>1. call'[b] = call[b]
      BY <1>3, <2>2 DEF TypeOK, Hand, Exit, PackJob, CreateTemp, WriteTemp, SyncTemp, StatOutput,
                        Rename, Cleanup, SendResult
    <3>2. \A v \in Crew(b) : worker'[v] = worker[v]
      BY <2>1, <2>2 DEF Crew
    <3> QED
      BY <3>1, <3>2 DEF Quiet
  <2>3. CASE b = BatchOf[w] /\ (Hand(w) \/ SendResult(w))
    BY <2>3
  <2>4. CASE ~Hand(w) /\ ~SendResult(w)
    <3>1. call' = call
      BY <1>3, <2>4 DEF Exit, PackJob, CreateTemp, WriteTemp, SyncTemp, StatOutput, Rename, Cleanup
    <3>2. /\ worker'[w].job = worker[w].job
          /\ worker[w].at # "exited"
          /\ worker'[w].at \in AtWork <=> worker[w].at \in AtWork
      <4>1. worker[w] \in WorkerState(w) /\ DOMAIN worker = Workers
        BY DEF TypeOK
      <4> QED
        BY <1>3, <2>4, <4>1 DEF WorkerState, AtWork, Steps, Exit, PackJob, CreateTemp, WriteTemp,
              SyncTemp, StatOutput, Rename, Cleanup, Go, GoWithTemp, MayFail, Fail, AfterSync
    <3>3. \A v \in Crew(b) :
             /\ worker'[v].at \in AtWork <=> worker[v].at \in AtWork
             /\ worker'[v].job = worker[v].job
             /\ worker[v].at = "exited" => worker'[v].at = "exited"
      BY <2>1, <3>2 DEF Crew
    <3> QED
      BY <3>1, <3>3 DEF Quiet
  <2> QED
    BY <2>2, <2>3, <2>4
<1> QED
  BY <1>1, <1>2, <1>3, NextCases

(* A quiet step keeps the book of its batch.                                *)
LEMMA BookQuiet ==
    ASSUME NEW b \in Batches, Book(b), Quiet(b)
    PROVE  Book(b)'
<1>1. BusyCrew(b)' = BusyCrew(b)
  BY DEF Quiet, BusyCrew
<1>2. \A w \in BusyCrew(b) : worker'[w].job = worker[w].job
  BY DEF Quiet, BusyCrew
<1>3. Room(b)'
  BY <1>1 DEF Quiet, Book, Room
<1>4. Accounted(b)'
  BY <1>1, <1>2 DEF Quiet, Book, Accounted
<1>5. Drained(b)'
  BY DEF Quiet, Book, Drained
<1> QED
  BY <1>3, <1>4, <1>5 DEF Book

LEMMA BookInit == Init => \A b \in Batches : Book(b)
<1> SUFFICES ASSUME Init, NEW b \in Batches PROVE Book(b)
  OBVIOUS
<1>1. call[b] = FreshCall(b) /\ \A w \in Crew(b) : worker[w] = FreshWorker
  BY DEF Init, Crew
<1>2. BusyCrew(b) = {}
  BY <1>1 DEF BusyCrew, FreshWorker, AtWork
<1>3. Cardinality(BusyCrew(b)) = 0
  BY <1>2, FS_EmptySet
<1>4. call[b].next = 1 /\ call[b].results = <<>> /\ ~call[b].closed /\ call[b].phase = "plan"
  BY <1>1 DEF FreshCall
<1> QED
  BY <1>3, <1>4 DEF Book, Room, Accounted, Drained

(* Facts about a call the steps below share.                                *)
LEMMA CallRange ==
    ASSUME TypeOK, NEW b \in Batches
    PROVE  /\ Jobs[b] \in Nat /\ Jobs[b] # 0
           /\ call[b].next \in Nat /\ call[b].next >= 1 /\ call[b].next - 1 <= Jobs[b]
           /\ call[b].results \in Seq(Results(b)) /\ Len(call[b].results) \in Nat
           /\ call[b].artifacts \in [JobsOf(b) -> 0 .. Jobs[b]]
           /\ call[b].firstErr \in Nat
<1>1. Jobs[b] \in Nat \ {0}
  BY BatchAssumption
<1>2. call[b] \in CallState(b)
  BY DEF TypeOK
<1>3. call[b].next \in 1 .. Jobs[b] + 1 /\ call[b].firstErr \in 0 .. Jobs[b]
  BY <1>2 DEF CallState
<1>4. call[b].results \in Seq(Results(b)) /\ call[b].artifacts \in [JobsOf(b) -> 0 .. Jobs[b]]
  BY <1>2 DEF CallState
<1>5. Len(call[b].results) \in Nat
  BY <1>4
<1> QED
  BY <1>1, <1>3, <1>4, <1>5

LEMMA CallRecord ==
    ASSUME TypeOK, NEW b \in Batches
    PROVE  call[b] = [phase |-> call[b].phase, planned |-> call[b].planned,
                      next |-> call[b].next, results |-> call[b].results,
                      closed |-> call[b].closed, artifacts |-> call[b].artifacts,
                      firstErr |-> call[b].firstErr]
BY DEF TypeOK, CallState

LEMMA BookOfCall ==
    ASSUME TypeOK, NEW b \in Batches, Book(b),
           InspectPath(b) \/ Load(b) \/ CloseResults(b) \/ Return(b)
    PROVE  Book(b)'
<1>1. worker' = worker /\ DOMAIN call = Batches
  BY DEF InspectPath, Load, CloseResults, Return, TypeOK
<1>2. /\ call'[b].next = call[b].next
      /\ call'[b].results = call[b].results
      /\ call'[b].artifacts = call[b].artifacts
      /\ call'[b].firstErr = call[b].firstErr
  BY <1>1, CallRecord DEF InspectPath, Load, CloseResults, Return, Refuse
<1>3. BusyCrew(b)' = BusyCrew(b)
  BY <1>1 DEF BusyCrew
<1>4. Room(b)' /\ Accounted(b)'
  BY <1>1, <1>2, <1>3 DEF Book, Room, Accounted
<1>5. Drained(b)'
  <2>1. CASE InspectPath(b) \/ Load(b)
    <3>1. call'[b].closed = call[b].closed /\ call'[b].phase # "done"
      BY <1>1, <2>1, CallRecord DEF InspectPath, Load, Refuse
    <3> QED
      BY <1>1, <1>2, <3>1 DEF Book, Drained
  <2>2. CASE CloseResults(b)
    <3>1. call'[b].phase = "run" /\ call[b].next = Jobs[b] + 1
          /\ \A w \in Crew(b) : worker[w].at = "exited"
      BY <1>1, <2>2, CallRecord DEF CloseResults
    <3> QED
      BY <1>1, <1>2, <3>1 DEF Drained
  <2>3. CASE Return(b)
    <3>1. call[b].closed /\ call[b].results = <<>>
      BY <2>3, Zenon DEF Return
    <3>2. call'[b].closed = call[b].closed
      <4>1. call' = [call EXCEPT ![b].phase = "done"]
        BY <2>3 DEF Return
      <4> QED
        BY <1>1, <4>1, CallRecord
    <3> QED
      BY <1>1, <1>2, <3>1, <3>2 DEF Book, Drained
  <2> QED
    BY <2>1, <2>2, <2>3
<1> QED
  BY <1>4, <1>5 DEF Book

LEMMA BookCollect ==
    ASSUME TypeOK, NEW b \in Batches, Book(b), Collect(b)
    PROVE  Book(b)'
<1> DEFINE item == Head(call[b].results)
           n == Len(call[b].results)
<1>0. worker' = worker /\ DOMAIN call = Batches /\ call[b].phase = "run"
  BY DEF Collect, TypeOK
<1>1. call[b].results \in Seq(Results(b)) /\ call[b].results # <<>>
  BY CallRange DEF Collect
<1>2. item \in Results(b) /\ item = call[b].results[1] /\ item.index \in JobsOf(b)
  <2>1. item \in Results(b) /\ item = call[b].results[1]
    BY <1>1
  <2> QED
    BY <2>1 DEF Results
<1>3. /\ call'[b].results = Tail(call[b].results)
      /\ call'[b].next = call[b].next
      /\ call'[b].phase = "run"
      /\ call'[b].closed = call[b].closed
      /\ item.ok => /\ call'[b].artifacts = [call[b].artifacts EXCEPT ![item.index] = item.index]
                    /\ call'[b].firstErr = call[b].firstErr
      /\ ~item.ok => /\ call'[b].artifacts = call[b].artifacts
                     /\ call'[b].firstErr = IF call[b].firstErr = 0 THEN item.index ELSE call[b].firstErr
  <2>1. call[b].phase = "run"
    BY DEF Collect
  <2> QED
    BY <1>0, <2>1, CallRecord DEF Collect
<1>4. /\ n \in Nat \ {0}
      /\ Len(call'[b].results) = n - 1
      /\ \A k \in 2 .. n : call'[b].results[k - 1] = call[b].results[k]
  BY <1>1, <1>3
<1>5. BusyCrew(b)' = BusyCrew(b)
  BY <1>0 DEF BusyCrew
<1>6. Room(b)'
  BY <1>3, <1>4, <1>5, BusyCrewFinite, CallRange DEF Book, Room
<1>7. Accounted(b)'
  <2> SUFFICES ASSUME NEW i \in 1 .. call[b].next - 1,
                      ~ \E w \in BusyCrew(b) : worker[w].job = i,
                      call'[b].firstErr = 0
               PROVE  \/ \E k \in 1 .. Len(call'[b].results) : call'[b].results[k].index = i
                      \/ call'[b].artifacts[i] = i
    BY <1>0, <1>3, <1>5 DEF Accounted
  <2>1. i \in JobsOf(b) /\ item.index # 0 /\ DOMAIN call[b].artifacts = JobsOf(b)
    BY <1>2, CallRange DEF JobsOf
  <2>2. item.ok /\ call[b].firstErr = 0
    BY <1>3, <2>1
  <2>3. call'[b].artifacts = [call[b].artifacts EXCEPT ![item.index] = item.index]
    BY <1>3, <2>2
  <2> HIDE DEF item
  <2>4. CASE call[b].artifacts[i] = i
    BY <1>2, <2>1, <2>3, <2>4
  <2>5. CASE i = item.index
    BY <1>2, <2>1, <2>3, <2>5
  <2>6. CASE i # item.index /\ \E k \in 1 .. n : call[b].results[k].index = i
    <3>1. PICK k \in 1 .. n : call[b].results[k].index = i
      BY <2>6
    <3>2. k \in 2 .. n
      BY <1>2, <1>4, <2>6, <3>1
    <3>3. k - 1 \in 1 .. Len(call'[b].results) /\ call'[b].results[k - 1].index = i
      BY <1>4, <3>1, <3>2
    <3> QED
      BY <3>3
  <2> QED
    BY <2>2, <2>4, <2>5, <2>6 DEF Book, Accounted
<1>8. Drained(b)'
  BY <1>0, <1>3 DEF Book, Drained
<1> QED
  BY <1>6, <1>7, <1>8 DEF Book

LEMMA BookHand ==
    ASSUME TypeOK, NEW w \in Workers, Book(BatchOf[w]), Hand(w)
    PROVE  Book(BatchOf[w])'
<1> DEFINE b == BatchOf[w]
<1>0. b \in Batches /\ w \in Crew(b)
  BY SomeWorkerSomeBatch DEF Crew
<1>1. /\ worker[w].at = "idle"
      /\ worker'[w].at = "pack" /\ worker'[w].job = call[b].next
      /\ \A v \in Workers \ {w} : worker'[v] = worker[v]
  BY DEF Hand, TypeOK
<1>2. /\ call'[b].next = call[b].next + 1
      /\ call'[b].results = call[b].results
      /\ call'[b].artifacts = call[b].artifacts
      /\ call'[b].firstErr = call[b].firstErr
      /\ call'[b].closed = call[b].closed
      /\ call'[b].phase = "run" /\ call[b].phase = "run"
  <2>1. DOMAIN call = Batches /\ call[b].phase = "run"
    BY DEF TypeOK, Hand
  <2> QED
    BY <1>0, <2>1, CallRecord DEF Hand
<1>3. BusyCrew(b)' = BusyCrew(b) \cup {w} /\ w \notin BusyCrew(b)
  BY <1>0, <1>1 DEF BusyCrew, Crew, AtWork, Steps
<1>4. Cardinality(BusyCrew(b)') = Cardinality(BusyCrew(b)) + 1
  BY <1>0, <1>3, BusyCrewFinite, FS_AddElement
<1> HIDE DEF b
<1>5. Room(b)'
  <2>1. Room(b) /\ Cardinality(BusyCrew(b)) \in Nat
    BY <1>0, BusyCrewFinite DEF Book, b
  <2>2. call[b].next \in Nat /\ Len(call[b].results) \in Nat
    BY <1>0, CallRange
  <2> QED
    BY <1>2, <1>4, <2>1, <2>2 DEF Room
<1>6. Accounted(b)'
  <2> SUFFICES ASSUME NEW i \in 1 .. call'[b].next - 1 PROVE
                      \/ \E v \in BusyCrew(b)' : worker'[v].job = i
                      \/ \E k \in 1 .. Len(call'[b].results) : call'[b].results[k].index = i
                      \/ call'[b].artifacts[i] = i
                      \/ call'[b].firstErr # 0
    BY DEF Accounted
  <2>1. CASE i = call[b].next
    BY <1>1, <1>3, <2>1 DEF b
  <2>2. CASE i # call[b].next
    <3>1. i \in 1 .. call[b].next - 1
      BY <1>0, <1>2, <2>2, CallRange
    <3>2. \A v \in BusyCrew(b) : v \in BusyCrew(b)' /\ worker'[v].job = worker[v].job
      BY <1>1, <1>3 DEF BusyCrew, Crew
    <3> QED
      BY <1>2, <3>1, <3>2 DEF Book, Accounted, b
  <2> QED
    BY <2>1, <2>2
<1>7. Drained(b)'
  <2>1. ~call[b].closed
    BY <1>0, <1>1 DEF Book, Drained, b
  <2> QED
    BY <1>2, <2>1 DEF Drained
<1> QED
  BY <1>5, <1>6, <1>7 DEF Book, b

LEMMA BookSend ==
    ASSUME TypeOK, NEW w \in Workers, Book(BatchOf[w]), SendResult(w)
    PROVE  Book(BatchOf[w])'
<1> DEFINE b == BatchOf[w]
           n == Len(call[b].results)
<1>0. b \in Batches /\ w \in Crew(b)
  BY SomeWorkerSomeBatch DEF Crew
<1>1. /\ worker[w].at = "send"
      /\ worker'[w].at = "idle"
      /\ \A v \in Workers \ {w} : worker'[v] = worker[v]
  BY DEF SendResult, TypeOK, FreshWorker
<1>2. /\ call'[b].next = call[b].next
      /\ call'[b].results = Append(call[b].results, Outcome(w))
      /\ call'[b].artifacts = call[b].artifacts
      /\ call'[b].firstErr = call[b].firstErr
      /\ call'[b].closed = call[b].closed
      /\ call'[b].phase = call[b].phase
  <2>1. DOMAIN call = Batches
    BY DEF TypeOK
  <2> QED
    BY <1>0, <2>1, CallRecord DEF SendResult
<1>3. BusyCrew(b)' = BusyCrew(b) \ {w} /\ w \in BusyCrew(b)
  BY <1>0, <1>1 DEF BusyCrew, Crew, AtWork, Steps
<1>4. Cardinality(BusyCrew(b)') = Cardinality(BusyCrew(b)) - 1
  BY <1>0, <1>3, BusyCrewFinite, FS_RemoveElement
<1>5. Outcome(w).index = worker[w].job
  BY DEF Outcome
<1> HIDE DEF b
<1>6. n \in Nat /\ call[b].next \in Nat /\ call[b].results \in Seq(Results(b))
  BY <1>0, CallRange
<1>7. /\ Len(call'[b].results) = n + 1
      /\ \A k \in 1 .. n : call'[b].results[k] = call[b].results[k]
      /\ call'[b].results[n + 1] = Outcome(w)
  <2> DEFINE result == Outcome(w)
             sent == call[b].results
  <2> HIDE DEF result
  <2>1. /\ Len(Append(sent, result)) = n + 1
        /\ \A k \in 1 .. n : Append(sent, result)[k] = sent[k]
        /\ Append(sent, result)[n + 1] = result
    BY <1>6
  <2> QED
    BY <1>2, <2>1 DEF result
<1>8. Room(b)'
  <2>1. Room(b) /\ Cardinality(BusyCrew(b)) \in Nat
    BY <1>0, BusyCrewFinite DEF Book, b
  <2> QED
    BY <1>2, <1>4, <1>6, <1>7, <2>1 DEF Room
<1>9. Accounted(b)'
  <2> SUFFICES ASSUME NEW i \in 1 .. call[b].next - 1 PROVE
                      \/ \E v \in BusyCrew(b)' : worker'[v].job = i
                      \/ \E k \in 1 .. Len(call'[b].results) : call'[b].results[k].index = i
                      \/ call'[b].artifacts[i] = i
                      \/ call'[b].firstErr # 0
    BY <1>2 DEF Accounted
  <2>1. CASE i = worker[w].job
    <3>1. n + 1 \in 1 .. Len(call'[b].results) /\ call'[b].results[n + 1].index = i
      BY <1>5, <1>6, <1>7, <2>1
    <3> QED
      BY <3>1
  <2>2. CASE i # worker[w].job /\ \E v \in BusyCrew(b) : worker[v].job = i
    <3>1. PICK v \in BusyCrew(b) : worker[v].job = i
      BY <2>2
    <3>2. v \in BusyCrew(b)' /\ worker'[v].job = i
      BY <1>1, <1>3, <2>2, <3>1 DEF BusyCrew, Crew
    <3> QED
      BY <3>2
  <2>3. CASE \E k \in 1 .. n : call[b].results[k].index = i
    <3>1. PICK k \in 1 .. n : call[b].results[k].index = i
      BY <2>3
    <3>2. call'[b].results[k] = call[b].results[k]
      BY <1>7
    <3>3. k \in 1 .. Len(call'[b].results)
      BY <1>6, <1>7
    <3> QED
      BY <3>1, <3>2, <3>3
  <2> QED
    BY <1>2, <2>1, <2>2, <2>3 DEF Book, Accounted, b
<1>10. Drained(b)'
  <2>1. ~call[b].closed
    BY <1>0, <1>1 DEF Book, Drained, b
  <2>2. call[b].phase # "done"
    BY <2>1 DEF Book, Drained, b
  <2> QED
    BY <1>2, <2>1, <2>2 DEF Drained
<1> QED
  BY <1>8, <1>9, <1>10 DEF Book, b

LEMMA BookCrash ==
    ASSUME NEW b \in Batches, Book(b), Crash
    PROVE  Book(b)'
<1>1. CASE b \in Running
  <2>1. call'[b] = FreshCall(b)
    BY <1>1 DEF Crash
  <2>2. \A w \in Crew(b) : worker'[w] = FreshWorker
    BY <1>1 DEF Crash, Crew
  <2>3. BusyCrew(b)' = {}
    BY <2>2 DEF BusyCrew, FreshWorker, AtWork
  <2>4. Cardinality(BusyCrew(b)') = 0
    BY <2>3, FS_EmptySet
  <2>5. /\ call'[b].next = 1 /\ call'[b].results = <<>>
        /\ ~call'[b].closed /\ call'[b].phase = "plan"
    BY <2>1 DEF FreshCall
  <2> QED
    BY <2>4, <2>5 DEF Book, Room, Accounted, Drained
<1>2. CASE b \notin Running
  <2>1. call'[b] = call[b] /\ \A w \in Crew(b) : worker'[w] = worker[w]
    BY <1>2 DEF Crash, Crew
  <2> QED
    BY <2>1, BookQuiet DEF Quiet
<1> QED
  BY <1>1, <1>2

LEMMA BookStep ==
    TypeOK /\ (\A b \in Batches : Book(b)) /\ [Next]_vars => \A b \in Batches : Book(b)'
<1> SUFFICES ASSUME TypeOK, \A c \in Batches : Book(c), [Next]_vars, NEW b \in Batches
             PROVE  Book(b)'
  OBVIOUS
<1>1. ASSUME NEW w \in Workers, b = BatchOf[w], Hand(w) \/ SendResult(w) PROVE Book(b)'
  BY <1>1, BookHand, BookSend
<1> QED
  BY <1>1, BatchCases, BookQuiet, BookOfCall, BookCollect, BookCrash

LEMMA BookKept == Spec => [](TypeOK /\ \A b \in Batches : Book(b))
<1> DEFINE IInv == TypeOK /\ \A b \in Batches : Book(b)
<1>1. Init => IInv
  BY TypeInit, BookInit
<1>2. IInv /\ [Next]_vars => IInv'
  BY TypeStep, BookStep
<1> QED
  BY <1>1, <1>2, PTL DEF Spec

(* A worker of PackFiles that has a result never waits for room in the      *)
(* results channel, so the feeder that waits for the workers cannot wait    *)
(* for the collector.                                                       *)
THEOREM SendersNeverWait == Spec => []ResultsHaveRoom
<1>1. ASSUME TypeOK, \A b \in Batches : Book(b) PROVE ResultsHaveRoom
  <2> SUFFICES ASSUME NEW w \in Workers, worker[w].at = "send"
               PROVE  Len(call[BatchOf[w]].results) < Jobs[BatchOf[w]]
    BY DEF ResultsHaveRoom
  <2> DEFINE b == BatchOf[w]
  <2>1. b \in Batches /\ w \in BusyCrew(b)
    BY SomeWorkerSomeBatch DEF BusyCrew, Crew, AtWork, Steps
  <2>2. Cardinality(BusyCrew(b)) # 0 /\ Cardinality(BusyCrew(b)) \in Nat
    BY <2>1, BusyCrewFinite, FS_EmptySet
  <2> HIDE DEF b
  <2>3. Room(b) /\ Jobs[b] \in Nat /\ call[b].next \in Nat /\ call[b].next - 1 <= Jobs[b]
        /\ Len(call[b].results) \in Nat
    BY <1>1, <2>1, CallRange DEF Book
  <2>4. Len(call[b].results) < Jobs[b]
    BY <2>2, <2>3 DEF Room
  <2> QED
    BY <2>4 DEF b
<1> QED
  BY <1>1, BookKept, PTL

(* A batch that succeeds returns an artifact for every channel in the       *)
(* channel's own place: no index is lost between the feeder, the workers,   *)
(* the results channel and the collector.                                   *)
THEOREM EveryArtifactInPlace == Spec => []ArtifactsInOrder
<1>1. ASSUME TypeOK, \A b \in Batches : Book(b) PROVE ArtifactsInOrder
  <2> SUFFICES ASSUME NEW b \in Batches, Succeeded(b), NEW i \in JobsOf(b)
               PROVE  call[b].artifacts[i] = i
    BY DEF ArtifactsInOrder
  <2>1. call[b].phase = "done" /\ call[b].firstErr = 0
    BY DEF Succeeded
  <2>2. call[b].next = Jobs[b] + 1 /\ call[b].results = <<>>
        /\ \A w \in Crew(b) : worker[w].at = "exited"
    BY <1>1, <2>1 DEF Book, Drained
  <2>3. BusyCrew(b) = {}
    BY <2>2 DEF BusyCrew, AtWork
  <2>4. i \in 1 .. call[b].next - 1
    BY <1>1, <2>2, CallRange DEF JobsOf
  <2>5. ~ \E k \in 1 .. Len(call[b].results) : call[b].results[k].index = i
    BY <2>2
  <2> QED
    BY <1>1, <2>1, <2>3, <2>4, <2>5 DEF Book, Accounted
<1> QED
  BY <1>1, BookKept, PTL

-----------------------------------------------------------------------------
(* Each job in one place: a job that was handed out is with a worker, in    *)
(* the results channel or with the collector, and nothing before that       *)
(* worker's rename can fail after its file is visible.                      *)

Sent(b) == DOMAIN call[b].results

(* With a worker: its own job, not yet in the results channel, and not yet  *)
(* seen by the collector.                                                   *)
WithWorkers(b) ==
    /\ \A w \in BusyCrew(b) :
          /\ worker[w].job < call[b].next
          /\ call[b].artifacts[worker[w].job] = 0
          /\ call[b].firstErr # worker[w].job
          /\ \A k \in Sent(b) : call[b].results[k].index # worker[w].job
    /\ \A v, w \in BusyCrew(b) : worker[v].job = worker[w].job => v = w

(* In the results channel: once, and not yet seen by the collector.         *)
InChannel(b) ==
    /\ \A k \in Sent(b) :
          /\ call[b].results[k].index < call[b].next
          /\ call[b].artifacts[call[b].results[k].index] = 0
          /\ call[b].firstErr # call[b].results[k].index
    /\ \A k, l \in Sent(b) : call[b].results[k].index = call[b].results[l].index => k = l

(* With the collector: an artifact in its own slot, or the error.           *)
Collected(b) ==
    /\ \A i \in JobsOf(b) :
          call[b].artifacts[i] # 0 => call[b].artifacts[i] = i /\ i < call[b].next
    /\ call[b].firstErr # 0 =>
          call[b].artifacts[call[b].firstErr] = 0 /\ call[b].firstErr < call[b].next

(* A call that never started its pool has handed out nothing.               *)
NotStarted(b) == call[b].phase \in {"plan", "refused"} => call[b].next = 1

Once(b) == WithWorkers(b) /\ InChannel(b) /\ Collected(b) /\ NotStarted(b)

(* A worker fails its job before its file is visible or not at all, and has *)
(* a temporary file between its creation and the rename or the removal.     *)
Upright(w) ==
    /\ worker[w].at \in {"pack", "create", "write", "sync", "stat", "rename"} => ~worker[w].failed
    /\ worker[w].at = "cleanup" => worker[w].failed
    /\ worker[w].temp # "none" => worker[w].at \in {"write", "sync", "stat", "rename", "cleanup"}

-----------------------------------------------------------------------------
(* The steps of one batch and its invariant.                                *)

LEMMA OnceInit == Init => \A b \in Batches : Once(b)
<1> SUFFICES ASSUME Init, NEW b \in Batches PROVE Once(b)
  OBVIOUS
<1>1. call[b] = FreshCall(b) /\ \A w \in Crew(b) : worker[w] = FreshWorker
  BY DEF Init, Crew
<1>2. BusyCrew(b) = {}
  BY <1>1 DEF BusyCrew, FreshWorker, AtWork
<1>3. Sent(b) = {} /\ call[b].firstErr = 0 /\ call[b].next = 1
      /\ \A i \in JobsOf(b) : call[b].artifacts[i] = 0
  BY <1>1 DEF Sent, FreshCall
<1> QED
  BY <1>2, <1>3 DEF Once, WithWorkers, InChannel, Collected, NotStarted

LEMMA OnceQuiet ==
    ASSUME NEW b \in Batches, Once(b), Quiet(b)
    PROVE  Once(b)'
<1>1. BusyCrew(b)' = BusyCrew(b) /\ Sent(b)' = Sent(b)
  BY DEF Quiet, BusyCrew, Sent
<1>2. \A w \in BusyCrew(b) : worker'[w].job = worker[w].job
  BY DEF Quiet, BusyCrew
<1>3. WithWorkers(b)'
  BY <1>1, <1>2 DEF Quiet, Once, WithWorkers
<1>4. InChannel(b)'
  BY <1>1 DEF Quiet, Once, InChannel
<1> QED
  BY <1>3, <1>4 DEF Quiet, Once, Collected, NotStarted

LEMMA OnceOfCall ==
    ASSUME TypeOK, NEW b \in Batches, Once(b),
           InspectPath(b) \/ Load(b) \/ CloseResults(b) \/ Return(b)
    PROVE  Once(b)'
<1>1. worker' = worker /\ DOMAIN call = Batches
  BY DEF InspectPath, Load, CloseResults, Return, TypeOK
<1>2. /\ call'[b].next = call[b].next
      /\ call'[b].results = call[b].results
      /\ call'[b].artifacts = call[b].artifacts
      /\ call'[b].firstErr = call[b].firstErr
      /\ call'[b].phase \in {"plan", "refused"} => call[b].phase \in {"plan", "refused"}
  BY <1>1, CallRecord DEF InspectPath, Load, CloseResults, Return, Refuse
<1>3. BusyCrew(b)' = BusyCrew(b) /\ Sent(b)' = Sent(b)
  BY <1>1, <1>2 DEF BusyCrew, Sent
<1>4. WithWorkers(b)'
  BY <1>1, <1>2, <1>3 DEF Once, WithWorkers
<1>5. InChannel(b)'
  BY <1>2, <1>3 DEF Once, InChannel
<1> QED
  BY <1>2, <1>4, <1>5 DEF Once, Collected, NotStarted

LEMMA OnceCrash ==
    ASSUME NEW b \in Batches, Once(b), Crash
    PROVE  Once(b)'
<1>1. CASE b \in Running
  <2>1. call'[b] = FreshCall(b) /\ \A w \in Crew(b) : worker'[w] = FreshWorker
    BY <1>1 DEF Crash, Crew
  <2>2. BusyCrew(b)' = {}
    BY <2>1 DEF BusyCrew, FreshWorker, AtWork
  <2>3. Sent(b)' = {} /\ call'[b].firstErr = 0 /\ call'[b].next = 1
        /\ \A i \in JobsOf(b) : call'[b].artifacts[i] = 0
    BY <2>1 DEF Sent, FreshCall
  <2> QED
    BY <2>2, <2>3 DEF Once, WithWorkers, InChannel, Collected, NotStarted
<1>2. CASE b \notin Running
  <2>1. call'[b] = call[b] /\ \A w \in Crew(b) : worker'[w] = worker[w]
    BY <1>2 DEF Crash, Crew
  <2> QED
    BY <2>1, OnceQuiet DEF Quiet
<1> QED
  BY <1>1, <1>2

(* The jobs of a batch's workers and results are indexes of its channels.   *)
LEMMA JobRange ==
    ASSUME TypeOK, NEW b \in Batches
    PROVE  /\ \A w \in BusyCrew(b) : worker[w].job \in JobsOf(b)
           /\ \A k \in Sent(b) : call[b].results[k] \in Results(b)
           /\ \A k \in Sent(b) : call[b].results[k].index \in JobsOf(b)
<1>1. ASSUME NEW w \in BusyCrew(b) PROVE worker[w].job \in JobsOf(b)
  <2>1. worker[w] \in WorkerState(w) /\ worker[w].at \in AtWork /\ BatchOf[w] = b
    BY DEF TypeOK, BusyCrew, Crew
  <2> QED
    BY <2>1, BatchAssumption DEF WorkerState, JobsOf
<1>2. ASSUME NEW k \in Sent(b) PROVE call[b].results[k] \in Results(b)
  <2>1. call[b].results \in Seq(Results(b))
    BY CallRange
  <2> QED
    BY <2>1 DEF Sent
<1>3. \A k \in Sent(b) : call[b].results[k].index \in JobsOf(b)
  BY <1>2 DEF Results
<1> QED
  BY <1>1, <1>2, <1>3

(* A job that is handed out is new.                                         *)
LEMMA OnceHand ==
    ASSUME TypeOK, NEW w \in Workers, Once(BatchOf[w]), Hand(w)
    PROVE  Once(BatchOf[w])'
<1> DEFINE b == BatchOf[w]
<1>0. b \in Batches /\ w \in Crew(b)
  BY SomeWorkerSomeBatch DEF Crew
<1>1. /\ worker[w].at = "idle" /\ call[b].phase = "run" /\ call[b].next <= Jobs[b]
      /\ worker'[w].at = "pack" /\ worker'[w].job = call[b].next
      /\ \A v \in Workers \ {w} : worker'[v] = worker[v]
  BY DEF Hand, TypeOK
<1>2. /\ call'[b].next = call[b].next + 1
      /\ call'[b].results = call[b].results
      /\ call'[b].artifacts = call[b].artifacts
      /\ call'[b].firstErr = call[b].firstErr
      /\ call'[b].phase = "run"
  <2>1. DOMAIN call = Batches
    BY DEF TypeOK
  <2> QED
    BY <1>0, <1>1, <2>1, CallRecord DEF Hand
<1>3. BusyCrew(b)' = BusyCrew(b) \cup {w} /\ w \notin BusyCrew(b)
  BY <1>0, <1>1 DEF BusyCrew, Crew, AtWork, Steps
<1>4. \A v \in BusyCrew(b) : worker'[v].job = worker[v].job
  BY <1>1, <1>3 DEF BusyCrew, Crew
<1>5. \A v \in BusyCrew(b) : worker[v].job \in Nat
  BY <1>0, JobRange DEF JobsOf
<1>6. Sent(b)' = Sent(b)
  BY <1>2 DEF Sent
<1> HIDE DEF b
<1>7. /\ call[b].next \in JobsOf(b) /\ Jobs[b] \in Nat
      /\ \A k \in Sent(b) : call[b].results[k].index \in JobsOf(b)
      /\ call[b].firstErr \in Nat
  <2>1. call[b].next <= Jobs[b]
    BY <1>1 DEF b
  <2> QED
    BY <1>0, <2>1, CallRange, JobRange DEF JobsOf
<1>8. call[b].artifacts[call[b].next] = 0
  BY <1>7 DEF Once, Collected, JobsOf, b
<1>9. WithWorkers(b)'
  <2>1. WithWorkers(b) /\ InChannel(b) /\ Collected(b)
    BY DEF Once, b
  <2>2. ASSUME NEW v \in BusyCrew(b)'
        PROVE  /\ worker'[v].job < call'[b].next
               /\ call'[b].artifacts[worker'[v].job] = 0
               /\ call'[b].firstErr # worker'[v].job
               /\ \A k \in Sent(b)' : call'[b].results[k].index # worker'[v].job
    <3>1. CASE v = w
      <4>1. \A k \in Sent(b) : call[b].results[k].index < call[b].next
        BY <2>1 DEF InChannel
      <4>2. call[b].firstErr # call[b].next
        BY <1>7, <2>1 DEF Collected, JobsOf
      <4> QED
        BY <1>1, <1>2, <1>6, <1>7, <1>8, <3>1, <4>1, <4>2 DEF b, JobsOf
    <3>2. CASE v \in BusyCrew(b)
      BY <1>2, <1>4, <1>5, <1>6, <1>7, <2>1, <3>2 DEF WithWorkers, JobsOf
    <3> QED
      BY <1>3, <3>1, <3>2
  <2>3. ASSUME NEW u \in BusyCrew(b)', NEW v \in BusyCrew(b)', worker'[u].job = worker'[v].job
        PROVE  u = v
    <3>1. \A x \in BusyCrew(b) : worker'[x].job # call[b].next
      BY <1>4, <1>5, <1>7, <2>1 DEF WithWorkers, JobsOf
    <3> QED
      BY <1>1, <1>3, <1>4, <2>1, <2>3, <3>1 DEF WithWorkers, b
  <2> QED
    BY <2>2, <2>3 DEF WithWorkers
<1>10. InChannel(b)'
  <2>1. \A k \in Sent(b) : call[b].results[k].index < call'[b].next
    BY <1>2, <1>7 DEF Once, InChannel, JobsOf, b
  <2> QED
    BY <1>2, <1>6, <2>1 DEF Once, InChannel, b
<1>11. Collected(b)'
  BY <1>2, <1>7 DEF Once, Collected, JobsOf, b
<1> QED
  BY <1>2, <1>9, <1>10, <1>11 DEF Once, NotStarted, b

(* The worker's job moves to the end of the results channel.                *)
LEMMA OnceSend ==
    ASSUME TypeOK, NEW w \in Workers, Once(BatchOf[w]), SendResult(w)
    PROVE  Once(BatchOf[w])'
<1> DEFINE b == BatchOf[w]
           n == Len(call[b].results)
<1>0. b \in Batches /\ w \in Crew(b)
  BY SomeWorkerSomeBatch DEF Crew
<1>1. /\ worker[w].at = "send"
      /\ worker'[w].at = "idle"
      /\ \A v \in Workers \ {w} : worker'[v] = worker[v]
  BY DEF SendResult, TypeOK, FreshWorker
<1>2. /\ call'[b].next = call[b].next
      /\ call'[b].results = Append(call[b].results, Outcome(w))
      /\ call'[b].artifacts = call[b].artifacts
      /\ call'[b].firstErr = call[b].firstErr
      /\ call'[b].phase = call[b].phase
  <2>1. DOMAIN call = Batches
    BY DEF TypeOK
  <2> QED
    BY <1>0, <2>1, CallRecord DEF SendResult
<1>3. BusyCrew(b)' = BusyCrew(b) \ {w} /\ w \in BusyCrew(b)
  BY <1>0, <1>1 DEF BusyCrew, Crew, AtWork, Steps
<1>4. \A v \in BusyCrew(b) \ {w} : worker'[v].job = worker[v].job
  BY <1>1 DEF BusyCrew, Crew
<1>5. Outcome(w).index = worker[w].job
  BY DEF Outcome
<1> HIDE DEF b
<1>6. n \in Nat /\ call[b].results \in Seq(Results(b))
  BY <1>0, CallRange
<1>7. /\ Sent(b) = 1 .. n /\ Sent(b)' = 1 .. n + 1
      /\ \A k \in 1 .. n : call'[b].results[k] = call[b].results[k]
      /\ call'[b].results[n + 1] = Outcome(w)
  <2> DEFINE result == Outcome(w)
             sent == call[b].results
  <2> HIDE DEF result
  <2>1. /\ DOMAIN Append(sent, result) = 1 .. n + 1 /\ DOMAIN sent = 1 .. n
        /\ \A k \in 1 .. n : Append(sent, result)[k] = sent[k]
        /\ Append(sent, result)[n + 1] = result
    BY <1>6
  <2> QED
    BY <1>2, <2>1 DEF result, Sent
<1>8. WithWorkers(b) /\ InChannel(b) /\ Collected(b) /\ NotStarted(b)
  BY DEF Once, b
<1> HIDE DEF n
<1>9. ASSUME NEW k \in Sent(b)'
      PROVE  \/ k \in Sent(b) /\ call'[b].results[k] = call[b].results[k]
             \/ k = n + 1 /\ call'[b].results[k].index = worker[w].job
  <2>1. CASE k \in 1 .. n
    BY <1>7, <2>1
  <2>2. CASE k = n + 1
    BY <1>5, <1>7, <2>2
  <2> QED
    BY <1>6, <1>7, <2>1, <2>2
<1>10. WithWorkers(b)'
  <2>1. ASSUME NEW v \in BusyCrew(b)', NEW k \in Sent(b)'
        PROVE  call'[b].results[k].index # worker'[v].job
    BY <1>3, <1>4, <1>8, <1>9 DEF WithWorkers
  <2> QED
    BY <1>2, <1>3, <1>4, <1>8, <2>1 DEF WithWorkers
<1>11. InChannel(b)'
  <2>1. ASSUME NEW k \in Sent(b)'
        PROVE  /\ call'[b].results[k].index < call'[b].next
               /\ call'[b].artifacts[call'[b].results[k].index] = 0
               /\ call'[b].firstErr # call'[b].results[k].index
    BY <1>2, <1>3, <1>8, <1>9 DEF WithWorkers, InChannel
  <2>2. ASSUME NEW k \in Sent(b)', NEW l \in Sent(b)',
               call'[b].results[k].index = call'[b].results[l].index
        PROVE  k = l
    BY <1>3, <1>8, <1>9, <2>2 DEF WithWorkers, InChannel
  <2> QED
    BY <2>1, <2>2 DEF InChannel
<1> QED
  BY <1>2, <1>8, <1>10, <1>11 DEF Once, Collected, NotStarted, b

(* The first job of the results channel becomes an artifact or the error.   *)
LEMMA OnceCollect ==
    ASSUME TypeOK, NEW b \in Batches, Once(b), Collect(b)
    PROVE  Once(b)'
<1> DEFINE first == call[b].results[1].index
           n == Len(call[b].results)
<1>0. worker' = worker /\ DOMAIN call = Batches /\ call[b].phase = "run"
  BY DEF Collect, TypeOK
<1>1. call[b].results \in Seq(Results(b)) /\ call[b].results # <<>>
  BY CallRange DEF Collect
<1>2. Head(call[b].results) = call[b].results[1] /\ first \in JobsOf(b) /\ first # 0
  <2>1. Head(call[b].results) \in Results(b) /\ Head(call[b].results) = call[b].results[1]
    BY <1>1
  <2> QED
    BY <2>1, BatchAssumption DEF Results, JobsOf
<1>3. /\ call'[b].results = Tail(call[b].results)
      /\ call'[b].next = call[b].next
      /\ call'[b].phase = "run"
      /\ \/ /\ call'[b].artifacts = [call[b].artifacts EXCEPT ![first] = first]
            /\ call'[b].firstErr = call[b].firstErr
         \/ /\ call'[b].artifacts = call[b].artifacts
            /\ call'[b].firstErr \in {call[b].firstErr, first}
  BY <1>0, <1>2, CallRecord DEF Collect
<1>4. /\ n \in Nat \ {0} /\ Sent(b) = 1 .. n /\ Sent(b)' = 1 .. n - 1
      /\ \A k \in 1 .. n - 1 : call'[b].results[k] = call[b].results[k + 1]
  BY <1>1, <1>3 DEF Sent
<1>5. BusyCrew(b)' = BusyCrew(b)
  BY <1>0 DEF BusyCrew
<1> HIDE DEF first
<1>6. WithWorkers(b) /\ InChannel(b) /\ Collected(b)
  BY DEF Once
<1>7. /\ first < call[b].next /\ call[b].artifacts[first] = 0 /\ call[b].firstErr # first
      /\ \A w \in BusyCrew(b) : worker[w].job # first
  BY <1>4, <1>6 DEF WithWorkers, InChannel, first
<1>8. \A k \in Sent(b)' :
         k + 1 \in Sent(b) /\ call'[b].results[k] = call[b].results[k + 1]
         /\ call[b].results[k + 1].index # first
  <2> SUFFICES ASSUME NEW k \in Sent(b)'
               PROVE  k + 1 \in Sent(b) /\ call'[b].results[k] = call[b].results[k + 1]
                      /\ call[b].results[k + 1].index # first
    OBVIOUS
  <2>1. k \in 1 .. n - 1 /\ k + 1 \in Sent(b) /\ 1 \in Sent(b) /\ k + 1 # 1
    BY <1>4
  <2> QED
    BY <1>4, <1>6, <2>1 DEF InChannel, first
<1>9. DOMAIN call[b].artifacts = JobsOf(b)
  BY CallRange
<1>10. /\ call'[b].next = call[b].next
       /\ call'[b].firstErr = call[b].firstErr \/ call'[b].firstErr = first
       /\ \A i \in JobsOf(b) : i # first => call'[b].artifacts[i] = call[b].artifacts[i]
  BY <1>3, <1>9
<1>11. /\ \A w \in BusyCrew(b) : worker[w].job \in JobsOf(b)
       /\ \A k \in Sent(b) : call[b].results[k].index \in JobsOf(b)
  BY JobRange
<1>12. WithWorkers(b)'
  BY <1>0, <1>5, <1>6, <1>7, <1>8, <1>10, <1>11 DEF WithWorkers
<1>13. InChannel(b)'
  <2>1. ASSUME NEW k \in Sent(b)'
        PROVE  /\ call'[b].results[k].index < call'[b].next
               /\ call'[b].artifacts[call'[b].results[k].index] = 0
               /\ call'[b].firstErr # call'[b].results[k].index
    BY <1>6, <1>8, <1>10, <1>11 DEF InChannel
  <2>2. ASSUME NEW k \in Sent(b)', NEW l \in Sent(b)',
               call'[b].results[k].index = call'[b].results[l].index
        PROVE  k = l
    <3>1. k + 1 = l + 1
      BY <1>6, <1>8, <2>2 DEF InChannel
    <3>2. k \in Nat /\ l \in Nat
      BY <1>4
    <3> QED
      BY <3>1, <3>2
  <2> QED
    BY <2>1, <2>2 DEF InChannel
<1>14. Collected(b)'
  <2>1. call[b].firstErr # 0 => call[b].firstErr # first
    BY <1>7
  <2>2. call[b].firstErr # 0 => call[b].firstErr \in JobsOf(b)
    <3>1. call[b].firstErr \in 0 .. Jobs[b] /\ Jobs[b] \in Nat
      BY BatchAssumption DEF TypeOK, CallState
    <3> QED
      BY <3>1 DEF JobsOf
  <2> QED
    BY <1>2, <1>3, <1>6, <1>7, <1>9, <1>10, <2>1, <2>2 DEF Collected
<1> QED
  BY <1>3, <1>12, <1>13, <1>14 DEF Once, NotStarted

LEMMA OnceStep ==
    TypeOK /\ (\A b \in Batches : Once(b)) /\ [Next]_vars => \A b \in Batches : Once(b)'
<1> SUFFICES ASSUME TypeOK, \A c \in Batches : Once(c), [Next]_vars, NEW b \in Batches
             PROVE  Once(b)'
  OBVIOUS
<1>1. ASSUME NEW w \in Workers, b = BatchOf[w], Hand(w) \/ SendResult(w) PROVE Once(b)'
  BY <1>1, OnceHand, OnceSend
<1> QED
  BY <1>1, BatchCases, OnceQuiet, OnceOfCall, OnceCollect, OnceCrash

(* The steps of a worker.                                                   *)
LEMMA UprightInit == Init => \A w \in Workers : Upright(w)
BY DEF Init, Upright, FreshWorker

LEMMA UprightStep ==
    TypeOK /\ (\A w \in Workers : Upright(w)) /\ [Next]_vars => \A w \in Workers : Upright(w)'
<1> SUFFICES ASSUME TypeOK, \A v \in Workers : Upright(v), [Next]_vars, NEW w \in Workers
             PROVE  Upright(w)'
  OBVIOUS
<1>0. worker'[w] = worker[w] => Upright(w)'
  BY DEF Upright
<1>1. CASE UNCHANGED vars
  BY <1>0, <1>1 DEF vars
<1>2. ASSUME NEW b \in Batches,
             InspectPath(b) \/ Load(b) \/ CloseResults(b) \/ Collect(b) \/ Return(b)
      PROVE  Upright(w)'
  BY <1>0, <1>2 DEF InspectPath, Load, CloseResults, Collect, Return
<1>3. ASSUME NEW v \in Workers,
             \/ Hand(v) \/ Exit(v) \/ PackJob(v) \/ CreateTemp(v) \/ WriteTemp(v)
             \/ SyncTemp(v) \/ StatOutput(v) \/ Rename(v) \/ Cleanup(v) \/ SendResult(v)
      PROVE  Upright(w)'
  <2>1. CASE v # w
    BY <1>0, <1>3, <2>1 DEF TypeOK, Hand, Exit, PackJob, CreateTemp, WriteTemp, SyncTemp,
                StatOutput, Rename, Cleanup, SendResult, Go, GoWithTemp, MayFail, Fail
  <2>2. CASE v = w
    <3>1. worker[w] \in WorkerState(w) /\ DOMAIN worker = Workers /\ Upright(w)
      BY DEF TypeOK
    <3> QED
      BY <1>3, <2>2, <3>1 DEF Upright, WorkerState, Hand, Exit, PackJob, CreateTemp, WriteTemp,
                SyncTemp, StatOutput, Rename, Cleanup, SendResult, Go, GoWithTemp, MayFail, Fail,
                AfterSync, FreshWorker
  <2> QED
    BY <2>1, <2>2
<1>4. ASSUME Crash PROVE Upright(w)'
  BY <1>4 DEF Crash, Upright, FreshWorker
<1> QED
  BY <1>1, <1>2, <1>3, <1>4, NextCases

-----------------------------------------------------------------------------
(* What a step does to the artifacts in place, the answers and the files.   *)

(* The three ways for an artifact to be in place.                           *)
Announced(b, i) == \E w \in Crew(b) : worker[w].at = "send" /\ ~worker[w].failed /\ worker[w].job = i
Reported(b, i)  == \E k \in Sent(b) : call[b].results[k].ok /\ call[b].results[k].index = i
Kept(b, i)      == i \in JobsOf(b) /\ call[b].artifacts[i] # 0

Placed(b, i) == Announced(b, i) \/ Reported(b, i) \/ Kept(b, i)

LEMMA InPlaceIs == \A b, i : i \in InPlace(b) <=> Placed(b, i)
BY DEF InPlace, Placed, Announced, Reported, Kept, Sent

Silent ==
    /\ UNCHANGED <<disk, stable, crashes>>
    /\ \A b \in Batches : InPlace(b)' = InPlace(b) /\ AnswerOf(b)' = AnswerOf(b)

Answers(b) ==
    /\ UNCHANGED <<disk, stable, crashes>>
    /\ \A c \in Batches : InPlace(c)' = InPlace(c)
    /\ \A c \in Batches \ {b} : AnswerOf(c)' = AnswerOf(c)
    /\ AnswerOf(b) = "pending"
    /\ AnswerOf(b)' = IF InPlace(b) = JobsOf(b) THEN "ok" ELSE "error"

Publishes(b, i) ==
    /\ UNCHANGED <<stable, crashes>>
    /\ disk' = [disk EXCEPT ![PathOf[b][i]] = ApkFile(b, i, TRUE)]
    /\ \A c \in Batches : AnswerOf(c)' = AnswerOf(c)
    /\ \A c \in Batches \ {b} : InPlace(c)' = InPlace(c)
    /\ AnswerOf(b) = "pending"
    /\ i \in JobsOf(b) \ InPlace(b)
    /\ InPlace(b)' = InPlace(b) \cup {i}

(* What the outcome of a call rests on.                                     *)
Sound ==
    /\ TypeOK /\ WholeFiles
    /\ \A b \in Batches : Book(b) /\ Once(b)
    /\ \A w \in Workers : Upright(w)

LEMMA SoundInit == Init => Sound
BY TypeInit, WholeInit, BookInit, OnceInit, UprightInit DEF Sound

LEMMA SoundStep == Sound /\ [Next]_vars => Sound'
BY TypeStep, WholeStep, BookStep, OnceStep, UprightStep DEF Sound

LEMMA InPlaceJobs == ASSUME TypeOK, NEW b \in Batches PROVE InPlace(b) \in SUBSET JobsOf(b)
<1>1. ASSUME NEW w \in Crew(b), worker[w].at = "send" PROVE worker[w].job \in JobsOf(b)
  <2>1. w \in BusyCrew(b)
    BY <1>1 DEF BusyCrew, AtWork, Steps
  <2> QED
    BY <2>1, JobRange
<1> QED
  BY <1>1, JobRange DEF InPlace, Sent, Crew

(* A batch some of whose workers is busy is running.                        *)
LEMMA BusyIsPending ==
    ASSUME Sound, NEW b \in Batches, NEW w \in BusyCrew(b)
    PROVE  call[b].phase = "run" /\ AnswerOf(b) = "pending"
<1>1. worker[w].job \in JobsOf(b) /\ worker[w].job < call[b].next
  BY JobRange DEF Sound, Once, WithWorkers
<1>2. call[b].phase \notin {"plan", "refused"}
  BY <1>1, BatchAssumption DEF Sound, Once, NotStarted, JobsOf
<1>3. call[b].phase # "done"
  BY DEF Sound, Book, Drained, BusyCrew, AtWork
<1>4. call[b].phase \in {"plan", "run", "refused", "done"}
  BY DEF Sound, TypeOK, CallState
<1> QED
  BY <1>2, <1>3, <1>4 DEF AnswerOf, Succeeded, Returned

(* The steps of a call.                                                     *)
LEMMA CallKinds ==
    ASSUME Sound, NEW b \in Batches,
           InspectPath(b) \/ Load(b) \/ CloseResults(b) \/ Collect(b) \/ Return(b)
    PROVE  Silent \/ Answers(b)
<1>0. /\ TypeOK /\ DOMAIN call = Batches
      /\ worker' = worker /\ UNCHANGED <<disk, stable, crashes>>
      /\ \A c \in Batches \ {b} : call'[c] = call[c]
  BY DEF Sound, TypeOK, InspectPath, Load, CloseResults, Collect, Return, Refuse, files
<1>1. \A c \in Batches \ {b} : InPlace(c)' = InPlace(c) /\ AnswerOf(c)' = AnswerOf(c)
  BY <1>0 DEF InPlace, AnswerOf, Succeeded, Returned
<1>2. CASE InspectPath(b) \/ Load(b) \/ CloseResults(b) \/ Return(b)
  <2>1. /\ call'[b].results = call[b].results
        /\ call'[b].artifacts = call[b].artifacts
        /\ call'[b].firstErr = call[b].firstErr
        /\ call[b].phase \in {"plan", "run"}
        /\ \/ call'[b].phase \in {"plan", "run"}
           \/ call[b].phase = "plan" /\ call'[b].phase = "refused"
           \/ Return(b) /\ call'[b].phase = "done"
    BY <1>0, <1>2, CallRecord DEF InspectPath, Load, CloseResults, Return, Refuse
  <2>2. InPlace(b)' = InPlace(b)
    BY <1>0, <2>1 DEF InPlace
  <2>3. AnswerOf(b) = "pending"
    BY <2>1 DEF AnswerOf, Succeeded, Returned
  <2>4. CASE call'[b].phase \in {"plan", "run"}
    BY <1>0, <1>1, <2>2, <2>3, <2>4 DEF Silent, AnswerOf, Succeeded, Returned
  <2>5. CASE call[b].phase = "plan" /\ call'[b].phase = "refused"
    <3>1. AnswerOf(b)' = "error"
      BY <2>5 DEF AnswerOf, Succeeded, Returned
    <3>2. InPlace(b) # JobsOf(b)
      <4>1. call[b].next = 1 /\ 1 \in JobsOf(b)
        BY <2>5, BatchAssumption DEF Sound, Once, NotStarted, JobsOf
      <4>2. ~Placed(b, 1)
        <5>1. ~Announced(b, 1)
          BY <1>0, <2>5, BusyIsPending DEF Announced, BusyCrew, AtWork, Steps
        <5>2. ~Reported(b, 1) /\ ~Kept(b, 1)
          BY <4>1 DEF Reported, Kept, Sound, Once, InChannel, Collected
        <5> QED
          BY <5>1, <5>2 DEF Placed
      <4> QED
        BY <4>1, <4>2, InPlaceIs
    <3> QED
      BY <1>0, <1>1, <2>2, <2>3, <3>1, <3>2 DEF Answers
  <2>6. CASE Return(b) /\ call'[b].phase = "done"
    <3>1. call[b].closed /\ call[b].results = <<>>
      BY <2>6, Zenon DEF Return
    <3>2. call[b].next = Jobs[b] + 1 /\ \A w \in Crew(b) : worker[w].at = "exited"
      BY <3>1 DEF Sound, Book, Drained
    <3>3. BusyCrew(b) = {} /\ Sent(b) = {}
      BY <3>1, <3>2 DEF BusyCrew, AtWork, Sent
    <3>4. CASE call[b].firstErr = 0
      <4>1. \A i \in JobsOf(b) : call[b].artifacts[i] # 0
        <5> SUFFICES ASSUME NEW i \in JobsOf(b) PROVE call[b].artifacts[i] # 0
          OBVIOUS
        <5>1. i \in 1 .. call[b].next - 1 /\ i # 0
          BY <3>2, BatchAssumption DEF JobsOf
        <5>2. ~ \E k \in 1 .. Len(call[b].results) : call[b].results[k].index = i
          BY <3>1
        <5> QED
          BY <3>3, <3>4, <5>1, <5>2 DEF Sound, Book, Accounted
      <4>2. InPlace(b) = JobsOf(b)
        BY <1>0, <4>1, InPlaceJobs DEF InPlace
      <4> QED
        BY <1>0, <1>1, <2>1, <2>2, <2>3, <2>6, <3>4, <4>2 DEF Answers, AnswerOf, Succeeded
    <3>5. CASE call[b].firstErr # 0
      <4> DEFINE i == call[b].firstErr
      <4>1. i \in JobsOf(b) /\ call[b].artifacts[i] = 0
        BY <1>0, <3>5, BatchAssumption DEF Sound, Once, Collected, TypeOK, CallState, JobsOf
      <4>2. ~Placed(b, i)
        BY <3>2, <3>3, <4>1 DEF Placed, Announced, Reported, Kept
      <4> HIDE DEF i
      <4>3. InPlace(b) # JobsOf(b)
        BY <4>1, <4>2, InPlaceIs
      <4> QED
        BY <1>0, <1>1, <2>1, <2>2, <2>3, <2>6, <3>5, <4>3 DEF Answers, AnswerOf, Succeeded, Returned
    <3> QED
      BY <3>4, <3>5
  <2> QED
    BY <2>1, <2>4, <2>5, <2>6
<1>3. CASE Collect(b)
  <2> DEFINE first == call[b].results[1]
             n == Len(call[b].results)
  <2>1. call[b].results \in Seq(Results(b)) /\ call[b].results # <<>>
    BY <1>0, <1>3, CallRange DEF Collect
  <2>2. Head(call[b].results) = first /\ first \in Results(b)
    BY <2>1
  <2>3. /\ call'[b].results = Tail(call[b].results)
        /\ call[b].phase = "run" /\ call'[b].phase = "run"
        /\ call'[b].artifacts = IF first.ok THEN [call[b].artifacts EXCEPT ![first.index] = first.index]
                                 ELSE call[b].artifacts
    BY <1>0, <1>3, <2>2, CallRecord DEF Collect
  <2>4. /\ n \in Nat \ {0} /\ Sent(b) = 1 .. n /\ Sent(b)' = 1 .. n - 1
        /\ \A k \in 1 .. n - 1 : call'[b].results[k] = call[b].results[k + 1]
    BY <2>1, <2>3 DEF Sent
  <2>5. first.index \in JobsOf(b) /\ first.index # 0 /\ first.ok \in BOOLEAN
    BY <2>2, BatchAssumption DEF Results, JobsOf
  <2> HIDE DEF first
  <2>6. \A i : Announced(b, i)' <=> Announced(b, i)
    BY <1>0 DEF Announced
  <2>7. \A i : Reported(b, i) <=> Reported(b, i)' \/ (first.ok /\ i = first.index)
    <3> TAKE i
    <3>1. ASSUME Reported(b, i) PROVE Reported(b, i)' \/ (first.ok /\ i = first.index)
      <4>1. PICK k \in Sent(b) : call[b].results[k].ok /\ call[b].results[k].index = i
        BY <3>1 DEF Reported
      <4>2. CASE k # 1
        <5>1. k - 1 \in Sent(b)' /\ call'[b].results[k - 1] = call[b].results[(k - 1) + 1] /\ (k - 1) + 1 = k
          BY <2>4, <4>2
        <5> QED
          BY <4>1, <5>1 DEF Reported
      <4> QED
        BY <4>1, <4>2 DEF first
    <3>2. ASSUME Reported(b, i)' PROVE Reported(b, i)
      <4>1. PICK k \in Sent(b)' : call'[b].results[k].ok /\ call'[b].results[k].index = i
        BY <3>2 DEF Reported
      <4>2. k + 1 \in Sent(b) /\ call'[b].results[k] = call[b].results[k + 1]
        BY <2>4
      <4> QED
        BY <4>1, <4>2 DEF Reported
    <3>3. first.ok => Reported(b, first.index)
      BY <2>4 DEF Reported, first
    <3> QED
      BY <3>1, <3>2, <3>3
  <2>8. \A i : Kept(b, i)' <=> Kept(b, i) \/ (first.ok /\ i = first.index)
    <3>1. call[b].artifacts \in [JobsOf(b) -> 0 .. Jobs[b]]
      BY <1>0, CallRange
    <3> QED
      BY <2>3, <2>5, <3>1 DEF Kept
  <2>9. \A i : Placed(b, i)' <=> Placed(b, i)
    BY <2>6, <2>7, <2>8 DEF Placed
  <2>10. \A i : i \in InPlace(b)' <=> Placed(b, i)'
    BY DEF InPlace, Placed, Announced, Reported, Kept, Sent
  <2>11. InPlace(b)' = InPlace(b)
    BY <2>9, <2>10, InPlaceIs
  <2> QED
    BY <1>0, <1>1, <2>3, <2>11 DEF Silent, AnswerOf, Succeeded, Returned
<1> QED
  BY <1>2, <1>3

(* The steps of a worker.                                                   *)
LEMMA WorkerKinds ==
    ASSUME Sound, NEW w \in Workers,
           \/ Hand(w) \/ Exit(w) \/ PackJob(w) \/ CreateTemp(w) \/ WriteTemp(w)
           \/ SyncTemp(w) \/ StatOutput(w) \/ Rename(w) \/ Cleanup(w) \/ SendResult(w)
    PROVE  Silent \/ Publishes(BatchOf[w], worker[w].job)
<1> DEFINE b == BatchOf[w]
<1>0. /\ TypeOK /\ b \in Batches /\ w \in Crew(b)
      /\ DOMAIN call = Batches /\ DOMAIN worker = Workers /\ worker[w] \in WorkerState(w)
      /\ Upright(w)
  BY SomeWorkerSomeBatch DEF Sound, TypeOK, Crew
<1>1. \A v \in Workers \ {w} : worker'[v] = worker[v]
  BY <1>0 DEF Hand, Exit, PackJob, CreateTemp, WriteTemp, SyncTemp, StatOutput, Rename,
              Cleanup, SendResult, Go, GoWithTemp, MayFail, Fail
<1>2. UNCHANGED <<stable, crashes>> /\ \A c \in Batches \ {b} : call'[c] = call[c]
  BY <1>0 DEF Hand, Exit, PackJob, CreateTemp, WriteTemp, SyncTemp, StatOutput, Rename,
              Cleanup, SendResult, files
<1>3. \A c \in Batches \ {b} : InPlace(c)' = InPlace(c)
  <2> TAKE c \in Batches \ {b}
  <2>1. \A v \in Crew(c) : worker'[v] = worker[v]
    BY <1>1 DEF Crew
  <2> HIDE DEF b
  <2>2. \A i : Placed(c, i)' <=> Placed(c, i)
    BY <1>2, <2>1 DEF Placed, Announced, Reported, Kept, Sent
  <2>3. \A i : i \in InPlace(c)' <=> Placed(c, i)'
    BY DEF InPlace, Placed, Announced, Reported, Kept, Sent
  <2> QED
    BY <2>2, <2>3, InPlaceIs
<1>4. /\ call'[b].phase = call[b].phase
      /\ call'[b].firstErr = call[b].firstErr
      /\ call'[b].artifacts = call[b].artifacts
      /\ ~SendResult(w) => call'[b].results = call[b].results
  BY <1>0, CallRecord DEF Hand, Exit, PackJob, CreateTemp, WriteTemp, SyncTemp, StatOutput, Rename,
              Cleanup, SendResult
<1>5. \A c \in Batches : AnswerOf(c)' = AnswerOf(c)
  BY <1>2, <1>4 DEF AnswerOf, Succeeded, Returned
<1>6. /\ \A i : i \in InPlace(b)' <=> Placed(b, i)'
      /\ \A i : Kept(b, i)' <=> Kept(b, i)
      /\ \A i : Announced(b, i)' <=>
            \/ \E v \in Crew(b) \ {w} : worker[v].at = "send" /\ ~worker[v].failed /\ worker[v].job = i
            \/ worker'[w].at = "send" /\ ~worker'[w].failed /\ worker'[w].job = i
      /\ \A i : Announced(b, i) <=>
            \/ \E v \in Crew(b) \ {w} : worker[v].at = "send" /\ ~worker[v].failed /\ worker[v].job = i
            \/ worker[w].at = "send" /\ ~worker[w].failed /\ worker[w].job = i
  <2>1. \A i : i \in InPlace(b)' <=> Placed(b, i)'
    BY DEF InPlace, Placed, Announced, Reported, Kept, Sent
  <2>2. \A i : Kept(b, i)' <=> Kept(b, i)
    BY <1>4 DEF Kept
  <2>3. \A v \in Crew(b) \ {w} : worker'[v] = worker[v]
    BY <1>1 DEF Crew
  <2> QED
    BY <1>0, <2>1, <2>2, <2>3 DEF Announced
<1>7. CASE SendResult(w)
  <2> DEFINE n == Len(call[b].results)
  <2>1. /\ worker[w].at = "send" /\ worker'[w].at = "idle" /\ UNCHANGED disk
        /\ call'[b].results = Append(call[b].results, Outcome(w))
    BY <1>0, <1>7, CallRecord DEF SendResult, FreshWorker
  <2>2. call[b].results \in Seq(Results(b)) /\ n \in Nat
    BY <1>0, CallRange
  <2>3. Outcome(w).index = worker[w].job /\ Outcome(w).ok = ~worker[w].failed
    BY DEF Outcome
  <2>4. /\ Sent(b) = 1 .. n /\ Sent(b)' = Sent(b) \cup {n + 1}
        /\ \A k \in 1 .. n : call'[b].results[k] = call[b].results[k]
        /\ call'[b].results[n + 1] = Outcome(w)
    <3> DEFINE result == Outcome(w)
               sent == call[b].results
    <3> HIDE DEF result
    <3>1. /\ DOMAIN Append(sent, result) = 1 .. n + 1 /\ DOMAIN sent = 1 .. n
          /\ \A k \in 1 .. n : Append(sent, result)[k] = sent[k]
          /\ Append(sent, result)[n + 1] = result
      BY <2>2
    <3>2. 1 .. n + 1 = (1 .. n) \cup {n + 1}
      BY <2>2
    <3> QED
      BY <2>1, <3>1, <3>2 DEF result, Sent
  <2>5. \A i : Reported(b, i)' <=> Reported(b, i) \/ (~worker[w].failed /\ worker[w].job = i)
    BY <2>3, <2>4 DEF Reported
  <2>6. \A i : Placed(b, i)' <=> Placed(b, i)
    BY <1>6, <2>1, <2>5 DEF Placed
  <2>7. InPlace(b)' = InPlace(b)
    BY <1>6, <2>6, InPlaceIs
  <2> QED
    BY <1>2, <1>3, <1>5, <2>1, <2>7 DEF Silent
<1>8. CASE ~SendResult(w)
  <2>1. \A i : Reported(b, i)' <=> Reported(b, i)
    BY <1>4, <1>8 DEF Reported, Sent
  <2>2. CASE Rename(w) /\ worker'[w].at = "send"
    <3>1. /\ worker[w].at = "rename" /\ ~worker[w].failed /\ worker[w].temp = "synced"
          /\ ~worker'[w].failed /\ worker'[w].job = worker[w].job
      BY <1>0, <2>2 DEF Rename, GoWithTemp, MayFail, Fail, Upright, WorkerState, Sound, WholeFiles
    <3>2. disk' = [disk EXCEPT ![PathOf[b][worker[w].job]] = ApkFile(b, worker[w].job, TRUE)]
      <4>1. ~Fail(w, "cleanup")
        BY <1>0, <2>2 DEF Fail, WorkerState
      <4>2. disk' = [disk EXCEPT ![PathFor(w)] = ApkFile(BatchOf[w], worker[w].job, worker[w].temp = "synced")]
        BY <2>2, <4>1 DEF Rename, MayFail
      <4>3. (worker[w].temp = "synced") = TRUE
        BY <3>1
      <4> QED
        BY <4>2, <4>3 DEF PathFor
    <3>3. w \in BusyCrew(b)
      BY <1>0, <3>1 DEF BusyCrew, AtWork, Steps
    <3>4. AnswerOf(b) = "pending" /\ worker[w].job \in JobsOf(b)
      BY <1>0, <3>3, BusyIsPending, JobRange
    <3>5. ~Placed(b, worker[w].job)
      <4>1. WithWorkers(b)
        BY <1>0 DEF Sound, Once
      <4>2. \A v \in Crew(b) : worker[v].at = "send" => v \in BusyCrew(b) /\ v # w
        BY <3>1 DEF BusyCrew, AtWork, Steps
      <4> QED
        BY <3>3, <4>1, <4>2 DEF Placed, Announced, Reported, Kept, WithWorkers
    <3>6. \A i : Placed(b, i)' <=> Placed(b, i) \/ i = worker[w].job
      BY <1>6, <2>1, <2>2, <3>1 DEF Placed
    <3>7. InPlace(b)' = InPlace(b) \cup {worker[w].job} /\ worker[w].job \notin InPlace(b)
      BY <1>6, <3>5, <3>6, InPlaceIs
    <3> QED
      BY <1>2, <1>3, <1>5, <3>2, <3>4, <3>7 DEF Publishes
  <2>3. CASE ~(Rename(w) /\ worker'[w].at = "send")
    <3>1. disk' = disk
      <4>1. CASE Rename(w)
        <5>1. ~GoWithTemp(w, "send", "none")
          BY <1>0, <2>3, <4>1 DEF GoWithTemp, WorkerState
        <5> QED
          BY <4>1, <5>1 DEF Rename
      <4>2. CASE ~Rename(w)
        BY <1>8, <4>2 DEF Hand, Exit, PackJob, CreateTemp, WriteTemp, SyncTemp, StatOutput, Cleanup, files
      <4> QED
        BY <4>1, <4>2
    <3>2. (worker[w].at = "send" => worker[w].failed) /\ (worker'[w].at = "send" => worker'[w].failed)
      BY <1>0, <1>8, <2>3 DEF Hand, Exit, PackJob, CreateTemp, WriteTemp, SyncTemp, StatOutput, Rename,
                  Cleanup, Go, GoWithTemp, MayFail, Fail, AfterSync, WorkerState, Upright
    <3>3. \A i : Placed(b, i)' <=> Placed(b, i)
      BY <1>6, <2>1, <3>2 DEF Placed
    <3>4. InPlace(b)' = InPlace(b)
      BY <1>6, <3>3, InPlaceIs
    <3> QED
      BY <1>2, <1>3, <1>5, <3>1, <3>4 DEF Silent
  <2> QED
    BY <2>2, <2>3
<1> QED
  BY <1>7, <1>8

(* Every step is of one of these kinds.                                     *)
LEMMA StepKinds ==
    ASSUME Sound, [Next]_vars
    PROVE  \/ Silent
           \/ \E b \in Batches : Answers(b)
           \/ \E b \in Batches : \E i \in JobsOf(b) : Publishes(b, i)
           \/ Crash
<1> DEFINE Goal == \/ Silent
                   \/ \E b \in Batches : Answers(b)
                   \/ \E b \in Batches : \E i \in JobsOf(b) : Publishes(b, i)
                   \/ Crash
<1> SUFFICES Goal
  OBVIOUS
<1>1. CASE UNCHANGED vars
  <2>1. call' = call /\ worker' = worker /\ UNCHANGED <<disk, stable, crashes>>
    BY <1>1 DEF vars, files
  <2>2. \A b \in Batches : InPlace(b)' = InPlace(b) /\ AnswerOf(b)' = AnswerOf(b)
    BY <2>1 DEF InPlace, AnswerOf, Succeeded, Returned
  <2>3. Silent
    BY <2>1, <2>2 DEF Silent
  <2> QED
    BY <2>3
<1>2. ASSUME NEW b \in Batches,
             InspectPath(b) \/ Load(b) \/ CloseResults(b) \/ Collect(b) \/ Return(b)
      PROVE  Goal
  BY <1>2, CallKinds
<1>3. ASSUME NEW w \in Workers,
             \/ Hand(w) \/ Exit(w) \/ PackJob(w) \/ CreateTemp(w) \/ WriteTemp(w)
             \/ SyncTemp(w) \/ StatOutput(w) \/ Rename(w) \/ Cleanup(w) \/ SendResult(w)
      PROVE  Goal
  <2>1. CASE Silent
    BY <2>1
  <2>2. CASE Publishes(BatchOf[w], worker[w].job)
    <3>1. BatchOf[w] \in Batches /\ worker[w].job \in JobsOf(BatchOf[w])
      BY <2>2, SomeWorkerSomeBatch DEF Publishes
    <3> QED
      BY <2>2, <3>1
  <2> QED
    BY <1>3, <2>1, <2>2, WorkerKinds
<1> HIDE DEF Goal
<1>4. Crash => Goal
  BY DEF Goal
<1> QED
  BY <1>1, <1>2, <1>3, <1>4, NextCases

LEMMA SoundAlways == Spec => []Sound
BY SoundInit, SoundStep, PTL DEF Spec

(* A call that runs when the machine crashes is made again from nothing.    *)
LEMMA AfterTheCrash ==
    ASSUME Sound, Crash
    PROVE  /\ \A b \in Batches :
                /\ AnswerOf(b)' = AnswerOf(b)
                /\ InPlace(b)' = IF AnswerOf(b) = "pending" THEN {} ELSE InPlace(b)
           /\ stable' = disk' /\ DOMAIN disk' = DOMAIN disk
           /\ \A p \in DOMAIN disk : disk'[p] \in {disk[p], stable[p]}
           /\ crashes' # 0
<1>1. ASSUME NEW b \in Batches
      PROVE  /\ AnswerOf(b)' = AnswerOf(b)
             /\ InPlace(b)' = IF AnswerOf(b) = "pending" THEN {} ELSE InPlace(b)
  <2>1. CASE b \in Running
    <3>1. call'[b] = FreshCall(b) /\ \A w \in Crew(b) : worker'[w] = FreshWorker
      BY <2>1 DEF Crash, Crew
    <3>2. AnswerOf(b) = "pending" /\ AnswerOf(b)' = "pending"
      BY <2>1, <3>1 DEF Running, FreshCall, AnswerOf, Succeeded, Returned
    <3>3. InPlace(b)' = {}
      BY <3>1 DEF InPlace, FreshCall, FreshWorker
    <3> QED
      BY <3>2, <3>3
  <2>2. CASE b \notin Running
    <3>1. call'[b] = call[b] /\ \A w \in Crew(b) : worker'[w] = worker[w]
      BY <2>2 DEF Crash, Crew
    <3>2. AnswerOf(b) # "pending"
      <4>1. call[b].phase \in {"plan", "run", "refused", "done"}
        BY DEF Sound, TypeOK, CallState
      <4> QED
        BY <2>2, <4>1 DEF Running, AnswerOf, Succeeded, Returned
    <3>3. InPlace(b)' = InPlace(b)
      BY <3>1 DEF InPlace
    <3>4. AnswerOf(b)' = AnswerOf(b)
      BY <3>1 DEF AnswerOf, Succeeded, Returned
    <3> QED
      BY <3>2, <3>3, <3>4
  <2> QED
    BY <2>1, <2>2
<1>2. /\ stable' = disk' /\ DOMAIN disk' = DOMAIN disk
      /\ \A p \in DOMAIN disk : disk'[p] \in {disk[p], stable[p]}
  <2>1. \A p \in Paths : Settled(disk[p]) = disk[p]
    BY DEF Sound, WholeFiles, Settled
  <2>2. PICK f \in AfterCrash : disk' = f /\ stable' = f
    BY DEF Crash
  <2>3. DOMAIN f = Paths /\ \A p \in Paths : f[p] \in {stable[p], disk[p]}
    BY <2>1 DEF AfterCrash
  <2>4. DOMAIN disk = Paths
    BY DEF Sound, TypeOK
  <2> QED
    BY <2>2, <2>3, <2>4
<1>3. crashes' # 0
  <2>1. crashes \in Nat /\ crashes' = crashes + 1
    BY BatchAssumption DEF Sound, TypeOK, Crash
  <2> QED
    BY <2>1
<1> QED
  BY <1>1, <1>2, <1>3

-----------------------------------------------------------------------------
(* The promise.                                                             *)

(* Any number of concurrent calls of PackFiles, with failing operations and *)
(* crashes, does what Batch says: an artifact appears at its path in one    *)
(* step and once, a call succeeds exactly if all of its artifacts were put  *)
(* in place, and what a crash undoes is what it may.                        *)
THEOREM KeepsBatchPromise == Spec => KeepsPromise
<1>1. Init => Promise!BatchInit
  <2> SUFFICES ASSUME Init PROVE Promise!BatchInit
    OBVIOUS
  <2>1. ASSUME NEW b \in Batches PROVE AnswerOf(b) = "pending" /\ InPlace(b) = {}
    <3>1. call[b] = FreshCall(b) /\ \A w \in Crew(b) : worker[w] = FreshWorker
      BY DEF Init, Crew
    <3> QED
      BY <3>1 DEF InPlace, FreshCall, FreshWorker, AnswerOf, Succeeded, Returned
  <2> QED
    BY <2>1 DEF Init, Promise!BatchInit
<1>2. Sound /\ [Next]_vars => [Promise!BatchNext]_(Promise!batchVars)
  <2> SUFFICES ASSUME Sound, [Next]_vars PROVE [Promise!BatchNext]_(Promise!batchVars)
    OBVIOUS
  <2>1. CASE Silent
    BY <2>1 DEF Silent, Promise!batchVars
  <2>2. ASSUME NEW b \in Batches, Answers(b) PROVE Promise!BatchNext
    <3>1. Promise!Answer(b)
      BY <2>2 DEF Answers, Promise!Answer
    <3> QED
      BY <3>1 DEF Promise!BatchNext
  <2>3. ASSUME NEW b \in Batches, NEW i \in JobsOf(b), Publishes(b, i) PROVE Promise!BatchNext
    <3>1. Promise!Publish(b)
      BY <2>3 DEF Publishes, Promise!Publish
    <3> QED
      BY <3>1 DEF Promise!BatchNext
  <2>4. CASE Crash
    <3>1. Promise!Recover
      BY <2>4, AfterTheCrash DEF Promise!Recover
    <3> QED
      BY <3>1 DEF Promise!BatchNext
  <2> QED
    BY <2>1, <2>2, <2>3, <2>4, StepKinds
<1> QED
  BY <1>1, <1>2, SoundAlways, PTL DEF Spec, KeepsPromise, Promise!BatchSafety

-----------------------------------------------------------------------------
(* Answers and files.                                                       *)

(* As long as the machine is up, a file that a job of a batch wrote belongs *)
(* to an artifact in place, and the path of an artifact in place holds what *)
(* some job wrote there.                                                    *)
Written ==
    crashes = 0 => \A b \in Batches : \A i \in JobsOf(b) :
        /\ disk[PathOf[b][i]] = ApkFile(b, i, TRUE) => i \in InPlace(b)
        /\ i \in InPlace(b) =>
              \E c \in Batches : \E j \in JobsOf(c) :
                 PathOf[c][j] = PathOf[b][i] /\ disk[PathOf[b][i]] = ApkFile(c, j, TRUE)

LEMMA WrittenInit == Init => Written
<1> SUFFICES ASSUME Init, NEW b \in Batches, NEW i \in JobsOf(b)
             PROVE  disk[PathOf[b][i]] # ApkFile(b, i, TRUE) /\ i \notin InPlace(b)
  BY DEF Written
<1>1. PathOf[b][i] \in Paths
  BY BatchAssumption
<1>2. disk[PathOf[b][i]].kind # "apk"
  BY <1>1 DEF Init, NotOurs
<1>3. call[b] = FreshCall(b) /\ \A w \in Crew(b) : worker[w] = FreshWorker
  BY DEF Init, Crew
<1>4. InPlace(b) = {}
  BY <1>3 DEF InPlace, FreshCall, FreshWorker
<1> QED
  BY <1>2, <1>4 DEF ApkFile

LEMMA WrittenStep == Sound /\ Written /\ [Next]_vars => Written'
<1> SUFFICES ASSUME Sound, Written, [Next]_vars PROVE Written'
  OBVIOUS
<1>1. CASE Silent
  BY <1>1 DEF Silent, Written
<1>2. ASSUME NEW b \in Batches, Answers(b) PROVE Written'
  <2>1. UNCHANGED <<disk, crashes>> /\ \A c \in Batches : InPlace(c)' = InPlace(c)
    BY <1>2 DEF Answers
  <2> QED
    BY <2>1 DEF Written
<1>3. ASSUME NEW b \in Batches, NEW i \in JobsOf(b), Publishes(b, i) PROVE Written'
  <2> DEFINE q == PathOf[b][i]
             file == ApkFile(b, i, TRUE)
  <2>1. q \in Paths /\ DOMAIN disk = Paths /\ \A c \in Batches : \A j \in JobsOf(c) : PathOf[c][j] \in Paths
    BY BatchAssumption DEF Sound, TypeOK
  <2>2. /\ disk' = [disk EXCEPT ![q] = file] /\ crashes' = crashes
        /\ \A c \in Batches \ {b} : InPlace(c)' = InPlace(c)
        /\ InPlace(b)' = InPlace(b) \cup {i}
    BY <1>3 DEF Publishes
  <2> HIDE DEF q, file
  <2>3. /\ disk'[q] = file
        /\ \A c \in Batches : \A j \in JobsOf(c) : PathOf[c][j] # q => disk'[PathOf[c][j]] = disk[PathOf[c][j]]
    BY <2>1, <2>2
  <2> SUFFICES ASSUME crashes' = 0, NEW c \in Batches, NEW j \in JobsOf(c)
               PROVE  /\ disk'[PathOf[c][j]] = ApkFile(c, j, TRUE) => j \in InPlace(c)'
                      /\ j \in InPlace(c)' =>
                           \E d \in Batches : \E k \in JobsOf(d) :
                             PathOf[d][k] = PathOf[c][j] /\ disk'[PathOf[c][j]] = ApkFile(d, k, TRUE)
    BY DEF Written
  <2>4. CASE PathOf[c][j] = q
    <3>1. disk'[PathOf[c][j]] = ApkFile(c, j, TRUE) => j \in InPlace(c)'
      <4>1. ApkFile(c, j, TRUE) = file => c = b /\ j = i
        BY DEF ApkFile, file
      <4> QED
        BY <2>2, <2>3, <2>4, <4>1
    <3>2. PathOf[b][i] = PathOf[c][j] /\ disk'[PathOf[c][j]] = ApkFile(b, i, TRUE)
      BY <2>3, <2>4 DEF q, file
    <3> QED
      BY <3>1, <3>2
  <2>5. CASE PathOf[c][j] # q
    <3>1. disk'[PathOf[c][j]] = disk[PathOf[c][j]]
      BY <2>3, <2>5
    <3>2. j \in InPlace(c)' <=> j \in InPlace(c)
      BY <2>2, <2>5 DEF q
    <3>3. /\ disk[PathOf[c][j]] = ApkFile(c, j, TRUE) => j \in InPlace(c)
          /\ j \in InPlace(c) =>
                \E d \in Batches : \E k \in JobsOf(d) :
                   PathOf[d][k] = PathOf[c][j] /\ disk[PathOf[c][j]] = ApkFile(d, k, TRUE)
      BY <2>2 DEF Written
    <3> QED
      BY <3>1, <3>2, <3>3
  <2> QED
    BY <2>4, <2>5
<1>4. ASSUME Crash PROVE Written'
  BY <1>4, AfterTheCrash DEF Written
<1> QED
  BY <1>1, <1>2, <1>3, <1>4, StepKinds

LEMMA WrittenAlways == Spec => [](Sound /\ Written)
BY SoundInit, SoundStep, WrittenInit, WrittenStep, PTL DEF Spec

(* A job whose error a call of PackFiles returns did not put its file in    *)
(* place: no step after the rename can fail, and no job is both failed and  *)
(* written.                                                                 *)
THEOREM FailuresWriteNothing == Spec => []FailedJobWroteNothing
<1>1. ASSUME Sound, Written PROVE FailedJobWroteNothing
  <2> SUFFICES ASSUME NEW b \in Batches, call[b].firstErr > 0, crashes = 0
               PROVE  disk[PathOf[b][call[b].firstErr]] # ApkFile(b, call[b].firstErr, TRUE)
    BY DEF FailedJobWroteNothing
  <2> DEFINE i == call[b].firstErr
  <2>1. i # 0 /\ i \in JobsOf(b) /\ call[b].artifacts[i] = 0
    <3>1. i \in 0 .. Jobs[b] /\ Jobs[b] \in Nat
      BY <1>1, BatchAssumption DEF Sound, TypeOK, CallState
    <3>2. i \in JobsOf(b) /\ i # 0
      BY <3>1 DEF JobsOf
    <3> QED
      BY <1>1, <3>2 DEF Sound, Once, Collected
  <2>2. ~Announced(b, i)
    <3>1. \A w \in Crew(b) : worker[w].at = "send" => w \in BusyCrew(b)
      BY DEF BusyCrew, AtWork, Steps
    <3> QED
      BY <1>1, <3>1 DEF Announced, Sound, Once, WithWorkers
  <2>3. ~Reported(b, i)
    BY <1>1 DEF Reported, Sound, Once, InChannel
  <2> HIDE DEF i
  <2>4. i \notin InPlace(b)
    BY <2>1, <2>2, <2>3, InPlaceIs DEF Placed, Kept
  <2> QED
    BY <1>1, <2>1, <2>4 DEF Written, i
<1> QED
  BY <1>1, WrittenAlways, PTL

(* A call of PackFiles that succeeds has written every artifact it returns, *)
(* whole and synced, whatever other batches do at the same paths.           *)
THEOREM SuccessIsOnDisk == Spec => []ArtifactsOnDisk
<1>1. ASSUME Sound, Written PROVE ArtifactsOnDisk
  <2> SUFFICES ASSUME NEW b \in Batches, Succeeded(b), crashes = 0, NEW i \in JobsOf(b)
               PROVE  \E c \in Batches : \E j \in JobsOf(c) :
                        PathOf[c][j] = PathOf[b][i] /\ disk[PathOf[b][i]] = ApkFile(c, j, TRUE)
    BY DEF ArtifactsOnDisk
  <2>1. call[b].phase = "done" /\ call[b].firstErr = 0
    BY DEF Succeeded
  <2>2. call[b].next = Jobs[b] + 1 /\ call[b].results = <<>>
        /\ \A w \in Crew(b) : worker[w].at = "exited"
    BY <1>1, <2>1 DEF Sound, Book, Drained
  <2>3. BusyCrew(b) = {}
    BY <2>2 DEF BusyCrew, AtWork
  <2>4. i \in 1 .. call[b].next - 1 /\ i # 0
    BY <2>2, BatchAssumption DEF JobsOf
  <2>5. call[b].artifacts[i] = i
    <3>1. ~ \E k \in 1 .. Len(call[b].results) : call[b].results[k].index = i
      BY <2>2
    <3> QED
      BY <1>1, <2>1, <2>3, <2>4, <3>1 DEF Sound, Book, Accounted
  <2>6. i \in InPlace(b)
    BY <2>4, <2>5 DEF InPlace
  <2> QED
    BY <1>1, <2>6 DEF Written
<1> QED
  BY <1>1, WrittenAlways, PTL

(* While the machine is up and os.Remove works, no temporary file of        *)
(* atomicWrite outlives its job, on any of its error paths.                 *)
THEOREM NoTempOutlivesItsJob == Spec => []NoTempLeft
<1>1. Init => NoTempLeft
  BY DEF Init, NoTempLeft
<1>2. Sound /\ NoTempLeft /\ [Next]_vars => NoTempLeft'
  <2> SUFFICES ASSUME Sound, NoTempLeft, [Next]_vars PROVE NoTempLeft'
    OBVIOUS
  <2>0. litter' = litter /\ crashes' = crashes => NoTempLeft'
    BY DEF NoTempLeft
  <2>1. CASE UNCHANGED vars
    BY <2>0, <2>1 DEF vars, files
  <2>2. ASSUME NEW b \in Batches,
               InspectPath(b) \/ Load(b) \/ CloseResults(b) \/ Collect(b) \/ Return(b)
        PROVE  NoTempLeft'
    BY <2>0, <2>2 DEF InspectPath, Load, CloseResults, Collect, Return, files
  <2>3. ASSUME NEW w \in Workers,
               \/ Hand(w) \/ Exit(w) \/ PackJob(w) \/ CreateTemp(w) \/ WriteTemp(w)
               \/ SyncTemp(w) \/ StatOutput(w) \/ Rename(w) \/ Cleanup(w) \/ SendResult(w)
        PROVE  NoTempLeft'
    <3>1. CASE SendResult(w)
      <4>1. litter \in BOOLEAN /\ worker[w].temp = "none"
        BY <3>1 DEF SendResult, Sound, TypeOK, Upright
      <4>2. litter' = litter /\ crashes' = crashes
        BY <3>1, <4>1 DEF SendResult
      <4> QED
        BY <2>0, <4>2
    <3>2. CASE Cleanup(w)
      BY <2>0, <3>2 DEF Cleanup, NoTempLeft
    <3>3. CASE ~SendResult(w) /\ ~Cleanup(w)
      BY <2>0, <2>3, <3>3 DEF Hand, Exit, PackJob, CreateTemp, WriteTemp, SyncTemp, StatOutput, Rename, files
    <3> QED
      BY <3>1, <3>2, <3>3
  <2>4. Crash => NoTempLeft'
    BY AfterTheCrash DEF NoTempLeft
  <2> QED
    BY <2>1, <2>2, <2>3, <2>4, NextCases
<1> QED
  BY <1>1, <1>2, SoundAlways, PTL DEF Spec

-----------------------------------------------------------------------------
(* Files nobody asked to replace.                                           *)

(* No two calls that run at the same time write to one path.  Without it    *)
(* the look and the rename of two workers can interleave, and the second    *)
(* one replaces the file of the first.                                      *)
SeparatePaths ==
    \A b, c \in Batches : \A i \in JobsOf(b), j \in JobsOf(c) :
        PathOf[b][i] = PathOf[c][j] => b = c

(* What a worker that may not overwrite is about to create is still absent. *)
StillAbsent ==
    \A w \in Workers :
        worker[w].at = "rename" /\ ~Overwrite[BatchOf[w]] => ~Exists(PathFor(w))

(* Workers with a job each write to paths of their own.                     *)
LEMMA OwnPath ==
    ASSUME Sound, SeparatePaths, NEW v \in Workers, NEW w \in Workers,
           worker[v].at \in AtWork, worker[w].at \in AtWork, PathFor(v) = PathFor(w)
    PROVE  v = w
<1> DEFINE b == BatchOf[v]
           c == BatchOf[w]
<1>1. b \in Batches /\ c \in Batches /\ v \in BusyCrew(b) /\ w \in BusyCrew(c)
  BY SomeWorkerSomeBatch DEF BusyCrew, Crew
<1>2. worker[v].job \in JobsOf(b) /\ worker[w].job \in JobsOf(c)
  BY <1>1, JobRange DEF Sound
<1>3. PathOf[b][worker[v].job] = PathOf[c][worker[w].job]
  BY DEF PathFor
<1>4. b = c
  BY <1>1, <1>2, <1>3 DEF SeparatePaths
<1> HIDE DEF b, c
<1>5. worker[v].job = worker[w].job
  BY <1>1, <1>2, <1>3, <1>4, BatchAssumption
<1> QED
  BY <1>1, <1>4, <1>5 DEF Sound, Once, WithWorkers

LEMMA RenameTouchesOne ==
    ASSUME TypeOK, NEW w \in Workers, Rename(w), NEW p \in Paths, p # PathFor(w)
    PROVE  disk'[p] = disk[p]
<1> DEFINE file == ApkFile(BatchOf[w], worker[w].job, worker[w].temp = "synced")
           q == PathFor(w)
<1>1. disk' = [disk EXCEPT ![q] = file] \/ disk' = disk
  BY DEF Rename
<1>2. DOMAIN disk = Paths /\ p # q
  BY DEF TypeOK
<1> HIDE DEF file, q
<1> QED
  BY <1>1, <1>2

LEMMA StillAbsentStep ==
    ASSUME SeparatePaths, Sound, StillAbsent, [Next]_vars
    PROVE  StillAbsent'
<1> SUFFICES ASSUME NEW w \in Workers, worker'[w].at = "rename", ~Overwrite[BatchOf[w]]
             PROVE  ~Exists(PathFor(w))'
  BY DEF StillAbsent
<1>0. /\ TypeOK /\ DOMAIN worker = Workers /\ worker[w] \in WorkerState(w)
      /\ worker'[w] = worker[w] /\ disk'[PathFor(w)] = disk[PathFor(w)] => ~Exists(PathFor(w))'
  BY DEF Sound, TypeOK, StillAbsent, Exists, PathFor
<1>1. CASE UNCHANGED vars
  BY <1>0, <1>1 DEF vars, files
<1>2. ASSUME NEW b \in Batches,
             InspectPath(b) \/ Load(b) \/ CloseResults(b) \/ Collect(b) \/ Return(b)
      PROVE  ~Exists(PathFor(w))'
  BY <1>0, <1>2 DEF InspectPath, Load, CloseResults, Collect, Return, files
<1>3. ASSUME NEW v \in Workers,
             \/ Hand(v) \/ Exit(v) \/ PackJob(v) \/ CreateTemp(v) \/ WriteTemp(v)
             \/ SyncTemp(v) \/ StatOutput(v) \/ Rename(v) \/ Cleanup(v) \/ SendResult(v)
      PROVE  ~Exists(PathFor(w))'
  <2>1. CASE v = w
    <3>1. StatOutput(w)
      BY <1>0, <1>3, <2>1 DEF WorkerState, Hand, Exit, PackJob, CreateTemp, WriteTemp, SyncTemp, Rename,
            Cleanup, SendResult, Go, GoWithTemp, MayFail, Fail, AfterSync, FreshWorker
    <3>2. ~Fail(w, "cleanup")
      BY <1>0 DEF WorkerState, Fail
    <3>3. ~Exists(PathFor(w)) /\ Go(w, "rename") /\ disk' = disk
      BY <3>1, <3>2 DEF StatOutput, MayFail, files
    <3>4. worker'[w].job = worker[w].job
      BY <1>0, <3>3 DEF WorkerState, Go
    <3> QED
      BY <3>3, <3>4 DEF Exists, PathFor
  <2>2. CASE v # w
    <3>1. worker'[w] = worker[w]
      BY <1>0, <1>3, <2>2 DEF Hand, Exit, PackJob, CreateTemp, WriteTemp, SyncTemp, StatOutput, Rename,
                  Cleanup, SendResult, Go, GoWithTemp, MayFail, Fail
    <3>2. CASE Rename(v)
      <4>1. worker[v].at \in AtWork /\ worker[w].at \in AtWork
        BY <3>1, <3>2 DEF Rename, AtWork, Steps
      <4>2. PathFor(v) # PathFor(w)
        BY <2>2, <4>1, OwnPath
      <4>3. disk'[PathFor(w)] = disk[PathFor(w)]
        <5>1. PathFor(w) \in Paths
          <6>1. w \in BusyCrew(BatchOf[w]) /\ BatchOf[w] \in Batches
            BY <4>1, SomeWorkerSomeBatch DEF BusyCrew, Crew
          <6> QED
            BY <1>0, <6>1, JobRange, BatchAssumption DEF PathFor
        <5> QED
          BY <1>0, <3>2, <4>2, <5>1, RenameTouchesOne
      <4> QED
        BY <1>0, <3>1, <4>3
    <3>3. CASE ~Rename(v)
      <4>1. disk' = disk
        BY <1>3, <3>3 DEF Hand, Exit, PackJob, CreateTemp, WriteTemp, SyncTemp, StatOutput,
                          Cleanup, SendResult, files
      <4> QED
        BY <1>0, <3>1, <4>1
    <3> QED
      BY <3>2, <3>3
  <2> QED
    BY <2>1, <2>2
<1>4. Crash => ~Exists(PathFor(w))'
  <2> SUFFICES ASSUME Crash PROVE FALSE
    OBVIOUS
  <2>1. worker'[w] = worker[w] /\ BatchOf[w] \notin Running
    BY DEF Crash, FreshWorker
  <2>2. BatchOf[w] \in Batches /\ w \in BusyCrew(BatchOf[w])
    BY <2>1, SomeWorkerSomeBatch DEF BusyCrew, Crew, AtWork, Steps
  <2> QED
    BY <2>1, <2>2, BusyIsPending DEF Running
<1> QED
  BY <1>1, <1>2, <1>3, <1>4, NextCases

(* If no two calls share a path, then without Overwrite no call ever        *)
(* replaces a file, even one that appeared after planning and even when     *)
(* calls are made again after a crash: StatOutput's look is still true at   *)
(* the rename.                                                              *)
THEOREM NothingReplaced == ASSUME SeparatePaths PROVE Spec => NoSilentReplace
<1>1. Init => StillAbsent
  BY DEF Init, StillAbsent, FreshWorker
<1>2. Sound /\ StillAbsent /\ [Next]_vars => StillAbsent'
  BY StillAbsentStep
<1>3. Sound /\ StillAbsent /\ [Next]_vars =>
        [(\A b \in Batches : ~Overwrite[b]) /\ crashes' = crashes =>
            \A p \in Paths : disk[p].kind # "absent" => disk'[p] = disk[p]]_vars
  <2> SUFFICES ASSUME Sound, StillAbsent, [Next]_vars, \A b \in Batches : ~Overwrite[b],
                      crashes' = crashes, NEW p \in Paths, disk[p].kind # "absent"
               PROVE  disk'[p] = disk[p]
    OBVIOUS
  <2>1. CASE UNCHANGED vars
    BY <2>1 DEF vars, files
  <2>2. ASSUME NEW b \in Batches,
               InspectPath(b) \/ Load(b) \/ CloseResults(b) \/ Collect(b) \/ Return(b)
        PROVE  disk'[p] = disk[p]
    BY <2>2 DEF InspectPath, Load, CloseResults, Collect, Return, files
  <2>3. ASSUME NEW w \in Workers,
               \/ Hand(w) \/ Exit(w) \/ PackJob(w) \/ CreateTemp(w) \/ WriteTemp(w)
               \/ SyncTemp(w) \/ StatOutput(w) \/ Rename(w) \/ Cleanup(w) \/ SendResult(w)
        PROVE  disk'[p] = disk[p]
    <3>1. CASE Rename(w)
      <4>1. ~Exists(PathFor(w))
        BY <3>1, SomeWorkerSomeBatch DEF Rename, StillAbsent
      <4>2. PathFor(w) # p
        BY <4>1 DEF Exists
      <4> QED
        BY <3>1, <4>2, RenameTouchesOne DEF Sound
    <3>2. CASE ~Rename(w)
      BY <2>3, <3>2 DEF Hand, Exit, PackJob, CreateTemp, WriteTemp, SyncTemp, StatOutput,
                        Cleanup, SendResult, files
    <3> QED
      BY <3>1, <3>2
  <2>4. Crash => disk'[p] = disk[p]
    <3>1. crashes \in Nat
      BY BatchAssumption DEF Sound, TypeOK
    <3> QED
      BY <3>1 DEF Crash
  <2> QED
    BY <2>1, <2>2, <2>3, <2>4, NextCases
<1> QED
  BY <1>1, <1>2, <1>3, SoundAlways, PTL DEF Spec, NoSilentReplace

=============================================================================
