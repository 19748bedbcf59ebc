------------------------------- MODULE Logger -------------------------------
(***************************************************************************)
(* Logging (internal/core/logger.go) under concurrent batches: an atomic    *)
(* pointer to the global logger that SetLogger and SetOutput replace at any *)
(* time, loggers that guard their writer with a mutex of their own, and the *)
(* workers of batches, whose lines come from PackFiles, by the logger it    *)
(* settled at its start, and from Pack, which settles it again.             *)
(***************************************************************************)
EXTENDS Naturals, Sequences, FiniteSets

CONSTANTS
    Loggers,   \* the writerLoggers that SetOutput made
    WriterOf,  \* WriterOf[l]: the writer behind logger l
    None,      \* no logger: nil
    Workers,   \* goroutines that pack
    Batches,
    BatchOf,   \* BatchOf[w]: the batch a worker belongs to
    Own,       \* Own[b]: opts.Logger of a batch, or None
    MaxSets    \* bound on calls of SetLogger

ASSUME LoggerAssumption ==
    /\ None \notin Loggers \cup Workers
    /\ BatchOf \in [Workers -> Batches]
    /\ Own \in [Batches -> Loggers \cup {None}]
    /\ MaxSets \in Nat

VARIABLES
    global,   \* globalLogger
    sets,     \* calls of SetLogger so far
    logger,   \* per batch: what PackFiles settled, or "unset"
    task,     \* per worker: its next line, where it is with it, and the logger it uses
    mutex     \* per logger: the worker that holds it, or None

vars == <<global, sets, logger, task, mutex>>

(* The lines of a job: PackFiles, Pack, PackFiles.                          *)
Script == <<"batch", "pack", "batch">>

Tasks ==
    [line : 1 .. Len(Script) + 1, at : {"choose", "lock", "write"}, using : Loggers \cup {None}]

Init ==
    /\ global \in Loggers \cup {None}
    /\ sets = 0
    /\ logger = [b \in Batches |-> "unset"]
    /\ task = [w \in Workers |-> [line |-> 1, at |-> "choose", using |-> None]]
    /\ mutex = [l \in Loggers |-> None]

CurrentLogger(own) == IF own # None THEN own ELSE global

SetLogger(l) ==
    /\ sets < MaxSets
    /\ sets' = sets + 1
    /\ global' = l
    /\ UNCHANGED <<logger, task, mutex>>

BeginBatch(b) ==
    /\ logger[b] = "unset"
    /\ logger' = [logger EXCEPT ![b] = CurrentLogger(Own[b])]
    /\ UNCHANGED <<global, sets, task, mutex>>

(* Mutant: Pack is not given the logger of the batch.                       *)
LoggerAnew(w) ==
    IF Script[task[w].line] = "batch" THEN logger[BatchOf[w]] ELSE CurrentLogger(Own[BatchOf[w]])

LoggerFor(w) ==
    IF Script[task[w].line] = "batch" THEN logger[BatchOf[w]] ELSE CurrentLogger(logger[BatchOf[w]])

NextLine(w) == [line |-> task[w].line + 1, at |-> "choose", using |-> None]

(* Mutant: LogPrintf does not look for nil.                                 *)
ChooseUnchecked(w) ==
    /\ logger[BatchOf[w]] # "unset"
    /\ task[w].at = "choose"
    /\ task[w].line <= Len(Script)
    /\ task' = [task EXCEPT ![w].at = "lock", ![w].using = LoggerFor(w)]
    /\ UNCHANGED <<global, sets, logger, mutex>>

(* Without a logger the line is skipped.                                    *)
Choose(w) ==
    /\ logger[BatchOf[w]] # "unset"
    /\ task[w].at = "choose"
    /\ task[w].line <= Len(Script)
    /\ task' = [task EXCEPT ![w] =
          IF LoggerFor(w) = None THEN NextLine(w)
          ELSE [@ EXCEPT !.at = "lock", !.using = LoggerFor(w)]]
    /\ UNCHANGED <<global, sets, logger, mutex>>

(* Mutant: Printf writes without the lock.                                  *)
NoLock(w) ==
    /\ task[w].at = "lock"
    /\ task' = [task EXCEPT ![w].at = "write"]
    /\ UNCHANGED <<global, sets, logger, mutex>>

Lock(w) ==
    /\ task[w].at = "lock"
    /\ mutex[task[w].using] = None
    /\ mutex' = [mutex EXCEPT ![task[w].using] = w]
    /\ task' = [task EXCEPT ![w].at = "write"]
    /\ UNCHANGED <<global, sets, logger>>

(* Mutant: no deferred Unlock.                                              *)
WriteOnly(w) ==
    /\ task[w].at = "write"
    /\ task' = [task EXCEPT ![w] = NextLine(w)]
    /\ UNCHANGED <<global, sets, logger, mutex>>

WriteAndUnlock(w) ==
    /\ task[w].at = "write"
    /\ mutex' = [mutex EXCEPT ![task[w].using] = None]
    /\ task' = [task EXCEPT ![w] = NextLine(w)]
    /\ UNCHANGED <<global, sets, logger>>

Log(w) == Choose(w) \/ Lock(w) \/ WriteAndUnlock(w)

Next ==
    \/ \E l \in Loggers \cup {None} : SetLogger(l)
    \/ \E b \in Batches : BeginBatch(b)
    \/ \E w \in Workers : Log(w)

(* Every goroutine that can run does, and a writer's Write returns; nobody  *)
(* has to call SetLogger.                                                   *)
Spec ==
    /\ Init
    /\ [][Next]_vars
    /\ \A b \in Batches : WF_vars(BeginBatch(b))
    /\ \A w \in Workers : WF_vars(Log(w))

-----------------------------------------------------------------------------
(* Nobody calls a logger that is nil.                                       *)
TypeOK ==
    /\ global \in Loggers \cup {None}
    /\ sets \in 0 .. MaxSets
    /\ \A b \in Batches : logger[b] \in Loggers \cup {None, "unset"}
    /\ task \in [Workers -> Tasks]
    /\ \A w \in Workers : task[w].at # "choose" => task[w].using # None
    /\ mutex \in [Loggers -> Workers \cup {None}]

(* A batch that had a logger when it started reports to it alone, whatever  *)
(* SetLogger is called with while it runs.                                  *)
OneReport ==
    \A w \in Workers :
        task[w].at # "choose" /\ logger[BatchOf[w]] # None => task[w].using = logger[BatchOf[w]]

(* Lines do not run into each other: no two workers, of one batch or of     *)
(* two, write to one writer at the same time.                               *)
LinesWhole ==
    \A v, w \in Workers :
        v # w /\ task[v].at = "write" /\ task[w].at = "write" =>
            WriterOf[task[v].using] # WriterOf[task[w].using]

(* Logging holds nobody up: every worker gets to the end of its report.     *)
ReportsEnd == \A w \in Workers : <>(task[w].line = Len(Script) + 1)
=============================================================================
