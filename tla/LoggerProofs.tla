---------------------------- MODULE LoggerProofs ----------------------------
(***************************************************************************)
(* Theorems about Logger, for any number of loggers, batches and workers    *)
(* and any calls of SetLogger.                                              *)
(***************************************************************************)
EXTENDS Logger, TLAPS

(* TypeOK is not inductive: a worker between two lines must not be past its *)
(* last one.                                                                *)
Typed == TypeOK /\ \A w \in Workers : task[w].at # "choose" => task[w].line \in 1 .. 3

LEMMA ScriptLength == Len(Script) = 3
BY DEF Script

LEMMA NextLineIsTask ==
    ASSUME NEW w \in Workers, task[w].line \in 1 .. 3
    PROVE  NextLine(w) \in Tasks /\ NextLine(w).at = "choose"
BY ScriptLength DEF NextLine, Tasks

LEMMA InitTyped == Init => Typed
<1>. SUFFICES ASSUME Init PROVE Typed
  OBVIOUS
<1>1. task \in [Workers -> Tasks] /\ \A w \in Workers : task[w].at = "choose"
  BY ScriptLength DEF Init, Tasks
<1>2. sets \in 0 .. MaxSets
  <2>1. MaxSets \in Nat
    BY LoggerAssumption
  <2>. QED  BY <2>1 DEF Init
<1>3. mutex \in [Loggers -> Workers \cup {None}] /\ global \in Loggers \cup {None}
  BY DEF Init
<1>. QED  BY <1>1, <1>2, <1>3 DEF Init, Typed, TypeOK

LEMMA StepTyped == Typed /\ [Next]_vars => Typed'
<1>. SUFFICES ASSUME Typed, [Next]_vars PROVE Typed'
  OBVIOUS
<1>. USE DEF Typed
<1>1. ASSUME NEW l \in Loggers \cup {None}, SetLogger(l) PROVE Typed'
  <2>1. sets' \in 0 .. MaxSets
    <3>1. MaxSets \in Nat
      BY LoggerAssumption
    <3>. QED  BY <1>1, <3>1 DEF SetLogger, TypeOK
  <2>. QED  BY <1>1, <2>1 DEF SetLogger, TypeOK
<1>2. ASSUME NEW b \in Batches, BeginBatch(b) PROVE Typed'
  <2>1. CurrentLogger(Own[b]) \in Loggers \cup {None}
    BY LoggerAssumption DEF TypeOK, CurrentLogger
  <2>2. \A d \in Batches : logger'[d] \in {logger[d], CurrentLogger(Own[b])}
    BY <1>2 DEF BeginBatch
  <2>. QED  BY <1>2, <2>1, <2>2 DEF BeginBatch, TypeOK
<1>3. ASSUME NEW w \in Workers, Log(w) PROVE Typed'
  <2>1. task \in [Workers -> Tasks] /\ task[w] \in Tasks
    BY DEF TypeOK
  <2>2. UNCHANGED <<global, sets, logger>>
    BY <1>3 DEF Log, Choose, Lock, WriteAndUnlock
  <2>3. ASSUME NEW t \in Tasks, t.at # "choose" => t.using # None /\ t.line \in 1 .. 3,
               task' = [task EXCEPT ![w] = t]
        PROVE  /\ task' \in [Workers -> Tasks]
               /\ \A v \in Workers :
                     task'[v].at # "choose" => task'[v].using # None /\ task'[v].line \in 1 .. 3
    BY <2>1, <2>3 DEF TypeOK
  <2>4. CASE Choose(w)
    <3>1. BatchOf[w] \in Batches /\ Own \in [Batches -> Loggers \cup {None}]
      BY LoggerAssumption
    <3>2. logger[BatchOf[w]] \in Loggers \cup {None}
      BY <2>4, <3>1 DEF Choose, TypeOK
    <3>3. LoggerFor(w) \in Loggers \cup {None}
      BY <3>2 DEF LoggerFor, CurrentLogger, TypeOK
    <3>4. task[w].line \in 1 .. 3
      BY <2>1, <2>4, ScriptLength DEF Choose, Tasks
    <3>5. CASE LoggerFor(w) = None
      BY <2>2, <2>3, <2>4, <3>4, <3>5, NextLineIsTask DEF Choose, TypeOK
    <3>6. CASE LoggerFor(w) # None
      <4>. DEFINE t == [task[w] EXCEPT !.at = "lock", !.using = LoggerFor(w)]
      <4>1. task' = [task EXCEPT ![w] = t]
        BY <2>4, <3>6 DEF Choose
      <4>2. t \in Tasks /\ t.using = LoggerFor(w) /\ t.line = task[w].line
        BY <2>1, <3>3 DEF Tasks
      <4>. HIDE DEF t
      <4>. QED  BY <2>2, <2>3, <2>4, <3>4, <3>6, <4>1, <4>2 DEF Choose, TypeOK
    <3>. QED  BY <3>5, <3>6
  <2>5. CASE Lock(w)
    <3>. DEFINE t == [task[w] EXCEPT !.at = "write"]
    <3>1. task' = [task EXCEPT ![w] = t]
      BY <2>5 DEF Lock
    <3>2. t \in Tasks /\ t.using = task[w].using /\ t.line = task[w].line
      BY <2>1 DEF Tasks
    <3>3. task[w].using # None /\ task[w].line \in 1 .. 3
      BY <2>5 DEF Lock, TypeOK
    <3>4. mutex' \in [Loggers -> Workers \cup {None}]
      BY <2>5 DEF Lock, TypeOK
    <3>. HIDE DEF t
    <3>. QED  BY <2>2, <2>3, <3>1, <3>2, <3>3, <3>4 DEF TypeOK
  <2>6. CASE WriteAndUnlock(w)
    <3>1. NextLine(w) \in Tasks /\ NextLine(w).at = "choose"
      BY <2>6, NextLineIsTask DEF WriteAndUnlock
    <3>2. mutex' \in [Loggers -> Workers \cup {None}]
      BY <2>6 DEF WriteAndUnlock, TypeOK
    <3>3. task' = [task EXCEPT ![w] = NextLine(w)]
      BY <2>6 DEF WriteAndUnlock
    <3>. QED  BY <2>2, <2>3, <3>1, <3>2, <3>3 DEF TypeOK
  <2>. QED  BY <1>3, <2>4, <2>5, <2>6 DEF Log
<1>4. CASE UNCHANGED vars
  BY <1>4 DEF vars, TypeOK
<1>. QED  BY <1>1, <1>2, <1>3, <1>4 DEF Next

(* No worker calls a logger that is nil, whatever SetLogger is called with. *)
THEOREM TypeCorrect == Spec => []TypeOK
<1>1. Typed => TypeOK
  BY DEF Typed
<1>. QED  BY <1>1, InitTyped, StepTyped, PTL DEF Spec

-----------------------------------------------------------------------------
(* A worker in the middle of a line has a batch that has settled its        *)
(* logger, and this is settled once.                                        *)
Settled == \A w \in Workers : task[w].at # "choose" => logger[BatchOf[w]] # "unset"

LEMMA StepOneReport ==
    Typed /\ Settled /\ OneReport /\ [Next]_vars => Settled' /\ OneReport'
<1>. SUFFICES ASSUME Typed, Settled, OneReport, [Next]_vars PROVE Settled' /\ OneReport'
  OBVIOUS
<1>1. ASSUME NEW l \in Loggers \cup {None}, SetLogger(l) PROVE Settled' /\ OneReport'
  BY <1>1 DEF SetLogger, Settled, OneReport
<1>2. ASSUME NEW b \in Batches, BeginBatch(b) PROVE Settled' /\ OneReport'
  <2>1. \A w \in Workers : task[w].at # "choose" => logger'[BatchOf[w]] = logger[BatchOf[w]]
    BY <1>2 DEF BeginBatch, Settled
  <2>. QED  BY <1>2, <2>1 DEF BeginBatch, Settled, OneReport
<1>3. ASSUME NEW w \in Workers, Log(w) PROVE Settled' /\ OneReport'
  <2>1. task \in [Workers -> Tasks] /\ task[w] \in Tasks
    BY DEF Typed, TypeOK
  <2>2. \A v \in Workers \ {w} : task'[v] = task[v]
    BY <1>3, <2>1 DEF Log, Choose, Lock, WriteAndUnlock
  <2>3. logger' = logger
    BY <1>3 DEF Log, Choose, Lock, WriteAndUnlock
  <2>4. task'[w].at # "choose" =>
           /\ logger[BatchOf[w]] # "unset"
           /\ logger[BatchOf[w]] # None => task'[w].using = logger[BatchOf[w]]
    <3>1. CASE Choose(w)
      <4>1. logger[BatchOf[w]] # None => LoggerFor(w) = logger[BatchOf[w]]
        BY DEF LoggerFor, CurrentLogger
      <4>2. task'[w].at = "choose" \/ task'[w].using = LoggerFor(w)
        BY <2>1, <3>1 DEF Choose, Tasks, NextLine
      <4>. QED  BY <3>1, <4>1, <4>2 DEF Choose
    <3>2. CASE Lock(w)
      BY <2>1, <3>2 DEF Lock, Tasks, Settled, OneReport
    <3>3. CASE WriteAndUnlock(w)
      BY <2>1, <3>3 DEF WriteAndUnlock, NextLine
    <3>. QED  BY <1>3, <3>1, <3>2, <3>3 DEF Log
  <2>. QED  BY <2>2, <2>3, <2>4 DEF Settled, OneReport
<1>4. CASE UNCHANGED vars
  BY <1>4 DEF vars, Settled, OneReport
<1>. QED  BY <1>1, <1>2, <1>3, <1>4 DEF Next

(* A batch that had a logger when it started writes every line of its       *)
(* workers to this logger, whoever calls SetLogger in the meantime.         *)
THEOREM BatchReportsOnce == Spec => []OneReport
<1>1. Init => Settled /\ OneReport
  BY DEF Init, Settled, OneReport
<1>. QED  BY <1>1, InitTyped, StepTyped, StepOneReport, PTL DEF Spec

-----------------------------------------------------------------------------
(* Whoever writes through a logger holds its mutex.                         *)
Held == \A w \in Workers : task[w].at = "write" => mutex[task[w].using] = w

LEMMA StepHeld == Typed /\ Held /\ [Next]_vars => Held'
<1>. SUFFICES ASSUME Typed, Held, [Next]_vars PROVE Held'
  OBVIOUS
<1>1. ASSUME NEW w \in Workers, Log(w) PROVE Held'
  <2>1. /\ task \in [Workers -> Tasks] /\ mutex \in [Loggers -> Workers \cup {None}]
        /\ \A v \in Workers : task[v] \in Tasks
        /\ \A v \in Workers : task[v].at # "choose" => task[v].using \in Loggers
    BY DEF Typed, TypeOK, Tasks
  <2>2. \A v \in Workers \ {w} : task'[v] = task[v]
    BY <1>1, <2>1 DEF Log, Choose, Lock, WriteAndUnlock
  <2>3. CASE Choose(w)
    <3>1. task'[w].at # "write" /\ mutex' = mutex
      BY <2>1, <2>3 DEF Choose, NextLine, Tasks
    <3>. QED  BY <2>2, <3>1 DEF Held
  <2>4. CASE Lock(w)
    <3>1. task'[w].using = task[w].using /\ mutex'[task[w].using] = w
      BY <2>1, <2>4 DEF Lock, Tasks
    <3>2. \A v \in Workers \ {w} : task[v].at = "write" => task[v].using # task[w].using
      <4>1. None \notin Workers
        BY LoggerAssumption
      <4>. QED  BY <2>4, <4>1 DEF Lock, Held
    <3>3. \A l \in Loggers : l # task[w].using => mutex'[l] = mutex[l]
      BY <2>1, <2>4 DEF Lock
    <3>. QED  BY <2>1, <2>2, <3>1, <3>2, <3>3 DEF Held
  <2>5. CASE WriteAndUnlock(w)
    <3>1. task'[w].at = "choose"
      BY <2>1, <2>5 DEF WriteAndUnlock, NextLine
    <3>2. \A v \in Workers \ {w} : task[v].at = "write" => task[v].using # task[w].using
      BY <2>5 DEF WriteAndUnlock, Held
    <3>3. \A l \in Loggers : l # task[w].using => mutex'[l] = mutex[l]
      BY <2>1, <2>5 DEF WriteAndUnlock
    <3>. QED  BY <2>1, <2>2, <3>1, <3>2, <3>3 DEF Held
  <2>. QED  BY <1>1, <2>3, <2>4, <2>5 DEF Log
<1>2. CASE UNCHANGED <<task, mutex>>
  BY <1>2 DEF Held
<1>. QED  BY <1>1, <1>2 DEF Next, SetLogger, BeginBatch, vars

(* While every logger has a writer of its own, no two workers write at the  *)
(* same time, in one batch or in several.                                   *)
THEOREM LinesStayWhole ==
    ASSUME \A k, l \in Loggers : k # l => WriterOf[k] # WriterOf[l]
    PROVE  Spec => []LinesWhole
<1>1. Init => Held
  BY DEF Init, Held
<1>2. Typed /\ Held => LinesWhole
  <2>. SUFFICES ASSUME Typed, Held, NEW v \in Workers, NEW w \in Workers,
                       v # w, task[v].at = "write", task[w].at = "write"
                PROVE  WriterOf[task[v].using] # WriterOf[task[w].using]
    BY DEF LinesWhole
  <2>1. task[v].using \in Loggers /\ task[w].using \in Loggers
    BY DEF Typed, TypeOK, Tasks
  <2>2. task[v].using # task[w].using
    BY DEF Held
  <2>. QED  BY <2>1, <2>2
<1>. QED  BY <1>1, <1>2, InitTyped, StepTyped, StepHeld, PTL DEF Spec
=============================================================================
