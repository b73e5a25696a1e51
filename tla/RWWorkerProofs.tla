--------------------------- MODULE RWWorkerProofs ---------------------------
(***************************************************************************)
(* Theorems about RWWorker, for any number of workers and jobs, any        *)
(* capacities and either drain policy: that a write runs alone and after   *)
(* the reads before it, and what becomes of a job, which ends at most once *)
(* and is not left behind by a stop that did not time out.                 *)
(***************************************************************************)
EXTENDS RWWorker, TLAPS

(***************************************************************************)
(* Type correctness.  It needs two facts beside TypeOK: a goroutine on a   *)
(* label where it handles a job has one, and writeRequested counts the     *)
(* goroutines between its increment and its decrement.                     *)
(***************************************************************************)
HoldLabels == {"mode1", "mode2", "rw1", "rw2", "dispatch", "send", "exec", "heldExec",
               "drainExec", "storeRead", "storeNew", "gate", "sem", "rlock", "recheck",
               "wtarget", "wspin", "wspinClosed", "wtry", "wtryClosed", "wexec"}

HoldInv == \A t \in Threads : pc[t] \in HoldLabels => job[t] \in Jobs

RequestLabels == {"wtry", "wtryClosed", "wexec", "wdec"}

Requests(t) == IF pc[t] \in RequestLabels THEN 1 ELSE 0

RequestInv == \A w \in Workers : writeReq[w] = Requests(Main(w)) + Requests(Pipe(w))

TypeInv == TypeOK /\ HoldInv /\ RequestInv

\* Threads are pairs: the two goroutines of each worker are distinct.
LEMMA ThreadFacts ==
    /\ \A w \in Workers : Main(w) \in Threads /\ Pipe(w) \in Threads
    /\ \A t \in Threads : /\ t[1] \in Workers
                          /\ \/ t = Main(t[1]) /\ t[2] = "main"
                             \/ t = Pipe(t[1]) /\ t[2] = "pipe"
    /\ \A v, w \in Workers : /\ Main(v) # Pipe(w)
                             /\ Main(v) = Main(w) => v = w
                             /\ Pipe(v) = Pipe(w) => v = w
    /\ \A w \in Workers : /\ Main(w)[1] = w /\ Pipe(w)[1] = w
                          /\ Main(w)[2] = "main" /\ Pipe(w)[2] = "pipe"
  BY DEF Threads, Main, Pipe

\* The goroutine t moves to another label, the others stay where they are.
Moves(t) == pc' = [pc EXCEPT ![t] = pc'[t]]

\* A goroutine that moves to a label of its own code keeps pc well-typed.
LEMMA MoveFacts ==
    ASSUME PcOK, NEW t \in Threads, Moves(t),
           t[2] = "main" => pc'[t] \in MainLabels,
           t[2] = "pipe" => pc'[t] \in PipeLabels
    PROVE  PcOK' /\ \A u \in Threads \ {t} : pc'[u] = pc[u]
<1>1. \A u \in Threads \ {t} : pc'[u] = pc[u]
  BY DEF PcOK, Moves
<1>2. pc'[t] \in MainLabels \cup PipeLabels
  BY ThreadFacts
<1>3. pc' \in [Threads -> MainLabels \cup PipeLabels]
  BY <1>2 DEF PcOK, Moves
<1>4. \A w \in Workers : pc'[Main(w)] \in MainLabels /\ pc'[Pipe(w)] \in PipeLabels
  BY <1>1, ThreadFacts DEF PcOK
<1>5. QED
  BY <1>1, <1>3, <1>4 DEF PcOK

\* Ending a job keeps the history well-typed.
LEMMA EndFacts ==
    ASSUME CountersOK, FlagsOK, NEW j, NEW how \in Fates, End(j, how)
    PROVE  ends' \in [Jobs -> Nat] /\ fate' \in [Jobs -> Fates]
<1>1. ends' \in [Jobs -> Nat]
  <2>1. CASE j \in Jobs
    BY <2>1 DEF End, CountersOK
  <2>2. CASE j \notin Jobs
    BY <2>2 DEF End, CountersOK
  <2>3. QED
    BY <2>1, <2>2
<1>2. fate' \in [Jobs -> Fates]
  BY DEF End, FlagsOK
<1>3. QED
  BY <1>1, <1>2

\* writeRequested follows a goroutine in and out of the counted labels.
LEMMA RequestStep ==
    ASSUME PcOK, CountersOK, RequestInv, NEW t \in Threads,
           \A u \in Threads \ {t} : pc'[u] = pc[u],
           \/ (pc[t] \in RequestLabels <=> pc'[t] \in RequestLabels) /\ UNCHANGED writeReq
           \/ /\ pc[t] \notin RequestLabels /\ pc'[t] \in RequestLabels
              /\ writeReq' = [writeReq EXCEPT ![t[1]] = @ + 1]
           \/ /\ pc[t] \in RequestLabels /\ pc'[t] \notin RequestLabels
              /\ writeReq' = [writeReq EXCEPT ![t[1]] = @ - 1]
    PROVE  RequestInv' /\ writeReq' \in [Workers -> Nat]
<1>1. \A u \in Threads \ {t} : Requests(u)' = Requests(u)
  BY DEF Requests
<1>2. Requests(t)' = IF pc'[t] \in RequestLabels THEN 1 ELSE 0
  BY DEF Requests
<1>3. Requests(t) = IF pc[t] \in RequestLabels THEN 1 ELSE 0
  BY DEF Requests
<1>4. \A u \in Threads : Requests(u) \in Nat
  BY DEF Requests
<1> HIDE DEF Requests
<1>5. \A w \in Workers \ {t[1]} : writeReq'[w] = Requests(Main(w))' + Requests(Pipe(w))'
  BY <1>1, ThreadFacts DEF RequestInv, CountersOK
<1>6. writeReq'[t[1]] = Requests(Main(t[1]))' + Requests(Pipe(t[1]))'
  BY <1>1, <1>2, <1>3, <1>4, ThreadFacts DEF RequestInv, CountersOK
<1>7. RequestInv'
  BY <1>5, <1>6 DEF RequestInv
<1>8. writeReq' \in [Workers -> Nat]
  <2>1. \A w \in Workers : Requests(Main(w))' \in Nat /\ Requests(Pipe(w))' \in Nat
    BY DEF Requests
  <2>2. \A w \in Workers : writeReq'[w] \in Nat
    BY <1>5, <1>6, <2>1
  <2>3. writeReq' = [w \in Workers |-> writeReq'[w]]
    BY DEF CountersOK
  <2>4. QED
    BY <2>2, <2>3
<1>9. QED
  BY <1>7, <1>8

\* What a step of goroutine t does to pc, job and writeRequested: it stays on
\* its own labels, holds a job where it must, leaves the jobs of the others
\* alone and is counted on exactly the labels where it asks for the lock.
StepOf(t) ==
    /\ Moves(t)
    /\ t[2] = "main" => pc'[t] \in MainLabels
    /\ t[2] = "pipe" => pc'[t] \in PipeLabels
    /\ pc'[t] \in HoldLabels => job'[t] \in Jobs
    /\ \A u \in Threads \ {t} : job'[u] = job[u]
    /\ \/ (pc[t] \in RequestLabels <=> pc'[t] \in RequestLabels) /\ UNCHANGED writeReq
       \/ /\ pc[t] \notin RequestLabels /\ pc'[t] \in RequestLabels
          /\ writeReq' = [writeReq EXCEPT ![t[1]] = @ + 1]
       \/ /\ pc[t] \in RequestLabels /\ pc'[t] \notin RequestLabels
          /\ writeReq' = [writeReq EXCEPT ![t[1]] = @ - 1]

\* Such a step preserves TypeInv, given the types of the other variables.
LEMMA ThreadStep ==
    ASSUME TypeInv, NEW t \in Threads, StepOf(t)
    PROVE  /\ PcOK' /\ HoldInv' /\ RequestInv'
           /\ writeReq' \in [Workers -> Nat]
<1>1. PcOK' /\ \A u \in Threads \ {t} : pc'[u] = pc[u]
  BY MoveFacts DEF StepOf, TypeInv, TypeOK
<1>2. HoldInv'
  BY <1>1 DEF HoldInv, StepOf, TypeInv
<1>3. RequestInv' /\ writeReq' \in [Workers -> Nat]
  BY <1>1, RequestStep DEF StepOf, TypeInv, TypeOK
<1>4. QED
  BY <1>1, <1>2, <1>3

\* The initial state satisfies TypeInv.
LEMMA TypeInit == Init => TypeInv
<1> SUFFICES ASSUME Init PROVE TypeInv
  OBVIOUS
<1> USE ConstantsAssumption DEF Init
<1>1. PcOK
  <2>1. pc \in [Threads -> MainLabels \cup PipeLabels]
    BY ThreadFacts DEF MainLabels, PipeLabels
  <2>2. \A w \in Workers : pc[Main(w)] \in MainLabels /\ pc[Pipe(w)] \in PipeLabels
    BY ThreadFacts DEF MainLabels, PipeLabels
  <2>3. QED
    BY <2>1, <2>2 DEF PcOK
<1>2. PlacesOK
  BY DEF PlacesOK
<1>3. CountersOK
  BY DEF CountersOK
<1>4. FlagsOK
  BY DEF FlagsOK, Fates
<1>5. HoldInv /\ RequestInv
  BY ThreadFacts DEF HoldInv, RequestInv, HoldLabels, Requests, RequestLabels
<1>6. QED
  BY <1>1, <1>2, <1>3, <1>4, <1>5 DEF TypeInv, TypeOK

\* SubmitJob, BeginStop and the stop deadline preserve TypeInv.
LEMMA TypeCallers ==
    ASSUME TypeInv, NEW w \in Workers,
           (\E j \in Jobs : SubmitJob(j)) \/ BeginStop(w) \/ StopDeadline(w)
    PROVE  TypeInv'
<1> USE DEF TypeInv, TypeOK, threads, stored, reads, lock, stopping, switch, outcome
<1>1. ASSUME NEW j \in Jobs, SubmitJob(j) PROVE TypeInv'
  <2>1. PcOK' /\ HoldInv' /\ RequestInv'
    BY <1>1 DEF SubmitJob, PcOK, HoldInv, RequestInv, Requests
  <2>2. PlacesOK' /\ CountersOK' /\ FlagsOK'
    <3>1. WorkerOf[j] \in Workers
      BY ConstantsAssumption
    <3>2. PlacesOK'
      <4>1. PICK v \in Workers : \/ queue' = queue
                                \/ queue' = [queue EXCEPT ![v] = queue[v] \cup {j}]
        BY <1>1, <3>1 DEF SubmitJob
      <4>2. queue[v] \cup {j} \in SUBSET Jobs
        BY DEF PlacesOK
      <4>3. queue' \in [Workers -> SUBSET Jobs]
        BY <4>1, <4>2 DEF PlacesOK
      <4>4. QED
        BY <1>1, <4>3 DEF SubmitJob, PlacesOK
    <3>3. CountersOK' /\ FlagsOK'
      BY <1>1 DEF SubmitJob, CountersOK, FlagsOK, Fates
    <3>4. QED
      BY <3>2, <3>3
  <2>3. QED
    BY <2>1, <2>2
<1>2. CASE BeginStop(w)
  <2>1. PcOK' /\ HoldInv' /\ RequestInv'
    BY <1>2 DEF BeginStop, PcOK, HoldInv, RequestInv, Requests
  <2>2. PlacesOK' /\ CountersOK' /\ FlagsOK'
    BY <1>2, EndFacts DEF BeginStop, PlacesOK, CountersOK, FlagsOK, Fates
  <2>3. QED
    BY <2>1, <2>2
<1>3. CASE StopDeadline(w)
  <2>1. PcOK' /\ HoldInv' /\ RequestInv'
    BY <1>3 DEF StopDeadline, PcOK, HoldInv, RequestInv, Requests
  <2>2. PlacesOK' /\ CountersOK' /\ FlagsOK'
    BY <1>3, EndFacts DEF StopDeadline, PlacesOK, CountersOK, FlagsOK, Fates
  <2>3. QED
    BY <2>1, <2>2
<1>4. QED
  BY <1>1, <1>2, <1>3

\* The steps of execWrite preserve TypeInv, in either goroutine.
LEMMA TypeExecWrite ==
    ASSUME TypeInv, NEW t \in Threads, ExecWrite(t)
    PROVE  TypeInv'
<1> USE DEF TypeInv, TypeOK, threads, stored, reads, lock, stopping, switch, outcome
<1>1. CASE WriteTarget(t)
  <2>1. StepOf(t)
    BY <1>1, ThreadFacts DEF WriteTarget, StepOf, Moves, Goto, GoHome, Home,       HoldInv, PcOK, PlacesOK,
      HoldLabels, RequestLabels, MainLabels, PipeLabels, WriteLabels, ExitLabels
  <2>2. PcOK' /\ HoldInv' /\ RequestInv' /\ writeReq' \in [Workers -> Nat]
    BY <2>1, ThreadStep, ThreadFacts
  <2>3. PlacesOK'
    BY <1>1, ThreadFacts DEF WriteTarget, GoHome, HoldInv, HoldLabels, PlacesOK
  <2>4. CountersOK'
    BY <1>1, <2>2, EndFacts, ThreadFacts DEF WriteTarget, GoHome, CountersOK, Fates
  <2>5. FlagsOK'
    BY <1>1, EndFacts, ThreadFacts, ConstantsAssumption DEF WriteTarget, FlagsOK,
      Fates
  <2>6. QED
    BY <2>2, <2>3, <2>4, <2>5
<1>2. CASE WriteSpin(t)
  <2>1. StepOf(t)
    BY <1>2, ThreadFacts DEF WriteSpin, StepOf, Moves, Goto, GoHome, Home, HoldInv,
      PcOK, PlacesOK,
      HoldLabels, RequestLabels, MainLabels, PipeLabels, WriteLabels, ExitLabels
  <2>2. PcOK' /\ HoldInv' /\ RequestInv' /\ writeReq' \in [Workers -> Nat]
    BY <2>1, ThreadStep, ThreadFacts
  <2>3. PlacesOK'
    BY <1>2, ThreadFacts DEF WriteSpin, GoHome, HoldInv, HoldLabels, PlacesOK
  <2>4. CountersOK'
    BY <1>2, <2>2, EndFacts, ThreadFacts DEF WriteSpin, GoHome, CountersOK, Fates
  <2>5. FlagsOK'
    BY <1>2, EndFacts, ThreadFacts, ConstantsAssumption DEF WriteSpin, FlagsOK, Fates
  <2>6. QED
    BY <2>2, <2>3, <2>4, <2>5
<1>3. CASE WriteSpinClosed(t)
  <2>1. StepOf(t)
    BY <1>3, ThreadFacts DEF WriteSpinClosed, StepOf, Moves, Goto, GoHome, Home,       HoldInv, PcOK, PlacesOK,
      HoldLabels, RequestLabels, MainLabels, PipeLabels, WriteLabels, ExitLabels
  <2>2. PcOK' /\ HoldInv' /\ RequestInv' /\ writeReq' \in [Workers -> Nat]
    BY <2>1, ThreadStep, ThreadFacts
  <2>3. PlacesOK'
    BY <1>3, ThreadFacts, ZenonT(40)
      DEF WriteSpinClosed, GoHome, HoldInv, HoldLabels, PlacesOK
  <2>4. CountersOK'
    BY <1>3, <2>2, EndFacts, ThreadFacts DEF WriteSpinClosed, GoHome, CountersOK,
      Fates
  <2>5. FlagsOK'
    BY <1>3, EndFacts, ThreadFacts, ConstantsAssumption DEF WriteSpinClosed,       FlagsOK, Fates
  <2>6. QED
    BY <2>2, <2>3, <2>4, <2>5
<1>4. CASE WriteTryLock(t)
  <2>1. StepOf(t)
    BY <1>4, ThreadFacts DEF WriteTryLock, StepOf, Moves, Goto, GoHome, Home,       HoldInv, PcOK, PlacesOK,
      HoldLabels, RequestLabels, MainLabels, PipeLabels, WriteLabels, ExitLabels
  <2>2. PcOK' /\ HoldInv' /\ RequestInv' /\ writeReq' \in [Workers -> Nat]
    BY <2>1, ThreadStep, ThreadFacts
  <2>3. PlacesOK'
    BY <1>4, ThreadFacts DEF WriteTryLock, GoHome, HoldInv, HoldLabels, PlacesOK
  <2>4. CountersOK'
    BY <1>4, <2>2, EndFacts, ThreadFacts DEF WriteTryLock, GoHome, CountersOK, Fates
  <2>5. FlagsOK'
    BY <1>4, EndFacts, ThreadFacts, ConstantsAssumption DEF WriteTryLock, FlagsOK,
      Fates
  <2>6. QED
    BY <2>2, <2>3, <2>4, <2>5
<1>5. CASE WriteTryClosed(t)
  <2>1. StepOf(t)
    BY <1>5, ThreadFacts DEF WriteTryClosed, StepOf, Moves, Goto, GoHome, Home,       HoldInv, PcOK, PlacesOK,
      HoldLabels, RequestLabels, MainLabels, PipeLabels, WriteLabels, ExitLabels
  <2>2. PcOK' /\ HoldInv' /\ RequestInv' /\ writeReq' \in [Workers -> Nat]
    BY <2>1, ThreadStep, ThreadFacts
  <2>3. PlacesOK'
    BY <1>5, ThreadFacts DEF WriteTryClosed, GoHome, HoldInv, HoldLabels, PlacesOK
  <2>4. CountersOK'
    BY <1>5, <2>2, EndFacts, ThreadFacts DEF WriteTryClosed, GoHome, CountersOK, Fates
  <2>5. FlagsOK'
    BY <1>5, EndFacts, ThreadFacts, ConstantsAssumption DEF WriteTryClosed,       FlagsOK, Fates
  <2>6. QED
    BY <2>2, <2>3, <2>4, <2>5
<1>6. CASE WriteExec(t)
  <2>1. StepOf(t)
    BY <1>6, ThreadFacts DEF WriteExec, StepOf, Moves, Goto, GoHome, Home, HoldInv,
      PcOK, PlacesOK,
      HoldLabels, RequestLabels, MainLabels, PipeLabels, WriteLabels, ExitLabels
  <2>2. PcOK' /\ HoldInv' /\ RequestInv' /\ writeReq' \in [Workers -> Nat]
    BY <2>1, ThreadStep, ThreadFacts
  <2>3. PlacesOK'
    BY <1>6, ThreadFacts DEF WriteExec, GoHome, HoldInv, HoldLabels, PlacesOK
  <2>4. CountersOK'
    BY <1>6, <2>2, EndFacts, ThreadFacts DEF WriteExec, GoHome, CountersOK, Fates
  <2>5. FlagsOK'
    BY <1>6, EndFacts, ThreadFacts, ConstantsAssumption DEF WriteExec, FlagsOK, Fates
  <2>6. QED
    BY <2>2, <2>3, <2>4, <2>5
<1>7. CASE WriteDec(t)
  <2>1. StepOf(t)
    BY <1>7, ThreadFacts DEF WriteDec, StepOf, Moves, Goto, GoHome, Home, HoldInv,
      PcOK, PlacesOK,
      HoldLabels, RequestLabels, MainLabels, PipeLabels, WriteLabels, ExitLabels
  <2>2. PcOK' /\ HoldInv' /\ RequestInv' /\ writeReq' \in [Workers -> Nat]
    BY <2>1, ThreadStep, ThreadFacts
  <2>3. PlacesOK'
    BY <1>7, ThreadFacts DEF WriteDec, GoHome, HoldInv, HoldLabels, PlacesOK
  <2>4. CountersOK'
    BY <1>7, <2>2, EndFacts, ThreadFacts DEF WriteDec, GoHome, CountersOK, Fates
  <2>5. FlagsOK'
    BY <1>7, EndFacts, ThreadFacts, ConstantsAssumption DEF WriteDec, FlagsOK, Fates
  <2>6. QED
    BY <2>2, <2>3, <2>4, <2>5
<1>8. CASE StoreRead(t)
  <2>1. StepOf(t)
    BY <1>8, ThreadFacts, ZenonT(40) DEF StoreRead, StepOf, Moves, Goto, GoHome, Home, HoldInv, PcOK,
      PlacesOK, HoldLabels, RequestLabels, MainLabels, PipeLabels, WriteLabels, ExitLabels
  <2>2. PcOK' /\ HoldInv' /\ RequestInv' /\ writeReq' \in [Workers -> Nat]
    BY <2>1, ThreadStep, ThreadFacts
  <2>3. PlacesOK'
    BY <1>8, ThreadFacts DEF StoreRead, Contest, GoHome, HoldInv, HoldLabels, PlacesOK
  <2>4. CountersOK'
    BY <1>8, <2>2, EndFacts, ThreadFacts DEF StoreRead, GoHome, CountersOK, Fates
  <2>5. FlagsOK'
    BY <1>8, EndFacts, ThreadFacts, ConstantsAssumption DEF StoreRead, FlagsOK, Fates
  <2>6. QED
    BY <2>2, <2>3, <2>4, <2>5
<1>9. CASE StoreNew(t)
  <2>1. StepOf(t)
    BY <1>9, ThreadFacts, ZenonT(40) DEF StoreNew, StepOf, Moves, Goto, GoHome, Home, HoldInv, PcOK,
      PlacesOK, HoldLabels, RequestLabels, MainLabels, PipeLabels, WriteLabels, ExitLabels
  <2>2. PcOK' /\ HoldInv' /\ RequestInv' /\ writeReq' \in [Workers -> Nat]
    BY <2>1, ThreadStep, ThreadFacts
  <2>3. PlacesOK'
    BY <1>9, ThreadFacts DEF StoreNew, Contest, GoHome, HoldInv, HoldLabels, PlacesOK
  <2>4. CountersOK'
    BY <1>9, <2>2, EndFacts, ThreadFacts DEF StoreNew, GoHome, CountersOK, Fates
  <2>5. FlagsOK'
    BY <1>9, EndFacts, ThreadFacts, ConstantsAssumption DEF StoreNew, FlagsOK, Fates
  <2>6. QED
    BY <2>2, <2>3, <2>4, <2>5
<1>10. QED
  BY <1>1, <1>2, <1>3, <1>4, <1>5, <1>6, <1>7, <1>8, <1>9 DEF ExecWrite

\* The main loop preserves TypeInv.
LEMMA TypeMainLoop ==
    ASSUME TypeInv, NEW w \in Workers, MainLoop(w)
    PROVE  TypeInv'
<1> USE DEF TypeInv, TypeOK, threads, stored, reads, lock, stopping, switch, outcome
<1>1. ASSUME NEW j \in Jobs, NextJob(w, j) PROVE TypeInv'
  <2>1. StepOf(Main(w))
    BY <1>1, ThreadFacts, ZenonT(40)
      DEF NextJob, StepOf, Moves, Goto, GoHome, Home, HoldInv, PcOK, PlacesOK,
      HoldLabels, RequestLabels, MainLabels, PipeLabels, WriteLabels, ExitLabels
  <2>2. PcOK' /\ HoldInv' /\ RequestInv' /\ writeReq' \in [Workers -> Nat]
    BY <2>1, ThreadStep, ThreadFacts
  <2>3. PlacesOK'
    BY <1>1, ThreadFacts DEF NextJob, GoHome, HoldInv, HoldLabels, PlacesOK
  <2>4. CountersOK'
    BY <1>1, <2>2, EndFacts, ThreadFacts DEF NextJob, GoHome, CountersOK, Fates
  <2>5. FlagsOK'
    BY <1>1, EndFacts, ThreadFacts, ConstantsAssumption DEF NextJob, FlagsOK, Fates
  <2>6. QED
    BY <2>2, <2>3, <2>4, <2>5
<1>2. CASE LoadMode(w)
  <2>1. StepOf(Main(w))
    BY <1>2, ThreadFacts DEF LoadMode, StepOf, Moves, Goto, GoHome, Home, HoldInv, PcOK, PlacesOK,
      HoldLabels, RequestLabels, MainLabels, PipeLabels, WriteLabels, ExitLabels
  <2>2. PcOK' /\ HoldInv' /\ RequestInv' /\ writeReq' \in [Workers -> Nat]
    BY <2>1, ThreadStep, ThreadFacts
  <2>3. PlacesOK'
    BY <1>2, ThreadFacts DEF LoadMode, GoHome, HoldInv, HoldLabels, PlacesOK
  <2>4. CountersOK'
    BY <1>2, <2>2, EndFacts, ThreadFacts DEF LoadMode, GoHome, CountersOK, Fates
  <2>5. FlagsOK'
    BY <1>2, EndFacts, ThreadFacts, ConstantsAssumption DEF LoadMode, FlagsOK, Fates
  <2>6. QED
    BY <2>2, <2>3, <2>4, <2>5
<1>3. CASE SerialExec(w)
  <2>1. StepOf(Main(w))
    BY <1>3, ThreadFacts, ZenonT(40)
      DEF SerialExec, StepOf, Moves, Goto, GoHome, Home, HoldInv, PcOK, PlacesOK,
      HoldLabels, RequestLabels, MainLabels, PipeLabels, WriteLabels, ExitLabels
  <2>2. PcOK' /\ HoldInv' /\ RequestInv' /\ writeReq' \in [Workers -> Nat]
    BY <2>1, ThreadStep, ThreadFacts
  <2>3. PlacesOK'
    BY <1>3, ThreadFacts DEF SerialExec, GoHome, HoldInv, HoldLabels, PlacesOK
  <2>4. CountersOK'
    BY <1>3, <2>2, EndFacts, ThreadFacts DEF SerialExec, GoHome, CountersOK, Fates
  <2>5. FlagsOK'
    BY <1>3, EndFacts, ThreadFacts, ConstantsAssumption DEF SerialExec, FlagsOK, Fates
  <2>6. QED
    BY <2>2, <2>3, <2>4, <2>5
<1>4. CASE ExecWithRW(w)
  <2>1. StepOf(Main(w))
    BY <1>4, ThreadFacts DEF ExecWithRW, StepOf, Moves, Goto, GoHome, Home, HoldInv, PcOK, PlacesOK,
      HoldLabels, RequestLabels, MainLabels, PipeLabels, WriteLabels, ExitLabels
  <2>2. PcOK' /\ HoldInv' /\ RequestInv' /\ writeReq' \in [Workers -> Nat]
    BY <2>1, ThreadStep, ThreadFacts
  <2>3. PlacesOK'
    BY <1>4, ThreadFacts DEF ExecWithRW, GoHome, HoldInv, HoldLabels, PlacesOK
  <2>4. CountersOK'
    BY <1>4, <2>2, EndFacts, ThreadFacts DEF ExecWithRW, GoHome, CountersOK, Fates
  <2>5. FlagsOK'
    BY <1>4, EndFacts, ThreadFacts, ConstantsAssumption DEF ExecWithRW, FlagsOK, Fates
  <2>6. QED
    BY <2>2, <2>3, <2>4, <2>5
<1>5. CASE DispatchRead(w)
  <2>1. StepOf(Main(w))
    BY <1>5, ThreadFacts DEF DispatchRead, StepOf, Moves, Goto, GoHome, Home, HoldInv, PcOK,
      PlacesOK,
      HoldLabels, RequestLabels, MainLabels, PipeLabels, WriteLabels, ExitLabels
  <2>2. PcOK' /\ HoldInv' /\ RequestInv' /\ writeReq' \in [Workers -> Nat]
    BY <2>1, ThreadStep, ThreadFacts
  <2>3. PlacesOK'
    BY <1>5, ThreadFacts DEF DispatchRead, GoHome, HoldInv, HoldLabels, PlacesOK
  <2>4. CountersOK'
    BY <1>5, <2>2, EndFacts, ThreadFacts DEF DispatchRead, GoHome, CountersOK, Fates
  <2>5. FlagsOK'
    BY <1>5, EndFacts, ThreadFacts, ConstantsAssumption DEF DispatchRead, FlagsOK, Fates
  <2>6. QED
    BY <2>2, <2>3, <2>4, <2>5
<1>6. CASE SendRead(w)
  <2>1. StepOf(Main(w))
    BY <1>6, ThreadFacts, ZenonT(40)
      DEF SendRead, StepOf, Moves, Goto, GoHome, Home, HoldInv, PcOK, PlacesOK,
      HoldLabels, RequestLabels, MainLabels, PipeLabels, WriteLabels, ExitLabels
  <2>2. PcOK' /\ HoldInv' /\ RequestInv' /\ writeReq' \in [Workers -> Nat]
    BY <2>1, ThreadStep, ThreadFacts
  <2>3. job[Main(w)] \in Jobs /\ readCh[w] \in Seq(Jobs)
    BY <1>6, ThreadFacts DEF SendRead, HoldInv, HoldLabels, PlacesOK
  <2>4. PlacesOK' /\ CountersOK'
    <3>1. job' \in [Threads -> Jobs \cup {NoJob}] /\ target' \in [Threads -> Nat]
      BY <1>6 DEF SendRead, GoHome, PlacesOK, CountersOK
    <3>2. CASE Len(readCh[w]) < ReadChCap
      <4>1. readCh' \in [Workers -> Seq(Jobs)]
        <5>1. readCh' = [readCh EXCEPT ![w] = Append(readCh[w], job[Main(w)])]
          BY <1>6, <3>2 DEF SendRead
        <5>2. Append(readCh[w], job[Main(w)]) \in Seq(Jobs)
          BY <2>3
        <5>3. QED
          BY <5>1, <5>2 DEF PlacesOK
      <4>2. QED
        BY <1>6, <3>1, <3>2, <4>1 DEF SendRead, PlacesOK, CountersOK
    <3>3. CASE ~(Len(readCh[w]) < ReadChCap)
      <4>1. ends' \in [Jobs -> Nat]
        BY <1>6, <3>3, EndFacts DEF SendRead, Fates
      <4>2. launched' \in [Workers -> Nat]
        <5>1. launched' = [launched EXCEPT ![w] = @ + 1]
          BY <1>6, <3>3 DEF SendRead
        <5>2. QED
          BY <5>1 DEF CountersOK
      <4>3. QED
        BY <1>6, <3>1, <3>3, <4>1, <4>2 DEF SendRead, PlacesOK, CountersOK
    <3>4. QED
      BY <3>2, <3>3
  <2>5. FlagsOK'
    BY <1>6, EndFacts, ThreadFacts, ConstantsAssumption DEF SendRead, FlagsOK, Fates
  <2>6. QED
    BY <2>2, <2>4, <2>5
<1>7. CASE ExecWrite(Main(w))
  BY <1>7, TypeExecWrite, ThreadFacts
<1>8. QED
  BY <1>1, <1>2, <1>3, <1>4, <1>5, <1>6, <1>7 DEF MainLoop

\* The read pipeline preserves TypeInv.
LEMMA TypePipeline ==
    ASSUME TypeInv, NEW w \in Workers, Pipeline(w)
    PROVE  TypeInv'
<1> USE DEF TypeInv, TypeOK, threads, stored, reads, lock, stopping, switch, outcome
<1>1. CASE PipeRecv(w)
  <2>1. StepOf(Pipe(w))
    BY <1>1, ThreadFacts DEF PipeRecv, StepOf, Moves, Goto, GoHome, Home, HoldInv, PcOK, PlacesOK,
      HoldLabels, RequestLabels, MainLabels, PipeLabels, WriteLabels, ExitLabels
  <2>2. PcOK' /\ HoldInv' /\ RequestInv' /\ writeReq' \in [Workers -> Nat]
    BY <2>1, ThreadStep, ThreadFacts
  <2>3. PlacesOK'
    <3>1. CASE readCh[w] # <<>>
      <4>1. readCh[w] \in Seq(Jobs)
        BY DEF PlacesOK
      <4>2. Head(readCh[w]) \in Jobs /\ Tail(readCh[w]) \in Seq(Jobs)
        BY <3>1, <4>1
      <4>3. QED
        BY <1>1, <3>1, <4>2 DEF PipeRecv, PlacesOK
    <3>2. CASE readCh[w] = <<>>
      BY <1>1, <3>2 DEF PipeRecv, PlacesOK
    <3>3. QED
      BY <3>1, <3>2
  <2>4. CountersOK'
    BY <1>1, <2>2, EndFacts, ThreadFacts DEF PipeRecv, GoHome, CountersOK, Fates
  <2>5. FlagsOK'
    BY <1>1, EndFacts, ThreadFacts, ConstantsAssumption DEF PipeRecv, FlagsOK, Fates
  <2>6. QED
    BY <2>2, <2>3, <2>4, <2>5
<1>2. CASE LaunchGate(w)
  <2>1. StepOf(Pipe(w))
    BY <1>2, ThreadFacts DEF LaunchGate, StepOf, Moves, Goto, GoHome, Home, HoldInv, PcOK, PlacesOK,
      HoldLabels, RequestLabels, MainLabels, PipeLabels, WriteLabels, ExitLabels
  <2>2. PcOK' /\ HoldInv' /\ RequestInv' /\ writeReq' \in [Workers -> Nat]
    BY <2>1, ThreadStep, ThreadFacts
  <2>3. PlacesOK'
    BY <1>2, ThreadFacts DEF LaunchGate, GoHome, HoldInv, HoldLabels, PlacesOK
  <2>4. CountersOK'
    BY <1>2, <2>2, EndFacts, ThreadFacts DEF LaunchGate, GoHome, CountersOK, Fates
  <2>5. FlagsOK'
    BY <1>2, EndFacts, ThreadFacts, ConstantsAssumption DEF LaunchGate, FlagsOK, Fates
  <2>6. QED
    BY <2>2, <2>3, <2>4, <2>5
<1>3. CASE LaunchToken(w)
  <2>1. StepOf(Pipe(w))
    BY <1>3, ThreadFacts DEF LaunchToken, StepOf, Moves, Goto, GoHome, Home, HoldInv, PcOK,
      PlacesOK,
      HoldLabels, RequestLabels, MainLabels, PipeLabels, WriteLabels, ExitLabels
  <2>2. PcOK' /\ HoldInv' /\ RequestInv' /\ writeReq' \in [Workers -> Nat]
    BY <2>1, ThreadStep, ThreadFacts
  <2>3. PlacesOK'
    BY <1>3, ThreadFacts DEF LaunchToken, GoHome, HoldInv, HoldLabels, PlacesOK
  <2>4. CountersOK'
    BY <1>3, <2>2, EndFacts, ThreadFacts DEF LaunchToken, GoHome, CountersOK, Fates
  <2>5. FlagsOK'
    BY <1>3, EndFacts, ThreadFacts, ConstantsAssumption DEF LaunchToken, FlagsOK, Fates
  <2>6. QED
    BY <2>2, <2>3, <2>4, <2>5
<1>4. CASE PipeRLock(w)
  <2>1. StepOf(Pipe(w))
    BY <1>4, ThreadFacts DEF PipeRLock, StepOf, Moves, Goto, GoHome, Home, HoldInv, PcOK, PlacesOK,
      HoldLabels, RequestLabels, MainLabels, PipeLabels, WriteLabels, ExitLabels
  <2>2. PcOK' /\ HoldInv' /\ RequestInv' /\ writeReq' \in [Workers -> Nat]
    BY <2>1, ThreadStep, ThreadFacts
  <2>3. PlacesOK'
    BY <1>4, ThreadFacts DEF PipeRLock, GoHome, HoldInv, HoldLabels, PlacesOK
  <2>4. CountersOK'
    BY <1>4, <2>2, EndFacts, ThreadFacts DEF PipeRLock, GoHome, CountersOK, Fates
  <2>5. FlagsOK'
    BY <1>4, EndFacts, ThreadFacts, ConstantsAssumption DEF PipeRLock, FlagsOK, Fates
  <2>6. QED
    BY <2>2, <2>3, <2>4, <2>5
<1>5. CASE LaunchRead(w)
  <2>1. StepOf(Pipe(w))
    BY <1>5, ThreadFacts DEF LaunchRead, StepOf, Moves, Goto, GoHome, Home, HoldInv, PcOK, PlacesOK,
      HoldLabels, RequestLabels, MainLabels, PipeLabels, WriteLabels, ExitLabels
  <2>2. PcOK' /\ HoldInv' /\ RequestInv' /\ writeReq' \in [Workers -> Nat]
    BY <2>1, ThreadStep, ThreadFacts
  <2>3. PlacesOK'
    <3>1. job[Pipe(w)] \in Jobs
      BY <1>5, ThreadFacts DEF LaunchRead, HoldInv, HoldLabels
    <3>2. CASE enabled
      <4>1. inflight' = [inflight EXCEPT ![w] = @ \cup {job[Pipe(w)]}]
        BY <1>5, <3>2 DEF LaunchRead
      <4>2. inflight' \in [Workers -> SUBSET Jobs]
        BY <3>1, <4>1 DEF PlacesOK
      <4>3. QED
        BY <1>5, <3>2, <4>2 DEF LaunchRead, GoHome, PlacesOK
    <3>3. CASE ~enabled
      BY <1>5, <3>1, <3>3 DEF LaunchRead, PlacesOK
    <3>4. QED
      BY <3>2, <3>3
  <2>4. CountersOK'
    BY <1>5, <2>2, EndFacts, ThreadFacts DEF LaunchRead, GoHome, CountersOK, Fates
  <2>5. FlagsOK'
    BY <1>5, EndFacts, ThreadFacts, ConstantsAssumption DEF LaunchRead, FlagsOK, Fates
  <2>6. QED
    BY <2>2, <2>3, <2>4, <2>5
<1>6. CASE ExecWrite(Pipe(w))
  BY <1>6, TypeExecWrite, ThreadFacts
<1>7. QED
  BY <1>1, <1>2, <1>3, <1>4, <1>5, <1>6 DEF Pipeline

\* The read goroutines preserve TypeInv.
LEMMA TypeReader ==
    ASSUME TypeInv, NEW w \in Workers, NEW j \in Jobs, Reader(w, j)
    PROVE  TypeInv'
<1> USE DEF TypeInv, TypeOK, threads, stored, reads, lock, stopping, switch, outcome
<1>1. CASE ReadExec(w, j)
  <2>1. PcOK' /\ HoldInv' /\ RequestInv'
    BY <1>1 DEF ReadExec, PcOK, HoldInv, RequestInv, Requests
  <2>2. PlacesOK' /\ CountersOK' /\ FlagsOK'
    BY <1>1, EndFacts DEF ReadExec, PlacesOK, CountersOK, FlagsOK, Fates
  <2>3. QED
    BY <2>1, <2>2
<1>2. CASE ReadDone(w, j)
  <2>1. PcOK' /\ HoldInv' /\ RequestInv'
    BY <1>2 DEF ReadDone, PcOK, HoldInv, RequestInv, Requests
  <2>2. PlacesOK' /\ CountersOK' /\ FlagsOK'
    BY <1>2, EndFacts DEF ReadDone, PlacesOK, CountersOK, FlagsOK, Fates
  <2>3. QED
    BY <2>1, <2>2
<1>3. QED
  BY <1>1, <1>2 DEF Reader

\* The deferred function of run preserves TypeInv.
LEMMA TypeExit ==
    ASSUME TypeInv, NEW w \in Workers, Exit(w)
    PROVE  TypeInv'
<1> USE DEF TypeInv, TypeOK, threads, stored, reads, lock, stopping, switch, outcome
<1>1. CASE CloseReadCh(w)
  <2>1. StepOf(Main(w))
    BY <1>1, ThreadFacts DEF CloseReadCh, StepOf, Moves, Goto, GoHome, Home, HoldInv, PcOK,
      PlacesOK,
      HoldLabels, RequestLabels, MainLabels, PipeLabels, WriteLabels, ExitLabels
  <2>2. PcOK' /\ HoldInv' /\ RequestInv' /\ writeReq' \in [Workers -> Nat]
    BY <2>1, ThreadStep, ThreadFacts
  <2>3. PlacesOK'
    BY <1>1, ThreadFacts DEF CloseReadCh, GoHome, HoldInv, HoldLabels, PlacesOK
  <2>4. CountersOK'
    BY <1>1, <2>2, EndFacts, ThreadFacts DEF CloseReadCh, GoHome, CountersOK, Fates
  <2>5. FlagsOK'
    BY <1>1, EndFacts, ThreadFacts, ConstantsAssumption DEF CloseReadCh, FlagsOK, Fates
  <2>6. QED
    BY <2>2, <2>3, <2>4, <2>5
<1>2. CASE WaitPipeline(w)
  <2>1. StepOf(Main(w))
    BY <1>2, ThreadFacts DEF WaitPipeline, StepOf, Moves, Goto, GoHome, Home, HoldInv, PcOK,
      PlacesOK,
      HoldLabels, RequestLabels, MainLabels, PipeLabels, WriteLabels, ExitLabels
  <2>2. PcOK' /\ HoldInv' /\ RequestInv' /\ writeReq' \in [Workers -> Nat]
    BY <2>1, ThreadStep, ThreadFacts
  <2>3. PlacesOK'
    BY <1>2, ThreadFacts DEF WaitPipeline, GoHome, HoldInv, HoldLabels, PlacesOK
  <2>4. CountersOK'
    BY <1>2, <2>2, EndFacts, ThreadFacts DEF WaitPipeline, GoHome, CountersOK, Fates
  <2>5. FlagsOK'
    <3>1. timedOut' = timedOut \/ timedOut' = [timedOut EXCEPT ![w] = TRUE]
      BY <1>2 DEF WaitPipeline
    <3>2. timedOut' \in [Workers -> BOOLEAN]
      BY <3>1 DEF FlagsOK
    <3>3. QED
      BY <1>2, <3>2 DEF WaitPipeline, FlagsOK
  <2>6. QED
    BY <2>2, <2>3, <2>4, <2>5
<1>3. CASE WaitReadsMode(w)
  <2>1. StepOf(Main(w))
    BY <1>3, ThreadFacts DEF WaitReadsMode, StepOf, Moves, Goto, GoHome, Home, HoldInv, PcOK,
      PlacesOK,
      HoldLabels, RequestLabels, MainLabels, PipeLabels, WriteLabels, ExitLabels
  <2>2. PcOK' /\ HoldInv' /\ RequestInv' /\ writeReq' \in [Workers -> Nat]
    BY <2>1, ThreadStep, ThreadFacts
  <2>3. PlacesOK'
    BY <1>3, ThreadFacts DEF WaitReadsMode, GoHome, HoldInv, HoldLabels, PlacesOK
  <2>4. CountersOK'
    BY <1>3, <2>2, EndFacts, ThreadFacts DEF WaitReadsMode, GoHome, CountersOK, Fates
  <2>5. FlagsOK'
    BY <1>3, EndFacts, ThreadFacts, ConstantsAssumption DEF WaitReadsMode, FlagsOK, Fates
  <2>6. QED
    BY <2>2, <2>3, <2>4, <2>5
<1>4. CASE WaitReads(w)
  <2>1. StepOf(Main(w))
    BY <1>4, ThreadFacts, ZenonT(40)
      DEF WaitReads, StepOf, Moves, Goto, GoHome, Home, HoldInv, PcOK, PlacesOK,
      HoldLabels, RequestLabels, MainLabels, PipeLabels, WriteLabels, ExitLabels
  <2>2. PcOK' /\ HoldInv' /\ RequestInv' /\ writeReq' \in [Workers -> Nat]
    BY <2>1, ThreadStep, ThreadFacts
  <2>3. PlacesOK'
    BY <1>4, ThreadFacts DEF WaitReads, GoHome, HoldInv, HoldLabels, PlacesOK
  <2>4. CountersOK'
    BY <1>4, <2>2, EndFacts, ThreadFacts DEF WaitReads, GoHome, CountersOK, Fates
  <2>5. FlagsOK'
    <3>1. timedOut' = timedOut \/ timedOut' = [timedOut EXCEPT ![w] = TRUE]
      BY <1>4 DEF WaitReads
    <3>2. timedOut' \in [Workers -> BOOLEAN]
      BY <3>1 DEF FlagsOK
    <3>3. QED
      BY <1>4, <3>2 DEF WaitReads, FlagsOK
  <2>6. QED
    BY <2>2, <2>3, <2>4, <2>5
<1>5. CASE DecideDrain(w)
  <2>1. StepOf(Main(w))
    BY <1>5, ThreadFacts DEF DecideDrain, StepOf, Moves, Goto, GoHome, Home, HoldInv, PcOK,
      PlacesOK,
      HoldLabels, RequestLabels, MainLabels, PipeLabels, WriteLabels, ExitLabels
  <2>2. PcOK' /\ HoldInv' /\ RequestInv' /\ writeReq' \in [Workers -> Nat]
    BY <2>1, ThreadStep, ThreadFacts
  <2>3. PlacesOK'
    BY <1>5, ThreadFacts DEF DecideDrain, GoHome, HoldInv, HoldLabels, PlacesOK
  <2>4. CountersOK'
    BY <1>5, <2>2, EndFacts, ThreadFacts DEF DecideDrain, GoHome, CountersOK, Fates
  <2>5. FlagsOK'
    BY <1>5, EndFacts, ThreadFacts, ConstantsAssumption DEF DecideDrain, FlagsOK, Fates
  <2>6. QED
    BY <2>2, <2>3, <2>4, <2>5
<1>6. CASE DrainLock(w)
  <2>1. StepOf(Main(w))
    BY <1>6, ThreadFacts DEF DrainLock, StepOf, Moves, Goto, GoHome, Home, HoldInv, PcOK, PlacesOK,
      HoldLabels, RequestLabels, MainLabels, PipeLabels, WriteLabels, ExitLabels
  <2>2. PcOK' /\ HoldInv' /\ RequestInv' /\ writeReq' \in [Workers -> Nat]
    BY <2>1, ThreadStep, ThreadFacts
  <2>3. PlacesOK'
    BY <1>6, ThreadFacts DEF DrainLock, GoHome, HoldInv, HoldLabels, PlacesOK
  <2>4. CountersOK'
    BY <1>6, <2>2, EndFacts, ThreadFacts DEF DrainLock, GoHome, CountersOK, Fates
  <2>5. FlagsOK'
    BY <1>6, EndFacts, ThreadFacts, ConstantsAssumption DEF DrainLock, FlagsOK, Fates
  <2>6. QED
    BY <2>2, <2>3, <2>4, <2>5
<1>7. CASE DrainExec(w)
  <2>1. StepOf(Main(w))
    BY <1>7, ThreadFacts, ZenonT(40)
      DEF DrainExec, StepOf, Moves, Goto, GoHome, Home, HoldInv, PcOK, PlacesOK,
      HoldLabels, RequestLabels, MainLabels, PipeLabels, WriteLabels, ExitLabels
  <2>2. PcOK' /\ HoldInv' /\ RequestInv' /\ writeReq' \in [Workers -> Nat]
    BY <2>1, ThreadStep, ThreadFacts
  <2>3. PlacesOK'
    BY <1>7, ThreadFacts DEF DrainExec, GoHome, HoldInv, HoldLabels, PlacesOK
  <2>4. CountersOK'
    BY <1>7, <2>2, EndFacts, ThreadFacts DEF DrainExec, GoHome, CountersOK, Fates
  <2>5. FlagsOK'
    BY <1>7, EndFacts, ThreadFacts, ConstantsAssumption DEF DrainExec, FlagsOK, Fates
  <2>6. QED
    BY <2>2, <2>3, <2>4, <2>5
<1>8. CASE DrainDone(w)
  <2>1. StepOf(Main(w))
    BY <1>8, ThreadFacts DEF DrainDone, StepOf, Moves, Goto, GoHome, Home, HoldInv, PcOK, PlacesOK,
      HoldLabels, RequestLabels, MainLabels, PipeLabels, WriteLabels, ExitLabels
  <2>2. PcOK' /\ HoldInv' /\ RequestInv' /\ writeReq' \in [Workers -> Nat]
    BY <2>1, ThreadStep, ThreadFacts
  <2>3. PlacesOK'
    BY <1>8, ThreadFacts DEF DrainDone, GoHome, HoldInv, HoldLabels, PlacesOK
  <2>4. CountersOK'
    BY <1>8, <2>2, EndFacts, ThreadFacts DEF DrainDone, GoHome, CountersOK, Fates
  <2>5. FlagsOK'
    BY <1>8, EndFacts, ThreadFacts, ConstantsAssumption DEF DrainDone, FlagsOK, Fates
  <2>6. QED
    BY <2>2, <2>3, <2>4, <2>5
<1>9. ASSUME NEW j \in Jobs, DrainNext(w, j) PROVE TypeInv'
  <2>1. StepOf(Main(w))
    BY <1>9, ThreadFacts DEF DrainNext, Drain, StepOf, Moves, Goto, HoldInv, PcOK, PlacesOK,
      HoldLabels, RequestLabels, MainLabels, PipeLabels, WriteLabels, ExitLabels
  <2>2. PcOK' /\ HoldInv' /\ RequestInv' /\ writeReq' \in [Workers -> Nat]
    BY <2>1, ThreadStep, ThreadFacts
  <2>3. PlacesOK'
    BY <1>9 DEF DrainNext, Drain, PlacesOK
  <2>4. CountersOK'
    BY <1>9, <2>2, EndFacts, ThreadFacts DEF DrainNext, Drain, CountersOK, Fates
  <2>5. FlagsOK'
    BY <1>9, EndFacts, ThreadFacts, ConstantsAssumption DEF DrainNext, Drain, FlagsOK, Fates
  <2>6. QED
    BY <2>2, <2>3, <2>4, <2>5
<1>10. CASE DrainPending(w)
  <2>1. StepOf(Main(w))
    BY <1>10, ThreadFacts DEF DrainPending, Drain, StepOf, Moves, Goto, HoldInv, PcOK, PlacesOK,
      HoldLabels, RequestLabels, MainLabels, PipeLabels, WriteLabels, ExitLabels
  <2>2. PcOK' /\ HoldInv' /\ RequestInv' /\ writeReq' \in [Workers -> Nat]
    BY <2>1, ThreadStep, ThreadFacts
  <2>3. PlacesOK'
    BY <1>10 DEF DrainPending, Drain, Contest, PlacesOK
  <2>4. CountersOK'
    BY <1>10, <2>2, EndFacts, ThreadFacts DEF DrainPending, Drain, CountersOK, Fates
  <2>5. FlagsOK'
    BY <1>10, EndFacts, ThreadFacts, ConstantsAssumption DEF DrainPending, Drain, FlagsOK, Fates
  <2>6. QED
    BY <2>2, <2>3, <2>4, <2>5
<1>11. CASE DrainClear(w)
  <2>1. StepOf(Main(w))
    BY <1>11, ThreadFacts DEF DrainClear, StepOf, Moves, Goto, HoldInv, PcOK, PlacesOK,
      HoldLabels, RequestLabels, MainLabels, PipeLabels, WriteLabels, ExitLabels
  <2>2. PcOK' /\ HoldInv' /\ RequestInv' /\ writeReq' \in [Workers -> Nat]
    BY <2>1, ThreadStep, ThreadFacts
  <2>3. PlacesOK' /\ FlagsOK'
    BY <1>11 DEF DrainClear, PlacesOK, FlagsOK
  <2>4. CountersOK'
    BY <1>11, <2>2 DEF DrainClear, CountersOK
  <2>5. QED
    BY <2>2, <2>3, <2>4
<1>12. QED
  BY <1>1, <1>2, <1>3, <1>4, <1>5, <1>6, <1>7, <1>8, <1>9, <1>10, <1>11 DEF Exit

\* SetRWEnabled(false) preserves TypeInv.
LEMMA TypeSwitch ==
    ASSUME TypeInv, SetRWEnabledFalse
    PROVE  TypeInv'
<1> USE DEF TypeInv, TypeOK, threads, stored, reads, lock, stopping, switch, outcome
<1>1. CASE BeginDisable
  <2>1. PcOK' /\ HoldInv' /\ RequestInv'
    BY <1>1 DEF BeginDisable, SwitchStep, PcOK, HoldInv, RequestInv, Requests
  <2>2. PlacesOK' /\ CountersOK' /\ FlagsOK'
    BY <1>1, EndFacts DEF BeginDisable, SwitchStep, PlacesOK, CountersOK, FlagsOK, Fates
  <2>3. QED
    BY <2>1, <2>2
<1>2. CASE ScanPipelines
  <2>1. PcOK' /\ HoldInv' /\ RequestInv'
    BY <1>2 DEF ScanPipelines, SwitchStep, PcOK, HoldInv, RequestInv, Requests
  <2>2. PlacesOK' /\ CountersOK' /\ FlagsOK'
    BY <1>2, EndFacts DEF ScanPipelines, SwitchStep, PlacesOK, CountersOK, FlagsOK, Fates
  <2>3. QED
    BY <2>1, <2>2
<1>3. CASE DisableRW
  <2>1. PcOK' /\ HoldInv' /\ RequestInv'
    BY <1>3 DEF DisableRW, SwitchStep, PcOK, HoldInv, RequestInv, Requests
  <2>2. PlacesOK' /\ CountersOK' /\ FlagsOK'
    BY <1>3, EndFacts DEF DisableRW, SwitchStep, PlacesOK, CountersOK, FlagsOK, Fates
  <2>3. QED
    BY <2>1, <2>2
<1>4. CASE DisableTimeout
  <2>1. PcOK' /\ HoldInv' /\ RequestInv'
    BY <1>4 DEF DisableTimeout, SwitchStep, PcOK, HoldInv, RequestInv, Requests
  <2>2. PlacesOK' /\ CountersOK' /\ FlagsOK'
    BY <1>4, EndFacts DEF DisableTimeout, SwitchStep, PlacesOK, CountersOK, FlagsOK, Fates
  <2>3. QED
    BY <2>1, <2>2
<1>5. CASE ScanInflight
  <2>1. PcOK' /\ HoldInv' /\ RequestInv'
    BY <1>5 DEF ScanInflight, SwitchStep, PcOK, HoldInv, RequestInv, Requests
  <2>2. PlacesOK' /\ CountersOK' /\ FlagsOK'
    BY <1>5, EndFacts DEF ScanInflight, SwitchStep, PlacesOK, CountersOK, FlagsOK, Fates
  <2>3. QED
    BY <2>1, <2>2
<1>6. CASE InflightTimeout
  <2>1. PcOK' /\ HoldInv' /\ RequestInv'
    BY <1>6 DEF InflightTimeout, SwitchStep, PcOK, HoldInv, RequestInv, Requests
  <2>2. PlacesOK' /\ CountersOK' /\ FlagsOK'
    BY <1>6, EndFacts DEF InflightTimeout, SwitchStep, PlacesOK, CountersOK, FlagsOK, Fates
  <2>3. QED
    BY <2>1, <2>2
<1>7. CASE EndDisable
  <2>1. PcOK' /\ HoldInv' /\ RequestInv'
    BY <1>7 DEF EndDisable, SwitchStep, PcOK, HoldInv, RequestInv, Requests
  <2>2. PlacesOK' /\ CountersOK' /\ FlagsOK'
    BY <1>7, EndFacts DEF EndDisable, SwitchStep, PlacesOK, CountersOK, FlagsOK, Fates
  <2>3. QED
    BY <2>1, <2>2
<1>8. QED
  BY <1>1, <1>2, <1>3, <1>4, <1>5, <1>6, <1>7 DEF SetRWEnabledFalse

\* Every step preserves TypeInv.
LEMMA TypeNext == TypeInv /\ [Next]_vars => TypeInv'
<1> SUFFICES ASSUME TypeInv, [Next]_vars PROVE TypeInv'
  OBVIOUS
<1>1. ASSUME NEW j \in Jobs, SubmitJob(j) PROVE TypeInv'
  <2>1. WorkerOf[j] \in Workers
    BY ConstantsAssumption
  <2>2. QED
    BY <1>1, <2>1, TypeCallers
<1>2. ASSUME NEW w \in Workers, BeginStop(w) \/ StopDeadline(w) PROVE TypeInv'
  BY <1>2, TypeCallers
<1>3. ASSUME NEW w \in Workers, MainLoop(w) PROVE TypeInv'
  BY <1>3, TypeMainLoop
<1>4. ASSUME NEW w \in Workers, Exit(w) PROVE TypeInv'
  BY <1>4, TypeExit
<1>5. ASSUME NEW w \in Workers, Pipeline(w) PROVE TypeInv'
  BY <1>5, TypePipeline
<1>6. ASSUME NEW w \in Workers, NEW j \in Jobs, Reader(w, j) PROVE TypeInv'
  BY <1>6, TypeReader
<1>7. CASE SetRWEnabledFalse
  BY <1>7, TypeSwitch
<1>8. CASE UNCHANGED vars
  BY <1>8 DEF vars, threads, stored, reads, lock, stopping, switch, outcome, TypeInv, TypeOK, PcOK,
    PlacesOK, CountersOK, FlagsOK, HoldInv, RequestInv, Requests
<1>9. QED
  BY <1>1, <1>2, <1>3, <1>4, <1>5, <1>6, <1>7, <1>8 DEF Next, Stopped

\* Every variable of the worker keeps its type; in particular writeRequested
\* (execWrite, worker.go) is never decremented below zero, on any path and
\* with any number of workers, jobs and timeouts.
THEOREM TypeCorrect == Spec => []TypeOK
<1>1. Spec => []TypeInv
  BY TypeInit, TypeNext, PTL DEF Spec
<1>2. TypeInv => TypeOK
  BY DEF TypeInv
<1>3. QED
  BY <1>1, <1>2, PTL

(***************************************************************************)
(* Exclusion.  The write lock excludes readers and belongs to the goroutine *)
(* that executes a write (LockInv).  As long as RW mode has never been     *)
(* switched off no goroutine is on a path that runs a job without the lock *)
(* (ModeInv); and the drain executes jobs only with the lock, because a    *)
(* stop that did not time out has seen the pipeline end, so that nothing   *)
(* can turn up after the drain found no job left (DrainInv).               *)
(***************************************************************************)
LockInv ==
    /\ wlock # NoThread => rlock = {}
    /\ \A t \in Threads : pc[t] = "wexec" => wlock = t

ModeInv ==
    flipped = "never" =>
        /\ enabled
        /\ \A w \in Workers : /\ pc[Main(w)] \notin {"mode2", "exec"}
                              /\ pc[Pipe(w)] \notin WriteLabels

DrainLabels == {"drain", "heldExec", "drainClear", "drainQueue", "drainExec"}

DrainInv ==
    \A w \in Workers :
        /\ pc[Main(w)] \in ExitLabels => state[w] = "closed"
        /\ pc[Main(w)] \in ExitLabels \ {"waitPipe"} => timedOut[w] \/ pc[Pipe(w)] = "done"
        /\ pc[Main(w)] \in DrainLabels => ~timedOut[w] \/ drainMode[w] # "execute"
        /\ pc[Main(w)] \in {"heldExec", "drainExec"} => drainMode[w] = "execute"
        /\ pc[Main(w)] = "lockWait" => ~timedOut[w]

DrainLockInv ==
    flipped = "never" => \A w \in Workers :
        /\ pc[Main(w)] \in {"heldExec", "drainExec"} => wlock = Main(w)
        /\ pc[Main(w)] \in {"drain", "drainClear", "drainQueue"} /\ wlock # Main(w)
              /\ drainMode[w] = "execute" => ~HasResidual(w)

ExclusionInv == TypeInv /\ LockInv /\ ModeInv /\ DrainInv /\ DrainLockInv

\* wlock = NoThread means that nobody holds the write lock.
LEMMA NoThreadFact == NoThread \notin Threads
  BY DEF NoThread, Threads

\* SubmitJob, BeginStop and the stop deadline preserve ExclusionInv.
LEMMA ExclusionCallers ==
    ASSUME ExclusionInv, TypeInv', NEW w \in Workers,
           (\E j \in Jobs : SubmitJob(j)) \/ BeginStop(w) \/ StopDeadline(w)
    PROVE  ExclusionInv'
<1> USE ThreadFacts, NoThreadFact DEF ExclusionInv, TypeInv, TypeOK, PcOK, PlacesOK, FlagsOK,
      threads, stored, reads, lock, stopping, switch, outcome
<1>1. ASSUME NEW j \in Jobs, SubmitJob(j) PROVE ExclusionInv'
  <2>1. UNCHANGED <<pc, pending, rlock, wlock, state, timedOut, drainMode, enabled, flipped>>
    BY <1>1 DEF SubmitJob
  <2>2. \A v \in Workers : state[v] = "closed" => queue'[v] = queue[v]
    BY <1>1 DEF SubmitJob
  <2>3. LockInv' /\ ModeInv' /\ DrainInv'
    BY <2>1 DEF LockInv, ModeInv, DrainInv
  <2>4. DrainLockInv'
    BY <2>1, <2>2 DEF DrainLockInv, DrainInv, HasResidual, ExitLabels, DrainLabels
  <2> QED
    BY <2>3, <2>4
<1>2. CASE BeginStop(w)
  BY <1>2 DEF BeginStop, LockInv, ModeInv, DrainInv, DrainLockInv,
    HasResidual, ExitLabels, WriteLabels, DrainLabels
<1>3. CASE StopDeadline(w)
  BY <1>3 DEF StopDeadline, LockInv, ModeInv, DrainInv, DrainLockInv,
    HasResidual, ExitLabels, WriteLabels, DrainLabels
<1>4. QED
  BY <1>1, <1>2, <1>3

\* The steps of execWrite preserve ExclusionInv, in either goroutine.
LEMMA ExclusionExecWrite ==
    ASSUME ExclusionInv, TypeInv', NEW t \in Threads, ExecWrite(t)
    PROVE  ExclusionInv'
<1> USE ThreadFacts, NoThreadFact DEF ExclusionInv, TypeInv, TypeOK, PcOK, PlacesOK, FlagsOK,
      threads, stored, reads, lock, stopping, switch, outcome
<1>1. CASE WriteTarget(t)
  BY <1>1 DEF WriteTarget, Goto, LockInv, ModeInv, DrainInv, DrainLockInv,
    HasResidual, ExitLabels, WriteLabels, DrainLabels
<1>2. CASE WriteSpin(t)
  BY <1>2 DEF WriteSpin, Goto, LockInv, ModeInv, DrainInv, DrainLockInv,
    HasResidual, ExitLabels, WriteLabels, DrainLabels
<1>3. CASE WriteSpinClosed(t)
  BY <1>3 DEF WriteSpinClosed, Goto, LockInv, ModeInv, DrainInv, DrainLockInv,
    HasResidual, ExitLabels, WriteLabels, DrainLabels
<1>4. CASE WriteTryLock(t)
  BY <1>4 DEF WriteTryLock, Goto, CanTryLock, LockInv, ModeInv, DrainInv, DrainLockInv,
    HasResidual, ExitLabels, WriteLabels, DrainLabels
<1>5. CASE WriteTryClosed(t)
  <2>1. UNCHANGED <<queue, pending, rlock, wlock, state, timedOut, drainMode, enabled, flipped>>
    BY <1>5 DEF WriteTryClosed
  <2>2. PICK l \in {"storeRead", "wtry"} : pc' = [pc EXCEPT ![t] = l]
    BY <1>5 DEF WriteTryClosed, Goto
  <2>3. pc[t] = "wtryClosed"
    BY <1>5 DEF WriteTryClosed
  <2>4. LockInv' /\ ModeInv'
    BY <2>1, <2>2, <2>3 DEF LockInv, ModeInv, WriteLabels
  <2>5. DrainInv'
    BY <2>1, <2>2, <2>3 DEF DrainInv, ExitLabels, DrainLabels
  <2>6. DrainLockInv'
    BY <2>1, <2>2, <2>3 DEF DrainLockInv, HasResidual
  <2> QED
    BY <2>4, <2>5, <2>6
<1>6. CASE WriteExec(t)
  BY <1>6 DEF WriteExec, Goto, LockInv, ModeInv, DrainInv, DrainLockInv,
    HasResidual, ExitLabels, WriteLabels, DrainLabels
<1>7. CASE WriteDec(t)
  BY <1>7 DEF WriteDec, Goto, GoHome, Home, LockInv, ModeInv, DrainInv, DrainLockInv,
    HasResidual, ExitLabels, WriteLabels, DrainLabels
<1>8. CASE StoreRead(t)
  BY <1>8 DEF StoreRead, Goto, LockInv, ModeInv, DrainInv, DrainLockInv,
    HasResidual, ExitLabels, WriteLabels, DrainLabels
<1>9. CASE StoreNew(t)
  <2>1. LockInv' /\ ModeInv' /\ DrainInv'
    BY <1>9 DEF StoreNew, Goto, GoHome, Home, LockInv, ModeInv, DrainInv,
      ExitLabels, WriteLabels, DrainLabels
  <2>2. ASSUME flipped = "never", NEW w \in Workers, pc'[Main(w)] \in DrainLabels
        PROVE  t[1] # w /\ pc'[Main(w)] = pc[Main(w)]
    BY <1>9, <2>2 DEF StoreNew, Goto, GoHome, Home, ModeInv, WriteLabels, DrainLabels
  <2>3. DrainLockInv'
    BY <1>9, <2>2 DEF StoreNew, DrainLockInv, HasResidual, DrainLabels
  <2>4. QED
    BY <2>1, <2>3
<1>10. QED
  BY <1>1, <1>2, <1>3, <1>4, <1>5, <1>6, <1>7, <1>8, <1>9 DEF ExecWrite

\* The main loop preserves ExclusionInv.
LEMMA ExclusionMainLoop ==
    ASSUME ExclusionInv, TypeInv', NEW w \in Workers, MainLoop(w)
    PROVE  ExclusionInv'
<1> USE ThreadFacts, NoThreadFact DEF ExclusionInv, TypeInv, TypeOK, PcOK, PlacesOK, FlagsOK,
      threads, stored, reads, lock, stopping, switch, outcome
<1>1. ASSUME NEW j \in Jobs, NextJob(w, j) PROVE ExclusionInv'
  BY <1>1 DEF NextJob, Goto, LockInv, ModeInv, DrainInv, DrainLockInv,
    HasResidual, ExitLabels, WriteLabels, DrainLabels
<1>2. CASE LoadMode(w)
  BY <1>2 DEF LoadMode, Goto, LockInv, ModeInv, DrainInv, DrainLockInv,
    HasResidual, ExitLabels, WriteLabels, DrainLabels
<1>3. CASE SerialExec(w)
  BY <1>3 DEF SerialExec, Goto, GoHome, Home, LockInv, ModeInv, DrainInv, DrainLockInv,
    HasResidual, ExitLabels, WriteLabels, DrainLabels
<1>4. CASE ExecWithRW(w)
  BY <1>4 DEF ExecWithRW, Goto, LockInv, ModeInv, DrainInv, DrainLockInv,
    HasResidual, ExitLabels, WriteLabels, DrainLabels
<1>5. CASE DispatchRead(w)
  BY <1>5 DEF DispatchRead, Goto, LockInv, ModeInv, DrainInv, DrainLockInv,
    HasResidual, ExitLabels, WriteLabels, DrainLabels
<1>6. CASE SendRead(w)
  BY <1>6 DEF SendRead, Goto, GoHome, Home, LockInv, ModeInv, DrainInv, DrainLockInv,
    HasResidual, ExitLabels, WriteLabels, DrainLabels
<1>7. CASE ExecWrite(Main(w))
  BY <1>7, ExclusionExecWrite
<1>8. QED
  BY <1>1, <1>2, <1>3, <1>4, <1>5, <1>6, <1>7 DEF MainLoop

\* The read pipeline preserves ExclusionInv.
LEMMA ExclusionPipeline ==
    ASSUME ExclusionInv, TypeInv', NEW w \in Workers, Pipeline(w)
    PROVE  ExclusionInv'
<1> USE ThreadFacts, NoThreadFact DEF ExclusionInv, TypeInv, TypeOK, PcOK, PlacesOK, FlagsOK,
      threads, stored, reads, lock, stopping, switch, outcome
<1>1. CASE PipeRecv(w)
  BY <1>1 DEF PipeRecv, Goto, LockInv, ModeInv, DrainInv, DrainLockInv,
    HasResidual, ExitLabels, WriteLabels, DrainLabels
<1>2. CASE LaunchGate(w)
  BY <1>2 DEF LaunchGate, Goto, GoHome, Home, LockInv, ModeInv, DrainInv, DrainLockInv,
    HasResidual, ExitLabels, WriteLabels, DrainLabels
<1>3. CASE LaunchToken(w)
  BY <1>3 DEF LaunchToken, Goto, LockInv, ModeInv, DrainInv, DrainLockInv,
    HasResidual, ExitLabels, WriteLabels, DrainLabels
<1>4. CASE PipeRLock(w)
  BY <1>4 DEF PipeRLock, Goto, CanRLock, LockInv, ModeInv, DrainInv, DrainLockInv,
    HasResidual, ExitLabels, WriteLabels, DrainLabels
<1>5. CASE LaunchRead(w)
  BY <1>5 DEF LaunchRead, Goto, GoHome, Home, LockInv, ModeInv, DrainInv, DrainLockInv,
    HasResidual, ExitLabels, WriteLabels, DrainLabels
<1>6. CASE ExecWrite(Pipe(w))
  BY <1>6, ExclusionExecWrite
<1>7. QED
  BY <1>1, <1>2, <1>3, <1>4, <1>5, <1>6 DEF Pipeline

\* The read goroutines preserve ExclusionInv.
LEMMA ExclusionReader ==
    ASSUME ExclusionInv, TypeInv', NEW w \in Workers, NEW j \in Jobs, Reader(w, j)
    PROVE  ExclusionInv'
<1> USE ThreadFacts, NoThreadFact DEF ExclusionInv, TypeInv, TypeOK, PcOK, PlacesOK, FlagsOK,
      threads, stored, reads, lock, stopping, switch, outcome
<1>1. CASE ReadExec(w, j)
  BY <1>1 DEF ReadExec, LockInv, ModeInv, DrainInv, DrainLockInv,
    HasResidual, ExitLabels, WriteLabels, DrainLabels
<1>2. CASE ReadDone(w, j)
  BY <1>2 DEF ReadDone, LockInv, ModeInv, DrainInv, DrainLockInv,
    HasResidual, ExitLabels, WriteLabels, DrainLabels
<1>3. QED
  BY <1>1, <1>2 DEF Reader

\* The deferred function of run preserves ExclusionInv.
LEMMA ExclusionExit ==
    ASSUME ExclusionInv, TypeInv', NEW w \in Workers, Exit(w)
    PROVE  ExclusionInv'
<1> USE ThreadFacts, NoThreadFact DEF ExclusionInv, TypeInv, TypeOK, PcOK, PlacesOK, FlagsOK,
      threads, stored, reads, lock, stopping, switch, outcome
<1>1. CASE CloseReadCh(w)
  BY <1>1 DEF CloseReadCh, Goto, LockInv, ModeInv, DrainInv, DrainLockInv,
    HasResidual, ExitLabels, WriteLabels, DrainLabels
<1>2. CASE WaitPipeline(w)
  BY <1>2 DEF WaitPipeline, Goto, LockInv, ModeInv, DrainInv, DrainLockInv,
    HasResidual, ExitLabels, WriteLabels, DrainLabels
<1>3. CASE WaitReadsMode(w)
  BY <1>3 DEF WaitReadsMode, Goto, LockInv, ModeInv, DrainInv, DrainLockInv,
    HasResidual, ExitLabels, WriteLabels, DrainLabels
<1>4. CASE WaitReads(w)
  BY <1>4 DEF WaitReads, Goto, LockInv, ModeInv, DrainInv, DrainLockInv,
    HasResidual, ExitLabels, WriteLabels, DrainLabels
<1>5. CASE DecideDrain(w)
  BY <1>5 DEF DecideDrain, Goto, LockInv, ModeInv, DrainInv, DrainLockInv,
    HasResidual, ExitLabels, WriteLabels, DrainLabels
<1>6. CASE DrainLock(w)
  <2>1. LockInv' /\ ModeInv' /\ DrainInv'
    BY <1>6 DEF DrainLock, Goto, LockInv, ModeInv, DrainInv, ExitLabels, WriteLabels, DrainLabels
  <2>2. \A v \in Workers : pc[Main(v)] \notin {"heldExec", "drainExec"} \/ flipped # "never"
    BY <1>6 DEF DrainLock, DrainLockInv
  <2>3. DrainLockInv'
    BY <1>6, <2>2 DEF DrainLock, Goto, DrainLockInv, HasResidual
  <2>4. QED
    BY <2>1, <2>3
<1>7. CASE DrainExec(w)
  BY <1>7 DEF DrainExec, Goto, LockInv, ModeInv, DrainInv, DrainLockInv,
    HasResidual, ExitLabels, WriteLabels, DrainLabels
<1>8. CASE DrainDone(w)
  BY <1>8 DEF DrainDone, Goto, LockInv, ModeInv, DrainInv, DrainLockInv,
    HasResidual, ExitLabels, WriteLabels, DrainLabels
<1>9. ASSUME NEW j \in Jobs, DrainNext(w, j) PROVE ExclusionInv'
  BY <1>9 DEF DrainNext, Drain, Goto, LockInv, ModeInv, DrainInv, DrainLockInv,
    HasResidual, ExitLabels, WriteLabels, DrainLabels
<1>10. CASE DrainPending(w)
  BY <1>10 DEF DrainPending, Drain, Goto, LockInv, ModeInv, DrainInv, DrainLockInv,
    HasResidual, ExitLabels, WriteLabels, DrainLabels
<1>11. CASE DrainClear(w)
  BY <1>11 DEF DrainClear, Goto, LockInv, ModeInv, DrainInv, DrainLockInv,
    HasResidual, ExitLabels, WriteLabels, DrainLabels
<1>12. QED
  BY <1>1, <1>2, <1>3, <1>4, <1>5, <1>6, <1>7, <1>8, <1>9, <1>10, <1>11 DEF Exit

\* SetRWEnabled(false) preserves ExclusionInv.
LEMMA ExclusionSwitch ==
    ASSUME ExclusionInv, TypeInv', SetRWEnabledFalse
    PROVE  ExclusionInv'
<1> USE ThreadFacts, NoThreadFact DEF ExclusionInv, TypeInv, TypeOK, PcOK, PlacesOK, FlagsOK,
      threads, stored, reads, lock, stopping, switch, outcome
<1>1. CASE BeginDisable
  BY <1>1 DEF BeginDisable, SwitchStep, LockInv, ModeInv, DrainInv, DrainLockInv,
    HasResidual, ExitLabels, WriteLabels, DrainLabels
<1>2. CASE ScanPipelines
  BY <1>2 DEF ScanPipelines, SwitchStep, LockInv, ModeInv, DrainInv, DrainLockInv,
    HasResidual, ExitLabels, WriteLabels, DrainLabels
<1>3. CASE DisableRW
  BY <1>3 DEF DisableRW, SwitchStep, CanTryLock, LockInv, ModeInv, DrainInv, DrainLockInv,
    HasResidual, ExitLabels, WriteLabels, DrainLabels
<1>4. CASE DisableTimeout
  BY <1>4 DEF DisableTimeout, SwitchStep, LockInv, ModeInv, DrainInv, DrainLockInv,
    HasResidual, ExitLabels, WriteLabels, DrainLabels
<1>5. CASE ScanInflight
  BY <1>5 DEF ScanInflight, SwitchStep, LockInv, ModeInv, DrainInv, DrainLockInv,
    HasResidual, ExitLabels, WriteLabels, DrainLabels
<1>6. CASE InflightTimeout
  BY <1>6 DEF InflightTimeout, SwitchStep, LockInv, ModeInv, DrainInv, DrainLockInv,
    HasResidual, ExitLabels, WriteLabels, DrainLabels
<1>7. CASE EndDisable
  BY <1>7 DEF EndDisable, SwitchStep, LockInv, ModeInv, DrainInv, DrainLockInv,
    HasResidual, ExitLabels, WriteLabels, DrainLabels
<1>8. QED
  BY <1>1, <1>2, <1>3, <1>4, <1>5, <1>6, <1>7 DEF SetRWEnabledFalse

\* The initial state satisfies ExclusionInv.
LEMMA ExclusionInit == Init => ExclusionInv
<1>1. Init => LockInv /\ ModeInv /\ DrainInv /\ DrainLockInv
  BY ThreadFacts DEF Init, LockInv, ModeInv, DrainInv, DrainLockInv, ExitLabels, WriteLabels
<1>2. QED
  BY <1>1, TypeInit DEF ExclusionInv

\* Every step preserves ExclusionInv.
LEMMA ExclusionNext == ExclusionInv /\ [Next]_vars => ExclusionInv'
<1> SUFFICES ASSUME ExclusionInv, [Next]_vars PROVE ExclusionInv'
  OBVIOUS
<1>0. TypeInv'
  BY TypeNext DEF ExclusionInv
<1>1. ASSUME NEW j \in Jobs, SubmitJob(j) PROVE ExclusionInv'
  <2>1. WorkerOf[j] \in Workers
    BY ConstantsAssumption
  <2>2. QED
    BY <1>0, <1>1, <2>1, ExclusionCallers
<1>2. ASSUME NEW w \in Workers, BeginStop(w) \/ StopDeadline(w) PROVE ExclusionInv'
  BY <1>0, <1>2, ExclusionCallers
<1>3. ASSUME NEW w \in Workers, MainLoop(w) PROVE ExclusionInv'
  BY <1>0, <1>3, ExclusionMainLoop
<1>4. ASSUME NEW w \in Workers, Exit(w) PROVE ExclusionInv'
  BY <1>0, <1>4, ExclusionExit
<1>5. ASSUME NEW w \in Workers, Pipeline(w) PROVE ExclusionInv'
  BY <1>0, <1>5, ExclusionPipeline
<1>6. ASSUME NEW w \in Workers, NEW j \in Jobs, Reader(w, j) PROVE ExclusionInv'
  BY <1>0, <1>6, ExclusionReader
<1>7. CASE SetRWEnabledFalse
  BY <1>0, <1>7, ExclusionSwitch
<1>8. CASE UNCHANGED vars
  BY <1>0, <1>8 DEF vars, threads, stored, reads, lock, stopping, switch, outcome, ExclusionInv,
    LockInv, ModeInv, DrainInv, DrainLockInv, HasResidual
<1>9. QED
  BY <1>1, <1>2, <1>3, <1>4, <1>5, <1>6, <1>7, <1>8 DEF Next, Stopped

\* Whatever the goroutines, stops and timeouts of any number of workers do, a
\* job executed as a write (by execWrite or by the drain in run, worker.go)
\* never runs together with another write or with a read of any worker, as
\* long as RW mode has not been switched off at run time.
THEOREM ExclusionHolds == Spec => []Exclusion
<1>1. ExclusionInv => Exclusion
  <2> SUFFICES ASSUME ExclusionInv, flipped = "never", NEW t \in Threads, Writing(t)
               PROVE  /\ \A u \in Threads \ {t} : ~Writing(u)
                      /\ \A w \in Workers : Reading(w) = {}
    BY DEF Exclusion
  <2>1. \A u \in Threads : Writing(u) => wlock = u
    BY ThreadFacts DEF ExclusionInv, TypeInv, TypeOK, PcOK, LockInv, ModeInv, DrainLockInv, Writing,
      WriteLabels, PipeLabels
  <2>2. rlock = {}
    BY <2>1, NoThreadFact DEF ExclusionInv, LockInv
  <2>3. QED
    BY <2>1, <2>2 DEF Reading
<1>2. Spec => []ExclusionInv
  BY ExclusionInit, ExclusionNext, PTL DEF Spec
<1>3. QED
  BY <1>1, <1>2, PTL

(***************************************************************************)
(* The order of reads and writes.  readsDispatched is ahead of             *)
(* readsLaunched by exactly the reads between dispatchRead and launchRead, *)
(* and a writer passes its wait only when the two have met.                *)
(***************************************************************************)
One(b) == IF b THEN 1 ELSE 0

PipeHolds(w) == pc[Pipe(w)] \in {"gate", "sem", "rlock", "recheck"}

CountOK(w) ==
    dispatched[w] = launched[w] + Len(readCh[w]) + One(PipeHolds(w)) + One(pc[Main(w)] = "send")

TargetOK(w) ==
    /\ pc[Main(w)] \in WriteLabels \ {"wtarget"} => target[Main(w)] = dispatched[w]
    /\ pc[Main(w)] \in RequestLabels => target[Main(w)] <= launched[w]

PipeDoneOK(w) ==
    pc[Pipe(w)] = "done" => readCh[w] = <<>> /\ pc[Main(w)] \in ExitLabels

OrderOK(w) == CountOK(w) /\ TargetOK(w) /\ PipeDoneOK(w)

OrderInv == ExclusionInv /\ \A w \in Workers : OrderOK(w)

\* The other workers' reads, and where their goroutines are, do not change.
Elsewhere(w) ==
    \A v \in Workers \ {w} :
        /\ pc'[Main(v)] = pc[Main(v)] /\ pc'[Pipe(v)] = pc[Pipe(v)]
        /\ target'[Main(v)] = target[Main(v)]
        /\ readCh'[v] = readCh[v]
        /\ dispatched'[v] = dispatched[v] /\ launched'[v] = launched[v]

\* A step of one worker keeps the order of the others.
LEMMA OrderElsewhere ==
    ASSUME OrderInv, ExclusionInv', NEW w \in Workers, Elsewhere(w), OrderOK(w)'
    PROVE  OrderInv'
<1>1. ASSUME NEW v \in Workers \ {w} PROVE OrderOK(v)'
  BY DEF OrderInv, OrderOK, CountOK, TargetOK, PipeDoneOK, PipeHolds, Elsewhere
<1>2. QED
  BY <1>1 DEF OrderInv

\* The lengths of readCh after a send and after a receive.
LEMMA ChannelFacts ==
    ASSUME NEW s \in Seq(Jobs)
    PROVE  /\ Len(s) \in Nat
           /\ Len(s) = 0 <=> s = <<>>
           /\ \A j \in Jobs : Len(Append(s, j)) = Len(s) + 1 /\ Append(s, j) # <<>>
           /\ s # <<>> => Len(Tail(s)) = Len(s) - 1
  OBVIOUS

\* A step that moves no read of w between its places keeps the count of w.
LEMMA CountKept ==
    ASSUME NEW w \in Workers, CountOK(w),
           readCh'[w] = readCh[w], dispatched'[w] = dispatched[w], launched'[w] = launched[w],
           PipeHolds(w)' <=> PipeHolds(w), (pc'[Main(w)] = "send") <=> (pc[Main(w)] = "send")
    PROVE  CountOK(w)'
  BY DEF CountOK, One

\* Neither does a goroutine that holds no read before its step and none after it.
LEMMA CountOutside ==
    ASSUME NEW t \in Threads, CountOK(t[1]), UNCHANGED reads,
           \A u \in Threads \ {t} : pc'[u] = pc[u],
           pc[t] \notin {"gate", "sem", "rlock", "recheck", "send"},
           pc'[t] \notin {"gate", "sem", "rlock", "recheck", "send"}
    PROVE  CountOK(t[1])'
<1>1. t[1] \in Workers
  BY ThreadFacts
<1>2. (PipeHolds(t[1])' <=> PipeHolds(t[1])) /\ (pc'[Main(t[1])] = "send" <=> pc[Main(t[1])] = "send")
  <2>1. CASE t = Main(t[1])
    <3>1. pc'[Pipe(t[1])] = pc[Pipe(t[1])]
      BY <1>1, <2>1, ThreadFacts
    <3>2. QED
      BY <2>1, <3>1 DEF PipeHolds
  <2>2. CASE t = Pipe(t[1])
    <3>1. pc'[Main(t[1])] = pc[Main(t[1])]
      BY <1>1, <2>2, ThreadFacts
    <3>2. QED
      BY <2>2, <3>1 DEF PipeHolds
  <2>3. QED
    BY <2>1, <2>2, ThreadFacts
<1>3. readCh' = readCh /\ dispatched' = dispatched /\ launched' = launched
  BY DEF reads
<1>4. QED
  BY <1>1, <1>2, <1>3, CountKept

\* The pipeline's read is counted as launched when the pipeline lets it go.
LEMMA CountPassed ==
    ASSUME NEW w \in Workers, CountOK(w), launched[w] \in Nat, Len(readCh[w]) \in Nat,
           readCh'[w] = readCh[w], dispatched'[w] = dispatched[w], launched'[w] = launched[w] + 1,
           PipeHolds(w), ~PipeHolds(w)', pc'[Main(w)] = pc[Main(w)]
    PROVE  CountOK(w)'
  BY DEF CountOK, One

\* SubmitJob, BeginStop and the stop deadline preserve OrderInv.
LEMMA OrderCallers ==
    ASSUME OrderInv, ExclusionInv', NEW w \in Workers,
           (\E j \in Jobs : SubmitJob(j)) \/ BeginStop(w) \/ StopDeadline(w)
    PROVE  OrderInv'
<1> USE ThreadFacts DEF OrderInv, ExclusionInv, TypeInv, TypeOK, PcOK, PlacesOK, CountersOK,
      threads, stored, reads, lock, stopping, switch, outcome
<1>1. ASSUME NEW j \in Jobs, SubmitJob(j) PROVE OrderInv'
  BY <1>1 DEF SubmitJob, OrderInv, OrderOK, CountOK, TargetOK, PipeDoneOK, PipeHolds
<1>2. CASE BeginStop(w)
  BY <1>2 DEF BeginStop, OrderInv, OrderOK, CountOK, TargetOK, PipeDoneOK, PipeHolds
<1>3. CASE StopDeadline(w)
  BY <1>3 DEF StopDeadline, OrderInv, OrderOK, CountOK, TargetOK, PipeDoneOK, PipeHolds
<1>4. QED
  BY <1>1, <1>2, <1>3

\* The steps of execWrite preserve OrderInv, in either goroutine.
LEMMA OrderExecWrite ==
    ASSUME OrderInv, ExclusionInv', NEW t \in Threads, ExecWrite(t)
    PROVE  OrderInv'
<1> USE ThreadFacts DEF OrderInv, ExclusionInv, TypeInv, TypeOK, PcOK, PlacesOK, CountersOK,
      threads, stored, reads, lock, stopping, switch, outcome
<1>0. OrderOK(t[1]) /\ t[1] \in Workers /\ Len(readCh[t[1]]) \in Nat
  BY ChannelFacts
<1>1. CASE WriteTarget(t)
  <2>1. Elsewhere(t[1])
    BY <1>1, SMTT(30) DEF Elsewhere, WriteTarget, Goto
  <2>2. CountOK(t[1])'
    BY <1>0, <1>1, ChannelFacts DEF OrderOK, CountOK, One, PipeHolds, WriteTarget, Goto
  <2>3. TargetOK(t[1])'
    BY <1>0, <1>1 DEF OrderOK, TargetOK, RequestLabels, WriteLabels, ExitLabels, WriteTarget, Goto
  <2>4. PipeDoneOK(t[1])'
    BY <1>0, <1>1 DEF OrderOK, PipeDoneOK, WriteLabels, ExitLabels, WriteTarget, Goto
  <2>5. QED
    BY <1>0, <2>1, <2>2, <2>3, <2>4, OrderElsewhere DEF OrderOK
<1>2. CASE WriteSpin(t)
  <2>0. /\ \A u \in Threads \ {t} : pc'[u] = pc[u] /\ target'[u] = target[u]
        /\ pc[t] \in WriteLabels /\ pc'[t] \in {"wspinClosed", "wtry"}
        /\ UNCHANGED reads
    BY <1>2 DEF WriteSpin, Goto, WriteLabels
  <2>1. Elsewhere(t[1])
    BY <2>0, ZenonT(40) DEF Elsewhere
  <2>2. CountOK(t[1])'
    BY <1>0, <2>0, CountOutside DEF OrderOK, WriteLabels
  <2>3. TargetOK(t[1])'
    BY <1>0, <1>2 DEF OrderOK, TargetOK, RequestLabels, WriteLabels, ExitLabels, WriteSpin, Goto
  <2>4. PipeDoneOK(t[1])'
    BY <1>0, <2>0 DEF OrderOK, PipeDoneOK, WriteLabels, ExitLabels
  <2>5. QED
    BY <1>0, <2>1, <2>2, <2>3, <2>4, OrderElsewhere DEF OrderOK
<1>3. CASE WriteSpinClosed(t)
  <2>0. /\ \A u \in Threads \ {t} : pc'[u] = pc[u] /\ target'[u] = target[u]
        /\ pc[t] \in WriteLabels /\ pc'[t] \in {"wspin", "storeRead"}
        /\ UNCHANGED reads
    BY <1>3 DEF WriteSpinClosed, Goto, GoHome, Home, WriteLabels
  <2>1. Elsewhere(t[1])
    BY <2>0, ZenonT(40) DEF Elsewhere
  <2>2. CountOK(t[1])'
    BY <1>0, <2>0, CountOutside DEF OrderOK, WriteLabels
  <2>3. TargetOK(t[1])'
    BY <1>0, <1>3 DEF OrderOK, TargetOK, RequestLabels, WriteLabels, ExitLabels, WriteSpinClosed,
      Goto, GoHome, Home
  <2>4. PipeDoneOK(t[1])'
    BY <1>0, <2>0 DEF OrderOK, PipeDoneOK, WriteLabels, ExitLabels
  <2>5. QED
    BY <1>0, <2>1, <2>2, <2>3, <2>4, OrderElsewhere DEF OrderOK
<1>4. CASE WriteTryLock(t)
  <2>1. Elsewhere(t[1])
    BY <1>4, SMTT(30) DEF Elsewhere, WriteTryLock, Goto
  <2>2. CountOK(t[1])'
    <3>1. /\ \A u \in Threads \ {t} : pc'[u] = pc[u]
          /\ pc[t] = "wtry" /\ pc'[t] \in {"wtryClosed", "wexec"} /\ UNCHANGED reads
      BY <1>4 DEF WriteTryLock, Goto
    <3>2. QED
      BY <1>0, <3>1, CountOutside DEF OrderOK
  <2>3. TargetOK(t[1])'
    BY <1>0, <1>4 DEF OrderOK, TargetOK, RequestLabels, WriteLabels, ExitLabels, WriteTryLock, Goto
  <2>4. PipeDoneOK(t[1])'
    BY <1>0, <1>4 DEF OrderOK, PipeDoneOK, WriteLabels, ExitLabels, WriteTryLock, Goto
  <2>5. QED
    BY <1>0, <2>1, <2>2, <2>3, <2>4, OrderElsewhere DEF OrderOK
<1>5. CASE WriteTryClosed(t)
  <2>0. /\ \A u \in Threads \ {t} : pc'[u] = pc[u] /\ target'[u] = target[u]
        /\ pc[t] \in WriteLabels /\ pc'[t] \in {"wtry", "storeRead"}
        /\ UNCHANGED reads
    BY <1>5 DEF WriteTryClosed, Goto, GoHome, Home, WriteLabels
  <2>1. Elsewhere(t[1])
    BY <2>0, ZenonT(40) DEF Elsewhere
  <2>2. CountOK(t[1])'
    BY <1>0, <2>0, CountOutside DEF OrderOK, WriteLabels
  <2>3. TargetOK(t[1])'
    BY <1>0, <1>5, SMTT(30)
      DEF OrderOK, TargetOK, RequestLabels, WriteLabels, ExitLabels, WriteTryClosed,
      Goto, GoHome, Home
  <2>4. PipeDoneOK(t[1])'
    BY <1>0, <2>0 DEF OrderOK, PipeDoneOK, WriteLabels, ExitLabels
  <2>5. QED
    BY <1>0, <2>1, <2>2, <2>3, <2>4, OrderElsewhere DEF OrderOK
<1>6. CASE WriteExec(t)
  <2>1. Elsewhere(t[1])
    BY <1>6, SMTT(30) DEF Elsewhere, WriteExec, Goto
  <2>2. CountOK(t[1])'
    BY <1>0, <1>6, ChannelFacts DEF OrderOK, CountOK, One, PipeHolds, WriteExec, Goto
  <2>3. TargetOK(t[1])'
    BY <1>0, <1>6 DEF OrderOK, TargetOK, RequestLabels, WriteLabels, ExitLabels, WriteExec, Goto
  <2>4. PipeDoneOK(t[1])'
    BY <1>0, <1>6 DEF OrderOK, PipeDoneOK, WriteLabels, ExitLabels, WriteExec, Goto
  <2>5. QED
    BY <1>0, <2>1, <2>2, <2>3, <2>4, OrderElsewhere DEF OrderOK
<1>7. CASE WriteDec(t)
  <2>1. Elsewhere(t[1])
    BY <1>7, SMTT(30) DEF Elsewhere, WriteDec, Goto, GoHome, Home
  <2>2. CountOK(t[1])'
    <3>1. /\ \A u \in Threads \ {t} : pc'[u] = pc[u]
          /\ pc[t] = "wdec" /\ pc'[t] \in {"loop", "recv"} /\ UNCHANGED reads
      BY <1>7 DEF WriteDec, Goto, GoHome, Home
    <3>2. QED
      BY <1>0, <3>1, CountOutside DEF OrderOK
  <2>3. TargetOK(t[1])'
    BY <1>0, <1>7 DEF OrderOK, TargetOK, RequestLabels, WriteLabels, ExitLabels, WriteDec, Goto,
      GoHome, Home
  <2>4. PipeDoneOK(t[1])'
    BY <1>0, <1>7 DEF OrderOK, PipeDoneOK, WriteLabels, ExitLabels, WriteDec, Goto, GoHome, Home
  <2>5. QED
    BY <1>0, <2>1, <2>2, <2>3, <2>4, OrderElsewhere DEF OrderOK
<1>8. CASE StoreRead(t)
  <2>0. /\ \A u \in Threads \ {t} : pc'[u] = pc[u] /\ target'[u] = target[u]
        /\ pc[t] \in WriteLabels /\ pc'[t] \in {"storeNew"}
        /\ UNCHANGED reads
    BY <1>8 DEF StoreRead, Goto, GoHome, Home, WriteLabels
  <2>1. Elsewhere(t[1])
    BY <2>0, ZenonT(40) DEF Elsewhere
  <2>2. CountOK(t[1])'
    BY <1>0, <2>0, CountOutside DEF OrderOK, WriteLabels
  <2>3. TargetOK(t[1])'
    BY <1>0, <1>8 DEF OrderOK, TargetOK, RequestLabels, WriteLabels, ExitLabels, StoreRead,
      Goto, GoHome, Home
  <2>4. PipeDoneOK(t[1])'
    BY <1>0, <2>0 DEF OrderOK, PipeDoneOK, WriteLabels, ExitLabels
  <2>5. QED
    BY <1>0, <2>1, <2>2, <2>3, <2>4, OrderElsewhere DEF OrderOK
<1>9. CASE StoreNew(t)
  <2>0. /\ \A u \in Threads \ {t} : pc'[u] = pc[u] /\ target'[u] = target[u]
        /\ pc[t] \in WriteLabels /\ pc'[t] \in {"loop", "recv"}
        /\ UNCHANGED reads
    BY <1>9 DEF StoreNew, Goto, GoHome, Home, WriteLabels
  <2>1. Elsewhere(t[1])
    BY <2>0, ZenonT(40) DEF Elsewhere
  <2>2. CountOK(t[1])'
    BY <1>0, <2>0, CountOutside DEF OrderOK, WriteLabels
  <2>3. TargetOK(t[1])'
    BY <1>0, <1>9 DEF OrderOK, TargetOK, RequestLabels, WriteLabels, ExitLabels, StoreNew,
      Goto, GoHome, Home
  <2>4. PipeDoneOK(t[1])'
    BY <1>0, <2>0 DEF OrderOK, PipeDoneOK, WriteLabels, ExitLabels
  <2>5. QED
    BY <1>0, <2>1, <2>2, <2>3, <2>4, OrderElsewhere DEF OrderOK
<1>10. QED
  BY <1>1, <1>2, <1>3, <1>4, <1>5, <1>6, <1>7, <1>8, <1>9 DEF ExecWrite

\* The main loop preserves OrderInv.
LEMMA OrderMainLoop ==
    ASSUME OrderInv, ExclusionInv', NEW w \in Workers, MainLoop(w)
    PROVE  OrderInv'
<1> USE ThreadFacts DEF OrderInv, ExclusionInv, TypeInv, TypeOK, PcOK, PlacesOK, CountersOK,
      threads, stored, reads, lock, stopping, switch, outcome
<1>0. OrderOK(w) /\ w \in Workers /\ Len(readCh[w]) \in Nat
  BY ChannelFacts
<1>1. ASSUME NEW j \in Jobs, NextJob(w, j) PROVE OrderInv'
  <2>1. Elsewhere(w)
    BY <1>1 DEF Elsewhere, NextJob, Goto
  <2>2. CountOK(w)'
    BY <1>0, <1>1, ChannelFacts DEF OrderOK, CountOK, One, PipeHolds, NextJob, Goto
  <2>3. TargetOK(w)'
    BY <1>0, <1>1 DEF OrderOK, TargetOK, RequestLabels, WriteLabels, ExitLabels, NextJob, Goto
  <2>4. PipeDoneOK(w)'
    BY <1>0, <1>1 DEF OrderOK, PipeDoneOK, WriteLabels, ExitLabels, NextJob, Goto
  <2>5. QED
    BY <1>0, <2>1, <2>2, <2>3, <2>4, OrderElsewhere DEF OrderOK
<1>2. CASE LoadMode(w)
  <2>1. Elsewhere(w)
    BY <1>2 DEF Elsewhere, LoadMode, Goto
  <2>2. CountOK(w)'
    BY <1>0, <1>2, ChannelFacts DEF OrderOK, CountOK, One, PipeHolds, LoadMode, Goto
  <2>3. TargetOK(w)'
    BY <1>0, <1>2 DEF OrderOK, TargetOK, RequestLabels, WriteLabels, ExitLabels, LoadMode, Goto
  <2>4. PipeDoneOK(w)'
    BY <1>0, <1>2 DEF OrderOK, PipeDoneOK, WriteLabels, ExitLabels, LoadMode, Goto
  <2>5. QED
    BY <1>0, <2>1, <2>2, <2>3, <2>4, OrderElsewhere DEF OrderOK
<1>3. CASE SerialExec(w)
  <2>1. Elsewhere(w)
    BY <1>3 DEF Elsewhere, SerialExec, Goto, GoHome, Home
  <2>2. CountOK(w)'
    BY <1>0, <1>3, ChannelFacts DEF OrderOK, CountOK, One, PipeHolds, SerialExec, Goto, GoHome, Home
  <2>3. TargetOK(w)'
    BY <1>0, <1>3 DEF OrderOK, TargetOK, RequestLabels, WriteLabels, ExitLabels, SerialExec,
      Goto, GoHome, Home
  <2>4. PipeDoneOK(w)'
    BY <1>0, <1>3 DEF OrderOK, PipeDoneOK, WriteLabels, ExitLabels, SerialExec, Goto, GoHome, Home
  <2>5. QED
    BY <1>0, <2>1, <2>2, <2>3, <2>4, OrderElsewhere DEF OrderOK
<1>4. CASE ExecWithRW(w)
  <2>1. Elsewhere(w)
    BY <1>4 DEF Elsewhere, ExecWithRW, Goto
  <2>2. CountOK(w)'
    BY <1>0, <1>4, ChannelFacts DEF OrderOK, CountOK, One, PipeHolds, ExecWithRW, Goto
  <2>3. TargetOK(w)'
    BY <1>0, <1>4 DEF OrderOK, TargetOK, RequestLabels, WriteLabels, ExitLabels, ExecWithRW, Goto
  <2>4. PipeDoneOK(w)'
    BY <1>0, <1>4 DEF OrderOK, PipeDoneOK, WriteLabels, ExitLabels, ExecWithRW, Goto
  <2>5. QED
    BY <1>0, <2>1, <2>2, <2>3, <2>4, OrderElsewhere DEF OrderOK
<1>5. CASE DispatchRead(w)
  <2>1. Elsewhere(w)
    BY <1>5, SMTT(30) DEF Elsewhere, DispatchRead, Goto
  <2>2. CountOK(w)'
    BY <1>0, <1>5, ChannelFacts DEF OrderOK, CountOK, One, PipeHolds, DispatchRead, Goto
  <2>3. TargetOK(w)'
    BY <1>0, <1>5 DEF OrderOK, TargetOK, RequestLabels, WriteLabels, ExitLabels, DispatchRead, Goto
  <2>4. PipeDoneOK(w)'
    BY <1>0, <1>5 DEF OrderOK, PipeDoneOK, WriteLabels, ExitLabels, DispatchRead, Goto
  <2>5. QED
    BY <1>0, <2>1, <2>2, <2>3, <2>4, OrderElsewhere DEF OrderOK
<1>6. CASE SendRead(w)
  <2>0. /\ \A u \in Threads \ {Main(w)} : pc'[u] = pc[u] /\ target'[u] = target[u]
        /\ pc[Main(w)] = "send" /\ pc'[Main(w)] = "loop"
        /\ dispatched' = dispatched
        /\ job[Main(w)] \in Jobs
    BY <1>6 DEF SendRead, Goto, GoHome, Home, HoldInv, HoldLabels
  <2>1. \/ readCh' = [readCh EXCEPT ![w] = Append(@, job[Main(w)])] /\ launched' = launched
        \/ readCh' = readCh /\ launched' = [launched EXCEPT ![w] = @ + 1]
    BY <1>6 DEF SendRead
  <2>2. Elsewhere(w)
    <3>1. \A v \in Workers \ {w} : readCh'[v] = readCh[v] /\ launched'[v] = launched[v]
      <4>1. CASE readCh' = readCh /\ launched' = [launched EXCEPT ![w] = @ + 1]
        BY <4>1
      <4>2. CASE readCh' = [readCh EXCEPT ![w] = Append(@, job[Main(w)])] /\ launched' = launched
        BY <4>2
      <4>3. QED
        BY <2>1, <4>1, <4>2
    <3>2. QED
      BY <2>0, <3>1 DEF Elsewhere
  <2>3. launched'[w] + Len(readCh'[w]) = launched[w] + Len(readCh[w]) + 1
    <3>1. CASE readCh' = readCh /\ launched' = [launched EXCEPT ![w] = @ + 1]
      BY <1>0, <3>1
    <3>2. CASE readCh' = [readCh EXCEPT ![w] = Append(@, job[Main(w)])] /\ launched' = launched
      <4>1. readCh'[w] = Append(readCh[w], job[Main(w)])
        BY <3>2
      <4>2. Len(readCh'[w]) = Len(readCh[w]) + 1
        BY <2>0, <4>1, ChannelFacts
      <4>3. QED
        BY <1>0, <3>2, <4>2
    <3>3. QED
      BY <2>1, <3>1, <3>2
  <2>4. CountOK(w)'
    BY <1>0, <2>0, <2>3, SMTT(30) DEF OrderOK, CountOK, One, PipeHolds
  <2>5. TargetOK(w)' /\ PipeDoneOK(w)'
    BY <1>0, <2>0 DEF OrderOK, TargetOK, PipeDoneOK, RequestLabels, WriteLabels, ExitLabels
  <2>6. QED
    BY <1>0, <2>2, <2>4, <2>5, OrderElsewhere DEF OrderOK
<1>7. CASE ExecWrite(Main(w))
  BY <1>7, OrderExecWrite
<1>8. QED
  BY <1>1, <1>2, <1>3, <1>4, <1>5, <1>6, <1>7 DEF MainLoop

\* The read pipeline preserves OrderInv.
LEMMA OrderPipeline ==
    ASSUME OrderInv, ExclusionInv', NEW w \in Workers, Pipeline(w)
    PROVE  OrderInv'
<1> USE ThreadFacts DEF OrderInv, ExclusionInv, TypeInv, TypeOK, PcOK, PlacesOK, CountersOK,
      threads, stored, reads, lock, stopping, switch, outcome
<1>0. OrderOK(w) /\ w \in Workers /\ Len(readCh[w]) \in Nat
  BY ChannelFacts
<1>1. CASE PipeRecv(w)
  <2>0. /\ \A u \in Threads \ {Pipe(w)} : pc'[u] = pc[u] /\ target'[u] = target[u]
        /\ pc[Pipe(w)] = "recv"
        /\ dispatched' = dispatched /\ launched' = launched
    BY <1>1 DEF PipeRecv, Goto
  <2>1. CASE readCh[w] # <<>>
    <3>1. pc'[Pipe(w)] = "gate" /\ readCh' = [readCh EXCEPT ![w] = Tail(@)]
      BY <1>1, <2>1 DEF PipeRecv, Goto
    <3>2. Elsewhere(w)
      BY <2>0, <3>1 DEF Elsewhere
    <3>3. Len(readCh'[w]) = Len(readCh[w]) - 1
      BY <2>1, <3>1, ChannelFacts
    <3>4. CountOK(w)'
      BY <1>0, <2>0, <3>1, <3>3, SMTT(30) DEF OrderOK, CountOK, One, PipeHolds
    <3>5. TargetOK(w)' /\ PipeDoneOK(w)'
      BY <1>0, <2>0, <3>1 DEF OrderOK, TargetOK, PipeDoneOK
    <3>6. QED
      BY <3>2, <3>4, <3>5, OrderElsewhere DEF OrderOK
  <2>2. CASE readCh[w] = <<>>
    <3>1. pc'[Pipe(w)] = "done" /\ readCh' = readCh /\ pc[Main(w)] \in ExitLabels
      BY <1>1, <2>2 DEF PipeRecv, Goto, ReadChClosed
    <3>2. Elsewhere(w)
      BY <2>0, <3>1 DEF Elsewhere
    <3>3. CountOK(w)'
      BY <1>0, <2>0, <3>1 DEF OrderOK, CountOK, One, PipeHolds
    <3>4. TargetOK(w)' /\ PipeDoneOK(w)'
      BY <1>0, <2>0, <2>2, <3>1 DEF OrderOK, TargetOK, PipeDoneOK
    <3>5. QED
      BY <3>2, <3>3, <3>4, OrderElsewhere DEF OrderOK
  <2>3. QED
    BY <2>1, <2>2
<1>2. CASE LaunchGate(w)
  <2>0. /\ \A u \in Threads \ {Pipe(w)} : pc'[u] = pc[u] /\ target'[u] = target[u]
        /\ pc[Pipe(w)] = "gate" /\ pc'[Pipe(w)] \in {"sem", "recv"}
        /\ dispatched' = dispatched /\ readCh' = readCh
    BY <1>2, SMTT(30) DEF LaunchGate, Goto, GoHome, Home
  <2>1. \/ pc'[Pipe(w)] = "sem" /\ launched' = launched
        \/ pc'[Pipe(w)] = "recv" /\ launched' = [launched EXCEPT ![w] = @ + 1]
    BY <1>2 DEF LaunchGate, Goto, GoHome, Home
  <2>2. Elsewhere(w)
    BY <2>0, <2>1, SMTT(30) DEF Elsewhere
  <2>3. CountOK(w)'
    <3>1. pc'[Main(w)] = pc[Main(w)] /\ PipeHolds(w)
      BY <2>0 DEF PipeHolds
    <3>2. CASE pc'[Pipe(w)] = "sem" /\ launched' = launched
      BY <1>0, <2>0, <3>1, <3>2, CountKept DEF OrderOK, PipeHolds
    <3>3. CASE pc'[Pipe(w)] = "recv" /\ launched' = [launched EXCEPT ![w] = @ + 1]
      <4>1. ~PipeHolds(w)' /\ launched'[w] = launched[w] + 1 /\ launched[w] \in Nat
        BY <3>3 DEF PipeHolds
      <4>2. QED
        BY <1>0, <2>0, <3>1, <4>1, CountPassed DEF OrderOK
    <3>4. QED
      BY <2>1, <3>2, <3>3
  <2>4. launched[w] <= launched'[w] /\ launched'[w] \in Nat /\ target[Main(w)] \in Nat
    BY <2>1
  <2>5. TargetOK(w)' /\ PipeDoneOK(w)'
    BY <1>0, <2>0, <2>4 DEF OrderOK, TargetOK, PipeDoneOK
  <2>6. QED
    BY <1>0, <2>2, <2>3, <2>5, OrderElsewhere DEF OrderOK
<1>3. CASE LaunchToken(w)
  <2>1. Elsewhere(w)
    BY <1>3 DEF Elsewhere, LaunchToken, Goto
  <2>2. CountOK(w)'
    BY <1>0, <1>3, ChannelFacts DEF OrderOK, CountOK, One, PipeHolds, LaunchToken, Goto
  <2>3. TargetOK(w)'
    BY <1>0, <1>3 DEF OrderOK, TargetOK, RequestLabels, WriteLabels, ExitLabels, LaunchToken, Goto
  <2>4. PipeDoneOK(w)'
    BY <1>0, <1>3 DEF OrderOK, PipeDoneOK, WriteLabels, ExitLabels, LaunchToken, Goto
  <2>5. QED
    BY <1>0, <2>1, <2>2, <2>3, <2>4, OrderElsewhere DEF OrderOK
<1>4. CASE PipeRLock(w)
  <2>1. Elsewhere(w)
    BY <1>4 DEF Elsewhere, PipeRLock, Goto
  <2>2. CountOK(w)'
    BY <1>0, <1>4, ChannelFacts DEF OrderOK, CountOK, One, PipeHolds, PipeRLock, Goto
  <2>3. TargetOK(w)'
    BY <1>0, <1>4 DEF OrderOK, TargetOK, RequestLabels, WriteLabels, ExitLabels, PipeRLock, Goto
  <2>4. PipeDoneOK(w)'
    BY <1>0, <1>4 DEF OrderOK, PipeDoneOK, WriteLabels, ExitLabels, PipeRLock, Goto
  <2>5. QED
    BY <1>0, <2>1, <2>2, <2>3, <2>4, OrderElsewhere DEF OrderOK
<1>5. CASE LaunchRead(w)
  <2>0. /\ \A u \in Threads \ {Pipe(w)} : pc'[u] = pc[u] /\ target'[u] = target[u]
        /\ pc[Pipe(w)] = "recheck" /\ pc'[Pipe(w)] \in {"wtarget", "recv"}
        /\ dispatched' = dispatched /\ readCh' = readCh
    BY <1>5 DEF LaunchRead, Goto, GoHome, Home
  <2>1. launched' = [launched EXCEPT ![w] = @ + 1]
    BY <1>5 DEF LaunchRead
  <2>2. Elsewhere(w)
    BY <2>0, <2>1 DEF Elsewhere
  <2>3. CountOK(w)'
    <3>1. pc'[Main(w)] = pc[Main(w)] /\ PipeHolds(w) /\ ~PipeHolds(w)'
      BY <2>0 DEF PipeHolds
    <3>2. launched'[w] = launched[w] + 1 /\ launched[w] \in Nat
      BY <2>1
    <3>3. QED
      BY <1>0, <2>0, <3>1, <3>2, CountPassed DEF OrderOK
  <2>4. launched[w] <= launched'[w] /\ launched'[w] \in Nat /\ target[Main(w)] \in Nat
    BY <2>1
  <2>5. TargetOK(w)' /\ PipeDoneOK(w)'
    BY <1>0, <2>0, <2>4 DEF OrderOK, TargetOK, PipeDoneOK
  <2>6. QED
    BY <1>0, <2>2, <2>3, <2>5, OrderElsewhere DEF OrderOK
<1>6. CASE ExecWrite(Pipe(w))
  BY <1>6, OrderExecWrite
<1>7. QED
  BY <1>1, <1>2, <1>3, <1>4, <1>5, <1>6 DEF Pipeline

\* The read goroutines preserve OrderInv.
LEMMA OrderReader ==
    ASSUME OrderInv, ExclusionInv', NEW w \in Workers, NEW j \in Jobs, Reader(w, j)
    PROVE  OrderInv'
<1> USE ThreadFacts DEF OrderInv, ExclusionInv, TypeInv, TypeOK, PcOK, PlacesOK, CountersOK,
      threads, stored, reads, lock, stopping, switch, outcome
<1>1. CASE ReadExec(w, j)
  BY <1>1 DEF ReadExec, OrderInv, OrderOK, CountOK, TargetOK, PipeDoneOK, PipeHolds
<1>2. CASE ReadDone(w, j)
  BY <1>2 DEF ReadDone, OrderInv, OrderOK, CountOK, TargetOK, PipeDoneOK, PipeHolds
<1>3. QED
  BY <1>1, <1>2 DEF Reader

\* The deferred function of run preserves OrderInv.
LEMMA OrderExit ==
    ASSUME OrderInv, ExclusionInv', NEW w \in Workers, Exit(w)
    PROVE  OrderInv'
<1> USE ThreadFacts DEF OrderInv, ExclusionInv, TypeInv, TypeOK, PcOK, PlacesOK, CountersOK,
      threads, stored, reads, lock, stopping, switch, outcome
<1>0. OrderOK(w) /\ w \in Workers /\ Len(readCh[w]) \in Nat
  BY ChannelFacts
<1>1. CASE CloseReadCh(w)
  <2>1. Elsewhere(w)
    BY <1>1 DEF Elsewhere, CloseReadCh, Goto
  <2>2. CountOK(w)'
    BY <1>0, <1>1, ChannelFacts DEF OrderOK, CountOK, One, PipeHolds, CloseReadCh, Goto
  <2>3. TargetOK(w)'
    BY <1>0, <1>1 DEF OrderOK, TargetOK, RequestLabels, WriteLabels, ExitLabels, CloseReadCh, Goto
  <2>4. PipeDoneOK(w)'
    BY <1>0, <1>1 DEF OrderOK, PipeDoneOK, WriteLabels, ExitLabels, CloseReadCh, Goto
  <2>5. QED
    BY <1>0, <2>1, <2>2, <2>3, <2>4, OrderElsewhere DEF OrderOK
<1>2. CASE WaitPipeline(w)
  <2>1. Elsewhere(w)
    BY <1>2 DEF Elsewhere, WaitPipeline, Goto
  <2>2. CountOK(w)'
    BY <1>0, <1>2, ChannelFacts DEF OrderOK, CountOK, One, PipeHolds, WaitPipeline, Goto
  <2>3. TargetOK(w)'
    BY <1>0, <1>2 DEF OrderOK, TargetOK, RequestLabels, WriteLabels, ExitLabels, WaitPipeline, Goto
  <2>4. PipeDoneOK(w)'
    BY <1>0, <1>2 DEF OrderOK, PipeDoneOK, WriteLabels, ExitLabels, WaitPipeline, Goto
  <2>5. QED
    BY <1>0, <2>1, <2>2, <2>3, <2>4, OrderElsewhere DEF OrderOK
<1>3. CASE WaitReadsMode(w)
  <2>1. Elsewhere(w)
    BY <1>3 DEF Elsewhere, WaitReadsMode, Goto
  <2>2. CountOK(w)'
    BY <1>0, <1>3, ChannelFacts DEF OrderOK, CountOK, One, PipeHolds, WaitReadsMode, Goto
  <2>3. TargetOK(w)'
    BY <1>0, <1>3 DEF OrderOK, TargetOK, RequestLabels, WriteLabels, ExitLabels, WaitReadsMode, Goto
  <2>4. PipeDoneOK(w)'
    BY <1>0, <1>3 DEF OrderOK, PipeDoneOK, WriteLabels, ExitLabels, WaitReadsMode, Goto
  <2>5. QED
    BY <1>0, <2>1, <2>2, <2>3, <2>4, OrderElsewhere DEF OrderOK
<1>4. CASE WaitReads(w)
  <2>1. Elsewhere(w)
    BY <1>4 DEF Elsewhere, WaitReads, Goto
  <2>2. CountOK(w)'
    BY <1>0, <1>4, ChannelFacts DEF OrderOK, CountOK, One, PipeHolds, WaitReads, Goto
  <2>3. TargetOK(w)'
    BY <1>0, <1>4 DEF OrderOK, TargetOK, RequestLabels, WriteLabels, ExitLabels, WaitReads, Goto
  <2>4. PipeDoneOK(w)'
    BY <1>0, <1>4 DEF OrderOK, PipeDoneOK, WriteLabels, ExitLabels, WaitReads, Goto
  <2>5. QED
    BY <1>0, <2>1, <2>2, <2>3, <2>4, OrderElsewhere DEF OrderOK
<1>5. CASE DecideDrain(w)
  <2>1. Elsewhere(w)
    BY <1>5 DEF Elsewhere, DecideDrain, Goto
  <2>2. CountOK(w)'
    BY <1>0, <1>5, ChannelFacts DEF OrderOK, CountOK, One, PipeHolds, DecideDrain, Goto
  <2>3. TargetOK(w)'
    BY <1>0, <1>5 DEF OrderOK, TargetOK, RequestLabels, WriteLabels, ExitLabels, DecideDrain, Goto
  <2>4. PipeDoneOK(w)'
    BY <1>0, <1>5 DEF OrderOK, PipeDoneOK, WriteLabels, ExitLabels, DecideDrain, Goto
  <2>5. QED
    BY <1>0, <2>1, <2>2, <2>3, <2>4, OrderElsewhere DEF OrderOK
<1>6. CASE DrainLock(w)
  <2>1. Elsewhere(w)
    BY <1>6 DEF Elsewhere, DrainLock, Goto
  <2>2. CountOK(w)'
    BY <1>0, <1>6, ChannelFacts DEF OrderOK, CountOK, One, PipeHolds, DrainLock, Goto
  <2>3. TargetOK(w)'
    BY <1>0, <1>6 DEF OrderOK, TargetOK, RequestLabels, WriteLabels, ExitLabels, DrainLock, Goto
  <2>4. PipeDoneOK(w)'
    BY <1>0, <1>6 DEF OrderOK, PipeDoneOK, WriteLabels, ExitLabels, DrainLock, Goto
  <2>5. QED
    BY <1>0, <2>1, <2>2, <2>3, <2>4, OrderElsewhere DEF OrderOK
<1>7. CASE DrainExec(w)
  <2>1. Elsewhere(w)
    BY <1>7 DEF Elsewhere, DrainExec, Goto
  <2>2. CountOK(w)'
    BY <1>0, <1>7, ChannelFacts DEF OrderOK, CountOK, One, PipeHolds, DrainExec, Goto
  <2>3. TargetOK(w)'
    BY <1>0, <1>7 DEF OrderOK, TargetOK, RequestLabels, WriteLabels, ExitLabels, DrainExec, Goto
  <2>4. PipeDoneOK(w)'
    BY <1>0, <1>7 DEF OrderOK, PipeDoneOK, WriteLabels, ExitLabels, DrainExec, Goto
  <2>5. QED
    BY <1>0, <2>1, <2>2, <2>3, <2>4, OrderElsewhere DEF OrderOK
<1>8. CASE DrainDone(w)
  <2>1. Elsewhere(w)
    BY <1>8 DEF Elsewhere, DrainDone, Goto
  <2>2. CountOK(w)'
    BY <1>0, <1>8, ChannelFacts DEF OrderOK, CountOK, One, PipeHolds, DrainDone, Goto
  <2>3. TargetOK(w)'
    BY <1>0, <1>8 DEF OrderOK, TargetOK, RequestLabels, WriteLabels, ExitLabels, DrainDone, Goto
  <2>4. PipeDoneOK(w)'
    BY <1>0, <1>8 DEF OrderOK, PipeDoneOK, WriteLabels, ExitLabels, DrainDone, Goto
  <2>5. QED
    BY <1>0, <2>1, <2>2, <2>3, <2>4, OrderElsewhere DEF OrderOK
<1>9. ASSUME NEW j \in Jobs, DrainNext(w, j) PROVE OrderInv'
  <2>1. Elsewhere(w)
    BY <1>9, SMTT(30) DEF Elsewhere, DrainNext, Drain, Goto
  <2>2. CountOK(w)'
    BY <1>0, <1>9, ChannelFacts DEF OrderOK, CountOK, One, PipeHolds, DrainNext, Drain, Goto
  <2>3. TargetOK(w)'
    BY <1>0, <1>9 DEF OrderOK, TargetOK, RequestLabels, WriteLabels, ExitLabels, DrainNext, Drain, Goto
  <2>4. PipeDoneOK(w)'
    BY <1>0, <1>9 DEF OrderOK, PipeDoneOK, WriteLabels, ExitLabels, DrainNext, Drain, Goto
  <2>5. QED
    BY <1>0, <2>1, <2>2, <2>3, <2>4, OrderElsewhere DEF OrderOK
<1>10. CASE DrainPending(w)
  <2>1. Elsewhere(w)
    BY <1>10, SMTT(30) DEF Elsewhere, DrainPending, Drain, Goto
  <2>2. CountOK(w)'
    BY <1>0, <1>10, ChannelFacts DEF OrderOK, CountOK, One, PipeHolds, DrainPending, Drain, Goto
  <2>3. TargetOK(w)'
    BY <1>0, <1>10 DEF OrderOK, TargetOK, RequestLabels, WriteLabels, ExitLabels, DrainPending, Drain, Goto
  <2>4. PipeDoneOK(w)'
    BY <1>0, <1>10 DEF OrderOK, PipeDoneOK, WriteLabels, ExitLabels, DrainPending, Drain, Goto
  <2>5. QED
    BY <1>0, <2>1, <2>2, <2>3, <2>4, OrderElsewhere DEF OrderOK
<1>11. CASE DrainClear(w)
  <2>1. Elsewhere(w)
    BY <1>11, SMTT(30) DEF Elsewhere, DrainClear, Goto
  <2>2. CountOK(w)'
    BY <1>0, <1>11, ChannelFacts DEF OrderOK, CountOK, One, PipeHolds, DrainClear, Goto
  <2>3. TargetOK(w)'
    BY <1>0, <1>11 DEF OrderOK, TargetOK, RequestLabels, WriteLabels, ExitLabels, DrainClear, Goto
  <2>4. PipeDoneOK(w)'
    BY <1>0, <1>11 DEF OrderOK, PipeDoneOK, WriteLabels, ExitLabels, DrainClear, Goto
  <2>5. QED
    BY <1>0, <2>1, <2>2, <2>3, <2>4, OrderElsewhere DEF OrderOK
<1>12. QED
  BY <1>1, <1>2, <1>3, <1>4, <1>5, <1>6, <1>7, <1>8, <1>9, <1>10, <1>11 DEF Exit

\* SetRWEnabled(false) preserves OrderInv.
LEMMA OrderSwitch ==
    ASSUME OrderInv, ExclusionInv', SetRWEnabledFalse
    PROVE  OrderInv'
<1> USE ThreadFacts DEF OrderInv, ExclusionInv, TypeInv, TypeOK, PcOK, PlacesOK, CountersOK,
      threads, stored, reads, lock, stopping, switch, outcome
<1>1. CASE BeginDisable
  BY <1>1 DEF BeginDisable, SwitchStep, OrderInv, OrderOK, CountOK, TargetOK, PipeDoneOK, PipeHolds
<1>2. CASE ScanPipelines
  BY <1>2 DEF ScanPipelines, SwitchStep, OrderInv, OrderOK, CountOK, TargetOK, PipeDoneOK, PipeHolds
<1>3. CASE DisableRW
  BY <1>3 DEF DisableRW, SwitchStep, OrderInv, OrderOK, CountOK, TargetOK, PipeDoneOK, PipeHolds
<1>4. CASE DisableTimeout
  BY <1>4 DEF DisableTimeout, SwitchStep, OrderInv, OrderOK, CountOK, TargetOK, PipeDoneOK,
    PipeHolds
<1>5. CASE ScanInflight
  BY <1>5 DEF ScanInflight, SwitchStep, OrderInv, OrderOK, CountOK, TargetOK, PipeDoneOK, PipeHolds
<1>6. CASE InflightTimeout
  BY <1>6 DEF InflightTimeout, SwitchStep, OrderInv, OrderOK, CountOK, TargetOK, PipeDoneOK,
    PipeHolds
<1>7. CASE EndDisable
  BY <1>7 DEF EndDisable, SwitchStep, OrderInv, OrderOK, CountOK, TargetOK, PipeDoneOK, PipeHolds
<1>8. QED
  BY <1>1, <1>2, <1>3, <1>4, <1>5, <1>6, <1>7 DEF SetRWEnabledFalse

\* The initial state satisfies OrderInv.
LEMMA OrderInit == Init => OrderInv
<1>1. Init => \A w \in Workers : OrderOK(w)
  BY ThreadFacts DEF Init, OrderOK, CountOK, TargetOK, PipeDoneOK, One, PipeHolds,
    RequestLabels, WriteLabels, ExitLabels
<1>2. QED
  BY <1>1, ExclusionInit DEF OrderInv

\* Every step preserves OrderInv.
LEMMA OrderNext == OrderInv /\ [Next]_vars => OrderInv'
<1> SUFFICES ASSUME OrderInv, [Next]_vars PROVE OrderInv'
  OBVIOUS
<1>0. ExclusionInv'
  BY ExclusionNext DEF OrderInv
<1>1. ASSUME NEW j \in Jobs, SubmitJob(j) PROVE OrderInv'
  <2>1. WorkerOf[j] \in Workers
    BY ConstantsAssumption
  <2>2. QED
    BY <1>0, <1>1, <2>1, OrderCallers
<1>2. ASSUME NEW w \in Workers, BeginStop(w) \/ StopDeadline(w) PROVE OrderInv'
  BY <1>0, <1>2, OrderCallers
<1>3. ASSUME NEW w \in Workers, MainLoop(w) PROVE OrderInv'
  BY <1>0, <1>3, OrderMainLoop
<1>4. ASSUME NEW w \in Workers, Exit(w) PROVE OrderInv'
  BY <1>0, <1>4, OrderExit
<1>5. ASSUME NEW w \in Workers, Pipeline(w) PROVE OrderInv'
  BY <1>0, <1>5, OrderPipeline
<1>6. ASSUME NEW w \in Workers, NEW j \in Jobs, Reader(w, j) PROVE OrderInv'
  BY <1>0, <1>6, OrderReader
<1>7. CASE SetRWEnabledFalse
  BY <1>0, <1>7, OrderSwitch
<1>8. CASE UNCHANGED vars
  BY <1>0, <1>8 DEF vars, threads, reads, OrderInv, OrderOK, CountOK, TargetOK, PipeDoneOK,
    PipeHolds
<1>9. QED
  BY <1>1, <1>2, <1>3, <1>4, <1>5, <1>6, <1>7, <1>8 DEF Next, Stopped

\* The order contract of dispatchRead (worker.go) for any number of workers,
\* reads and writes: when the main loop or the drain executes a job as a
\* write, every read that worker took from the queue before has finished or
\* been discarded, whatever the timeouts, as long as RW mode has not been
\* switched off at run time.
THEOREM ReadsBeforeWriteHolds == Spec => []ReadsBeforeWrite
<1>1. OrderInv => ReadsBeforeWrite
  <2> SUFFICES ASSUME OrderInv, flipped = "never", NEW w \in Workers,
                      pc[Main(w)] \in {"wexec", "heldExec", "drainExec"}
               PROVE  /\ readCh[w] = <<>>
                      /\ pc[Pipe(w)] \in {"recv", "done"}
                      /\ Reading(w) = {}
    BY DEF ReadsBeforeWrite
  <2>1. wlock = Main(w)
    BY ThreadFacts DEF OrderInv, ExclusionInv, LockInv, DrainLockInv
  <2>2. Reading(w) = {}
    BY <2>1, ThreadFacts, NoThreadFact DEF OrderInv, ExclusionInv, LockInv, Reading
  <2>3. OrderOK(w) /\ Len(readCh[w]) \in Nat /\ (Len(readCh[w]) = 0 <=> readCh[w] = <<>>)
    BY ChannelFacts DEF OrderInv, ExclusionInv, TypeInv, TypeOK, PlacesOK
  <2>4. CASE pc[Main(w)] = "wexec"
    <3>1. dispatched[w] <= launched[w]
      BY <2>3, <2>4 DEF OrderOK, TargetOK, RequestLabels, WriteLabels
    <3>2. Len(readCh[w]) = 0 /\ ~PipeHolds(w)
      BY <2>3, <2>4, <3>1 DEF OrderOK, CountOK, One, OrderInv, ExclusionInv, TypeInv, TypeOK,
        CountersOK
    <3>3. pc[Pipe(w)] \in PipeLabels \ WriteLabels
      BY DEF OrderInv, ExclusionInv, TypeInv, TypeOK, PcOK, ModeInv
    <3>4. QED
      BY <2>2, <2>3, <3>2, <3>3 DEF PipeHolds, PipeLabels
  <2>5. CASE pc[Main(w)] \in {"heldExec", "drainExec"}
    <3>1. pc[Pipe(w)] = "done"
      BY <2>5 DEF OrderInv, ExclusionInv, DrainInv, ExitLabels, DrainLabels
    <3>2. QED
      BY <2>2, <2>3, <3>1 DEF OrderOK, PipeDoneOK
  <2>6. QED
    BY <2>4, <2>5
<1>2. Spec => []OrderInv
  BY OrderInit, OrderNext, PTL DEF Spec
<1>3. QED
  BY <1>1, <1>2, PTL

(***************************************************************************)
(* What becomes of a job: the inductive invariant.                         *)
(***************************************************************************)
\* The elements of a sequence, and one without repetitions.
Elems(s) == {s[i] : i \in 1..Len(s)}
NoRepeat(s) == \A i, k \in 1..Len(s) : s[i] = s[k] => i = k

Ended == {"executed", "discarded", "unsafe", "overwritten"}

\* Where a worker keeps a job it has admitted.
Spots == {"queue", "main", "channel", "pipe", "reading", "pending"}

\* The labels between a read of pendingJob that ends or takes its job and the write after it.
BusyLabels == {"storeNew", "heldExec", "drainClear"}

\* What pendingJob holds has ended, or is in the hands of the main goroutine.
Spent(w) == pc[Main(w)] \in BusyLabels \/ pc[Pipe(w)] = "storeNew"

\* The two goroutines of a worker are not in an access to pendingJob at once.
ApartInv ==
    \A w \in Workers \ contested : pc[Main(w)] \in BusyLabels => pc[Pipe(w)] # "storeNew"

\* The job j is at the spot p of its worker.
At(j, p) ==
    \/ p = "queue" /\ j \in queue[WorkerOf[j]]
    \/ p = "main" /\ job[Main(WorkerOf[j])] = j
    \/ p = "channel" /\ j \in Elems(readCh[WorkerOf[j]])
    \/ p = "pipe" /\ job[Pipe(WorkerOf[j])] = j
    \/ p = "reading" /\ j \in inflight[WorkerOf[j]] /\ j \in rlock
    \/ p = "pending" /\ pending[WorkerOf[j]] = j /\ ~Spent(WorkerOf[j])

\* The jobs of a worker whose goroutines have not run into each other at pendingJob.
Calm(j) == WorkerOf[j] \notin contested

\* A job is live while it is at some spot, it is never at two, and it ends once.
SpotInv ==
    \A j \in Jobs : Calm(j) =>
        /\ fate[j] = "live" <=> \E p \in Spots : At(j, p)
        /\ \A p, q \in Spots : At(j, p) /\ At(j, q) => p = q
        /\ ends[j] = IF fate[j] \in {"unposted", "rejected", "live"} THEN 0 ELSE 1

\* A worker has no jobs but its own, and none twice in its channel.
HomeInv ==
    /\ \A w \in Workers :
        /\ \A j \in queue[w] \cup inflight[w] \cup Elems(readCh[w]) : WorkerOf[j] = w
        /\ w \notin contested => NoRepeat(readCh[w])
        /\ pending[w] # NoJob => WorkerOf[pending[w]] = w
    /\ \A t \in Threads :
        /\ pc[t] \notin HoldLabels => job[t] = NoJob
        /\ job[t] # NoJob => WorkerOf[job[t]] = t[1]

\* A read that has given its lock back has ended; the one the pipeline is about to start has it.
LoanInv ==
    \A w \in Workers \ contested :
        /\ \A j \in inflight[w] : j \in rlock \/ fate[j] \in Ended
        /\ pc[Pipe(w)] = "recheck" => job[Pipe(w)] \in rlock

PlaceOK == SpotInv /\ ApartInv /\ HomeInv /\ LoanInv

PlaceInv == OrderInv /\ PlaceOK

Draining == {"residual", "lockWait", "done"} \cup DrainLabels

\* How far the exit of a worker is: the pipeline has ended, then the reads have, then nothing
\* is left, as long as no wait timed out.  No read runs while RW mode is off.
ExitOK(w) ==
    /\ pc[Main(w)] \in ExitLabels => state[w] = "closed"
    /\ w \notin contested /\ ~enabled => Reading(w) = {}
    /\ ~timedOut[w] =>
        /\ pc[Main(w)] \in ExitLabels \ {"waitPipe"} => pc[Pipe(w)] = "done"
        /\ w \notin contested /\ pc[Main(w)] \in Draining => Reading(w) = {}
        /\ pc[Main(w)] \in {"drainQueue", "drainExec", "done"} => pending[w] = NoJob
        /\ pc[Main(w)] = "done" => queue[w] = {}

ExitInv == \A w \in Workers : ExitOK(w)

-----------------------------------------------------------------------------
(***************************************************************************)
(* Lemmas.                                                                 *)
(***************************************************************************)
\* What a step may do to a job: leave it alone, bring it from one spot to another, end it,
\* admit it or refuse it.
Stays(j) == fate'[j] = fate[j] /\ ends'[j] = ends[j] /\ \A x \in Spots : At(j, x)' <=> At(j, x)
Shifts(j, p, q) ==
    /\ At(j, p) /\ fate'[j] = fate[j] /\ ends'[j] = ends[j]
    /\ \A x \in Spots : At(j, x)' <=> x = q
Leaves(j, p) ==
    /\ At(j, p) /\ fate'[j] \in Ended /\ ends'[j] = ends[j] + 1
    /\ \A x \in Spots : ~At(j, x)'
Enters(j) ==
    /\ fate[j] = "unposted" /\ fate'[j] = "live" /\ ends'[j] = ends[j]
    /\ \A x \in Spots : At(j, x)' <=> x = "queue"
Refused(j) ==
    /\ fate[j] = "unposted" /\ fate'[j] = "rejected" /\ ends'[j] = ends[j]
    /\ \A x \in Spots : At(j, x)' <=> At(j, x)

\* That is all SpotInv needs.
LEMMA SpotStep ==
    ASSUME SpotInv, contested \subseteq contested',
           \A j \in Jobs : Calm(j)' => \/ Stays(j) \/ Enters(j) \/ Refused(j)
                                       \/ \E p, q \in Spots : Shifts(j, p, q)
                                       \/ \E p \in Spots : Leaves(j, p)
    PROVE  SpotInv'
<1> SUFFICES ASSUME NEW j \in Jobs, Calm(j)'
             PROVE  /\ fate'[j] = "live" <=> \E p \in Spots : At(j, p)'
                    /\ \A p, q \in Spots : At(j, p)' /\ At(j, q)' => p = q
                    /\ ends'[j] = IF fate'[j] \in {"unposted", "rejected", "live"} THEN 0 ELSE 1
  BY DEF SpotInv
<1>0. Calm(j)
  BY DEF Calm
<1>1. CASE Stays(j)
  BY <1>0, <1>1 DEF SpotInv, Stays
<1>2. CASE Enters(j)
  BY <1>0, <1>2 DEF SpotInv, Enters, Spots
<1>3. CASE Refused(j)
  BY <1>0, <1>3 DEF SpotInv, Refused
<1>4. CASE \E p, q \in Spots : Shifts(j, p, q)
  BY <1>0, <1>4 DEF SpotInv, Shifts
<1>5. CASE \E p \in Spots : Leaves(j, p)
  BY <1>0, <1>5 DEF SpotInv, Leaves, Ended
<1>6. QED
  BY <1>1, <1>2, <1>3, <1>4, <1>5

\* Taking the first element out of a sequence.
LEMMA TailElems ==
    ASSUME NEW S, NEW s \in Seq(S), s # <<>>
    PROVE  /\ NoRepeat(s) => Elems(Tail(s)) = Elems(s) \ {Head(s)} /\ NoRepeat(Tail(s))
           /\ Elems(Tail(s)) \subseteq Elems(s)
           /\ Head(s) \in Elems(s) /\ Tail(s) \in Seq(S) /\ Elems(s) \subseteq S
<1>1. /\ Tail(s) \in Seq(S) /\ Len(s) \in Nat \ {0} /\ Len(Tail(s)) = Len(s) - 1
      /\ \A i \in 1..(Len(s) - 1) : Tail(s)[i] = s[i + 1]
      /\ Head(s) = s[1] /\ \A i \in 1..Len(s) : s[i] \in S
  OBVIOUS
<1>2. Elems(Tail(s)) \subseteq Elems(s)
  <2> SUFFICES ASSUME NEW i \in 1..(Len(s) - 1) PROVE s[i + 1] \in Elems(s)
    BY <1>1 DEF Elems
  <2>1. i + 1 \in 1..Len(s)
    BY <1>1
  <2> QED
    BY <2>1 DEF Elems
<1>3. NoRepeat(s) => Head(s) \notin Elems(Tail(s))
  <2> SUFFICES ASSUME NoRepeat(s), NEW i \in 1..(Len(s) - 1) PROVE s[i + 1] # s[1]
    BY <1>1 DEF Elems
  <2>1. i + 1 \in 1..Len(s) /\ 1 \in 1..Len(s) /\ i + 1 # 1
    BY <1>1
  <2> QED
    BY <2>1 DEF NoRepeat
<1>4. Elems(s) \ {Head(s)} \subseteq Elems(Tail(s))
  <2> SUFFICES ASSUME NEW i \in 1..Len(s), s[i] # s[1] PROVE s[i] \in Elems(Tail(s))
    BY <1>1 DEF Elems
  <2>1. i - 1 \in 1..Len(Tail(s)) /\ Tail(s)[i - 1] = s[i]
    <3>1. i # 1 /\ i - 1 \in 1..(Len(s) - 1) /\ (i - 1) + 1 = i
      BY <1>1
    <3> QED
      BY <1>1, <3>1
  <2> QED
    BY <2>1 DEF Elems
<1>5. NoRepeat(s) => NoRepeat(Tail(s))
  <2> SUFFICES ASSUME NoRepeat(s), NEW i \in 1..(Len(s) - 1), NEW k \in 1..(Len(s) - 1),
                      s[i + 1] = s[k + 1]
               PROVE  i = k
    BY <1>1 DEF NoRepeat
  <2>1. i + 1 \in 1..Len(s) /\ k + 1 \in 1..Len(s)
    BY <1>1
  <2>2. i + 1 = k + 1
    BY <2>1 DEF NoRepeat
  <2> QED
    BY <2>2
<1>6. Head(s) \in Elems(s) /\ Elems(s) \subseteq S
  BY <1>1 DEF Elems
<1> QED
  BY <1>1, <1>2, <1>3, <1>4, <1>5, <1>6

\* Putting a new element at the end of a sequence.
LEMMA AppendElems ==
    ASSUME NEW S, NEW s \in Seq(S), NEW x \in S
    PROVE  /\ Elems(Append(s, x)) = Elems(s) \cup {x}
           /\ x \notin Elems(s) /\ NoRepeat(s) => NoRepeat(Append(s, x))
<1>1. /\ Append(s, x) \in Seq(S) /\ Len(s) \in Nat /\ Len(Append(s, x)) = Len(s) + 1
      /\ \A i \in 1..Len(s) : Append(s, x)[i] = s[i]
      /\ Append(s, x)[Len(s) + 1] = x
      /\ \A i \in 1..(Len(s) + 1) : i \in 1..Len(s) \/ i = Len(s) + 1
      /\ Len(s) + 1 \in 1..(Len(s) + 1) /\ 1..Len(s) \subseteq 1..(Len(s) + 1)
  OBVIOUS
<1>2. Elems(Append(s, x)) = Elems(s) \cup {x}
  BY <1>1 DEF Elems
<1>3. x \notin Elems(s) /\ NoRepeat(s) => NoRepeat(Append(s, x))
  BY <1>1 DEF Elems, NoRepeat
<1> QED
  BY <1>2, <1>3

\* The empty sequence has no elements.
LEMMA EmptyElems == Elems(<<>>) = {} /\ NoRepeat(<<>>)
  BY DEF Elems, NoRepeat

\* The types the proofs below need.
LEMMA PlaceTypes ==
    PlaceInv => /\ PcOK /\ PlacesOK /\ CountersOK /\ FlagsOK /\ HoldInv
                /\ SpotInv /\ ApartInv /\ HomeInv /\ LoanInv
  BY DEF PlaceInv, PlaceOK, OrderInv, ExclusionInv, TypeInv, TypeOK

\* A step that moves no job, with a goroutine that goes from a label where it has a job to
\* another such label, or from one where it has none to another.
LEMMA QuietStep ==
    ASSUME PlaceInv, NEW t \in Threads, NEW l, pc' = [pc EXCEPT ![t] = l], l # "recheck",
           pc[t] \in HoldLabels <=> l \in HoldLabels, pc[t] \notin BusyLabels, l \notin BusyLabels,
           UNCHANGED <<queue, stored, job, readCh, inflight, rlock, fate, ends>>
    PROVE  PlaceOK'
<1> USE PlaceTypes, ThreadFacts DEF PcOK, stored
<1>0. \A w \in Workers : (Spent(w)' <=> Spent(w)) /\ (pc'[Pipe(w)] = "storeNew" <=> pc[Pipe(w)] = "storeNew")
  BY DEF Spent, BusyLabels
<1>1. \A k \in Jobs : Stays(k)
  BY <1>0, ConstantsAssumption DEF Stays, At
<1>2. HomeInv' /\ ApartInv'
  BY <1>0 DEF HomeInv, ApartInv, BusyLabels
<1>3. LoanInv'
  BY DEF LoanInv
<1> QED
  BY <1>1, <1>2, <1>3, SpotStep DEF PlaceOK

\* A step that changes nothing of what PlaceOK speaks of.
LEMMA IdleStep ==
    ASSUME PlaceInv, UNCHANGED <<queue, stored, job, pc, readCh, inflight, rlock, fate, ends>>
    PROVE  PlaceOK'
<1> USE DEF stored
<1>1. \A k \in Jobs : Stays(k)
  BY DEF Stays, At, Spent
<1>2. HomeInv' /\ LoanInv' /\ ApartInv'
  BY PlaceTypes DEF HomeInv, LoanInv, ApartInv
<1> QED
  BY <1>1, <1>2, PlaceTypes, SpotStep DEF PlaceOK

\* A goroutine with a job is a spot of it.
LEMMA HeldJob ==
    ASSUME PlaceInv, NEW t \in Threads, pc[t] \in HoldLabels
    PROVE  /\ job[t] \in Jobs /\ WorkerOf[job[t]] = t[1] /\ t[1] \in Workers
           /\ \/ t = Main(t[1]) /\ At(job[t], "main")
              \/ t = Pipe(t[1]) /\ At(job[t], "pipe")
<1> USE PlaceTypes, ThreadFacts, ConstantsAssumption
<1>1. job[t] \in Jobs /\ job[t] # NoJob
  BY DEF HoldInv
<1>2. WorkerOf[job[t]] = t[1]
  BY <1>1 DEF HomeInv
<1> QED
  BY <1>1, <1>2 DEF At

\* A goroutine ends its job.
LEMMA FinishStep ==
    ASSUME PlaceInv, NEW t \in Threads, pc[t] \in HoldLabels, NEW how \in Ended, End(job[t], how),
           NEW l, pc' = [pc EXCEPT ![t] = l], l \notin HoldLabels,
           pc[t] \in BusyLabels <=> l \in BusyLabels, pc[t] # "storeNew",
           job' = [job EXCEPT ![t] = NoJob],
           UNCHANGED <<queue, stored, readCh, inflight, rlock>>
    PROVE  PlaceOK'
<1> USE PlaceTypes, ThreadFacts, ConstantsAssumption DEF PcOK, PlacesOK, stored
<1>0. \A w \in Workers : (Spent(w)' <=> Spent(w)) /\ (pc'[Pipe(w)] = "storeNew" <=> pc[Pipe(w)] = "storeNew")
  BY DEF Spent, HoldLabels
<1>1. PICK j \in Jobs : j = job[t]
  BY HeldJob
<1>2. PICK w \in Workers : w = t[1] /\ WorkerOf[j] = w
  BY <1>1, HeldJob
<1>3. (t = Main(w) /\ At(j, "main")) \/ (t = Pipe(w) /\ At(j, "pipe"))
  BY <1>1, <1>2, HeldJob
<1>4. /\ fate'[j] \in Ended /\ ends'[j] = ends[j] + 1
      /\ \A k \in Jobs \ {j} : fate'[k] = fate[k] /\ ends'[k] = ends[k]
  BY <1>1 DEF End, CountersOK, FlagsOK
<1>5. Calm(j) => \E p \in Spots : Leaves(j, p)
  <2>1. Calm(j) => \A x \in Spots : ~At(j, x)'
    BY <1>0, <1>2, <1>3 DEF At, SpotInv, Spots
  <2> QED
    BY <1>3, <1>4, <2>1 DEF Leaves, Spots
<1>6. ASSUME NEW k \in Jobs \ {j} PROVE Stays(k)
  <2>1. \A x \in Spots : At(k, x)' <=> At(k, x)
    BY <1>0, <1>1, <1>2, <1>3 DEF At, Spots
  <2> QED
    BY <1>4, <2>1 DEF Stays
<1>7. SpotInv'
  BY <1>5, <1>6, SpotStep DEF Calm
<1>8. HomeInv' /\ ApartInv'
  BY <1>0, <1>2, <1>3 DEF HomeInv, ApartInv
<1>9. LoanInv'
  <2>1. \A v \in Workers : pc'[Pipe(v)] = "recheck" => pc[Pipe(v)] = "recheck" /\ Pipe(v) # t
    BY DEF HoldLabels
  <2>2. UNCHANGED <<contested, inflight, rlock>>
    OBVIOUS
  <2>3. \A k \in Jobs : fate[k] \in Ended => fate'[k] \in Ended
    BY <1>4
  <2>4. \A v \in Workers : pc'[Pipe(v)] = "recheck" => job'[Pipe(v)] = job[Pipe(v)]
    BY <2>1
  <2>5. \A v \in Workers : inflight[v] \subseteq Jobs
    OBVIOUS
  <2> QED
    BY <2>1, <2>2, <2>3, <2>4, <2>5 DEF LoanInv
<1> QED
  BY <1>7, <1>8, <1>9 DEF PlaceOK

\* storePending ends the job stored before, if there is one.
LEMMA PlaceStoreRead ==
    ASSUME PlaceInv, NEW t \in Threads, StoreRead(t)
    PROVE  PlaceOK'
<1> USE PlaceTypes, ThreadFacts, ConstantsAssumption DEF PcOK, PlacesOK
<1>1. PICK w \in Workers : w = t[1]
  OBVIOUS
<1>2. /\ pc[t] = "storeRead" /\ pc' = [pc EXCEPT ![t] = "storeNew"]
      /\ UNCHANGED <<queue, pending, job, readCh, inflight, rlock>>
      /\ IF pending[w] # NoJob THEN End(pending[w], "overwritten") ELSE UNCHANGED <<fate, ends>>
      /\ contested' = contested \/ contested' = contested \cup {w}
  BY <1>1 DEF StoreRead, Goto, stored, reads, lock, outcome, Contest
<1>3. \A v \in Workers \ {w} : (Spent(v)' <=> Spent(v)) /\ pc'[Main(v)] = pc[Main(v)] /\ pc'[Pipe(v)] = pc[Pipe(v)]
  BY <1>1, <1>2 DEF Spent
<1>4. w \notin contested' => ~Spent(w) /\ Spent(w)' /\ (t = Main(w) \/ pc[Main(w)] \notin BusyLabels)
                             /\ (t = Pipe(w) \/ pc[Pipe(w)] # "storeNew")
  BY <1>1, <1>2 DEF StoreRead, Spent, BusyLabels, Other, Contest
<1>5. ASSUME NEW k \in Jobs, k = pending[w], w \notin contested' PROVE Leaves(k, "pending")
  <2>1. WorkerOf[k] = w /\ k # NoJob /\ Calm(k)
    BY <1>2, <1>5 DEF HomeInv, Calm
  <2>2. At(k, "pending")
    BY <1>4, <1>5, <2>1 DEF At
  <2>3. fate'[k] = "overwritten" /\ ends'[k] = ends[k] + 1
    BY <1>2, <1>5, <2>1 DEF End, CountersOK, FlagsOK
  <2>4. \A x \in Spots : ~At(k, x)'
    BY <1>2, <1>4, <1>5, <2>1, <2>2 DEF At, SpotInv, Spots
  <2> QED
    BY <2>2, <2>3, <2>4 DEF Leaves, Ended
<1>6. ASSUME NEW k \in Jobs, k # pending[w] PROVE Stays(k)
  <2>1. fate'[k] = fate[k] /\ ends'[k] = ends[k]
    <3>1. CASE pending[w] = NoJob
      BY <1>2, <3>1
    <3>2. CASE pending[w] # NoJob
      BY <1>2, <1>6, <3>2 DEF End, CountersOK, FlagsOK
    <3> QED
      BY <3>1, <3>2
  <2>2. \A x \in Spots : At(k, x)' <=> At(k, x)
    BY <1>2, <1>3, <1>6 DEF At, Spots
  <2> QED
    BY <2>1, <2>2 DEF Stays
<1>7. SpotInv'
  <2>1. ASSUME NEW k \in Jobs, Calm(k)' PROVE Stays(k) \/ \E p \in Spots : Leaves(k, p)
    <3>1. CASE k = pending[w]
      BY <1>5, <2>1, <3>1 DEF Calm, HomeInv, Spots
    <3>2. CASE k # pending[w]
      BY <1>6, <3>2
    <3> QED
      BY <3>1, <3>2
  <2> QED
    BY <1>2, <2>1, SpotStep
<1>8. ApartInv'
  BY <1>1, <1>2, <1>3, <1>4 DEF ApartInv, BusyLabels
<1>9. HomeInv'
  <2>1. \A u \in Threads : pc'[u] \notin HoldLabels => pc[u] \notin HoldLabels
    BY <1>2 DEF HoldLabels
  <2> QED
    BY <1>2, <2>1 DEF HomeInv
<1>10. LoanInv'
  <2>1. \A v \in Workers : pc'[Pipe(v)] = "recheck" => pc[Pipe(v)] = "recheck"
    BY <1>2
  <2>2. \A k \in Jobs : fate[k] \in Ended => fate'[k] \in Ended
    BY <1>2 DEF End, FlagsOK, Ended
  <2> QED
    BY <1>2, <2>1, <2>2 DEF LoanInv
<1> QED
  BY <1>7, <1>8, <1>9, <1>10 DEF PlaceOK

\* storePending makes the goroutine's job the pending one.
LEMMA PlaceStoreNew ==
    ASSUME PlaceInv, NEW t \in Threads, StoreNew(t)
    PROVE  PlaceOK'
<1> USE PlaceTypes, ThreadFacts, ConstantsAssumption DEF PcOK, PlacesOK
<1>0. pc[t] \in HoldLabels
  BY DEF StoreNew, HoldLabels
<1>1. PICK j \in Jobs : j = job[t]
  BY <1>0, HeldJob
<1>2. PICK w \in Workers : w = t[1] /\ WorkerOf[j] = w
  BY <1>0, <1>1, HeldJob
<1>3. /\ pc[t] = "storeNew" /\ pc' = [pc EXCEPT ![t] = Home(t)]
      /\ pending' = [pending EXCEPT ![w] = j] /\ job' = [job EXCEPT ![t] = NoJob]
      /\ UNCHANGED <<queue, contested, readCh, inflight, rlock, fate, ends>>
  BY <1>1, <1>2 DEF StoreNew, GoHome, Goto, reads, lock, outcome
<1>4. (t = Main(w) /\ At(j, "main")) \/ (t = Pipe(w) /\ At(j, "pipe"))
  BY <1>0, <1>1, <1>2, HeldJob
<1>5. Home(t) \in {"loop", "recv"}
  BY DEF Home
<1>6. /\ \A v \in Workers \ {w} : Spent(v)' <=> Spent(v)
      /\ w \notin contested => Spent(w) /\ ~Spent(w)'
  BY <1>2, <1>3, <1>4, <1>5 DEF Spent, ApartInv, BusyLabels
<1>7. Calm(j) => \E p \in Spots : Shifts(j, p, "pending")
  <2>1. Calm(j) => \A x \in Spots : At(j, x)' <=> x = "pending"
    BY <1>2, <1>3, <1>4, <1>6 DEF At, SpotInv, Spots, Calm
  <2> QED
    BY <1>3, <1>4, <2>1 DEF Shifts, Spots
<1>8. ASSUME NEW k \in Jobs \ {j}, Calm(k) PROVE Stays(k)
  <2>1. \A x \in Spots : At(k, x)' <=> At(k, x)
    BY <1>1, <1>2, <1>3, <1>4, <1>6, <1>8 DEF At, Spots, Calm
  <2> QED
    BY <1>3, <2>1 DEF Stays
<1>9. SpotInv'
  <2>1. "pending" \in Spots
    BY DEF Spots
  <2> QED
    BY <1>3, <1>7, <1>8, <2>1, SpotStep DEF Calm
<1>10. ApartInv'
  BY <1>2, <1>3, <1>4, <1>5 DEF ApartInv, BusyLabels
<1>11. HomeInv'
  BY <1>2, <1>3, <1>4, <1>5 DEF HomeInv, HoldLabels
<1>12. LoanInv'
  BY <1>3, <1>5 DEF LoanInv
<1> QED
  BY <1>9, <1>10, <1>11, <1>12 DEF PlaceOK

-----------------------------------------------------------------------------
(***************************************************************************)
(* The steps.                                                              *)
(***************************************************************************)
\* SubmitJob admits a job to the queue or refuses it.
LEMMA PlaceSubmit ==
    ASSUME PlaceInv, NEW j \in Jobs, SubmitJob(j)
    PROVE  PlaceOK'
<1> USE PlaceTypes, ConstantsAssumption DEF PlacesOK
<1>0. PICK w \in Workers : w = WorkerOf[j]
  OBVIOUS
<1>1. /\ fate[j] = "unposted"
      /\ UNCHANGED <<pending, contested, job, pc, readCh, inflight, rlock, ends>>
      /\ Calm(j) => \A x \in Spots : ~At(j, x)
      /\ \A v \in Workers : Spent(v)' <=> Spent(v)
  BY DEF SubmitJob, threads, stored, reads, lock, SpotInv, Spent
<1>2. CASE state[w] = "running"
  <2>1. queue' = [queue EXCEPT ![w] = @ \cup {j}] /\ fate' = [fate EXCEPT ![j] = "live"]
    BY <1>0, <1>2 DEF SubmitJob
  <2>2. Calm(j) => Enters(j)
    BY <1>0, <1>1, <2>1 DEF Enters, At, Spots, FlagsOK
  <2>3. ASSUME NEW k \in Jobs \ {j} PROVE Stays(k)
    BY <1>0, <1>1, <2>1 DEF Stays, At, Spots, FlagsOK
  <2>4. HomeInv' /\ ApartInv'
    BY <1>0, <1>1, <2>1 DEF HomeInv, ApartInv
  <2>5. LoanInv'
    BY <1>1, <2>1 DEF LoanInv, FlagsOK, Ended
  <2> QED
    BY <1>1, <2>2, <2>3, <2>4, <2>5, SpotStep DEF PlaceOK, Calm
<1>3. CASE state[w] # "running"
  <2>1. UNCHANGED queue /\ fate' = [fate EXCEPT ![j] = "rejected"]
    BY <1>0, <1>3 DEF SubmitJob
  <2>2. Calm(j) => Refused(j)
    BY <1>1, <2>1 DEF Refused, At, FlagsOK
  <2>3. ASSUME NEW k \in Jobs \ {j} PROVE Stays(k)
    BY <1>1, <2>1 DEF Stays, At, FlagsOK
  <2>4. HomeInv' /\ ApartInv'
    BY <1>1, <2>1 DEF HomeInv, ApartInv
  <2>5. LoanInv'
    BY <1>1, <2>1 DEF LoanInv, FlagsOK, Ended
  <2> QED
    BY <1>1, <2>2, <2>3, <2>4, <2>5, SpotStep DEF PlaceOK, Calm
<1> QED
  BY <1>2, <1>3

\* execWrite, in either goroutine.
LEMMA PlaceExecWrite ==
    ASSUME PlaceInv, NEW t \in Threads, ExecWrite(t)
    PROVE  PlaceOK'
<1> USE PlaceTypes, ThreadFacts DEF threads, reads, lock, outcome, Goto, BusyLabels
<1>1. CASE WriteTarget(t)
  BY <1>1, QuietStep DEF WriteTarget, HoldLabels
<1>2. CASE WriteSpin(t)
  BY <1>2, QuietStep DEF WriteSpin, HoldLabels
<1>3. CASE WriteSpinClosed(t)
  BY <1>3, QuietStep DEF WriteSpinClosed, HoldLabels
<1>4. CASE WriteTryLock(t)
  BY <1>4, QuietStep DEF WriteTryLock, HoldLabels
<1>5. CASE WriteTryClosed(t)
  BY <1>5, QuietStep DEF WriteTryClosed, HoldLabels
<1>6. CASE WriteExec(t)
  BY <1>6, FinishStep DEF WriteExec, HoldLabels, Ended
<1>7. CASE WriteDec(t)
  <2>1. job[t] = NoJob
    BY <1>7 DEF WriteDec, HomeInv, HoldLabels
  <2>2. UNCHANGED job
    BY <1>7, <2>1 DEF WriteDec, GoHome, PlacesOK
  <2> QED
    BY <1>7, <2>2, QuietStep DEF WriteDec, GoHome, Home, HoldLabels
<1>8. CASE StoreRead(t) \/ StoreNew(t)
  BY <1>8, PlaceStoreRead, PlaceStoreNew
<1> QED
  BY <1>1, <1>2, <1>3, <1>4, <1>5, <1>6, <1>7, <1>8 DEF ExecWrite

\* A job is taken from the queue.
LEMMA PlaceNextJob ==
    ASSUME PlaceInv, NEW w \in Workers, NEW j \in Jobs, NextJob(w, j)
    PROVE  PlaceOK'
<1> USE PlaceTypes, ThreadFacts, ConstantsAssumption DEF PcOK, PlacesOK
<1>0. WorkerOf[j] = w /\ Main(w) \in Threads /\ job[Main(w)] = NoJob
  BY ZenonT(40) DEF NextJob, HomeInv, HoldLabels
<1>6. \A v \in Workers : Spent(v)' <=> Spent(v)
  BY DEF NextJob, Goto, Spent, BusyLabels
<1>1. Calm(j) => Shifts(j, "queue", "main")
  BY <1>0, <1>6 DEF stored, NextJob, Goto, SpotInv, Shifts, stored, reads, lock, outcome, At, Spots
<1>2. ASSUME NEW k \in Jobs \ {j} PROVE Stays(k)
  BY <1>0, <1>6, <1>2 DEF stored, NextJob, Goto, Stays, stored, reads, lock, outcome, At, Spots
<1>3. SpotInv'
  BY <1>1, <1>2, SpotStep DEF Spots, Calm, NextJob, stored
<1>4. HomeInv' /\ ApartInv'
  BY <1>0 DEF stored, ApartInv, BusyLabels, NextJob, Goto, HomeInv, stored, reads, lock, outcome, HoldLabels
<1>5. LoanInv'
  BY <1>0 DEF stored, NextJob, Goto, LoanInv, stored, reads, lock, outcome
<1> QED
  BY <1>3, <1>4, <1>5 DEF PlaceOK

\* A read is sent to the pipeline, or discarded when the channel is full.
LEMMA PlaceSendRead ==
    ASSUME PlaceInv, NEW w \in Workers, SendRead(w)
    PROVE  PlaceOK'
<1> USE PlaceTypes, ThreadFacts, ConstantsAssumption DEF PcOK, PlacesOK
<1>0. Main(w) \in Threads /\ pc[Main(w)] \in HoldLabels
  BY DEF SendRead, HoldLabels
<1>1. CASE Len(readCh[w]) < ReadChCap
  <2>1. PICK j \in Jobs : j = job[Main(w)]
    BY <1>0, HeldJob
  <2>2. WorkerOf[j] = w /\ At(j, "main")
    BY <1>0, <2>1, HeldJob
  <2>3. Calm(j) => j \notin Elems(readCh[w])
    BY <2>2 DEF SpotInv, At, Spots
  <2>4. /\ Elems(Append(readCh[w], j)) = Elems(readCh[w]) \cup {j}
        /\ Calm(j) => NoRepeat(Append(readCh[w], j))
    BY <2>2, <2>3, AppendElems DEF HomeInv, Calm
  <2>5. /\ readCh' = [readCh EXCEPT ![w] = Append(readCh[w], j)]
        /\ pc' = [pc EXCEPT ![Main(w)] = "loop"] /\ job' = [job EXCEPT ![Main(w)] = NoJob]
        /\ UNCHANGED <<queue, pending, contested, inflight, rlock, fate, ends>>
        /\ \A v \in Workers : Spent(v)' <=> Spent(v)
    BY <1>1, <2>1 DEF SendRead, Spent, BusyLabels, stored, GoHome, Goto, Home, lock, outcome
  <2>6. Calm(j) => Shifts(j, "main", "channel")
    BY <2>2, <2>4, <2>5 DEF Shifts, SpotInv, At, Spots
  <2>7. ASSUME NEW k \in Jobs \ {j} PROVE Stays(k)
    BY <2>1, <2>2, <2>4, <2>5, <2>7 DEF Stays, At, Spots
  <2>8. SpotInv'
    BY <2>5, <2>6, <2>7, SpotStep DEF Spots, Calm
  <2>9. HomeInv' /\ ApartInv'
    BY <2>2, <2>4, <2>5 DEF HomeInv, ApartInv, BusyLabels, HoldLabels, Calm
  <2>10. LoanInv'
    BY <2>5 DEF LoanInv
  <2> QED
    BY <2>8, <2>9, <2>10 DEF PlaceOK
<1>2. CASE ~(Len(readCh[w]) < ReadChCap)
  BY <1>0, <1>2, FinishStep DEF SendRead, GoHome, Goto, Home, lock, outcome, HoldLabels, BusyLabels, Ended
<1> QED
  BY <1>1, <1>2

\* The main loop.
LEMMA PlaceMainLoop ==
    ASSUME PlaceInv, NEW w \in Workers, MainLoop(w)
    PROVE  PlaceOK'
<1> USE ThreadFacts DEF threads, reads, lock, outcome, Goto, BusyLabels
<1>1. ASSUME NEW j \in Jobs, NextJob(w, j) PROVE PlaceOK'
  BY <1>1, PlaceNextJob
<1>2. CASE LoadMode(w)
  <2>1. CASE pc[Main(w)] = "mode1"
    BY <1>2, <2>1, QuietStep DEF LoadMode, HoldLabels
  <2>2. CASE pc[Main(w)] = "mode2"
    BY <1>2, <2>2, QuietStep DEF LoadMode, HoldLabels
  <2> QED
    BY <1>2, <2>1, <2>2 DEF LoadMode
<1>3. CASE SerialExec(w)
  BY <1>3, FinishStep DEF SerialExec, GoHome, Home, HoldLabels, Ended
<1>4. CASE ExecWithRW(w)
  <2>1. CASE pc[Main(w)] = "rw1"
    BY <1>4, <2>1, QuietStep DEF ExecWithRW, HoldLabels
  <2>2. CASE pc[Main(w)] = "rw2"
    BY <1>4, <2>2, QuietStep DEF ExecWithRW, HoldLabels
  <2> QED
    BY <1>4, <2>1, <2>2 DEF ExecWithRW
<1>5. CASE DispatchRead(w)
  BY <1>5, QuietStep DEF DispatchRead, HoldLabels
<1>6. CASE SendRead(w)
  BY <1>6, PlaceSendRead
<1>7. CASE ExecWrite(Main(w))
  BY <1>7, PlaceExecWrite
<1> QED
  BY <1>1, <1>2, <1>3, <1>4, <1>5, <1>6, <1>7 DEF MainLoop

\* The pipeline takes a read from the channel.
LEMMA PlacePipeRecv ==
    ASSUME PlaceInv, NEW w \in Workers, PipeRecv(w), readCh[w] # <<>>
    PROVE  PlaceOK'
<1> USE PlaceTypes, ThreadFacts, ConstantsAssumption DEF PcOK, PlacesOK
<1>0. Pipe(w) \in Threads /\ job[Pipe(w)] = NoJob
  BY DEF PipeRecv, HomeInv, HoldLabels
<1>1. PICK j \in Jobs : j = Head(readCh[w])
  OBVIOUS
<1>2. /\ WorkerOf[j] = w /\ j \in Elems(readCh[w])
      /\ Elems(Tail(readCh[w])) \subseteq Elems(readCh[w])
      /\ Calm(j) => /\ Elems(Tail(readCh[w])) = Elems(readCh[w]) \ {j}
                    /\ NoRepeat(Tail(readCh[w]))
  BY <1>1, TailElems DEF HomeInv, Calm
<1>3. /\ job' = [job EXCEPT ![Pipe(w)] = j] /\ readCh' = [readCh EXCEPT ![w] = Tail(readCh[w])]
      /\ pc' = [pc EXCEPT ![Pipe(w)] = "gate"]
      /\ UNCHANGED <<queue, pending, contested, inflight, rlock, fate, ends>>
      /\ \A v \in Workers : Spent(v)' <=> Spent(v)
  BY <1>1 DEF PipeRecv, Spent, stored, Goto, lock, outcome
<1>4. At(j, "channel")
  BY <1>2 DEF At
<1>5. Calm(j) => Shifts(j, "channel", "pipe")
  BY <1>2, <1>3, <1>4 DEF Shifts, SpotInv, At, Spots
<1>6. ASSUME NEW k \in Jobs \ {j}, Calm(k) PROVE Stays(k)
  BY <1>0, <1>2, <1>3, <1>6 DEF Stays, At, Spots, Calm
<1>7. SpotInv'
  BY <1>3, <1>5, <1>6, SpotStep DEF Spots, Calm
<1>8. HomeInv' /\ ApartInv'
  BY <1>0, <1>2, <1>3 DEF HomeInv, ApartInv, HoldLabels, Calm
<1>9. LoanInv'
  BY <1>3 DEF LoanInv
<1> QED
  BY <1>7, <1>8, <1>9 DEF PlaceOK

\* The pipeline has the read lock for its job, and starts a goroutine for it or gives up.
LEMMA PlaceLaunch ==
    ASSUME PlaceInv, NEW w \in Workers, PipeRLock(w) \/ LaunchRead(w)
    PROVE  PlaceOK'
<1> USE PlaceTypes, ThreadFacts, ConstantsAssumption DEF PcOK, PlacesOK
<1>0. Pipe(w) \in Threads /\ pc[Pipe(w)] \in HoldLabels
  BY DEF PipeRLock, LaunchRead, HoldLabels
<1>1. PICK j \in Jobs : j = job[Pipe(w)]
  BY <1>0, HeldJob
<1>2. WorkerOf[j] = w /\ At(j, "pipe")
  BY <1>0, <1>1, HeldJob
<1>3. \A v \in Workers : Calm(j) \/ v # w => j \notin inflight[v]
  <2> SUFFICES ASSUME NEW v \in Workers, Calm(j) \/ v # w, j \in inflight[v] PROVE FALSE
    OBVIOUS
  <2>1. v = w
    BY <1>2 DEF HomeInv
  <2>2. fate[j] = "live" /\ ~At(j, "reading")
    BY <1>2, <2>1 DEF SpotInv, Spots
  <2> QED
    BY <1>2, <2>1, <2>2 DEF At, LoanInv, Ended, Calm
<1>7. UNCHANGED <<pending, contested>> /\ \A v \in Workers : Spent(v)' <=> Spent(v)
  BY DEF PipeRLock, LaunchRead, GoHome, Home, Goto, Spent, stored
<1>4. CASE PipeRLock(w)
  <2>1. /\ rlock' = rlock \cup {j} /\ pc' = [pc EXCEPT ![Pipe(w)] = "recheck"]
        /\ UNCHANGED <<queue, job, readCh, inflight, fate, ends>>
    BY <1>1, <1>4 DEF PipeRLock, Goto, reads, outcome
  <2>2. ASSUME NEW k \in Jobs, Calm(k) PROVE Stays(k)
    BY <1>2, <1>3, <1>7, <2>1, <2>2 DEF Stays, At, Spots, Calm
  <2>3. HomeInv' /\ ApartInv'
    BY <1>0, <1>7, <2>1 DEF HomeInv, ApartInv, HoldLabels
  <2>4. LoanInv'
    BY <1>1, <1>7, <2>1 DEF LoanInv
  <2> QED
    BY <1>7, <2>2, <2>3, <2>4, SpotStep DEF PlaceOK, Calm
<1>5. CASE LaunchRead(w) /\ enabled
  <2>1. /\ inflight' = [inflight EXCEPT ![w] = @ \cup {j}] /\ (Calm(j) => j \in rlock)
        /\ pc' = [pc EXCEPT ![Pipe(w)] = "recv"] /\ job' = [job EXCEPT ![Pipe(w)] = NoJob]
        /\ UNCHANGED <<queue, readCh, rlock, fate, ends>>
    BY <1>1, <1>2, <1>5 DEF LaunchRead, GoHome, Goto, Home, outcome, LoanInv, Calm
  <2>2. Calm(j) => Shifts(j, "pipe", "reading")
    BY <1>2, <1>7, <2>1 DEF Shifts, SpotInv, At, Spots
  <2>3. ASSUME NEW k \in Jobs \ {j} PROVE Stays(k)
    BY <1>1, <1>2, <1>7, <2>1, <2>3 DEF Stays, At, Spots
  <2>4. SpotInv'
    BY <1>7, <2>2, <2>3, SpotStep DEF Spots, Calm
  <2>5. HomeInv' /\ ApartInv'
    BY <1>0, <1>2, <1>7, <2>1 DEF HomeInv, ApartInv, HoldLabels
  <2>6. LoanInv'
    BY <1>2, <1>7, <2>1 DEF LoanInv, Calm
  <2> QED
    BY <2>4, <2>5, <2>6 DEF PlaceOK
<1>6. CASE LaunchRead(w) /\ ~enabled
  <2>1. /\ rlock' = rlock \ {j} /\ pc' = [pc EXCEPT ![Pipe(w)] = "wtarget"]
        /\ UNCHANGED <<queue, job, readCh, inflight, fate, ends>>
    BY <1>1, <1>6 DEF LaunchRead, Goto, outcome
  <2>2. ASSUME NEW k \in Jobs, Calm(k) PROVE Stays(k)
    BY <1>2, <1>3, <1>7, <2>1, <2>2 DEF Stays, At, Spots, Calm
  <2>3. HomeInv' /\ ApartInv'
    BY <1>0, <1>7, <2>1 DEF HomeInv, ApartInv, HoldLabels
  <2>4. LoanInv'
    <3>1. ASSUME NEW v \in Workers \ contested, pc'[Pipe(v)] = "recheck"
          PROVE job[Pipe(v)] \in rlock /\ job[Pipe(v)] # j
      <4>1. pc[Pipe(v)] = "recheck" /\ v # w /\ Pipe(v) \in Threads
        BY <2>1, <3>1
      <4>2. WorkerOf[job[Pipe(v)]] = v
        BY <4>1, HeldJob DEF HoldLabels
      <4> QED
        BY <1>2, <4>1, <4>2 DEF LoanInv
    <3> QED
      BY <1>2, <1>3, <1>7, <2>1, <3>1 DEF LoanInv, Calm
  <2> QED
    BY <1>7, <2>2, <2>3, <2>4, SpotStep DEF PlaceOK, Calm
<1> QED
  BY <1>4, <1>5, <1>6

\* The read pipeline.
LEMMA PlacePipeline ==
    ASSUME PlaceInv, NEW w \in Workers, Pipeline(w)
    PROVE  PlaceOK'
<1> USE ThreadFacts DEF threads, reads, lock, outcome, Goto, BusyLabels
<1>1. CASE PipeRecv(w)
  <2>1. CASE readCh[w] # <<>>
    BY <1>1, <2>1, PlacePipeRecv
  <2>2. CASE readCh[w] = <<>>
    <3>1. /\ pc[Pipe(w)] = "recv" /\ pc' = [pc EXCEPT ![Pipe(w)] = "done"]
          /\ UNCHANGED <<queue, stored, job, readCh, inflight, rlock, fate, ends>>
      BY <1>1, <2>2 DEF PipeRecv
    <3> QED
      BY <3>1, QuietStep DEF HoldLabels
  <2> QED
    BY <2>1, <2>2
<1>2. CASE LaunchGate(w)
  <2>1. CASE state[w] = "closed" /\ expired[w]
    BY <1>2, <2>1, FinishStep DEF LaunchGate, GoHome, Home, HoldLabels, Ended
  <2>2. CASE ~(state[w] = "closed" /\ expired[w])
    BY <1>2, <2>2, QuietStep DEF LaunchGate, HoldLabels
  <2> QED
    BY <2>1, <2>2
<1>3. CASE LaunchToken(w)
  BY <1>3, QuietStep DEF LaunchToken, HoldLabels
<1>4. CASE PipeRLock(w) \/ LaunchRead(w)
  BY <1>4, PlaceLaunch
<1>5. CASE ExecWrite(Pipe(w))
  BY <1>5, PlaceExecWrite
<1> QED
  BY <1>1, <1>2, <1>3, <1>4, <1>5 DEF Pipeline

\* A read goroutine executes its job, and is counted out.
LEMMA PlaceReader ==
    ASSUME PlaceInv, NEW w \in Workers, NEW j \in Jobs, Reader(w, j)
    PROVE  PlaceOK'
<1> USE PlaceTypes, ThreadFacts, ConstantsAssumption DEF PlacesOK
<1>1. CASE ReadExec(w, j)
  <2>1. /\ WorkerOf[j] = w /\ j \in inflight[w] /\ j \in rlock /\ At(j, "reading")
        /\ rlock' = rlock \ {j} /\ End(j, "executed")
        /\ UNCHANGED <<queue, pending, contested, job, pc, readCh, inflight>>
        /\ \A v \in Workers : Spent(v)' <=> Spent(v)
    BY <1>1 DEF ReadExec, threads, stored, HomeInv, At, Spent
  <2>2. /\ fate'[j] = "executed" /\ ends'[j] = ends[j] + 1
        /\ \A k \in Jobs \ {j} : fate'[k] = fate[k] /\ ends'[k] = ends[k]
    BY <2>1 DEF End, CountersOK, FlagsOK
  <2>3. Calm(j) => Leaves(j, "reading")
    BY <2>1, <2>2 DEF Leaves, SpotInv, At, Spots, Ended
  <2>4. ASSUME NEW k \in Jobs \ {j} PROVE Stays(k)
    BY <2>1, <2>2, <2>4 DEF Stays, At, Spots
  <2>5. SpotInv'
    BY <2>1, <2>3, <2>4, SpotStep DEF Spots, Calm
  <2>6. HomeInv' /\ ApartInv'
    BY <2>1 DEF HomeInv, ApartInv
  <2>7. LoanInv'
    <3>1. ASSUME NEW v \in Workers \ contested, pc[Pipe(v)] = "recheck" PROVE job[Pipe(v)] # j
      <4>1. pc[Pipe(v)] \in HoldLabels /\ Pipe(v) \in Threads
        BY <3>1 DEF HoldLabels
      <4>2. At(job[Pipe(v)], "pipe") /\ WorkerOf[job[Pipe(v)]] = v
        BY <4>1, HeldJob
      <4> QED
        BY <2>1, <4>2 DEF SpotInv, Spots, Calm
    <3>2. \A k \in Jobs : fate[k] \in Ended => fate'[k] \in Ended
      BY <2>2 DEF Ended
    <3>3. \A v \in Workers : \A k \in inflight[v] : k \in Jobs /\ (k = j => fate'[k] \in Ended)
      BY <2>2 DEF Ended
    <3>4. rlock' = rlock \ {j} /\ UNCHANGED <<contested, job, pc, inflight>>
      BY <2>1
    <3> QED
      BY <3>1, <3>2, <3>3, <3>4 DEF LoanInv
  <2> QED
    BY <2>5, <2>6, <2>7 DEF PlaceOK
<1>2. CASE ReadDone(w, j)
  <2>1. /\ j \notin rlock /\ inflight' = [inflight EXCEPT ![w] = @ \ {j}]
        /\ UNCHANGED <<queue, pending, contested, job, pc, readCh, rlock, fate, ends>>
        /\ \A v \in Workers : Spent(v)' <=> Spent(v)
    BY <1>2 DEF ReadDone, threads, stored, lock, outcome, Spent
  <2>2. ASSUME NEW k \in Jobs PROVE Stays(k)
    BY <2>1 DEF Stays, At
  <2>3. HomeInv' /\ ApartInv' /\ LoanInv'
    BY <2>1 DEF HomeInv, ApartInv, LoanInv
  <2> QED
    BY <2>1, <2>2, <2>3, SpotStep DEF PlaceOK
<1> QED
  BY <1>1, <1>2 DEF Reader

\* The drain takes pendingJob, and executes it in the next step or ends it at once.
LEMMA PlaceDrainPending ==
    ASSUME PlaceInv, NEW w \in Workers, DrainPending(w)
    PROVE  PlaceOK'
<1> USE PlaceTypes, ThreadFacts, ConstantsAssumption DEF PcOK, PlacesOK
<1>0. Main(w) \in Threads /\ job[Main(w)] = NoJob /\ pc[Main(w)] = "drain"
  BY DEF DrainPending, HomeInv, HoldLabels
<1>1. CASE pending[w] = NoJob
  <2>1. /\ pc' = [pc EXCEPT ![Main(w)] = "drainQueue"]
        /\ UNCHANGED <<queue, stored, job, readCh, inflight, rlock, fate, ends>>
    BY <1>1 DEF DrainPending, Goto, stored, reads, lock, outcome
  <2> QED
    BY <1>0, <2>1, QuietStep DEF HoldLabels, BusyLabels
<1>2. CASE pending[w] # NoJob
  <2>1. PICK j \in Jobs : j = pending[w] /\ WorkerOf[j] = w
    BY <1>2 DEF HomeInv
  <2>2. /\ UNCHANGED <<queue, pending, readCh, inflight, rlock>>
        /\ pc' = [pc EXCEPT ![Main(w)] = pc'[Main(w)]]
        /\ \/ /\ pc'[Main(w)] = "heldExec" /\ job' = [job EXCEPT ![Main(w)] = j]
              /\ UNCHANGED <<fate, ends>>
           \/ /\ pc'[Main(w)] = "drainClear" /\ UNCHANGED job
              /\ \E how \in Ended : End(j, how)
        /\ contested' = contested \/ contested' = contested \cup {w}
    BY <1>0, <1>2, <2>1 DEF DrainPending, Drain, Goto, reads, lock, outcome, Ended, Contest
  <2>3. /\ \A v \in Workers \ {w} : Spent(v)' <=> Spent(v)
        /\ w \notin contested' => pc[Pipe(w)] # "storeNew" /\ w \notin contested
        /\ w \notin contested' => ~Spent(w) /\ Spent(w)'
    BY <1>0, <1>2, <2>2 DEF DrainPending, Spent, BusyLabels, Contest
  <2>4. w \notin contested' => At(j, "pending")
    BY <2>1, <2>3 DEF At
  <2>5. ASSUME w \notin contested'
        PROVE  (\E p, q \in Spots : Shifts(j, p, q)) \/ \E p \in Spots : Leaves(j, p)
    <3>1. Calm(j)
      BY <2>1, <2>3, <2>5 DEF Calm
    <3>2. CASE pc'[Main(w)] = "heldExec"
      <4>1. Shifts(j, "pending", "main")
        BY <2>1, <2>2, <2>3, <2>4, <2>5, <3>1, <3>2 DEF Shifts, SpotInv, At, Spots
      <4> QED
        BY <4>1 DEF Spots
    <3>3. CASE pc'[Main(w)] = "drainClear"
      <4>1. fate'[j] \in Ended /\ ends'[j] = ends[j] + 1
        BY <2>2, <3>3 DEF End, CountersOK, FlagsOK
      <4>2. \A x \in Spots : ~At(j, x)'
        BY <2>1, <2>2, <2>3, <2>4, <2>5, <3>1, <3>3 DEF SpotInv, At, Spots
      <4>3. Leaves(j, "pending")
        BY <2>4, <2>5, <4>1, <4>2 DEF Leaves
      <4> QED
        BY <4>3 DEF Spots
    <3> QED
      BY <2>2, <3>2, <3>3
  <2>6. ASSUME NEW k \in Jobs \ {j} PROVE Stays(k)
    <3>1. fate'[k] = fate[k] /\ ends'[k] = ends[k]
      <4>1. CASE UNCHANGED <<fate, ends>>
        BY <4>1
      <4>2. ASSUME NEW how \in Ended, End(j, how)
            PROVE  fate'[k] = fate[k] /\ ends'[k] = ends[k]
        BY <2>6, <4>2 DEF End, CountersOK, FlagsOK
      <4> QED
        BY <2>2, <4>1, <4>2
    <3>2. \A x \in Spots : At(k, x)' <=> At(k, x)
      BY <1>0, <2>1, <2>2, <2>3, <2>6 DEF At, Spots
    <3> QED
      BY <3>1, <3>2 DEF Stays
  <2>7. SpotInv'
    <3>1. ASSUME NEW k \in Jobs, Calm(k)'
          PROVE  \/ Stays(k) \/ (\E p, q \in Spots : Shifts(k, p, q))
                 \/ \E p \in Spots : Leaves(k, p)
      BY <2>1, <2>5, <2>6, <3>1 DEF Calm
    <3> QED
      BY <2>2, <3>1, SpotStep
  <2>8. ApartInv'
    BY <2>2, <2>3 DEF ApartInv, BusyLabels
  <2>9. HomeInv'
    <3>1. \A v \in Workers :
            /\ \A k \in queue'[v] \cup inflight'[v] \cup Elems(readCh'[v]) : WorkerOf[k] = v
            /\ v \notin contested' => NoRepeat(readCh'[v])
            /\ pending'[v] # NoJob => WorkerOf[pending'[v]] = v
      BY <2>2 DEF HomeInv
    <3>2. \A t \in Threads : /\ pc'[t] \notin HoldLabels => job'[t] = NoJob
                             /\ job'[t] # NoJob => WorkerOf[job'[t]] = t[1]
      <4>1. ASSUME NEW t \in Threads \ {Main(w)} PROVE pc'[t] = pc[t] /\ job'[t] = job[t]
        BY <2>2, <4>1
      <4>2. \/ job'[Main(w)] = j /\ pc'[Main(w)] \in HoldLabels
            \/ job'[Main(w)] = NoJob
        BY <1>0, <2>2 DEF HoldLabels
      <4> QED
        BY <1>0, <2>1, <4>1, <4>2 DEF HomeInv
    <3> QED
      BY <3>1, <3>2 DEF HomeInv
  <2>10. LoanInv'
    <3>1. \A k \in Jobs : fate[k] \in Ended => fate'[k] \in Ended
      BY <2>2 DEF End, FlagsOK, Ended
    <3>2. \A v \in Workers : pc'[Pipe(v)] = pc[Pipe(v)] /\ job'[Pipe(v)] = job[Pipe(v)]
      BY <2>2
    <3> QED
      BY <2>2, <3>1, <3>2 DEF LoanInv
  <2> QED
    BY <2>7, <2>8, <2>9, <2>10 DEF PlaceOK
<1> QED
  BY <1>1, <1>2

\* pendingJob is reset when its job has ended.
LEMMA PlaceDrainClear ==
    ASSUME PlaceInv, NEW w \in Workers, DrainClear(w)
    PROVE  PlaceOK'
<1> USE PlaceTypes, ThreadFacts, ConstantsAssumption DEF PcOK, PlacesOK
<1>1. /\ pc[Main(w)] = "drainClear" /\ pc' = [pc EXCEPT ![Main(w)] = "drainQueue"]
      /\ pending' = [pending EXCEPT ![w] = NoJob]
      /\ UNCHANGED <<queue, contested, job, readCh, inflight, rlock, fate, ends>>
  BY DEF DrainClear, Goto, reads, lock, outcome
<1>2. /\ \A v \in Workers \ {w} : Spent(v)' <=> Spent(v)
      /\ Spent(w)
  BY <1>1 DEF Spent, BusyLabels
<1>3. \A k \in Jobs : Stays(k)
  BY <1>1, <1>2 DEF Stays, At, Spots
<1>4. HomeInv' /\ ApartInv' /\ LoanInv'
  BY <1>1 DEF HomeInv, ApartInv, LoanInv, HoldLabels, BusyLabels
<1> QED
  BY <1>1, <1>3, <1>4, SpotStep DEF PlaceOK

\* The drain takes a job of the queue, and executes it in the next step or ends it at once.
LEMMA PlaceDrainNext ==
    ASSUME PlaceInv, NEW w \in Workers, NEW j \in Jobs, DrainNext(w, j)
    PROVE  PlaceOK'
<1> USE PlaceTypes, ThreadFacts, ConstantsAssumption DEF PcOK, PlacesOK
<1>0. Main(w) \in Threads /\ job[Main(w)] = NoJob /\ pc[Main(w)] = "drainQueue"
  BY DEF DrainNext, HomeInv, HoldLabels
<1>1. /\ j \in queue[w] /\ queue' = [queue EXCEPT ![w] = queue[w] \ {j}]
      /\ UNCHANGED <<pending, contested, readCh, inflight, rlock>>
      /\ WorkerOf[j] = w /\ At(j, "queue")
  BY DEF DrainNext, stored, reads, lock, HomeInv, At
<1>2. \A v \in Workers :
        /\ queue'[v] \subseteq queue[v]
        /\ \A k \in Jobs : k # j => (k \in queue'[v] <=> k \in queue[v])
  BY <1>1
<1>3. \A v \in Workers : Spent(v)' <=> Spent(v)
  BY <1>0 DEF DrainNext, Drain, Goto, Spent, BusyLabels
<1>4. CASE drainMode[w] = "execute"
  <2>1. /\ job' = [job EXCEPT ![Main(w)] = j] /\ pc' = [pc EXCEPT ![Main(w)] = "drainExec"]
        /\ UNCHANGED <<fate, ends>>
    BY <1>4 DEF DrainNext, Drain, Goto, outcome
  <2>2. Calm(j) => Shifts(j, "queue", "main")
    BY <1>1, <1>3, <2>1 DEF Shifts, SpotInv, At, Spots
  <2>3. ASSUME NEW k \in Jobs \ {j} PROVE Stays(k)
    <3>1. \A x \in Spots : At(k, x)' <=> At(k, x)
      BY <1>0, <1>1, <1>2, <1>3, <2>1, <2>3 DEF At, Spots
    <3> QED
      BY <2>1, <3>1 DEF Stays
  <2>4. SpotInv'
    BY <1>1, <2>2, <2>3, SpotStep DEF Spots, Calm
  <2>5. HomeInv'
    <3>1. \A v \in Workers :
            /\ \A k \in queue'[v] \cup inflight'[v] \cup Elems(readCh'[v]) : WorkerOf[k] = v
            /\ v \notin contested' => NoRepeat(readCh'[v])
            /\ pending'[v] # NoJob => WorkerOf[pending'[v]] = v
      BY <1>1, <1>2 DEF HomeInv
    <3>2. \A t \in Threads : /\ pc'[t] \notin HoldLabels => job'[t] = NoJob
                             /\ job'[t] # NoJob => WorkerOf[job'[t]] = t[1]
      BY <1>0, <1>1, <2>1 DEF HomeInv, HoldLabels
    <3> QED
      BY <3>1, <3>2 DEF HomeInv
  <2>6. LoanInv' /\ ApartInv'
    BY <1>1, <2>1 DEF LoanInv, ApartInv, BusyLabels
  <2> QED
    BY <2>4, <2>5, <2>6 DEF PlaceOK
<1>5. CASE drainMode[w] # "execute"
  <2>1. UNCHANGED <<pc, job>> /\ \E how \in Ended : End(j, how)
    <3>1. pc' = [pc EXCEPT ![Main(w)] = "drainQueue"] /\ UNCHANGED job
      BY <1>5 DEF DrainNext, Drain, Goto
    <3>2. End(j, "unsafe") \/ End(j, "discarded")
      BY <1>5 DEF DrainNext, Drain
    <3>3. pc' = pc
      BY <1>0, <3>1
    <3> QED
      BY <3>1, <3>2, <3>3 DEF Ended
  <2>2. /\ fate'[j] \in Ended /\ ends'[j] = ends[j] + 1
        /\ \A k \in Jobs \ {j} : fate'[k] = fate[k] /\ ends'[k] = ends[k]
    BY <2>1 DEF End, CountersOK, FlagsOK
  <2>3. Calm(j) => Leaves(j, "queue")
    BY <1>1, <1>3, <2>1, <2>2 DEF Leaves, SpotInv, At, Spots
  <2>4. ASSUME NEW k \in Jobs \ {j} PROVE Stays(k)
    <3>1. \A x \in Spots : At(k, x)' <=> At(k, x)
      BY <1>1, <1>2, <1>3, <2>1, <2>4 DEF At, Spots
    <3> QED
      BY <2>2, <3>1 DEF Stays
  <2>5. SpotInv'
    BY <1>1, <2>3, <2>4, SpotStep DEF Spots, Calm
  <2>6. HomeInv'
    <3>1. \A v \in Workers :
            /\ \A k \in queue'[v] \cup inflight'[v] \cup Elems(readCh'[v]) : WorkerOf[k] = v
            /\ v \notin contested' => NoRepeat(readCh'[v])
            /\ pending'[v] # NoJob => WorkerOf[pending'[v]] = v
      BY <1>1, <1>2 DEF HomeInv
    <3>2. \A t \in Threads : /\ pc'[t] \notin HoldLabels => job'[t] = NoJob
                             /\ job'[t] # NoJob => WorkerOf[job'[t]] = t[1]
      BY <2>1 DEF HomeInv
    <3> QED
      BY <3>1, <3>2 DEF HomeInv
  <2>7. LoanInv' /\ ApartInv'
    <3>1. \A k \in Jobs : fate[k] \in Ended => fate'[k] \in Ended
      BY <2>2
    <3> QED
      BY <1>1, <2>1, <3>1 DEF LoanInv, ApartInv
  <2> QED
    BY <2>5, <2>6, <2>7 DEF PlaceOK
<1> QED
  BY <1>4, <1>5

\* The deferred function of run.
LEMMA PlaceExit ==
    ASSUME PlaceInv, NEW w \in Workers, Exit(w)
    PROVE  PlaceOK'
<1> USE ThreadFacts DEF threads, reads, lock, outcome, Goto, BusyLabels
<1>1. CASE CloseReadCh(w)
  BY <1>1, QuietStep DEF CloseReadCh, HoldLabels
<1>2. CASE WaitPipeline(w)
  BY <1>2, QuietStep DEF WaitPipeline, HoldLabels
<1>3. CASE WaitReadsMode(w)
  BY <1>3, QuietStep DEF WaitReadsMode, HoldLabels
<1>4. CASE WaitReads(w)
  BY <1>4, QuietStep DEF WaitReads, HoldLabels
<1>5. CASE DecideDrain(w)
  BY <1>5, QuietStep DEF DecideDrain, HoldLabels
<1>6. CASE DrainLock(w)
  BY <1>6, QuietStep DEF DrainLock, HoldLabels
<1>7. CASE DrainExec(w)
  BY <1>7, FinishStep DEF DrainExec, HoldLabels, Ended
<1>8. CASE DrainDone(w)
  BY <1>8, QuietStep DEF DrainDone, HoldLabels
<1>9. ASSUME NEW j \in Jobs, DrainNext(w, j) PROVE PlaceOK'
  BY <1>9, PlaceDrainNext
<1>10. CASE DrainPending(w)
  BY <1>10, PlaceDrainPending
<1>11. CASE DrainClear(w)
  BY <1>11, PlaceDrainClear
<1> QED
  BY <1>1, <1>2, <1>3, <1>4, <1>5, <1>6, <1>7, <1>8, <1>9, <1>10, <1>11 DEF Exit

\* No job is anywhere at the start.
LEMMA PlaceInit == Init => PlaceInv
<1> SUFFICES ASSUME Init PROVE PlaceOK
  BY OrderInit DEF PlaceInv
<1> USE ThreadFacts, ConstantsAssumption, EmptyElems DEF Init
<1>1. SpotInv
  BY DEF SpotInv, At
<1>2. HomeInv /\ ApartInv /\ LoanInv
  BY DEF HomeInv, ApartInv, BusyLabels, LoanInv
<1> QED
  BY <1>1, <1>2 DEF PlaceOK

\* Every step preserves PlaceInv.
LEMMA PlaceNext == PlaceInv /\ [Next]_vars => PlaceInv'
<1> SUFFICES ASSUME PlaceInv, [Next]_vars PROVE PlaceOK'
  BY OrderNext DEF PlaceInv
<1>1. ASSUME NEW j \in Jobs, SubmitJob(j) PROVE PlaceOK'
  BY <1>1, PlaceSubmit
<1>2. ASSUME NEW w \in Workers, BeginStop(w) \/ StopDeadline(w) PROVE PlaceOK'
  BY <1>2, IdleStep DEF BeginStop, StopDeadline, threads, reads, lock, outcome
<1>3. ASSUME NEW w \in Workers, MainLoop(w) PROVE PlaceOK'
  BY <1>3, PlaceMainLoop
<1>4. ASSUME NEW w \in Workers, Exit(w) PROVE PlaceOK'
  BY <1>4, PlaceExit
<1>5. ASSUME NEW w \in Workers, Pipeline(w) PROVE PlaceOK'
  BY <1>5, PlacePipeline
<1>6. ASSUME NEW w \in Workers, NEW j \in Jobs, Reader(w, j) PROVE PlaceOK'
  BY <1>6, PlaceReader
<1>7. CASE SetRWEnabledFalse
  <2>1. SwitchStep
    BY <1>7 DEF SetRWEnabledFalse, BeginDisable, ScanPipelines, DisableRW, DisableTimeout,
      ScanInflight, InflightTimeout, EndDisable
  <2> QED
    BY <2>1, IdleStep DEF SwitchStep, threads, reads, lock, outcome
<1>8. CASE UNCHANGED vars
  BY <1>8, IdleStep DEF vars, threads, reads, lock, outcome
<1> QED
  BY <1>1, <1>2, <1>3, <1>4, <1>5, <1>6, <1>7, <1>8 DEF Next, Stopped

\* Whatever the goroutines of any number of workers, their stops and timeouts and a switch of
\* the mode do, a job is executed or discarded at most once, and the worker never touches one
\* that SubmitJob refused (Worker.run, execWrite, launchRead, storePending, drain), as long as
\* the two goroutines of its worker have not been in the accesses to pendingJob at once.
THEOREM JobEndsOnceHolds == Spec => []JobEndsOnce
<1>1. PlaceInv => JobEndsOnce
  BY DEF PlaceInv, PlaceOK, SpotInv, Calm, JobEndsOnce
<1>2. Spec => []PlaceInv
  BY PlaceInit, PlaceNext, PTL DEF Spec
<1> QED
  BY <1>1, <1>2, PTL

-----------------------------------------------------------------------------
(***************************************************************************)
(* The end of a worker.                                                    *)
(***************************************************************************)
LastInv == PlaceInv /\ ExitInv

\* A step that changes nothing of what ExitOK says of the worker w.
SameExit(w) ==
    /\ pc'[Main(w)] = pc[Main(w)] \/ (pc[Main(w)] \notin ExitLabels /\ pc'[Main(w)] \notin ExitLabels)
    /\ pc'[Pipe(w)] = pc[Pipe(w)] \/ pc[Pipe(w)] # "done"
    /\ state[w] = "closed" => state'[w] = "closed"
    /\ timedOut'[w] = timedOut[w]
    /\ w \notin contested' => w \notin contested /\ Reading(w)' \subseteq Reading(w)
    /\ enabled' = enabled
    /\ queue'[w] \subseteq queue[w] \/ state[w] # "closed"
    /\ pending'[w] = pending[w] \/ pc[Pipe(w)] # "done" \/ pc[Main(w)] \notin ExitLabels

\* Such a step keeps ExitOK.
LEMMA ExitSame == ASSUME ExitInv, NEW w \in Workers, SameExit(w) PROVE ExitOK(w)'
  BY DEF ExitInv, ExitOK, SameExit, Draining, DrainLabels, ExitLabels

\* A step of the main loop or of the pipeline that starts and ends no read.
LEMMA ThreadExit ==
    ASSUME LastInv, NEW t \in Threads, NEW l, pc' = [pc EXCEPT ![t] = l],
           t[2] = "main" => pc[t] \notin ExitLabels /\ l \notin ExitLabels,
           t[2] = "pipe" => pc[t] # "done",
           \A v \in Workers : queue'[v] \subseteq queue[v] /\ (v # t[1] => pending'[v] = pending[v]),
           contested \subseteq contested',
           UNCHANGED <<state, timedOut, enabled, inflight, rlock>>
    PROVE  ExitInv'
<1> SUFFICES ASSUME NEW v \in Workers PROVE SameExit(v)
  BY ExitSame DEF ExitInv, LastInv
<1> USE ThreadFacts, PlaceTypes DEF LastInv, PcOK, Reading, SameExit
<1>1. CASE v = t[1] /\ t = Main(v)
  BY <1>1 DEF ExitLabels
<1>2. CASE v = t[1] /\ t = Pipe(v)
  BY <1>2
<1>3. CASE v # t[1]
  BY <1>3
<1> QED
  BY <1>1, <1>2, <1>3

\* execWrite, in either goroutine.
LEMMA ExitExecWrite ==
    ASSUME LastInv, NEW t \in Threads, ExecWrite(t)
    PROVE  ExitInv'
<1> USE ThreadFacts DEF threads, stored, reads, lock, outcome, stopping, switch, Goto, ExitLabels
<1>1. CASE WriteTarget(t)
  BY <1>1, ThreadExit DEF WriteTarget
<1>2. CASE WriteSpin(t)
  <2>1. PICK l \in {"wspinClosed", "wtry"} : pc' = [pc EXCEPT ![t] = l]
    BY <1>2 DEF WriteSpin
  <2>2. pc[t] = "wspin" /\ UNCHANGED <<queue, stored, state, timedOut, enabled, inflight, rlock>>
    BY <1>2 DEF WriteSpin
  <2> QED
    BY <2>1, <2>2, ThreadExit
<1>3. CASE WriteSpinClosed(t)
  <2>1. PICK l \in {"storeRead", "wspin"} : pc' = [pc EXCEPT ![t] = l]
    BY <1>3 DEF WriteSpinClosed
  <2>2. pc[t] = "wspinClosed" /\ UNCHANGED <<queue, stored, state, timedOut, enabled, inflight, rlock>>
    BY <1>3 DEF WriteSpinClosed
  <2> QED
    BY <2>1, <2>2, ThreadExit
<1>4. CASE WriteTryLock(t)
  <2>1. PICK l \in {"wexec", "wtryClosed"} : pc' = [pc EXCEPT ![t] = l]
    BY <1>4 DEF WriteTryLock
  <2>2. pc[t] = "wtry" /\ UNCHANGED <<queue, stored, state, timedOut, enabled, inflight, rlock>>
    BY <1>4 DEF WriteTryLock
  <2> QED
    BY <2>1, <2>2, ThreadExit
<1>5. CASE WriteTryClosed(t)
  <2>1. PICK l \in {"storeRead", "wtry"} : pc' = [pc EXCEPT ![t] = l]
    BY <1>5 DEF WriteTryClosed
  <2>2. pc[t] = "wtryClosed" /\ UNCHANGED <<queue, stored, state, timedOut, enabled, inflight, rlock>>
    BY <1>5 DEF WriteTryClosed
  <2> QED
    BY <2>1, <2>2, ThreadExit
<1>6. CASE WriteExec(t)
  BY <1>6, ThreadExit DEF WriteExec
<1>7. CASE WriteDec(t)
  <2>1. /\ pc[t] = "wdec" /\ pc' = [pc EXCEPT ![t] = Home(t)]
        /\ UNCHANGED <<queue, stored, state, timedOut, enabled, inflight, rlock>>
    BY <1>7 DEF WriteDec, GoHome
  <2>2. Home(t) \in {"loop", "recv"}
    BY DEF Home
  <2> QED
    BY <2>1, <2>2, ThreadExit
<1>8. CASE StoreRead(t)
  BY <1>8, ThreadExit DEF StoreRead, Contest
<1>9. CASE StoreNew(t)
  <2>1. \A v \in Workers : v # t[1] => pending'[v] = pending[v]
    BY <1>9, PlaceTypes DEF StoreNew, LastInv, PlacesOK
  <2>2. /\ pc[t] = "storeNew" /\ pc' = [pc EXCEPT ![t] = Home(t)]
        /\ UNCHANGED <<queue, contested, state, timedOut, enabled, inflight, rlock>>
    BY <1>9 DEF StoreNew, GoHome
  <2>3. Home(t) \in {"loop", "recv"}
    BY DEF Home
  <2> QED
    BY <2>1, <2>2, <2>3, ThreadExit, ZenonT(40)
<1> QED
  BY <1>1, <1>2, <1>3, <1>4, <1>5, <1>6, <1>7, <1>8, <1>9 DEF ExecWrite

\* The main loop.
LEMMA ExitMainLoop ==
    ASSUME LastInv, NEW w \in Workers, MainLoop(w)
    PROVE  ExitInv'
<1> USE ThreadFacts DEF threads, stored, reads, lock, outcome, stopping, switch, Goto, ExitLabels
<1>1. ASSUME NEW j \in Jobs, NextJob(w, j) PROVE ExitInv'
  <2>1. \A v \in Workers : queue'[v] \subseteq queue[v]
    BY <1>1, PlaceTypes DEF NextJob, LastInv, PlacesOK
  <2> QED
    BY <1>1, <2>1, ThreadExit DEF NextJob
<1>2. CASE LoadMode(w)
  <2>1. CASE pc[Main(w)] = "mode1"
    <3>1. PICK l \in {"rw1", "mode2"} : pc' = [pc EXCEPT ![Main(w)] = l]
      BY <1>2, <2>1 DEF LoadMode
    <3>2. pc[Main(w)] = "mode1" /\ UNCHANGED <<queue, stored, state, timedOut, enabled, inflight, rlock>>
      BY <1>2, <2>1 DEF LoadMode
    <3> QED
      BY <3>1, <3>2, ThreadExit
  <2>2. CASE pc[Main(w)] = "mode2"
    <3>1. PICK l \in {"rw1", "exec"} : pc' = [pc EXCEPT ![Main(w)] = l]
      BY <1>2, <2>2 DEF LoadMode
    <3>2. pc[Main(w)] = "mode2" /\ UNCHANGED <<queue, stored, state, timedOut, enabled, inflight, rlock>>
      BY <1>2, <2>2 DEF LoadMode
    <3> QED
      BY <3>1, <3>2, ThreadExit
  <2> QED
    BY <1>2, <2>1, <2>2 DEF LoadMode
<1>3. CASE SerialExec(w)
  BY <1>3, ThreadExit DEF SerialExec, GoHome, Home
<1>4. CASE ExecWithRW(w)
  <2>1. CASE pc[Main(w)] = "rw1"
    <3>1. PICK l \in {"rw2", "wtarget"} : pc' = [pc EXCEPT ![Main(w)] = l]
      BY <1>4, <2>1 DEF ExecWithRW
    <3>2. pc[Main(w)] = "rw1" /\ UNCHANGED <<queue, stored, state, timedOut, enabled, inflight, rlock>>
      BY <1>4, <2>1 DEF ExecWithRW
    <3> QED
      BY <3>1, <3>2, ThreadExit
  <2>2. CASE pc[Main(w)] = "rw2"
    <3>1. PICK l \in {"dispatch", "wtarget"} : pc' = [pc EXCEPT ![Main(w)] = l]
      BY <1>4, <2>2 DEF ExecWithRW
    <3>2. pc[Main(w)] = "rw2" /\ UNCHANGED <<queue, stored, state, timedOut, enabled, inflight, rlock>>
      BY <1>4, <2>2 DEF ExecWithRW
    <3> QED
      BY <3>1, <3>2, ThreadExit
  <2> QED
    BY <1>4, <2>1, <2>2 DEF ExecWithRW
<1>5. CASE DispatchRead(w)
  BY <1>5, ThreadExit DEF DispatchRead
<1>6. CASE SendRead(w)
  <2>1. /\ pc[Main(w)] = "send" /\ pc' = [pc EXCEPT ![Main(w)] = "loop"]
        /\ UNCHANGED <<queue, stored, state, timedOut, enabled, inflight, rlock>>
    BY <1>6 DEF SendRead, GoHome, Home
  <2> QED
    BY <2>1, ThreadExit
<1>7. CASE ExecWrite(Main(w))
  BY <1>7, ExitExecWrite
<1> QED
  BY <1>1, <1>2, <1>3, <1>4, <1>5, <1>6, <1>7 DEF MainLoop

\* The read pipeline: it starts a read only while RW mode is on and it has not ended.
LEMMA ExitPipeline ==
    ASSUME LastInv, NEW w \in Workers, Pipeline(w)
    PROVE  ExitInv'
<1> USE ThreadFacts DEF threads, stored, reads, lock, outcome, stopping, switch, Goto
<1>1. CASE PipeRecv(w)
  <2>1. /\ pc[Pipe(w)] = "recv" /\ pc' = [pc EXCEPT ![Pipe(w)] = pc'[Pipe(w)]]
        /\ UNCHANGED <<queue, stored, state, timedOut, enabled, inflight, rlock>>
    BY <1>1, PlaceTypes DEF PipeRecv, LastInv, PcOK
  <2> QED
    BY <2>1, ThreadExit
<1>2. CASE LaunchGate(w)
  <2>1. /\ pc[Pipe(w)] = "gate" /\ pc' = [pc EXCEPT ![Pipe(w)] = pc'[Pipe(w)]]
        /\ UNCHANGED <<queue, stored, state, timedOut, enabled, inflight, rlock>>
    BY <1>2, PlaceTypes DEF LaunchGate, GoHome, Home, LastInv, PcOK
  <2> QED
    BY <2>1, ThreadExit
<1>3. CASE LaunchToken(w)
  BY <1>3, ThreadExit DEF LaunchToken
<1>4. CASE PipeRLock(w) \/ LaunchRead(w)
  <2> USE PlaceTypes, ConstantsAssumption DEF LastInv, PcOK, PlacesOK
  <2>0. Pipe(w) \in Threads /\ pc[Pipe(w)] \in HoldLabels
    BY <1>4 DEF PipeRLock, LaunchRead, HoldLabels
  <2>1. PICK j \in Jobs : j = job[Pipe(w)] /\ WorkerOf[j] = w /\ At(j, "pipe")
    BY <2>0, HeldJob
  <2>2. /\ \A v \in Workers : pc'[Main(v)] = pc[Main(v)] /\ (v # w => pc'[Pipe(v)] = pc[Pipe(v)])
        /\ pc[Pipe(w)] # "done" /\ UNCHANGED <<queue, stored, state, timedOut, enabled>>
    BY <1>4 DEF stored, PipeRLock, LaunchRead, GoHome, Home
  <2>3. \A v \in Workers : v # w => Reading(v)' \subseteq Reading(v)
    <3>1. \A v \in Workers : v # w => j \notin inflight[v] /\ inflight'[v] = inflight[v]
      BY <1>4, <2>1 DEF HomeInv, PipeRLock, LaunchRead
    <3>2. rlock' \subseteq rlock \cup {j}
      BY <1>4, <2>1 DEF PipeRLock, LaunchRead
    <3> QED
      BY <3>1, <3>2 DEF Reading
  <2>4. \A v \in Workers : v # w => ExitOK(v)'
    BY <2>2, <2>3, ExitSame DEF SameExit, stored
  <2>5. w \notin contested /\ ~enabled => Reading(w)' \subseteq Reading(w)
    <3>1. w \notin contested => j \notin inflight[w]
      <4>1. w \notin contested => fate[j] = "live" /\ ~At(j, "reading")
        BY <2>1 DEF SpotInv, Spots, Calm
      <4> QED
        BY <2>1, <4>1 DEF At, LoanInv, Ended
    <3> QED
      BY <1>4, <2>1, <3>1 DEF PipeRLock, LaunchRead, Reading
  <2>6. ExitOK(w)'
    BY <2>2, <2>5 DEF ExitInv, ExitOK, Draining, DrainLabels, ExitLabels, stored
  <2> QED
    BY <2>4, <2>6 DEF ExitInv
<1>5. CASE ExecWrite(Pipe(w))
  BY <1>5, ExitExecWrite
<1> QED
  BY <1>1, <1>2, <1>3, <1>4, <1>5 DEF Pipeline

\* The exit of a worker, step by step.
LEMMA ExitExit ==
    ASSUME LastInv, NEW w \in Workers, Exit(w)
    PROVE  ExitInv'
<1> USE ThreadFacts, PlaceTypes DEF LastInv, PcOK, PlacesOK, threads, stored, reads, lock, outcome,
      stopping, switch, Goto
<1>1. UNCHANGED <<state, enabled, inflight, rlock>> /\ contested \subseteq contested'
  BY DEF Exit, CloseReadCh, WaitPipeline, WaitReadsMode, WaitReads, DecideDrain, DrainLock,
    DrainPending, DrainClear, Contest, DrainExec, DrainDone, DrainNext
<1>2. \A v \in Workers : v # w => ExitOK(v)'
  <2>1. \A v \in Workers : v # w => /\ pc'[Main(v)] = pc[Main(v)] /\ pc'[Pipe(v)] = pc[Pipe(v)]
                                    /\ timedOut'[v] = timedOut[v]
                                    /\ queue'[v] = queue[v] /\ pending'[v] = pending[v]
    BY DEF Exit, CloseReadCh, WaitPipeline, WaitReadsMode, WaitReads, DecideDrain, DrainLock,
      DrainPending, DrainClear, Drain, DrainExec, DrainDone, DrainNext, FlagsOK
  <2> QED
    BY <1>1, <2>1, ExitSame, ZenonT(40) DEF SameExit, Reading
<1>3. ExitOK(w)
  BY DEF ExitInv
<1>4. ExitOK(w)'
  <2> USE <1>1, <1>3 DEF ExitOK, Draining, DrainLabels, ExitLabels, Reading
  <2>1. CASE CloseReadCh(w)
    BY <2>1 DEF CloseReadCh
  <2>2. CASE WaitPipeline(w)
    BY <2>2 DEF WaitPipeline, FlagsOK
  <2>3. CASE WaitReadsMode(w)
    BY <2>3 DEF WaitReadsMode
  <2>4. CASE WaitReads(w)
    BY <2>4 DEF WaitReads, FlagsOK
  <2>5. CASE DecideDrain(w)
    BY <2>5 DEF DecideDrain
  <2>6. CASE DrainLock(w)
    BY <2>6 DEF DrainLock
  <2>7. CASE DrainExec(w)
    BY <2>7 DEF DrainExec
  <2>8. CASE DrainDone(w)
    BY <2>8 DEF DrainDone
  <2>9. ASSUME NEW j \in Jobs, DrainNext(w, j) PROVE ExitOK(w)'
    BY <2>9 DEF DrainNext, Drain
  <2>10. CASE DrainPending(w)
    BY <2>10 DEF DrainPending, Drain
  <2>11. CASE DrainClear(w)
    BY <2>11 DEF DrainClear
  <2> QED
    BY <2>1, <2>2, <2>3, <2>4, <2>5, <2>6, <2>7, <2>8, <2>9, <2>10, <2>11 DEF Exit
<1> QED
  BY <1>2, <1>4 DEF ExitInv

\* SetRWEnabled(false) switches the mode off only while nobody holds the lock.
LEMMA ExitSwitch ==
    ASSUME LastInv, SetRWEnabledFalse
    PROVE  ExitInv'
<1>1. UNCHANGED <<pc, queue, pending, contested, state, timedOut, inflight, rlock>>
  BY DEF SetRWEnabledFalse, BeginDisable, ScanPipelines, DisableRW, DisableTimeout,
    ScanInflight, InflightTimeout, EndDisable, SwitchStep, threads, stored, reads, lock, stopping
<1>2. ~enabled' => ~enabled \/ rlock = {}
  BY PlaceTypes DEF SetRWEnabledFalse, BeginDisable, ScanPipelines, DisableRW, DisableTimeout,
    ScanInflight, InflightTimeout, EndDisable, CanTryLock
<1> QED
  BY <1>1, <1>2 DEF LastInv, ExitInv, ExitOK, Reading, stored

\* Nothing has stopped at the start.
LEMMA LastInit == Init => LastInv
<1> SUFFICES ASSUME Init PROVE ExitInv
  BY PlaceInit DEF LastInv
<1> QED
  BY ThreadFacts DEF Init, ExitInv, ExitOK, ExitLabels, Draining, DrainLabels

\* Every step preserves LastInv.
LEMMA LastNext == LastInv /\ [Next]_vars => LastInv'
<1> SUFFICES ASSUME LastInv, [Next]_vars PROVE ExitInv'
  BY PlaceNext DEF LastInv
<1>1. ASSUME NEW j \in Jobs, SubmitJob(j) PROVE ExitInv'
  <2> SUFFICES ASSUME NEW v \in Workers PROVE SameExit(v)
    BY ExitSame DEF ExitInv, LastInv
  <2>1. UNCHANGED <<pc, pending, contested, state, timedOut, enabled, inflight, rlock>>
    BY <1>1 DEF SubmitJob, threads, stored, reads, lock, stopping, switch
  <2>2. queue'[v] = queue[v] \/ state[v] # "closed"
    BY <1>1, PlaceTypes, ConstantsAssumption DEF SubmitJob, LastInv, PlacesOK
  <2> QED
    BY <2>1, <2>2 DEF SameExit, Reading
<1>2. ASSUME NEW w \in Workers, BeginStop(w) \/ StopDeadline(w) PROVE ExitInv'
  <2> SUFFICES ASSUME NEW v \in Workers PROVE SameExit(v)
    BY ExitSame DEF ExitInv, LastInv
  <2>1. UNCHANGED <<pc, queue, pending, contested, timedOut, enabled, inflight, rlock>>
    BY <1>2 DEF BeginStop, StopDeadline, threads, stored, reads, lock, switch
  <2>2. state[v] = "closed" => state'[v] = "closed"
    BY <1>2, PlaceTypes DEF BeginStop, StopDeadline, LastInv, FlagsOK
  <2> QED
    BY <2>1, <2>2 DEF SameExit, Reading
<1>3. ASSUME NEW w \in Workers, MainLoop(w) PROVE ExitInv'
  BY <1>3, ExitMainLoop
<1>4. ASSUME NEW w \in Workers, Exit(w) PROVE ExitInv'
  BY <1>4, ExitExit
<1>5. ASSUME NEW w \in Workers, Pipeline(w) PROVE ExitInv'
  BY <1>5, ExitPipeline
<1>6. ASSUME NEW w \in Workers, NEW j \in Jobs, Reader(w, j) PROVE ExitInv'
  <2> SUFFICES ASSUME NEW v \in Workers PROVE SameExit(v)
    BY ExitSame DEF ExitInv, LastInv
  <2>1. UNCHANGED <<pc, queue, pending, contested, state, timedOut, enabled>>
    BY <1>6 DEF Reader, ReadExec, ReadDone, threads, stored, stopping, switch
  <2>2. Reading(v)' \subseteq Reading(v)
    BY <1>6, PlaceTypes DEF Reader, ReadExec, ReadDone, lock, LastInv, PlacesOK, Reading
  <2> QED
    BY <2>1, <2>2 DEF SameExit
<1>7. CASE SetRWEnabledFalse
  BY <1>7, ExitSwitch
<1>8. CASE UNCHANGED vars
  BY <1>8 DEF vars, threads, stored, reads, lock, stopping, switch, LastInv, ExitInv, ExitOK, Reading
<1> QED
  BY <1>1, <1>2, <1>3, <1>4, <1>5, <1>6, <1>7, <1>8 DEF Next, Stopped

\* When the main goroutine of a worker has ended and none of its waits timed out, each job
\* SubmitJob admitted to it has ended and the pipeline has too, even if RW mode was switched
\* off and the wait for reads was skipped (Worker.run).  The jobs are not claimed for a worker
\* whose two goroutines were in the accesses to pendingJob at once.
THEOREM NoJobLeftHolds == Spec => []NoJobLeft
<1>1. LastInv => NoJobLeft
  <2> SUFFICES ASSUME LastInv, NEW w \in Workers, pc[Main(w)] = "done", ~timedOut[w]
               PROVE  /\ w \notin contested => \A j \in Jobs : WorkerOf[j] = w => fate[j] # "live"
                      /\ pc[Pipe(w)] = "done"
    BY DEF NoJobLeft
  <2> USE PlaceTypes, ThreadFacts, ConstantsAssumption, EmptyElems DEF LastInv
  <2>1. /\ pc[Pipe(w)] = "done" /\ pending[w] = NoJob /\ queue[w] = {}
        /\ w \notin contested => Reading(w) = {}
    BY DEF ExitInv, ExitOK, ExitLabels, Draining
  <2>2. readCh[w] = <<>>
    BY <2>1 DEF PlaceInv, OrderInv, OrderOK, PipeDoneOK
  <2>3. job[Main(w)] = NoJob /\ job[Pipe(w)] = NoJob
    BY <2>1 DEF HomeInv, HoldLabels
  <2>4. ASSUME w \notin contested, NEW j \in Jobs, WorkerOf[j] = w PROVE fate[j] # "live"
    <3>1. \A p \in Spots : ~At(j, p)
      BY <2>1, <2>2, <2>3, <2>4 DEF At, Reading
    <3> QED
      BY <2>4, <3>1 DEF SpotInv, Calm
  <2> QED
    BY <2>1, <2>4
<1>2. Spec => []LastInv
  BY LastInit, LastNext, PTL DEF Spec
<1> QED
  BY <1>1, <1>2, PTL
=============================================================================
