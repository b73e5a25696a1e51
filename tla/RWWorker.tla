------------------------------ MODULE RWWorker ------------------------------
(***************************************************************************)
(* The mailbox workers of one WorkerPool in read/write mode                *)
(* (engine/pkg/actor/mailbox/worker.go, rw_controller.go and               *)
(* WorkerPool.SetRWEnabled).                                               *)
(*                                                                         *)
(* Every worker has two goroutines: its main loop, which takes jobs from   *)
(* the queue, executes writes and hands reads over through the channel     *)
(* readCh, and its read pipeline, which takes reads from the channel and   *)
(* starts one goroutine per read.  All workers of a pool share one         *)
(* RWMutex, one read semaphore and the flags enabled and disabling.        *)
(*                                                                         *)
(* An action is one run of code between two accesses to shared state.      *)
(* The queue is a set: NextJob may return any queued job, so what holds    *)
(* here holds for every order of the dual and the priority queue manager.  *)
(* The queues, the idle controller the main loop parks on and PostJob are  *)
(* detailed in Mailbox.                                                    *)
(***************************************************************************)
EXTENDS Naturals, Sequences, FiniteSets

CONSTANTS
    Workers,        \* the workers of the pool's snapshot
    Jobs,           \* the jobs that may be posted
    ReadJobs,       \* the jobs whose RWMode is RWModeRead
    WorkerOf,       \* the worker the dispatch ring selects for a job
    ReadChCap,      \* capacity of a worker's readCh
    MaxReads,       \* capacity of readSem (MaxConcurrentReads)
    DrainPolicy,    \* "execute" or "discard"
    StopTimeouts,   \* whether StopTimeout may expire during a stop
    DisableCalls,   \* whether SetRWEnabled(false) is called
    NoJob           \* the nil job

ASSUME ConstantsAssumption ==
    /\ ReadJobs \subseteq Jobs
    /\ WorkerOf \in [Jobs -> Workers]
    /\ ReadChCap \in Nat \ {0}
    /\ MaxReads \in Nat \ {0}
    /\ DrainPolicy \in {"execute", "discard"}
    /\ StopTimeouts \in BOOLEAN
    /\ DisableCalls \in BOOLEAN
    /\ NoJob \notin Jobs

VARIABLES
    state,       \* Worker.state: Closing is only seen under admissionMu
    queue,       \* the jobs in the worker's queueManager
    pc,          \* where the goroutine of a worker is
    job,         \* the job the goroutine handles
    target,      \* the snapshot of readsDispatched execWrite waits for
    readCh,      \* Worker.readCh
    dispatched,  \* Worker.readsDispatched
    launched,    \* Worker.readsLaunched
    writeReq,    \* Worker.writeRequested
    inflight,    \* the reads counted by inflightReads and inflightReadCnt
    pending,     \* Worker.pendingJob
    contested,   \* history: the workers both of whose goroutines were in an access to it
    expired,     \* stopDeadlineNS has passed
    timedOut,    \* run's local stopTimedOut
    drainMode,   \* run's effectiveDrainPolicy and rwUnsafeDrain
    enabled,     \* RWController.enabled
    disabling,   \* RWController.disabling
    sem,         \* the reads that hold a token of readSem
    rlock,       \* the reads on whose behalf mu is read-locked
    wlock,       \* the goroutine that holds mu exclusively
    dpc,         \* where the SetRWEnabled(false) call is
    scan,        \* the workers its polling loop has still to look at
    flipped,     \* history: has enabled been stored, has it been rolled back
    fate,        \* what became of a job
    ends         \* history: how many times a job's handling has ended

threads == <<pc, job, target>>
reads == <<readCh, dispatched, launched, inflight, sem>>
lock == <<rlock, wlock, writeReq>>
stopping == <<state, expired, timedOut, drainMode>>
switch == <<enabled, disabling, dpc, scan, flipped>>
outcome == <<fate, ends>>
stored == <<pending, contested>>
vars == <<queue, stored, threads, reads, lock, stopping, switch, outcome>>

Main(w) == <<w, "main">>
Pipe(w) == <<w, "pipe">>
Threads == Workers \X {"main", "pipe"}
NoThread == <<>>

\* The labels of execWrite, which both goroutines may run.
WriteLabels == {"wtarget", "wspin", "wspinClosed", "wtry", "wtryClosed", "wexec", "wdec",
                "storeRead", "storeNew"}
\* The deferred function of run, after it has closed readCh.
ExitLabels == {"waitPipe", "waitReads0", "waitReads", "residual", "lockWait",
               "drain", "heldExec", "drainClear", "drainQueue", "drainExec", "done"}
MainLabels == {"loop", "mode1", "mode2", "rw1", "rw2", "dispatch", "send", "exec"}
                \cup WriteLabels \cup ExitLabels
PipeLabels == {"recv", "gate", "sem", "rlock", "recheck", "done"} \cup WriteLabels

Fates == {"unposted", "rejected", "live", "executed", "discarded", "unsafe", "overwritten"}

Init ==
    /\ state = [w \in Workers |-> "running"]
    /\ queue = [w \in Workers |-> {}]
    /\ pc = [t \in Threads |-> IF t[2] = "main" THEN "loop" ELSE "recv"]
    /\ job = [t \in Threads |-> NoJob]
    /\ target = [t \in Threads |-> 0]
    /\ readCh = [w \in Workers |-> <<>>]
    /\ dispatched = [w \in Workers |-> 0]
    /\ launched = [w \in Workers |-> 0]
    /\ writeReq = [w \in Workers |-> 0]
    /\ inflight = [w \in Workers |-> {}]
    /\ pending = [w \in Workers |-> NoJob]
    /\ contested = {}
    /\ expired = [w \in Workers |-> FALSE]
    /\ timedOut = [w \in Workers |-> FALSE]
    /\ drainMode = [w \in Workers |-> DrainPolicy]
    /\ enabled = TRUE /\ disabling = FALSE
    /\ sem = {} /\ rlock = {} /\ wlock = NoThread
    /\ dpc = "idle" /\ scan = {} /\ flipped = "never"
    /\ fate = [j \in Jobs |-> "unposted"]
    /\ ends = [j \in Jobs |-> 0]

(***************************************************************************)
(* Helpers.                                                                *)
(***************************************************************************)
Goto(t, label) == pc' = [pc EXCEPT ![t] = label]

\* The goroutine has finished with its job and takes the next one.
Home(t) == IF t[2] = "main" THEN "loop" ELSE "recv"
GoHome(t) ==
    /\ Goto(t, Home(t))
    /\ job' = [job EXCEPT ![t] = NoJob]
    /\ target' = [target EXCEPT ![t] = 0]

\* The handling of j ends: OnComplete (or its cleanup) has run, j is released.
End(j, how) ==
    /\ fate' = [fate EXCEPT ![j] = how]
    /\ ends' = [ends EXCEPT ![j] = @ + 1]

\* RWMutex: a blocked Lock holds off both new readers and TryLock.
LockWaiting == \E w \in Workers : pc[Main(w)] = "lockWait"
CanRLock == wlock = NoThread /\ ~LockWaiting
CanTryLock == wlock = NoThread /\ rlock = {} /\ ~LockWaiting

(***************************************************************************)
(* The callers of a worker: SubmitJob and BeginStop, each atomic under     *)
(* admissionMu, and the clock.                                             *)
(***************************************************************************)
SubmitJob(j) ==
    LET w == WorkerOf[j] IN
    /\ fate[j] = "unposted"
    /\ IF state[w] = "running"
         THEN /\ queue' = [queue EXCEPT ![w] = @ \cup {j}]
              /\ fate' = [fate EXCEPT ![j] = "live"]
         ELSE /\ fate' = [fate EXCEPT ![j] = "rejected"]
              /\ UNCHANGED queue
    /\ UNCHANGED <<stored, threads, reads, lock, stopping, switch, ends>>

BeginStop(w) ==
    /\ state[w] = "running"
    /\ state' = [state EXCEPT ![w] = "closed"]
    /\ UNCHANGED <<queue, stored, threads, reads, lock, expired, timedOut, drainMode,
                   switch, outcome>>

\* stopDeadlineNS passes; the timers the stop starts later expire after it.
StopDeadline(w) ==
    /\ StopTimeouts
    /\ state[w] = "closed" /\ ~expired[w]
    /\ expired' = [expired EXCEPT ![w] = TRUE]
    /\ UNCHANGED <<queue, stored, threads, reads, lock, state, timedOut, drainMode,
                   switch, outcome>>

(***************************************************************************)
(* The main loop.                                                          *)
(***************************************************************************)
NextJob(w, j) ==
    /\ pc[Main(w)] = "loop" /\ state[w] # "closed"
    /\ j \in queue[w]
    /\ queue' = [queue EXCEPT ![w] = @ \ {j}]
    /\ job' = [job EXCEPT ![Main(w)] = j]
    /\ Goto(Main(w), "mode1")
    /\ UNCHANGED <<stored, target, reads, lock, stopping, switch, outcome>>

\* enabled.Load() || IsDisabling(): two loads.
LoadMode(w) ==
    /\ \/ pc[Main(w)] = "mode1" /\ Goto(Main(w), IF enabled THEN "rw1" ELSE "mode2")
       \/ pc[Main(w)] = "mode2" /\ Goto(Main(w), IF disabling THEN "rw1" ELSE "exec")
    /\ UNCHANGED <<queue, stored, job, target, reads, lock, stopping, switch, outcome>>

\* safeExec without a lock: RW mode is off.
SerialExec(w) ==
    /\ pc[Main(w)] = "exec"
    /\ End(job[Main(w)], "executed")
    /\ GoHome(Main(w))
    /\ UNCHANGED <<queue, stored, reads, lock, stopping, switch>>

ExecWithRW(w) ==
    /\ \/ /\ pc[Main(w)] = "rw1"
          /\ Goto(Main(w), IF job[Main(w)] \in ReadJobs /\ enabled THEN "rw2" ELSE "wtarget")
       \/ /\ pc[Main(w)] = "rw2"
          /\ Goto(Main(w), IF ~disabling THEN "dispatch" ELSE "wtarget")
    /\ UNCHANGED <<queue, stored, job, target, reads, lock, stopping, switch, outcome>>

DispatchRead(w) ==
    /\ pc[Main(w)] = "dispatch"
    /\ dispatched' = [dispatched EXCEPT ![w] = @ + 1]
    /\ Goto(Main(w), "send")
    /\ UNCHANGED <<queue, stored, job, target, readCh, launched, inflight, sem, lock,
                   stopping, switch, outcome>>

\* The non-blocking send to readCh, or the backpressure path when it is full.
SendRead(w) ==
    /\ pc[Main(w)] = "send"
    /\ IF Len(readCh[w]) < ReadChCap
         THEN /\ readCh' = [readCh EXCEPT ![w] = Append(@, job[Main(w)])]
              /\ UNCHANGED <<launched, outcome>>
         ELSE /\ launched' = [launched EXCEPT ![w] = @ + 1]
              /\ End(job[Main(w)], "discarded")
              /\ UNCHANGED readCh
    /\ GoHome(Main(w))
    /\ UNCHANGED <<queue, stored, dispatched, inflight, sem, lock, stopping, switch>>

(***************************************************************************)
(* execWrite, by the main loop or by a degraded read in the pipeline.      *)
(***************************************************************************)
WriteTarget(t) ==
    /\ pc[t] = "wtarget"
    /\ target' = [target EXCEPT ![t] = dispatched[t[1]]]
    /\ Goto(t, "wspin")
    /\ UNCHANGED <<queue, stored, job, reads, lock, stopping, switch, outcome>>

\* Mutant: a write does not wait for the reads dispatched before it.
WriteSpinNoWait(t) ==
    /\ pc[t] = "wspin"
    /\ Goto(t, "wtry") /\ writeReq' = [writeReq EXCEPT ![t[1]] = @ + 1]
    /\ UNCHANGED <<queue, stored, job, target, reads, rlock, wlock, stopping, switch, outcome>>

\* Mutant: writeRequested.Add(1) is missing.
WriteSpinNoRequest(t) ==
    /\ pc[t] = "wspin"
    /\ Goto(t, IF launched[t[1]] < target[t] THEN "wspinClosed" ELSE "wtry")
    /\ UNCHANGED <<queue, stored, job, target, reads, lock, stopping, switch, outcome>>

WriteSpin(t) ==
    /\ pc[t] = "wspin"
    /\ IF launched[t[1]] < target[t]
         THEN Goto(t, "wspinClosed") /\ UNCHANGED writeReq
         ELSE Goto(t, "wtry") /\ writeReq' = [writeReq EXCEPT ![t[1]] = @ + 1]
    /\ UNCHANGED <<queue, stored, job, target, reads, rlock, wlock, stopping, switch, outcome>>

\* Mutant: the wait for earlier reads does not look at the state.
WriteSpinForever(t) ==
    /\ pc[t] = "wspinClosed"
    /\ Goto(t, "wspin")
    /\ UNCHANGED <<queue, stored, job, target, reads, lock, stopping, switch, outcome>>

WriteSpinClosed(t) ==
    /\ pc[t] = "wspinClosed"
    /\ Goto(t, IF state[t[1]] = "closed" THEN "storeRead" ELSE "wspin")
    /\ UNCHANGED <<queue, stored, job, target, reads, lock, stopping, switch, outcome>>

WriteTryLock(t) ==
    /\ pc[t] = "wtry"
    /\ IF CanTryLock THEN wlock' = t /\ Goto(t, "wexec")
                     ELSE Goto(t, "wtryClosed") /\ UNCHANGED wlock
    /\ UNCHANGED <<queue, stored, job, target, reads, rlock, writeReq, stopping, switch, outcome>>

WriteTryClosed(t) ==
    /\ pc[t] = "wtryClosed"
    /\ IF state[t[1]] = "closed"
         THEN Goto(t, "storeRead") /\ writeReq' = [writeReq EXCEPT ![t[1]] = @ - 1]
         ELSE Goto(t, "wtry") /\ UNCHANGED writeReq
    /\ UNCHANGED <<queue, stored, job, target, reads, rlock, wlock, stopping, switch, outcome>>

\* pendingJob is a plain field that the main loop, the drain and the pipeline
\* read and write without a lock.  An interface value is read and written as a
\* whole here; that a racing reader may see one word of each is not followed.
Contest(w) == contested' = contested \cup {w}
Other(t) == IF t[2] = "main" THEN Pipe(t[1]) ELSE Main(t[1])

\* storePending reads the job already stored, and notifies and releases it.
StoreRead(t) ==
    /\ pc[t] = "storeRead"
    /\ IF pending[t[1]] # NoJob THEN End(pending[t[1]], "overwritten") ELSE UNCHANGED outcome
    /\ IF pc[Other(t)] \in {"storeNew", "heldExec", "drainClear"}
         THEN Contest(t[1]) ELSE UNCHANGED contested
    /\ Goto(t, "storeNew")
    /\ UNCHANGED <<queue, pending, job, target, reads, lock, stopping, switch>>

StoreNew(t) ==
    /\ pc[t] = "storeNew"
    /\ pending' = [pending EXCEPT ![t[1]] = job[t]]
    /\ GoHome(t)
    /\ UNCHANGED <<queue, contested, reads, lock, stopping, switch, outcome>>

\* safeExec under the write lock, then Unlock.
WriteExec(t) ==
    /\ pc[t] = "wexec"
    /\ End(job[t], "executed")
    /\ wlock' = NoThread
    /\ Goto(t, "wdec")
    /\ job' = [job EXCEPT ![t] = NoJob]
    /\ UNCHANGED <<queue, stored, target, reads, rlock, writeReq, stopping, switch>>

\* The deferred writeRequested.Add(-1) runs after the Unlock.
WriteDec(t) ==
    /\ pc[t] = "wdec"
    /\ writeReq' = [writeReq EXCEPT ![t[1]] = @ - 1]
    /\ GoHome(t)
    /\ UNCHANGED <<queue, stored, reads, rlock, wlock, stopping, switch, outcome>>

(***************************************************************************)
(* The read pipeline and the read goroutines.                              *)
(***************************************************************************)
ReadChClosed(w) == pc[Main(w)] \in ExitLabels

PipeRecv(w) ==
    /\ pc[Pipe(w)] = "recv"
    /\ IF readCh[w] # <<>>
         THEN /\ job' = [job EXCEPT ![Pipe(w)] = Head(readCh[w])]
              /\ readCh' = [readCh EXCEPT ![w] = Tail(@)]
              /\ Goto(Pipe(w), "gate")
         ELSE /\ ReadChClosed(w)
              /\ Goto(Pipe(w), "done")
              /\ UNCHANGED <<job, readCh>>
    /\ UNCHANGED <<queue, stored, target, dispatched, launched, inflight, sem, lock,
                   stopping, switch, outcome>>

\* Mutant: launchRead discards the read and does not return.
LaunchGateGoesOn(w) ==
    /\ pc[Pipe(w)] = "gate"
    /\ \/ /\ state[w] = "closed" /\ expired[w]
          /\ launched' = [launched EXCEPT ![w] = @ + 1]
          /\ End(job[Pipe(w)], "unsafe")
          /\ Goto(Pipe(w), "sem")
       \/ /\ ~(state[w] = "closed" /\ expired[w])
          /\ writeReq[w] = 0
          /\ Goto(Pipe(w), "sem")
          /\ UNCHANGED <<launched, outcome>>
    /\ UNCHANGED <<queue, stored, job, target, readCh, dispatched, inflight, sem, lock, stopping,
                   switch>>

\* launchRead gives up once the stop deadline has passed, and lets a waiting
\* writer of its own worker go first.
LaunchGate(w) ==
    /\ pc[Pipe(w)] = "gate"
    /\ \/ /\ state[w] = "closed" /\ expired[w]
          /\ launched' = [launched EXCEPT ![w] = @ + 1]
          /\ End(job[Pipe(w)], "unsafe")
          /\ GoHome(Pipe(w))
       \/ /\ ~(state[w] = "closed" /\ expired[w])
          /\ writeReq[w] = 0
          /\ Goto(Pipe(w), "sem")
          /\ UNCHANGED <<job, target, launched, outcome>>
    /\ UNCHANGED <<queue, stored, readCh, dispatched, inflight, sem, lock, stopping, switch>>

\* Mutant: the last token of readSem is never given out.
LaunchTokenShort(w) ==
    /\ pc[Pipe(w)] = "sem"
    /\ IF Cardinality(sem) + 1 < MaxReads
         THEN sem' = sem \cup {job[Pipe(w)]} /\ Goto(Pipe(w), "rlock")
         ELSE Goto(Pipe(w), "gate") /\ UNCHANGED sem
    /\ UNCHANGED <<queue, stored, job, target, readCh, dispatched, launched, inflight, lock,
                   stopping, switch, outcome>>

\* The non-blocking attempt at a token of readSem; a failure starts over.
LaunchToken(w) ==
    /\ pc[Pipe(w)] = "sem"
    /\ IF Cardinality(sem) < MaxReads
         THEN sem' = sem \cup {job[Pipe(w)]} /\ Goto(Pipe(w), "rlock")
         ELSE Goto(Pipe(w), "gate") /\ UNCHANGED sem
    /\ UNCHANGED <<queue, stored, job, target, readCh, dispatched, launched, inflight, lock,
                   stopping, switch, outcome>>

PipeRLock(w) ==
    /\ pc[Pipe(w)] = "rlock"
    /\ CanRLock
    /\ rlock' = rlock \cup {job[Pipe(w)]}
    /\ Goto(Pipe(w), "recheck")
    /\ UNCHANGED <<queue, stored, job, target, reads, wlock, writeReq, stopping, switch, outcome>>

\* The recheck of enabled under the read lock: start the read's goroutine, or
\* give lock and token back and execute the job as a write.
LaunchRead(w) ==
    LET j == job[Pipe(w)] IN
    /\ pc[Pipe(w)] = "recheck"
    /\ launched' = [launched EXCEPT ![w] = @ + 1]
    /\ IF enabled
         THEN /\ inflight' = [inflight EXCEPT ![w] = @ \cup {j}]
              /\ GoHome(Pipe(w))
              /\ UNCHANGED <<sem, rlock>>
         ELSE /\ rlock' = rlock \ {j}
              /\ sem' = sem \ {j}
              /\ Goto(Pipe(w), "wtarget")
              /\ UNCHANGED <<inflight, job, target>>
    /\ UNCHANGED <<queue, stored, readCh, dispatched, wlock, writeReq, stopping, switch, outcome>>

\* readFunc: safeExecSkipProfiler, then the deferred token and RUnlock.
ReadExec(w, j) ==
    /\ j \in inflight[w] /\ j \in rlock
    /\ End(j, "executed")
    /\ sem' = sem \ {j}
    /\ rlock' = rlock \ {j}
    /\ UNCHANGED <<queue, stored, threads, readCh, dispatched, launched, inflight, wlock,
                   writeReq, stopping, switch>>

\* inflightReadCnt.Add(-1) and inflightReads.Done come after the RUnlock.
ReadDone(w, j) ==
    /\ j \in inflight[w] /\ j \notin rlock
    /\ inflight' = [inflight EXCEPT ![w] = @ \ {j}]
    /\ UNCHANGED <<queue, stored, threads, readCh, dispatched, launched, sem, lock,
                   stopping, switch, outcome>>

(***************************************************************************)
(* The deferred function of run: close readCh, wait for the pipeline and   *)
(* the reads, drain what is left.                                          *)
(***************************************************************************)
CloseReadCh(w) ==
    /\ pc[Main(w)] = "loop" /\ state[w] = "closed"
    /\ Goto(Main(w), "waitPipe")
    /\ UNCHANGED <<queue, stored, job, target, reads, lock, stopping, switch, outcome>>

\* Mutant: the exit does not wait for the read pipeline.
WaitPipelineSkipped(w) ==
    /\ pc[Main(w)] = "waitPipe"
    /\ Goto(Main(w), "waitReads0")
    /\ UNCHANGED <<queue, stored, job, target, reads, lock, stopping, switch, outcome>>

WaitPipeline(w) ==
    /\ pc[Main(w)] = "waitPipe"
    /\ \/ pc[Pipe(w)] = "done" /\ UNCHANGED timedOut
       \/ expired[w] /\ timedOut' = [timedOut EXCEPT ![w] = TRUE]
    /\ Goto(Main(w), "waitReads0")
    /\ UNCHANGED <<queue, stored, job, target, reads, lock, state, expired, drainMode,
                   switch, outcome>>

\* The wait for in-flight reads is skipped when RW mode is off.
WaitReadsMode(w) ==
    /\ pc[Main(w)] = "waitReads0"
    /\ Goto(Main(w), IF enabled THEN "waitReads" ELSE "residual")
    /\ UNCHANGED <<queue, stored, job, target, reads, lock, stopping, switch, outcome>>

WaitReads(w) ==
    /\ pc[Main(w)] = "waitReads"
    /\ \/ inflight[w] = {} /\ UNCHANGED timedOut
       \/ /\ inflight[w] # {} /\ expired[w]
          /\ timedOut' = [timedOut EXCEPT ![w] = TRUE]
    /\ Goto(Main(w), "residual")
    /\ UNCHANGED <<queue, stored, job, target, reads, lock, state, expired, drainMode,
                   switch, outcome>>

HasResidual(w) == pending[w] # NoJob \/ queue[w] # {}

\* Mutant: the drain never takes the write lock.
DecideDrainUnlocked(w) ==
    /\ pc[Main(w)] = "residual"
    /\ drainMode' = [drainMode EXCEPT ![w] =
                        IF ~timedOut[w] THEN DrainPolicy
                        ELSE IF enabled /\ HasResidual(w) THEN "unsafe" ELSE "discard"]
    /\ Goto(Main(w), "drain")
    /\ UNCHANGED <<queue, stored, job, target, reads, lock, state, expired, timedOut,
                   switch, outcome>>

\* The drain policy in effect, and whether the drain needs the write lock.
DecideDrain(w) ==
    /\ pc[Main(w)] = "residual"
    /\ drainMode' = [drainMode EXCEPT ![w] =
                        IF ~timedOut[w] THEN DrainPolicy
                        ELSE IF enabled /\ HasResidual(w) THEN "unsafe" ELSE "discard"]
    /\ Goto(Main(w), IF enabled /\ ~timedOut[w] /\ HasResidual(w) THEN "lockWait" ELSE "drain")
    /\ UNCHANGED <<queue, stored, job, target, reads, lock, state, expired, timedOut,
                   switch, outcome>>

DrainLock(w) ==
    /\ pc[Main(w)] = "lockWait"
    /\ wlock = NoThread /\ rlock = {}
    /\ wlock' = Main(w)
    /\ Goto(Main(w), "drain")
    /\ UNCHANGED <<queue, stored, job, target, reads, rlock, writeReq, stopping, switch, outcome>>

\* The drain executes a job, or discards it, with or without the invoker.
Drain(w, j, executing, next) ==
    IF drainMode[w] = "execute"
      THEN /\ job' = [job EXCEPT ![Main(w)] = j]
           /\ Goto(Main(w), executing)
           /\ UNCHANGED outcome
      ELSE /\ End(j, IF drainMode[w] = "unsafe" THEN "unsafe" ELSE "discarded")
           /\ Goto(Main(w), next)
           /\ UNCHANGED job

\* pendingJob is looked at once, and reset only when its job has ended.
DrainPending(w) ==
    /\ pc[Main(w)] = "drain"
    /\ IF pending[w] = NoJob
         THEN Goto(Main(w), "drainQueue") /\ UNCHANGED <<job, contested, outcome>>
         ELSE /\ Drain(w, pending[w], "heldExec", "drainClear")
              /\ IF pc[Pipe(w)] = "storeNew" THEN Contest(w) ELSE UNCHANGED contested
    /\ UNCHANGED <<queue, pending, target, reads, lock, stopping, switch>>

DrainClear(w) ==
    /\ pc[Main(w)] = "drainClear"
    /\ pending' = [pending EXCEPT ![w] = NoJob]
    /\ Goto(Main(w), "drainQueue")
    /\ UNCHANGED <<queue, contested, job, target, reads, lock, stopping, switch, outcome>>

\* DrainAll.
DrainNext(w, j) ==
    /\ pc[Main(w)] = "drainQueue"
    /\ j \in queue[w]
    /\ queue' = [queue EXCEPT ![w] = @ \ {j}]
    /\ Drain(w, j, "drainExec", "drainQueue")
    /\ UNCHANGED <<stored, target, reads, lock, stopping, switch>>

DrainExec(w) ==
    /\ pc[Main(w)] \in {"heldExec", "drainExec"}
    /\ End(job[Main(w)], "executed")
    /\ job' = [job EXCEPT ![Main(w)] = NoJob]
    /\ Goto(Main(w), IF pc[Main(w)] = "heldExec" THEN "drainClear" ELSE "drainQueue")
    /\ UNCHANGED <<queue, stored, target, reads, lock, stopping, switch>>

DrainDone(w) ==
    /\ pc[Main(w)] = "drainQueue"
    /\ queue[w] = {}
    /\ wlock' = IF wlock = Main(w) THEN NoThread ELSE wlock
    /\ Goto(Main(w), "done")
    /\ UNCHANGED <<queue, stored, job, target, reads, rlock, writeReq, stopping, switch, outcome>>

(***************************************************************************)
(* WorkerPool.SetRWEnabled(false), serialised by WorkerPool.mu.  Each wait *)
(* may time out after StopTimeout.                                         *)
(***************************************************************************)
SwitchStep == UNCHANGED <<queue, stored, threads, reads, lock, stopping, outcome>>

BeginDisable ==
    /\ DisableCalls
    /\ dpc = "idle" /\ enabled
    /\ disabling' = TRUE
    /\ dpc' = "pipes" /\ scan' = Workers
    /\ UNCHANGED <<enabled, flipped>> /\ SwitchStep

\* waitReadPipelinesDrained: a sweep over the workers, restarted at the first
\* whose launched reads lag behind.
ScanPipelines ==
    /\ dpc = "pipes"
    /\ \/ /\ scan = {} /\ dpc' = "lock" /\ UNCHANGED scan
       \/ \E w \in scan :
            /\ scan' = IF launched[w] < dispatched[w] THEN Workers ELSE scan \ {w}
            /\ UNCHANGED dpc
    /\ UNCHANGED <<enabled, disabling, flipped>> /\ SwitchStep

\* RWController.Disable: TryLock, store, Unlock.
DisableRW ==
    /\ dpc = "lock"
    /\ CanTryLock
    /\ enabled' = FALSE
    /\ flipped' = IF flipped = "never" THEN "once" ELSE flipped
    /\ dpc' = "inflight" /\ scan' = Workers
    /\ UNCHANGED disabling /\ SwitchStep

\* Either wait before the store gives up: EndDisable.
DisableTimeout ==
    /\ dpc \in {"pipes", "lock"}
    /\ StopTimeouts
    /\ disabling' = FALSE
    /\ dpc' = "idle" /\ scan' = {}
    /\ UNCHANGED <<enabled, flipped>> /\ SwitchStep

\* waitInflightReadsDone.
ScanInflight ==
    /\ dpc = "inflight"
    /\ \/ /\ scan = {} /\ dpc' = "end" /\ UNCHANGED scan
       \/ \E w \in scan :
            /\ scan' = IF inflight[w] # {} THEN Workers ELSE scan \ {w}
            /\ UNCHANGED dpc
    /\ UNCHANGED <<enabled, disabling, flipped>> /\ SwitchStep

\* The rollback: Enable, and then EndDisable as a store of its own.
InflightTimeout ==
    /\ dpc = "inflight" /\ scan # {}
    /\ StopTimeouts
    /\ enabled' = TRUE
    /\ flipped' = "rolledBack"
    /\ dpc' = "rollback" /\ scan' = {}
    /\ UNCHANGED disabling /\ SwitchStep

EndDisable ==
    /\ dpc \in {"end", "rollback"}
    /\ disabling' = FALSE
    /\ dpc' = IF dpc = "end" THEN "returned" ELSE "idle"
    /\ UNCHANGED <<enabled, scan, flipped>> /\ SwitchStep

(***************************************************************************)
(* The specification.                                                      *)
(***************************************************************************)
ExecWrite(t) ==
    \/ WriteTarget(t) \/ WriteSpin(t) \/ WriteSpinClosed(t)
    \/ WriteTryLock(t) \/ WriteTryClosed(t) \/ WriteExec(t) \/ WriteDec(t)
    \/ StoreRead(t) \/ StoreNew(t)

MainLoop(w) ==
    \/ \E j \in Jobs : NextJob(w, j)
    \/ LoadMode(w) \/ SerialExec(w) \/ ExecWithRW(w) \/ DispatchRead(w) \/ SendRead(w)
    \/ ExecWrite(Main(w))

Exit(w) ==
    \/ CloseReadCh(w) \/ WaitPipeline(w) \/ WaitReadsMode(w) \/ WaitReads(w)
    \/ DecideDrain(w) \/ DrainLock(w) \/ DrainPending(w) \/ DrainClear(w)
    \/ DrainExec(w) \/ DrainDone(w)
    \/ \E j \in Jobs : DrainNext(w, j)

Pipeline(w) ==
    \/ PipeRecv(w) \/ LaunchGate(w) \/ LaunchToken(w) \/ PipeRLock(w) \/ LaunchRead(w)
    \/ ExecWrite(Pipe(w))

Reader(w, j) == ReadExec(w, j) \/ ReadDone(w, j)

SetRWEnabledFalse ==
    \/ BeginDisable \/ ScanPipelines \/ DisableRW \/ DisableTimeout
    \/ ScanInflight \/ InflightTimeout \/ EndDisable

\* Every worker has stopped and no goroutine of the pool is left.
Stopped ==
    /\ \A w \in Workers : pc[Main(w)] = "done" /\ pc[Pipe(w)] = "done" /\ inflight[w] = {}
    /\ UNCHANGED vars

Next ==
    \/ \E j \in Jobs : SubmitJob(j)
    \/ \E w \in Workers : \/ BeginStop(w) \/ StopDeadline(w)
                          \/ MainLoop(w) \/ Exit(w) \/ Pipeline(w)
                          \/ \E j \in Jobs : Reader(w, j)
    \/ SetRWEnabledFalse
    \/ Stopped

Spec == Init /\ [][Next]_vars

\* The Go scheduler runs every goroutine; handlers return; a call of
\* SetRWEnabled that has begun goes on.  Nothing forces a job to be posted, a
\* stop to be requested or a deadline to pass.
Fairness ==
    /\ \A w \in Workers : WF_vars(MainLoop(w) \/ Exit(w)) /\ WF_vars(Pipeline(w))
    /\ \A j \in ReadJobs : WF_vars(Reader(WorkerOf[j], j))
    /\ WF_vars(ScanPipelines \/ DisableRW \/ ScanInflight \/ EndDisable)

FairSpec == Spec /\ Fairness

(***************************************************************************)
(* Properties.                                                             *)
(***************************************************************************)
PcOK ==
    /\ pc \in [Threads -> MainLabels \cup PipeLabels]
    /\ \A w \in Workers : pc[Main(w)] \in MainLabels /\ pc[Pipe(w)] \in PipeLabels

PlacesOK ==
    /\ queue \in [Workers -> SUBSET Jobs]
    /\ job \in [Threads -> Jobs \cup {NoJob}]
    /\ readCh \in [Workers -> Seq(Jobs)]
    /\ inflight \in [Workers -> SUBSET Jobs]
    /\ pending \in [Workers -> Jobs \cup {NoJob}] /\ contested \subseteq Workers
    /\ sem \subseteq Jobs /\ rlock \subseteq Jobs

CountersOK ==
    /\ target \in [Threads -> Nat]
    /\ dispatched \in [Workers -> Nat] /\ launched \in [Workers -> Nat]
    /\ writeReq \in [Workers -> Nat]
    /\ ends \in [Jobs -> Nat]

FlagsOK ==
    /\ state \in [Workers -> {"running", "closed"}]
    /\ expired \in [Workers -> BOOLEAN] /\ timedOut \in [Workers -> BOOLEAN]
    /\ drainMode \in [Workers -> {"execute", "discard", "unsafe"}]
    /\ enabled \in BOOLEAN /\ disabling \in BOOLEAN
    /\ wlock \in Threads \cup {NoThread}
    /\ dpc \in {"idle", "pipes", "lock", "inflight", "rollback", "end", "returned"}
    /\ scan \subseteq Workers
    /\ flipped \in {"never", "once", "rolledBack"}
    /\ fate \in [Jobs -> Fates]

\* The variables keep the types of the fields of Worker and RWController, and
\* every goroutine stays on the labels of its own code.  In particular
\* writeRequested, which is decremented on three paths, never drops below zero.
TypeOK == PcOK /\ PlacesOK /\ CountersOK /\ FlagsOK

\* The goroutines inside the business handler of a job: as a writer (the main
\* loop, the drain or a degraded read), or as a read goroutine.
Writing(t) == pc[t] \in {"exec", "wexec", "heldExec", "drainExec"}
Reading(w) == inflight[w] \cap rlock

\* While RW mode has never been switched off, a write of any worker, drains
\* included, runs alone: no other write and no read of any worker runs with it
\* (execWrite and run, worker.go).
Exclusion ==
    flipped = "never" =>
        \A t \in Threads : Writing(t) =>
            /\ \A u \in Threads \ {t} : ~Writing(u)
            /\ \A w \in Workers : Reading(w) = {}

\* The order contract of dispatchRead: when the main loop executes a write,
\* every read it took from the queue before has finished or been discarded;
\* none waits in readCh, in the pipeline or in a read goroutine.
ReadsBeforeWrite ==
    flipped = "never" =>
        \A w \in Workers : pc[Main(w)] \in {"wexec", "heldExec", "drainExec"} =>
            /\ readCh[w] = <<>>
            /\ pc[Pipe(w)] \in {"recv", "done"}
            /\ Reading(w) = {}

\* A job is executed or discarded at most once, whatever the order of stop,
\* timeouts and mode switch, and a rejected job is never touched by the worker;
\* except where the pipeline's storePending ran into the drain's use of
\* pendingJob or into the main loop's storePending (contested).
JobEndsOnce ==
    \A j \in Jobs : WorkerOf[j] \notin contested =>
        ends[j] = IF fate[j] \in {"unposted", "rejected", "live"} THEN 0 ELSE 1

\* A worker whose stop did not time out leaves no admitted job behind: when
\* its main goroutine has exited, each of its jobs has ended and no goroutine
\* of it is still at work (run, "no message is lost on shutdown").
NoJobLeft ==
    \A w \in Workers : pc[Main(w)] = "done" /\ ~timedOut[w] =>
        /\ w \notin contested => \A j \in Jobs : WorkerOf[j] = w => fate[j] # "live"
        /\ pc[Pipe(w)] = "done"

\* launchRead's comment: the reads left in the channel when a stop begins are
\* not lost, and only a stop timeout leaves the orderly path.  So without one
\* each admitted read has ended when the main goroutine has exited, also when
\* both goroutines had a job to store in pendingJob.
ResidualReadsKept ==
    \A w \in Workers : pc[Main(w)] = "done" /\ ~timedOut[w] =>
        \A j \in ReadJobs : WorkerOf[j] = w => fate[j] # "live"

\* The contract of SetRWEnabled(false): once it has returned without an error,
\* the read pipelines hold no job and every read goroutine has exited.
DisableQuiesces ==
    dpc = "returned" =>
        \A w \in Workers : /\ readCh[w] = <<>>
                           /\ pc[Pipe(w)] \in {"recv", "done"}
                           /\ inflight[w] = {}

\* A requested stop completes, whether or not its timeouts expire.
StopCompletes ==
    \A w \in Workers : state[w] = "closed" ~> pc[Main(w)] = "done"

\* Every admitted job is eventually executed or discarded, unless its worker's
\* stop timed out or RW mode was switched off at run time.  Jobs are finite
\* and posted once, so "eventually none is live" says it of each of them.
JobsEnd ==
    <>[](\A j \in Jobs :
            fate[j] = "live" => timedOut[WorkerOf[j]] \/ flipped # "never")
=============================================================================
