----------------------------- MODULE WorkerPool -----------------------------
(***************************************************************************)
(* WorkerPool with automatic scaling (worker_pool.go, dispatch_ring.go,    *)
(* scaler.go): jobs with a dispatcher key are routed by a jump-hash ring   *)
(* over a copy-on-write snapshot of the workers, while the autoscaler      *)
(* grows and shrinks the pool and Stop takes it down.                      *)
(*                                                                         *)
(* Every key has one goroutine that posts its jobs in order; it loads the  *)
(* snapshot in one step and submits to the chosen worker in another, so    *)
(* the snapshot may be stale by then.  A worker is a serial consumer of a  *)
(* FIFO queue (Mailbox has its details).  Workers are identified by their  *)
(* ids, which nextWorkerID never hands out twice.                          *)
(***************************************************************************)
EXTENDS Naturals, Sequences, FiniteSets

CONSTANTS
    Keys,           \* the dispatcher keys
    JobsPerKey,     \* bound: how many jobs are posted with each key
    MaxIDs,         \* bound: how many workers are ever created
    Jumps,          \* the values the loop of jumpHash passes through for a key
    InitialWorkers, \* SchedulePolicy.InitialWorkerNum
    MinWorkers,     \* ScalingStrategy.MinWorkerNum
    MaxWorkers,     \* ScalingStrategy.MaxWorkerNum
    Growth,         \* ScalingStrategy.GrowthFactor, in percent
    Shrinkage,      \* ScalingStrategy.ShrinkFactor, in percent
    QueueCap,       \* capacity of a worker's queue
    DrainPolicy,    \* "execute" or "discard"
    NoWorker, NoJob

IDs == 0..(MaxIDs - 1)
Jobs == Keys \X (1..JobsPerKey)

ASSUME ConstantsAssumption ==
    /\ JobsPerKey \in Nat /\ MaxIDs \in Nat
    /\ Jumps \in [Keys -> SUBSET Nat] /\ \A k \in Keys : 0 \in Jumps[k]
    \* fixConf, and the check of MaxWorkerNum in the bounded queue configuration.
    /\ MinWorkers \in Nat \ {0} /\ MaxWorkers \in Nat /\ InitialWorkers \in Nat \ {0}
    /\ MinWorkers <= MaxWorkers /\ InitialWorkers <= MaxWorkers
    /\ Growth \in Nat \ {0} /\ Shrinkage \in 1..50
    /\ InitialWorkers <= MaxIDs
    /\ QueueCap \in Nat \ {0}
    /\ DrainPolicy \in {"execute", "discard"}
    /\ NoWorker \notin IDs /\ NoJob \notin Jobs

VARIABLES
    snap,         \* the ids in the published snapshot; {} is no snapshot
    workerCount,  \* WorkerPool.workerCount
    nextID,       \* WorkerPool.nextWorkerID
    wstate,       \* the state of a worker: exited once its goroutine is gone
    wq,           \* a worker's queue
    cur,          \* the job a worker executes
    spc,          \* where the autoscaler goroutine is
    removed,      \* the workers a shrink takes out
    newSize,      \* the size a shrink goes down to
    posted,       \* how many jobs of a key have been posted
    route,        \* the worker DispatchJob has chosen, not yet submitted to
    stop,         \* where the call of Stop is
    closing,      \* the workers BeginStop has still to close, or Wait waits for
    fate,         \* what became of a job
    torn          \* history: the keys an expansion moved with work in flight

scaler == <<spc, removed, newSize>>
pool == <<snap, workerCount, nextID, torn>>
workers == <<wstate, wq, cur>>
posters == <<posted, route>>
stopper == <<stop, closing>>
vars == <<pool, workers, scaler, posters, stopper, fate>>

(***************************************************************************)
(* The dispatch ring.  jumpHash walks up the values the key's hash jumps   *)
(* to and returns the last one below n; Get takes the worker with that     *)
(* index in the sorted ids.                                                *)
(***************************************************************************)
JumpHash(k, n) == CHOOSE b \in Jumps[k] : b < n /\ \A c \in Jumps[k] : c < n => c <= b

Rank(ids, i) == Cardinality({x \in ids : x < i})

Get(ids, k) == CHOOSE i \in ids : Rank(ids, i) = JumpHash(k, Cardinality(ids))

(***************************************************************************)
(* AutoScaler.ShouldResize.  The load strategies decide whether to scale   *)
(* up or down from queue lengths read while the workers run: any decision  *)
(* is possible.                                                            *)
(***************************************************************************)
Clamp(n) == IF n < MinWorkers THEN MinWorkers ELSE IF n > MaxWorkers THEN MaxWorkers ELSE n

ShouldResize(n) == {Clamp(n + ((n * Growth + 99) \div 100)),
                    Clamp(n - ((n * Shrinkage) \div 100))}

Init ==
    /\ snap = 0..(InitialWorkers - 1)
    /\ workerCount = InitialWorkers /\ nextID = InitialWorkers
    /\ wstate = [i \in IDs |-> IF i < InitialWorkers THEN "running" ELSE "none"]
    /\ wq = [i \in IDs |-> <<>>]
    /\ cur = [i \in IDs |-> NoJob]
    /\ spc = "wait" /\ removed = {} /\ newSize = 0
    /\ posted = [k \in Keys |-> 0]
    /\ route = [k \in Keys |-> NoWorker]
    /\ stop = "none" /\ closing = {}
    /\ fate = [j \in Jobs |-> "none"]
    /\ torn = {}

(***************************************************************************)
(* DispatchJob: load the snapshot and choose the worker, then submit.      *)
(***************************************************************************)
NextPost(k) == <<k, posted[k] + 1>>

Posted(k, how) ==
    /\ posted' = [posted EXCEPT ![k] = @ + 1]
    /\ fate' = [fate EXCEPT ![NextPost(k)] = how]

LoadSnapshot(k) ==
    /\ posted[k] < JobsPerKey /\ route[k] = NoWorker
    /\ IF snap = {} THEN Posted(k, "rejected") /\ UNCHANGED route
                    ELSE route' = [route EXCEPT ![k] = Get(snap, k)] /\ UNCHANGED <<posted, fate>>
    /\ UNCHANGED <<pool, workers, scaler, stopper>>

SubmitJob(k) ==
    LET i == route[k] IN
    /\ i # NoWorker
    /\ IF wstate[i] = "running" /\ Len(wq[i]) < QueueCap
         THEN /\ wq' = [wq EXCEPT ![i] = Append(@, NextPost(k))]
              /\ Posted(k, "accepted")
         ELSE Posted(k, "rejected") /\ UNCHANGED wq
    /\ route' = [route EXCEPT ![k] = NoWorker]
    /\ UNCHANGED <<pool, wstate, cur, scaler, stopper>>


TakeJob(i) ==
    /\ wstate[i] \in {"running", "closed"} /\ cur[i] = NoJob /\ wq[i] # <<>>
    /\ wq' = [wq EXCEPT ![i] = Tail(@)]
    /\ IF wstate[i] = "closed" /\ DrainPolicy = "discard"
         THEN fate' = [fate EXCEPT ![Head(wq[i])] = "ended"] /\ UNCHANGED cur
         ELSE cur' = [cur EXCEPT ![i] = Head(wq[i])] /\ UNCHANGED fate
    /\ UNCHANGED <<pool, wstate, scaler, posters, stopper>>

ExecJob(i) ==
    /\ cur[i] # NoJob
    /\ fate' = [fate EXCEPT ![cur[i]] = "ended"]
    /\ cur' = [cur EXCEPT ![i] = NoJob]
    /\ UNCHANGED <<pool, wstate, wq, scaler, posters, stopper>>

ExitWorker(i) ==
    /\ wstate[i] = "closed" /\ cur[i] = NoJob /\ wq[i] = <<>>
    /\ wstate' = [wstate EXCEPT ![i] = "exited"]
    /\ UNCHANGED <<pool, wq, cur, scaler, posters, stopper, fate>>

(***************************************************************************)
(* The autoscaler, the only caller of resizeWorkers.  Its select may take  *)
(* a tick even after the pool's context has been cancelled.                *)
(***************************************************************************)
\* The keys whose owner changes with the new snapshot while a job of theirs
\* is queued or executing, or a poster holds a worker of the old one.
TornBy(ids) ==
    {k \in Keys : /\ Get(ids, k) # Get(snap, k)
                  /\ \/ route[k] # NoWorker
                     \/ \E n \in 1..JobsPerKey : fate[<<k, n>>] = "accepted"}

\* Mutant: workerCount is not updated.
ExpandUncounted(n) ==
    LET new == nextID..(nextID + n - workerCount - 1) IN
    /\ spc = "wait" /\ snap # {}
    /\ n \in ShouldResize(Cardinality(snap)) /\ n > workerCount
    /\ new \subseteq IDs
    /\ nextID' = nextID + (n - workerCount)
    /\ wstate' = [i \in IDs |-> IF i \in new THEN "running" ELSE wstate[i]]
    /\ snap' = snap \cup new
    /\ torn' = torn \cup TornBy(snap \cup new)
    /\ UNCHANGED <<workerCount, wq, cur, scaler, posters, stopper, fate>>

\* resizeWorkers, growing: the new workers run before they are published.
Expand(n) ==
    LET new == nextID..(nextID + n - workerCount - 1) IN
    /\ spc = "wait" /\ snap # {}
    /\ n \in ShouldResize(Cardinality(snap)) /\ n > workerCount
    /\ new \subseteq IDs
    /\ nextID' = nextID + (n - workerCount)
    /\ wstate' = [i \in IDs |-> IF i \in new THEN "running" ELSE wstate[i]]
    /\ workerCount' = n
    /\ snap' = snap \cup new
    /\ torn' = torn \cup TornBy(snap \cup new)
    /\ UNCHANGED <<wq, cur, scaler, posters, stopper, fate>>

\* resizeWorkers, shrinking: the workers with the highest ids are stopped.
BeginShrink(n) ==
    /\ spc = "wait" /\ snap # {}
    /\ n \in ShouldResize(Cardinality(snap)) /\ n < workerCount
    /\ removed' = {i \in snap : Rank(snap, i) >= n}
    /\ newSize' = n
    /\ spc' = "shrink"
    /\ UNCHANGED <<pool, workers, posters, stopper, fate>>

ShrinkStop(i) ==
    /\ spc = "shrink" /\ i \in removed
    /\ wstate[i] = "running"
    /\ wstate' = [wstate EXCEPT ![i] = "closed"]
    /\ UNCHANGED <<pool, wq, cur, scaler, posters, stopper, fate>>

\* Mutant: the new snapshot is published before the removed workers have
\* drained.
ShrinkPublishEarly ==
    /\ spc = "shrink"
    /\ \A i \in removed : wstate[i] # "running"
    /\ snap' = snap \ removed
    /\ workerCount' = newSize
    /\ spc' = "wait" /\ removed' = {} /\ newSize' = 0
    /\ UNCHANGED <<nextID, torn, workers, posters, stopper, fate>>

\* Once every removed worker has exited, the snapshot without them replaces
\* the old one.
ShrinkPublish ==
    /\ spc = "shrink"
    /\ \A i \in removed : wstate[i] = "exited"
    /\ snap' = snap \ removed
    /\ workerCount' = newSize
    /\ spc' = "wait" /\ removed' = {} /\ newSize' = 0
    /\ UNCHANGED <<nextID, torn, workers, posters, stopper, fate>>

ScalerExit ==
    /\ spc = "wait" /\ stop # "none"
    /\ spc' = "done"
    /\ UNCHANGED <<pool, workers, removed, newSize, posters, stopper, fate>>

(***************************************************************************)
(* Stop: cancel the context, wait for the autoscaler, close the workers of *)
(* the snapshot, wait for them, drop the snapshot.                         *)
(***************************************************************************)
Cancel ==
    /\ stop = "none"
    /\ stop' = "cancelled"
    /\ UNCHANGED <<pool, workers, scaler, posters, closing, fate>>

BeginStop ==
    /\ stop = "cancelled" /\ spc = "done"
    /\ stop' = "closing" /\ closing' = snap
    /\ UNCHANGED <<pool, workers, scaler, posters, fate>>

StopWorker(i) ==
    /\ stop = "closing" /\ i \in closing
    /\ wstate' = [wstate EXCEPT ![i] = IF @ = "running" THEN "closed" ELSE @]
    /\ closing' = closing \ {i}
    /\ UNCHANGED <<pool, wq, cur, scaler, posters, stop, fate>>

\* Wait loads the snapshot once more and waits for the workers in it.
WaitSnapshot ==
    /\ stop = "closing" /\ closing = {}
    /\ stop' = "waiting" /\ closing' = snap
    /\ UNCHANGED <<pool, workers, scaler, posters, fate>>

Wait ==
    /\ stop = "waiting"
    /\ \A i \in closing : wstate[i] = "exited"
    /\ snap' = {} /\ stop' = "stopped" /\ closing' = {}
    /\ UNCHANGED <<workerCount, nextID, torn, workers, scaler, posters, fate>>

Idle ==
    /\ stop = "stopped" /\ \A k \in Keys : posted[k] = JobsPerKey
    /\ UNCHANGED vars

Poster(k) == LoadSnapshot(k) \/ SubmitJob(k)
Worker(i) == TakeJob(i) \/ ExecJob(i) \/ ExitWorker(i)
Resizing == ShrinkPublish \/ ScalerExit \/ \E i \in IDs : ShrinkStop(i)
Stopping == BeginStop \/ WaitSnapshot \/ Wait \/ \E i \in IDs : StopWorker(i)

Next ==
    \/ \E k \in Keys : Poster(k)
    \/ \E i \in IDs : Worker(i)
    \/ \E n \in MinWorkers..MaxWorkers : Expand(n) \/ BeginShrink(n)
    \/ Resizing
    \/ Cancel \/ Stopping
    \/ Idle

Spec == Init /\ [][Next]_vars

\* Goroutines run and handlers return; nothing forces a resize or a stop.
\* The select of the autoscaler eventually takes the cancelled context.
Fairness ==
    /\ \A i \in IDs : WF_vars(Worker(i))
    /\ WF_vars(ShrinkPublish \/ \E i \in IDs : ShrinkStop(i))
    /\ SF_vars(ScalerExit)
    /\ WF_vars(Stopping)

FairSpec == Spec /\ Fairness

(***************************************************************************)
(* Properties.                                                             *)
(***************************************************************************)
\* The fields keep their types, and a worker exists iff its id was given out.
TypeOK ==
    /\ snap \subseteq IDs /\ workerCount \in Nat /\ nextID \in 0..MaxIDs
    /\ wstate \in [IDs -> {"none", "running", "closed", "exited"}]
    /\ \A i \in IDs : wstate[i] = "none" <=> i >= nextID
    /\ wq \in [IDs -> Seq(Jobs)]
    /\ cur \in [IDs -> Jobs \cup {NoJob}]
    /\ spc \in {"wait", "shrink", "done"}
    /\ removed \subseteq IDs /\ newSize \in Nat
    /\ posted \in [Keys -> 0..JobsPerKey]
    /\ route \in [Keys -> IDs \cup {NoWorker}]
    /\ stop \in {"none", "cancelled", "closing", "waiting", "stopped"} /\ closing \subseteq IDs
    /\ fate \in [Jobs -> {"none", "accepted", "rejected", "ended"}]
    /\ torn \subseteq Keys

\* The order contract of the dispatcher key: when a worker executes a job,
\* every job accepted before with the same key has ended.  So the jobs of a
\* key run one at a time and in order, on whatever workers, through shrinks,
\* stops and stale snapshots.
Ordered(k) ==
    \A i \in IDs, n \in 1..JobsPerKey : cur[i] = <<k, n>> =>
        \A m \in 1..(n - 1) : fate[<<k, m>>] # "accepted"

\* The contract holds for every key that no expansion moved to another worker
\* while a job or a posting of it was in flight.
KeyOrder == \A k \in Keys \ torn : Ordered(k)

\* What dispatch_ring.go claims: no change of the topology breaks the order.
KeyOrderAlways == \A k \in Keys : Ordered(k)

\* Stop leaves no worker goroutine behind, whatever the autoscaler was doing
\* when it was called: each worker ever started has drained and exited.
NoWorkerLeaks ==
    stop = "stopped" => \A i \in IDs : /\ wstate[i] \in {"none", "exited"}
                                       /\ wq[i] = <<>> /\ cur[i] = NoJob

\* The counter resizeWorkers computes with agrees with the snapshot, whose
\* size stays within the configured bounds; and only a shrink or a stop in
\* progress may leave a worker in it that rejects jobs.
SnapshotSound ==
    stop # "stopped" =>
        /\ workerCount = Cardinality(snap)
        /\ workerCount \in 1..MaxWorkers
        /\ workerCount >= InitialWorkers \/ workerCount >= MinWorkers
        /\ spc # "shrink" /\ stop \in {"none", "cancelled"} => \A i \in snap : wstate[i] = "running"

\* Whatever resizes and stops meet, the snapshot, the worker counter and the
\* running workers agree, and Stop leaves no worker goroutine behind
\* (resizeWorkers, BeginStop, Wait).
PoolSound == TypeOK /\ SnapshotSound /\ NoWorkerLeaks

\* An accepted job is executed or discarded in the end.  A job is posted
\* once, so "eventually none is waiting" says it of each of them.
AcceptedJobsEnd == <>[](\A j \in Jobs : fate[j] # "accepted")

\* Stop, called once, returns, even when it meets a resize in progress.
StopReturns == <>[](stop \in {"none", "stopped"})
=============================================================================
