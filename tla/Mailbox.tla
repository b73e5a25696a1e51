------------------------------- MODULE Mailbox -------------------------------
(***************************************************************************)
(* A mailbox with one worker in serial mode, the default configuration:    *)
(* Mailbox.PostJob with its suspend policy and middleware chain            *)
(* (mailbox.go, suspend_policy.go, middleware_chain.go), Worker.SubmitJob, *)
(* run and BeginStop (worker.go), the dual and the priority queue manager  *)
(* over bounded queues (queue_manager_*.go, scheduler.go), the idle        *)
(* controller the worker parks on (utils/idle) and Mailbox.Stop.           *)
(*                                                                         *)
(* Every job is posted by a goroutine of its own.  The code of PostJob     *)
(* that touches only the job and its context is one step; every access to  *)
(* shared state (the suspended flag, the middleware list, the worker's     *)
(* state, a queue, the idle controller) is a step of its own.              *)
(***************************************************************************)
EXTENDS Integers, Sequences, FiniteSets, SequencesExt

CONSTANTS
    Jobs,           \* the jobs that may be posted
    Priority,       \* the priority a job is posted with
    AllowedJobs,    \* the jobs DefaultSuspendPolicy lets pass for their type
    CancelableJobs, \* the jobs dropped when their context is done
    Middlewares,    \* the middlewares that may be in the chain
    Dynamic,        \* the ones Add and Remove are called for at run time
    InitialChain,   \* the middleware list the mailbox is built with
    MaxChain,       \* bound: the length Add lets the list grow to
    SuspendCalls,   \* whether Suspend and Resume are called
    QueueMode,      \* "dual" or "priority"
    Registered,     \* the priorities of the priority queue manager
    LaneCapacity,   \* the capacity of every bounded queue
    DrainPolicy,    \* "execute" or "discard"
    Wrap,           \* where the queues' uint64 counters wrap
    NoJob, NoCtx    \* the nil job and the nil middleware context

PrioritySys == -3
PriorityUrgent == -2
PriorityHigh == -1
PriorityNormal == 0

Ring == INSTANCE BoundedRing WITH Nil <- NoJob

\* MiddlewareContext: the list ExecuteOnReceive walked, and how far it came.
Contexts == [snapshot : Seq(Middlewares), executed : Nat]

ASSUME ConstantsAssumption ==
    /\ Priority \in [Jobs -> Int]
    /\ AllowedJobs \subseteq Jobs /\ CancelableJobs \subseteq Jobs
    /\ InitialChain \in Seq(Middlewares) /\ Dynamic \subseteq Middlewares /\ MaxChain \in Nat
    /\ SuspendCalls \in BOOLEAN
    /\ QueueMode \in {"dual", "priority"}
    \* normalizeQueueSpec: the system priorities and a user queue are registered.
    /\ Registered \subseteq Int /\ IsFiniteSet(Registered)
    /\ {PrioritySys, PriorityUrgent, PriorityHigh} \subseteq Registered
    /\ \E p \in Registered : p >= PriorityNormal
    /\ LaneCapacity \in Nat \ {0} /\ Ring!ValidCapacity(LaneCapacity)
    /\ Wrap \in Nat \ {0} /\ Wrap % LaneCapacity = 0
    /\ DrainPolicy \in {"execute", "discard"}
    /\ NoJob \notin Jobs /\ NoCtx \notin Contexts

VARIABLES
    post,       \* where the PostJob call of a job is
    result,     \* what PostJob returned
    prio,       \* the job's priority field
    mctx,       \* the job's middleware context
    chain,      \* the copy-on-write middleware list
    suspended,  \* Mailbox.suspended
    state,      \* Worker.state
    queues,     \* the queue manager's physical queues
    notified,   \* AdaptiveController.notified
    cpc,        \* where the worker goroutine is
    scan,       \* the queues NextJob has still to look at
    current,    \* the job the worker handles
    stop,       \* where the Mailbox.Stop call is
    received,   \* history: the middlewares whose OnReceive saw the job
    completed,  \* history: the middlewares whose OnComplete saw the job
    fate,       \* executed by the handler, or reported to OnJobDiscarded
    releases    \* history: calls of Release

poster == <<post, result, prio, mctx>>
worker == <<cpc, scan, current>>
history == <<received, completed, fate, releases>>
vars == <<poster, chain, suspended, state, queues, notified, worker, stop, history>>

(***************************************************************************)
(* The queue managers.  A lane is a physical queue; the lower its number   *)
(* the earlier NextJob and DrainAll look at it.                            *)
(***************************************************************************)
Lanes == IF QueueMode = "dual" THEN {0, 1} ELSE Registered

MinLane(S) == CHOOSE l \in S : \A m \in S : l <= m
MaxLane(S) == CHOOSE l \in S : \A m \in S : l >= m

\* DualQueueManager.Submit splits at PriorityNormal; PriorityQueueManager
\* sends an unregistered priority to the lowest registered one.
LaneFor(p) ==
    IF QueueMode = "dual" THEN (IF p < PriorityNormal THEN 0 ELSE 1)
    ELSE IF p \in Registered THEN p ELSE MaxLane(Registered)

\* The fallback rewrites the job's priority; a full queue undoes it.
SubmittedPriority(p) == IF QueueMode = "dual" THEN p ELSE LaneFor(p)

\* NextPriorityWithOrdering picks the first of the non-empty priorities under
\* all three strategies, since no two queues share a priority.  NextJob takes
\* the value -1 for "none to be selected".
Selects(l) == QueueMode = "dual" \/ l # -1

Init ==
    /\ post = [j \in Jobs |-> "new"]
    /\ result = [j \in Jobs |-> "none"]
    /\ prio = Priority
    /\ mctx = [j \in Jobs |-> NoCtx]
    /\ chain = InitialChain
    /\ suspended = FALSE
    /\ state = "running"
    /\ queues = [l \in Lanes |-> Ring!New(LaneCapacity)]
    /\ notified = FALSE
    /\ cpc = "loop" /\ scan = {} /\ current = NoJob
    /\ stop = "none"
    /\ received = [j \in Jobs |-> <<>>]
    /\ completed = [j \in Jobs |-> <<>>]
    /\ fate = [j \in Jobs |-> "none"]
    /\ releases = [j \in Jobs |-> 0]

(***************************************************************************)
(* The end of a job: OnJobDiscarded or the handler, then OnComplete of the *)
(* middlewares in the context's snapshot, the last executed first, then    *)
(* Release.                                                                *)
(***************************************************************************)
ExecutedPrefix(c) == IF c = NoCtx THEN <<>> ELSE SubSeq(c.snapshot, 1, c.executed)

Finish(j, c, how) ==
    /\ fate' = [fate EXCEPT ![j] = how]
    /\ completed' = [completed EXCEPT ![j] = @ \o Reverse(ExecutedPrefix(c))]
    /\ releases' = [releases EXCEPT ![j] = @ + 1]

\* PostJob returns an error after it has disposed of the job.
Refuse(j, c, err) ==
    /\ Finish(j, c, "discarded")
    /\ post' = [post EXCEPT ![j] = "returned"]
    /\ result' = [result EXCEPT ![j] = err]

(***************************************************************************)
(* Mailbox.PostJob and Worker.SubmitJob.                                   *)
(***************************************************************************)
ShouldAllow(j) == prio[j] <= PriorityUrgent \/ j \in AllowedJobs

PostJob(j) ==
    /\ post[j] = "new"
    /\ IF suspended /\ ~ShouldAllow(j)
         THEN Refuse(j, NoCtx, "suspended")
         ELSE /\ post' = [post EXCEPT ![j] = "receive"]
              /\ UNCHANGED <<result, completed, fate, releases>>
    /\ UNCHANGED <<prio, mctx, chain, suspended, state, queues, notified, worker, stop, received>>

\* ExecuteOnReceive: the list is loaded once; the n-th middleware ends the
\* walk by Reject (or a panic), by Skip, or by being the last.
ExecuteOnReceive(j) ==
    /\ post[j] = "receive"
    /\ IF chain = <<>>
         THEN /\ post' = [post EXCEPT ![j] = "submit"]
              /\ UNCHANGED <<result, mctx, history>>
         ELSE \E n \in 1..Len(chain), reject \in BOOLEAN :
                LET c == [snapshot |-> chain, executed |-> n] IN
                /\ received' = [received EXCEPT ![j] = SubSeq(chain, 1, n)]
                /\ IF reject
                     THEN Refuse(j, c, "rejected") /\ UNCHANGED mctx
                     ELSE /\ mctx' = [mctx EXCEPT ![j] = c]
                          /\ post' = [post EXCEPT ![j] = "submit"]
                          /\ UNCHANGED <<result, completed, fate, releases>>
    /\ UNCHANGED <<prio, chain, suspended, state, queues, notified, worker, stop>>

\* DispatchJob finds no snapshot once Wait is over; SubmitJob first looks at
\* the worker's state without the lock.
SubmitJob(j) ==
    /\ post[j] = "submit"
    /\ IF stop = "stopped" \/ state # "running"
         THEN Refuse(j, mctx[j], "closed")
         ELSE /\ post' = [post EXCEPT ![j] = "admit"]
              /\ UNCHANGED <<result, completed, fate, releases>>
    /\ UNCHANGED <<prio, mctx, chain, suspended, state, queues, notified, worker, stop, received>>

\* Mutant: the fallback priority stays with a job the full queue rejects.
AdmitKeepsFallback(j) ==
    LET l == LaneFor(prio[j]) IN
    /\ post[j] = "admit" /\ state = "running"
    /\ prio' = [prio EXCEPT ![j] = SubmittedPriority(@)]
    /\ IF Ring!CanPush(queues[l])
         THEN /\ queues' = [queues EXCEPT ![l] = Ring!Push(@, j)]
              /\ post' = [post EXCEPT ![j] = "wake"]
              /\ UNCHANGED <<result, completed, fate, releases>>
         ELSE Refuse(j, mctx[j], "full") /\ UNCHANGED queues
    /\ UNCHANGED <<mctx, chain, suspended, state, notified, worker, stop, received>>

\* Under admissionMu: look at the state again and publish to the queue.
Admit(j) ==
    LET l == LaneFor(prio[j]) IN
    /\ post[j] = "admit"
    /\ \/ /\ state # "running"
          /\ Refuse(j, mctx[j], "closed")
          /\ UNCHANGED <<prio, queues>>
       \/ /\ state = "running" /\ ~Ring!CanPush(queues[l])
          /\ Refuse(j, mctx[j], "full")
          /\ UNCHANGED <<prio, queues>>
       \/ /\ state = "running" /\ Ring!CanPush(queues[l])
          /\ prio' = [prio EXCEPT ![j] = SubmittedPriority(@)]
          /\ queues' = [queues EXCEPT ![l] = Ring!Push(@, j)]
          /\ post' = [post EXCEPT ![j] = "wake"]
          /\ UNCHANGED <<result, completed, fate, releases>>
    /\ UNCHANGED <<mctx, chain, suspended, state, notified, worker, stop, received>>

\* AdaptiveController.Wake, after which PostJob returns nil.
WakeWorker(j) ==
    /\ post[j] = "wake"
    /\ notified' = TRUE
    /\ post' = [post EXCEPT ![j] = "returned"]
    /\ result' = [result EXCEPT ![j] = "ok"]
    /\ UNCHANGED <<prio, mctx, chain, suspended, state, queues, worker, stop, history>>

(***************************************************************************)
(* Suspend, Resume and the copy-on-write updates of the chain.             *)
(***************************************************************************)
ToggleSuspend ==
    /\ SuspendCalls
    /\ suspended' = ~suspended
    /\ UNCHANGED <<poster, chain, state, queues, notified, worker, stop, history>>

AddMiddleware(m) ==
    /\ Len(chain) < MaxChain
    /\ chain' = Append(chain, m)
    /\ UNCHANGED <<poster, suspended, state, queues, notified, worker, stop, history>>

\* The first middleware of that name.
RemoveMiddleware(m) ==
    /\ \E i \in 1..Len(chain) :
          /\ chain[i] = m /\ \A k \in 1..(i - 1) : chain[k] # m
          /\ chain' = RemoveAt(chain, i)
    /\ UNCHANGED <<poster, suspended, state, queues, notified, worker, stop, history>>

(***************************************************************************)
(* Worker.run.                                                             *)
(***************************************************************************)
Outside == UNCHANGED <<poster, chain, suspended, state, stop>>

Loop ==
    /\ cpc = "loop"
    /\ IF state = "closed" THEN cpc' = "drain" /\ UNCHANGED scan
                           ELSE cpc' = "next" /\ scan' = Lanes
    /\ UNCHANGED <<current, queues, notified, history>> /\ Outside

\* NextJob looks at one queue after the other.
NextJob ==
    /\ cpc = "next"
    /\ \/ /\ scan = {} /\ cpc' = "idle"
          /\ UNCHANGED <<scan, current, queues>>
       \/ LET l == MinLane(scan) IN
          /\ scan # {}
          /\ \/ /\ Ring!Empty(queues[l])
                /\ scan' = scan \ {l}
                /\ UNCHANGED <<cpc, current, queues>>
             \/ /\ ~Ring!Empty(queues[l]) /\ Selects(l)
                /\ current' = Ring!Front(queues[l])
                /\ queues' = [queues EXCEPT ![l] = Ring!Pop(@)]
                /\ cpc' = "exec" /\ scan' = {}
             \/ /\ ~Ring!Empty(queues[l]) /\ ~Selects(l)
                /\ cpc' = "idle" /\ scan' = {}
                /\ UNCHANGED <<current, queues>>
    /\ UNCHANGED <<notified, history>> /\ Outside

\* safeExec: a cancelable job whose context is done is discarded instead.
SafeExec(home) ==
    /\ \E how \in IF current \in CancelableJobs THEN {"executed", "discarded"}
                                                ELSE {"executed"} :
          Finish(current, mctx[current], how)
    /\ current' = NoJob /\ cpc' = home
    /\ UNCHANGED <<scan, queues, notified, received>> /\ Outside

ExecJob == cpc = "exec" /\ SafeExec("loop")

\* Mutant: the controller clears the notification before it parks.
IdleClears ==
    /\ cpc = "idle"
    /\ cpc' \in {"loop", "park"}
    /\ notified' = FALSE
    /\ UNCHANGED <<scan, current, queues, history>> /\ Outside

\* AdaptiveController.Idle: below the threshold it returns, above it parks.
\* The count of idle rounds is left open: either may happen at any round.
Idle ==
    /\ cpc = "idle"
    /\ cpc' \in {"loop", "park"}
    /\ UNCHANGED <<scan, current, queues, notified, history>> /\ Outside

\* The condition wait returns once notified is set, and clears it.
Unpark ==
    /\ cpc = "park" /\ notified
    /\ notified' = FALSE
    /\ cpc' = "loop"
    /\ UNCHANGED <<scan, current, queues, history>> /\ Outside

\* DrainAll, the queues in order, by the drain policy.
Drain ==
    /\ cpc = "drain"
    /\ LET full == {l \in Lanes : ~Ring!Empty(queues[l])}
           l == MinLane(full) IN
       \/ /\ full = {} /\ cpc' = "done"
          /\ UNCHANGED <<current, queues, completed, fate, releases>>
       \/ /\ full # {}
          /\ queues' = [queues EXCEPT ![l] = Ring!Pop(@)]
          /\ IF DrainPolicy = "execute"
               THEN /\ current' = Ring!Front(queues[l]) /\ cpc' = "drainExec"
                    /\ UNCHANGED <<completed, fate, releases>>
               ELSE /\ Finish(Ring!Front(queues[l]), mctx[Ring!Front(queues[l])], "discarded")
                    /\ UNCHANGED <<current, cpc>>
    /\ UNCHANGED <<scan, notified, received>> /\ Outside

DrainExec == cpc = "drainExec" /\ SafeExec("drain")

(***************************************************************************)
(* Mailbox.Stop: close admission, wake the worker, wait for it, drop the   *)
(* snapshot.                                                               *)
(***************************************************************************)
BeginStop ==
    /\ stop = "none"
    /\ state' = "closed" /\ stop' = "wake"
    /\ UNCHANGED <<poster, chain, suspended, queues, notified, worker, history>>

StopWake ==
    /\ stop = "wake"
    /\ notified' = TRUE /\ stop' = "wait"
    /\ UNCHANGED <<poster, chain, suspended, state, queues, worker, history>>

Wait ==
    /\ stop = "wait" /\ cpc = "done"
    /\ stop' = "stopped"
    /\ UNCHANGED <<poster, chain, suspended, state, queues, notified, worker, history>>

(***************************************************************************)
(* The specification.                                                      *)
(***************************************************************************)
Poster(j) == PostJob(j) \/ ExecuteOnReceive(j) \/ SubmitJob(j) \/ Admit(j) \/ WakeWorker(j)

Worker == Loop \/ NextJob \/ ExecJob \/ Idle \/ Unpark \/ Drain \/ DrainExec

Stopper == StopWake \/ Wait

Next ==
    \/ \E j \in Jobs : Poster(j)
    \/ \E m \in Dynamic : AddMiddleware(m) \/ RemoveMiddleware(m)
    \/ ToggleSuspend
    \/ Worker
    \/ BeginStop \/ Stopper

Spec == Init /\ [][Next]_vars

\* Goroutines that can run are run; a PostJob call that has begun goes on.
Fairness ==
    /\ \A j \in Jobs : WF_vars(post[j] # "new" /\ Poster(j))
    /\ WF_vars(Worker)
    /\ WF_vars(Stopper)

FairSpec == Spec /\ Fairness

(***************************************************************************)
(* Properties.                                                             *)
(***************************************************************************)
Errors == {"suspended", "rejected", "closed", "full"}

Rings == [buffer : [0..(LaneCapacity - 1) -> Jobs \cup {NoJob}], cap : {LaneCapacity},
          head : 0..(Wrap - 1), tail : 0..(Wrap - 1), count : 0..LaneCapacity]

\* The fields keep their types; head, tail and count of every queue describe
\* the same slots, and every slot outside them has been cleared.
TypeOK ==
    /\ post \in [Jobs -> {"new", "receive", "submit", "admit", "wake", "returned"}]
    /\ result \in [Jobs -> {"none", "ok"} \cup Errors]
    /\ prio \in [Jobs -> Int]
    /\ mctx \in [Jobs -> Contexts \cup {NoCtx}]
    /\ chain \in Seq(Middlewares)
    /\ suspended \in BOOLEAN /\ notified \in BOOLEAN
    /\ state \in {"running", "closed"}
    /\ cpc \in {"loop", "next", "exec", "idle", "park", "drain", "drainExec", "done"}
    /\ scan \subseteq Lanes
    /\ current \in Jobs \cup {NoJob}
    /\ stop \in {"none", "wake", "wait", "stopped"}
    /\ fate \in [Jobs -> {"none", "executed", "discarded"}]
    /\ releases \in [Jobs -> Nat]
    /\ received \in [Jobs -> Seq(Middlewares)] /\ completed \in [Jobs -> Seq(Middlewares)]
    /\ queues \in [Lanes -> Rings]
    /\ \A l \in Lanes : LET q == queues[l] IN
          /\ q.tail = (q.head + q.count) % Wrap
          /\ \A i \in 0..(LaneCapacity - 1) :
               q.buffer[i] # NoJob <=> \E k \in 0..(q.count - 1) : i = (q.head + k) % LaneCapacity

\* The ownership contract of PostJob: after an error the job has been
\* reported to OnJobDiscarded and released, with its posted priority restored,
\* and no queue holds it; a job is never released twice.
PostJobOwnsJob ==
    \A j \in Jobs :
        /\ releases[j] = IF fate[j] = "none" THEN 0 ELSE 1
        /\ result[j] \in Errors =>
             /\ fate[j] = "discarded" /\ prio[j] = Priority[j]
             /\ \A l \in Lanes : j \notin Range(Ring!Contents(queues[l]))

\* The middleware chain is an onion: when a job is over, exactly the
\* middlewares whose OnReceive saw it have seen its OnComplete, in reverse
\* order, whatever Add and Remove did in between; before, none has.
ChainSymmetric ==
    \A j \in Jobs : completed[j] = IF releases[j] = 0 THEN <<>> ELSE Reverse(received[j])

\* NextJob does not get to a lane behind one it cannot select a job from.
HeldBack(l) == \E m \in Lanes : m <= l /\ ~Selects(m) /\ ~Ring!Empty(queues[m])

\* No wake-up is lost: while the worker is parked with no notification
\* pending, there is nothing NextJob would give it, or the goroutine that
\* published the job or closed the worker has still to call Wake.
NoLostWakeup ==
    cpc = "park" /\ ~notified =>
        /\ \/ \A l \in Lanes : Ring!Empty(queues[l]) \/ HeldBack(l)
           \/ \E j \in Jobs : post[j] = "wake"
        /\ state = "closed" => stop = "wake"

\* SubmitJob's second look at the state under admissionMu: a job that passed
\* it is in the queue before the worker drains, so nothing is left behind.
NothingLeftBehind ==
    cpc = "done" => \A l \in Lanes : Ring!Empty(queues[l])

\* The mailbox of a worker is well formed, no wake-up is lost while the worker parks, and
\* what SubmitJob admitted is never left behind by a stop (AdaptiveController,
\* Worker.SubmitJob and run).
WorkNoticed == TypeOK /\ NoLostWakeup /\ NothingLeftBehind

\* PostJob gives a job away exactly when it returns nil, and whatever becomes of
\* the job the middlewares that saw it come in see it end, in the opposite order
\* (Mailbox.PostJob, Worker.safeExec).
PostSound == TypeOK /\ PostJobOwnsJob /\ ChainSymmetric

\* A job PostJob returned nil for is executed or discarded in the end.  A job
\* is posted once, so "eventually none is waiting" says it of each of them.
AcceptedJobsEnd == <>[](\A j \in Jobs : result[j] = "ok" => fate[j] # "none")

\* Mailbox.Stop, called once, returns.
StopReturns == <>[](stop \in {"none", "stopped"})

\* The queues implement FIFO lanes that admit nothing once the worker is
\* closed.
AbstractQueue == INSTANCE JobQueue WITH
    Capacity <- [l \in Lanes |-> LaneCapacity],
    lane <- [l \in Lanes |-> Ring!Contents(queues[l])],
    open <- state = "running"

ImplementsJobQueue == AbstractQueue!Spec
=============================================================================
