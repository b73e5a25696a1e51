----------------------------- MODULE Concurrent ------------------------------
(***************************************************************************)
(* The tasks a service runs outside its mailbox: AsyncDo hands a function  *)
(* to a pool, the goroutine that ran it puts its callback in a channel,    *)
(* and the service's listener posts what it finds there, and the timers    *)
(* that are due, to the mailbox (utils/concurrent/concurrent.go and        *)
(* startListenCallback of core/service.go).  The fields s.c and s.pool are *)
(* read and written without a lock.                                        *)
(***************************************************************************)
EXTENDS Integers, Sequences, FiniteSets

CONSTANTS
    Tasks,         \* calls of AsyncDo
    TaskPoolSize,  \* workers of the pool
    CallbackCap,   \* capacity of the callback channel
    MaxDue         \* bound: timers that become due

ASSUME ConcurrentAssumption ==
    TaskPoolSize \in Nat \ {0} /\ CallbackCap \in Nat \ {0} /\ MaxDue \in Nat

VARIABLES
    taskPool,   \* s.pool: "none", "open", or "released" and not yet forgotten
    callbacks,  \* the channel: [open, set, queue]; set: s.c points to it
    taskAt,     \* where a task is
    listener,   \* startListenCallback: [at, sees, task]; sees: it selects on the channel
    dueTimers,  \* the channel of the timer scheduler: [open, n]
    dueCount,   \* timers that became due so far
    serviceEnd, \* how far Service.Stop, or the roll-back of a failed Start, is
    mailboxUp   \* the mailbox has not been stopped

taskVars == <<taskPool, callbacks, taskAt, listener, dueTimers, dueCount, serviceEnd, mailboxUp>>

NoTask == "no task"

TasksInit ==
    /\ taskPool = "none" /\ callbacks = [open |-> FALSE, set |-> FALSE, queue |-> <<>>]
    /\ taskAt = [t \in Tasks |-> "new"]
    /\ listener = [at |-> "new", sees |-> FALSE, task |-> NoTask]
    /\ dueTimers = [open |-> TRUE, n |-> 0] /\ dueCount = 0 /\ serviceEnd = "run" /\ mailboxUp = TRUE

TaskGoes(t, at) == taskAt' = [taskAt EXCEPT ![t] = at]

-----------------------------------------------------------------------------
(* The task scheduler *)

\* In OnInit, before there is a listener, or at any later time.
OpenConcurrent ==
    /\ taskPool = "none" /\ ~callbacks.set /\ serviceEnd = "run"
    /\ taskPool' = "open" /\ callbacks' = [callbacks EXCEPT !.open = TRUE, !.set = TRUE]
    /\ UNCHANGED <<taskAt, listener, dueTimers, dueCount, serviceEnd, mailboxUp>>

\* s.pool is looked at here, and used a step later.  A callback without a function goes to the
\* channel at once.
AsyncDo(t) ==
    /\ taskAt[t] = "new"
    /\ \/ taskPool = "none" /\ TaskGoes(t, "ignored")
       \/ taskPool # "none" /\ \E at \in {"submit", "notify"} : TaskGoes(t, at)
    /\ UNCHANGED <<taskPool, callbacks, listener, dueTimers, dueCount, serviceEnd, mailboxUp>>

\* A pool that is full makes the caller wait, one that is released fails, and the callback is
\* told; a pool that Close has forgotten since the check makes the call panic.
PoolHasRoom == taskPool = "open" /\ Cardinality({u \in Tasks : taskAt[u] = "running"}) < TaskPoolSize
Submit(t) ==
    /\ \/ taskAt[t] = "submit" /\ taskPool = "none" /\ TaskGoes(t, "panicked")
       \/ taskAt[t] = "submit" /\ taskPool = "open" /\ ~PoolHasRoom /\ TaskGoes(t, "waiting")
       \/ taskAt[t] = "submit" /\ taskPool = "released" /\ TaskGoes(t, "notify")
       \/ taskAt[t] = "waiting" /\ taskPool # "open" /\ TaskGoes(t, "notify")
       \/ taskAt[t] \in {"submit", "waiting"} /\ PoolHasRoom /\ TaskGoes(t, "running")
    /\ UNCHANGED <<taskPool, callbacks, listener, dueTimers, dueCount, serviceEnd, mailboxUp>>

\* The function returned, or panicked and was recovered.
TaskEnds(t) ==
    /\ taskAt[t] = "running" /\ TaskGoes(t, "notify")
    /\ UNCHANGED <<taskPool, callbacks, listener, dueTimers, dueCount, serviceEnd, mailboxUp>>

\* notifyCallback looks at s.c and then sends on what s.c is by then: a channel closed in between
\* makes the send panic, one that is full or forgotten drops the callback.
NotifyCheck(t) ==
    /\ taskAt[t] = "notify" /\ TaskGoes(t, IF callbacks.set THEN "send" ELSE "dropped")
    /\ UNCHANGED <<taskPool, callbacks, listener, dueTimers, dueCount, serviceEnd, mailboxUp>>
NotifySend(t) ==
    /\ taskAt[t] = "send"
    /\ IF callbacks.set /\ callbacks.open /\ Len(callbacks.queue) < CallbackCap
       THEN callbacks' = [callbacks EXCEPT !.queue = Append(@, t)] /\ TaskGoes(t, "sent")
       ELSE /\ TaskGoes(t, IF callbacks.set /\ ~callbacks.open THEN "panicked" ELSE "dropped")
            /\ UNCHANGED callbacks
    /\ UNCHANGED <<taskPool, listener, dueTimers, dueCount, serviceEnd, mailboxUp>>

-----------------------------------------------------------------------------
(* The listener *)

Listens(at) == listener' = [listener EXCEPT !.at = at]

\* Service.Start starts it; the select evaluates GetChannel, and a channel made later is not seen.
ListenTop ==
    /\ listener.at = "new" => serviceEnd = "run"
    /\ listener.at \in {"new", "top"}
    /\ listener' = [listener EXCEPT !.at = "select", !.sees = callbacks.set]
    /\ UNCHANGED <<taskPool, callbacks, taskAt, dueTimers, dueCount, serviceEnd, mailboxUp>>
ListenTask ==
    /\ listener.at = "select" /\ listener.sees
    /\ IF callbacks.queue # <<>>
       THEN /\ listener' = [listener EXCEPT !.at = "post", !.task = Head(callbacks.queue)]
            /\ callbacks' = [callbacks EXCEPT !.queue = Tail(@)]
       ELSE ~callbacks.open /\ Listens("done") /\ UNCHANGED callbacks
    /\ UNCHANGED <<taskPool, taskAt, dueTimers, dueCount, serviceEnd, mailboxUp>>
ListenTimer ==
    /\ listener.at = "select"
    /\ IF dueTimers.n > 0
       THEN Listens("top") /\ dueTimers' = [dueTimers EXCEPT !.n = @ - 1]
       ELSE ~dueTimers.open /\ Listens("done") /\ UNCHANGED dueTimers
    /\ UNCHANGED <<taskPool, callbacks, taskAt, dueCount, serviceEnd, mailboxUp>>

\* A suspended mailbox lets a callback through, and its workers go on; a stopped one refuses it.
PushConcurrentCallback ==
    /\ listener.at = "post"
    /\ TaskGoes(listener.task, IF mailboxUp THEN "posted" ELSE "refused")
    /\ listener' = [listener EXCEPT !.at = "top", !.task = NoTask]
    /\ UNCHANGED <<taskPool, callbacks, dueTimers, dueCount, serviceEnd, mailboxUp>>
RunTaskCallback(t) ==
    /\ taskAt[t] = "posted" /\ TaskGoes(t, "called")
    /\ UNCHANGED <<taskPool, callbacks, listener, dueTimers, dueCount, serviceEnd, mailboxUp>>

\* The timer scheduler of the service puts a timer that is due in its channel.
TimerDue ==
    /\ dueCount < MaxDue /\ dueTimers.open /\ dueCount' = dueCount + 1
    /\ dueTimers' = [dueTimers EXCEPT !.n = @ + 1]
    /\ UNCHANGED <<taskPool, callbacks, taskAt, listener, serviceEnd, mailboxUp>>

-----------------------------------------------------------------------------
(* Service.Stop: suspend, stop the timers, TaskScheduler.Close.  A Start   *)
(* that fails when the listener runs stops the mailbox instead.            *)

SuspendService ==
    /\ serviceEnd = "run" /\ listener.at # "new" /\ serviceEnd' = "suspended"
    /\ mailboxUp' \in BOOLEAN
    /\ UNCHANGED <<taskPool, callbacks, taskAt, listener, dueTimers, dueCount>>
\* The timer scheduler empties its channel once it is closed.
StopTimers ==
    /\ serviceEnd = "suspended" /\ serviceEnd' = "timers" /\ dueTimers' = [open |-> FALSE, n |-> 0]
    /\ UNCHANGED <<taskPool, callbacks, taskAt, listener, dueCount, mailboxUp>>
CloseTasks ==
    /\ \/ /\ serviceEnd = "timers" /\ serviceEnd' = "closed"
          /\ callbacks' = [callbacks EXCEPT !.open = FALSE] /\ UNCHANGED taskPool
       \/ /\ serviceEnd = "closed" /\ serviceEnd' = "forgotten"
          /\ callbacks' = [callbacks EXCEPT !.set = FALSE] /\ UNCHANGED taskPool
       \/ /\ serviceEnd = "forgotten" /\ serviceEnd' = "released"
          /\ taskPool' = (IF taskPool = "open" THEN "released" ELSE "none") /\ UNCHANGED callbacks
       \/ serviceEnd = "released" /\ serviceEnd' = "done" /\ taskPool' = "none" /\ UNCHANGED callbacks
    /\ UNCHANGED <<taskAt, listener, dueTimers, dueCount, mailboxUp>>

TaskStep(t) == Submit(t) \/ TaskEnds(t) \/ NotifyCheck(t) \/ NotifySend(t) \/ RunTaskCallback(t)
Listener == ListenTop \/ ListenTask \/ ListenTimer \/ PushConcurrentCallback

TasksNext ==
    \/ OpenConcurrent \/ Listener \/ TimerDue \/ SuspendService \/ StopTimers \/ CloseTasks
    \/ \E t \in Tasks : AsyncDo(t) \/ TaskStep(t)

\* Functions return, goroutines run, and Stop goes on once it has begun.
TasksFairness ==
    /\ WF_taskVars(Listener) /\ WF_taskVars(StopTimers \/ CloseTasks)
    /\ \A t \in Tasks : WF_taskVars(TaskStep(t))

TasksSpec == TasksInit /\ [][TasksNext]_taskVars /\ TasksFairness

-----------------------------------------------------------------------------
(* Properties *)

\* The listener waits on a select it entered before there was a channel: nothing wakes it but a
\* timer or the end of the service.
Deaf == listener.at = "select" /\ ~listener.sees /\ callbacks.set

\* A call of AsyncDo returns, and the callback of a task that ended runs in the mailbox, of a
\* suspended service too, is dropped for want of room or of a channel, or is in a channel that was
\* closed before the listener came back to it; only a mailbox that a failed Start stopped may
\* keep one.  The listener ends with the service (AsyncDo, notifyCallback, startListenCallback).
TasksSettle ==
    <>[](/\ \A t \in Tasks : taskAt[t] \notin {"submit", "waiting", "running", "notify", "send"}
         /\ mailboxUp => \A t \in Tasks : taskAt[t] \notin {"posted", "refused"}
         /\ serviceEnd = "run" /\ listener.at # "new" /\ ~Deaf => \A t \in Tasks : taskAt[t] # "sent"
         /\ serviceEnd = "done" => listener.at = "done")
=============================================================================
