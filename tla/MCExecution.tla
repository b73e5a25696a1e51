---------------------------- MODULE MCExecution -----------------------------
(***************************************************************************)
(* What runs a service's jobs, one part at a time: the worker pool with    *)
(* its autoscaler, one worker's mailbox with a suspended service, the      *)
(* lock-free queue of an unbounded mailbox, the tasks outside the mailbox  *)
(* and the listener that posts their callbacks, and the schedules of cron  *)
(* timers.  The parts share no state: a behaviour is one of one of them,   *)
(* and the variables of the others keep their initial values.              *)
(***************************************************************************)
EXTENDS MCWorkerPool, MpscQueue, Cron, Concurrent

CONSTANTS s1, u1, u2, NoCtx

(***************************************************************************)
(* A small calendar and the texts of schedules.                            *)
(***************************************************************************)
MCMonthDays == <<2, 2, 3>>
Every(n) == [Star EXCEPT !.step = n]
From(n, k) == [At(n) EXCEPT !.step = k]
Span(a, b) == [At(a) EXCEPT !.high = b]
Given(se, mi, ho, d, mo) == [second |-> {se}, minute |-> {mi}, hour |-> {ho}, dom |-> d, month |-> mo]
Text(g) == [kind |-> "fields", fields |-> g]
MCTexts ==
    {[kind |-> "named", name |-> n] : n \in {"yearly", "monthly", "weekly", "daily", "hourly"}}
    \cup {[kind |-> "every", delay |-> 3]}
    \cup {Text([f \in Fields |->
             CASE f = "second" -> {At(1)} [] f = "minute" -> {mi} [] f = "hour" -> {At(1)}
               [] f = "dom" -> d [] f = "month" -> mo [] f = "dow" -> w]) :
             mi \in {Star, At(0)}, d \in {{Star}, {At(3)}, {Every(2)}},
             mo \in {{Star}, {At(2)}, {From(2, 1)}}, w \in {{Star}, {At(0)}}}
    \cup {Text(Given(Star, Star, Span(0, 1), {At(4)}, {At(2)})),
          Text(Given(Span(1, 0), Star, Star, {Star}, {Star})),
          Text(Given(Star, Star, Star, {}, {Star}))}

VARIABLES
    part,
    post, result, prio, mctx, chain, suspended, state, queues, notified, pcW, scan, current,
    stopM, received, completed, fateM, releases

mailVars ==
    <<post, result, prio, mctx, chain, suspended, state, queues, notified, pcW, scan, current,
      stopM, received, completed, fateM, releases>>

\* A dual-queue mailbox: a job of system priority and two of user priority.
Mail == INSTANCE Mailbox WITH
    Jobs <- {s1, u1, u2}, Priority <- [j \in {s1, u1, u2} |-> IF j = s1 THEN -3 ELSE 0],
    AllowedJobs <- {}, CancelableJobs <- {u1}, Middlewares <- {}, Dynamic <- {},
    InitialChain <- <<>>, MaxChain <- 0, SuspendCalls <- TRUE, QueueMode <- "dual",
    Registered <- {-3, -2, -1, 0}, LaneCapacity <- 2, Wrap <- 4, DrainPolicy <- "discard",
    cpc <- pcW, stop <- stopM, fate <- fateM

execVars == <<part, vars, mailVars, mpscVars, cronVars, taskVars>>

ExecInit ==
    /\ part \in {"pool", "mailbox", "queue", "cron", "tasks"}
    /\ part # "cron" => text = [kind |-> "named", name |-> "daily"] /\ wallClock = 0
    /\ Init /\ Mail!Init /\ MpscInit /\ CronInit /\ TasksInit

ExecNext ==
    \/ part = "pool" /\ Next /\ UNCHANGED <<part, mailVars, mpscVars, cronVars, taskVars>>
    \/ part = "mailbox" /\ Mail!Next /\ UNCHANGED <<part, vars, mpscVars, cronVars, taskVars>>
    \/ part = "queue" /\ MpscNext /\ UNCHANGED <<part, vars, mailVars, cronVars, taskVars>>
    \/ part = "cron" /\ CronNext /\ UNCHANGED <<part, vars, mailVars, mpscVars, taskVars>>
    \/ part = "tasks" /\ TasksNext /\ UNCHANGED <<part, vars, mailVars, mpscVars, cronVars>>
    \* These may come to rest; the pool and the mailbox say themselves when.
    \/ part \in {"queue", "cron", "tasks"} /\ UNCHANGED execVars

\* The fairness of each part, while it is the one that runs.
ExecFairness ==
    /\ \A i \in IDs : WF_vars(part = "pool" /\ Worker(i))
    /\ WF_vars(part = "pool" /\ (ShrinkPublish \/ \E i \in IDs : ShrinkStop(i)))
    /\ SF_vars(part = "pool" /\ ScalerExit) /\ WF_vars(part = "pool" /\ Stopping)
    /\ \A j \in {s1, u1, u2} : WF_mailVars(part = "mailbox" /\ post[j] # "new" /\ Mail!Poster(j))
    /\ WF_mailVars(part = "mailbox" /\ Mail!Worker) /\ WF_mailVars(part = "mailbox" /\ Mail!Stopper)
    /\ \A p \in Producers : WF_mpscVars(part = "queue" /\ Pushing(p))
    /\ WF_mpscVars(part = "queue" /\ CallPop) /\ WF_mpscVars(part = "queue" /\ Popping)
    /\ WF_taskVars(part = "tasks" /\ Listener) /\ WF_taskVars(part = "tasks" /\ (StopTimers \/ CloseTasks))
    /\ \A t \in Tasks : WF_taskVars(part = "tasks" /\ TaskStep(t))

ExecSpec == ExecInit /\ [][ExecNext]_execVars /\ ExecFairness

\* The next activation is the first instant that matches the schedule (SpecSchedule.Next).
NextActivation == part = "cron" => CronExact

=============================================================================
