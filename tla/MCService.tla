----------------------------- MODULE MCService ------------------------------
(***************************************************************************)
(* A service, one part at a time: the workers of its mailbox in read/write *)
(* mode, its timers, the middlewares that see its messages, the            *)
(* configuration of its queues and workers, the tree of modules, the limit *)
(* on published events, and the life of services in their node.  The parts *)
(* share no state: a behaviour is one of one of them, and the variables of *)
(* the others keep their initial values.                                   *)
(***************************************************************************)
EXTENDS MCRWWorker, TimingWheel, Middleware, QueueSpec, LoadStrategy, MCModuleTree, Throttle, NodeLife

CONSTANTS once, every

VARIABLE part

MCDelay == [t \in Timers |-> IF t = once THEN 5 ELSE 0]
MCPeriod == [t \in Timers |-> IF t = once THEN 0 ELSE 3]

(***************************************************************************)
(* Middlewares: two mailboxes of one service, the first with two           *)
(* middlewares of its own.                                                 *)
(***************************************************************************)
MCConfOf ==
    [b \in Boxes |->
        IF b = "a" THEN [stats |-> TRUE, breaker |-> FALSE, limit |-> TRUE, skipUrgent |-> TRUE]
        ELSE [stats |-> FALSE, breaker |-> TRUE, limit |-> FALSE, skipUrgent |-> FALSE]]
MCServiceOf == [b \in Boxes |-> "s"]
Rule(scope, field, rule) == [opt |-> "rule", scope |-> scope, field |-> field, rule |-> rule]
MCCustomOf ==
    [b \in Boxes |->
        IF b = "b" THEN <<>>
        ELSE <<[make |-> "new",
                opts |-> <<[opt |-> "rule", scope |-> "type", field |-> "flow", at |-> "rpc", rule |-> "f"],
                           Rule("service", "breaker", "count"),
                           [opt |-> "system", rule |-> "load"], [opt |-> "skip"]>>],
               [make |-> "user"]>>]
MCBoxOf == [j \in Msgs |-> "a"]
MCTypeOf == [j \in Msgs |-> "rpc"]
MCKeyOf == [j \in Msgs |-> IF j = 1 THEN "k" ELSE "l"]
MCShardOfKey == [k \in {"k", "l"} |-> IF k = "k" THEN 1 ELSE 2]

(***************************************************************************)
(* Configurations, in bytes of a small word.                               *)
(***************************************************************************)
Leaf(m) == [name |-> "", all |-> FALSE, idle |-> 50, maxLoad |-> m, subs |-> {}]
Both == [name |-> "composite", all |-> TRUE, idle |-> 0, maxLoad |-> 0, subs |-> {Leaf(0), Leaf(1)}]
Deep == [Both EXCEPT !.all = FALSE, !.subs = {Both}]
Scaled(s, max) == [growth |-> 0, shrink |-> 50, min |-> 0, max |-> max, cool |-> 1, strategy |-> s]
Base ==
    [backend |-> "", mode |-> "", dual |-> Unset, levels |-> Unset, budget |-> 0, initial |-> 2,
     auto |-> TRUE, idler |-> Unset, scaling |-> Scaled(Leaf(0), 4), rw |-> TRUE, reads |-> 0,
     stop |-> 0, readPool |-> 0]
MCStrategies == {Leaf(0), Both, Deep}
MCTemplates ==
    {Base,
     [Base EXCEPT !.scaling = Scaled(Both, 3), !.budget = 119],
     [Base EXCEPT !.scaling = Scaled(Both, 3), !.budget = 120],
     [Base EXCEPT !.scaling = Unset],
     [Base EXCEPT !.scaling = Unset, !.backend = "unbounded", !.mode = "other"],
     [Base EXCEPT !.scaling.strategy = Deep],
     [Base EXCEPT !.mode = "priority", !.levels = [q \in -3..0 |-> IF q = 0 THEN 2 ELSE 4], !.initial = 0],
     [Base EXCEPT !.mode = "priority", !.levels = [q \in -3..-1 |-> 4]],
     [Base EXCEPT !.mode = "other"],
     [Base EXCEPT !.dual = [q \in {"system", "user"} |-> IF q = "user" THEN 256 ELSE 2], !.auto = FALSE],
     [Base EXCEPT !.dual = [q \in {"system", "user"} |-> 128], !.budget = 1000, !.auto = FALSE, !.initial = 4],
     [Base EXCEPT !.dual = [q \in {"system", "user"} |-> 3], !.auto = FALSE]}

(***************************************************************************)
(* The sum.                                                                *)
(***************************************************************************)
Rest == <<wheelVars, specVars, modVars, throttleVars, nodeVars>>
serviceVars == <<part, vars, wheelVars, mwVars, specVars, modVars, throttleVars, nodeVars>>

ServiceInit ==
    /\ part \in {"workers", "timers", "middleware", "configuration", "modules", "throttle", "node"}
    \* What may differ at the start: the timers that run asynchronously, a flag, the type of events.
    /\ part # "timers" => async = {}
    /\ part # "modules" => rwActive = TRUE
    /\ part # "throttle" => category = "other"
    /\ Init /\ WheelInit /\ MwInit /\ QueueConfInit /\ ModInit /\ ThrottleInit /\ NodeInit

ServiceNext ==
    \/ part = "workers" /\ Next /\ UNCHANGED <<part, mwVars, Rest>>
    \/ part = "middleware" /\ MwNext /\ UNCHANGED <<part, vars, Rest>>
    \/ /\ part = "timers" /\ WheelNext
       /\ UNCHANGED <<part, vars, mwVars, specVars, modVars, throttleVars, nodeVars>>
    \/ /\ UNCHANGED <<part, vars, wheelVars, mwVars>>
       /\ \/ /\ part = "configuration" /\ QueueConfNext
             /\ UNCHANGED <<modVars, throttleVars, nodeVars>>
          \/ part = "modules" /\ ModNext /\ UNCHANGED <<specVars, throttleVars, nodeVars>>
          \/ part = "throttle" /\ ThrottleNext /\ UNCHANGED <<specVars, modVars, nodeVars>>
          \/ part = "node" /\ NodeNext /\ UNCHANGED <<specVars, modVars, throttleVars>>
    \* The other parts may come to rest; the workers say themselves when.
    \/ part # "workers" /\ UNCHANGED serviceVars

\* The fairness of the workers and of the timers, while they are the part that runs.
ServiceFairness ==
    /\ \A w \in Workers : /\ WF_vars(part = "workers" /\ (MainLoop(w) \/ Exit(w)))
                          /\ WF_vars(part = "workers" /\ Pipeline(w))
    /\ \A j \in ReadJobs : WF_vars(part = "workers" /\ Reader(WorkerOf[j], j))
    /\ WF_wheelVars(part = "timers" /\ Advance) /\ WF_wheelVars(part = "timers" /\ PollTake)
    /\ WF_wheelVars(part = "timers" /\ PollSleep) /\ WF_wheelVars(part = "timers" /\ PollWake)
    /\ WF_wheelVars(part = "timers" /\ PollSend) /\ WF_wheelVars(part = "timers" /\ FlushBucket)
    /\ \A t \in Timers :
          WF_wheelVars(part = "timers" /\ \E r \in run : r.t = t /\ (RunTimer(r) \/ Rearm(r)))

ServiceSpec == ServiceInit /\ [][ServiceNext]_serviceVars /\ ServiceFairness

\* The stop of the second worker does not run into its timeout, that of the first one may;
\* messages flow once the mailbox they are for has started and before the other one starts; a module
\* tree is followed until a call has been answered or an id was given twice; time is shifted where
\* a timer runs in a goroutine of its own; a node sees a fault and a queued job, or two jobs.
Explore ==
    CASE part = "workers" -> ~expired[w2]
      [] part = "middleware" ->
            (\E j \in Msgs : walk[j].at \notin {"new", "done", "failed"})
                => mwLife["b"].at = "new" /\ mwLife["a"].at \notin {"new", "starting"}
      [] part = "timers" -> offset = 0 \/ (async # {} /\ ~sdStop /\ twStop = "no")
      [] part = "modules" -> ModuleExplore
      [] part = "node" -> nodeFaults + queued[1] + queued[2] <= 2
      [] OTHER -> TRUE

=============================================================================
