------------------------------ MODULE NodeLife ------------------------------
(***************************************************************************)
(* The life of a node and of its services: Node.Start brings up one        *)
(* component after the other and records how to undo each, the service     *)
(* manager initialises and starts the services in order, and a failure, or *)
(* Node.Stop, takes everything down in reverse (node/node.go,              *)
(* services/services.go, core/service.go, core/service_init.go). A service *)
(* may also be stopped by other code at any time.                          *)
(***************************************************************************)
EXTENDS Integers, Sequences, FiniteSets

CONSTANTS
    NumServices,    \* the configured services, at least one, started in the order 1..NumServices
    MaxNodeFaults,  \* bound: steps that fail
    MaxQueued       \* bound: jobs in the mailbox of a service

ASSUME NodeLifeAssumption == NumServices \in Nat \ {0} /\ MaxNodeFaults \in Nat /\ MaxQueued \in Nat

Services == 1..NumServices
Callers == {"node", "user"}

VARIABLES
    node,        \* the goroutine of Node.Start and Node.Stop: [at, i, pc], pc within Service.Start
    up,          \* the components that run
    cleanups,    \* the steps to undo
    svc,         \* a service: [status, requested, mailbox, own, released, listed]; own: what it made
                 \* for itself and has to give back
    queued,      \* jobs in its mailbox
    stops,       \* the calls of Service.Stop: [at, of]
    nodeFaults,  \* faults so far
    leaked,      \* history: components whose start or stop failed halfway
    overlapped   \* history: services stopped before their Start was done, or twice at once

nodeVars == <<node, up, cleanups, svc, queued, stops, nodeFaults, leaked, overlapped>>

\* The steps of Node.Start in order, those that may return an error, those that leave
\* nothing to undo, and those Node.Stop undoes by itself at its end.
NodeSteps == <<"config", "logger", "asyncPool", "timingWheel", "deduplicator", "pidFile", "rpcMonitor",
               "poolManager", "policyWatcher", "senderManager", "cluster", "eventBus", "hooks">>
MayFail == {"config", "logger", "asyncPool", "deduplicator", "rpcMonitor", "policyWatcher", "cluster",
            "eventBus", "hooks"}
NoCleanup == {"config", "hooks"}
NotInStop == {"logger", "pidFile"}

\* The steps of Service.Init in order, and those that make something of the service's own.
InitSteps == <<"logger", "timers", "mailbox", "tasks", "pid", "rpc", "visibility", "OnInit">>
Makes == {"logger", "timers", "tasks"}

\* What a service uses while it lives.
Needed == {"logger", "asyncPool", "timingWheel", "rpcMonitor", "senderManager", "cluster", "eventBus"}

NoCall == [at |-> "no", of |-> 0]

NodeInit ==
    /\ node = [at |-> "new", i |-> 1, pc |-> "no"] /\ up = {} /\ cleanups = <<>>
    /\ svc = [s \in Services |-> [status |-> "Unknown", requested |-> FALSE, mailbox |-> "no",
                                  own |-> {}, released |-> FALSE, listed |-> "no"]]
    /\ queued = [s \in Services |-> 0] /\ stops = [c \in Callers |-> NoCall]
    /\ nodeFaults = 0 /\ leaked = {} /\ overlapped = {}

Fault == nodeFaults < MaxNodeFaults /\ nodeFaults' = nodeFaults + 1
NodeAt(at, i) == node' = [at |-> at, i |-> i, pc |-> "no"]

-----------------------------------------------------------------------------
(* Node.Start *)

NodeStep == NodeSteps[node.i]
NodeStart ==
    /\ node.at = "new" /\ NodeAt("steps", 1)
    /\ UNCHANGED <<up, cleanups, svc, queued, stops, nodeFaults, leaked, overlapped>>
StepDone ==
    /\ node.at = "steps"
    /\ IF NodeStep \in NoCleanup THEN UNCHANGED <<up, cleanups>>
       ELSE up' = up \cup {NodeStep} /\ cleanups' = Append(cleanups, NodeStep)
    /\ IF node.i = Len(NodeSteps) THEN NodeAt("init", 1) ELSE NodeAt("steps", node.i + 1)
    /\ UNCHANGED <<svc, queued, stops, nodeFaults, leaked, overlapped>>

\* Cluster.Start can fail after the repository and the RPC servers were started; its
\* clean-up is recorded only when it succeeds.
StepFails ==
    /\ node.at = "steps" /\ NodeStep \in MayFail /\ Fault /\ NodeAt("undo", 0)
    /\ \/ UNCHANGED <<up, leaked>>
       \/ NodeStep = "cluster" /\ up' = up \cup {"cluster"} /\ leaked' = leaked \cup {"cluster"}
    /\ UNCHANGED <<cleanups, svc, queued, stops, overlapped>>

-----------------------------------------------------------------------------
(* Service.Init, called by ServiceManager.Init *)

Initialising == node.at = "init" /\ node.pc # "no"
NextInit == InitSteps[1 + CHOOSE k \in 1..Len(InitSteps) : InitSteps[k] = node.pc]
InitGoes ==
    IF node.pc = "OnInit" THEN NodeAt("init", node.i + 1) ELSE node' = [node EXCEPT !.pc = NextInit]

InitBegin ==
    /\ node.at = "init" /\ node.pc = "no"
    /\ IF node.i > NumServices THEN NodeAt("start", 1) /\ UNCHANGED svc
       ELSE svc' = [svc EXCEPT ![node.i].status = "Init"] /\ node' = [node EXCEPT !.pc = InitSteps[1]]
    /\ UNCHANGED <<up, cleanups, queued, stops, nodeFaults, leaked, overlapped>>

\* A service has a logger of its own only if it is configured to.
InitResource ==
    /\ Initialising /\ InitGoes
    /\ \/ node.pc \in Makes /\ svc' = [svc EXCEPT ![node.i].own = @ \cup {node.pc}]
       \/ node.pc = "mailbox" /\ svc' = [svc EXCEPT ![node.i].mailbox = "made"]
       \/ node.pc = "logger" /\ UNCHANGED svc
    /\ UNCHANGED <<up, cleanups, queued, stops, nodeFaults, leaked, overlapped>>
InitPlain ==
    /\ Initialising /\ node.pc \notin Makes \cup {"mailbox"} /\ InitGoes
    /\ UNCHANGED <<up, cleanups, svc, queued, stops, nodeFaults, leaked, overlapped>>

\* rollbackInitResources; the services before it stay as they are, and so does the status.
InitFails ==
    /\ Initialising /\ node.pc # "tasks" /\ Fault /\ NodeAt("undo", 0)
    /\ svc' = [svc EXCEPT ![node.i].own = {}, ![node.i].mailbox = "no"]
    /\ UNCHANGED <<up, cleanups, queued, stops, leaked, overlapped>>

InitService == InitBegin \/ InitResource \/ InitPlain \/ InitFails

-----------------------------------------------------------------------------
(* Service.Start, called by ServiceManager.Start *)

In(pc) == node.at = "start" /\ node.i \in Services /\ node.pc = pc
Then(pc) == node' = [node EXCEPT !.pc = pc]
This == svc[node.i]

StartBegin ==
    /\ In("no")
    /\ IF This.status = "Init" THEN svc' = [svc EXCEPT ![node.i].status = "Starting"] /\ Then("mailbox")
       ELSE UNCHANGED svc /\ NodeAt("rollback", node.i - 1)
    /\ UNCHANGED <<up, cleanups, queued, stops, nodeFaults, leaked, overlapped>>
StartMailbox ==
    /\ In("mailbox") /\ svc' = [svc EXCEPT ![node.i].mailbox = IF @ = "made" THEN "on" ELSE @] /\ Then("OnStart")
    /\ UNCHANGED <<up, cleanups, queued, stops, nodeFaults, leaked, overlapped>>
\* OnStart and OnStarted are the service's own.
StartHook ==
    /\ node.at = "start" /\ node.pc \in {"OnStart", "OnStarted"}
    /\ \/ Then(IF node.pc = "OnStart" THEN "loadRunning" ELSE "loadReady") /\ UNCHANGED nodeFaults
       \/ Then(IF node.pc = "OnStart" THEN "release" ELSE "unlist") /\ Fault
    /\ UNCHANGED <<up, cleanups, svc, queued, stops, leaked, overlapped>>

\* setStatus: a status stored between its load and its store is overwritten.
StatusLoad(to, load, store, next) ==
    /\ In(load) /\ Then(IF This.status \in {to, "Closed"} THEN next ELSE store)
    /\ UNCHANGED <<up, cleanups, svc, queued, stops, nodeFaults, leaked, overlapped>>
StatusStore(to, store, next) ==
    /\ In(store) /\ svc' = [svc EXCEPT ![node.i].status = to] /\ Then(next)
    /\ UNCHANGED <<up, cleanups, queued, stops, nodeFaults, leaked, overlapped>>
SetStatus ==
    \/ StatusLoad("Running", "loadRunning", "storeRunning", "list") \/ StatusStore("Running", "storeRunning", "list")
    \/ StatusLoad("Ready", "loadReady", "storeReady", "ready") \/ StatusStore("Ready", "storeReady", "ready")

\* AddService and ServiceReady: the repository takes the status the service has then.
StartList ==
    /\ In("list") /\ svc' = [svc EXCEPT ![node.i].listed = This.status] /\ Then("OnStarted")
    /\ UNCHANGED <<up, cleanups, queued, stops, nodeFaults, leaked, overlapped>>
StartReady ==
    /\ In("ready") /\ svc' = [svc EXCEPT ![node.i].listed = IF @ = "no" THEN @ ELSE This.status]
    /\ IF node.i = NumServices THEN NodeAt("up", 0) /\ cleanups' = Append(cleanups, "services")
       ELSE NodeAt("start", node.i + 1) /\ UNCHANGED cleanups
    /\ UNCHANGED <<up, queued, stops, nodeFaults, leaked, overlapped>>

\* rollbackStart: out of the repository, the mailbox stopped with its jobs, timers and
\* tasks stopped, OnRelease, Closed.
RollbackUnlist ==
    /\ In("unlist") /\ svc' = [svc EXCEPT ![node.i].listed = "no"] /\ Then("release")
    /\ UNCHANGED <<up, cleanups, queued, stops, nodeFaults, leaked, overlapped>>
RollbackRelease ==
    /\ In("release")
    /\ svc' = [svc EXCEPT ![node.i].mailbox = "stopped", ![node.i].own = {}, ![node.i].released = TRUE,
                          ![node.i].status = "Closed"]
    /\ queued' = [queued EXCEPT ![node.i] = 0] /\ NodeAt("rollback", node.i - 1)
    /\ UNCHANGED <<up, cleanups, stops, nodeFaults, leaked, overlapped>>

ServiceStart ==
    \/ StartBegin \/ StartMailbox \/ StartHook \/ SetStatus \/ StartList \/ StartReady
    \/ RollbackUnlist \/ RollbackRelease

-----------------------------------------------------------------------------
(* Service.Stop *)

Call(c, s) == stops' = [stops EXCEPT ![c] = [at |-> "request", of |-> s]]
StopAt(c, at) == stops[c].at = at
StopThen(c, at) == stops' = [stops EXCEPT ![c].at = at]
Return(c) == stops' = [stops EXCEPT ![c] = NoCall]

\* Other code stops a service that was initialised, before, while or after the node starts it.
UserStop(s) ==
    /\ stops["user"] = NoCall /\ svc[s].mailbox # "no" /\ ~svc[s].requested /\ Call("user", s)
    /\ ~(Initialising /\ node.i = s)
    /\ overlapped' = IF svc[s].status = "Ready" /\ ~(node.at = "start" /\ node.i = s)
                     THEN overlapped ELSE overlapped \cup {s}
    /\ UNCHANGED <<node, up, cleanups, svc, queued, nodeFaults, leaked>>

\* A second call returns at once, before the first one is done.
StopRequest(c) ==
    LET s == stops[c].of IN
    /\ StopAt(c, "request")
    /\ IF svc[s].requested
       THEN /\ Return(c) /\ UNCHANGED svc
            /\ overlapped' = IF svc[s].status = "Closed" THEN overlapped ELSE overlapped \cup {s}
       ELSE /\ svc' = [svc EXCEPT ![s].requested = TRUE] /\ StopThen(c, "closing") /\ UNCHANGED overlapped
    /\ UNCHANGED <<node, up, cleanups, queued, nodeFaults, leaked>>
StopClosing(c) ==
    LET s == stops[c].of IN
    /\ StopAt(c, "closing")
    /\ IF svc[s].status \in {"Closing", "Closed"} THEN Return(c) /\ UNCHANGED svc
       ELSE svc' = [svc EXCEPT ![s].status = "Closing"] /\ StopThen(c, "suspend")
    /\ UNCHANGED <<node, up, cleanups, queued, nodeFaults, leaked, overlapped>>

\* Suspend: new jobs are refused, the workers go on with the queued ones.
StopSuspend(c) ==
    LET s == stops[c].of IN
    /\ StopAt(c, "suspend") /\ StopThen(c, "release")
    /\ svc' = [svc EXCEPT ![s].mailbox = IF @ \in {"made", "on"} THEN "suspended" ELSE @, ![s].own = @ \ {"timers", "tasks"}]
    /\ UNCHANGED <<node, up, cleanups, queued, nodeFaults, leaked, overlapped>>
StopRelease(c) ==
    /\ StopAt(c, "release") /\ StopThen(c, "unlist")
    /\ svc' = [svc EXCEPT ![stops[c].of].released = TRUE]
    /\ UNCHANGED <<node, up, cleanups, queued, nodeFaults, leaked, overlapped>>
StopUnlist(c) ==
    /\ StopAt(c, "unlist") /\ StopThen(c, "closed")
    /\ svc' = [svc EXCEPT ![stops[c].of].listed = "no"]
    /\ UNCHANGED <<node, up, cleanups, queued, nodeFaults, leaked, overlapped>>
StopClosed(c) ==
    /\ StopAt(c, "closed") /\ Return(c)
    /\ svc' = [svc EXCEPT ![stops[c].of].status = "Closed", ![stops[c].of].own = {}]
    /\ UNCHANGED <<node, up, cleanups, queued, nodeFaults, leaked, overlapped>>

ServiceStop(c) ==
    StopRequest(c) \/ StopClosing(c) \/ StopSuspend(c) \/ StopRelease(c) \/ StopUnlist(c) \/ StopClosed(c)

-----------------------------------------------------------------------------
(* The mailbox of a service *)

PostToService(s) ==
    /\ svc[s].mailbox = "on" /\ queued[s] < MaxQueued /\ queued' = [queued EXCEPT ![s] = @ + 1]
    /\ UNCHANGED <<node, up, cleanups, svc, stops, nodeFaults, leaked, overlapped>>
RunJob(s) ==
    /\ svc[s].mailbox \in {"on", "suspended"} /\ queued[s] > 0 /\ queued' = [queued EXCEPT ![s] = @ - 1]
    /\ UNCHANGED <<node, up, cleanups, svc, stops, nodeFaults, leaked, overlapped>>

-----------------------------------------------------------------------------
(* Taking down: ServiceManager.Start rolls back, the deferred function of Node.Start, Node.Stop *)

\* The services i, i - 1, ..., 1 are stopped, one after the other.
StopServices(at, next) ==
    /\ node.at = at /\ stops["node"] = NoCall
    /\ IF node.i = 0 THEN NodeAt(next, 0) /\ UNCHANGED stops
       ELSE Call("node", node.i) /\ NodeAt(at, node.i - 1)
    /\ UNCHANGED <<up, cleanups, svc, queued, nodeFaults, leaked, overlapped>>

\* Mutant: the services that were started are left running.
RollbackNothing ==
    /\ node.at = "rollback" /\ NodeAt("undo", 0)
    /\ UNCHANGED <<up, cleanups, svc, queued, stops, nodeFaults, leaked, overlapped>>

Rollback == StopServices("rollback", "undo")
StopAll == StopServices("stopAll", "stop")

\* runCleanupReverse, and the loop of Node.Stop: the step that was recorded last goes first.
LastStep(steps) == steps[Len(steps)]
ButLast(steps) == SubSeq(steps, 1, Len(steps) - 1)

Undo ==
    /\ node.at = "undo"
    /\ IF cleanups = <<>> THEN NodeAt("failed", 0) /\ UNCHANGED <<up, cleanups>>
       ELSE up' = up \ {LastStep(cleanups)} /\ cleanups' = ButLast(cleanups) /\ UNCHANGED node
    /\ UNCHANGED <<svc, queued, stops, nodeFaults, leaked, overlapped>>

NodeStop ==
    /\ node.at = "up" /\ NodeAt("stop", 0)
    /\ UNCHANGED <<up, cleanups, svc, queued, stops, nodeFaults, leaked, overlapped>>

\* Those that filterStopCleanups left out are passed over; a step that panics is left behind,
\* the others run.
NextToStop == LastStep(cleanups)
StopStep ==
    /\ node.at = "stop" /\ stops["node"] = NoCall /\ cleanups # <<>>
    /\ cleanups' = ButLast(cleanups)
    /\ IF NextToStop = "services" THEN NodeAt("stopAll", NumServices) /\ UNCHANGED <<up, nodeFaults, leaked>>
       ELSE /\ UNCHANGED node
            /\ \/ up' = up \ ({NextToStop} \ NotInStop) /\ UNCHANGED <<nodeFaults, leaked>>
               \/ NextToStop \notin NotInStop /\ Fault /\ leaked' = leaked \cup {NextToStop} /\ UNCHANGED up
    /\ UNCHANGED <<svc, queued, stops, overlapped>>
NodeStopped ==
    /\ node.at = "stop" /\ cleanups = <<>> /\ NodeAt("stopped", 0) /\ up' = up \ NotInStop
    /\ UNCHANGED <<cleanups, svc, queued, stops, nodeFaults, leaked, overlapped>>

-----------------------------------------------------------------------------
NodeNext ==
    \/ NodeStart \/ StepDone \/ StepFails \/ InitService \/ ServiceStart
    \/ Rollback \/ Undo \/ NodeStop \/ StopStep \/ StopAll \/ NodeStopped
    \/ \E s \in Services : UserStop(s) \/ PostToService(s) \/ RunJob(s)
    \/ \E c \in Callers : ServiceStop(c)

NodeSpec == NodeInit /\ [][NodeNext]_nodeVars

-----------------------------------------------------------------------------
\* A node that failed to start, or was stopped, has taken down every component it brought
\* up, but for those whose start or stop failed halfway, and every service whose Start
\* began is released, gave back what it made and left the repository, but for those whose
\* Stop came before the end of their Start or overlapped another Stop. A service whose Init
\* failed holds nothing either.
TeardownComplete ==
    node.at \in {"failed", "stopped"} =>
        /\ up = leaked
        /\ \A s \in Services \ overlapped : svc[s].status \notin {"Unknown", "Init"} =>
             svc[s].status = "Closed" /\ svc[s].released /\ svc[s].own = {} /\ svc[s].listed = "no"
        /\ \A s \in Services : svc[s].status = "Init" /\ svc[s].mailbox = "no" => svc[s].own = {}

\* A service from its Start to the end of its Stop finds everything it uses running, unless
\* its Stop came before the end of its Start or overlapped another Stop, which does not wait.
TeardownOrdered ==
    \A s \in Services \ overlapped :
        svc[s].status \in {"Starting", "Running", "Ready", "Closing"} => Needed \subseteq up

\* A node that failed to start or was stopped has taken down what it brought up, services before
\* what they use (Node.Start, Node.Stop, Services.Stop, Service.Stop).
TeardownSound == TeardownComplete /\ TeardownOrdered
=============================================================================
