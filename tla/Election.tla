------------------------------ MODULE Election ------------------------------
(***************************************************************************)
(* The election of the master of a primary/secondary group over etcd       *)
(* (cluster/discovery/etcd): every service instance has a watcher with a   *)
(* lease, a keep-alive loop, a watch on the master key and elections that  *)
(* several goroutines may start; the result reaches the service as events  *)
(* its leadership guard follows (cluster/leadership).                      *)
(*                                                                         *)
(* etcd is external: a revision, leases, the master key and the entries of *)
(* the services, all bound to a lease.                                     *)
(***************************************************************************)
EXTENDS Integers, Sequences, FiniteSets

CONSTANTS
    Nodes,      \* the instances of one group, one watcher each
    Leaving,    \* bound: the instances that may be unregistered
    Readying,   \* bound: the instances that become ready
    MaxFaults   \* bound: expired leases, lost connections, lost answers and lost events

ASSUME ElectionAssumption == Nodes # {} /\ IsFiniteSet(Nodes) /\ Leaving \subseteq Nodes /\ Readying \subseteq Nodes /\ MaxFaults \in Nat

VARIABLES
    rev,      \* etcd: the revision of the store
    leases,   \* etcd: the live leases, numbered in the order they were granted
    granted,  \* etcd: how many leases were granted
    key,      \* etcd: the master key, [lease, rev], lease 0 when it is absent
    gone,     \* etcd: the revision of the last deletion of the master key
    entry,    \* etcd: the entry of a service under Path, [lease, master]
    conn,     \* IsConnected
    w,        \* the watcher: [started, ctx, lease, master, epoch]
    loop,     \* keepaliveLoop: [at, lease]
    elect,    \* the running calls of electMaster and registerService: [by, at, epoch, lease, mark]
    watch,    \* the startWatchMaster goroutines: [id, at, live, rev], live for its context
    cancel,   \* the goroutine watchMasterCancel belongs to, 0 for nil
    chan,     \* the system events posted to the service: <<type, epoch>>
    guard,    \* the leadership guard: [leader, epoch, ctx]
    oper,     \* the life of the watcher: "no", "late" when the first Start failed, "on", "wait" in Stop,
              \* "again" in Restart, "done"
    restart,  \* reconnectAndRecover called Restart
    faults,   \* faults so far
    spoiled   \* history: watchers whose leadership the code can lose track of

electVars == <<rev, leases, granted, key, gone, entry, conn, w, loop, elect, watch, cancel, chan, guard,
               oper, restart, faults, spoiled>>
etcd == <<rev, leases, granted, key, gone, entry>>

NoKey == [lease |-> 0, rev |-> 0]
NoEntry == [lease |-> 0, master |-> FALSE]
Events == {"become", "lose", "slave"}

ElectInit ==
    /\ rev = 1 /\ leases = {} /\ granted = 0 /\ key = NoKey /\ gone = 0 /\ entry = [n \in Nodes |-> NoEntry]
    /\ conn = [n \in Nodes |-> TRUE]
    /\ w = [n \in Nodes |-> [started |-> FALSE, ctx |-> TRUE, lease |-> 0, master |-> FALSE, epoch |-> 0]]
    /\ loop = [n \in Nodes |-> [at |-> "off", lease |-> 0]]
    /\ elect = [n \in Nodes |-> {}] /\ watch = [n \in Nodes |-> {}] /\ cancel = [n \in Nodes |-> 0]
    /\ chan = [n \in Nodes |-> <<>>]
    /\ guard = [n \in Nodes |-> [leader |-> FALSE, epoch |-> 0, ctx |-> FALSE]]
    /\ oper = [n \in Nodes |-> "no"] /\ restart = [n \in Nodes |-> FALSE]
    /\ faults = 0 /\ spoiled = {}

-----------------------------------------------------------------------------
(* etcd *)

\* The end of the leases ls takes the keys bound to them along.
EndLeases(ls) ==
    /\ leases' = leases \ ls
    /\ key' = IF key.lease \in ls THEN NoKey ELSE key
    /\ entry' = [n \in Nodes |-> IF entry[n].lease \in ls THEN NoEntry ELSE entry[n]]
    /\ rev' = IF key.lease \in ls THEN rev + 1 ELSE rev
    /\ gone' = IF key.lease \in ls THEN rev + 1 ELSE gone

\* The client of n was cut off longer than the TTL.
Expire(n) ==
    /\ w[n].lease \in leases /\ faults < MaxFaults /\ faults' = faults + 1
    /\ EndLeases({w[n].lease})
    /\ UNCHANGED <<granted, conn, w, loop, elect, watch, cancel, chan, guard, oper, restart, spoiled>>

\* A lease nobody keeps alive ends.
Lapse ==
    /\ \E l \in leases : (\A n \in Nodes : w[n].lease = l => loop[n].at = "off") /\ EndLeases({l})
    /\ UNCHANGED <<granted, conn, w, loop, elect, watch, cancel, chan, guard, oper, restart, faults, spoiled>>

\* The connection fails, and gRPC brings it back.
Disconnect(n) ==
    /\ conn[n] /\ faults < MaxFaults /\ faults' = faults + 1
    /\ conn' = [conn EXCEPT ![n] = FALSE]
    /\ UNCHANGED <<etcd, w, loop, elect, watch, cancel, chan, guard, oper, restart, spoiled>>
Reconnect(n) ==
    /\ ~conn[n] /\ conn' = [conn EXCEPT ![n] = TRUE]
    /\ UNCHANGED <<etcd, w, loop, elect, watch, cancel, chan, guard, oper, restart, faults, spoiled>>

\* initLease: a new lease, the old one revoked.
Grant(n) ==
    LET ls == {w[n].lease} \ {0} IN
    /\ granted' = granted + 1 /\ w' = [w EXCEPT ![n].started = TRUE, ![n].lease = granted + 1]
    /\ leases' = (leases \ ls) \cup {granted + 1}
    /\ key' = IF key.lease \in ls THEN NoKey ELSE key
    /\ entry' = [m \in Nodes |-> IF entry[m].lease \in ls THEN NoEntry ELSE entry[m]]
    /\ rev' = IF key.lease \in ls THEN rev + 1 ELSE rev
    /\ gone' = IF key.lease \in ls THEN rev + 1 ELSE gone

-----------------------------------------------------------------------------
(* Events to the service and the guard. *)

\* notifyService: PostJob may refuse the event, which is then lost.
Post(n, type, epoch) ==
    \/ /\ chan' = [chan EXCEPT ![n] = Append(@, <<type, epoch>>)] /\ UNCHANGED <<faults, spoiled>>
    \/ /\ faults < MaxFaults /\ faults' = faults + 1
       /\ spoiled' = spoiled \cup {n} /\ UNCHANGED chan

\* Guard.OnEvent: becomeLeader replaces the context unless the epoch is the one it has,
\* loseLeader cancels it.
GuardStays(n) == guard[n].leader /\ guard[n].epoch = Head(chan[n])[2]
OnEvent(n) ==
    /\ chan[n] # <<>> /\ chan' = [chan EXCEPT ![n] = Tail(@)]
    /\ guard' = [guard EXCEPT ![n] =
         IF Head(chan[n])[1] = "become"
         THEN IF GuardStays(n) THEN @ ELSE [leader |-> TRUE, epoch |-> Head(chan[n])[2], ctx |-> TRUE]
         ELSE IF @.leader THEN [leader |-> FALSE, epoch |-> 0, ctx |-> FALSE] ELSE @]
    /\ UNCHANGED <<etcd, conn, w, loop, elect, watch, cancel, oper, restart, faults, spoiled>>

-----------------------------------------------------------------------------
(* electMaster *)

\* A call of electMaster or, by "ready", of registerService alone.
FreshCall(by, at) == [by |-> by, at |-> at, epoch |-> 0, lease |-> 0, mark |-> FALSE]
Electing(n) == {e \in elect[n] : e.by # "ready"}

\* An election beside another one of the same watcher may undo what the other decided.
Begin(n, by) ==
    /\ elect' = [elect EXCEPT ![n] = @ \cup {FreshCall(by, "stop")}]
    /\ spoiled' = IF Electing(n) = {} THEN spoiled ELSE spoiled \cup {n}
Move(n, e, f) == elect' = [elect EXCEPT ![n] = (@ \ {e}) \cup {f}]
Over(n, e) == elect' = [elect EXCEPT ![n] = @ \ {e}]

\* stopWatchMaster: cancel what watchMasterCancel belongs to, then wait for all of them; a
\* goroutine that has not set watchMasterCancel yet survives it.
Cancelled(n) == watch' = [watch EXCEPT ![n] = {IF g.id = cancel[n] THEN [g EXCEPT !.live = FALSE] ELSE g : g \in @}]
ElectStop(n, e) ==
    /\ e.at = "stop"
    /\ IF cancel[n] = 0 THEN UNCHANGED watch /\ Move(n, e, [e EXCEPT !.at = "reset"])
       ELSE Cancelled(n) /\ Move(n, e, [e EXCEPT !.at = "wait"])
    /\ spoiled' = IF \A g \in watch[n] : g.id = cancel[n] THEN spoiled ELSE spoiled \cup {n}
    /\ UNCHANGED <<etcd, conn, w, loop, cancel, chan, guard, oper, restart, faults>>
ElectWait(n, e) ==
    /\ e.at = "wait" /\ watch[n] = {}
    /\ Move(n, e, [e EXCEPT !.at = "reset"])
    /\ UNCHANGED <<etcd, conn, w, loop, watch, cancel, chan, guard, oper, restart, faults, spoiled>>

\* The watcher is no master while it runs.
ElectReset(n, e) ==
    /\ e.at = "reset"
    /\ w' = [w EXCEPT ![n].master = FALSE, ![n].epoch = 0]
    /\ Move(n, e, [e EXCEPT !.at = IF w[n].master THEN "lose" ELSE "txn"])
    /\ UNCHANGED <<etcd, conn, loop, watch, cancel, chan, guard, oper, restart, faults, spoiled>>
ElectLose(n, e) ==
    /\ e.at = "lose"
    /\ Post(n, "lose", 0) /\ Move(n, e, [e EXCEPT !.at = "txn"])
    /\ UNCHANGED <<etcd, conn, w, loop, watch, cancel, guard, oper, restart>>

\* Mutant: every term has the same epoch.
EpochConstant == 1

\* The revision of the transaction.
Epoch == rev + 1

\* Without a connection the election ends with neither a master nor a watch; the error
\* of the transaction, and the lost answer of one that went through, end in the watch.
TryAcquireMaster(n, e) ==
    /\ e.at = "txn"
    /\ \/ /\ ~conn[n] /\ Over(n, e) /\ spoiled' = spoiled \cup {n}
          /\ UNCHANGED <<rev, key, faults>>
       \/ /\ conn[n] /\ w[n].ctx /\ w[n].lease \in leases /\ key = NoKey
          /\ rev' = rev + 1 /\ key' = [lease |-> w[n].lease, rev |-> rev + 1]
          /\ \/ Move(n, e, [e EXCEPT !.at = "won", !.epoch = Epoch]) /\ UNCHANGED <<faults, spoiled>>
             \/ /\ faults < MaxFaults /\ faults' = faults + 1 /\ spoiled' = spoiled \cup {n}
                /\ Move(n, e, [e EXCEPT !.at = "slave"])
       \/ /\ conn[n] /\ ~(w[n].ctx /\ w[n].lease \in leases /\ key = NoKey)
          /\ Move(n, e, [e EXCEPT !.at = "slave"])
          /\ UNCHANGED <<rev, key, faults, spoiled>>
    /\ UNCHANGED <<leases, granted, gone, entry, conn, w, loop, watch, cancel, chan, guard, oper, restart>>

ElectWon(n, e) ==
    /\ e.at = "won"
    /\ w' = [w EXCEPT ![n].master = TRUE, ![n].epoch = e.epoch]
    /\ Move(n, e, [e EXCEPT !.at = "become"])
    /\ UNCHANGED <<etcd, conn, loop, watch, cancel, chan, guard, oper, restart, faults, spoiled>>

\* The watch goroutine starts on its own time; its id is what watchMasterCancel will name.
FreeId(n) ==
    CHOOSE i \in 1..(Cardinality(watch[n]) + 2) : i # cancel[n] /\ \A g \in watch[n] : g.id # i
ElectSlave(n, e) ==
    /\ e.at = "slave"
    /\ watch' = [watch EXCEPT ![n] = @ \cup {[id |-> FreeId(n), at |-> "new", live |-> TRUE, rev |-> 0]}]
    /\ Move(n, e, [e EXCEPT !.at = "demote"])
    /\ UNCHANGED <<etcd, conn, w, loop, cancel, chan, guard, oper, restart, faults, spoiled>>
ElectNotify(n, e) ==
    /\ e.at \in {"become", "demote"}
    /\ IF e.at = "become" THEN Post(n, "become", e.epoch) ELSE Post(n, "slave", 0)
    /\ Move(n, e, [e EXCEPT !.at = "register"])
    /\ UNCHANGED <<etcd, conn, w, loop, watch, cancel, guard, oper, restart>>

\* The registerService an election defers: it writes the entry with the lease and the mark of
\* the PID. Whoever changes the mark between the two has spoiled the watcher.
CanRegister(n, l) == conn[n] /\ w[n].ctx /\ l \in leases
ElectRegister(n, e) ==
    /\ e.at = "register"
    /\ \/ /\ CanRegister(n, w[n].lease)
          /\ entry' = [entry EXCEPT ![n] = [lease |-> w[n].lease, master |-> w[n].master]]
          \* The service whose watcher has started may become ready, and is registered again.
          /\ IF e.by = "start" /\ n \in Readying THEN Move(n, e, FreshCall("ready", "ready")) ELSE Over(n, e)
          /\ UNCHANGED spoiled
       \/ /\ ~CanRegister(n, w[n].lease) /\ Over(n, e) /\ UNCHANGED entry
          \* A Start that fails here leaves its watcher running beside the one ServiceReady makes.
          /\ spoiled' = IF e.by \notin {"start", "late"} /\ (~w[n].ctx \/ w[n].lease \notin leases) THEN spoiled
                        ELSE spoiled \cup {n}
    /\ UNCHANGED <<rev, leases, granted, key, gone, conn, w, loop, watch, cancel, chan, guard, oper, restart, faults>>

\* The registerService of a service that is ready: it reads the lease and the mark, then writes
\* the entry, beside the elections. A mark that is out of date by then stays, unless a running
\* election writes another.
ReadyRead(n, e) ==
    /\ e.at = "ready"
    /\ IF conn[n] THEN Move(n, e, [e EXCEPT !.at = "put", !.lease = w[n].lease, !.mark = w[n].master])
       ELSE Over(n, e)
    /\ UNCHANGED <<etcd, conn, w, loop, watch, cancel, chan, guard, oper, restart, faults, spoiled>>
ReadyPut(n, e) ==
    /\ e.at = "put" /\ Over(n, e)
    /\ IF CanRegister(n, e.lease)
       THEN /\ entry' = [entry EXCEPT ![n] = [lease |-> e.lease, master |-> e.mark]]
            /\ spoiled' = IF e.mark # w[n].master /\ Electing(n) = {} THEN spoiled \cup {n} ELSE spoiled
       ELSE UNCHANGED <<entry, spoiled>>
    /\ UNCHANGED <<rev, leases, granted, key, gone, conn, w, loop, watch, cancel, chan, guard, oper, restart, faults>>

ElectMaster(n) ==
    \E e \in elect[n] :
        \/ ElectStop(n, e) \/ ElectWait(n, e) \/ ElectReset(n, e) \/ ElectLose(n, e)
        \/ TryAcquireMaster(n, e) \/ ElectWon(n, e) \/ ElectSlave(n, e) \/ ElectNotify(n, e)
        \/ ElectRegister(n, e) \/ ReadyRead(n, e) \/ ReadyPut(n, e)

-----------------------------------------------------------------------------
(* startWatchMaster *)

WatchStart(n, g) ==
    /\ g.at = "new"
    /\ cancel' = [cancel EXCEPT ![n] = g.id]
    /\ watch' = [watch EXCEPT ![n] = (@ \ {g}) \cup {[g EXCEPT !.at = "on", !.rev = rev]}]
    \* The watch has no revision: a deletion since the transaction is not seen.
    /\ spoiled' = IF key = NoKey /\ w[n].ctx THEN spoiled \cup {n} ELSE spoiled
    /\ UNCHANGED <<etcd, conn, w, loop, elect, chan, guard, oper, restart, faults>>
WatchExit(n, g) ==
    /\ g.at = "on" /\ (~g.live \/ ~w[n].ctx)
    /\ watch' = [watch EXCEPT ![n] = @ \ {g}]
    /\ UNCHANGED <<etcd, conn, w, loop, elect, cancel, chan, guard, oper, restart, faults, spoiled>>

\* Mutant: only an error of the watch starts an election.
KeyGoneNever(n, g) == FALSE

KeyGone(n, g) == gone > g.rev /\ conn[n]

\* The deletion of the key, or an error of the watch, starts an election.
WatchElect(n, g) ==
    /\ g.at = "on" /\ g.live /\ w[n].ctx
    /\ \/ KeyGone(n, g) /\ UNCHANGED faults
       \/ faults < MaxFaults /\ faults' = faults + 1
    /\ watch' = [watch EXCEPT ![n] = @ \ {g}] /\ Begin(n, "watch")
    /\ UNCHANGED <<etcd, conn, w, loop, cancel, chan, guard, oper, restart>>

WatchMaster(n) == \E g \in watch[n] : WatchStart(n, g) \/ WatchExit(n, g) \/ WatchElect(n, g)

-----------------------------------------------------------------------------
(* keepaliveLoop *)

Goto(n, at, l) == loop' = [loop EXCEPT ![n] = [at |-> at, lease |-> l]]

LoopTop(n) ==
    /\ loop[n].at = "top"
    /\ IF ~w[n].ctx THEN Goto(n, "off", 0)
       ELSE IF w[n].lease = 0 \/ ~conn[n] THEN Goto(n, "check", 0)
       ELSE Goto(n, "keep", w[n].lease)
    /\ UNCHANGED <<etcd, conn, w, elect, watch, cancel, chan, guard, oper, restart, faults, spoiled>>

\* KeepAliveLoop: it ends with the context, or with an error once the lease is lost; a
\* master then steps down at once.
KeepAlive(n) ==
    /\ loop[n].at = "keep"
    /\ \/ /\ ~w[n].ctx /\ Goto(n, "check", 0) /\ UNCHANGED <<w, spoiled>>
       \/ /\ loop[n].lease \notin leases
          /\ w' = [w EXCEPT ![n].master = FALSE, ![n].epoch = 0]
          /\ Goto(n, IF w[n].master THEN "lose" ELSE "check", 0)
          /\ spoiled' = IF Electing(n) = {} THEN spoiled ELSE spoiled \cup {n}
    /\ UNCHANGED <<etcd, conn, elect, watch, cancel, chan, guard, oper, restart, faults>>
LoopLose(n) ==
    /\ loop[n].at = "lose" /\ Post(n, "lose", 0) /\ Goto(n, "check", 0)
    /\ UNCHANGED <<etcd, conn, w, elect, watch, cancel, guard, oper, restart>>

\* initLease and a new election, or a retry after the back-off.
LoopCheck(n) ==
    /\ loop[n].at = "check"
    /\ \/ ~w[n].started /\ Goto(n, "off", 0) /\ UNCHANGED <<etcd, w, elect, spoiled>>
       \/ w[n].started /\ ~conn[n] /\ Goto(n, "top", 0) /\ UNCHANGED <<etcd, w, elect, spoiled>>
       \/ w[n].started /\ conn[n] /\ Grant(n) /\ Goto(n, "elect", 0) /\ Begin(n, "loop")
    /\ UNCHANGED <<conn, watch, cancel, chan, guard, oper, restart, faults>>
LoopElected(n) ==
    /\ loop[n].at = "elect" /\ \A e \in elect[n] : e.by # "loop"
    /\ Goto(n, "top", 0)
    /\ UNCHANGED <<etcd, conn, w, elect, watch, cancel, chan, guard, oper, restart, faults, spoiled>>

KeepaliveLoop(n) == LoopTop(n) \/ KeepAlive(n) \/ LoopLose(n) \/ LoopCheck(n) \/ LoopElected(n)

-----------------------------------------------------------------------------
(* Start, Stop and Restart *)

\* onRegister: Start; without a connection the watcher is given up, and made anew once, when the
\* service is ready.
Start(n) ==
    /\ oper[n] \in {"no", "late"}
    /\ \/ /\ conn[n] /\ Grant(n) /\ Goto(n, "top", 0) /\ Begin(n, IF oper[n] = "no" THEN "start" ELSE "late")
          /\ oper' = [oper EXCEPT ![n] = "on"]
       \/ /\ ~conn[n] /\ oper[n] = "no" /\ oper' = [oper EXCEPT ![n] = "late"]
          /\ UNCHANGED <<etcd, w, loop, elect, spoiled>>
       \/ /\ ~conn[n] /\ oper[n] = "late" /\ oper' = [oper EXCEPT ![n] = "done"] /\ spoiled' = spoiled \cup {n}
          /\ UNCHANGED <<etcd, w, loop, elect>>
    /\ UNCHANGED <<conn, watch, cancel, chan, guard, restart, faults>>

\* Stop: by onUnregister, or by the goroutine of Restart.
Stop(n) ==
    /\ oper[n] = "on" /\ (\A e \in elect[n] : e.by \notin {"start", "late"}) /\ (restart[n] \/ n \in Leaving)
    /\ w' = [w EXCEPT ![n].started = FALSE, ![n].ctx = FALSE, ![n].lease = 0]
    /\ EndLeases(IF conn[n] THEN {w[n].lease} ELSE {})
    /\ Cancelled(n) /\ oper' = [oper EXCEPT ![n] = "wait"]
    /\ UNCHANGED <<granted, conn, loop, elect, cancel, chan, guard, restart, faults, spoiled>>
StopWait(n) ==
    /\ oper[n] = "wait" /\ loop[n].at = "off" /\ (cancel[n] # 0 => watch[n] = {})
    /\ oper' = [oper EXCEPT ![n] = IF restart[n] THEN "again" ELSE "done"]
    /\ UNCHANGED <<etcd, conn, w, loop, elect, watch, cancel, chan, guard, restart, faults, spoiled>>

\* healthCheck found no connection and made a new client.
Recover(n) ==
    /\ ~conn[n] /\ oper[n] = "on" /\ ~restart[n]
    /\ conn' = [conn EXCEPT ![n] = TRUE] /\ restart' = [restart EXCEPT ![n] = TRUE]
    /\ UNCHANGED <<etcd, w, loop, elect, watch, cancel, chan, guard, oper, faults, spoiled>>

\* Restart: Start again, under the context Stop has cancelled; its error ends the retries.
RestartStart(n) ==
    /\ oper[n] = "again" /\ oper' = [oper EXCEPT ![n] = "done"] /\ spoiled' = spoiled \cup {n}
    /\ \/ conn[n] /\ Grant(n) /\ Goto(n, "top", 0)
          /\ elect' = [elect EXCEPT ![n] = @ \cup {FreshCall("late", "stop")}]
       \/ ~conn[n] /\ UNCHANGED <<etcd, w, loop, elect>>
    /\ UNCHANGED <<conn, watch, cancel, chan, guard, restart, faults>>

-----------------------------------------------------------------------------
Steps(n) == ElectMaster(n) \/ WatchMaster(n) \/ KeepaliveLoop(n)

ElectNext ==
    \/ \E n \in Nodes : Start(n) \/ Stop(n) \/ StopWait(n) \/ Recover(n) \/ RestartStart(n)
    \/ \E n \in Nodes : Steps(n) \/ OnEvent(n)
    \/ \E n \in Nodes : Expire(n) \/ Disconnect(n) \/ Reconnect(n)
    \/ Lapse

\* Goroutines run, events are handled, connections come back and a lease nobody renews
\* ends; nothing is assumed of when a watcher starts or stops.
ElectFairness ==
    /\ \A n \in Nodes :
        /\ WF_electVars(ElectMaster(n)) /\ WF_electVars(WatchMaster(n)) /\ WF_electVars(KeepaliveLoop(n))
        /\ WF_electVars(OnEvent(n)) /\ WF_electVars(Reconnect(n)) /\ WF_electVars(StopWait(n)) /\ WF_electVars(RestartStart(n))
        /\ WF_electVars(restart[n] /\ Stop(n))
    /\ WF_electVars(Lapse)

ElectSpec == ElectInit /\ [][ElectNext]_electVars /\ ElectFairness

-----------------------------------------------------------------------------
\* Calls of electMaster and watch goroutines that know revisions up to r.
Elections(r) ==
    [by : {"start", "late", "loop", "watch", "ready"}, epoch : 0..r, lease : Nat, mark : BOOLEAN,
     at : {"stop", "wait", "reset", "lose", "txn", "won", "slave", "become", "demote", "register", "ready", "put"}]
WatchLoops(r) == [id : Nat, at : {"new", "on"}, live : BOOLEAN, rev : 0..r]

EtcdOK ==
    /\ rev \in Nat /\ granted \in Nat /\ gone \in 0..rev /\ leases \subseteq 1..granted
    /\ key \in [lease : 0..granted, rev : 0..rev] /\ entry \in [Nodes -> [lease : 0..granted, master : BOOLEAN]]
WatcherOK ==
    /\ w \in [Nodes -> [started : BOOLEAN, ctx : BOOLEAN, lease : 0..granted, master : BOOLEAN, epoch : 0..rev]]
    /\ loop \in [Nodes -> [at : {"off", "top", "keep", "lose", "check", "elect"}, lease : 0..granted]]
    /\ oper \in [Nodes -> {"no", "late", "on", "wait", "again", "done"}]
    /\ conn \in [Nodes -> BOOLEAN] /\ restart \in [Nodes -> BOOLEAN]
CallsOK ==
    /\ elect \in [Nodes -> SUBSET Elections(rev)]
    /\ watch \in [Nodes -> SUBSET WatchLoops(rev)] /\ \A n \in Nodes : IsFiniteSet(watch[n])
    /\ cancel \in [Nodes -> Nat]
ServiceOK ==
    /\ chan \in [Nodes -> Seq(Events \X (0..rev))]
    /\ guard \in [Nodes -> [leader : BOOLEAN, epoch : 0..rev, ctx : BOOLEAN]]
    /\ faults \in 0..MaxFaults /\ spoiled \subseteq Nodes
ElectTypeOK == EtcdOK /\ WatcherOK /\ CallsOK /\ ServiceOK

\* The epoch is a fencing token: whoever still believes to lead without holding the master
\* key has a smaller epoch than the holder of the key, and a leader's context is live.
EpochFences ==
    \A n \in Nodes : guard[n].leader =>
        /\ guard[n].ctx
        /\ key # NoKey /\ guard[n].epoch # key.rev => guard[n].epoch < key.rev
        /\ \A m \in Nodes \ {n} : guard[m].leader => guard[m].epoch # guard[n].epoch

\* The election is well formed, and its epochs fence whoever has lost the lead without knowing
\* (LeaderGuard, handleElection).
EpochsSound == ElectTypeOK /\ EpochFences

\* The running watchers of the group, and the state in which they agree: one of them holds
\* the key, believes to be master, has told its guard, and is registered as master.
Running == {n \in Nodes : w[n].started /\ w[n].ctx}
Leads(n) ==
    /\ key.lease = w[n].lease /\ w[n].master /\ w[n].epoch = key.rev
    /\ guard[n].leader /\ guard[n].epoch = key.rev /\ entry[n].master
Follows(n) == ~w[n].master /\ ~guard[n].leader /\ ~entry[n].master
Settled == Running # {} => \E n \in Running : Leads(n) /\ \A m \in Running \ {n} : Follows(m)

\* Once leases, connections and services stay as they are, the group settles on one master,
\* unless a watcher was spoiled: two of its elections overlapped, its watch outlived the
\* election that stopped it or began after the deletion it waits for, an answer, an event or
\* the connection was lost within an election, Restart left it with a cancelled context, its
\* service was registered with a mark that was out of date when it was written, or its Start failed.
LeadershipSettles == <>[](spoiled = {} => Settled)
=============================================================================
