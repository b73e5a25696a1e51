----------------------------- MODULE MCCluster -----------------------------
(***************************************************************************)
(* The cluster side of a node, one part at a time: the election of a       *)
(* master, the directory of remote services, the event bus between the     *)
(* services, and the access policy every node follows. The parts share no  *)
(* state, so a behaviour is one of one of them; the variables of the       *)
(* others keep their initial values.                                       *)
(***************************************************************************)
EXTENDS Election, Directory, EventBus, MCAuthz

CONSTANTS n1, n2, k1

VARIABLE part

clusterVars == <<part, electVars, dirVars, busVars, authzVars>>

\* All keys hash to one shard.
MCShardOf == [k \in Keys |-> 0]

ClusterInit ==
    /\ part \in {"election", "directory", "events", "policy"}
    /\ ElectInit /\ DirInit /\ BusInit /\ AuthzInit
    \* What may differ at the start: the entries that are there before the node starts, the
    \* settings of the bus and the snapshot in etcd.
    /\ part # "directory" => \A k \in Keys : store[k] = 0
    /\ part # "events" => enable /\ followed = Group(AnyTopic)
    /\ part # "policy" => stored = Garbled

ClusterNext ==
    \/ part = "election" /\ ElectNext /\ UNCHANGED <<part, dirVars, busVars, authzVars>>
    \/ part = "directory" /\ DirNext /\ UNCHANGED <<part, electVars, busVars, authzVars>>
    \/ part = "events" /\ BusNext /\ UNCHANGED <<part, electVars, dirVars, authzVars>>
    \/ part = "policy" /\ AuthzNext /\ UNCHANGED <<part, electVars, dirVars, busVars>>

\* The fairness of each part, while it is the one that runs.
ClusterFairness ==
    /\ \A n \in Nodes :
        /\ WF_electVars(part = "election" /\ ElectMaster(n))
        /\ WF_electVars(part = "election" /\ WatchMaster(n))
        /\ WF_electVars(part = "election" /\ KeepaliveLoop(n))
        /\ WF_electVars(part = "election" /\ OnEvent(n))
        /\ WF_electVars(part = "election" /\ Reconnect(n))
        /\ WF_electVars(part = "election" /\ StopWait(n))
        /\ WF_electVars(part = "election" /\ RestartStart(n))
        /\ WF_electVars(part = "election" /\ restart[n] /\ Stop(n))
    /\ WF_electVars(part = "election" /\ Lapse)
    /\ WF_dirVars(part = "directory" /\ WatchLoop)
    /\ WF_dirVars(part = "directory" /\ SyncInitialState)
    /\ WF_dirVars(part = "directory" /\ Close)
    /\ \A p \in Pushers : WF_dirVars(part = "directory" /\ PushEvent(p))
    /\ \A s \in Shards : WF_dirVars(part = "directory" /\ ShardWorker(s))
    /\ WF_busVars(part = "events" /\ \E e \in BusEvents : PublishStep(e))
    /\ WF_busVars(part = "events" /\ \E m \in inbox : NatsReceive(m))
    /\ \A l \in Listeners : WF_busVars(part = "events" /\ CallStep(l))
    /\ WF_busVars(part = "events" /\ BatchTick)
    /\ WF_busVars(part = "events" /\ \E b \in flushing : FlushEvent(b))
    /\ WF_busVars(part = "events" /\ StopBus)
    /\ WF_authzVars(part = "policy" /\ WatchStep)

ClusterSpec == ClusterInit /\ [][ClusterNext]_clusterVars /\ ClusterFairness

\* The calls, faults and events of the bus so far; that it is without NATS counts as one.
BusSteps ==
    busCalls + busFaults + (IF busStop = "run" /\ enable THEN 0 ELSE 1)
    + Cardinality({e \in BusEvents : event[e] # NoBusEvent})

\* The two instances start in either order alike; after a fault an election is followed while no
\* watcher is spoiled, an instance leaves before leases are granted anew or not at all, and no
\* service becomes ready. A directory sees three changes of its entries, faults or its Close; the
\* bus and the policy are followed through a few calls, and one service uses the second name.
Explore ==
    CASE part = "election" ->
            /\ faults = 0 \/ spoiled = {}
            /\ faults = 0 \/ \A n \in Nodes : \A e \in elect[n] : e.by # "ready"
            /\ faults = 0 \/ (oper[n1] = "on" /\ granted <= 2) \/ \A n \in Nodes : Electing(n) = elect[n]
            /\ oper[n1] = "no" => oper[n2] = "no"
            /\ ~(faults > 0 /\ granted > 2 /\ ~restart[n1] /\ oper[n1] \in {"wait", "done"})
      [] part = "directory" -> Len(hist) + dirFaults + (IF closer = "no" THEN 0 ELSE 1) <= 3
      [] part = "events" ->
            /\ \A c \in callbacks : c.name = "y" => c.by[1] = "a"
            /\ BusSteps <= IF followed.scope = "global" THEN 4 ELSE 3
      [] part = "policy" -> edits + 2 * locals + breaks <= 3
      [] OTHER -> TRUE

\* A node that started fail-closed enforces one whole valid policy, and in the end the one that
\* stays in etcd (PolicyWatcher, RBACEngine.ApplySnapshot).
PolicyFollowed == []FailClosed /\ PolicyConverges
=============================================================================
