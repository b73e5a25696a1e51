------------------------------- MODULE MCRpc --------------------------------
(***************************************************************************)
(* The path of a request, one part at a time: the calls of a client up to  *)
(* their outcome, the repository of endpoints they are selected from, the  *)
(* connection pool that carries them and the circuit breaker beside it;    *)
(* and the connections of clients: the network library under them and the  *)
(* gate's supervisor and sessions.                                         *)
(* The parts share no state: a behaviour is one of one of them, and the    *)
(* variables of the others keep their initial values.                      *)
(***************************************************************************)
EXTENDS RpcCall, ConnPool, Breaker, Repository, Network, GateServe, GateSessions, TLC

CONSTANTS c1, c2, k

VARIABLE part

MCOrder == <<c1, c2>>

Local(a) == [async |-> a, remote |-> FALSE, key |-> NoKey]
Remote(a) == [async |-> a, remote |-> TRUE, key |-> NoKey]
WithKey(kd) == [kd EXCEPT !.key = k]
Scene(m, k1, k2, d, f) == [mode |-> m, kind |-> (c1 :> k1 @@ c2 :> k2), dedup |-> d, faults |-> f]
KeyedScene(m, k1, k2, d, f) == Scene(m, WithKey(k1), WithKey(k2), d, f)

\* Two independent calls, the loops of a MultiBus, and the loops with a key, whose buses lead to
\* one node or not, under both deduplicators.
MCScenarios ==
    {Scene("single", Local(TRUE), Local(FALSE), "ttl", {}),
     Scene("any", Local(FALSE), Local(FALSE), "ttl", {"stop", "expire"}),
     Scene("all", Local(FALSE), Remote(FALSE), "ttl", {"drop", "expire"}),
     Scene("async", Remote(TRUE), Local(TRUE), "ttl", {"stop"}),
     KeyedScene("any", Remote(FALSE), Remote(FALSE), "ttl", {}),
     KeyedScene("any", Local(FALSE), Remote(FALSE), "lru", {"duplicate"}),
     KeyedScene("send", Remote(FALSE), Remote(FALSE), "lru", {"forget"}),
     KeyedScene("send", Local(FALSE), Remote(FALSE), "ttl", {"duplicate", "reject", "forget", "expire"})}

MCNameOf == [u \in Uids |-> "n"]
MCTypeOf == [u \in Uids |-> "t"]
MCPartitionOf == [u \in Uids |-> 1]
MCAddrOf == [u \in Uids |-> "addr"]
MCAsksOf == [c \in Askers |-> IF c = "p" THEN {"name", "type", "rule", "choice", "uid", "route"}
                                         ELSE {"route"}]

\* A message that fits the header of one byte and one that does not.
MCLen == <<2, 256>>

MCPolicies ==
    {[enable |-> TRUE, max |-> 1], [enable |-> TRUE, max |-> 0], [enable |-> FALSE, max |-> 1]}

\* Two users whose lock shard is the same.
MCLockOf == [u |-> 1, v |-> 1]

clientVars == <<netVars, serveVars, sessVars>>
rpcVars == <<part, vars, poolVars, cbVars, repVars, clientVars>>

RpcInit ==
    /\ part \in {"call", "connections", "breaker", "repository", "network", "serve", "sessions"}
    /\ Init /\ PoolInit /\ CbInit /\ RepInit /\ NetInit /\ ServeInit /\ SessInit
    \* What may differ at the start: the scenario of the calls, and the settings.
    /\ part # "call" => scene = CHOOSE s \in Scenarios : TRUE
    /\ part # "network" => netKind = "tcp" /\ netSide = "server" /\ limits.pending = 1
    /\ part # "serve" => policy = CHOOSE p \in MCPolicies : TRUE

RpcNext ==
    \/ part = "call" /\ Next /\ UNCHANGED <<part, poolVars, cbVars, repVars, clientVars>>
    \/ part = "connections" /\ PoolNext /\ UNCHANGED <<part, vars, cbVars, repVars, clientVars>>
    \/ part = "breaker" /\ CbNext /\ UNCHANGED <<part, vars, poolVars, repVars, clientVars>>
    \/ part = "repository" /\ RepNext /\ UNCHANGED <<part, vars, poolVars, cbVars, clientVars>>
    \/ /\ UNCHANGED <<part, vars, poolVars, cbVars, repVars>>
       /\ \/ part = "network" /\ NetNext /\ UNCHANGED <<serveVars, sessVars>>
          \/ part = "serve" /\ ServeNext /\ UNCHANGED <<netVars, sessVars>>
          \/ part = "sessions" /\ SessNext /\ UNCHANGED <<netVars, serveVars>>

\* The fairness of each part, while it is the one that runs.
RpcFairness ==
    /\ \A c \in Calls : /\ WF_vars(part = "call" /\ CallStep(c))
                        /\ WF_vars(part = "call" /\ TimerFire(c))
                        /\ WF_vars(part = "call" /\ TimerTake(c))
    /\ WF_vars(part = "call" /\ Finish)
    /\ WF_vars(part = "call" /\ \E j \in inbox : DeliverResponse(j))
    /\ WF_vars(part = "call" /\ \E j \in cbjobs : RunCallback(j))
    /\ \A g \in Senders : WF_poolVars(part = "connections" /\ Delivery(g))
    /\ WF_poolVars(part = "connections" /\ HealthRound)
    /\ WF_poolVars(part = "connections" /\ CleanupRound)
    /\ WF_poolVars(part = "connections" /\ Closing)
    /\ WF_cbVars(part = "breaker" /\ Cool)
    /\ \A g \in Guarded : WF_cbVars(part = "breaker" /\ Guard(g))
    /\ \A c \in NetConns :
          /\ WF_netVars(/\ part = "network" /\ ~Crashed
                        /\ writer[c] # "write" \/ netKind # "ws" \/ sock[c] # "open"
                        /\ \/ WriterRecv(c) \/ WriterWrites(c) \/ WriterFails(c)
                           \/ WriterShuts(c) \/ WriterSweeps(c))
          /\ WF_netVars(/\ part = "network" /\ ~Crashed
                        /\ \/ AddHandler(c) \/ Admit(c) \/ Launch(c)
                           \/ CloseAfterRun(c) \/ Unlist(c) \/ OnClose(c))
          /\ WF_netVars(part = "network" /\ ~Crashed /\ sock[c] # "open" /\ RunEnds(c))
    /\ \A s \in Slots : WF_netVars(part = "network" /\ ~Crashed /\ NetClosing /\ DialFails(s))
    /\ WF_netVars(part = "network" /\ ~Crashed /\ netState # "run" /\ (DropAll \/ WaitConns))
    /\ WF_serveVars(part = "serve" /\ (ServeBegins \/ BackoffOver \/ BackoffCancelled))
    /\ WF_serveVars(part = "serve" /\ serve # "panic" /\ (ReleaseShuts \/ ReleaseReturns))
    /\ \A s \in Sessions :
          /\ WF_sessVars(/\ part = "sessions" /\ ~gateDown
                         /\ StartSession(s) \/ \E ok \in BOOLEAN : Connected(s, ok))
          /\ WF_sessVars(part = "sessions" /\ ~gateDown /\ ListenerRuns(s))
          /\ WF_sessVars(part = "sessions" /\ ~gateDown /\ SenderRuns(s))
          /\ WF_sessVars(/\ part = "sessions" /\ ~gateDown
                         /\ \E w \in Closers : CloseSession(s, w) \/ CloseEnds(s, w))

RpcSpec == RpcInit /\ [][RpcNext]_rpcVars /\ RpcFairness

\* The steps of an AsyncCall up to its delivery.
Adding == {"idle", "add", "arm", "bucket", "deliver"}

\* Nothing is claimed of a CallState once a race or Stop has put it back too early, nor of a
\* connection pool that has run into one of its lock cycles.  The monitor is stopped while an
\* asynchronous call is being made.  A repository is followed through a
\* few operations, a second asker asking beside a lookup by route of the first; a
\* connection and a session through a few calls, fewer once there is a second one.
Explore ==
    CASE part = "call" ->
            Sound /\ (scene.mode = "async" /\ stop # "run" => \E c \in Calls : pc[c] \in Adding)
      [] part = "connections" -> ~SelfLocked /\ ~LockCycle
      [] part = "repository" ->
            /\ repOps + 2 * asks + (IF repStop.at = "run" THEN 0 ELSE 1) <= 4
            /\ asker["q"].at # "idle" => asker["p"].kind = "route"
      [] part = "network" ->
            netCalls + cuts + (IF agent[2] = "none" THEN 0 ELSE 1) + (IF netKind = "tcp" THEN 0 ELSE 1) <= 2
      [] part = "sessions" -> pushes + kicks + hangUps + (IF userOf[2] = NoUser THEN 0 ELSE 1) <= 2
      [] OTHER -> TRUE

\* Close of a server or client returns and the writers of closed connections end; a session taken
\* out of the table ends unless a user does not read; OnRelease of a gate that was serving returns.
ConnectionsEnd == CloseReturns /\ SessionsEnd /\ GateReleases
=============================================================================
