------------------------------ MODULE ConnPool ------------------------------
(***************************************************************************)
(* The connection pool of the remote senders                               *)
(* (engine/pkg/rpc/client/pool and rpc/client/enhanced_sender.go).         *)
(*                                                                         *)
(* Deliveries take a healthy connection of the pool of an address, which   *)
(* grows and shrinks with its load; a health check and a clean-up run      *)
(* beside them, and closing the manager stops the pool. An action is one   *)
(* critical section of poolMutex, connMutex or scaleMutex, or the wait for *)
(* the next one. connMutex is a sync.RWMutex: a waiting writer holds off   *)
(* new readers. What depends on the clock (cooldowns, idle times, the      *)
(* failure window) may go either way.                                      *)
(***************************************************************************)
EXTENDS Integers, FiniteSets, FiniteSetsExt

CONSTANTS
    Senders,            \* the goroutines in EnhancedSender.deliver
    MinConnections, MaxConnections, InitialConnections,
    MaxConsecutiveFails,
    FailureThreshold, MinRequestThreshold, \* of the circuit breaker
    MaxCreated,         \* bound on the connections ever created
    MaxSends,           \* bound on the deliveries
    MaxTicks            \* bound on the health checks and clean-ups

ASSUME PoolAssumption ==
    /\ MinConnections \in Nat /\ MaxConnections \in Nat \ {0} /\ InitialConnections \in Nat
    /\ MaxConsecutiveFails \in Nat /\ FailureThreshold \in Nat /\ MinRequestThreshold \in Nat

VARIABLES
    poolState,      \* the manager's entry of the address: "none", "running", "stopping", "closed"
    poolMutex,      \* who holds the manager's lock exclusively
    conns,          \* ConnectionPool.connections
    connState,      \* PoolConnection.State
    senderOpen,     \* the connections whose sender is open
    fails,          \* Metrics.ConsecutiveFails
    breaker,        \* the circuit breaker of a connection, with the cached circuitState
    connWriter,     \* who holds connMutex exclusively
    connReaders,    \* who holds it shared across a step
    scaleOwner,     \* who holds scaleMutex
    at,             \* where a goroutine is
    chosen,         \* the connection a delivery uses
    todo,           \* connections still to create, or to check
    created, sends, ticks

poolVars == <<poolState, poolMutex, conns, connState, senderOpen, fails, breaker, connWriter,
              connReaders, scaleOwner, at, chosen, todo, created, sends, ticks>>
lockVars == <<poolMutex, connWriter, connReaders, scaleOwner>>
connVars == <<conns, connState, senderOpen, fails, breaker, created>>
boundVars == <<sends, ticks>>

Ids == 1..MaxCreated
Goroutines == Senders \cup {"health", "cleanup", "closer"}
Nobody == "nobody"
NoConn == 0

\* The places where a goroutine waits for connMutex.Lock.
Writing == {"grow", "scaleUp", "scaleDown", "clean", "closeAll"}
CanRLock == connWriter = Nobody /\ \A g \in Goroutines : at[g] \notin Writing \cup {"relock"}
CanLock == connWriter = Nobody /\ connReaders = {}

Fewest(a, b) == IF a < b THEN a ELSE b
Most(a, b) == IF a > b THEN a ELSE b
MoveTo(g, place) == at' = [at EXCEPT ![g] = place]

NewBreaker == [state |-> "closed", total |-> 0, failed |-> 0, cached |-> "closed"]

PoolInit ==
    /\ poolState = "none" /\ poolMutex = Nobody
    /\ conns = {} /\ senderOpen = {}
    /\ connState = [c \in Ids |-> "idle"]
    /\ fails = [c \in Ids |-> 0]
    /\ breaker = [c \in Ids |-> NewBreaker]
    /\ connWriter = Nobody /\ connReaders = {} /\ scaleOwner = Nobody
    /\ at = [g \in Goroutines |-> IF g \in Senders THEN "idle" ELSE "off"]
    /\ chosen = [g \in Senders |-> NoConn]
    /\ todo = [g \in Goroutines |-> {}]
    /\ created = 0 /\ sends = 0 /\ ticks = 0

(***************************************************************************)
(* Connections and their circuit breaker.                                  *)
(***************************************************************************)
IsHealthy(c) ==
    /\ connState[c] \notin {"unhealthy", "closed"}
    /\ breaker[c].cached # "open"
    /\ c \in senderOpen

\* RecordSuccess and RecordFailure. Nobody calls CanCall, so the breaker of a connection is
\* closed or open, never half open. A failure may open a new window, which forgets it.
Recorded(b, ok, window) ==
    LET total == IF window THEN 0 ELSE b.total + 1
        failed == IF window THEN 0 ELSE b.failed + 1
        trips == total >= MinRequestThreshold
                    /\ (failed >= FailureThreshold \/ 2 * failed >= total) /\ total > 0
        state == IF b.state = "closed" /\ trips THEN "open" ELSE b.state
    IN  IF ok THEN [b EXCEPT !.total = @ + 1, !.cached = b.state]
        ELSE IF b.state = "open"
             THEN [b EXCEPT !.total = @ + 1, !.failed = @ + 1, !.cached = "open"]
             ELSE [state |-> state, total |-> total, failed |-> failed, cached |-> state]

\* createConnection under connMutex; creator may return nil.
CanCreate == Cardinality(conns) < MaxConnections /\ created < MaxCreated
Create ==
    LET c == created + 1 IN
    /\ created' = c
    /\ conns' = conns \cup {c}
    /\ senderOpen' = senderOpen \cup {c}
    /\ UNCHANGED <<connState, fails, breaker>>

\* Mutant: an idle connection is taken out of the map and its sender stays open.
RemoveUnclosed(cs) ==
    /\ conns' = conns \ cs
    /\ UNCHANGED <<connState, senderOpen, fails, breaker, created>>

\* The senders of cs are closed and the connections leave the map.
RemoveConn(cs) ==
    /\ conns' = conns \ cs
    /\ senderOpen' = senderOpen \ cs
    /\ UNCHANGED <<connState, fails, breaker, created>>

(***************************************************************************)
(* A delivery.                                                             *)
(***************************************************************************)
\* The manager is asked for a pool until it is closed.
Deliver(g) ==
    /\ at[g] = "idle" /\ poolState \in {"none", "running"} /\ poolMutex = Nobody
    /\ sends < MaxSends /\ sends' = sends + 1
    /\ MoveTo(g, "pool")
    /\ UNCHANGED <<poolState, lockVars, connVars, chosen, todo, ticks>>

\* GetOrCreatePool: a pool is created and started under poolMutex, with as many of its initial
\* connections as the creator delivers, and its two loops.
GetOrCreatePool(g) ==
    /\ at[g] = "pool" /\ poolMutex = Nobody
    /\ IF poolState = "none"
       THEN /\ \E n \in 0..InitialConnections :
                /\ conns' = 1..n /\ senderOpen' = 1..n /\ created' = n
            /\ poolState' = "running"
            /\ at' = [at EXCEPT ![g] = "pick", !["health"] = "tick", !["cleanup"] = "tick"]
            /\ UNCHANGED <<connState, fails, breaker>>
       ELSE MoveTo(g, "pick") /\ UNCHANGED <<poolState, connVars>>
    /\ UNCHANGED <<lockVars, chosen, todo, boundVars>>

\* GetConnection looks for healthy connections under RLock; every strategy picks one of them.
\* The second time round there is no further attempt.
GetConnection(g) ==
    /\ at[g] \in {"pick", "pickAgain"} /\ CanRLock
    /\ LET healthy == {c \in conns : IsHealthy(c)} IN
       IF healthy = {}
       THEN /\ MoveTo(g, IF at[g] = "pick" THEN "grow" ELSE "idle")
            /\ UNCHANGED chosen
       ELSE /\ \E c \in healthy : chosen' = [chosen EXCEPT ![g] = c]
            /\ MoveTo(g, "scale")
    /\ UNCHANGED <<poolState, lockVars, connVars, todo, boundVars>>

\* scaleUp(1): the delivery fails when no connection can be created.
Grow(g) ==
    /\ at[g] = "grow" /\ CanLock
    /\ \/ CanCreate /\ Create /\ MoveTo(g, "pickAgain")
       \/ UNCHANGED connVars /\ MoveTo(g, "idle")
    /\ UNCHANGED <<poolState, lockVars, chosen, todo, boundVars>>

\* checkAndScale.
LockScale(g) ==
    /\ at[g] = "scale" /\ scaleOwner = Nobody
    /\ scaleOwner' = g
    /\ MoveTo(g, "load")
    /\ UNCHANGED <<poolState, poolMutex, connWriter, connReaders, connVars, chosen, todo, boundVars>>

Total == Cardinality(conns)
Active == Cardinality({c \in conns : connState[c] = "active"})
Step == Most(1, Total \div 4)
UpBy == IF 10 * Active > 8 * Total THEN Fewest(MaxConnections - Total, Step) ELSE 0
DownBy == IF 10 * Active < 3 * Total THEN Fewest(Total - MinConnections, Step) ELSE 0

\* The load is read under RLock; nothing keeps it true until the pool is scaled.
ReadLoad(g) ==
    /\ at[g] = "load" /\ CanRLock
    /\ \/ MoveTo(g, "unscale") /\ UNCHANGED todo
       \/ /\ Total > 0 /\ UpBy > 0
          /\ MoveTo(g, "scaleUp") /\ todo' = [todo EXCEPT ![g] = 1..UpBy]
       \/ /\ Total > 0 /\ DownBy > 0
          /\ MoveTo(g, "scaleDown") /\ todo' = [todo EXCEPT ![g] = 1..DownBy]
    /\ UNCHANGED <<poolState, lockVars, connVars, chosen, boundVars>>

\* One createConnection of scaleUp; an error ends it.
ScaleUp(g) ==
    /\ at[g] = "scaleUp" /\ CanLock
    /\ \/ /\ CanCreate /\ Create
          /\ todo' = [todo EXCEPT ![g] = @ \ {Max(@)}]
          /\ MoveTo(g, IF Cardinality(todo[g]) > 1 THEN "scaleUp" ELSE "unscale")
       \/ UNCHANGED connVars /\ todo' = [todo EXCEPT ![g] = {}] /\ MoveTo(g, "unscale")
    /\ UNCHANGED <<poolState, lockVars, chosen, boundVars>>

\* scaleDown closes idle connections, whether or not a delivery has just chosen one.
ScaleDown(g) ==
    /\ at[g] = "scaleDown" /\ CanLock
    /\ LET idle == {c \in conns : connState[c] = "idle"} IN
       \E cs \in kSubset(Fewest(Cardinality(todo[g]), Cardinality(idle)), idle) : RemoveConn(cs)
    /\ todo' = [todo EXCEPT ![g] = {}]
    /\ MoveTo(g, "unscale")
    /\ UNCHANGED <<poolState, lockVars, chosen, boundVars>>

\* Mutant: checkAndScale returns with scaleMutex held when there was nothing to scale.
UnlockScaleMaybe(g) ==
    /\ at[g] = "unscale"
    /\ scaleOwner' = IF todo[g] = {} /\ Total = MinConnections THEN scaleOwner ELSE Nobody
    /\ MoveTo(g, "send")
    /\ UNCHANGED <<poolState, poolMutex, connWriter, connReaders, connVars, chosen, todo, boundVars>>

UnlockScale(g) ==
    /\ at[g] = "unscale"
    /\ scaleOwner' = Nobody
    /\ MoveTo(g, "send")
    /\ UNCHANGED <<poolState, poolMutex, connWriter, connReaders, connVars, chosen, todo, boundVars>>

\* deliver checks the connection once more and marks it active.
MarkActive(g) ==
    /\ at[g] = "send"
    /\ IF IsHealthy(chosen[g])
       THEN /\ connState' = [connState EXCEPT ![chosen[g]] = "active"]
            /\ MoveTo(g, "sending")
            /\ UNCHANGED chosen
       ELSE /\ MoveTo(g, "idle")
            /\ chosen' = [chosen EXCEPT ![g] = NoConn]
            /\ UNCHANGED connState
    /\ UNCHANGED <<poolState, lockVars, conns, senderOpen, fails, breaker, created, todo, boundVars>>

\* The sender has delivered or not, and UpdateMetrics has recorded it. A closed sender refuses.
Sent(g) ==
    /\ at[g] = "sending"
    /\ \E ok \in BOOLEAN, window \in BOOLEAN :
        /\ ok => chosen[g] \in senderOpen
        /\ fails' = [fails EXCEPT ![chosen[g]] =
                        IF ok THEN 0 ELSE Fewest(@ + 1, MaxConsecutiveFails + 1)]
        /\ breaker' = [breaker EXCEPT ![chosen[g]] = Recorded(@, ok, window)]
    /\ MoveTo(g, "settle")
    /\ UNCHANGED <<poolState, lockVars, conns, connState, senderOpen, created, chosen, todo,
                   boundVars>>

\* SetState(StateIdle), over whatever the health check or another delivery has set.
Settle(g) ==
    /\ at[g] = "settle"
    /\ connState' = [connState EXCEPT ![chosen[g]] = "idle"]
    /\ chosen' = [chosen EXCEPT ![g] = NoConn]
    /\ MoveTo(g, "idle")
    /\ UNCHANGED <<poolState, lockVars, conns, senderOpen, fails, breaker, created, todo, boundVars>>

(***************************************************************************)
(* The health check: every connection of a snapshot, then the metrics,     *)
(* which hold connMutex while they wait for scaleMutex.                    *)
(***************************************************************************)
HealthTick ==
    /\ at["health"] = "tick" /\ CanRLock /\ ticks < MaxTicks
    /\ ticks' = ticks + 1
    /\ todo' = [todo EXCEPT !["health"] = conns]
    /\ MoveTo("health", "check")
    /\ UNCHANGED <<poolState, lockVars, connVars, chosen, sends>>

HealthCheck ==
    /\ at["health"] = "check" /\ todo["health"] # {}
    /\ LET c == Min(todo["health"]) IN
        /\ \E idleLong \in BOOLEAN :
             connState' = [connState EXCEPT ![c] =
                IF c \notin senderOpen THEN "closed"
                ELSE IF fails[c] > MaxConsecutiveFails THEN "unhealthy"
                ELSE IF idleLong \/ @ # "active" THEN "idle" ELSE @]
        /\ todo' = [todo EXCEPT !["health"] = @ \ {c}]
    /\ UNCHANGED <<poolState, lockVars, conns, senderOpen, fails, breaker, created, at, chosen,
                   boundVars>>

ReadMetrics ==
    /\ at["health"] = "check" /\ todo["health"] = {} /\ CanRLock
    /\ connReaders' = connReaders \cup {"health"}
    /\ MoveTo("health", "metrics")
    /\ UNCHANGED <<poolState, poolMutex, connWriter, scaleOwner, connVars, chosen, todo, boundVars>>

ReadScaleTime ==
    /\ at["health"] = "metrics" /\ scaleOwner = Nobody
    /\ connReaders' = connReaders \ {"health"}
    /\ MoveTo("health", "tick")
    /\ UNCHANGED <<poolState, poolMutex, connWriter, scaleOwner, connVars, chosen, todo, boundVars>>

(***************************************************************************)
(* The clean-up.                                                           *)
(***************************************************************************)
CleanupTick ==
    /\ at["cleanup"] = "tick" /\ ticks < MaxTicks
    /\ ticks' = ticks + 1
    /\ MoveTo("cleanup", "clean")
    /\ UNCHANGED <<poolState, lockVars, connVars, chosen, todo, sends>>

\* Closed connections and those unhealthy for long go. When too few are left, the clean-up asks
\* createConnection for more, which locks the connMutex it still holds.
Cleanup ==
    /\ at["cleanup"] = "clean" /\ CanLock
    /\ \E old \in SUBSET {c \in conns : connState[c] = "unhealthy"} :
        LET gone == {c \in conns : connState[c] = "closed"} \cup old IN
        /\ RemoveConn(gone)
        /\ IF Cardinality(conns \ gone) < MinConnections
           THEN connWriter' = "cleanup" /\ MoveTo("cleanup", "relock")
           ELSE UNCHANGED connWriter /\ MoveTo("cleanup", "tick")
    /\ UNCHANGED <<poolState, poolMutex, connReaders, scaleOwner, chosen, todo, boundVars>>

(***************************************************************************)
(* PoolManager.Close.                                                      *)
(***************************************************************************)
Close ==
    /\ poolState = "running" /\ poolMutex = Nobody
    /\ \A g \in Senders : at[g] # "pool"
    /\ poolMutex' = "closer" /\ poolState' = "stopping"
    /\ MoveTo("closer", "join")
    /\ UNCHANGED <<connWriter, connReaders, scaleOwner, connVars, chosen, todo, boundVars>>

\* A loop sees the closed channel or the cancelled context between two rounds.
LoopEnds(g) ==
    /\ at[g] = "tick" /\ poolState = "stopping"
    /\ MoveTo(g, "off")
    /\ UNCHANGED <<poolState, lockVars, connVars, chosen, todo, boundVars>>

\* wg.Wait.
Join ==
    /\ at["closer"] = "join" /\ at["health"] = "off" /\ at["cleanup"] = "off"
    /\ MoveTo("closer", "closeAll")
    /\ UNCHANGED <<poolState, lockVars, connVars, chosen, todo, boundVars>>

CloseAll ==
    /\ at["closer"] = "closeAll" /\ CanLock
    /\ RemoveConn(conns)
    /\ poolState' = "closed" /\ poolMutex' = Nobody
    /\ MoveTo("closer", "off")
    /\ UNCHANGED <<connWriter, connReaders, scaleOwner, chosen, todo, boundVars>>

Delivery(g) ==
    \/ GetOrCreatePool(g) \/ GetConnection(g) \/ Grow(g) \/ LockScale(g) \/ ReadLoad(g)
    \/ ScaleUp(g) \/ ScaleDown(g) \/ UnlockScale(g) \/ MarkActive(g) \/ Sent(g) \/ Settle(g)

HealthRound == HealthCheck \/ ReadMetrics \/ ReadScaleTime \/ LoopEnds("health")
CleanupRound == Cleanup \/ LoopEnds("cleanup")
Closing == Join \/ CloseAll

PoolNext ==
    \/ \E g \in Senders : Deliver(g) \/ Delivery(g)
    \/ HealthTick \/ HealthRound \/ CleanupTick \/ CleanupRound
    \/ Close \/ Closing

PoolFairness ==
    /\ \A g \in Senders : WF_poolVars(Delivery(g))
    /\ WF_poolVars(HealthRound) /\ WF_poolVars(CleanupRound) /\ WF_poolVars(Closing)

PoolSpec == PoolInit /\ [][PoolNext]_poolVars /\ PoolFairness

(***************************************************************************)
(* Properties.                                                             *)
(***************************************************************************)
\* Every open sender belongs to a connection of the pool, so that stopping the pool or cleaning
\* it up can close it: scaleDown, cleanupConnections and Stop close what they take out.
NoSenderLeaks == senderOpen \subseteq conns

\* The clean-up waits for the lock it holds (cleanupConnections calls createConnection).
SelfLocked == at["cleanup"] = "relock"
\* updatePoolMetrics holds connMutex and waits for scaleMutex, whose owner waits for connMutex
\* (checkAndScale takes the two locks in the other order).
LockCycle ==
    /\ at["health"] = "metrics"
    /\ scaleOwner # Nobody /\ at[scaleOwner] \in {"load", "scaleUp", "scaleDown"}

\* A delivery ends and Close returns, unless the pool runs into one of the two lock cycles
\* above: there is no third way to hang.  Deliveries are finitely many, so "eventually none is
\* under way" says it of each of them.
DeliveriesEnd ==
    <>[](\/ (\A g \in Senders : at[g] = "idle") /\ poolState # "stopping"
         \/ SelfLocked \/ LockCycle)
=============================================================================
