-------------------------- MODULE ConnectionProofs --------------------------
(***************************************************************************)
(* Theorems about connections: those of a pool of remote senders           *)
(* (ConnPool), for any limits and any breaker; those of a gate's users     *)
(* (GateSessions), for any users, sessions and assignment of lock shards;  *)
(* those of a server or client and its sockets (Network), for any          *)
(* connections, messages and configuration; and those of the repository of *)
(* services they lead to (Repository), for any services and selections.    *)
(***************************************************************************)
EXTENDS ConnPool, GateSessions, Network, Repository, FiniteSetTheorems, SequenceTheorems, WellFoundedInduction, TLAPS

(***************************************************************************)
(* The connection pool.                                                    *)
(***************************************************************************)
\* A delivery, with everything checkAndScale does in it, closes what it takes out of the map.
LEMMA DeliveryKeeps ==
    ASSUME NoSenderLeaks, NEW g \in Senders, Deliver(g) \/ Delivery(g)
    PROVE  NoSenderLeaks'
<1>1. CASE \/ Deliver(g) \/ GetConnection(g) \/ LockScale(g) \/ ReadLoad(g) \/ UnlockScale(g)
           \/ MarkActive(g) \/ Sent(g) \/ Settle(g)
  BY <1>1 DEF NoSenderLeaks, Deliver, GetConnection, LockScale, ReadLoad, UnlockScale, MarkActive,
    Sent, Settle, connVars
<1>2. CASE GetOrCreatePool(g)
  BY <1>2 DEF NoSenderLeaks, GetOrCreatePool, connVars
<1>3. CASE Grow(g) \/ ScaleUp(g)
  BY <1>3 DEF NoSenderLeaks, Grow, ScaleUp, Create, connVars
<1>4. CASE ScaleDown(g)
  <2>1. \E cs : RemoveConn(cs)
    BY <1>4 DEF ScaleDown
  <2>2. QED
    BY <2>1 DEF NoSenderLeaks, RemoveConn
<1>5. QED
  BY <1>1, <1>2, <1>3, <1>4 DEF Delivery

\* However deliveries, scaling, health checks, clean-ups and Close interleave, the pool knows every
\* sender that is open (connection_pool.go scaleDown, cleanupConnections, Stop).
THEOREM NoSenderLeaksHolds == PoolSpec => []NoSenderLeaks
<1>1. PoolInit => NoSenderLeaks
  BY DEF PoolInit, NoSenderLeaks
<1>2. NoSenderLeaks /\ [PoolNext]_poolVars => NoSenderLeaks'
  <2> SUFFICES ASSUME NoSenderLeaks, [PoolNext]_poolVars PROVE NoSenderLeaks'
    OBVIOUS
  <2>1. CASE HealthTick \/ HealthRound \/ CleanupTick \/ LoopEnds("cleanup") \/ Close \/ Join
    BY <2>1 DEF NoSenderLeaks, HealthTick, HealthRound, HealthCheck, ReadMetrics, ReadScaleTime,
      LoopEnds, CleanupTick, Close, Join, connVars
  <2>2. CASE Cleanup \/ CloseAll
    <3>1. \E cs : RemoveConn(cs)
      BY <2>2 DEF Cleanup, CloseAll
    <3>2. QED
      BY <3>1 DEF NoSenderLeaks, RemoveConn
  <2>3. CASE UNCHANGED poolVars
    BY <2>3 DEF NoSenderLeaks, poolVars
  <2>4. QED
    BY <2>1, <2>2, <2>3, DeliveryKeeps DEF PoolNext, CleanupRound, Closing
<1>3. QED
  BY <1>1, <1>2, PTL DEF PoolSpec

(***************************************************************************)
(* The sessions of a gate.                                                 *)
(***************************************************************************)
CloserType == [Sessions -> [Closers -> {"none", "want", "wait", "end"}]]

SessTypeOK ==
    /\ userOf \in [Sessions -> Users \cup {NoUser}] /\ sessions \subseteq Sessions
    /\ uidMap \in [Users -> Sessions \cup {0}]
    /\ binder \in [Sessions -> {"none", "connect", "close", "start", "end"}]
    /\ closer \in CloserType /\ closedFlag \subseteq Sessions
    /\ sender \in [Sessions -> {"none", "run", "send", "drain", "drainSend", "done"}]
    /\ listener \in [Sessions -> {"none", "run", "end"}]
    /\ conn \in [Sessions -> {"open", "cut", "closed"}]
    /\ sendQueue \in [Sessions -> Seq(Nat)] /\ rpc \in Sessions \cup {0} /\ pushes \in Nat
    /\ due \in [Sessions -> SUBSET Nat] /\ sentTo \in [Sessions -> SUBSET Nat]

\* A session nobody has bound is nowhere, and its goroutines start when Bind is through.
BoundInv ==
    \A s \in Sessions :
        /\ userOf[s] = NoUser => /\ s \notin sessions /\ binder[s] = "none"
                                 /\ \A w \in Closers : closer[s][w] = "none"
        /\ binder[s] # "end" => sender[s] = "none" /\ listener[s] = "none"

\* uidMap and the table: an entry is a session of the table and of that user; a session of the
\* table that is not its user's entry is about to be kicked, and nobody is closing it yet.
TableInv ==
    /\ \A u \in Users : uidMap[u] # 0 => uidMap[u] \in sessions /\ userOf[uidMap[u]] = u
    /\ \A s \in sessions : \A w \in Closers : closer[s][w] \in {"none", "want"}
    /\ \A s \in sessions : uidMap[userOf[s]] # s => closer[s]["kick"] = "want"

\* What a session owes is sent or queued; a broken connection, or one that was closed before its
\* sender started, owes nothing.
Queued(s) == {sendQueue[s][i] : i \in 1..Len(sendQueue[s])}
OwedAt(s) ==
    /\ due[s] \subseteq sentTo[s] \cup Queued(s)
    /\ conn[s] = "cut" => due[s] = {}
    /\ conn[s] = "closed" => s \in closedFlag /\ (due[s] = {} \/ sender[s] = "done")
    /\ s \in closedFlag /\ sender[s] = "none" => due[s] = {}
    /\ sender[s] \in {"drain", "drainSend", "done"} => s \in closedFlag
    /\ sender[s] \in {"send", "drainSend"} => sendQueue[s] # <<>>
    /\ sender[s] = "done" => due[s] \subseteq sentTo[s]
    /\ \A w \in Closers : closer[s][w] = "wait" => s \in closedFlag
OwedInv == \A s \in Sessions : OwedAt(s)

SessInv == SessTypeOK /\ BoundInv /\ TableInv /\ OwedInv

\* 0 stands for no session.
LEMMA NoSession == 0 \notin Sessions
  BY GateAssumption, FS_CardinalityType

\* What a caller of closeSession writes into closer.
LEMMA CloserStep ==
    ASSUME SessTypeOK, NEW s \in Sessions, NEW w \in Closers, NEW x \in {"none", "want", "wait", "end"},
           closer' = [closer EXCEPT ![s][w] = x]
    PROVE  /\ closer' \in CloserType
           /\ \A r \in Sessions, v \in Closers :
                 closer'[r][v] = IF r = s /\ v = w THEN x ELSE closer[r][v]
  BY DEF SessTypeOK, CloserType

LEMMA WantStep ==
    ASSUME SessTypeOK, NEW s \in Sessions, NEW w \in Closers
    PROVE  /\ Want(s, w) \in CloserType
           /\ \A r \in Sessions, v \in Closers :
                 Want(s, w)[r][v] = IF r = s /\ v = w /\ closer[s][w] = "none" THEN "want" ELSE closer[r][v]
  BY DEF SessTypeOK, CloserType, Want

\* Nothing has happened yet.
LEMMA SessInitInv == SessInit => SessInv
<1> SUFFICES ASSUME SessInit PROVE SessInv
  OBVIOUS
<1>1. SessTypeOK
  BY DEF SessInit, SessTypeOK, CloserType
<1>2. BoundInv /\ TableInv
  BY DEF SessInit, BoundInv, TableInv
<1>3. OwedInv
  BY DEF SessInit, OwedInv, OwedAt, Closers
<1>4. QED
  BY <1>1, <1>2, <1>3 DEF SessInv

\* A session that a step does not touch owes what it owed.
OwedSame(r) ==
    /\ due'[r] = due[r] /\ sentTo'[r] = sentTo[r] /\ sendQueue'[r] = sendQueue[r]
    /\ conn'[r] = conn[r] /\ sender'[r] = sender[r]

LEMMA OwedKept ==
    ASSUME NEW r \in Sessions, OwedAt(r), OwedSame(r), r \in closedFlag' <=> r \in closedFlag,
           \A w \in Closers : closer'[r][w] = "wait" => closer[r][w] = "wait"
    PROVE  OwedAt(r)'
  BY DEF OwedAt, OwedSame, Queued

\* Bind: the old session of the user is told to go before the new one takes its entry.
LEMMA BindKeeps ==
    ASSUME SessInv, NEW s \in Sessions, NEW u \in Users, Bind(s, u)
    PROVE  SessInv'
<1> DEFINE o == uidMap[u]
<1>0. SessTypeOK /\ BoundInv /\ TableInv /\ OwedInv /\ o \in Sessions \cup {0} /\ u # NoUser
  BY GateAssumption DEF SessInv, SessTypeOK
<1>1. /\ userOf[s] = NoUser /\ s \notin sessions /\ UNCHANGED ioVars /\ UNCHANGED closedFlag
      /\ userOf' = [userOf EXCEPT ![s] = u] /\ sessions' = sessions \cup {s}
      /\ uidMap' = [uidMap EXCEPT ![u] = s] /\ binder' = [binder EXCEPT ![s] = "connect"]
      /\ binder[s] = "none" /\ \A w \in Closers : closer[s][w] = "none"
      /\ pushes' = pushes
  BY <1>0 DEF Bind, BoundInv, sessBounds
<1>2. /\ closer' \in CloserType
      /\ \A r \in Sessions, v \in Closers :
            closer'[r][v] = IF r = o /\ v = "kick" /\ closer[r][v] = "none" THEN "want" ELSE closer[r][v]
  <2>1. CASE o = 0
    BY <1>0, <2>1, NoSession DEF Bind, SessTypeOK
  <2>2. CASE o # 0
    <3>1. closer' = Want(o, "kick") /\ o \in Sessions /\ "kick" \in Closers
      BY <1>0, <2>2 DEF Bind, Closers
    <3>2. QED
      BY <1>0, <3>1, WantStep
  <2>3. QED
    BY <2>1, <2>2
<1>3. SessTypeOK'
  BY <1>0, <1>1, <1>2 DEF SessTypeOK, ioVars
<1>4. o # 0 => o \in sessions /\ userOf[o] = u /\ o # s
  BY <1>0, <1>1 DEF TableInv
<1>5. BoundInv'
  <2> SUFFICES ASSUME NEW r \in Sessions
               PROVE  /\ userOf'[r] = NoUser => /\ r \notin sessions' /\ binder'[r] = "none"
                                                /\ \A w \in Closers : closer'[r][w] = "none"
                      /\ binder'[r] # "end" => sender'[r] = "none" /\ listener'[r] = "none"
    BY DEF BoundInv
  <2>1. CASE r = s
    BY <1>0, <1>1, <2>1 DEF BoundInv, ioVars, SessTypeOK
  <2>2. CASE r # s
    <3>1. userOf'[r] = userOf[r] /\ binder'[r] = binder[r] /\ (r \in sessions' <=> r \in sessions)
      BY <1>0, <1>1, <2>2 DEF SessTypeOK
    <3>2. userOf[r] = NoUser => r # o
      BY <1>0, <1>4, NoSession
    <3>3. QED
      BY <1>0, <1>1, <1>2, <3>1, <3>2 DEF BoundInv, ioVars
  <2>3. QED
    BY <2>1, <2>2
<1>6. TableInv'
  <2>1. ASSUME NEW v \in Users, uidMap'[v] # 0 PROVE uidMap'[v] \in sessions' /\ userOf'[uidMap'[v]] = v
    <3>1. CASE v = u
      BY <1>0, <1>1, <3>1 DEF SessTypeOK
    <3>2. CASE v # u
      BY <1>0, <1>1, <2>1, <3>2 DEF SessTypeOK, TableInv
    <3>3. QED
      BY <3>1, <3>2
  <2>2. ASSUME NEW r \in sessions', NEW w \in Closers PROVE closer'[r][w] \in {"none", "want"}
    <3>1. r \in Sessions /\ (r \in sessions \/ r = s)
      BY <1>0, <1>1, <2>2 DEF SessTypeOK
    <3>2. closer[r][w] \in {"none", "want"}
      BY <1>0, <1>1, <2>2, <3>1 DEF TableInv
    <3>3. QED
      BY <1>2, <2>2, <3>1, <3>2
  <2>3. ASSUME NEW r \in sessions', uidMap'[userOf'[r]] # r PROVE closer'[r]["kick"] = "want"
    <3>1. r # s
      BY <1>0, <1>1, <2>3 DEF SessTypeOK
    <3>2. r \in sessions /\ r \in Sessions /\ userOf'[r] = userOf[r] /\ userOf[r] \in Users /\ "kick" \in Closers
      BY <1>0, <1>1, <3>1 DEF SessTypeOK, BoundInv, Closers
    <3>3. closer[r]["kick"] \in {"none", "want"}
      BY <1>0, <3>2 DEF TableInv
    <3>4. CASE r = o
      BY <1>2, <3>2, <3>3, <3>4
    <3>5. CASE r # o
      <4>1. uidMap[userOf[r]] # r
        BY <1>0, <1>1, <2>3, <3>2, <3>5 DEF SessTypeOK
      <4>2. QED
        BY <1>0, <1>2, <3>2, <4>1 DEF TableInv
    <3>6. QED
      BY <3>4, <3>5
  <2>4. QED
    BY <2>1, <2>2, <2>3 DEF TableInv
<1>7. OwedInv'
  <2> SUFFICES ASSUME NEW r \in Sessions PROVE OwedAt(r)'
    BY DEF OwedInv
  <2>1. OwedAt(r) /\ OwedSame(r) /\ (r \in closedFlag' <=> r \in closedFlag)
    BY <1>0, <1>1 DEF OwedInv, OwedSame, ioVars
  <2>2. \A w \in Closers : closer'[r][w] = "wait" => closer[r][w] = "wait"
    BY <1>2
  <2>3. QED
    BY <2>1, <2>2, OwedKept
<1>8. QED
  BY <1>3, <1>5, <1>6, <1>7 DEF SessInv

\* A goroutine asks for a session to be closed: Kick, OnMessage, the reader, a failed OnConnect.
LEMMA WantKeeps ==
    ASSUME SessInv, NEW s \in Sessions, NEW w \in Closers, userOf[s] # NoUser,
           closer' = Want(s, w), UNCHANGED <<userOf, sessions, uidMap, closedFlag, sender, conn,
           sendQueue, rpc, sentTo, due>>, pushes' = pushes,
           binder' \in [Sessions -> {"none", "connect", "close", "start", "end"}],
           \A r \in Sessions : /\ binder'[r] # binder[r] => r = s /\ binder[s] # "end" /\ binder'[s] # "end"
                               /\ listener'[r] # listener[r] => r = s /\ listener[s] # "none",
           listener' \in [Sessions -> {"none", "run", "end"}]
    PROVE  SessInv'
<1>0. SessTypeOK /\ BoundInv /\ TableInv /\ OwedInv
  BY DEF SessInv
<1>1. /\ closer' \in CloserType
      /\ \A r \in Sessions, v \in Closers :
            closer'[r][v] = IF r = s /\ v = w /\ closer[s][w] = "none" THEN "want" ELSE closer[r][v]
  BY <1>0, WantStep
<1>2. SessTypeOK'
  BY <1>0, <1>1 DEF SessTypeOK
<1>3. BoundInv'
  <2> SUFFICES ASSUME NEW r \in Sessions
               PROVE  /\ userOf[r] = NoUser => /\ r \notin sessions /\ binder'[r] = "none"
                                               /\ \A v \in Closers : closer'[r][v] = "none"
                      /\ binder'[r] # "end" => sender[r] = "none" /\ listener'[r] = "none"
    BY DEF BoundInv
  <2>1. userOf[r] = NoUser => r # s
    OBVIOUS
  <2>2. QED
    BY <1>0, <1>1, <2>1 DEF BoundInv
<1>4. TableInv'
  <2>1. ASSUME NEW r \in sessions, NEW v \in Closers PROVE closer'[r][v] \in {"none", "want"}
    <3>1. r \in Sessions /\ closer[r][v] \in {"none", "want"}
      BY <1>0, <2>1 DEF TableInv, SessTypeOK
    <3>2. QED
      BY <1>1, <2>1, <3>1
  <2>2. \A r \in sessions : closer[r]["kick"] = "want" => closer'[r]["kick"] = "want"
    BY <1>0, <1>1 DEF SessTypeOK, Closers
  <2>3. QED
    BY <1>0, <2>1, <2>2 DEF TableInv
<1>5. OwedInv'
  <2> SUFFICES ASSUME NEW r \in Sessions PROVE OwedAt(r)'
    BY DEF OwedInv
  <2>1. OwedAt(r) /\ OwedSame(r)
    BY <1>0 DEF OwedInv, OwedSame
  <2>2. \A v \in Closers : closer'[r][v] = "wait" => closer[r][v] = "wait"
    BY <1>1
  <2>3. QED
    BY <2>1, <2>2, OwedKept
<1>6. QED
  BY <1>2, <1>3, <1>4, <1>5 DEF SessInv

\* Bind starts the goroutines of a session, once.
LEMMA StartKeeps ==
    ASSUME SessInv, NEW s \in Sessions, StartSession(s)
    PROVE  SessInv'
<1>0. SessTypeOK /\ BoundInv /\ TableInv /\ OwedInv
  BY DEF SessInv
<1>1. /\ binder[s] \in {"start", "close"} /\ binder' = [binder EXCEPT ![s] = "end"]
      /\ sender' = [sender EXCEPT ![s] = "run"] /\ listener' = [listener EXCEPT ![s] = "run"]
      /\ UNCHANGED <<userOf, sessions, uidMap, closer, closedFlag, sendQueue, conn, rpc, sentTo, due, pushes>>
  BY DEF StartSession, sessBounds
<1>2. SessTypeOK' /\ TableInv'
  BY <1>0, <1>1 DEF SessTypeOK, TableInv
<1>3. BoundInv'
  BY <1>0, <1>1 DEF BoundInv, SessTypeOK
<1>4. OwedInv'
  <2> SUFFICES ASSUME NEW r \in Sessions PROVE OwedAt(r)'
    BY DEF OwedInv
  <2>1. OwedAt(r) /\ sender[s] = "none"
    BY <1>0, <1>1 DEF OwedInv, BoundInv
  <2>2. CASE r = s
    <3>1. sender'[r] = "run"
      BY <1>0, <1>1, <2>2 DEF SessTypeOK
    <3>2. QED
      BY <1>1, <2>1, <2>2, <3>1 DEF OwedAt, Queued
  <2>3. CASE r # s
    BY <1>0, <1>1, <2>1, <2>3, OwedKept DEF OwedSame, SessTypeOK
  <2>4. QED
    BY <2>2, <2>3
<1>5. QED
  BY <1>2, <1>3, <1>4 DEF SessInv

\* closeSession takes the session out of both tables, or finds that it has gone.
LEMMA CloseKeeps ==
    ASSUME SessInv, NEW s \in Sessions, NEW w \in Closers, CloseSession(s, w)
    PROVE  SessInv'
<1>0. SessTypeOK /\ BoundInv /\ TableInv /\ OwedInv
  BY DEF SessInv
<1>1. /\ closer[s][w] = "want" /\ userOf[s] # NoUser /\ userOf[s] \in Users
      /\ UNCHANGED <<userOf, binder, sender, listener, sendQueue, conn, rpc, sentTo, pushes>>
      /\ due' = [due EXCEPT ![s] = IF s \in sessions /\ sender[s] = "none" THEN {} ELSE @]
  BY <1>0 DEF CloseSession, BoundInv, SessTypeOK, sessBounds
<1>2. PICK x \in {"wait", "end"} :
          /\ closer' = [closer EXCEPT ![s][w] = x]
          /\ x = "end" => s \notin sessions /\ UNCHANGED <<sessions, uidMap, closedFlag>>
          /\ x = "wait" => /\ s \in sessions /\ sessions' = sessions \ {s}
                           /\ closedFlag' = closedFlag \cup {s}
                           /\ uidMap' = [uidMap EXCEPT ![userOf[s]] = IF @ = s THEN 0 ELSE @]
  BY DEF CloseSession, MarkClosed, DropEntry
<1>3. /\ closer' \in CloserType
      /\ \A r \in Sessions, v \in Closers : closer'[r][v] = IF r = s /\ v = w THEN x ELSE closer[r][v]
  <2>1. x \in {"none", "want", "wait", "end"} /\ closer' = [closer EXCEPT ![s][w] = x]
    BY <1>2
  <2>2. QED
    BY <1>0, <2>1 DEF SessTypeOK, CloserType
<1>4. s \notin sessions' /\ sessions' \subseteq sessions /\ (\A r \in Sessions \ {s} : r \in sessions' <=> r \in sessions)
  BY <1>2
<1>5. SessTypeOK'
  <2>1. uidMap' \in [Users -> Sessions \cup {0}] /\ closedFlag' \subseteq Sessions /\ sessions' \subseteq Sessions
    BY <1>0, <1>2 DEF SessTypeOK
  <2>2. due' \in [Sessions -> SUBSET Nat]
    BY <1>0, <1>1 DEF SessTypeOK
  <2>3. QED
    BY <1>0, <1>1, <1>3, <2>1, <2>2 DEF SessTypeOK
<1>6. BoundInv'
  <2> SUFFICES ASSUME NEW r \in Sessions
               PROVE  /\ userOf[r] = NoUser => /\ r \notin sessions' /\ binder[r] = "none"
                                               /\ \A v \in Closers : closer'[r][v] = "none"
                      /\ binder[r] # "end" => sender[r] = "none" /\ listener[r] = "none"
    BY <1>1 DEF BoundInv
  <2>1. userOf[r] = NoUser => r # s
    BY <1>1
  <2>2. QED
    BY <1>0, <1>3, <1>4, <2>1 DEF BoundInv
<1>7. \A u \in Users : uidMap'[u] = uidMap[u] \/ (uidMap'[u] = 0 /\ uidMap[u] = s)
  BY <1>0, <1>2 DEF SessTypeOK
<1>8. TableInv'
  <2>1. ASSUME NEW u \in Users, uidMap'[u] # 0 PROVE uidMap'[u] \in sessions' /\ userOf'[uidMap'[u]] = u
    <3>1. uidMap'[u] = uidMap[u] /\ uidMap[u] \in sessions /\ userOf[uidMap[u]] = u /\ uidMap[u] \in Sessions
      BY <1>0, <1>7, <2>1, NoSession DEF TableInv, SessTypeOK
    <3>2. uidMap[u] # s
      <4> SUFFICES ASSUME uidMap[u] = s PROVE FALSE
        OBVIOUS
      <4>1. s \in sessions /\ userOf[s] = u
        BY <3>1
      <4>2. uidMap'[u] = 0
        BY <1>0, <1>2, <4>1 DEF SessTypeOK
      <4>3. QED
        BY <2>1, <4>2
    <3>3. QED
      BY <1>1, <1>4, <3>1, <3>2
  <2>2. ASSUME NEW r \in sessions'
        PROVE  /\ \A v \in Closers : closer'[r][v] \in {"none", "want"}
               /\ uidMap'[userOf'[r]] # r => closer'[r]["kick"] = "want"
    <3>1. r \in sessions /\ r \in Sessions /\ r # s /\ "kick" \in Closers
      BY <1>0, <1>4, <2>2 DEF SessTypeOK, Closers
    <3>2. \A v \in Closers : closer'[r][v] = closer[r][v]
      BY <1>3, <3>1
    <3>3. userOf[r] \in Users
      BY <1>0, <3>1 DEF BoundInv, SessTypeOK
    <3>4. uidMap'[userOf[r]] # r => uidMap[userOf[r]] # r
      BY <1>7, <3>1, <3>3
    <3>5. QED
      BY <1>0, <1>1, <3>1, <3>2, <3>4 DEF TableInv
  <2>3. QED
    BY <2>1, <2>2 DEF TableInv
<1>9. OwedInv'
  <2> SUFFICES ASSUME NEW r \in Sessions PROVE OwedAt(r)'
    BY DEF OwedInv
  <2>1. OwedAt(r)
    BY <1>0 DEF OwedInv
  <2>2. CASE r = s
    <3>1. due'[s] = (IF s \in sessions /\ sender[s] = "none" THEN {} ELSE due[s])
      BY <1>0, <1>1 DEF SessTypeOK
    <3>2. s \in closedFlag => s \in closedFlag'
      BY <1>2
    <3>3. x = "wait" => s \in closedFlag'
      BY <1>2
    <3>4. x = "end" => (s \in closedFlag' <=> s \in closedFlag)
      BY <1>2
    <3>5. \A v \in Closers : closer'[s][v] = "wait" => s \in closedFlag'
      BY <1>3, <2>1, <2>2, <3>2, <3>3 DEF OwedAt
    <3>6. s \in closedFlag' /\ sender[s] = "none" => due'[s] = {}
      <4>1. CASE x = "wait"
        BY <1>2, <3>1, <4>1
      <4>2. CASE x = "end"
        BY <1>2, <2>1, <2>2, <3>1, <3>4, <4>2 DEF OwedAt
      <4>3. QED
        BY <4>1, <4>2
    <3>7. QED
      BY <1>1, <2>1, <2>2, <3>1, <3>2, <3>5, <3>6 DEF OwedAt, Queued
  <2>3. CASE r # s
    <3>1. due'[r] = due[r] /\ (r \in closedFlag' <=> r \in closedFlag)
      BY <1>0, <1>1, <1>2, <2>3 DEF SessTypeOK
    <3>2. QED
      BY <1>1, <1>3, <2>1, <2>3, <3>1, OwedKept DEF OwedSame
  <2>4. QED
    BY <2>2, <2>3
<1>10. QED
  BY <1>5, <1>6, <1>8, <1>9 DEF SessInv

\* closeSession returns once the sender has gone.
LEMMA CloseEndsKeeps ==
    ASSUME SessInv, NEW s \in Sessions, NEW w \in Closers, CloseEnds(s, w)
    PROVE  SessInv'
<1>0. SessTypeOK /\ BoundInv /\ TableInv /\ OwedInv
  BY DEF SessInv
<1>1. /\ closer[s][w] = "wait" /\ sender[s] \in {"none", "done"}
      /\ conn' = [conn EXCEPT ![s] = "closed"] /\ closer' = [closer EXCEPT ![s][w] = "end"]
      /\ UNCHANGED <<userOf, sessions, uidMap, binder, closedFlag, sender, listener, sendQueue, rpc, sentTo, due, pushes>>
  BY DEF CloseEnds, SenderGone, sessBounds
<1>2. /\ closer' \in CloserType
      /\ \A r \in Sessions, v \in Closers : closer'[r][v] = IF r = s /\ v = w THEN "end" ELSE closer[r][v]
  BY <1>0, <1>1, CloserStep
<1>3. SessTypeOK'
  BY <1>0, <1>1, <1>2 DEF SessTypeOK
<1>4. s \notin sessions /\ userOf[s] # NoUser
  <2>1. s \in sessions => closer[s][w] \in {"none", "want"}
    BY <1>0 DEF TableInv
  <2>2. userOf[s] = NoUser => closer[s][w] = "none"
    BY <1>0 DEF BoundInv
  <2>3. QED
    BY <1>1, <2>1, <2>2
<1>5. BoundInv'
  <2> SUFFICES ASSUME NEW r \in Sessions
               PROVE  /\ userOf[r] = NoUser => /\ r \notin sessions /\ binder[r] = "none"
                                               /\ \A v \in Closers : closer'[r][v] = "none"
                      /\ binder[r] # "end" => sender[r] = "none" /\ listener[r] = "none"
    BY <1>1 DEF BoundInv
  <2>1. userOf[r] = NoUser => r # s
    BY <1>4
  <2>2. QED
    BY <1>0, <1>2, <2>1 DEF BoundInv
<1>6. TableInv'
  <2>1. ASSUME NEW r \in sessions, NEW v \in Closers PROVE closer'[r][v] = closer[r][v]
    BY <1>0, <1>2, <1>4, <2>1 DEF SessTypeOK
  <2>2. QED
    BY <1>0, <1>1, <2>1 DEF TableInv, Closers
<1>7. OwedInv'
  <2> SUFFICES ASSUME NEW r \in Sessions PROVE OwedAt(r)'
    BY DEF OwedInv
  <2>1. OwedAt(r)
    BY <1>0 DEF OwedInv
  <2>2. \A v \in Closers : closer'[r][v] = "wait" => closer[r][v] = "wait"
    BY <1>2
  <2>3. CASE r = s
    <3>1. conn'[r] = "closed" /\ r \in closedFlag
      BY <1>0, <1>1, <2>1, <2>3 DEF SessTypeOK, OwedAt
    <3>2. QED
      BY <1>1, <2>1, <2>2, <2>3, <3>1 DEF OwedAt, Queued
  <2>4. CASE r # s
    BY <1>0, <1>1, <2>1, <2>2, <2>4, OwedKept DEF OwedSame, SessTypeOK
  <2>5. QED
    BY <2>3, <2>4
<1>8. QED
  BY <1>3, <1>5, <1>6, <1>7 DEF SessInv

\* The steps that leave the tables alone: sending, an RPC, a hang-up.
LEMMA SendingKeeps ==
    ASSUME SessInv, UNCHANGED sessTables, UNCHANGED listener, SessTypeOK',
           NEW s \in Sessions, OwedAt(s)', \A r \in Sessions \ {s} : OwedSame(r),
           sender'[s] # sender[s] => sender[s] # "none"
    PROVE  SessInv'
<1>0. SessTypeOK /\ BoundInv /\ TableInv /\ OwedInv
  BY DEF SessInv
<1>1. UNCHANGED <<userOf, sessions, uidMap, binder, closer, closedFlag, listener>>
  BY DEF sessTables
<1>2. TableInv'
  BY <1>0, <1>1 DEF TableInv
<1>3. \A r \in Sessions : sender[r] = "none" => sender'[r] = "none"
  BY DEF OwedSame
<1>4. BoundInv'
  BY <1>0, <1>1, <1>3 DEF BoundInv
<1>5. ASSUME NEW r \in Sessions \ {s} PROVE OwedAt(r)'
  BY <1>0, <1>1, <1>5, OwedKept DEF OwedInv
<1>6. QED
  BY <1>2, <1>4, <1>5 DEF SessInv, OwedInv

\* GateSend: what is owed is queued.
LEMMA GateSendKeeps ==
    ASSUME SessInv, GateSend, NEW s \in Sessions, rpc = s
    PROVE  SessInv'
<1> DEFINE q == sendQueue[s]
           n == pushes + 1
<1>0. SessTypeOK /\ OwedInv
  BY DEF SessInv
<1>1. /\ q \in Seq(Nat) /\ n \in Nat /\ due[s] \subseteq Nat
      /\ UNCHANGED sessTables /\ UNCHANGED <<sender, listener, conn, sentTo>>
      /\ rpc' = 0 /\ pushes' = n /\ sendQueue' = [sendQueue EXCEPT ![s] = Append(q, n)]
      /\ due' = [due EXCEPT ![s] = IF s \in closedFlag \/ conn[s] # "open" THEN @ ELSE @ \cup {n}]
  BY <1>0 DEF GateSend, SessTypeOK
<1>2. SessTypeOK'
  <2>1. Append(q, n) \in Seq(Nat)
    BY <1>1
  <2>2. sendQueue' \in [Sessions -> Seq(Nat)] /\ due' \in [Sessions -> SUBSET Nat]
    BY <1>0, <1>1, <2>1 DEF SessTypeOK
  <2>3. QED
    BY <1>0, <1>1, <2>2 DEF SessTypeOK, sessTables
<1>3. OwedAt(s)'
  <2>1. OwedAt(s) /\ sendQueue'[s] = Append(q, n) /\ sendQueue'[s] # <<>>
    BY <1>0, <1>1 DEF OwedInv, SessTypeOK
  <2>2. Queued(s) \cup {n} \subseteq {sendQueue'[s][i] : i \in 1..Len(sendQueue'[s])}
    <3>1. /\ Len(Append(q, n)) = Len(q) + 1 /\ Len(q) \in Nat /\ Append(q, n)[Len(q) + 1] = n
          /\ \A i \in 1..Len(q) : Append(q, n)[i] = q[i]
      BY <1>1
    <3>2. QED
      BY <2>1, <3>1 DEF Queued
  <2>3. due'[s] = (IF s \in closedFlag \/ conn[s] # "open" THEN due[s] ELSE due[s] \cup {n})
    BY <1>0, <1>1 DEF SessTypeOK
  <2>4. due'[s] \subseteq sentTo[s] \cup Queued(s) \cup {n}
    BY <2>1, <2>3 DEF OwedAt
  <2>5. UNCHANGED <<closer, closedFlag>>
    BY <1>1 DEF sessTables
  <2>6. due'[s] \subseteq sentTo'[s] \cup Queued(s)'
    BY <1>1, <2>2, <2>4 DEF Queued
  <2>7. QED
    BY <1>1, <2>1, <2>3, <2>5, <2>6 DEF OwedAt
<1>4. \A r \in Sessions \ {s} : OwedSame(r)
  BY <1>0, <1>1 DEF OwedSame, SessTypeOK
<1>5. QED
  BY <1>1, <1>2, <1>3, <1>4, SendingKeeps

\* The steps of the sending goroutine.
LEMMA SenderKeeps ==
    ASSUME SessInv, NEW s \in Sessions,
           SenderPops(s) \/ SenderLeavesLoop(s) \/ SenderSends(s) \/ SenderDone(s)
    PROVE  SessInv'
<1> DEFINE q == sendQueue[s]
<1>0. SessTypeOK /\ OwedInv /\ OwedAt(s) /\ q \in Seq(Nat)
  BY DEF SessInv, OwedInv, SessTypeOK
<1>1. PICK to \in {"run", "send", "drain", "drainSend", "done"} :
          /\ UNCHANGED sessTables /\ UNCHANGED <<listener, conn, rpc, due, pushes>>
          /\ sender' = [sender EXCEPT ![s] = to] /\ sender[s] # "none"
  BY DEF SenderPops, SenderLeavesLoop, SenderSends, SenderDone, SenderStep, SenderRest, sessBounds
<1>2. UNCHANGED <<closer, closedFlag>>
  BY <1>1 DEF sessTables
<1>3. sender' \in [Sessions -> {"none", "run", "send", "drain", "drainSend", "done"}]
  BY <1>0, <1>1 DEF SessTypeOK
<1>4. CASE SenderPops(s) \/ SenderLeavesLoop(s) \/ SenderDone(s)
  <2>1. UNCHANGED <<sendQueue, sentTo>>
    BY <1>4 DEF SenderPops, SenderLeavesLoop, SenderDone
  <2>2. SessTypeOK'
    BY <1>0, <1>1, <1>3, <2>1 DEF SessTypeOK, sessTables
  <2>3. \/ sender'[s] = "send" /\ sender[s] = "run" /\ q # <<>>
        \/ sender'[s] = "drainSend" /\ sender[s] = "drain" /\ q # <<>>
        \/ sender'[s] = "drain" /\ sender[s] = "run" /\ s \in closedFlag
        \/ sender'[s] = "done" /\ sender[s] = "drain" /\ q = <<>>
    BY <1>0, <1>4 DEF SenderPops, SenderLeavesLoop, SenderDone, SenderStep, SessTypeOK
  <2>4. q = <<>> => due[s] \subseteq sentTo[s]
    BY <1>0 DEF OwedAt, Queued
  <2>5. OwedAt(s)'
    BY <1>0, <1>1, <1>2, <2>1, <2>3, <2>4 DEF OwedAt, Queued
  <2>6. \A r \in Sessions \ {s} : OwedSame(r)
    BY <1>0, <1>1, <2>1 DEF OwedSame, SessTypeOK
  <2>7. QED
    BY <1>1, <2>2, <2>5, <2>6, SendingKeeps
<1>5. CASE SenderSends(s)
  <2>1. /\ sendQueue' = [sendQueue EXCEPT ![s] = Tail(q)] /\ q # <<>>
        /\ sentTo' = [sentTo EXCEPT ![s] = IF conn[s] = "open" THEN @ \cup {Head(q)} ELSE @]
    BY <1>0, <1>5 DEF SenderSends, OwedAt
  <2>2. /\ Tail(q) \in Seq(Nat) /\ Head(q) \in Nat /\ Head(q) = q[1] /\ Len(Tail(q)) = Len(q) - 1
        /\ \A i \in 1..Len(Tail(q)) : Tail(q)[i] = q[i + 1]
        /\ Len(q) \in Nat \ {0}
    BY <1>0, <2>1
  <2>3. sendQueue' \in [Sessions -> Seq(Nat)] /\ sentTo' \in [Sessions -> SUBSET Nat]
    BY <1>0, <2>1, <2>2 DEF SessTypeOK
  <2>4. SessTypeOK'
    BY <1>0, <1>1, <1>3, <2>3 DEF SessTypeOK, sessTables
  <2>5. \/ sender'[s] = "run" /\ sender[s] = "send"
        \/ sender'[s] = (IF conn[s] = "open" THEN "drain" ELSE "done") /\ sender[s] = "drainSend"
    BY <1>0, <1>5 DEF SenderSends, SenderStep, SessTypeOK
  <2>6. Queued(s) \subseteq {Head(q)} \cup Queued(s)'
    <3>1. sendQueue'[s] = Tail(q)
      BY <1>0, <2>1 DEF SessTypeOK
    <3>2. ASSUME NEW i \in 1..Len(q), i # 1 PROVE q[i] = Tail(q)[i - 1] /\ i - 1 \in 1..Len(Tail(q))
      <4>1. i - 1 \in 1..Len(Tail(q)) /\ (i - 1) + 1 = i
        BY <2>2, <3>2
      <4>2. QED
        BY <2>2, <4>1
    <3>3. QED
      BY <2>2, <3>1, <3>2 DEF Queued
  <2>7. CASE conn[s] = "open"
    <3>1. sentTo'[s] = sentTo[s] \cup {Head(q)}
      BY <1>0, <2>1, <2>7 DEF SessTypeOK
    <3>2. due[s] \subseteq sentTo'[s] \cup Queued(s)'
      BY <1>0, <2>6, <3>1 DEF OwedAt
    <3>3. QED
      <4>1. OwedAt(s)'
        BY <1>0, <1>1, <1>2, <2>5, <2>7, <3>2 DEF OwedAt
      <4>2. \A r \in Sessions \ {s} : OwedSame(r)
        BY <1>0, <1>1, <2>1 DEF OwedSame, SessTypeOK
      <4>3. QED
        BY <1>1, <2>4, <4>1, <4>2, SendingKeeps
  <2>8. CASE conn[s] # "open"
    <3>1. due[s] = {}
      BY <1>0, <2>5, <2>8 DEF OwedAt, SessTypeOK
    <3>2. OwedAt(s)'
      BY <1>0, <1>1, <1>2, <2>5, <2>8, <3>1 DEF OwedAt
    <3>3. \A r \in Sessions \ {s} : OwedSame(r)
      BY <1>0, <1>1, <2>1 DEF OwedSame, SessTypeOK
    <3>4. QED
      BY <1>1, <2>4, <3>2, <3>3, SendingKeeps
  <2>9. QED
    BY <2>7, <2>8
<1>6. QED
  BY <1>4, <1>5

\* A user who hangs up is owed nothing; looking a session up and a broadcast queue nothing.
LEMMA OthersKeep ==
    ASSUME SessInv, NEW s \in Sessions, HangUp(s) \/ RpcLookup(s) \/ Broadcast(s)
    PROVE  SessInv'
<1>0. SessTypeOK /\ OwedInv /\ OwedAt(s)
  BY DEF SessInv, OwedInv
<1>1. /\ UNCHANGED sessTables /\ UNCHANGED <<sender, listener, sendQueue, sentTo>>
      /\ rpc' \in Sessions \cup {0} /\ pushes' \in Nat
  BY <1>0 DEF HangUp, RpcLookup, Broadcast, SessTypeOK, sessBounds
<1>2. \/ UNCHANGED <<conn, due>>
      \/ conn[s] = "open" /\ conn' = [conn EXCEPT ![s] = "cut"] /\ due' = [due EXCEPT ![s] = {}]
  BY DEF HangUp, RpcLookup, Broadcast
<1>3. conn' \in [Sessions -> {"open", "cut", "closed"}] /\ due' \in [Sessions -> SUBSET Nat]
  BY <1>0, <1>2 DEF SessTypeOK
<1>4. SessTypeOK'
  BY <1>0, <1>1, <1>3 DEF SessTypeOK, sessTables
<1>5. (due'[s] = due[s] /\ conn'[s] = conn[s]) \/ (due'[s] = {} /\ conn'[s] = "cut")
  BY <1>0, <1>2 DEF SessTypeOK
<1>6. UNCHANGED <<closer, closedFlag>>
  BY <1>1 DEF sessTables
<1>7. OwedAt(s)'
  BY <1>0, <1>1, <1>5, <1>6 DEF OwedAt, Queued
<1>8. \A r \in Sessions \ {s} : OwedSame(r)
  BY <1>0, <1>1, <1>2 DEF OwedSame, SessTypeOK
<1>9. QED
  BY <1>1, <1>4, <1>7, <1>8, SendingKeeps

\* Kick, KickByUid, OnMessage, ListenEnds and Connected ask for a session to be closed.
LEMMA AskersKeep ==
    ASSUME SessInv, NEW s \in Sessions,
           \/ Kick(s) \/ OnMessage(s) \/ ListenEnds(s) \/ (\E ok \in BOOLEAN : Connected(s, ok))
           \/ \E u \in Users : uidMap[u] = s /\ KickByUid(u)
    PROVE  SessInv'
<1>0. SessTypeOK /\ BoundInv /\ TableInv /\ OwedInv
  BY DEF SessInv
<1>1. s \in sessions => userOf[s] # NoUser
  BY <1>0 DEF BoundInv
<1>2. binder[s] # "none" => userOf[s] # NoUser
  BY <1>0 DEF BoundInv
<1>3. CASE Kick(s) \/ OnMessage(s) \/ \E u \in Users : uidMap[u] = s /\ KickByUid(u)
  <2>1. PICK w \in Closers : closer' = Want(s, w)
    BY <1>3 DEF Kick, OnMessage, KickByUid, Closers
  <2>2. s \in sessions /\ UNCHANGED <<userOf, sessions, uidMap, closedFlag, binder, pushes>> /\ UNCHANGED ioVars
    BY <1>3 DEF Kick, OnMessage, KickByUid
  <2>3. QED
    BY <1>0, <1>1, <2>1, <2>2, WantKeeps DEF ioVars, SessTypeOK
<1>4. CASE ListenEnds(s)
  <2>1. /\ closer' = Want(s, "listen") /\ "listen" \in Closers /\ listener[s] = "run"
        /\ listener' = [listener EXCEPT ![s] = "end"]
        /\ UNCHANGED <<userOf, sessions, uidMap, closedFlag, binder, sender, sendQueue, conn, rpc, sentTo, due, pushes>>
    BY <1>4 DEF ListenEnds, Closers, sessBounds
  <2>2. userOf[s] # NoUser
    BY <1>0, <2>1 DEF BoundInv
  <2>3. listener' \in [Sessions -> {"none", "run", "end"}] /\ \A r \in Sessions : listener'[r] # listener[r] => r = s
    BY <1>0, <2>1 DEF SessTypeOK
  <2>4. QED
    BY <1>0, <2>1, <2>2, <2>3, WantKeeps DEF SessTypeOK
<1>5. ASSUME NEW ok \in BOOLEAN, Connected(s, ok) PROVE SessInv'
  <2>1. /\ binder[s] = "connect" /\ userOf[s] # NoUser /\ UNCHANGED ioVars
        /\ UNCHANGED <<userOf, sessions, uidMap, closedFlag, pushes>>
        /\ \E x \in {"start", "close"} : binder' = [binder EXCEPT ![s] = x]
    BY <1>2, <1>5 DEF Connected, sessBounds
  <2>2. /\ binder' \in [Sessions -> {"none", "connect", "close", "start", "end"}]
        /\ \A r \in Sessions : binder'[r] # binder[r] => r = s /\ binder[s] # "end" /\ binder'[s] # "end"
        /\ \A r \in Sessions : binder'[r] = "end" <=> binder[r] = "end"
        /\ \A r \in Sessions : userOf[r] = NoUser => binder'[r] = binder[r]
    BY <1>0, <2>1 DEF SessTypeOK
  <2>3. CASE ~ok
    <3>1. closer' = Want(s, "bind") /\ "bind" \in Closers
      BY <1>5, <2>3 DEF Connected, Closers
    <3>2. QED
      BY <1>0, <2>1, <2>2, <3>1, WantKeeps DEF ioVars, SessTypeOK
  <2>4. CASE ok
    <3>1. closer' = closer
      BY <1>5, <2>4 DEF Connected
    <3>2. SessTypeOK' /\ TableInv'
      BY <1>0, <2>1, <2>2, <3>1 DEF SessTypeOK, TableInv, ioVars
    <3>3. BoundInv'
      BY <1>0, <2>1, <2>2, <3>1 DEF BoundInv, ioVars
    <3>4. OwedInv'
      BY <1>0, <2>1, <3>1, OwedKept DEF OwedInv, OwedSame, ioVars
    <3>5. QED
      BY <3>2, <3>3, <3>4 DEF SessInv
  <2>5. QED
    BY <2>3, <2>4
<1>6. QED
  BY <1>3, <1>4, <1>5

\* Every step keeps the invariant.
LEMMA SessStepInv == SessInv /\ [SessNext]_sessVars => SessInv'
<1> SUFFICES ASSUME SessInv, [SessNext]_sessVars PROVE SessInv'
  OBVIOUS
<1>1. ASSUME NEW u \in Users, KickByUid(u) PROVE SessInv'
  <2>1. uidMap[u] \in Sessions
    BY <1>1, NoSession DEF KickByUid, SessInv, SessTypeOK
  <2>2. QED
    BY <1>1, <2>1, AskersKeep
<1>2. ASSUME NEW s \in Sessions, SessionStep(s) PROVE SessInv'
  BY <1>2, StartKeeps, AskersKeep, SenderKeeps DEF SessionStep
<1>3. ASSUME NEW s \in Sessions, Kick(s) \/ OnMessage(s) \/ RpcLookup(s) \/ Broadcast(s) \/ HangUp(s)
      PROVE  SessInv'
  BY <1>3, AskersKeep, OthersKeep
<1>4. CASE UNCHANGED sessVars
  <2>1. UNCHANGED <<userOf, sessions, uidMap, binder, closer, closedFlag, sender, listener, sendQueue,
                    conn, rpc, sentTo, due, pushes>>
    BY <1>4 DEF sessVars, sessTables, ioVars, sessBounds
  <2>2. SessTypeOK' /\ BoundInv' /\ TableInv'
    BY <2>1 DEF SessInv, SessTypeOK, BoundInv, TableInv
  <2>3. OwedInv'
    BY <2>1, OwedKept DEF SessInv, OwedInv, OwedSame
  <2>4. QED
    BY <2>2, <2>3 DEF SessInv
<1>5. CASE GateSend
  BY <1>5, GateSendKeeps DEF GateSend, SessInv, SessTypeOK
<1>6. QED
  BY <1>1, <1>2, <1>3, <1>4, <1>5, BindKeeps, CloseKeeps, CloseEndsKeeps DEF SessNext

\* The invariant says what the run checks.
LEMMA SessInvSound == SessInv => SessionsSound
<1> SUFFICES ASSUME SessInv PROVE UserSessionExact /\ SentBeforeClose
  BY DEF SessionsSound
<1>1. SessTypeOK /\ BoundInv /\ TableInv /\ OwedInv
  BY DEF SessInv
<1>2. SentBeforeClose
  BY <1>1 DEF SentBeforeClose, OwedInv, OwedAt
<1>3. ASSUME NEW u \in Users,
             \A s \in Sessions : userOf[s] = u => \A w \in Closers : closer[s][w] \in {"none", "end"}
      PROVE  {s \in sessions : userOf[s] = u} = {uidMap[u]} \ {0}
  <2>1. ASSUME NEW s \in sessions, userOf[s] = u PROVE uidMap[u] = s /\ s # 0
    <3>1. s \in Sessions /\ closer[s]["kick"] # "want"
      BY <1>1, <1>3, <2>1 DEF SessTypeOK, Closers
    <3>2. QED
      BY <1>1, <2>1, <3>1, NoSession DEF TableInv
  <2>2. uidMap[u] # 0 => uidMap[u] \in sessions /\ userOf[uidMap[u]] = u
    BY <1>1 DEF TableInv
  <2>3. QED
    BY <2>1, <2>2
<1>4. QED
  BY <1>2, <1>3 DEF UserSessionExact

\* However users reconnect, are kicked, hang up and are written to, the tables hold a user's newest
\* session, and a connection is closed after what was queued for it has been sent
\* (session_mgr.go Bind, closeSession; session.go Close, StartSender).
THEOREM SessionsSoundHolds == SessSpec => []SessionsSound
  BY SessInitInv, SessStepInv, SessInvSound, PTL DEF SessSpec

(***************************************************************************)
(* The network connections. The invariant NetInv says of every connection  *)
(* what its channel, its socket and its goroutine owe each other:          *)
(*   QueueSound   what waits in writeChan is the rest of what was queued   *)
(*                and a nil, or a closed channel, comes only after Close   *)
(*   SocketSound  a socket is gone only if the connection is broken or its *)
(*                writer has left its loop                                 *)
(*   AgentSound   whom a server's WaitGroup counts and a client's slot     *)
(*                holds, at every step of the goroutine                    *)
(***************************************************************************)
Sockets == {"none", "open", "cut", "closed"}
Writers == {"none", "recv", "write", "shut", "sweep", "end"}
Agents == {"none", "add", "admit", "launch", "run", "close", "unlist", "onClose", "end", "panic"}

NetTypeOK ==
    /\ netKind \in {"tcp", "ws", "kcp"} /\ netSide \in {"server", "client"} /\ netCalls \in Nat
    /\ netState \in {"run", "listener", "wait", "closed"}
    /\ sock \in [NetConns -> Sockets] /\ writer \in [NetConns -> Writers] /\ agent \in [NetConns -> Agents]
    /\ dialer \in [Slots -> Int]
    /\ chan \in [NetConns -> Seq(Nat)] /\ queued \in [NetConns -> Seq(Nat)] /\ wire \in [NetConns -> Seq(Nat)]

\* Every length WriteMsg accepts fits the header, unless the server is a KCPServer.
FramesKept ==
    /\ FramesSound
    /\ netKind = "ws" => framed = {} /\ framing = {}
    /\ \A f \in framing : f[2] \in NetMsgs /\ LenOf[f[2]] \in MinMsgLen..limits.maxLen
    /\ netKind # "ws" /\ ~KCPServer => limits.maxLen \in Int /\ limits.maxLen <= LargestLen

\* The nil of Close waits in the channel; before it wait Waiters(c) messages.
Shown(c) == chan[c] # <<>> /\ chan[c][Len(chan[c])] = Nil
Waiters(c) == IF Shown(c) THEN Len(chan[c]) - 1 ELSE Len(chan[c])

QueueSound(c) ==
    /\ \A k \in 1..Len(queued[c]) : queued[c][k] # Nil
    /\ Len(wire[c]) <= Len(queued[c]) /\ \A k \in 1..Len(wire[c]) : wire[c][k] = queued[c][k]
    /\ c \in shut \/ Shown(c) => c \in closeFlag
    /\ writer[c] \in {"none", "recv", "write"} =>
         /\ Len(queued[c]) = Len(wire[c]) + Waiters(c)
         /\ \A k \in 1..Waiters(c) : chan[c][k] = queued[c][Len(wire[c]) + k]
    /\ writer[c] = "write" => wire[c] # <<>>
    /\ writer[c] \in {"shut", "sweep", "end"} /\ c \notin broken =>
         c \in closeFlag /\ Len(wire[c]) = Len(queued[c])

SocketSound(c) ==
    /\ sock[c] = "cut" => c \in broken
    /\ sock[c] = "closed" /\ c \notin broken => writer[c] \in {"sweep", "end"}
    /\ sock[c] = "none" => agent[c] = "none"
    /\ agent[c] \in {"none", "add", "admit", "launch"} => writer[c] = "none"

AgentSound(c) ==
    /\ agent[c] = "add" => NetServer /\ netKind = "ws"
    /\ NetServer /\ netKind # "ws" /\ NetClosing => agent[c] \notin {"admit", "launch"}
    /\ NetServer /\ agent[c] \in {"run", "close", "unlist", "onClose"} => c \in wg
    /\ NetServer /\ netKind = "ws" /\ agent[c] \in {"admit", "launch"} => c \in wg
    /\ ~NetServer /\ agent[c] \notin {"none", "end"} => \E s \in Slots : dialer[s] = c

WholeSound ==
    /\ NetClosing => connSet = {}
    /\ netState = "closed" /\ ~NetServer => \A s \in Slots : dialer[s] = Done
    /\ CloseComplete

NetInv ==
    /\ NetTypeOK /\ FramesKept /\ WholeSound
    /\ \A c \in NetConns : QueueSound(c) /\ SocketSound(c) /\ AgentSound(c)

LEMMA FirstOfNaturals ==
    ASSUME NEW S \in SUBSET Nat, S # {}
    PROVE  Min(S) \in S
<1> DEFINE R == {ss \in Nat \X Nat : ss[1] < ss[2]}
<1>1. IsWellFoundedOn(R, Nat)
  BY NatLessThanWellFounded DEF OpToRel
<1>2. PICK m \in S : \A y \in S : ~(<<y, m>> \in R)
  BY <1>1, WFMin
<1>3. \A y \in S : m =< y
  <2> TAKE y \in S
  <2>1. y \in Nat /\ m \in Nat /\ ~(y < m)
    BY <1>2
  <2>2. QED
    BY <2>1
<1>4. QED
  BY <1>3 DEF Min

\* The lesser of a length and the largest one is no greater than either.
LEMMA AtMostLargest ==
    ASSUME NEW a \in Int
    PROVE  /\ LargestLen \in Nat
           /\ Min({a, LargestLen}) \in Int /\ Min({a, LargestLen}) <= LargestLen
<1>1. LargestLen \in Nat
  BY NetworkAssumption DEF LargestLen
<1> DEFINE b == LargestLen
           m == Min({a, b})
<1>2. \E x \in {a, b} : \A y \in {a, b} : x <= y
  <2>1. b \in Int
    BY <1>1
  <2> HIDE DEF b
  <2>2. CASE a <= b
    <3>1. \A y \in {a, b} : a <= y
      BY <2>1, <2>2
    <3>2. QED
      BY <3>1
  <2>3. CASE b <= a
    <3>1. \A y \in {a, b} : b <= y
      BY <2>1, <2>3
    <3>2. QED
      BY <3>1
  <2>4. QED
    BY <2>1, <2>2, <2>3
<1>3. m \in {a, b} /\ \A y \in {a, b} : m <= y
  BY <1>2 DEF Min
<1>4. QED
  BY <1>1, <1>3

\* The header holds a length that is at most the largest.
LEMMA HeaderHolds ==
    ASSUME NEW len \in Nat, len <= LargestLen
    PROVE  Header(len) = len
<1>1. CASE LenMsgLen = 1
  BY <1>1 DEF Header, LargestLen
<1>2. CASE LenMsgLen = 2
  BY <1>2 DEF Header, LargestLen
<1>3. CASE LenMsgLen = 4
  BY <1>3 DEF Header, LargestLen
<1>4. QED
  BY <1>1, <1>2, <1>3, NetworkAssumption

LEMMA NetConnsNat == NetConns \subseteq Nat \ {0}
<1>1. Cardinality(NetConns) \in Nat
  BY NetworkAssumption, FS_CardinalityType
<1>2. QED
  BY <1>1, NetworkAssumption

(***************************************************************************)
(* What a step does to one connection c.                                   *)
(***************************************************************************)
\* Nothing is queued, taken or written; the connection may be marked, broken or shut.
QueueKept(c) ==
    /\ chan'[c] = chan[c] /\ queued'[c] = queued[c] /\ wire'[c] = wire[c]
    /\ writer'[c] = writer[c] \/ (writer[c] = "none" /\ writer'[c] = "recv")
    /\ (c \in closeFlag => c \in closeFlag') /\ (c \in broken => c \in broken')
    /\ (c \in shut' => c \in shut \/ c \in closeFlag')

NilQueued(c) ==
    /\ c \notin closeFlag /\ chan'[c] = Append(chan[c], Nil) /\ queued'[c] = queued[c] /\ wire'[c] = wire[c]
    /\ c \in closeFlag' /\ (c \in broken' => c \in broken) /\ (c \in broken => c \in broken')

MessageQueued(c) ==
    /\ c \notin closeFlag /\ \E n \in Nat \ {Nil} :
         chan'[c] = Append(chan[c], n) /\ queued'[c] = Append(queued[c], n)
    /\ wire'[c] = wire[c] /\ writer'[c] = writer[c]
    /\ (c \in closeFlag' <=> c \in closeFlag) /\ (c \in broken' <=> c \in broken) /\ (c \in shut' <=> c \in shut)

LEMMA AppendFacts ==
    ASSUME NEW s \in Seq(Nat), NEW n \in Nat
    PROVE  /\ Append(s, n) \in Seq(Nat) /\ Len(Append(s, n)) = Len(s) + 1 /\ Append(s, n) # <<>>
           /\ Append(s, n)[Len(s) + 1] = n /\ \A k \in 1..Len(s) : Append(s, n)[k] = s[k]
OBVIOUS

LEMMA QueueKeptSound ==
    ASSUME NetTypeOK, NEW c \in NetConns, QueueSound(c), QueueKept(c)
    PROVE  QueueSound(c)'
<1>1. Shown(c)' = Shown(c) /\ Waiters(c)' = Waiters(c)
  BY DEF QueueKept, Shown, Waiters
<1>2. QED
  BY <1>1 DEF QueueSound, QueueKept

\* Close queues its nil: the messages that wait before it are the same.
LEMMA NilQueuedSound ==
    ASSUME NetTypeOK, NEW c \in NetConns, QueueSound(c), NilQueued(c),
           writer'[c] = writer[c] \/ (writer[c] = "none" /\ writer'[c] = "recv")
    PROVE  QueueSound(c)'
<1> DEFINE q == chan[c]
           r == chan'[c]
<1>1. q \in Seq(Nat) /\ r = Append(q, Nil)
  BY DEF NetTypeOK, NilQueued
<1>2. Len(r) = Len(q) + 1 /\ r[Len(q) + 1] = Nil /\ r # <<>> /\ (\A k \in 1..Len(q) : r[k] = q[k])
  BY <1>1 DEF Nil
<1>3. ~Shown(c) /\ Waiters(c) = Len(q)
  BY DEF QueueSound, NilQueued, Waiters
<1>4. Shown(c)' /\ Waiters(c)' = Len(q)
  BY <1>1, <1>2 DEF Shown, Waiters
<1>5. writer'[c] \in {"none", "recv", "write"} => writer[c] \in {"none", "recv", "write"}
  BY DEF NetTypeOK
<1> HIDE DEF q, r
<1>6. writer'[c] \in {"none", "recv", "write"} =>
         /\ Len(queued'[c]) = Len(wire'[c]) + Waiters(c)'
         /\ \A k \in 1..Waiters(c)' : chan'[c][k] = queued'[c][Len(wire'[c]) + k]
  BY <1>1, <1>2, <1>3, <1>4, <1>5 DEF QueueSound, NilQueued, q, r
<1>7. /\ \A k \in 1..Len(queued'[c]) : queued'[c][k] # Nil
      /\ Len(wire'[c]) <= Len(queued'[c]) /\ \A k \in 1..Len(wire'[c]) : wire'[c][k] = queued'[c][k]
      /\ writer'[c] = "write" => wire'[c] # <<>>
      /\ writer'[c] \in {"shut", "sweep", "end"} /\ c \notin broken' =>
           c \in closeFlag' /\ Len(wire'[c]) = Len(queued'[c])
      /\ c \in closeFlag'
  BY DEF QueueSound, NilQueued
<1>8. QED
  BY <1>6, <1>7 DEF QueueSound

\* A message queued joins the end of both.
LEMMA MessageQueuedSound ==
    ASSUME NetTypeOK, NEW c \in NetConns, QueueSound(c), MessageQueued(c)
    PROVE  QueueSound(c)'
<1> DEFINE q == chan[c]
           r == chan'[c]
           h == queued[c]
           i == queued'[c]
           w == wire[c]
<1>1. PICK n \in Nat \ {Nil} : r = Append(q, n) /\ i = Append(h, n)
  BY DEF MessageQueued
<1>2. q \in Seq(Nat) /\ h \in Seq(Nat) /\ w \in Seq(Nat) /\ wire'[c] = w
  BY DEF NetTypeOK, MessageQueued
<1>3. Len(r) = Len(q) + 1 /\ r[Len(q) + 1] = n /\ r # <<>> /\ (\A k \in 1..Len(q) : r[k] = q[k])
  <2> HIDE DEF q, r, h, i, w
  <2>1. QED
    BY <1>1, <1>2, AppendFacts
<1>4. Len(i) = Len(h) + 1 /\ i[Len(h) + 1] = n /\ (\A k \in 1..Len(h) : i[k] = h[k])
  <2> HIDE DEF q, r, h, i, w
  <2>1. QED
    BY <1>1, <1>2, AppendFacts
<1>5. ~Shown(c) /\ Waiters(c) = Len(q)
  BY DEF QueueSound, MessageQueued, Waiters
<1>6. ~Shown(c)' /\ Waiters(c)' = Len(q) + 1
  BY <1>3 DEF Shown, Waiters, Nil
<1>7. \A k \in 1..Len(i) : i[k] # Nil
  <2>1. \A k \in 1..Len(h) : h[k] # Nil
    BY DEF QueueSound
  <2> HIDE DEF q, r, h, i, w
  <2>2. QED
    BY <1>1, <1>2, <1>4, <2>1
<1>8. Len(w) <= Len(i) /\ \A k \in 1..Len(w) : w[k] = i[k]
  <2>1. Len(w) <= Len(h) /\ \A k \in 1..Len(w) : w[k] = h[k]
    BY DEF QueueSound
  <2> HIDE DEF q, r, h, i, w
  <2>2. QED
    BY <1>2, <1>4, <2>1
<1>9. ASSUME writer[c] \in {"none", "recv", "write"}
      PROVE  /\ Len(i) = Len(w) + (Len(q) + 1)
             /\ \A k \in 1..(Len(q) + 1) : r[k] = i[Len(w) + k]
  <2>1. Len(h) = Len(w) + Len(q) /\ \A k \in 1..Len(q) : q[k] = h[Len(w) + k]
    BY <1>5, <1>9 DEF QueueSound
  <2> HIDE DEF q, r, h, i, w
  <2>2. Len(q) \in Nat /\ Len(w) \in Nat /\ Len(h) \in Nat
    BY <1>2
  <2>3. ASSUME NEW k \in 1..(Len(q) + 1)
        PROVE  r[k] = i[Len(w) + k]
    <3>1. CASE k = Len(q) + 1
      <4>1. Len(w) + k = Len(h) + 1
        BY <2>1, <2>2, <3>1
      <4>2. QED
        BY <1>3, <1>4, <3>1, <4>1
    <3>2. CASE k # Len(q) + 1
      <4>1. k \in 1..Len(q) /\ Len(w) + k \in 1..Len(h)
        BY <2>1, <2>2, <3>2
      <4>2. QED
        BY <1>3, <1>4, <2>1, <4>1
    <3>3. QED
      BY <3>1, <3>2
  <2>4. QED
    BY <1>4, <2>1, <2>2, <2>3
<1>10. writer'[c] = writer[c] /\ wire'[c] = w /\ c \notin closeFlag /\ c \notin shut'
  BY <1>5 DEF MessageQueued, QueueSound
<1>11. writer'[c] \in {"none", "recv", "write"} =>
         /\ Len(queued'[c]) = Len(wire'[c]) + Waiters(c)'
         /\ \A k \in 1..Waiters(c)' : chan'[c][k] = queued'[c][Len(wire'[c]) + k]
  <2> HAVE writer'[c] \in {"none", "recv", "write"}
  <2>1. Len(q) \in Nat /\ Len(w) \in Nat
    BY <1>2
  <2>2. /\ Len(i) = Len(w) + (Len(q) + 1)
        /\ \A k \in 1..(Len(q) + 1) : r[k] = i[Len(w) + k]
    BY <1>9, <1>10
  <2>3. QED
    BY <1>6, <1>10, <2>2
<1>12. /\ writer'[c] = "write" => wire'[c] # <<>>
       /\ ~(writer'[c] \in {"shut", "sweep", "end"} /\ c \notin broken')
  BY <1>10 DEF QueueSound, MessageQueued
<1>13. QED
  BY <1>6, <1>7, <1>8, <1>10, <1>11, <1>12 DEF QueueSound

LEMMA TailFacts ==
    ASSUME NEW s \in Seq(Nat), s # <<>>
    PROVE  /\ Tail(s) \in Seq(Nat) /\ Len(Tail(s)) = Len(s) - 1
           /\ (\A k \in 1..Len(Tail(s)) : Tail(s)[k] = s[k + 1]) /\ (Tail(s) = <<>> <=> Len(s) = 1)
<1> DEFINE t == Tail(s)
<1>1. t \in Seq(Nat) /\ Len(t) = Len(s) - 1 /\ \A k \in 1..(Len(s) - 1) : t[k] = s[k + 1]
  OBVIOUS
<1> HIDE DEF t
<1>2. t = <<>> <=> Len(t) = 0
  BY <1>1, EmptySeq
<1>3. Len(s) \in Nat
  OBVIOUS
<1>4. Len(t) = Len(s) - 1 /\ (\A k \in 1..Len(t) : t[k] = s[k + 1])
  BY <1>1
<1>5. t = <<>> <=> Len(s) = 1
  BY <1>1, <1>2, <1>3
<1>6. QED
  BY <1>1, <1>4, <1>5 DEF t

\* The writer takes the head: the nil, the end of a closed channel, or the next message.
LEMMA WriterRecvSound ==
    ASSUME NetTypeOK, NEW c \in NetConns, QueueSound(c), WriterRecv(c)
    PROVE  QueueSound(c)'
<1> DEFINE q == chan[c]
           r == chan'[c]
           h == queued[c]
           w == wire[c]
           v == wire'[c]
<1>1. /\ q \in Seq(Nat) /\ h \in Seq(Nat) /\ w \in Seq(Nat) /\ queued'[c] = h
      /\ r = (IF q = <<>> THEN q ELSE Tail(q)) /\ shut' = shut /\ closeFlag' = closeFlag /\ broken' = broken
      /\ (q # <<>> \/ c \in shut) /\ writer[c] = "recv"
  BY DEF NetTypeOK, WriterRecv, sockVars
<1>2. /\ Len(h) = Len(w) + Waiters(c) /\ \A k \in 1..Waiters(c) : q[k] = h[Len(w) + k]
      /\ \A k \in 1..Len(h) : h[k] # Nil
      /\ Len(w) <= Len(h) /\ \A k \in 1..Len(w) : w[k] = h[k]
      /\ (c \in shut \/ Shown(c) => c \in closeFlag)
  BY <1>1 DEF QueueSound
<1>3. Waiters(c) = (IF q # <<>> /\ q[Len(q)] = Nil THEN Len(q) - 1 ELSE Len(q))
      /\ (Shown(c) <=> q # <<>> /\ q[Len(q)] = Nil)
  BY DEF Waiters, Shown
<1>4. /\ Waiters(c)' = (IF r # <<>> /\ r[Len(r)] = Nil THEN Len(r) - 1 ELSE Len(r))
      /\ (Shown(c)' <=> r # <<>> /\ r[Len(r)] = Nil)
  BY DEF Waiters, Shown
<1>5. CASE q = <<>> \/ Head(q) = Nil
  <2>1. v = w /\ writer'[c] = "shut"
    BY <1>5 DEF WriterRecv, NetTypeOK
  <2> HIDE DEF q, r, h, w, v
  <2>2. Len(q) \in Nat /\ Len(w) \in Nat /\ Len(h) \in Nat /\ (q # <<>> => Len(q) > 0 /\ Head(q) = q[1])
    BY <1>1
  <2>3. (Shown(c) /\ Len(q) = 1) \/ q = <<>>
    <3> SUFFICES ASSUME q # <<>>, ~(Shown(c) /\ Len(q) = 1) PROVE FALSE
      OBVIOUS
    <3>1. q[1] = Nil /\ Len(q) > 0
      BY <1>5, <2>2
    <3>2. Waiters(c) >= 1 /\ Waiters(c) \in Nat
      <4>1. Waiters(c) = IF Shown(c) THEN Len(q) - 1 ELSE Len(q)
        BY <1>3
      <4>2. Len(q) = 1 => Shown(c)
        BY <1>3, <3>1
      <4>3. Shown(c) => Len(q) > 1
        BY <2>2, <3>1
      <4>4. QED
        BY <2>2, <3>1, <4>1, <4>2, <4>3
    <3>3. h[Len(w) + 1] = Nil /\ Len(w) + 1 \in 1..Len(h)
      BY <1>2, <2>2, <3>1, <3>2
    <3>4. QED
      BY <1>2, <3>3
  <2>4. Waiters(c) = 0 /\ r = <<>> /\ c \in closeFlag
    <3>1. CASE q = <<>>
      BY <1>1, <1>2, <1>3, <3>1
    <3>2. CASE q # <<>> /\ Shown(c) /\ Len(q) = 1
      <4>1. r = Tail(q) /\ Tail(q) \in Seq(Nat) /\ Len(Tail(q)) = 0
        BY <1>1, <3>2
      <4>2. QED
        BY <1>2, <1>3, <3>2, <4>1
    <3>3. QED
      BY <2>3, <3>1, <3>2
  <2>5. ~Shown(c)'
    BY <1>4, <2>4
  <2>6. Len(w) = Len(h)
    BY <1>2, <2>2, <2>4
  <2>7. QED
    BY <1>1, <1>2, <2>1, <2>4, <2>5, <2>6 DEF QueueSound, q, r, h, w, v
<1>6. CASE q # <<>> /\ Head(q) # Nil
  <2>1. v = Append(w, Head(q)) /\ writer'[c] = "write"
    BY <1>6 DEF WriterRecv, NetTypeOK
  <2> HIDE DEF q, r, h, w, v
  <2>2. Len(q) \in Nat \ {0} /\ Len(w) \in Nat /\ Len(h) \in Nat /\ Head(q) = q[1] /\ q[1] \in Nat
    BY <1>1, <1>6
  <2>3. r \in Seq(Nat) /\ Len(r) = Len(q) - 1 /\ (\A k \in 1..Len(r) : r[k] = q[k + 1]) /\ (r = <<>> <=> Len(q) = 1)
    <3>1. r = Tail(q)
      BY <1>1, <1>6
    <3>2. q \in Seq(Nat) /\ q # <<>>
      BY <1>1, <1>6
    <3>3. QED
      BY <3>1, <3>2, TailFacts
  <2>4. v \in Seq(Nat) /\ Len(v) = Len(w) + 1 /\ v # <<>> /\ v[Len(w) + 1] = q[1] /\ \A k \in 1..Len(w) : v[k] = w[k]
    BY <1>1, <2>1, <2>2, AppendFacts
  <2>5. Waiters(c) \in Nat \ {0}
    BY <1>3, <1>6, <2>2
  <2>6. (Shown(c)' <=> Shown(c)) /\ Waiters(c)' = Waiters(c) - 1
    <3>1. CASE Len(q) = 1
      BY <1>3, <1>4, <1>6, <2>2, <2>3, <3>1
    <3>2. CASE Len(q) # 1
      <4>1. Len(r) \in 1..Len(r) /\ r[Len(r)] = q[Len(q)]
        BY <2>2, <2>3, <3>2
      <4>2. QED
        BY <1>3, <1>4, <1>6, <2>2, <2>3, <3>2, <4>1
    <3>3. QED
      BY <3>1, <3>2
  <2>7. q[1] = h[Len(w) + 1] /\ Len(v) <= Len(h)
    BY <1>2, <2>2, <2>4, <2>5
  <2>8. \A k \in 1..Len(v) : v[k] = h[k]
    <3> TAKE k \in 1..Len(v)
    <3>1. k \in 1..Len(w) \/ k = Len(w) + 1
      BY <2>2, <2>4
    <3>2. QED
      BY <1>2, <2>4, <2>7, <3>1
  <2>9. Len(h) = Len(v) + Waiters(c)'
    BY <1>2, <2>2, <2>4, <2>5, <2>6
  <2>10. \A k \in 1..Waiters(c)' : r[k] = h[Len(v) + k]
    <3> TAKE k \in 1..Waiters(c)'
    <3> DEFINE n == Waiters(c)
    <3>1. n \in Nat \ {0} /\ n <= Len(q) /\ k \in 1..(n - 1)
      BY <1>3, <2>2, <2>5, <2>6
    <3> HIDE DEF n
    <3>2. k + 1 \in 1..n /\ k \in 1..(Len(q) - 1)
      BY <2>2, <3>1
    <3>3. Len(w) + (k + 1) = Len(v) + k
      BY <2>2, <2>4, <3>1
    <3>4. k + 1 \in 1..Waiters(c) /\ k \in 1..Len(r)
      BY <2>3, <3>2 DEF n
    <3>5. QED
      BY <1>2, <2>3, <3>3, <3>4
  <2>11. QED
    BY <1>1, <1>2, <2>1, <2>4, <2>6, <2>7, <2>8, <2>9, <2>10 DEF QueueSound, q, r, h, w, v
<1>7. QED
  BY <1>5, <1>6

\* A failed write takes its message back, on a connection that is broken.
LEMMA WriterFailsSound ==
    ASSUME NetTypeOK, NEW c \in NetConns, QueueSound(c), SocketSound(c), WriterFails(c)
    PROVE  QueueSound(c)'
<1> DEFINE w == wire[c]
           v == wire'[c]
           h == queued[c]
<1>1. /\ w \in Seq(Nat) /\ h \in Seq(Nat) /\ w # <<>> /\ v = Front(w) /\ writer'[c] = "shut"
      /\ chan' = chan /\ queued' = queued /\ shut' = shut /\ closeFlag' = closeFlag
  BY DEF NetTypeOK, WriterFails, QueueSound, chanVars
<1>2. c \in broken'
  <2>1. CASE sock[c] = "open"
    BY <2>1 DEF WriterFails
  <2>2. CASE sock[c] # "open"
    BY <2>2 DEF WriterFails, SocketSound, NetTypeOK, Sockets
  <2>3. QED
    BY <2>1, <2>2
<1>3. /\ \A k \in 1..Len(h) : h[k] # Nil
      /\ Len(w) <= Len(h) /\ \A k \in 1..Len(w) : w[k] = h[k]
      /\ (c \in shut \/ Shown(c) => c \in closeFlag)
  BY DEF QueueSound
<1>4. Shown(c)' = Shown(c)
  BY <1>1 DEF Shown
<1> HIDE DEF w, v, h
<1>5. Len(v) = Len(w) - 1 /\ \A k \in 1..(Len(w) - 1) : v[k] = w[k]
  <2> DEFINE n == Len(w) - 1
  <2>1. n \in Nat /\ v = SubSeq(w, 1, n) /\ n <= Len(w)
    BY <1>1 DEF Front
  <2> HIDE DEF n
  <2>2. Len(v) = n /\ \A k \in 1..n : v[k] = w[k]
    BY <1>1, <2>1
  <2>3. QED
    BY <2>2 DEF n
<1>6. Len(v) <= Len(h) /\ \A k \in 1..Len(v) : v[k] = h[k]
  <2>1. Len(w) \in Nat /\ Len(h) \in Nat
    BY <1>1
  <2>2. QED
    BY <1>3, <1>5, <2>1
<1>7. QED
  BY <1>1, <1>2, <1>3, <1>4, <1>6 DEF QueueSound, w, v, h

LEMMA WriterMovesSound ==
    ASSUME NetTypeOK, NEW c \in NetConns, QueueSound(c), WriterWrites(c) \/ WriterShuts(c) \/ WriterSweeps(c)
    PROVE  QueueSound(c)'
<1>1. CASE WriterWrites(c)
  <2>1. Shown(c)' = Shown(c) /\ Waiters(c)' = Waiters(c) /\ writer'[c] = "recv" /\ writer[c] = "write"
    BY <1>1 DEF WriterWrites, chanVars, Shown, Waiters, NetTypeOK
  <2>2. QED
    BY <1>1, <2>1 DEF QueueSound, WriterWrites, chanVars, sockVars
<1>2. CASE WriterShuts(c)
  <2>1. Shown(c)' = Shown(c) /\ writer'[c] = "sweep" /\ writer[c] = "shut"
    BY <1>2 DEF WriterShuts, chanVars, Shown, NetTypeOK
  <2>2. QED
    BY <1>2, <2>1 DEF QueueSound, WriterShuts, chanVars
<1>3. CASE WriterSweeps(c)
  <2>1. writer'[c] = "end" /\ writer[c] = "sweep" /\ c \in closeFlag'
    BY <1>3 DEF WriterSweeps, NetTypeOK
  <2>2. QED
    BY <1>3, <2>1 DEF QueueSound, WriterSweeps, sockVars
<1>4. QED
  BY <1>1, <1>2, <1>3

(***************************************************************************)
(* The types.                                                              *)
(***************************************************************************)
LEMMA EffectTypes ==
    ASSUME NetTypeOK, NEW c \in NetConns
    PROVE  /\ doDestroy(c) => sock' \in [NetConns -> Sockets] /\ chan' = chan /\ queued' = queued
           /\ CloseConn(c) => sock' \in [NetConns -> Sockets] /\ chan' \in [NetConns -> Seq(Nat)] /\ queued' = queued
           /\ CountCall /\ doWrite(c) => /\ sock' \in [NetConns -> Sockets] /\ chan' \in [NetConns -> Seq(Nat)]
                                         /\ queued' \in [NetConns -> Seq(Nat)]
<1>1. doDestroy(c) => sock' \in [NetConns -> Sockets] /\ chan' = chan /\ queued' = queued
  BY DEF doDestroy, NetTypeOK, Sockets
<1>2. CloseConn(c) => sock' \in [NetConns -> Sockets] /\ chan' \in [NetConns -> Seq(Nat)] /\ queued' = queued
  <2>1. Append(chan[c], Nil) \in Seq(Nat)
    BY DEF NetTypeOK, Nil
  <2>2. QED
    BY <1>1, <2>1 DEF CloseConn, NetTypeOK, sockVars, chanVars
<1>3. CountCall /\ doWrite(c) => /\ sock' \in [NetConns -> Sockets] /\ chan' \in [NetConns -> Seq(Nat)]
                                 /\ queued' \in [NetConns -> Seq(Nat)]
  <2> SUFFICES ASSUME CountCall, doWrite(c)
               PROVE  /\ sock' \in [NetConns -> Sockets] /\ chan' \in [NetConns -> Seq(Nat)]
                      /\ queued' \in [NetConns -> Seq(Nat)]
    OBVIOUS
  <2>1. netCalls' \in Nat
    BY DEF CountCall, NetTypeOK
  <2>2. Append(chan[c], netCalls') \in Seq(Nat) /\ Append(queued[c], netCalls') \in Seq(Nat)
    BY <2>1 DEF NetTypeOK
  <2>3. CASE doDestroy(c)
    BY <1>1, <2>3 DEF NetTypeOK
  <2>4. CASE ~doDestroy(c)
    BY <2>2, <2>4 DEF doWrite, NetTypeOK, sockVars
  <2>5. QED
    BY <2>3, <2>4
<1>4. QED
  BY <1>1, <1>2, <1>3

LEMMA OpenTypes ==
    ASSUME NetTypeOK, NEW c \in NetConns, NEW step \in Agents, Open(c, step)
    PROVE  sock' \in [NetConns -> Sockets] /\ agent' \in [NetConns -> Agents] /\ agent[c] = "none"
<1> DEFINE S == {d \in NetConns : agent[d] = "none"}
<1>1. S \in SUBSET Nat /\ S # {} /\ c = Min(S)
  BY NetConnsNat DEF Open, Waiting
<1> HIDE DEF S
<1>2. c \in S
  BY <1>1, FirstOfNaturals
<1>3. agent[c] = "none"
  BY <1>2 DEF S
<1>4. QED
  BY <1>3 DEF Open, GoTo, NetTypeOK, Sockets

LEMMA WriterTypes ==
    ASSUME NetTypeOK, NEW c \in NetConns, QueueSound(c),
           WriterRecv(c) \/ WriterWrites(c) \/ WriterFails(c) \/ WriterShuts(c) \/ WriterSweeps(c)
    PROVE  NetTypeOK'
<1>1. CASE WriterRecv(c)
  <2>1. chan[c] \in Seq(Nat) /\ wire[c] \in Seq(Nat)
    BY DEF NetTypeOK
  <2>2. chan[c] # <<>> => Tail(chan[c]) \in Seq(Nat) /\ Append(wire[c], Head(chan[c])) \in Seq(Nat)
    BY <2>1
  <2>3. chan' \in [NetConns -> Seq(Nat)]
    BY <1>1, <2>1, <2>2 DEF WriterRecv, NetTypeOK
  <2>4. wire' \in [NetConns -> Seq(Nat)] /\ writer' \in [NetConns -> Writers]
    BY <1>1, <2>2 DEF WriterRecv, NetTypeOK, Writers
  <2>5. QED
    BY <1>1, <2>3, <2>4 DEF WriterRecv, NetTypeOK, confVars, agentVars, sockVars
<1>2. CASE WriterFails(c)
  <2>1. wire[c] \in Seq(Nat) /\ wire[c] # <<>>
    BY <1>2 DEF NetTypeOK, WriterFails, QueueSound
  <2>2. Front(wire[c]) \in Seq(Nat)
    <3> DEFINE n == Len(wire[c]) - 1
    <3>1. n \in Nat /\ n <= Len(wire[c]) /\ Front(wire[c]) = SubSeq(wire[c], 1, n)
      BY <2>1 DEF Front
    <3> HIDE DEF n
    <3>2. QED
      BY <2>1, <3>1
  <2>3. wire' \in [NetConns -> Seq(Nat)] /\ writer' \in [NetConns -> Writers]
    BY <1>2, <2>2 DEF WriterFails, NetTypeOK, Writers
  <2>4. QED
    BY <1>2, <2>3 DEF WriterFails, NetTypeOK, confVars, agentVars, chanVars
<1>3. CASE WriterWrites(c)
  BY <1>3 DEF WriterWrites, NetTypeOK, Writers, confVars, agentVars, chanVars, sockVars
<1>4. CASE WriterShuts(c)
  BY <1>4 DEF WriterShuts, NetTypeOK, Writers, Sockets, confVars, agentVars, chanVars
<1>5. CASE WriterSweeps(c)
  <2>1. <<>> \in Seq(Nat)
    OBVIOUS
  <2>2. chan' \in [NetConns -> Seq(Nat)] /\ writer' \in [NetConns -> Writers]
    BY <1>5, <2>1 DEF WriterSweeps, NetTypeOK, Writers
  <2>3. QED
    BY <1>5, <2>2 DEF WriterSweeps, NetTypeOK, confVars, agentVars, sockVars
<1>6. QED
  BY <1>1, <1>2, <1>3, <1>4, <1>5

LEMMA LeaveTypes ==
    ASSUME NetTypeOK, NEW c \in NetConns, Leave(c)
    PROVE  agent' \in [NetConns -> Agents] /\ dialer' \in [Slots -> Int]
BY DEF Leave, GoTo, NetTypeOK, Agents, Dialing, Done

LEMMA CallTypes ==
    ASSUME NetTypeOK, NEW c \in NetConns,
           \/ Destroy(c) \/ AgentCloses(c) \/ Write(c) \/ PeerCuts(c)
           \/ \E m \in NetMsgs : WSWriteMsg(c, m) \/ WriteMsg(c, m) \/ WriteFrame(c, m)
    PROVE  NetTypeOK'
<1>1. CASE Destroy(c)
  BY <1>1, EffectTypes DEF Destroy, CountCall, NetTypeOK, confVars, agentVars
<1>2. CASE AgentCloses(c)
  BY <1>2, EffectTypes DEF AgentCloses, CountCall, NetTypeOK, confVars, agentVars
<1>3. CASE Write(c) \/ \E m \in NetMsgs : WSWriteMsg(c, m)
  <2>1. CountCall /\ doWrite(c) /\ UNCHANGED <<confVars, agentVars, writer, wire, frameVars, cuts>>
    BY <1>3 DEF Write, WSWriteMsg
  <2>2. QED
    BY <2>1, EffectTypes DEF CountCall, NetTypeOK, confVars, agentVars
<1>4. CASE \E m \in NetMsgs : WriteMsg(c, m) \/ WriteFrame(c, m)
  BY <1>4 DEF WriteMsg, WriteFrame, CountCall, NetTypeOK, confVars, agentVars, sockVars, chanVars
<1>5. CASE PeerCuts(c)
  BY <1>5 DEF PeerCuts, NetTypeOK, Sockets, confVars, agentVars, chanVars
<1>6. QED
  BY <1>1, <1>2, <1>3, <1>4, <1>5

LEMMA AgentTypes ==
    ASSUME NetTypeOK, NEW c \in NetConns,
           \/ Accept(c) \/ RunEnds(c) \/ AddHandler(c) \/ Admit(c) \/ Launch(c) \/ LaunchNoAgent(c)
           \/ CloseAfterRun(c) \/ Unlist(c) \/ OnClose(c) \/ \E s \in Slots : Dial(s, c)
    PROVE  NetTypeOK'
<1>1. CASE Accept(c)
  <2>1. PICK step \in Agents : Open(c, step)
    BY <1>1 DEF Accept, Agents
  <2>2. QED
    BY <1>1, <2>1, OpenTypes DEF Accept, NetTypeOK, confVars, chanVars
<1>2. CASE \E s \in Slots : Dial(s, c)
  <2>1. Open(c, "admit") /\ dialer' \in [Slots -> Int]
    BY <1>2, NetConnsNat DEF Dial, NetTypeOK
  <2>2. "admit" \in Agents
    BY DEF Agents
  <2>3. sock' \in [NetConns -> Sockets] /\ agent' \in [NetConns -> Agents]
    BY <2>1, <2>2, OpenTypes
  <2>4. QED
    BY <1>2, <2>1, <2>3 DEF Dial, NetTypeOK, confVars, chanVars
<1>3. CASE RunEnds(c) \/ AddHandler(c) \/ Unlist(c)
  BY <1>3 DEF RunEnds, AddHandler, Unlist, GoTo, NetTypeOK, Agents, confVars, chanVars, sockVars
<1>4. CASE Admit(c)
  <2>1. agent' \in [NetConns -> Agents] /\ dialer' \in [Slots -> Int]
    BY <1>4, LeaveTypes DEF Admit, GoTo, NetTypeOK, Agents
  <2>2. sock' \in [NetConns -> Sockets]
    BY <1>4 DEF Admit, Drop, NetTypeOK, Sockets, sockVars
  <2>3. QED
    BY <1>4, <2>1, <2>2 DEF Admit, NetTypeOK, confVars, chanVars
<1>5. CASE Launch(c)
  BY <1>5 DEF Launch, GoTo, NetTypeOK, Agents, Writers, confVars, chanVars, sockVars
<1>6. CASE LaunchNoAgent(c)
  <2>1. writer' \in [NetConns -> Writers]
    BY <1>6 DEF LaunchNoAgent, NetTypeOK, Writers
  <2>2. QED
    BY <1>6, <2>1, EffectTypes, LeaveTypes DEF LaunchNoAgent, NetTypeOK, confVars
<1>7. CASE CloseAfterRun(c)
  <2>1. agent' \in [NetConns -> Agents]
    BY <1>7 DEF CloseAfterRun, GoTo, NetTypeOK, Agents
  <2>2. sock' \in [NetConns -> Sockets] /\ chan' \in [NetConns -> Seq(Nat)] /\ queued' \in [NetConns -> Seq(Nat)]
    <3>1. CASE KCPServer
      BY <1>7, <3>1 DEF CloseAfterRun, Drop, NetTypeOK, Sockets, chanVars
    <3>2. CASE ~KCPServer
      BY <1>7, <3>2, EffectTypes DEF CloseAfterRun, NetTypeOK
    <3>3. QED
      BY <3>1, <3>2
  <2>3. QED
    BY <1>7, <2>1, <2>2 DEF CloseAfterRun, NetTypeOK, confVars
<1>8. CASE OnClose(c)
  BY <1>8, LeaveTypes DEF OnClose, NetTypeOK, confVars, chanVars, sockVars
<1>9. QED
  BY <1>1, <1>2, <1>3, <1>4, <1>5, <1>6, <1>7, <1>8

LEMMA WholeTypes ==
    ASSUME NetTypeOK, (\E s \in Slots : DialFails(s)) \/ CloseListener \/ DropAll \/ WaitConns
    PROVE  NetTypeOK'
<1>1. CASE \E s \in Slots : DialFails(s)
  BY <1>1 DEF DialFails, NetTypeOK, Done, Panicked, confVars, chanVars, sockVars
<1>2. CASE CloseListener
  BY <1>2 DEF CloseListener, NetTypeOK, confVars, chanVars, sockVars
<1>3. CASE DropAll
  BY <1>3 DEF DropAll, NetTypeOK, Sockets, confVars, chanVars
<1>4. CASE WaitConns
  BY <1>4 DEF WaitConns, NetTypeOK, confVars, chanVars, sockVars
<1>5. QED
  BY <1>1, <1>2, <1>3, <1>4

(***************************************************************************)
(* Connections other than the one of the step.                             *)
(***************************************************************************)
Untouched(d) ==
    /\ QueueKept(d) /\ writer'[d] = writer[d] /\ sock'[d] = sock[d] /\ agent'[d] = agent[d]

CallOn(c) ==
    \/ Destroy(c) \/ AgentCloses(c) \/ Write(c) \/ PeerCuts(c)
    \/ \E m \in NetMsgs : WSWriteMsg(c, m) \/ WriteMsg(c, m) \/ WriteFrame(c, m)
WriterOf(c) == WriterRecv(c) \/ WriterWrites(c) \/ WriterFails(c) \/ WriterShuts(c) \/ WriterSweeps(c)
GoroutineOf(c) ==
    \/ Accept(c) \/ RunEnds(c) \/ AddHandler(c) \/ Admit(c) \/ Launch(c) \/ LaunchNoAgent(c)
    \/ CloseAfterRun(c) \/ Unlist(c) \/ OnClose(c) \/ \E s \in Slots : Dial(s, c)

LEMMA UntouchedSound ==
    ASSUME NetTypeOK, NEW d \in NetConns, QueueSound(d), SocketSound(d), Untouched(d)
    PROVE  QueueSound(d)' /\ SocketSound(d)'
<1>1. QueueSound(d)'
  BY QueueKeptSound DEF Untouched
<1>2. SocketSound(d)'
  BY DEF Untouched, QueueKept, SocketSound
<1>3. QED
  BY <1>1, <1>2

LEMMA EffectsApart ==
    ASSUME NetTypeOK, NEW c \in NetConns, NEW d \in NetConns, d # c, doDestroy(c) \/ CloseConn(c) \/ doWrite(c)
    PROVE  /\ chan'[d] = chan[d] /\ queued'[d] = queued[d] /\ sock'[d] = sock[d]
           /\ (d \in closeFlag => d \in closeFlag') /\ (d \in broken => d \in broken')
           /\ (d \in shut' => d \in shut)
<1>1. CASE doDestroy(c)
  BY <1>1 DEF doDestroy, NetTypeOK
<1>2. CASE CloseConn(c) /\ ~doDestroy(c)
  BY <1>2 DEF CloseConn, NetTypeOK, sockVars, chanVars
<1>3. CASE doWrite(c) /\ ~doDestroy(c)
  BY <1>3 DEF doWrite, NetTypeOK, sockVars
<1>4. QED
  BY <1>1, <1>2, <1>3

LEMMA CallApart ==
    ASSUME NetTypeOK, NEW c \in NetConns, NEW d \in NetConns, d # c, CallOn(c)
    PROVE  Untouched(d)
<1>1. CASE Destroy(c)
  <2>1. doDestroy(c) /\ wire' = wire /\ writer' = writer /\ agent' = agent
    BY <1>1 DEF Destroy, agentVars
  <2>2. QED
    BY <2>1, EffectsApart DEF Untouched, QueueKept
<1>2. CASE AgentCloses(c)
  <2>1. CloseConn(c) /\ wire' = wire /\ writer' = writer /\ agent' = agent
    BY <1>2 DEF AgentCloses, agentVars
  <2>2. QED
    BY <2>1, EffectsApart DEF Untouched, QueueKept
<1>3. CASE Write(c) \/ \E m \in NetMsgs : WSWriteMsg(c, m)
  <2>1. doWrite(c) /\ wire' = wire /\ writer' = writer /\ agent' = agent
    BY <1>3 DEF Write, WSWriteMsg, agentVars
  <2>2. QED
    BY <2>1, EffectsApart DEF Untouched, QueueKept
<1>4. CASE \E m \in NetMsgs : WriteMsg(c, m) \/ WriteFrame(c, m)
  BY <1>4 DEF WriteMsg, WriteFrame, Untouched, QueueKept, agentVars, sockVars, chanVars
<1>5. CASE PeerCuts(c)
  BY <1>5 DEF PeerCuts, NetTypeOK, Untouched, QueueKept, agentVars, chanVars
<1>6. QED
  BY <1>1, <1>2, <1>3, <1>4, <1>5 DEF CallOn

LEMMA WriterApart ==
    ASSUME NetTypeOK, NEW c \in NetConns, NEW d \in NetConns, d # c, WriterOf(c)
    PROVE  Untouched(d)
<1>1. CASE WriterRecv(c)
  <2>1. wire'[d] = wire[d] /\ chan'[d] = chan[d] /\ writer'[d] = writer[d]
    BY <1>1 DEF WriterRecv, NetTypeOK
  <2>2. QED
    BY <1>1, <2>1 DEF WriterRecv, Untouched, QueueKept, agentVars, sockVars
<1>2. CASE WriterWrites(c)
  BY <1>2 DEF WriterWrites, NetTypeOK, Untouched, QueueKept, agentVars, sockVars, chanVars
<1>3. CASE WriterFails(c)
  <2>1. wire'[d] = wire[d] /\ writer'[d] = writer[d] /\ (d \in broken => d \in broken')
    BY <1>3 DEF WriterFails, NetTypeOK
  <2>2. QED
    BY <1>3, <2>1 DEF WriterFails, Untouched, QueueKept, agentVars, chanVars
<1>4. CASE WriterShuts(c)
  BY <1>4 DEF WriterShuts, NetTypeOK, Untouched, QueueKept, agentVars, chanVars
<1>5. CASE WriterSweeps(c)
  BY <1>5 DEF WriterSweeps, NetTypeOK, Untouched, QueueKept, agentVars, sockVars
<1>6. QED
  BY <1>1, <1>2, <1>3, <1>4, <1>5 DEF WriterOf

LEMMA GoroutineApart ==
    ASSUME NetTypeOK, NEW c \in NetConns, NEW d \in NetConns, d # c, GoroutineOf(c)
    PROVE  Untouched(d)
<1>1. CASE Accept(c)
  <2>1. PICK step : Open(c, step)
    BY <1>1 DEF Accept
  <2>2. QED
    BY <1>1, <2>1 DEF Accept, Open, GoTo, NetTypeOK, Untouched, QueueKept, chanVars
<1>2. CASE \E s \in Slots : Dial(s, c)
  BY <1>2 DEF Dial, Open, GoTo, NetTypeOK, Untouched, QueueKept, chanVars
<1>3. CASE RunEnds(c) \/ AddHandler(c) \/ Unlist(c)
  BY <1>3 DEF RunEnds, AddHandler, Unlist, GoTo, NetTypeOK, Untouched, QueueKept, chanVars, sockVars
<1>4. CASE Admit(c)
  <2>1. agent'[d] = agent[d]
    BY <1>4 DEF Admit, Leave, GoTo, NetTypeOK
  <2>2. sock'[d] = sock[d] /\ (d \in broken => d \in broken')
    BY <1>4 DEF Admit, Drop, NetTypeOK, sockVars
  <2>3. QED
    BY <1>4, <2>1, <2>2 DEF Admit, Untouched, QueueKept, chanVars
<1>5. CASE Launch(c)
  BY <1>5 DEF Launch, GoTo, NetTypeOK, Untouched, QueueKept, chanVars, sockVars
<1>6. CASE LaunchNoAgent(c)
  <2>1. agent'[d] = agent[d] /\ writer'[d] = writer[d] /\ wire' = wire /\ CloseConn(c)
    BY <1>6 DEF LaunchNoAgent, Leave, GoTo, NetTypeOK
  <2>2. QED
    BY <2>1, EffectsApart DEF Untouched, QueueKept
<1>7. CASE CloseAfterRun(c)
  <2>1. agent'[d] = agent[d] /\ writer' = writer /\ wire' = wire
    BY <1>7 DEF CloseAfterRun, GoTo, NetTypeOK
  <2>2. CASE KCPServer
    BY <1>7, <2>1, <2>2 DEF CloseAfterRun, Drop, NetTypeOK, Untouched, QueueKept, chanVars
  <2>3. CASE ~KCPServer
    <3>1. CloseConn(c)
      BY <1>7, <2>3 DEF CloseAfterRun
    <3>2. QED
      BY <2>1, <3>1, EffectsApart DEF Untouched, QueueKept
  <2>4. QED
    BY <2>2, <2>3
<1>8. CASE OnClose(c)
  BY <1>8 DEF OnClose, Leave, GoTo, NetTypeOK, Untouched, QueueKept, chanVars, sockVars
<1>9. QED
  BY <1>1, <1>2, <1>3, <1>4, <1>5, <1>6, <1>7, <1>8 DEF GoroutineOf

(***************************************************************************)
(* The connection of the step.                                             *)
(***************************************************************************)
LEMMA CallQueue ==
    ASSUME NetTypeOK, NEW c \in NetConns, QueueSound(c), CallOn(c)
    PROVE  QueueSound(c)'
<1>1. CASE Destroy(c)
  <2>1. QueueKept(c)
    BY <1>1 DEF Destroy, doDestroy, QueueKept
  <2>2. QED
    BY <2>1, QueueKeptSound
<1>2. CASE AgentCloses(c)
  <2>1. QueueKept(c) \/ NilQueued(c)
    BY <1>2 DEF AgentCloses, CloseConn, doDestroy, QueueKept, NilQueued, NetTypeOK, sockVars, chanVars
  <2>2. writer' = writer
    BY <1>2 DEF AgentCloses
  <2>3. QED
    BY <2>1, <2>2, QueueKeptSound, NilQueuedSound
<1>3. CASE Write(c) \/ \E m \in NetMsgs : WSWriteMsg(c, m)
  <2>1. CountCall /\ doWrite(c) /\ c \notin closeFlag /\ wire' = wire /\ writer' = writer
    BY <1>3 DEF Write, WSWriteMsg
  <2>2. netCalls' \in Nat \ {Nil}
    BY <2>1 DEF CountCall, NetTypeOK, Nil
  <2>3. CASE doDestroy(c)
    <3>1. QueueKept(c)
      BY <2>1, <2>3 DEF doDestroy, QueueKept
    <3>2. QED
      BY <3>1, QueueKeptSound
  <2>4. CASE ~doDestroy(c)
    <3>1. chan'[c] = Append(chan[c], netCalls') /\ queued'[c] = Append(queued[c], netCalls')
      BY <2>1, <2>4 DEF doWrite, NetTypeOK
    <3>2. closeFlag' = closeFlag /\ broken' = broken /\ shut' = shut
      BY <2>1, <2>4 DEF doWrite, sockVars
    <3>3. MessageQueued(c)
      BY <2>1, <2>2, <3>1, <3>2 DEF MessageQueued
    <3>4. QED
      BY <3>3, MessageQueuedSound
  <2>5. QED
    BY <2>3, <2>4
<1>4. CASE \E m \in NetMsgs : WriteMsg(c, m) \/ WriteFrame(c, m)
  <2>1. QueueKept(c)
    BY <1>4 DEF WriteMsg, WriteFrame, QueueKept, sockVars, chanVars
  <2>2. QED
    BY <2>1, QueueKeptSound
<1>5. CASE PeerCuts(c)
  <2>1. QueueKept(c)
    BY <1>5 DEF PeerCuts, QueueKept, chanVars
  <2>2. QED
    BY <2>1, QueueKeptSound
<1>6. QED
  BY <1>1, <1>2, <1>3, <1>4, <1>5 DEF CallOn

LEMMA CloseConnQueue ==
    ASSUME NetTypeOK, NEW c \in NetConns, CloseConn(c), wire' = wire,
           writer'[c] = writer[c] \/ (writer[c] = "none" /\ writer'[c] = "recv")
    PROVE  QueueKept(c) \/ NilQueued(c)
BY DEF CloseConn, doDestroy, QueueKept, NilQueued, NetTypeOK, sockVars, chanVars

LEMMA GoroutineQueue ==
    ASSUME NetTypeOK, NEW c \in NetConns, QueueSound(c), SocketSound(c), GoroutineOf(c)
    PROVE  QueueSound(c)'
<1>1. CASE Accept(c)
  <2>1. QueueKept(c)
    BY <1>1 DEF Accept, Open, QueueKept, chanVars
  <2>2. QED
    BY <2>1, QueueKeptSound
<1>2. CASE \E s \in Slots : Dial(s, c)
  <2>1. QueueKept(c)
    BY <1>2 DEF Dial, Open, QueueKept, chanVars
  <2>2. QED
    BY <2>1, QueueKeptSound
<1>3. CASE RunEnds(c) \/ AddHandler(c) \/ Unlist(c) \/ OnClose(c)
  <2>1. QueueKept(c)
    BY <1>3 DEF RunEnds, AddHandler, Unlist, OnClose, QueueKept, chanVars, sockVars
  <2>2. QED
    BY <2>1, QueueKeptSound
<1>4. CASE Admit(c)
  <2>1. c \in broken => c \in broken'
    BY <1>4 DEF Admit, Drop, sockVars
  <2>2. QueueKept(c)
    BY <1>4, <2>1 DEF Admit, QueueKept, chanVars
  <2>3. QED
    BY <2>2, QueueKeptSound
<1>5. CASE Launch(c)
  <2>1. writer[c] = "none" /\ writer'[c] = "recv"
    BY <1>5 DEF Launch, SocketSound, NetTypeOK
  <2>2. QueueKept(c)
    BY <1>5, <2>1 DEF Launch, QueueKept, chanVars, sockVars
  <2>3. QED
    BY <2>2, QueueKeptSound
<1>6. CASE LaunchNoAgent(c)
  <2>1. writer[c] = "none" /\ writer'[c] = "recv" /\ CloseConn(c) /\ wire' = wire
    BY <1>6 DEF LaunchNoAgent, SocketSound, NetTypeOK
  <2>2. QueueKept(c) \/ NilQueued(c)
    BY <2>1, CloseConnQueue
  <2>3. QED
    BY <2>1, <2>2, QueueKeptSound, NilQueuedSound
<1>7. CASE CloseAfterRun(c)
  <2>1. writer' = writer /\ wire' = wire
    BY <1>7 DEF CloseAfterRun
  <2>2. CASE KCPServer
    <3>1. QueueKept(c)
      BY <1>7, <2>1, <2>2 DEF CloseAfterRun, Drop, QueueKept, chanVars
    <3>2. QED
      BY <3>1, QueueKeptSound
  <2>3. CASE ~KCPServer
    <3>1. CloseConn(c)
      BY <1>7, <2>3 DEF CloseAfterRun
    <3>2. QED
      BY <2>1, <3>1, CloseConnQueue, QueueKeptSound, NilQueuedSound
  <2>4. QED
    BY <2>2, <2>3
<1>8. QED
  BY <1>1, <1>2, <1>3, <1>4, <1>5, <1>6, <1>7 DEF GoroutineOf

LEMMA WriterQueue ==
    ASSUME NetTypeOK, NEW c \in NetConns, QueueSound(c), SocketSound(c), WriterOf(c)
    PROVE  QueueSound(c)'
BY WriterRecvSound, WriterFailsSound, WriterMovesSound DEF WriterOf

(***************************************************************************)
(* The sockets.                                                            *)
(***************************************************************************)
SocketMoves(c) ==
    /\ sock'[c] = sock[c] \/ (sock'[c] \in {"cut", "closed"} /\ c \in broken')
    /\ (c \in broken => c \in broken')

LEMMA SocketMovesSound ==
    ASSUME NetTypeOK, NEW c \in NetConns, SocketSound(c), SocketMoves(c),
           agent'[c] = agent[c] \/ agent[c] # "none",
           writer'[c] = writer[c] \/ (writer[c] = "none" /\ writer'[c] = "recv"),
           agent'[c] \in {"none", "add", "admit", "launch"} => 
             writer'[c] = writer[c] /\ agent[c] \in {"none", "add", "admit", "launch"}
    PROVE  SocketSound(c)'
<1>1. sock'[c] = "cut" => c \in broken'
  BY DEF SocketSound, SocketMoves
<1>2. sock'[c] = "closed" /\ c \notin broken' => writer'[c] \in {"sweep", "end"}
  BY DEF SocketSound, SocketMoves
<1>3. sock'[c] = "none" => agent'[c] = "none"
  BY DEF SocketSound, SocketMoves
<1>4. agent'[c] \in {"none", "add", "admit", "launch"} => writer'[c] = "none"
  BY DEF SocketSound
<1>5. QED
  BY <1>1, <1>2, <1>3, <1>4 DEF SocketSound

LEMMA EffectSocket ==
    ASSUME NetTypeOK, NEW c \in NetConns, doDestroy(c) \/ CloseConn(c) \/ doWrite(c) \/ Drop(c) \/ UNCHANGED sockVars
    PROVE  SocketMoves(c)
<1>1. CASE doDestroy(c) \/ Drop(c)
  BY <1>1 DEF doDestroy, Drop, NetTypeOK, SocketMoves
<1>2. CASE (CloseConn(c) \/ doWrite(c) \/ UNCHANGED sockVars) /\ ~doDestroy(c)
  BY <1>2 DEF CloseConn, doWrite, SocketMoves, sockVars
<1>3. QED
  BY <1>1, <1>2

LEMMA CallSocket ==
    ASSUME NetTypeOK, NEW c \in NetConns, SocketSound(c), CallOn(c)
    PROVE  SocketSound(c)'
<1>1. writer' = writer /\ agent' = agent
  BY DEF CallOn, Destroy, AgentCloses, Write, WSWriteMsg, WriteMsg, WriteFrame, PeerCuts, agentVars
<1>2. SocketMoves(c)
  <2>1. CASE PeerCuts(c)
    BY <2>1 DEF PeerCuts, SocketMoves, NetTypeOK
  <2>2. CASE ~PeerCuts(c)
    BY <2>2, EffectSocket DEF CallOn, Destroy, AgentCloses, Write, WSWriteMsg, WriteMsg, WriteFrame
  <2>3. QED
    BY <2>1, <2>2
<1>3. QED
  BY <1>1, <1>2, SocketMovesSound DEF SocketSound

LEMMA WriterSocket ==
    ASSUME NetTypeOK, NEW c \in NetConns, SocketSound(c), WriterOf(c)
    PROVE  SocketSound(c)'
<1>1. CASE WriterRecv(c)
  BY <1>1 DEF WriterRecv, NetTypeOK, SocketSound, agentVars, sockVars
<1>2. CASE WriterWrites(c)
  BY <1>2 DEF WriterWrites, NetTypeOK, SocketSound, agentVars, sockVars
<1>3. CASE WriterFails(c)
  <2>1. writer'[c] = "shut" /\ agent' = agent /\ sock' = sock /\ writer[c] = "write" /\ (c \in broken => c \in broken')
    BY <1>3 DEF WriterFails, NetTypeOK, agentVars
  <2>2. QED
    BY <2>1 DEF SocketSound
<1>4. CASE WriterShuts(c)
  BY <1>4 DEF WriterShuts, NetTypeOK, SocketSound, agentVars
<1>5. CASE WriterSweeps(c)
  BY <1>5 DEF WriterSweeps, NetTypeOK, SocketSound, agentVars, sockVars
<1>6. QED
  BY <1>1, <1>2, <1>3, <1>4, <1>5 DEF WriterOf

LEMMA OpenSocket ==
    ASSUME NetTypeOK, NEW c \in NetConns, SocketSound(c), NEW step \in {"add", "admit"}, Open(c, step), writer' = writer
    PROVE  SocketSound(c)'
<1>1. agent[c] = "none"
  BY OpenTypes DEF Agents
<1>2. agent'[c] = step /\ sock'[c] = "open"
  BY DEF Open, GoTo, NetTypeOK
<1>3. QED
  BY <1>1, <1>2 DEF SocketSound

LEMMA GoroutineSocket ==
    ASSUME NetTypeOK, NEW c \in NetConns, SocketSound(c), GoroutineOf(c)
    PROVE  SocketSound(c)'
<1>1. CASE Accept(c)
  <2>1. PICK step \in {"add", "admit"} : Open(c, step)
    BY <1>1 DEF Accept
  <2>2. QED
    BY <1>1, <2>1, OpenSocket DEF Accept
<1>2. CASE \E s \in Slots : Dial(s, c)
  <2>1. Open(c, "admit") /\ writer' = writer
    BY <1>2 DEF Dial
  <2>2. QED
    BY <2>1, OpenSocket
<1>3. CASE RunEnds(c) \/ AddHandler(c) \/ Unlist(c) \/ OnClose(c)
  <2>1. UNCHANGED sockVars /\ writer' = writer /\ agent[c] # "none"
        /\ (agent'[c] \in {"none", "add", "admit", "launch"} => agent[c] = "add")
    BY <1>3 DEF RunEnds, AddHandler, Unlist, OnClose, Leave, GoTo, NetTypeOK
  <2>2. QED
    BY <2>1, EffectSocket, SocketMovesSound
<1>4. CASE Admit(c)
  <2>1. (Drop(c) \/ UNCHANGED sockVars) /\ writer' = writer /\ agent[c] = "admit"
    BY <1>4 DEF Admit
  <2>2. QED
    BY <2>1, EffectSocket, SocketMovesSound
<1>5. CASE Launch(c) \/ LaunchNoAgent(c)
  <2>1. agent[c] = "launch" /\ agent'[c] \in {"run", "end"} /\ writer'[c] = "recv"
    BY <1>5 DEF Launch, LaunchNoAgent, Leave, GoTo, NetTypeOK
  <2>2. writer[c] = "none"
    BY <2>1 DEF SocketSound
  <2>3. SocketMoves(c)
    BY <1>5, EffectSocket DEF Launch, LaunchNoAgent
  <2>4. QED
    BY <2>1, <2>2, <2>3, SocketMovesSound
<1>6. CASE CloseAfterRun(c)
  <2>1. agent[c] = "close" /\ agent'[c] = "unlist" /\ writer' = writer
    BY <1>6 DEF CloseAfterRun, GoTo, NetTypeOK
  <2>2. Drop(c) \/ CloseConn(c)
    BY <1>6 DEF CloseAfterRun
  <2>3. QED
    BY <2>1, <2>2, EffectSocket, SocketMovesSound
<1>7. QED
  BY <1>1, <1>2, <1>3, <1>4, <1>5, <1>6 DEF GoroutineOf

(***************************************************************************)
(* The steps of the whole.                                                 *)
(***************************************************************************)
WholeStep == (\E s \in Slots : DialFails(s)) \/ CloseListener \/ DropAll \/ WaitConns

LEMMA WholeConnections ==
    ASSUME NetTypeOK, NEW c \in NetConns, QueueSound(c), SocketSound(c), WholeStep
    PROVE  QueueSound(c)' /\ SocketSound(c)'
<1>1. CASE (\E s \in Slots : DialFails(s)) \/ CloseListener \/ WaitConns
  <2>1. UNCHANGED <<sockVars, chanVars, writer, agent, wire>>
    BY <1>1 DEF DialFails, CloseListener, WaitConns
  <2>2. Untouched(c)
    BY <2>1 DEF Untouched, QueueKept, chanVars, sockVars
  <2>3. QED
    BY <2>2, UntouchedSound
<1>2. CASE DropAll
  <2>1. UNCHANGED <<chanVars, writer, agent, wire>> /\ broken' = broken \union connSet
        /\ sock'[c] = (IF c \in connSet THEN "closed" ELSE sock[c])
    BY <1>2 DEF DropAll
  <2>2. QueueKept(c) /\ SocketMoves(c)
    BY <2>1 DEF QueueKept, SocketMoves, chanVars
  <2>3. SocketSound(c)'
    BY <2>1, <2>2, SocketMovesSound DEF SocketSound
  <2>4. QED
    BY <2>2, <2>3, QueueKeptSound
<1>3. QED
  BY <1>1, <1>2 DEF WholeStep

(***************************************************************************)
(* The goroutines and Close.                                               *)
(***************************************************************************)
LEMMA AgentsSame ==
    ASSUME WholeSound, \A c \in NetConns : AgentSound(c), UNCHANGED <<confVars, agentVars>>
    PROVE  WholeSound' /\ \A c \in NetConns : AgentSound(c)'
BY DEF WholeSound, CloseComplete, AgentSound, NetServer, NetClosing, confVars, agentVars

\* A goroutine that takes its next step.
LEMMA AgentMoves ==
    ASSUME NetTypeOK, WholeSound, \A d \in NetConns : AgentSound(d), NEW c \in NetConns,
           NEW from, NEW to, agent[c] = from, GoTo(c, to), UNCHANGED <<confVars, netState, dialer>>,
           from \in {"launch", "run", "close", "unlist"} \/ (from = "admit" /\ to = "launch" /\ ~NetClosing),
           to \in {"launch", "run", "close", "unlist", "onClose"}, to = "launch" => from = "admit",
           wg \subseteq wg', connSet' \subseteq connSet \/ ~NetClosing,
           NetServer /\ (to # "launch" \/ netKind = "ws") => c \in wg'
    PROVE  WholeSound' /\ \A d \in NetConns : AgentSound(d)'
<1>1. agent'[c] = to /\ \A d \in NetConns \ {c} : agent'[d] = agent[d]
  BY DEF GoTo, NetTypeOK
<1>2. netKind' = netKind /\ (NetServer' <=> NetServer) /\ (NetClosing' <=> NetClosing) /\ netState' = netState
      /\ dialer' = dialer
  BY DEF confVars, NetServer, NetClosing
<1>3. netState # "closed"
  <2> SUFFICES ASSUME netState = "closed" PROVE FALSE
    OBVIOUS
  <2>1. NetClosing /\ from \in {"none", "end", "add", "admit"}
    BY DEF WholeSound, CloseComplete, NetClosing
  <2>2. QED
    BY <2>1
<1>4. QED
  BY <1>1, <1>2, <1>3 DEF WholeSound, CloseComplete, AgentSound

LEMMA LeaveSound ==
    ASSUME NetTypeOK, WholeSound, \A d \in NetConns : AgentSound(d), NEW c \in NetConns,
           agent[c] \notin {"none", "end"}, Leave(c), UNCHANGED <<confVars, netState>>, connSet' \subseteq connSet
    PROVE  WholeSound' /\ \A d \in NetConns : AgentSound(d)'
<1>1. agent'[c] = "end" /\ (\A d \in NetConns \ {c} : agent'[d] = agent[d]) /\ wg' = wg \ {c}
  BY DEF Leave, GoTo, NetTypeOK
<1>2. netKind' = netKind /\ (NetServer' <=> NetServer) /\ (NetClosing' <=> NetClosing) /\ netState' = netState
  BY DEF confVars, NetServer, NetClosing
<1>3. \A s \in Slots : dialer[s] # c => dialer'[s] = dialer[s]
  BY DEF Leave
<1>4. c # Done
  BY NetConnsNat DEF Done
<1>5. ASSUME NEW d \in NetConns PROVE AgentSound(d)'
  <2>1. CASE d = c
    BY <1>1, <1>2, <2>1 DEF AgentSound
  <2>2. CASE d # c
    <3>1. agent'[d] = agent[d] /\ (d \in wg => d \in wg')
      BY <1>1, <2>2
    <3>2. (\E s \in Slots : dialer[s] = d) => \E s \in Slots : dialer'[s] = d
      BY <1>3, <2>2
    <3>3. QED
      BY <1>2, <3>1, <3>2 DEF AgentSound
  <2>3. QED
    BY <2>1, <2>2
<1>6. WholeSound'
  <2>1. NetClosing' => connSet' = {}
    BY <1>2 DEF WholeSound
  <2>2. netState' = "closed" /\ ~NetServer' => \A s \in Slots : dialer'[s] = Done
    BY <1>2, <1>3, <1>4 DEF WholeSound
  <2>3. CloseComplete'
    BY <1>1, <1>2, <2>1 DEF WholeSound, CloseComplete, NetClosing
  <2>4. QED
    BY <2>1, <2>2, <2>3 DEF WholeSound
<1>7. QED
  BY <1>5, <1>6

LEMMA OpenAgents ==
    ASSUME NetTypeOK, NEW c \in NetConns, NEW step \in {"add", "admit"}, Open(c, step)
    PROVE  agent[c] = "none" /\ agent'[c] = step /\ \A d \in NetConns \ {c} : agent'[d] = agent[d]
<1>1. agent[c] = "none"
  BY OpenTypes DEF Agents
<1>2. QED
  BY <1>1 DEF Open, GoTo, NetTypeOK

LEMMA GoroutineAgents ==
    ASSUME NetTypeOK, WholeSound, \A d \in NetConns : AgentSound(d), NEW c \in NetConns, GoroutineOf(c)
    PROVE  WholeSound' /\ \A d \in NetConns : AgentSound(d)'
<1>1. CASE Accept(c)
  <2> DEFINE step == IF netKind = "ws" THEN "add" ELSE "admit"
  <2>1. agent[c] = "none" /\ agent'[c] = step /\ \A d \in NetConns \ {c} : agent'[d] = agent[d]
    <3>1. step \in {"add", "admit"} /\ Open(c, step)
      BY <1>1 DEF Accept
    <3> HIDE DEF step
    <3>2. QED
      BY <3>1, OpenAgents
  <2>2. NetServer /\ netState = "run" /\ UNCHANGED <<confVars, netState, connSet, wg, dialer>>
    BY <1>1 DEF Accept
  <2>3. netKind' = netKind /\ NetServer' /\ ~NetClosing' /\ ~NetClosing /\ netState' = "run"
    BY <2>2 DEF confVars, NetServer, NetClosing
  <2>4. ASSUME NEW d \in NetConns PROVE AgentSound(d)'
    <3>1. CASE d = c
      BY <2>1, <2>2, <2>3, <3>1 DEF AgentSound
    <3>2. CASE d # c
      BY <2>1, <2>2, <2>3, <3>2 DEF AgentSound
    <3>3. QED
      BY <3>1, <3>2
  <2>5. WholeSound'
    <3>1. \A d \in NetConns : agent'[d] # "panic"
      BY <2>1 DEF WholeSound, CloseComplete
    <3>2. QED
      BY <2>3, <3>1 DEF WholeSound, CloseComplete
  <2>6. QED
    BY <2>4, <2>5
<1>2. CASE \E s \in Slots : Dial(s, c)
  <2>1. PICK s \in Slots : Dial(s, c)
    BY <1>2
  <2>2. agent[c] = "none" /\ agent'[c] = "admit" /\ \A d \in NetConns \ {c} : agent'[d] = agent[d]
    BY <2>1, OpenAgents DEF Dial
  <2>3. /\ ~NetServer /\ UNCHANGED <<confVars, netState, connSet, wg>> /\ dialer[s] = Dialing
        /\ dialer'[s] = c /\ \A t \in Slots \ {s} : dialer'[t] = dialer[t]
    BY <2>1 DEF Dial, NetTypeOK
  <2>4. netKind' = netKind /\ ~NetServer' /\ (NetClosing' <=> NetClosing) /\ netState' = netState
    BY <2>3 DEF confVars, NetServer, NetClosing
  <2>5. netState # "closed"
    BY <2>3 DEF WholeSound, Dialing, Done
  <2>6. ASSUME NEW d \in NetConns PROVE AgentSound(d)'
    <3>1. CASE d = c
      BY <2>2, <2>3, <2>4, <3>1 DEF AgentSound
    <3>2. CASE d # c
      <4>1. d # Dialing
        BY NetConnsNat DEF Dialing
      <4>2. (\E t \in Slots : dialer[t] = d) => \E t \in Slots : dialer'[t] = d
        BY <2>3, <4>1
      <4>3. QED
        BY <2>2, <2>3, <2>4, <3>2, <4>2 DEF AgentSound
    <3>3. QED
      BY <3>1, <3>2
  <2>7. WholeSound'
    <3>1. \A d \in NetConns : agent'[d] # "panic"
      BY <2>2 DEF WholeSound, CloseComplete
    <3>2. QED
      BY <2>3, <2>4, <2>5, <3>1 DEF WholeSound, CloseComplete
  <2>8. QED
    BY <2>6, <2>7
<1>3. CASE RunEnds(c)
  BY <1>3, AgentMoves DEF RunEnds, AgentSound
<1>4. CASE Unlist(c)
  BY <1>4, AgentMoves DEF Unlist, AgentSound
<1>5. CASE CloseAfterRun(c)
  BY <1>5, AgentMoves DEF CloseAfterRun, AgentSound
<1>6. CASE Launch(c)
  BY <1>6, AgentMoves DEF Launch
<1>7. CASE AddHandler(c)
  <2>1. /\ agent[c] = "add" /\ agent'[c] = "admit" /\ \A d \in NetConns \ {c} : agent'[d] = agent[d]
        /\ wg' = wg \union {c} /\ UNCHANGED <<confVars, netState, connSet, dialer>>
    BY <1>7 DEF AddHandler, GoTo, NetTypeOK
  <2>2. netKind' = netKind /\ (NetServer' <=> NetServer) /\ (NetClosing' <=> NetClosing) /\ netState' = netState
    BY <2>1 DEF confVars, NetServer, NetClosing
  <2>3. NetServer /\ netKind = "ws"
    BY <2>1 DEF AgentSound
  <2>4. ASSUME NEW d \in NetConns PROVE AgentSound(d)'
    <3>1. CASE d = c
      BY <2>1, <2>2, <2>3, <3>1 DEF AgentSound
    <3>2. CASE d # c
      BY <2>1, <2>2, <2>3, <3>2 DEF AgentSound
    <3>3. QED
      BY <3>1, <3>2
  <2>5. WholeSound'
    <3>1. CloseComplete'
      BY <2>1, <2>2, <2>3 DEF WholeSound, CloseComplete
    <3>2. QED
      BY <2>1, <2>2, <2>3, <3>1 DEF WholeSound
  <2>6. QED
    BY <2>4, <2>5
<1>8. CASE Admit(c)
  <2> DEFINE refused == (NetServer /\ Cardinality(connSet) >= limits.conns)
                        \/ (NetClosing /\ (~NetServer \/ netKind = "ws"))
  <2>1. agent[c] = "admit" /\ UNCHANGED <<confVars, netState>>
    BY <1>8 DEF Admit
  <2>2. CASE refused
    BY <1>8, <2>1, <2>2, LeaveSound DEF Admit
  <2>3. CASE ~refused /\ NetClosing
    <3>1. NetServer /\ netKind # "ws"
      BY <2>3
    <3>2. QED
      BY <2>1, <2>3, <3>1 DEF AgentSound
  <2>4. CASE ~refused /\ ~NetClosing
    <3>1. GoTo(c, "launch") /\ UNCHANGED <<wg, dialer>>
      BY <1>8, <2>4 DEF Admit
    <3>2. NetServer /\ netKind = "ws" => c \in wg
      BY <2>1 DEF AgentSound
    <3>3. QED
      BY <2>1, <2>4, <3>1, <3>2, AgentMoves
  <2>5. QED
    BY <2>2, <2>3, <2>4
<1>9. CASE LaunchNoAgent(c)
  BY <1>9, LeaveSound DEF LaunchNoAgent
<1>10. CASE OnClose(c)
  BY <1>10, LeaveSound DEF OnClose
<1>11. QED
  BY <1>1, <1>2, <1>3, <1>4, <1>5, <1>6, <1>7, <1>8, <1>9, <1>10 DEF GoroutineOf

LEMMA WholeAgents ==
    ASSUME NetTypeOK, WholeSound, \A d \in NetConns : AgentSound(d), WholeStep
    PROVE  WholeSound' /\ \A d \in NetConns : AgentSound(d)'
<1>1. CASE \E s \in Slots : DialFails(s)
  <2>1. PICK s \in Slots : DialFails(s)
    BY <1>1
  <2>2. /\ UNCHANGED <<confVars, netState, connSet, wg, agent>> /\ dialer[s] = Dialing /\ ~NetServer
        /\ \A t \in Slots \ {s} : dialer'[t] = dialer[t]
    BY <2>1 DEF DialFails, NetTypeOK
  <2>3. netKind' = netKind /\ ~NetServer' /\ (NetClosing' <=> NetClosing) /\ netState' = netState
    BY <2>2 DEF confVars, NetServer, NetClosing
  <2>4. netState # "closed"
    BY <2>2 DEF WholeSound, Dialing, Done
  <2>5. ASSUME NEW d \in NetConns PROVE AgentSound(d)'
    <3>1. d # Dialing
      BY NetConnsNat DEF Dialing
    <3>2. (\E t \in Slots : dialer[t] = d) => \E t \in Slots : dialer'[t] = d
      BY <2>2, <3>1
    <3>3. QED
      BY <2>2, <2>3, <3>2 DEF AgentSound
  <2>6. QED
    BY <2>2, <2>3, <2>4, <2>5 DEF WholeSound, CloseComplete
<1>2. CASE CloseListener
  <2>1. NetServer /\ NetServer' /\ ~NetClosing /\ ~NetClosing' /\ netState' = "listener"
        /\ UNCHANGED <<netKind, connSet, wg, agent, dialer>>
    BY <1>2 DEF CloseListener, confVars, NetServer, NetClosing
  <2>2. QED
    BY <2>1 DEF WholeSound, CloseComplete, AgentSound
<1>3. CASE DropAll
  <2>1. (NetServer' <=> NetServer) /\ ~NetClosing /\ NetClosing' /\ netState' = "wait" /\ connSet' = {}
        /\ UNCHANGED <<netKind, wg, agent, dialer>> /\ (NetServer => AcceptLoopEnded)
    BY <1>3 DEF DropAll, confVars, NetServer, NetClosing
  <2>2. QED
    BY <2>1 DEF WholeSound, CloseComplete, AgentSound, AcceptLoopEnded, InAcceptLoop
<1>4. CASE WaitConns
  <2>1. (NetServer' <=> NetServer) /\ NetClosing /\ NetClosing' /\ netState' = "closed" /\ wg = {}
        /\ UNCHANGED <<netKind, connSet, wg, agent, dialer>> /\ (NetServer \/ \A s \in Slots : dialer[s] = Done)
    BY <1>4 DEF WaitConns, confVars, NetServer, NetClosing
  <2>2. \A d \in NetConns : AgentSound(d)'
    BY <2>1 DEF AgentSound
  <2>3. ASSUME NEW d \in NetConns
        PROVE  agent[d] \in {"none", "end"} \/ (netKind = "ws" /\ agent[d] \in {"add", "admit"})
    <3>1. agent[d] \in Agents /\ agent[d] # "panic" /\ AgentSound(d)
      BY DEF NetTypeOK, WholeSound, CloseComplete
    <3>2. CASE NetServer
      BY <2>1, <3>1, <3>2 DEF AgentSound, Agents
    <3>3. CASE ~NetServer
      <4>1. d # Done
        BY NetConnsNat DEF Done
      <4>2. QED
        BY <2>1, <3>1, <3>3, <4>1 DEF AgentSound
    <3>4. QED
      BY <3>2, <3>3
  <2>4. QED
    BY <2>1, <2>2, <2>3 DEF WholeSound, CloseComplete
<1>5. QED
  BY <1>1, <1>2, <1>3, <1>4 DEF WholeStep

(***************************************************************************)
(* The frames, the initial states, and every step.                         *)
(***************************************************************************)
LEMMA FramesConstant == LargestLen' = LargestLen /\ \A n : Header(n)' = Header(n)
<1>1. LargestLen' = LargestLen
  BY DEF LargestLen
<1>2. QED
  BY <1>1 DEF Header

LEMMA FramesStep ==
    ASSUME NetTypeOK, FramesKept, NetNext
    PROVE  FramesKept'
<1>1. UNCHANGED confVars
  BY DEF NetNext, Destroy, AgentCloses, Write, WSWriteMsg, WriteMsg, WriteFrame, PeerCuts, Accept, RunEnds, ConnStep,
     Dial,
    DialFails, CloseListener, DropAll, WaitConns, WriterRecv, WriterWrites, WriterFails, WriterShuts,
    WriterSweeps,
    AddHandler, Admit, Launch, LaunchNoAgent, CloseAfterRun, Unlist, OnClose
<1>2. netKind' = netKind /\ limits' = limits /\ (KCPServer' <=> KCPServer)
  BY <1>1 DEF confVars, KCPServer, NetServer
<1>3. CASE frameVars' = frameVars
  BY <1>2, <1>3, FramesConstant DEF FramesKept, FramesSound, frameVars
<1>4. CASE frameVars' # frameVars
  <2>1. PICK c \in NetConns, m \in NetMsgs : WriteMsg(c, m) \/ WriteFrame(c, m)
    BY <1>4 DEF NetNext, Destroy, AgentCloses, Write, WSWriteMsg, PeerCuts, Accept, RunEnds, ConnStep, Dial,
      DialFails, CloseListener, DropAll, WaitConns, WriterRecv, WriterWrites, WriterFails, WriterShuts,
      WriterSweeps,
      AddHandler, Admit, Launch, LaunchNoAgent, CloseAfterRun, Unlist, OnClose
  <2>2. CASE WriteMsg(c, m)
    <3>1. /\ netKind # "ws" /\ LenOf[m] \in MinMsgLen..limits.maxLen /\ framed' = framed
          /\ framing' = framing \union {<<c, m>>}
      BY <2>2 DEF WriteMsg
    <3>2. QED
      BY <1>2, <3>1, FramesConstant DEF FramesKept, FramesSound
  <2>3. CASE WriteFrame(c, m)
    <3>1. <<c, m>> \in framing /\ framed' \subseteq framed \union {m} /\ framing' \subseteq framing
      BY <2>3 DEF WriteFrame
    <3>2. netKind # "ws" /\ LenOf[m] \in MinMsgLen..limits.maxLen
      BY <3>1 DEF FramesKept
    <3>3. LenOf[m] \in Nat
      BY NetworkAssumption
    <3>4. ~KCPServer => Header(LenOf[m]) = LenOf[m]
      <4> SUFFICES ASSUME ~KCPServer PROVE Header(LenOf[m]) = LenOf[m]
        OBVIOUS
      <4>1. limits.maxLen \in Int /\ limits.maxLen <= LargestLen /\ LargestLen \in Nat /\ MinMsgLen \in Nat
        BY <3>2, AtMostLargest, NetworkAssumption DEF FramesKept
      <4>2. LenOf[m] <= LargestLen
        BY <3>2, <3>3, <4>1
      <4>3. QED
        BY <3>3, <4>2, HeaderHolds
    <3>5. QED
      BY <1>2, <3>1, <3>2, <3>4, FramesConstant DEF FramesKept, FramesSound
  <2>4. QED
    BY <2>1, <2>2, <2>3
<1>5. QED
  BY <1>3, <1>4

LEMMA NetInitInv == NetInit => NetInv
<1> SUFFICES ASSUME NetInit PROVE NetInv
  OBVIOUS
<1>1. NetTypeOK
  BY DEF NetInit, NetTypeOK, Sockets, Writers, Agents, Dialing
<1>2. FramesKept
  <2>1. PICK p \in Pendings :
          limits = Limits(netKind, netSide, [conns |-> MaxConnNum, pending |-> p, maxLen |-> MaxMsgLen])
    BY DEF NetInit
  <2> DEFINE conf == [conns |-> MaxConnNum, pending |-> p, maxLen |-> MaxMsgLen]
  <2>2. conf.maxLen \in Int
    BY NetworkAssumption
  <2> HIDE DEF conf
  <2>3. OrDefault(conf.maxLen, 65535) \in Int
    BY <2>2 DEF OrDefault
  <2>4. netKind # "ws" /\ ~KCPServer => limits.maxLen = Min({OrDefault(conf.maxLen, 65535), LargestLen})
    <3> SUFFICES ASSUME netKind # "ws", ~KCPServer
                 PROVE  limits.maxLen = Min({OrDefault(conf.maxLen, 65535), LargestLen})
      OBVIOUS
    <3>1. limits = Limits(netKind, netSide, conf)
      BY <2>1 DEF conf
    <3>2. limits \in {TCPServerInit(conf), TCPClientInit(conf), KCPClientInit(conf)}
      BY <3>1 DEF Limits, KCPServer, NetServer, NetInit
    <3>3. QED
      BY <3>2 DEF TCPServerInit, TCPClientInit, KCPClientInit
  <2>5. framed = {} /\ framing = {}
    BY DEF NetInit
  <2>6. QED
    BY <2>3, <2>4, <2>5, AtMostLargest DEF FramesKept, FramesSound
<1>3. WholeSound
  BY DEF NetInit, WholeSound, CloseComplete, NetClosing
<1>4. ASSUME NEW c \in NetConns PROVE QueueSound(c) /\ SocketSound(c) /\ AgentSound(c)
  <2>1. chan[c] = <<>> /\ queued[c] = <<>> /\ wire[c] = <<>> /\ writer[c] = "none" /\ agent[c] = "none"
        /\ sock[c] = "none" /\ shut = {} /\ ~NetClosing
    BY DEF NetInit, NetClosing
  <2>2. ~Shown(c) /\ Waiters(c) = 0
    BY <2>1 DEF Shown, Waiters
  <2>3. QED
    BY <2>1, <2>2 DEF QueueSound, SocketSound, AgentSound
<1>5. QED
  BY <1>1, <1>2, <1>3, <1>4 DEF NetInv

LEMMA NetStep ==
    ASSUME NetInv, [NetNext]_netVars
    PROVE  NetInv'
<1>1. CASE UNCHANGED netVars
  <2>1. UNCHANGED <<confVars, agentVars, sockVars, chanVars, writer, wire, framed, framing, netCalls>>
    BY <1>1 DEF netVars, frameVars
  <2>2. NetTypeOK'
    BY <2>1 DEF NetInv, NetTypeOK, confVars, agentVars, sockVars, chanVars
  <2>3. FramesKept'
    <3>1. netKind' = netKind /\ limits' = limits /\ framed' = framed /\ framing' = framing /\ (KCPServer' <=> KCPServer)
      BY <2>1 DEF KCPServer, NetServer, confVars
    <3>2. QED
      BY <3>1, FramesConstant DEF NetInv, FramesKept, FramesSound
  <2>4. \A c \in NetConns : QueueSound(c)' /\ SocketSound(c)'
    <3> TAKE c \in NetConns
    <3>1. Untouched(c)
      BY <2>1 DEF Untouched, QueueKept, agentVars, sockVars, chanVars
    <3>2. QED
      BY <3>1, UntouchedSound DEF NetInv
  <2>5. QED
    BY <2>1, <2>2, <2>3, <2>4, AgentsSame DEF NetInv
<1>2. CASE NetNext
  <2>1. FramesKept'
    BY <1>2, FramesStep DEF NetInv
  <2>2. CASE WholeStep
    BY <2>1, <2>2, WholeTypes, WholeConnections, WholeAgents DEF NetInv, WholeStep
  <2>3. CASE \E c \in NetConns : CallOn(c) \/ WriterOf(c) \/ GoroutineOf(c)
    <3>1. PICK c \in NetConns : CallOn(c) \/ WriterOf(c) \/ GoroutineOf(c)
      BY <2>3
    <3>2. NetTypeOK'
      BY <3>1, CallTypes, WriterTypes, AgentTypes DEF NetInv, CallOn, WriterOf, GoroutineOf
    <3>3. WholeSound' /\ \A d \in NetConns : AgentSound(d)'
      <4>1. CASE CallOn(c) \/ WriterOf(c)
        <5>1. UNCHANGED <<confVars, agentVars>>
          BY <4>1 DEF CallOn, WriterOf, Destroy, AgentCloses, Write, WSWriteMsg, WriteMsg, WriteFrame, PeerCuts,
             WriterRecv,
            WriterWrites, WriterFails, WriterShuts, WriterSweeps
        <5>2. QED
          BY <5>1, AgentsSame DEF NetInv
      <4>2. CASE GoroutineOf(c)
        BY <4>2, GoroutineAgents DEF NetInv
      <4>3. QED
        BY <3>1, <4>1, <4>2
    <3>4. ASSUME NEW d \in NetConns PROVE QueueSound(d)' /\ SocketSound(d)'
      <4>1. CASE d = c
        BY <3>1, <4>1, CallQueue, CallSocket, WriterQueue, WriterSocket, GoroutineQueue, GoroutineSocket DEF
           NetInv
      <4>2. CASE d # c
        <5>1. Untouched(d)
          BY <3>1, <4>2, CallApart, WriterApart, GoroutineApart DEF NetInv
        <5>2. QED
          BY <5>1, UntouchedSound DEF NetInv
      <4>3. QED
        BY <4>1, <4>2
    <3>5. QED
      BY <2>1, <3>2, <3>3, <3>4 DEF NetInv
  <2>4. WholeStep \/ \E c \in NetConns : CallOn(c) \/ WriterOf(c) \/ GoroutineOf(c)
    BY <1>2 DEF NetNext, ConnStep, WholeStep, CallOn, WriterOf, GoroutineOf
  <2>5. QED
    BY <2>2, <2>3, <2>4
<1>3. QED
  BY <1>1, <1>2

LEMMA QueueSoundKept ==
    ASSUME NetTypeOK, NEW c \in NetConns, QueueSound(c)
    PROVE  /\ IsPrefix(wire[c], queued[c])
           /\ (writer[c] = "end" /\ c \notin broken) => wire[c] = queued[c]
<1> DEFINE w == wire[c]
           h == queued[c]
<1>1. w \in Seq(Nat) /\ h \in Seq(Nat)
  BY DEF NetTypeOK
<1>2. Len(w) <= Len(h) /\ \A k \in 1..Len(w) : w[k] = h[k]
  BY DEF QueueSound
<1>3. (writer[c] = "end" /\ c \notin broken) => Len(w) = Len(h)
  BY DEF QueueSound
<1> HIDE DEF w, h
<1>4. SubSeq(h, 1, Len(w)) = w
  <2> DEFINE n == Len(w)
             t == SubSeq(h, 1, n)
  <2>1. n \in Nat /\ n <= Len(h)
    BY <1>1, <1>2
  <2> HIDE DEF n
  <2>2. t \in Seq(Nat) /\ Len(t) = n /\ \A k \in 1..n : t[k] = h[k]
    BY <1>1, <2>1
  <2> HIDE DEF t
  <2>3. \A k \in 1..n : t[k] = w[k]
    BY <1>2, <2>2 DEF n
  <2>4. t = w
    BY <1>1, <2>2, <2>3, SeqEqual DEF n
  <2>5. QED
    BY <2>4 DEF t, n
<1>5. IsPrefix(w, h)
  BY <1>2, <1>4 DEF IsPrefix
<1>6. Len(w) = Len(h) => w = h
  BY <1>1, <1>2, SeqEqual
<1>7. QED
  BY <1>3, <1>5, <1>6 DEF w, h

\* However writes, closes, failures, dials and the Close of the whole interleave, a connection
\* nobody broke has written what was queued, whole and in order, and a closed server or client
\* leaves no agent behind (NetConn, WSConn, TCPServer, WSServer, KCPServer and the clients).
THEOREM NetworkSoundHolds == NetSpec => []NetworkSound
<1>1. NetInv => NetworkSound
  BY QueueSoundKept DEF NetInv, NetworkSound, MessagesKept, FramesKept, WholeSound
<1>2. NetInit => NetInv
  BY NetInitInv
<1>3. NetInv /\ [NetNext]_netVars => NetInv'
  BY NetStep
<1>4. QED
  BY <1>1, <1>2, <1>3, PTL DEF NetSpec

(***************************************************************************)
(* The repository of services. The invariant RepInv relates the table, the *)
(* indices and the dispatchers at every step of an operation (TableSound,  *)
(* RunSound), and says of every search under way (SearchSound) that what   *)
(* was selectable all the time is still to be visited, is the one visited  *)
(* and still the entry of the table, or was found; and that whatever it    *)
(* holds that is ready was ready in the table at some time of the call.    *)
(***************************************************************************)
Kinds == Searches \cup {"uid", "route"}
Stages == {"idle", "visit", "check", "none", "found", "sender", "create", "panic"}
Addrs == {AddrOf[u] : u \in Uids}
Dispatchers == [uid : Uids, tmp : BOOLEAN, closed : BOOLEAN, status : {"starting", "ready"},
                vis : {"cluster", "node", "private"}, master : BOOLEAN]
Asks == [at : Stages, kind : Kinds, slaver : BOOLEAN, target : Uids, left : SUBSET Uids,
         cur : Uids \cup {0}, d : Nat, chosen : SUBSET Uids, found : SUBSET Nat]
Sents == [addr : Addrs, closed : BOOLEAN]

TableTypes ==
    /\ mapPID \in [Uids -> Nat] /\ tmpMapPid \in [Uids -> Nat] /\ disps \in Seq(Dispatchers)
    /\ op \in [Uids -> {"idle", "index", "close", "unindex"}]
    /\ evict.d # 0 => evict.uid \in Uids
    /\ repStop \in [at : {"run", "table", "tmp", "senders", "stopped"}, left : SUBSET Uids]
    /\ repStop.left # {} => repStop.at \in {"table", "tmp"}

TableSound(u) ==
    /\ mapPID[u] # 0 => mapPID[u] \in 1..Made /\ disps[mapPID[u]].uid = u /\ ~disps[mapPID[u]].tmp
    /\ tmpMapPid[u] # 0 => tmpMapPid[u] \in 1..Made /\ disps[tmpMapPid[u]].uid = u /\ disps[tmpMapPid[u]].tmp
    /\ op[u] \in {"close", "unindex"} => mapPID[u] = 0
    /\ op[u] = "index" => mapPID[u] # 0
    /\ mapPID[u] # 0 /\ op[u] # "index" => u \in nameIdx /\ u \in typeIdx

\* Until Stop the entry is open, and a removal under way has a dispatcher to close.
RunSound(u) ==
    repStop.at = "run" =>
    /\ mapPID[u] # 0 => ~disps[mapPID[u]].closed
    /\ op[u] = "close" => \E d \in 1..Made : disps[d].uid = u /\ ~disps[d].tmp /\ ~disps[d].closed
    /\ op[u] = "idle" /\ mapPID[u] = 0 => u \notin nameIdx /\ u \notin typeIdx

\* The services a call has found so far.
FoundUids(c) == {disps[d].uid : d \in asker[c].found}

\* What a call holds is a dispatcher of the service it is at.
CallSound(c) ==
    /\ asker[c].at = "none" => asker[c].kind = "route" /\ asker[c].cur \in Uids
    /\ asker[c].at = "check" =>
         asker[c].d \in 1..Made /\ asker[c].cur \in Uids /\ disps[asker[c].d].uid = asker[c].cur
    /\ asker[c].at \in {"sender", "create"} => asker[c].d \in 1..Made
    /\ asker[c].found \subseteq 1..Made
    /\ asker[c].slaver => asker[c].kind = "name"

SearchSound(c) ==
    /\ asker[c].at \in {"visit", "check"} /\ asker[c].kind \in Searches =>
         /\ steady[c] \subseteq Selectable(c) /\ EverReady \subseteq ready[c]
         /\ \A u \in steady[c] :
              u \in asker[c].left \/ (asker[c].at = "check" /\ asker[c].cur = u) \/ u \in FoundUids(c)
         /\ FoundUids(c) \subseteq ready[c] /\ asker[c].chosen \subseteq ready[c]
         /\ asker[c].chosen # {} =>
              asker[c].left \subseteq asker[c].chosen /\ (asker[c].at = "check" => asker[c].cur \in asker[c].chosen)
         /\ asker[c].at = "check" =>
              /\ asker[c].cur \in steady[c] => asker[c].d = mapPID[asker[c].cur]
              /\ asker[c].kind \in {"rule", "choice"} /\ disps[asker[c].d].status = "ready" => asker[c].cur \in ready[c]
    /\ asker[c].at = "found" /\ asker[c].kind \in Searches =>
         steady[c] \subseteq FoundUids(c) /\ FoundUids(c) \subseteq ready[c]

\* The two parts of HandlesOwned.
DispatchersOwned ==
    \A d \in 1..Made : ~disps[d].closed =>
        LET u == disps[d].uid IN
        IF disps[d].tmp THEN tmpMapPid[u] = d ELSE mapPID[u] = d \/ op[u] = "close"

SendersOwned ==
    /\ senders \in [Addrs -> Nat] /\ sent \in Seq(Sents)
    /\ \A i \in 1..Len(sent) : ~sent[i].closed => senders[sent[i].addr] = i

IndexTypes == nameIdx \subseteq Uids /\ typeIdx \subseteq Uids

DirectoryInv == TableTypes /\ DispatchersOwned /\ \A u \in Uids : TableSound(u) /\ RunSound(u)

RepInv ==
    /\ DirectoryInv /\ IndexTypes /\ SendersOwned /\ asker \in [Askers -> Asks]
    /\ \A c \in Askers : CallSound(c) /\ SearchSound(c)

\* What a step may do to the table: an entry comes or goes, a dispatcher keeps its service and
\* stays closed, and becomes ready only while it is the entry.
TableMoves ==
    /\ Made' >= Made
    /\ \A e \in 1..Made :
         /\ disps'[e].uid = disps[e].uid /\ disps'[e].tmp = disps[e].tmp /\ (disps[e].closed => disps'[e].closed)
         /\ disps'[e].status = "ready" => disps[e].status = "ready" \/ mapPID'[disps[e].uid] = e
    /\ \A u \in Uids : mapPID'[u] = mapPID[u] \/ mapPID[u] = 0 \/ mapPID'[u] = 0

LEMMA DispsTyped ==
    ASSUME disps \in Seq(Dispatchers)
    PROVE  /\ Made \in Nat /\ disps \in [1..Made -> Dispatchers]
           /\ \A e \in 1..Made : disps[e] \in Dispatchers /\ disps[e].uid \in Uids /\ disps[e].closed \in BOOLEAN
                                 /\ disps[e].tmp \in BOOLEAN
<1>1. Made \in Nat /\ disps \in [1..Made -> Dispatchers]
  BY DEF Made
<1>2. \A r \in Dispatchers : r.uid \in Uids /\ r.closed \in BOOLEAN /\ r.tmp \in BOOLEAN
  BY DEF Dispatchers
<1>3. QED
  BY <1>1, <1>2

LEMMA DispsUpdated ==
    ASSUME disps \in Seq(Dispatchers), disps' \in [1..Made -> Dispatchers]
    PROVE  disps' \in Seq(Dispatchers) /\ Made' = Made
BY DEF Made

LEMMA DispsAppended ==
    ASSUME disps \in Seq(Dispatchers), NEW r \in Dispatchers, disps' = Append(disps, r)
    PROVE  /\ disps' \in Seq(Dispatchers) /\ Made' = Made + 1 /\ disps'[Made + 1] = r
           /\ \A e \in 1..Made : disps'[e] = disps[e]
BY DEF Made

\* A step that leaves the entries and the indices alone and closes and opens no dispatcher.
LEMMA TableSame ==
    ASSUME DirectoryInv, disps' \in Seq(Dispatchers), Made' = Made,
           \A e \in 1..Made : /\ disps'[e].uid = disps[e].uid /\ disps'[e].tmp = disps[e].tmp
                              /\ disps'[e].closed = disps[e].closed,
           UNCHANGED <<mapPID, tmpMapPid, nameIdx, typeIdx, op, evict, repStop>>
    PROVE  DirectoryInv'
<1>1. TableTypes'
  BY DEF DirectoryInv, TableTypes
<1>2. DispatchersOwned'
  <2> SUFFICES ASSUME NEW e \in 1..Made', ~disps'[e].closed
               PROVE  IF disps'[e].tmp THEN tmpMapPid'[disps'[e].uid] = e
                      ELSE mapPID'[disps'[e].uid] = e \/ op'[disps'[e].uid] = "close"
    BY DEF DispatchersOwned
  <2>1. e \in 1..Made /\ disps'[e].uid = disps[e].uid /\ disps'[e].tmp = disps[e].tmp /\ ~disps[e].closed
    OBVIOUS
  <2>2. QED
    BY <2>1 DEF DirectoryInv, DispatchersOwned
<1>3. ASSUME NEW w \in Uids PROVE TableSound(w)' /\ RunSound(w)'
  <2>1. TableSound(w) /\ RunSound(w)
    BY DEF DirectoryInv
  <2>2. TableSound(w)'
    BY <2>1 DEF TableSound
  <2>3. RunSound(w)'
    BY <2>1 DEF RunSound, TableSound
  <2>4. QED
    BY <2>2, <2>3
<1>4. QED
  BY <1>1, <1>2, <1>3 DEF DirectoryInv

LEMMA AddKeeps ==
    ASSUME DirectoryInv, NEW u \in Uids, op[u] = "idle",
           NEW st \in {"starting", "ready"}, NEW v \in {"cluster", "private"}, NEW m \in BOOLEAN,
           AddWithMeta(u, st, v, m), UNCHANGED <<nameIdx, typeIdx, tmpMapPid, evict, repStop>>
    PROVE  DirectoryInv' /\ TableMoves
<1>1. TableTypes /\ Made \in Nat /\ disps \in [1..Made -> Dispatchers] /\ mapPID[u] \in Nat
  BY DispsTyped DEF DirectoryInv, TableTypes
<1>2. CASE mapPID[u] # 0
  <2> DEFINE x == mapPID[u]
             n == IF Retired(x) THEN disps[x].master ELSE m
  <2>1. x \in 1..Made /\ disps[x].uid = u /\ UNCHANGED <<mapPID, op>>
    BY <1>2 DEF DirectoryInv, TableSound, AddWithMeta
  <2>2. disps' = [disps EXCEPT ![x].status = st, ![x].vis = v, ![x].master = IF Retired(x) THEN @ ELSE m]
    BY <1>2 DEF AddWithMeta
  <2>3. n \in BOOLEAN
    BY <1>1, <2>1 DEF Dispatchers
  <2> HIDE DEF x
  <2>4. disps' \in [1..Made -> Dispatchers]
    <3> DEFINE r == [disps[x] EXCEPT !.status = st, !.vis = v, !.master = n]
    <3>1. disps[x] \in Dispatchers
      BY <1>1, <2>1
    <3>2. r \in Dispatchers
      <4> HIDE DEF n
      <4>1. QED
        BY <2>3, <3>1 DEF Dispatchers
    <3>3. disps' = [disps EXCEPT ![x] = r]
      BY <2>2
    <3> HIDE DEF r
    <3>4. QED
      BY <1>1, <3>2, <3>3
  <2>5. \A e \in 1..Made : /\ disps'[e].uid = disps[e].uid /\ disps'[e].tmp = disps[e].tmp
                           /\ disps'[e].closed = disps[e].closed
                           /\ (e # x => disps'[e] = disps[e])
    BY <1>1, <2>1, <2>2 DEF Dispatchers
  <2>6. DirectoryInv'
    BY <1>1, <2>1, <2>4, <2>5, DispsUpdated, TableSame DEF TableTypes
  <2>7. TableMoves
    <3>1. Made' = Made
      BY <1>1, <2>4, DispsUpdated DEF TableTypes
    <3>2. \A e \in 1..Made : disps'[e].status = "ready" => disps[e].status = "ready" \/ mapPID'[disps[e].uid] = e
      BY <2>1, <2>5 DEF x
    <3>3. QED
      BY <1>1, <2>1, <2>5, <3>1, <3>2 DEF TableMoves
  <2>8. QED
    BY <2>6, <2>7
<1>3. CASE mapPID[u] = 0
  <2> DEFINE r == NewDispatcher(u, FALSE, st, v, m)
  <2>1. /\ disps' = Append(disps, r) /\ mapPID' = [mapPID EXCEPT ![u] = Made + 1]
        /\ op' = [op EXCEPT ![u] = "index"]
    BY <1>3 DEF AddWithMeta
  <2>2. r \in Dispatchers /\ r.uid = u /\ ~r.tmp /\ ~r.closed
    BY DEF NewDispatcher, Dispatchers
  <2> HIDE DEF r
  <2>3. /\ disps' \in Seq(Dispatchers) /\ Made' = Made + 1 /\ disps'[Made + 1] = r
        /\ \A e \in 1..Made : disps'[e] = disps[e]
    BY <1>1, <2>1, <2>2, DispsAppended DEF TableTypes
  <2>4. /\ mapPID'[u] = Made + 1 /\ op'[u] = "index" /\ (\A w \in Uids \ {u} : mapPID'[w] = mapPID[w] /\ op'[w] = op[w])
        /\ mapPID' \in [Uids -> Nat] /\ op' \in [Uids -> {"idle", "index", "close", "unindex"}]
    BY <1>1, <2>1 DEF TableTypes
  <2>5. TableTypes'
    BY <1>1, <2>3, <2>4 DEF TableTypes
  <2>6. DispatchersOwned'
    <3> SUFFICES ASSUME NEW e \in 1..Made', ~disps'[e].closed
                 PROVE  IF disps'[e].tmp THEN tmpMapPid'[disps'[e].uid] = e
                        ELSE mapPID'[disps'[e].uid] = e \/ op'[disps'[e].uid] = "close"
      BY DEF DispatchersOwned
    <3>1. CASE e = Made + 1
      BY <2>2, <2>3, <2>4, <3>1
    <3>2. CASE e # Made + 1
      <4>1. e \in 1..Made /\ disps'[e] = disps[e] /\ disps[e].uid \in Uids
        BY <1>1, <2>3, <3>2 DEF Dispatchers
      <4>2. ~disps[e].tmp => disps[e].uid # u
        BY <1>1, <1>3, <3>2, <4>1 DEF DirectoryInv, DispatchersOwned
      <4>3. QED
        BY <2>4, <4>1, <4>2 DEF DirectoryInv, DispatchersOwned
    <3>3. QED
      BY <3>1, <3>2
  <2>7. ASSUME NEW w \in Uids PROVE TableSound(w)' /\ RunSound(w)'
    <3>1. TableSound(w) /\ RunSound(w)
      BY DEF DirectoryInv
    <3>2. CASE w = u
      <4>1. TableSound(w)'
        BY <1>1, <1>3, <2>2, <2>3, <2>4, <3>1, <3>2 DEF TableSound
      <4>2. RunSound(w)'
        BY <1>1, <2>2, <2>3, <2>4, <3>2 DEF RunSound
      <4>3. QED
        BY <4>1, <4>2
    <3>3. CASE w # u
      <4>1. TableSound(w)'
        BY <1>1, <2>3, <2>4, <3>1, <3>3 DEF TableSound
      <4>2. RunSound(w)'
        BY <1>1, <2>3, <2>4, <3>1, <3>3 DEF RunSound, TableSound
      <4>3. QED
        BY <4>1, <4>2
    <3>4. QED
      BY <3>2, <3>3
  <2>8. TableMoves
    <3>1. Made' >= Made /\ \A e \in 1..Made : disps'[e] = disps[e]
      BY <1>1, <2>3
    <3>2. \A w \in Uids : mapPID'[w] = mapPID[w] \/ mapPID[w] = 0 \/ mapPID'[w] = 0
      BY <1>3, <2>4
    <3>3. QED
      BY <3>1, <3>2 DEF TableMoves
  <2>9. QED
    BY <2>5, <2>6, <2>7, <2>8 DEF DirectoryInv
<1>4. QED
  BY <1>2, <1>3

\* A field of an entry that says nothing about its service or whether it is closed.
LEMMA FieldSet ==
    ASSUME DirectoryInv, NEW u \in Uids, mapPID[u] # 0, NEW r \in Dispatchers,
           LET d == disps[mapPID[u]] IN r.uid = d.uid /\ r.tmp = d.tmp /\ r.closed = d.closed,
           disps' = [disps EXCEPT ![mapPID[u]] = r],
           UNCHANGED <<mapPID, tmpMapPid, nameIdx, typeIdx, op, evict, repStop>>
    PROVE  DirectoryInv' /\ TableMoves
<1> DEFINE x == mapPID[u]
<1>1. Made \in Nat /\ disps \in Seq(Dispatchers) /\ disps \in [1..Made -> Dispatchers]
  BY DispsTyped DEF DirectoryInv, TableTypes
<1>2. x \in 1..Made /\ disps[x].uid = u
  BY DEF DirectoryInv, TableSound
<1>3. disps' = [disps EXCEPT ![x] = r] /\ r.uid = disps[x].uid /\ r.tmp = disps[x].tmp /\ r.closed = disps[x].closed
      /\ mapPID' = mapPID /\ mapPID[u] = x
  OBVIOUS
<1> HIDE DEF x
<1>4. disps' \in Seq(Dispatchers) /\ Made' = Made
  BY <1>1, <1>3, DispsUpdated
<1>5. \A e \in 1..Made : disps'[e] = IF e = x THEN r ELSE disps[e]
  BY <1>1, <1>3
<1>6. \A e \in 1..Made : disps'[e].uid = disps[e].uid /\ disps'[e].tmp = disps[e].tmp /\ disps'[e].closed = disps[e].closed
  BY <1>3, <1>5
<1>7. DirectoryInv'
  BY <1>4, <1>6, TableSame
<1>8. TableMoves
  BY <1>1, <1>2, <1>3, <1>4, <1>5, <1>6 DEF TableMoves
<1>9. QED
  BY <1>7, <1>8

LEMMA FieldSteps ==
    ASSUME DirectoryInv, NEW u \in Uids, UpdateStatus(u) \/ UpdateVisibility(u) \/ SetMaster(u)
    PROVE  DirectoryInv' /\ TableMoves
<1> DEFINE x == mapPID[u]
<1>1. x # 0 /\ UNCHANGED <<mapPID, tmpMapPid, nameIdx, typeIdx, op, evict, repStop>>
  BY DEF UpdateStatus, UpdateVisibility, SetMaster, Others, tmpVars
<1>2. x \in 1..Made
  BY <1>1 DEF DirectoryInv, TableSound
<1>3. disps[x] \in Dispatchers
  BY <1>2, DispsTyped DEF DirectoryInv, TableTypes
<1>4. CASE UpdateStatus(u)
  <2> DEFINE r == [disps[x] EXCEPT !.status = "ready"]
  <2>1. disps' = [disps EXCEPT ![x] = r]
    BY <1>4 DEF UpdateStatus
  <2>2. r \in Dispatchers /\ r.uid = disps[x].uid /\ r.tmp = disps[x].tmp /\ r.closed = disps[x].closed
    BY <1>3 DEF Dispatchers
  <2> HIDE DEF r
  <2>3. QED
    BY <1>1, <2>1, <2>2, FieldSet
<1>5. CASE UpdateVisibility(u)
  <2> DEFINE r == [disps[x] EXCEPT !.vis = "node"]
  <2>1. disps' = [disps EXCEPT ![x] = r]
    BY <1>5 DEF UpdateVisibility
  <2>2. r \in Dispatchers /\ r.uid = disps[x].uid /\ r.tmp = disps[x].tmp /\ r.closed = disps[x].closed
    BY <1>3 DEF Dispatchers
  <2> HIDE DEF r
  <2>3. QED
    BY <1>1, <2>1, <2>2, FieldSet
<1>6. CASE SetMaster(u)
  <2> DEFINE r == [disps[x] EXCEPT !.master = ~@]
  <2>1. disps' = [disps EXCEPT ![x] = r]
    BY <1>6 DEF SetMaster
  <2>2. r \in Dispatchers /\ r.uid = disps[x].uid /\ r.tmp = disps[x].tmp /\ r.closed = disps[x].closed
    <3> DEFINE n == ~disps[x].master
    <3>1. n \in BOOLEAN /\ r = [disps[x] EXCEPT !.master = n]
      OBVIOUS
    <3> HIDE DEF n
    <3>2. QED
      BY <1>3, <3>1 DEF Dispatchers
  <2> HIDE DEF r
  <2>3. QED
    BY <1>1, <2>1, <2>2, FieldSet
<1>7. QED
  BY <1>4, <1>5, <1>6

LEMMA IndexSteps ==
    ASSUME DirectoryInv, NEW u \in Uids, IndexAdd(u) \/ RemoveService(u) \/ IndexRemove(u)
    PROVE  DirectoryInv' /\ TableMoves
<1>1. TableTypes /\ disps' = disps /\ UNCHANGED <<tmpMapPid, evict, repStop>> /\ Made \in Nat
      /\ disps \in [1..Made -> Dispatchers] /\ Made' = Made
  BY DispsTyped DEF DirectoryInv, TableTypes, IndexAdd, RemoveService, IndexRemove, Others, tmpVars, Made
<1>2. ASSUME NEW w \in Uids, w # u, op'[w] = op[w], mapPID'[w] = mapPID[w],
             (w \in nameIdx' <=> w \in nameIdx) /\ (w \in typeIdx' <=> w \in typeIdx)
      PROVE  TableSound(w)' /\ RunSound(w)'
  <2>1. TableSound(w) /\ RunSound(w)
    BY DEF DirectoryInv
  <2>2. TableSound(w)'
    BY <1>1, <1>2, <2>1 DEF TableSound
  <2>3. RunSound(w)'
    BY <1>1, <1>2, <2>1 DEF RunSound
  <2>4. QED
    BY <2>2, <2>3
<1>3. TableSound(u) /\ RunSound(u)
  BY DEF DirectoryInv
<1>4. CASE IndexAdd(u)
  <2>1. /\ mapPID' = mapPID /\ op[u] = "index" /\ op'[u] = "idle" /\ (\A w \in Uids \ {u} : op'[w] = op[w])
        /\ op' \in [Uids -> {"idle", "index", "close", "unindex"}]
        /\ nameIdx' = nameIdx \cup {u} /\ typeIdx' = typeIdx \cup {u}
    BY <1>1, <1>4 DEF IndexAdd, TableTypes
  <2>2. TableSound(u)' /\ RunSound(u)'
    <3>1. TableSound(u)'
      BY <1>1, <1>3, <2>1 DEF TableSound
    <3>2. RunSound(u)'
      BY <1>1, <1>3, <2>1 DEF RunSound, TableSound
    <3>3. QED
      BY <3>1, <3>2
  <2>3. DispatchersOwned'
    <3> SUFFICES ASSUME NEW e \in 1..Made', ~disps'[e].closed
                 PROVE  IF disps'[e].tmp THEN tmpMapPid'[disps'[e].uid] = e
                        ELSE mapPID'[disps'[e].uid] = e \/ op'[disps'[e].uid] = "close"
      BY DEF DispatchersOwned
    <3>1. e \in 1..Made /\ disps'[e] = disps[e] /\ disps[e].uid \in Uids
      BY <1>1, DispsTyped DEF TableTypes
    <3>2. IF disps[e].tmp THEN tmpMapPid[disps[e].uid] = e ELSE mapPID[disps[e].uid] = e \/ op[disps[e].uid] = "close"
      BY <3>1 DEF DirectoryInv, DispatchersOwned
    <3>3. CASE disps[e].uid = u
      BY <1>1, <2>1, <3>1, <3>2, <3>3
    <3>4. CASE disps[e].uid # u
      BY <1>1, <2>1, <3>1, <3>2, <3>4
    <3>5. QED
      BY <3>3, <3>4
  <2>4. TableTypes' /\ TableMoves
    BY <1>1, <2>1 DEF TableTypes, TableMoves
  <2>5. QED
    BY <1>2, <2>1, <2>2, <2>3, <2>4 DEF DirectoryInv
<1>5. CASE RemoveService(u)
  <2>1. /\ mapPID' \in [Uids -> Nat] /\ mapPID'[u] = 0 /\ (\A w \in Uids \ {u} : mapPID'[w] = mapPID[w])
        /\ op[u] = "idle" /\ op'[u] = "close" /\ (\A w \in Uids \ {u} : op'[w] = op[w])
        /\ op' \in [Uids -> {"idle", "index", "close", "unindex"}]
        /\ nameIdx' = nameIdx /\ typeIdx' = typeIdx /\ mapPID[u] # 0
    BY <1>1, <1>5 DEF RemoveService, Operate, TableTypes
  <2>2. TableSound(u)' /\ RunSound(u)'
    <3>1. TableSound(u)'
      BY <1>1, <1>3, <2>1 DEF TableSound
    <3>2. RunSound(u)'
      BY <1>1, <1>3, <2>1 DEF RunSound, TableSound
    <3>3. QED
      BY <3>1, <3>2
  <2>3. DispatchersOwned'
    <3> SUFFICES ASSUME NEW e \in 1..Made', ~disps'[e].closed
                 PROVE  IF disps'[e].tmp THEN tmpMapPid'[disps'[e].uid] = e
                        ELSE mapPID'[disps'[e].uid] = e \/ op'[disps'[e].uid] = "close"
      BY DEF DispatchersOwned
    <3>1. e \in 1..Made /\ disps'[e] = disps[e] /\ disps[e].uid \in Uids
      BY <1>1, DispsTyped DEF TableTypes
    <3>2. IF disps[e].tmp THEN tmpMapPid[disps[e].uid] = e ELSE mapPID[disps[e].uid] = e \/ op[disps[e].uid] = "close"
      BY <3>1 DEF DirectoryInv, DispatchersOwned
    <3>3. CASE disps[e].uid = u
      BY <1>1, <2>1, <3>1, <3>2, <3>3
    <3>4. CASE disps[e].uid # u
      BY <1>1, <2>1, <3>1, <3>2, <3>4
    <3>5. QED
      BY <3>3, <3>4
  <2>4. TableTypes' /\ TableMoves
    BY <1>1, <2>1 DEF TableTypes, TableMoves
  <2>5. QED
    BY <1>2, <2>1, <2>2, <2>3, <2>4 DEF DirectoryInv
<1>6. CASE IndexRemove(u)
  <2>1. /\ mapPID' = mapPID /\ op[u] = "unindex" /\ op'[u] = "idle" /\ (\A w \in Uids \ {u} : op'[w] = op[w])
        /\ op' \in [Uids -> {"idle", "index", "close", "unindex"}]
        /\ nameIdx' = nameIdx \ {u} /\ typeIdx' = typeIdx \ {u}
    BY <1>1, <1>6 DEF IndexRemove, TableTypes
  <2>2. TableSound(u)' /\ RunSound(u)'
    <3>1. TableSound(u)'
      BY <1>1, <1>3, <2>1 DEF TableSound
    <3>2. RunSound(u)'
      BY <1>1, <1>3, <2>1 DEF RunSound, TableSound
    <3>3. QED
      BY <3>1, <3>2
  <2>3. DispatchersOwned'
    <3> SUFFICES ASSUME NEW e \in 1..Made', ~disps'[e].closed
                 PROVE  IF disps'[e].tmp THEN tmpMapPid'[disps'[e].uid] = e
                        ELSE mapPID'[disps'[e].uid] = e \/ op'[disps'[e].uid] = "close"
      BY DEF DispatchersOwned
    <3>1. e \in 1..Made /\ disps'[e] = disps[e] /\ disps[e].uid \in Uids
      BY <1>1, DispsTyped DEF TableTypes
    <3>2. IF disps[e].tmp THEN tmpMapPid[disps[e].uid] = e ELSE mapPID[disps[e].uid] = e \/ op[disps[e].uid] = "close"
      BY <3>1 DEF DirectoryInv, DispatchersOwned
    <3>3. CASE disps[e].uid = u
      BY <1>1, <2>1, <3>1, <3>2, <3>3
    <3>4. CASE disps[e].uid # u
      BY <1>1, <2>1, <3>1, <3>2, <3>4
    <3>5. QED
      BY <3>3, <3>4
  <2>4. TableTypes' /\ TableMoves
    BY <1>1, <2>1 DEF TableTypes, TableMoves
  <2>5. QED
    BY <1>2, <2>1, <2>2, <2>3, <2>4 DEF DirectoryInv
<1>7. QED
  BY <1>4, <1>5, <1>6

LEMMA RemoveCloseKeeps ==
    ASSUME DirectoryInv, NEW u \in Uids, RemoveClose(u)
    PROVE  DirectoryInv' /\ TableMoves
<1>1. TableTypes /\ UNCHANGED <<tmpMapPid, evict, repStop, mapPID, nameIdx, typeIdx>> /\ Made \in Nat
      /\ disps \in Seq(Dispatchers) /\ disps \in [1..Made -> Dispatchers]
  BY DispsTyped DEF DirectoryInv, TableTypes, RemoveClose, Others, tmpVars
<1>2. \A r \in Dispatchers :
        LET q == [r EXCEPT !.closed = TRUE] IN
        q \in Dispatchers /\ q.uid = r.uid /\ q.tmp = r.tmp /\ q.status = r.status /\ q.closed
  BY DEF Dispatchers
<1>3. disps' \in [1..Made -> Dispatchers]
  BY <1>1, <1>2 DEF RemoveClose
<1>4. disps' \in Seq(Dispatchers) /\ Made' = Made
  BY <1>1, <1>3, DispsUpdated
<1>5. \A e \in 1..Made : disps'[e] = IF disps[e].uid = u /\ ~disps[e].tmp THEN [disps[e] EXCEPT !.closed = TRUE] ELSE disps[e]
  BY DEF RemoveClose
<1>6. \A e \in 1..Made : /\ disps'[e].uid = disps[e].uid /\ disps'[e].tmp = disps[e].tmp /\ disps'[e].status = disps[e].status
                         /\ disps[e].closed \/ (disps[e].uid = u /\ ~disps[e].tmp) => disps'[e].closed
                         /\ ~(disps[e].uid = u /\ ~disps[e].tmp) => disps'[e] = disps[e]
                         /\ disps[e].uid \in Uids
  <2> TAKE e \in 1..Made
  <2>1. disps[e] \in Dispatchers /\ disps[e].uid \in Uids
    BY <1>1, DispsTyped
  <2>2. QED
    BY <1>2, <1>5, <2>1
<1>7. op[u] = "close" /\ op'[u] \in {"idle", "unindex"} /\ (\A w \in Uids \ {u} : op'[w] = op[w])
      /\ op' \in [Uids -> {"idle", "index", "close", "unindex"}]
      /\ (op'[u] = "idle" => \A d \in 1..Made : disps[d].uid = u /\ ~disps[d].tmp => disps[d].closed)
  BY <1>1 DEF RemoveClose, TableTypes
<1>8. TableTypes'
  BY <1>1, <1>4, <1>7 DEF TableTypes
<1>9. DispatchersOwned'
  BY <1>1, <1>4, <1>6, <1>7 DEF DirectoryInv, DispatchersOwned
<1>10. ASSUME NEW w \in Uids PROVE TableSound(w)' /\ RunSound(w)'
  <2>1. TableSound(w) /\ RunSound(w) /\ TableSound(u) /\ RunSound(u)
    BY DEF DirectoryInv
  <2>2. TableSound(w)'
    <3>1. CASE w = u
      BY <1>1, <1>4, <1>6, <1>7, <2>1, <3>1 DEF TableSound
    <3>2. CASE w # u
      BY <1>1, <1>4, <1>6, <1>7, <2>1, <3>2 DEF TableSound
    <3>3. QED
      BY <3>1, <3>2
  <2>3. RunSound(w)'
    <3>1. CASE w = u
      <4>1. mapPID[u] = 0
        BY <1>7, <2>1 DEF TableSound
      <4>2. repStop.at = "run" => op'[u] = "unindex"
        BY <1>7, <2>1 DEF RunSound
      <4>3. QED
        BY <1>1, <3>1, <4>1, <4>2 DEF RunSound
    <3>2. CASE w # u
      <4>1. mapPID[w] # 0 /\ repStop.at = "run" => ~disps'[mapPID[w]].closed
        BY <1>6, <2>1, <3>2 DEF RunSound, TableSound
      <4>2. ASSUME repStop.at = "run", op[w] = "close"
            PROVE  \E d \in 1..Made' : disps'[d].uid = w /\ ~disps'[d].tmp /\ ~disps'[d].closed
        <5>1. PICK d \in 1..Made : disps[d].uid = w /\ ~disps[d].tmp /\ ~disps[d].closed
          BY <2>1, <4>2 DEF RunSound
        <5>2. disps'[d] = disps[d]
          BY <1>6, <3>2, <5>1
        <5>3. QED
          BY <1>4, <5>1, <5>2
      <4>3. op'[w] = op[w]
        BY <1>7, <3>2
      <4>4. QED
        BY <1>1, <2>1, <4>1, <4>2, <4>3 DEF RunSound
    <3>3. QED
      BY <3>1, <3>2
  <2>4. QED
    BY <2>2, <2>3
<1>11. TableMoves
  BY <1>1, <1>4, <1>6 DEF TableMoves
<1>12. QED
  BY <1>8, <1>9, <1>10, <1>11 DEF DirectoryInv

\* Closing one dispatcher.
LEMMA Closing1 ==
    ASSUME disps \in Seq(Dispatchers), NEW x \in 1..Made, disps' = CloseDispatcher(x)
    PROVE  /\ disps' \in Seq(Dispatchers) /\ Made' = Made
           /\ \A e \in 1..Made : /\ disps'[e].uid = disps[e].uid /\ disps'[e].tmp = disps[e].tmp
                                 /\ disps'[e].status = disps[e].status /\ (disps[e].closed => disps'[e].closed)
                                 /\ (e # x => disps'[e].closed = disps[e].closed)
           /\ disps'[x].closed
<1> DEFINE r == [disps[x] EXCEPT !.closed = TRUE]
<1>1. disps \in [1..Made -> Dispatchers]
  BY DispsTyped
<1>2. disps[x] \in Dispatchers
  BY <1>1
<1>3. r \in Dispatchers /\ r.uid = disps[x].uid /\ r.tmp = disps[x].tmp /\ r.status = disps[x].status /\ r.closed
  BY <1>2 DEF Dispatchers
<1>4. disps' = [disps EXCEPT ![x] = r]
  BY DEF CloseDispatcher
<1> HIDE DEF r
<1>5. disps' \in Seq(Dispatchers) /\ Made' = Made
  BY <1>1, <1>3, <1>4, DispsUpdated
<1>6. \A e \in 1..Made : disps'[e] = IF e = x THEN r ELSE disps[e]
  BY <1>1, <1>4
<1>7. QED
  BY <1>3, <1>5, <1>6

\* A temporary dispatcher leaves its map closed.
LEMMA DropTmpKeeps ==
    ASSUME DirectoryInv, NEW u \in Uids, tmpMapPid[u] # 0, DropTmp(u),
           UNCHANGED <<mapPID, nameIdx, typeIdx, op>>,
           evict' = evict \/ evict'.d = 0,
           repStop' \in [at : {"run", "table", "tmp", "senders", "stopped"}, left : SUBSET Uids],
           repStop'.left # {} => repStop'.at \in {"table", "tmp"},
           repStop'.at = "run" => repStop.at = "run"
    PROVE  DirectoryInv' /\ TableMoves
<1> DEFINE x == tmpMapPid[u]
<1>1. TableTypes /\ Made \in Nat /\ disps \in Seq(Dispatchers) /\ \A e \in 1..Made : disps[e].uid \in Uids
  BY DispsTyped DEF DirectoryInv, TableTypes
<1>2. x \in 1..Made /\ disps[x].uid = u /\ disps[x].tmp
  BY DEF DirectoryInv, TableSound
<1>3. disps' = CloseDispatcher(x) /\ tmpMapPid' \in [Uids -> Nat] /\ tmpMapPid'[u] = 0 /\ tmpMapPid[u] = x
      /\ (\A w \in Uids \ {u} : tmpMapPid'[w] = tmpMapPid[w])
  BY <1>1 DEF DropTmp, TableTypes
<1> HIDE DEF x
<1>4. /\ disps' \in Seq(Dispatchers) /\ Made' = Made
      /\ \A e \in 1..Made : /\ disps'[e].uid = disps[e].uid /\ disps'[e].tmp = disps[e].tmp
                            /\ disps'[e].status = disps[e].status /\ (disps[e].closed => disps'[e].closed)
                            /\ (e # x => disps'[e].closed = disps[e].closed)
      /\ disps'[x].closed
  BY <1>1, <1>2, <1>3, Closing1
<1>5. TableTypes'
  BY <1>1, <1>3, <1>4 DEF TableTypes
<1>6. DispatchersOwned'
  <2> SUFFICES ASSUME NEW e \in 1..Made', ~disps'[e].closed
               PROVE  IF disps'[e].tmp THEN tmpMapPid'[disps'[e].uid] = e
                      ELSE mapPID'[disps'[e].uid] = e \/ op'[disps'[e].uid] = "close"
    BY DEF DispatchersOwned
  <2>1. e \in 1..Made /\ e # x /\ disps'[e].uid = disps[e].uid /\ disps'[e].tmp = disps[e].tmp /\ ~disps[e].closed
        /\ disps[e].uid \in Uids
    BY <1>1, <1>4
  <2>2. IF disps[e].tmp THEN tmpMapPid[disps[e].uid] = e ELSE mapPID[disps[e].uid] = e \/ op[disps[e].uid] = "close"
    BY <2>1 DEF DirectoryInv, DispatchersOwned
  <2>3. disps[e].tmp => disps[e].uid # u
    BY <1>3, <2>1, <2>2
  <2>4. QED
    BY <1>3, <2>1, <2>2, <2>3
<1>7. ASSUME NEW w \in Uids PROVE TableSound(w)' /\ RunSound(w)'
  <2>1. TableSound(w) /\ RunSound(w)
    BY DEF DirectoryInv
  <2>2. TableSound(w)'
    BY <1>3, <1>4, <2>1 DEF TableSound
  <2>3. RunSound(w)'
    BY <1>2, <1>4, <2>1 DEF RunSound, TableSound
  <2>4. QED
    BY <2>2, <2>3
<1>8. TableMoves
  BY <1>1, <1>4 DEF TableMoves
<1>9. QED
  BY <1>5, <1>6, <1>7, <1>8 DEF DirectoryInv

LEMMA StopStepKeeps ==
    ASSUME DirectoryInv, NEW u \in Uids, StopStep(u)
    PROVE  DirectoryInv' /\ TableMoves
<1>1. TableTypes /\ Made \in Nat /\ disps \in Seq(Dispatchers) /\ \A e \in 1..Made : disps[e].uid \in Uids
  BY DispsTyped DEF DirectoryInv, TableTypes
<1>2. u \in repStop.left /\ repStop.at \in {"table", "tmp"} /\ UNCHANGED <<mapPID, nameIdx, typeIdx, op, evict>>
  BY <1>1 DEF StopStep, TableTypes
<1>3. /\ repStop' \in [at : {"run", "table", "tmp", "senders", "stopped"}, left : SUBSET Uids]
      /\ repStop'.left # {} => repStop'.at \in {"table", "tmp"}
      /\ repStop'.at # "run"
  <2>1. repStop'.at = (IF repStop.left # {u} THEN repStop.at ELSE IF repStop.at = "table" THEN "tmp" ELSE "senders")
        /\ repStop'.left = (IF repStop.left = {u} /\ repStop.at = "table" THEN Uids ELSE repStop.left \ {u})
    BY DEF StopStep
  <2>2. repStop'.at \in {"table", "tmp", "senders"} /\ repStop'.left \in SUBSET Uids
    BY <1>1, <1>2, <2>1 DEF TableTypes
  <2>3. repStop' = [at |-> repStop'.at, left |-> repStop'.left]
    BY DEF StopStep
  <2>4. QED
    BY <1>2, <2>1, <2>2, <2>3
<1>4. CASE repStop.at = "tmp" /\ tmpMapPid[u] # 0
  <2>1. DropTmp(u)
    BY <1>4 DEF StopStep
  <2>2. QED
    BY <1>2, <1>3, <1>4, <2>1, DropTmpKeeps
<1>5. CASE repStop.at = "table" /\ mapPID[u] # 0
  <2> DEFINE x == mapPID[u]
  <2>1. disps' = CloseDispatcher(x) /\ tmpMapPid' = tmpMapPid
    BY <1>5 DEF StopStep
  <2>2. x \in 1..Made /\ ~disps[x].tmp
    BY <1>5 DEF DirectoryInv, TableSound
  <2> HIDE DEF x
  <2>3. /\ disps' \in Seq(Dispatchers) /\ Made' = Made
        /\ \A e \in 1..Made : /\ disps'[e].uid = disps[e].uid /\ disps'[e].tmp = disps[e].tmp
                              /\ disps'[e].status = disps[e].status /\ (disps[e].closed => disps'[e].closed)
    BY <1>1, <2>1, <2>2, Closing1
  <2>4. TableTypes'
    BY <1>1, <1>2, <1>3, <2>1, <2>3 DEF TableTypes
  <2>5. DispatchersOwned'
    BY <1>1, <1>2, <2>1, <2>3 DEF DirectoryInv, DispatchersOwned
  <2>6. ASSUME NEW w \in Uids PROVE TableSound(w)' /\ RunSound(w)'
    <3>1. TableSound(w)
      BY DEF DirectoryInv
    <3>2. TableSound(w)'
      BY <1>2, <2>1, <2>3, <3>1 DEF TableSound
    <3>3. RunSound(w)'
      BY <1>3 DEF RunSound
    <3>4. QED
      BY <3>2, <3>3
  <2>7. TableMoves
    BY <1>1, <1>2, <2>3 DEF TableMoves
  <2>8. QED
    BY <2>4, <2>5, <2>6, <2>7 DEF DirectoryInv
<1>6. CASE ~(repStop.at = "tmp" /\ tmpMapPid[u] # 0) /\ ~(repStop.at = "table" /\ mapPID[u] # 0)
  <2>1. UNCHANGED <<disps, tmpMapPid>>
    BY <1>2, <1>6 DEF StopStep
  <2>2. TableTypes'
    BY <1>1, <1>2, <1>3, <2>1 DEF TableTypes
  <2>3. DispatchersOwned' /\ TableMoves
    BY <1>1, <1>2, <2>1 DEF DirectoryInv, DispatchersOwned, TableMoves, Made
  <2>4. ASSUME NEW w \in Uids PROVE TableSound(w)' /\ RunSound(w)'
    BY <1>2, <1>3, <2>1 DEF DirectoryInv, TableSound, RunSound, Made
  <2>5. QED
    BY <2>2, <2>3, <2>4 DEF DirectoryInv
<1>7. QED
  BY <1>2, <1>4, <1>5, <1>6

LEMMA TickDeleteKeeps ==
    ASSUME DirectoryInv, TickDelete
    PROVE  DirectoryInv' /\ TableMoves
<1>1. TableTypes /\ Made \in Nat /\ evict.uid \in Uids /\ evict'.d = 0
      /\ UNCHANGED <<mapPID, nameIdx, typeIdx, op, repStop>>
  BY DispsTyped DEF DirectoryInv, TableTypes, TickDelete
<1>2. CASE tmpMapPid[evict.uid] = evict.d
  <2>1. DropTmp(evict.uid) /\ tmpMapPid[evict.uid] # 0
    BY <1>2 DEF TickDelete
  <2>2. QED
    BY <1>1, <2>1, DropTmpKeeps DEF TableTypes
<1>3. CASE tmpMapPid[evict.uid] # evict.d
  <2>1. UNCHANGED <<disps, tmpMapPid>>
    BY <1>3 DEF TickDelete
  <2>2. TableTypes' /\ DispatchersOwned' /\ TableMoves
    BY <1>1, <2>1 DEF DirectoryInv, TableTypes, DispatchersOwned, TableMoves, Made
  <2>3. \A w \in Uids : TableSound(w)' /\ RunSound(w)'
    BY <1>1, <2>1 DEF DirectoryInv, TableSound, RunSound, Made
  <2>4. QED
    BY <2>2, <2>3 DEF DirectoryInv
<1>4. QED
  BY <1>2, <1>3

\* The steps that touch neither the table nor a dispatcher.
LEMMA TableUntouched ==
    ASSUME DirectoryInv, UNCHANGED <<tableVars, tmpMapPid>>,
           (evict'.d # 0 => evict'.uid \in Uids),
           repStop' \in [at : {"run", "table", "tmp", "senders", "stopped"}, left : SUBSET Uids],
           repStop'.left # {} => repStop'.at \in {"table", "tmp"},
           repStop'.at = "run" => repStop.at = "run"
    PROVE  DirectoryInv' /\ TableMoves
<1>1. TableTypes /\ Made \in Nat /\ UNCHANGED <<mapPID, disps, nameIdx, typeIdx, op, tmpMapPid>>
  BY DispsTyped DEF DirectoryInv, TableTypes, tableVars
<1>2. TableTypes' /\ DispatchersOwned' /\ TableMoves
  BY <1>1 DEF DirectoryInv, TableTypes, DispatchersOwned, TableMoves, Made
<1>3. \A w \in Uids : TableSound(w)' /\ RunSound(w)'
  BY <1>1 DEF DirectoryInv, TableSound, RunSound, Made
<1>4. QED
  BY <1>2, <1>3 DEF DirectoryInv

(***************************************************************************)
(* The selections.                                                         *)
(***************************************************************************)
\* A selection is sound across a step that is not its own.
LEMMA AskKept ==
    ASSUME DirectoryInv, DirectoryInv', TableMoves, Track, NEW c \in Askers, asker \in [Askers -> Asks], asker'[c] = asker[c],
           CallSound(c), SearchSound(c)
    PROVE  CallSound(c)' /\ SearchSound(c)'
<1>1. Made \in Nat /\ Made' \in Nat /\ Made' >= Made /\ asker[c] \in Asks
  BY DispsTyped DEF DirectoryInv, TableTypes, TableMoves, Made
<1>2. \A e \in 1..Made : e \in 1..Made' /\ disps'[e].uid = disps[e].uid
  BY <1>1 DEF TableMoves
<1>3. CallSound(c)'
  BY <1>1, <1>2 DEF CallSound
<1>4. FoundUids(c)' = FoundUids(c)
  BY <1>2 DEF FoundUids, CallSound
<1>5. asker[c].at \in {"visit", "check"} =>
        steady'[c] = steady[c] \cap Selectable(c)' /\ ready'[c] = ready[c] \cup EverReady'
  BY DEF Track
<1>6. asker[c].at = "found" => steady'[c] = steady[c] /\ ready'[c] = ready[c]
  BY DEF Track
<1>7. ASSUME asker[c].at \in {"visit", "check"}, asker[c].kind \in Searches
      PROVE  /\ steady'[c] \subseteq Selectable(c)' /\ EverReady' \subseteq ready'[c]
             /\ \A u \in steady'[c] : \/ u \in asker'[c].left \/ (asker'[c].at = "check" /\ asker'[c].cur = u)
                                      \/ u \in FoundUids(c)'
             /\ FoundUids(c)' \subseteq ready'[c] /\ asker'[c].chosen \subseteq ready'[c]
             /\ asker'[c].chosen # {} => /\ asker'[c].left \subseteq asker'[c].chosen
                                         /\ asker'[c].at = "check" => asker'[c].cur \in asker'[c].chosen
  BY <1>4, <1>5, <1>7 DEF SearchSound
<1>8. ASSUME asker[c].at = "check", asker[c].kind \in Searches
      PROVE  /\ asker'[c].cur \in steady'[c] => asker'[c].d = mapPID'[asker'[c].cur]
             /\ asker'[c].kind \in {"rule", "choice"} /\ disps'[asker'[c].d].status = "ready" =>
                  asker'[c].cur \in ready'[c]
  <2> DEFINE u == asker[c].cur
             d == asker[c].d
  <2>1. /\ d \in 1..Made /\ u \in Uids /\ disps[d].uid = u
        /\ steady[c] \subseteq Selectable(c)
        /\ u \in steady[c] => d = mapPID[u]
        /\ asker[c].kind \in {"rule", "choice"} /\ disps[d].status = "ready" => u \in ready[c]
    BY <1>8 DEF CallSound, SearchSound
  <2>2. u \in steady'[c] => u \in steady[c] /\ mapPID[u] # 0 /\ mapPID'[u] # 0
    BY <1>5, <1>8, <2>1 DEF Selectable
  <2>3. mapPID'[u] = mapPID[u] \/ mapPID[u] = 0 \/ mapPID'[u] = 0
    BY <2>1 DEF TableMoves
  <2>4. disps'[d].status = "ready" => disps[d].status = "ready" \/ mapPID'[u] = d
    BY <2>1 DEF TableMoves
  <2>5. disps'[d].status = "ready" /\ mapPID'[u] = d => u \in EverReady'
    BY <1>1, <2>1 DEF EverReady
  <2>6. ready'[c] = ready[c] \cup EverReady'
    BY <1>5, <1>8
  <2>7. QED
    BY <2>1, <2>2, <2>3, <2>4, <2>5, <2>6
<1>9. asker[c].at = "found" /\ asker[c].kind \in Searches =>
        steady'[c] \subseteq FoundUids(c)' /\ FoundUids(c)' \subseteq ready'[c]
  BY <1>4, <1>6 DEF SearchSound
<1>10. SearchSound(c)'
  BY <1>7, <1>8, <1>9 DEF SearchSound
<1>11. QED
  BY <1>3, <1>10

LEMMA AskBeginSound ==
    ASSUME RepInv, DirectoryInv', Track, NEW c \in Askers, AskBegin(c)
    PROVE  asker' \in [Askers -> Asks] /\ CallSound(c)' /\ SearchSound(c)' /\ \A b \in Askers \ {c} : asker'[b] = asker[b]
<1>1. PICK k \in AsksOf[c], t \in Uids, slaver \in BOOLEAN :
         /\ slaver => k = "name"
         /\ k \in {"uid", "route"} \/ t = CHOOSE u \in Uids : k \in {"rule", "choice"} \/ NameOf[u] = NameOf[t]
         /\ asker' = [asker EXCEPT ![c] = [NoAsk EXCEPT
                !.at = "visit", !.kind = k, !.target = t, !.slaver = slaver,
                !.left = CASE k = "name" -> {u \in nameIdx : NameOf[u] = NameOf[t]}
                           [] k = "type" -> {u \in typeIdx : TypeOf[u] = TypeOf[t]}
                           [] k \in {"rule", "choice"} -> Uids
                           [] OTHER -> {t}]]
         /\ readers' = IF k \in {"name", "type"} THEN readers \cup {c} ELSE readers
  BY Zenon DEF AskBegin
<1> DEFINE l == CASE k = "name" -> {u \in nameIdx : NameOf[u] = NameOf[t]}
                  [] k = "type" -> {u \in typeIdx : TypeOf[u] = TypeOf[t]}
                  [] k \in {"rule", "choice"} -> Uids
                  [] OTHER -> {t}
           r == [NoAsk EXCEPT !.at = "visit", !.kind = k, !.target = t, !.slaver = slaver, !.left = l]
<1>2. asker' = [asker EXCEPT ![c] = r] /\ k \in Kinds /\ asker \in [Askers -> Asks] /\ asker[c].at = "idle"
  BY <1>1, RepositoryAssumption DEF RepInv, Kinds, AskBegin
<1>3. nameIdx \subseteq Uids /\ typeIdx \subseteq Uids
  BY DEF RepInv, IndexTypes
<1>4. l \in SUBSET Uids
  BY <1>3
<1>5. /\ r.at = "visit" /\ r.kind = k /\ r.target = t /\ r.slaver = slaver /\ r.left = l
      /\ r.found = {} /\ r.chosen = {} /\ r \in Asks
  <2> HIDE DEF l
  <2>1. (CHOOSE u \in Uids : TRUE) \in Uids
    BY RepositoryAssumption
  <2>2. QED
    BY <1>2, <1>4, <2>1 DEF NoAsk, Asks, Stages
<1> HIDE DEF r
<1>6. asker'[c] = r /\ asker' \in [Askers -> Asks] /\ \A b \in Askers \ {c} : asker'[b] = asker[b]
  BY <1>2, <1>5
<1>7. steady'[c] = Selectable(c)' /\ ready'[c] = EverReady'
  BY <1>2 DEF Track
<1>8. UNCHANGED <<mapPID, disps, op, nameIdx, typeIdx>>
  BY DEF AskBegin, Asking, tableVars
<1>9. k \in Searches => Selectable(c)' \subseteq l
  <2> SUFFICES ASSUME k \in Searches, NEW u \in Selectable(c)' PROVE u \in l
    OBVIOUS
  <2>1. u \in Uids /\ mapPID[u] # 0 /\ op[u] = "idle" /\ Matches(c, u)'
    BY <1>8 DEF Selectable
  <2>2. u \in nameIdx /\ u \in typeIdx
    BY <2>1 DEF RepInv, DirectoryInv, TableSound
  <2>3. k = "name" => NameOf[u] = NameOf[t]
    BY <1>5, <1>6, <2>1 DEF Matches
  <2>4. k = "type" => TypeOf[u] = TypeOf[t]
    BY <1>5, <1>6, <2>1 DEF Matches
  <2>5. QED
    BY <2>1, <2>2, <2>3, <2>4 DEF Searches
<1> HIDE DEF l
<1>10. FoundUids(c)' = {}
  BY <1>5, <1>6 DEF FoundUids
<1>11. CallSound(c)'
  BY <1>1, <1>5, <1>6 DEF CallSound
<1>12. SearchSound(c)'
  BY <1>5, <1>6, <1>7, <1>9, <1>10 DEF SearchSound
<1>13. QED
  BY <1>6, <1>11, <1>12

LEMMA VisitSound ==
    ASSUME RepInv, DirectoryInv', Track, NEW c \in Askers, Visit(c)
    PROVE  asker' \in [Askers -> Asks] /\ CallSound(c)' /\ SearchSound(c)' /\ \A b \in Askers \ {c} : asker'[b] = asker[b]
<1>1. PICK u \in asker[c].left :
         LET d == IF asker[c].kind \in {"rule", "choice"} /\ asker[c].chosen = {} THEN mapPID[u] ELSE Lookup(u) IN
         asker' = [asker EXCEPT ![c].left = @ \ {u}, ![c].cur = u, ![c].d = d,
                                ![c].at = IF d = 0 THEN (IF asker[c].kind = "route" THEN "none" ELSE "visit") ELSE "check"]
  BY DEF Visit
<1> DEFINE a == asker[c]
           d == IF a.kind \in {"rule", "choice"} /\ a.chosen = {} THEN mapPID[u] ELSE Lookup(u)
           s == IF d = 0 THEN (IF a.kind = "route" THEN "none" ELSE "visit") ELSE "check"
           r == [a EXCEPT !.left = @ \ {u}, !.cur = u, !.d = d, !.at = s]
<1>2. a \in Asks /\ asker \in [Askers -> Asks] /\ u \in Uids /\ a.at = "visit" /\ CallSound(c) /\ SearchSound(c)
  BY DEF RepInv, Asks, Visit
<1>3. TableSound(u) /\ Made \in Nat /\ mapPID[u] \in Nat /\ tmpMapPid[u] \in Nat
  BY <1>2, DispsTyped DEF RepInv, DirectoryInv, TableTypes
<1>4. d \in Nat /\ (d # 0 => d \in 1..Made /\ disps[d].uid = u) /\ (d = mapPID[u] \/ mapPID[u] = 0 \/ Retired(mapPID[u]))
  BY <1>3 DEF TableSound, Lookup
<1>5. asker' = [asker EXCEPT ![c] = r]
  BY <1>1, <1>2
<1>6. s \in {"none", "visit", "check"} /\ (s = "check" <=> d # 0) /\ (s = "none" => a.kind = "route")
  OBVIOUS
<1>7. a.kind \in {"rule", "choice"} /\ a.chosen = {} => d = mapPID[u]
  OBVIOUS
<1>8. /\ r.left = a.left \ {u} /\ r.cur = u /\ r.d = d /\ r.at = s /\ r.kind = a.kind /\ r.chosen = a.chosen
      /\ r.found = a.found /\ r.slaver = a.slaver /\ r.target = a.target /\ r \in Asks
  <2> HIDE DEF a, d, s
  <2>1. QED
    BY <1>2, <1>4, <1>6 DEF Asks, Stages
<1>9. asker'[c] = r /\ asker' \in [Askers -> Asks] /\ \A b \in Askers \ {c} : asker'[b] = asker[b]
  <2> HIDE DEF r
  <2>1. QED
    BY <1>2, <1>5, <1>8
<1> HIDE DEF r, d, s
<1>10. UNCHANGED <<mapPID, disps, op>> /\ Made' = Made
  BY DEF Visit, Asking, tableVars, Made
<1>11. CallSound(c)'
  BY <1>2, <1>4, <1>6, <1>8, <1>9, <1>10 DEF CallSound
<1>12. FoundUids(c)' = FoundUids(c) /\ Selectable(c)' = Selectable(c) /\ EverReady' = EverReady
  BY <1>8, <1>9, <1>10 DEF FoundUids, Selectable, EverReady, Matches
<1>13. steady'[c] = steady[c] \cap Selectable(c) /\ ready'[c] = ready[c] \cup EverReady
  BY <1>2, <1>12 DEF Track
<1>14. u \in Selectable(c) => d = mapPID[u] /\ d # 0
  BY <1>4 DEF Selectable, Retired
<1>15. ASSUME a.kind \in Searches
       PROVE  /\ steady'[c] \subseteq Selectable(c)' /\ EverReady' \subseteq ready'[c]
              /\ \A v \in steady'[c] : v \in r.left \/ (r.at = "check" /\ r.cur = v) \/ v \in FoundUids(c)'
              /\ FoundUids(c)' \subseteq ready'[c] /\ r.chosen \subseteq ready'[c]
              /\ r.chosen # {} => r.left \subseteq r.chosen /\ r.cur \in r.chosen
              /\ r.cur \in steady'[c] => r.d = mapPID'[r.cur]
              /\ r.at = "check" /\ r.kind \in {"rule", "choice"} /\ disps'[r.d].status = "ready" => r.cur \in ready'[c]
  <2>1. /\ \A v \in steady[c] : v \in a.left \/ v \in FoundUids(c)
        /\ FoundUids(c) \subseteq ready[c] /\ a.chosen \subseteq ready[c]
        /\ a.chosen # {} => a.left \subseteq a.chosen
    BY <1>2, <1>15 DEF SearchSound
  <2>2. \A v \in steady'[c] : v \in r.left \/ (r.at = "check" /\ r.cur = v) \/ v \in FoundUids(c)'
    BY <1>6, <1>8, <1>12, <1>13, <1>14, <2>1
  <2>3. r.at = "check" /\ r.kind \in {"rule", "choice"} /\ disps'[r.d].status = "ready" => r.cur \in ready'[c]
    <3>1. CASE a.chosen = {}
      <4>1. d # 0 /\ d = mapPID[u] /\ disps[d].status = "ready" => u \in EverReady
        BY <1>2 DEF EverReady
      <4>2. QED
        BY <1>6, <1>7, <1>8, <1>10, <1>13, <3>1, <4>1
    <3>2. CASE a.chosen # {}
      BY <1>1, <1>8, <1>13, <2>1, <3>2
    <3>3. QED
      BY <3>1, <3>2
  <2>4. QED
    BY <1>1, <1>8, <1>10, <1>12, <1>13, <1>14, <2>1, <2>2, <2>3
<1>16. SearchSound(c)'
  BY <1>6, <1>8, <1>9, <1>15 DEF SearchSound
<1>17. QED
  BY <1>9, <1>11, <1>16

LEMMA CheckSound ==
    ASSUME RepInv, DirectoryInv', Track, NEW c \in Askers, Check(c)
    PROVE  asker' \in [Askers -> Asks] /\ CallSound(c)' /\ SearchSound(c)' /\ \A b \in Askers \ {c} : asker'[b] = asker[b]
<1> DEFINE a == asker[c]
           s == IF a.kind = "rule" /\ Retired(a.d) /\ disps[a.d].status = "ready" THEN "panic" ELSE "visit"
           f == IF Passes(c) /\ ~(a.kind = "rule" /\ Retired(a.d)) THEN a.found \cup {a.d} ELSE a.found
           r == [a EXCEPT !.at = s, !.found = f]
           u == a.cur
<1>1. a \in Asks /\ asker \in [Askers -> Asks] /\ a.at = "check" /\ CallSound(c) /\ SearchSound(c)
      /\ asker' = [asker EXCEPT ![c] = r]
  BY DEF RepInv, Check
<1>2. a.d \in 1..Made /\ u \in Uids /\ disps[a.d].uid = u /\ a.found \subseteq 1..Made /\ (a.slaver => a.kind = "name")
      /\ Made \in Nat
  BY <1>1, DispsTyped DEF CallSound, RepInv, DirectoryInv, TableTypes
<1>3. s \in {"panic", "visit"} /\ f \subseteq 1..Made /\ (f = a.found \/ f = a.found \cup {a.d})
  BY <1>2
<1>4. r.at = s /\ r.found = f /\ r.left = a.left /\ r.kind = a.kind /\ r.chosen = a.chosen /\ r.slaver = a.slaver
      /\ r.target = a.target /\ r \in Asks
  <2> HIDE DEF a, s, f
  <2>1. 1..Made \subseteq Nat
    OBVIOUS
  <2>2. QED
    BY <1>1, <1>3, <2>1 DEF Asks, Stages
<1>5. asker'[c] = r /\ asker' \in [Askers -> Asks] /\ \A b \in Askers \ {c} : asker'[b] = asker[b]
  <2> HIDE DEF r
  <2>1. QED
    BY <1>1, <1>4
<1> HIDE DEF r
<1>6. UNCHANGED <<mapPID, disps, op>> /\ Made' = Made
  BY DEF Check, Asking, tableVars, Made
<1>7. CallSound(c)'
  BY <1>2, <1>3, <1>4, <1>5, <1>6 DEF CallSound
<1>8. Selectable(c)' = Selectable(c) /\ EverReady' = EverReady
  BY <1>4, <1>5, <1>6 DEF Selectable, EverReady, Matches
<1>9. FoundUids(c)' = {disps[d].uid : d \in f} /\ FoundUids(c) = {disps[d].uid : d \in a.found}
  BY <1>4, <1>5, <1>6 DEF FoundUids
<1>10. steady'[c] = steady[c] \cap Selectable(c) /\ ready'[c] = ready[c] \cup EverReady
  BY <1>1, <1>8 DEF Track
<1>11. ASSUME a.kind \in Searches
       PROVE  /\ \A v \in steady'[c] : v \in r.left \/ v \in FoundUids(c)'
              /\ FoundUids(c)' \subseteq ready'[c] /\ r.chosen \subseteq ready'[c]
              /\ r.chosen # {} => r.left \subseteq r.chosen
  <2>1. /\ \A v \in steady[c] : v \in a.left \/ u = v \/ v \in FoundUids(c)
        /\ FoundUids(c) \subseteq ready[c] /\ a.chosen \subseteq ready[c] /\ EverReady \subseteq ready[c]
        /\ a.chosen # {} => a.left \subseteq a.chosen
        /\ steady[c] \subseteq Selectable(c)
        /\ u \in steady[c] => a.d = mapPID[u]
        /\ a.kind \in {"rule", "choice"} /\ disps[a.d].status = "ready" => u \in ready[c]
        /\ a.chosen # {} => u \in a.chosen
    BY <1>1, <1>11 DEF SearchSound
  <2>2. u \in steady[c] => Passes(c) /\ ~Retired(a.d)
    <3> SUFFICES ASSUME u \in steady[c] PROVE Passes(c) /\ ~Retired(a.d)
      OBVIOUS
    <3>1. /\ a.d = mapPID[u] /\ mapPID[u] # 0 /\ Matches(c, u) /\ disps[a.d].status = "ready" /\ ~disps[a.d].closed
          /\ a.kind = "choice" \/ disps[a.d].master = ~a.slaver
      BY <2>1 DEF Selectable
    <3>2. a.kind # "name" => ~a.slaver
      BY <1>2
    <3>3. a.kind \in {"type", "rule"} => disps[a.d].master
      BY <3>1, <3>2
    <3>4. CASE a.kind = "name"
      BY <3>1, <3>4 DEF Passes, Retired, IsSelectable
    <3>5. CASE a.kind \in {"type", "rule", "choice"}
      BY <3>1, <3>3, <3>5 DEF Passes, Retired, IsSelectable
    <3>6. QED
      BY <1>11, <3>1, <3>4, <3>5 DEF Searches, Retired
  <2>3. Passes(c) => u \in ready[c]
    <3> SUFFICES ASSUME Passes(c) PROVE u \in ready[c]
      OBVIOUS
    <3>1. CASE a.kind = "name" \/ a.kind = "type"
      <4>1. IsSelectable(u)
        BY <3>1 DEF Passes
      <4>2. QED
        BY <1>2, <2>1, <4>1 DEF IsSelectable, EverReady
    <3>2. CASE a.kind = "rule" \/ a.kind = "choice"
      <4>1. disps[a.d].status = "ready" \/ a.chosen # {}
        BY <3>2 DEF Passes
      <4>2. QED
        BY <2>1, <3>2, <4>1
    <3>3. QED
      BY <1>11, <3>1, <3>2 DEF Searches
  <2>4. f # a.found => Passes(c)
    OBVIOUS
  <2>5. u \in steady[c] => a.d \in f
    BY <2>2
  <2> HIDE DEF f, s
  <2>6. FoundUids(c) \subseteq FoundUids(c)' /\ FoundUids(c)' \subseteq FoundUids(c) \cup {u}
        /\ (a.d \in f => u \in FoundUids(c)') /\ (f = a.found => FoundUids(c)' = FoundUids(c))
    BY <1>2, <1>3, <1>9
  <2>7. QED
    BY <1>4, <1>10, <2>1, <2>3, <2>4, <2>5, <2>6
<1>12. SearchSound(c)'
  <2>1. asker'[c].at \in {"panic", "visit"} /\ asker'[c].kind = a.kind
    BY <1>3, <1>4, <1>5
  <2>2. a.kind \in Searches => EverReady' \subseteq ready'[c] /\ steady'[c] \subseteq Selectable(c)'
    BY <1>8, <1>10
  <2>3. QED
    BY <1>5, <1>11, <2>1, <2>2 DEF SearchSound
<1>13. QED
  BY <1>5, <1>7, <1>12

LEMMA AskEndSound ==
    ASSUME RepInv, DirectoryInv', Track, NEW c \in Askers, AskEnd(c)
    PROVE  asker' \in [Askers -> Asks] /\ CallSound(c)' /\ SearchSound(c)' /\ \A b \in Askers \ {c} : asker'[b] = asker[b]
<1> DEFINE a == asker[c]
           U == {disps[d].uid : d \in a.found}
<1>1. a \in Asks /\ asker \in [Askers -> Asks] /\ a.at = "visit" /\ a.left = {} /\ CallSound(c) /\ SearchSound(c)
  BY DEF RepInv, AskEnd
<1>2. UNCHANGED <<mapPID, disps, op>> /\ Made' = Made /\ Made \in Nat /\ \A d \in 1..Made : disps[d].uid \in Uids
  BY DispsTyped DEF AskEnd, Asking, tableVars, Made, RepInv, DirectoryInv, TableTypes
<1>3. U \in SUBSET Uids /\ FoundUids(c) = U /\ (U = {} <=> a.found = {})
  BY <1>1, <1>2 DEF CallSound, FoundUids
<1>4. a.kind \in Searches =>
        /\ steady[c] \subseteq U /\ U \subseteq ready[c] /\ a.chosen \subseteq ready[c]
        /\ steady[c] \subseteq Selectable(c) /\ EverReady \subseteq ready[c]
  BY <1>1, <1>3 DEF SearchSound
<1>5. CASE a.kind = "choice" /\ a.chosen = {} /\ a.found # {}
  <2> DEFINE r == [a EXCEPT !.chosen = U, !.left = U, !.found = {}]
  <2>1. asker' = [asker EXCEPT ![c] = r]
    BY <1>1, <1>5 DEF AskEnd
  <2>2. /\ r.chosen = U /\ r.left = U /\ r.found = {} /\ r.at = "visit" /\ r.kind = a.kind /\ r.slaver = a.slaver
        /\ r.target = a.target /\ r \in Asks
    <3> HIDE DEF U, a
    <3>1. QED
      BY <1>1, <1>3 DEF Asks
  <2> HIDE DEF r, U
  <2>3. asker'[c] = r /\ asker' \in [Askers -> Asks] /\ \A b \in Askers \ {c} : asker'[b] = asker[b]
    BY <1>1, <2>1, <2>2
  <2>4. CallSound(c)'
    BY <1>1, <2>2, <2>3 DEF CallSound
  <2>5. Selectable(c)' = Selectable(c) /\ EverReady' = EverReady
    BY <1>2, <2>2, <2>3 DEF Selectable, EverReady, Matches
  <2>6. steady'[c] = steady[c] \cap Selectable(c) /\ ready'[c] = ready[c] \cup EverReady
    BY <1>1, <2>5 DEF Track
  <2>7. FoundUids(c)' = {}
    BY <2>2, <2>3 DEF FoundUids
  <2>8. SearchSound(c)'
    BY <1>4, <2>2, <2>3, <2>5, <2>6, <2>7 DEF SearchSound
  <2>9. QED
    BY <2>3, <2>4, <2>8
<1>6. CASE ~(a.kind = "choice" /\ a.chosen = {} /\ a.found # {})
  <2> DEFINE r == [a EXCEPT !.at = "found"]
  <2>1. asker' = [asker EXCEPT ![c] = r]
    BY <1>1, <1>6 DEF AskEnd
  <2>2. /\ r.found = a.found /\ r.at = "found" /\ r.kind = a.kind /\ r.slaver = a.slaver /\ r.target = a.target
        /\ r \in Asks
    BY <1>1 DEF Asks, Stages
  <2> HIDE DEF r, U
  <2>3. asker'[c] = r /\ asker' \in [Askers -> Asks] /\ \A b \in Askers \ {c} : asker'[b] = asker[b]
    BY <1>1, <2>1, <2>2
  <2>4. CallSound(c)'
    BY <1>1, <1>2, <2>2, <2>3 DEF CallSound
  <2>5. Selectable(c)' = Selectable(c) /\ EverReady' = EverReady
    BY <1>2, <2>2, <2>3 DEF Selectable, EverReady, Matches
  <2>6. steady'[c] = steady[c] \cap Selectable(c) /\ ready'[c] = ready[c] \cup EverReady
    BY <1>1, <2>5 DEF Track
  <2>7. FoundUids(c)' = FoundUids(c)
    BY <1>2, <2>2, <2>3 DEF FoundUids
  <2>8. SearchSound(c)'
    BY <1>3, <1>4, <2>2, <2>3, <2>6, <2>7 DEF SearchSound
  <2>9. QED
    BY <2>3, <2>4, <2>8
<1>7. QED
  BY <1>5, <1>6

\* A selection that has found what it looks for, or that looks for none, does not search.
LEMMA NotSearching ==
    ASSUME NEW c \in Askers,
           asker'[c].at \in {"idle", "sender", "create", "panic"} \/ (asker'[c].at = "found" /\ asker'[c].kind = "route")
    PROVE  SearchSound(c)'
BY DEF SearchSound, Searches

LEMMA AddTmpSound ==
    ASSUME RepInv, Track, NEW c \in Askers, AddTmp(c)
    PROVE  /\ DirectoryInv' /\ TableMoves
           /\ asker' \in [Askers -> Asks] /\ CallSound(c)' /\ SearchSound(c)' /\ \A b \in Askers \ {c} : asker'[b] = asker[b]
<1> DEFINE a == asker[c]
           u == a.cur
<1>1. /\ a \in Asks /\ asker \in [Askers -> Asks] /\ a.at = "none" /\ CallSound(c) /\ a.kind = "route" /\ u \in Uids
      /\ a.found \subseteq 1..Made
  BY DEF RepInv, AddTmp, CallSound
<1>2. DirectoryInv /\ TableTypes /\ Made \in Nat /\ UNCHANGED <<mapPID, nameIdx, typeIdx, op, evict, repStop>>
      /\ disps \in [1..Made -> Dispatchers] /\ TableSound(u) /\ tmpMapPid[u] \in Nat
  BY <1>1, DispsTyped DEF RepInv, DirectoryInv, TableTypes, AddTmp
<1>3. CASE u \in HomeUids
  <2> DEFINE r == [a EXCEPT !.at = "found"]
  <2>1. asker' = [asker EXCEPT ![c] = r] /\ UNCHANGED <<disps, tmpMapPid>>
    BY <1>3 DEF AddTmp
  <2>2. r.found = a.found /\ r.at = "found" /\ r.kind = a.kind /\ r.slaver = a.slaver /\ r \in Asks
    BY <1>1 DEF Asks, Stages
  <2> HIDE DEF r
  <2>3. asker'[c] = r /\ asker' \in [Askers -> Asks] /\ \A b \in Askers \ {c} : asker'[b] = asker[b]
    BY <1>1, <2>1, <2>2
  <2>4. CallSound(c)'
    BY <1>1, <2>1, <2>2, <2>3 DEF CallSound, Made
  <2>5. DirectoryInv' /\ TableMoves
    BY <1>2, <2>1, TableUntouched DEF tableVars, TableTypes
  <2>6. QED
    BY <1>1, <2>2, <2>3, <2>4, <2>5, NotSearching
<1>4. CASE u \notin HomeUids
  <2> DEFINE n == NewDispatcher(u, TRUE, "ready", "cluster", FALSE)
             x == IF tmpMapPid[u] = 0 THEN Made + 1 ELSE tmpMapPid[u]
             r == [a EXCEPT !.at = "found", !.found = {x}]
  <2>1. /\ disps' = IF tmpMapPid[u] = 0 THEN Append(disps, n) ELSE disps
        /\ tmpMapPid' = [tmpMapPid EXCEPT ![u] = x]
        /\ asker' = [asker EXCEPT ![c].at = "found", ![c].found = {tmpMapPid'[u]}]
    BY <1>4 DEF AddTmp
  <2>2. tmpMapPid'[u] = x /\ tmpMapPid' \in [Uids -> Nat] /\ (\A w \in Uids \ {u} : tmpMapPid'[w] = tmpMapPid[w])
        /\ x \in Nat
    BY <1>1, <1>2, <2>1 DEF TableTypes
  <2>3. asker' = [asker EXCEPT ![c] = r]
    BY <1>1, <2>1, <2>2
  <2>4. r.found = {x} /\ r.at = "found" /\ r.kind = a.kind /\ r.slaver = a.slaver /\ r \in Asks
    <3> HIDE DEF x
    <3>1. QED
      BY <1>1, <2>2 DEF Asks, Stages
  <2>5. n \in Dispatchers /\ n.uid = u /\ n.tmp /\ ~n.closed
    BY <1>1 DEF NewDispatcher, Dispatchers
  <2> HIDE DEF r, n
  <2>6. asker'[c] = r /\ asker' \in [Askers -> Asks] /\ \A b \in Askers \ {c} : asker'[b] = asker[b]
    BY <1>1, <2>3, <2>4
  <2>7. CASE tmpMapPid[u] = 0
    <3>1. /\ disps' \in Seq(Dispatchers) /\ Made' = Made + 1 /\ disps'[Made + 1] = n
          /\ \A e \in 1..Made : disps'[e] = disps[e]
      BY <1>2, <2>1, <2>5, <2>7, DispsAppended DEF TableTypes
    <3>2. x = Made + 1
      BY <2>7
    <3>3. TableTypes'
      BY <1>2, <2>2, <3>1 DEF TableTypes
    <3>4. DispatchersOwned'
      <4> SUFFICES ASSUME NEW e \in 1..Made', ~disps'[e].closed
                   PROVE  IF disps'[e].tmp THEN tmpMapPid'[disps'[e].uid] = e
                          ELSE mapPID'[disps'[e].uid] = e \/ op'[disps'[e].uid] = "close"
        BY DEF DispatchersOwned
      <4>1. CASE e = Made + 1
        BY <2>2, <2>5, <3>1, <3>2, <4>1
      <4>2. CASE e # Made + 1
        <5>1. e \in 1..Made /\ disps'[e] = disps[e] /\ disps[e].uid \in Uids
          BY <1>2, <3>1, <4>2, DispsTyped DEF TableTypes
        <5>2. disps[e].tmp => disps[e].uid # u
          BY <1>2, <2>7, <4>2, <5>1 DEF DirectoryInv, DispatchersOwned
        <5>3. QED
          BY <1>2, <2>2, <5>1, <5>2 DEF DirectoryInv, DispatchersOwned
      <4>3. QED
        BY <4>1, <4>2
    <3>5. ASSUME NEW w \in Uids PROVE TableSound(w)' /\ RunSound(w)'
      <4>1. TableSound(w) /\ RunSound(w)
        BY <1>2 DEF DirectoryInv
      <4>2. TableSound(w)'
        <5>1. CASE w = u
          BY <1>2, <2>2, <2>5, <3>1, <3>2, <4>1, <5>1 DEF TableSound
        <5>2. CASE w # u
          BY <1>2, <2>2, <3>1, <4>1, <5>2 DEF TableSound
        <5>3. QED
          BY <5>1, <5>2
      <4>3. RunSound(w)'
        BY <1>2, <3>1, <4>1 DEF RunSound, TableSound
      <4>4. QED
        BY <4>2, <4>3
    <3>6. TableMoves
      BY <1>2, <3>1 DEF TableMoves
    <3>7. CallSound(c)'
      BY <1>1, <1>2, <2>4, <2>6, <3>1, <3>2 DEF CallSound
    <3>8. QED
      BY <1>1, <2>4, <2>6, <3>3, <3>4, <3>5, <3>6, <3>7, NotSearching DEF DirectoryInv
  <2>8. CASE tmpMapPid[u] # 0
    <3>1. disps' = disps /\ tmpMapPid' = tmpMapPid
      BY <1>1, <1>2, <2>1, <2>8 DEF TableTypes
    <3>2. DirectoryInv' /\ TableMoves
      BY <1>2, <3>1, TableUntouched DEF tableVars, TableTypes
    <3>3. x \in 1..Made
      BY <1>2, <2>8 DEF TableSound
    <3>4. CallSound(c)'
      BY <1>1, <2>4, <2>6, <3>1, <3>3 DEF CallSound, Made
    <3>5. QED
      BY <1>1, <2>4, <2>6, <3>2, <3>4, NotSearching
  <2>9. QED
    BY <2>7, <2>8
<1>5. QED
  BY <1>3, <1>4

LEMMA DeliverySound ==
    ASSUME RepInv, NEW c \in Askers, DeliverTo(c) \/ GetSender(c) \/ AddSenderHandler(c)
    PROVE  asker' \in [Askers -> Asks] /\ CallSound(c)' /\ SearchSound(c)' /\ \A b \in Askers \ {c} : asker'[b] = asker[b]
<1> DEFINE a == asker[c]
<1>1. a \in Asks /\ asker \in [Askers -> Asks] /\ CallSound(c) /\ a.found \subseteq 1..Made /\ (a.slaver => a.kind = "name")
      /\ (a.at \in {"sender", "create"} => a.d \in 1..Made)
  BY DEF RepInv, CallSound
<1>2. disps' = disps /\ Made' = Made /\ Made \in Nat
  BY DispsTyped DEF DeliverTo, GetSender, AddSenderHandler, Asking, tableVars, Made, RepInv, DirectoryInv,
     TableTypes
<1>3. NoAsk \in Asks /\ NoAsk.at = "idle" /\ NoAsk.found = {} /\ ~NoAsk.slaver
  <2>1. (CHOOSE u \in Uids : TRUE) \in Uids
    BY RepositoryAssumption
  <2>2. QED
    BY <2>1 DEF NoAsk, Asks, Stages, Kinds
<1>4. ASSUME NEW r \in Asks, asker' = [asker EXCEPT ![c] = r], r.at \in {"idle", "sender", "create", "panic"},
             r.found \subseteq 1..Made, r.at \in {"sender", "create"} => r.d \in 1..Made, r.slaver => r.kind = "name"
      PROVE  asker' \in [Askers -> Asks] /\ CallSound(c)' /\ SearchSound(c)' /\ \A b \in Askers \ {c} : asker'[b] = asker[b]
  <2>1. asker'[c] = r /\ asker' \in [Askers -> Asks] /\ \A b \in Askers \ {c} : asker'[b] = asker[b]
    BY <1>1, <1>4
  <2>2. CallSound(c)'
    BY <1>2, <1>4, <2>1 DEF CallSound
  <2>3. QED
    BY <1>4, <2>1, <2>2, NotSearching
<1>5. CASE asker' = [asker EXCEPT ![c] = NoAsk]
  BY <1>3, <1>4, <1>5
<1>6. CASE DeliverTo(c) /\ asker' # [asker EXCEPT ![c] = NoAsk]
  <2>1. PICK d \in a.found : asker' = [asker EXCEPT ![c] = IF Retired(d) THEN NoAsk ELSE [@ EXCEPT !.at = "sender", !.d = d]]
    BY <1>6 DEF DeliverTo
  <2> DEFINE r == [a EXCEPT !.at = "sender", !.d = d]
  <2>2. ~Retired(d)
    BY <1>6, <2>1
  <2>3. asker' = [asker EXCEPT ![c] = r]
    BY <2>1, <2>2
  <2>4. d \in 1..Made /\ d \in Nat
    BY <1>1
  <2>5. r \in Asks /\ r.at = "sender" /\ r.d = d /\ r.found = a.found /\ r.slaver = a.slaver /\ r.kind = a.kind
    <3> HIDE DEF a
    <3>1. QED
      BY <1>1, <2>4 DEF Asks, Stages
  <2> HIDE DEF r
  <2>6. QED
    BY <1>1, <1>4, <2>3, <2>4, <2>5
<1>7. CASE GetSender(c) /\ asker' # [asker EXCEPT ![c] = NoAsk]
  <2>1. PICK s \in {"panic", "create"} : asker' = [asker EXCEPT ![c] = [@ EXCEPT !.at = s]]
    <3> DEFINE u == disps[a.d].uid
    <3>1. asker' = [asker EXCEPT ![c] =
                      CASE u \in HomeUids                    -> NoAsk
                        [] u \notin HomeUids /\ Retired(a.d) -> [@ EXCEPT !.at = "panic"]
                        [] u \notin HomeUids /\ ~Retired(a.d) /\ senders[AddrOf[u]] # 0 -> NoAsk
                        [] OTHER                             -> [@ EXCEPT !.at = "create"]]
      BY <1>7 DEF GetSender
    <3>2. CASE u \in HomeUids
      BY <1>7, <3>1, <3>2
    <3>3. CASE u \notin HomeUids /\ Retired(a.d)
      BY <3>1, <3>3
    <3>4. CASE u \notin HomeUids /\ ~Retired(a.d) /\ senders[AddrOf[u]] # 0
      BY <1>7, <3>1, <3>4
    <3>5. CASE u \notin HomeUids /\ ~Retired(a.d) /\ ~(senders[AddrOf[u]] # 0)
      BY <3>1, <3>5
    <3>6. QED
      BY <3>2, <3>3, <3>4, <3>5
  <2> DEFINE r == [a EXCEPT !.at = s]
  <2>2. a.at = "sender"
    BY <1>7 DEF GetSender
  <2>3. r \in Asks /\ r.at = s /\ r.d = a.d /\ r.found = a.found /\ r.slaver = a.slaver /\ r.kind = a.kind
    <3> HIDE DEF a
    <3>1. QED
      BY <1>1 DEF Asks, Stages
  <2>4. asker' = [asker EXCEPT ![c] = r]
    BY <2>1
  <2> HIDE DEF r
  <2>5. QED
    BY <1>1, <1>4, <2>2, <2>3, <2>4
<1>8. CASE AddSenderHandler(c)
  BY <1>5, <1>8 DEF AddSenderHandler
<1>9. QED
  BY <1>5, <1>6, <1>7, <1>8

(***************************************************************************)
(* The senders.                                                            *)
(***************************************************************************)
LEMMA AddSenderKeeps ==
    ASSUME RepInv, NEW c \in Askers, AddSenderHandler(c)
    PROVE  SendersOwned'
<1> DEFINE a == AddrOf[disps[asker[c].d].uid]
           n == Len(sent) + 1
           e == [addr |-> a, closed |-> FALSE]
<1>1. asker[c].d \in 1..Made
  BY DEF AddSenderHandler, RepInv, CallSound
<1>2. disps[asker[c].d].uid \in Uids
  BY <1>1, DispsTyped DEF RepInv, DirectoryInv, TableTypes
<1>3. a \in Addrs /\ senders \in [Addrs -> Nat] /\ sent \in Seq(Sents)
      /\ \A i \in 1..Len(sent) : ~sent[i].closed => senders[sent[i].addr] = i
  BY <1>2 DEF Addrs, RepInv, SendersOwned
<1>4. CASE senders[a] # 0
  BY <1>3, <1>4 DEF AddSenderHandler, SendersOwned, senderVars
<1>5. CASE senders[a] = 0
  <2>1. sent' = Append(sent, e) /\ senders' = [senders EXCEPT ![a] = n]
    BY <1>5 DEF AddSenderHandler
  <2>2. e \in Sents /\ e.addr = a /\ ~e.closed
    BY <1>3 DEF Sents
  <2> HIDE DEF a, e
  <2>3. sent' \in Seq(Sents) /\ Len(sent') = n /\ sent'[n] = e
        /\ (\A i \in 1..Len(sent) : sent'[i] = sent[i]) /\ Len(sent) \in Nat
    BY <1>3, <2>1, <2>2
  <2>4. senders' \in [Addrs -> Nat] /\ senders'[a] = n /\ \A b \in Addrs \ {a} : senders'[b] = senders[b]
    BY <1>3, <2>1, <2>3
  <2>5. ASSUME NEW i \in 1..Len(sent'), ~sent'[i].closed PROVE senders'[sent'[i].addr] = i
    <3>1. CASE i = n
      BY <2>2, <2>3, <2>4, <3>1
    <3>2. CASE i # n
      <4>1. i \in 1..Len(sent) /\ sent'[i] = sent[i]
        BY <2>3, <3>2
      <4>2. sent[i] \in Sents /\ senders[sent[i].addr] = i
        BY <1>3, <2>5, <4>1
      <4>3. sent[i].addr \in Addrs
        BY <4>2 DEF Sents
      <4>4. QED
        BY <1>5, <2>4, <4>1, <4>2, <4>3
    <3>3. QED
      BY <3>1, <3>2
  <2>6. QED
    BY <2>3, <2>4, <2>5 DEF SendersOwned
<1>6. QED
  BY <1>4, <1>5

LEMMA SendersCloseKeeps ==
    ASSUME SendersOwned, SendersClose
    PROVE  SendersOwned'
<1>1. /\ sent' = [i \in 1..Len(sent) |-> [sent[i] EXCEPT !.closed = TRUE]] /\ senders' = [a \in DOMAIN senders |-> 0]
      /\ senders \in [Addrs -> Nat] /\ sent \in Seq(Sents)
  BY DEF SendersClose, SendersOwned
<1>2. Len(sent) \in Nat /\ sent \in [1..Len(sent) -> Sents]
  BY <1>1
<1>3. \A r \in Sents : [r EXCEPT !.closed = TRUE] \in Sents /\ [r EXCEPT !.closed = TRUE].closed
  BY DEF Sents
<1>4. sent' \in [1..Len(sent) -> Sents] /\ \A i \in 1..Len(sent) : sent'[i].closed
  BY <1>1, <1>2, <1>3
<1>5. sent' \in Seq(Sents) /\ Len(sent') = Len(sent)
  BY <1>2, <1>4
<1>6. senders' \in [Addrs -> Nat]
  BY <1>1
<1>7. QED
  BY <1>4, <1>5, <1>6 DEF SendersOwned

(***************************************************************************)
(* Every step.                                                             *)
(***************************************************************************)
Registry(u) ==
    \/ AddService(u) \/ UpdateServiceInfo(u) \/ UpdateStatus(u) \/ UpdateVisibility(u) \/ SetMaster(u)
    \/ IndexAdd(u) \/ RemoveService(u) \/ RemoveClose(u) \/ IndexRemove(u)
    \/ Age(u) \/ TickDecide(u) \/ StopStep(u)
OwnStep(c) ==
    \/ AskBegin(c) \/ Visit(c) \/ Check(c) \/ AskEnd(c) \/ AddTmp(c)
    \/ DeliverTo(c) \/ GetSender(c) \/ AddSenderHandler(c)

LEMMA RegistryKeeps ==
    ASSUME DirectoryInv, NEW u \in Uids, Registry(u)
    PROVE  DirectoryInv' /\ TableMoves
<1>1. CASE AddService(u)
  <2>1. PICK v \in {"cluster", "private"}, m \in BOOLEAN : AddWithMeta(u, "starting", v, m)
    BY <1>1 DEF AddService
  <2>2. op[u] = "idle" /\ UNCHANGED <<nameIdx, typeIdx, tmpMapPid, evict, repStop>>
    BY <1>1 DEF AddService, Operate, Others, tmpVars
  <2>3. QED
    BY <2>1, <2>2, AddKeeps
<1>2. CASE UpdateServiceInfo(u)
  <2>1. PICK st \in {"starting", "ready"}, m \in BOOLEAN : AddWithMeta(u, st, "cluster", m)
    BY <1>2 DEF UpdateServiceInfo
  <2>2. op[u] = "idle" /\ UNCHANGED <<nameIdx, typeIdx, tmpMapPid, evict, repStop>>
    BY <1>2 DEF UpdateServiceInfo, Operate, Others, tmpVars
  <2>3. QED
    BY <2>1, <2>2, AddKeeps
<1>3. CASE UpdateStatus(u) \/ UpdateVisibility(u) \/ SetMaster(u)
  BY <1>3, FieldSteps
<1>4. CASE IndexAdd(u) \/ RemoveService(u) \/ IndexRemove(u)
  BY <1>4, IndexSteps
<1>5. CASE RemoveClose(u)
  BY <1>5, RemoveCloseKeeps
<1>6. CASE Age(u)
  BY <1>6, TableUntouched DEF Age, DirectoryInv, TableTypes
<1>7. CASE TickDecide(u)
  <2>1. evict'.uid = u
    BY <1>7 DEF TickDecide
  <2>2. QED
    BY <1>7, <2>1, TableUntouched DEF TickDecide, DirectoryInv, TableTypes
<1>8. CASE StopStep(u)
  BY <1>8, StopStepKeeps
<1>9. QED
  BY <1>1, <1>2, <1>3, <1>4, <1>5, <1>6, <1>7, <1>8 DEF Registry

LEMMA TicksKeep ==
    ASSUME DirectoryInv, TickDelete \/ RepStopBegin \/ SendersClose
    PROVE  DirectoryInv' /\ TableMoves
<1>1. CASE TickDelete
  BY <1>1, TickDeleteKeeps
<1>2. CASE RepStopBegin
  <2>1. repStop' = [at |-> "table", left |-> Uids] /\ UNCHANGED <<tableVars, tmpMapPid, evict>>
    BY <1>2 DEF RepStopBegin, tmpVars
  <2>2. QED
    BY <2>1, TableUntouched DEF DirectoryInv, TableTypes
<1>3. CASE SendersClose
  <2>1. repStop' = [repStop EXCEPT !.at = "stopped"] /\ UNCHANGED <<tableVars, tmpMapPid, evict>> /\ repStop.at = "senders"
    BY <1>3 DEF SendersClose, tmpVars
  <2>2. repStop \in [at : {"run", "table", "tmp", "senders", "stopped"}, left : SUBSET Uids] /\ repStop.left = {}
    BY <2>1 DEF DirectoryInv, TableTypes
  <2>3. repStop' \in [at : {"run", "table", "tmp", "senders", "stopped"}, left : SUBSET Uids]
        /\ repStop'.at = "stopped" /\ repStop'.left = {}
    BY <2>1, <2>2
  <2>4. QED
    BY <2>1, <2>3, TableUntouched DEF DirectoryInv, TableTypes
<1>4. QED
  BY <1>1, <1>2, <1>3

LEMMA OwnKeeps ==
    ASSUME RepInv, NEW c \in Askers, OwnStep(c), Track
    PROVE  /\ DirectoryInv' /\ TableMoves
           /\ asker' \in [Askers -> Asks] /\ CallSound(c)' /\ SearchSound(c)' /\ \A b \in Askers \ {c} : asker'[b] = asker[b]
<1>1. CASE AddTmp(c)
  BY <1>1, AddTmpSound
<1>2. CASE AskBegin(c) \/ Visit(c) \/ Check(c) \/ AskEnd(c) \/ DeliverTo(c) \/ GetSender(c)
        \/ AddSenderHandler(c)
  <2>1. UNCHANGED <<tableVars, tmpMapPid, evict, repStop>>
    BY <1>2 DEF AskBegin, Visit, Check, AskEnd, DeliverTo, GetSender, AddSenderHandler, Asking
  <2>2. DirectoryInv' /\ TableMoves
    BY <2>1, TableUntouched DEF RepInv, DirectoryInv, TableTypes
  <2>3. QED
    BY <1>2, <2>2, AskBeginSound, VisitSound, CheckSound, AskEndSound, DeliverySound
<1>3. QED
  BY <1>1, <1>2 DEF OwnStep

LEMMA IndexTypesKept ==
    ASSUME IndexTypes, RepStep
    PROVE  IndexTypes'
<1>1. ASSUME NEW u \in Uids, Registry(u) PROVE IndexTypes'
  BY <1>1 DEF IndexTypes, Registry, AddService, UpdateServiceInfo, UpdateStatus, UpdateVisibility, SetMaster,
     IndexAdd,
    RemoveService, RemoveClose, IndexRemove, Age, TickDecide, StopStep, tableVars
<1>2. ASSUME NEW c \in Askers, OwnStep(c) PROVE IndexTypes'
  BY <1>2 DEF IndexTypes, OwnStep, AskBegin, Visit, Check, AskEnd, AddTmp, DeliverTo, GetSender,
     AddSenderHandler,
    Asking, tableVars
<1>3. CASE TickDelete \/ RepStopBegin \/ SendersClose
  BY <1>3 DEF IndexTypes, TickDelete, RepStopBegin, SendersClose, tableVars
<1>4. QED
  BY <1>1, <1>2, <1>3 DEF RepStep, Registry, OwnStep

LEMMA SendersKept ==
    ASSUME RepInv, RepStep
    PROVE  SendersOwned'
<1>1. CASE SendersClose
  BY <1>1, SendersCloseKeeps DEF RepInv
<1>2. CASE \E c \in Askers : AddSenderHandler(c)
  BY <1>2, AddSenderKeeps
<1>3. CASE UNCHANGED senderVars
  BY <1>3 DEF RepInv, SendersOwned, senderVars
<1>4. SendersClose \/ (\E c \in Askers : AddSenderHandler(c)) \/ UNCHANGED senderVars
  <2>1. ASSUME NEW u \in Uids, Registry(u) PROVE UNCHANGED senderVars
    BY <2>1 DEF Registry, AddService, UpdateServiceInfo, UpdateStatus, UpdateVisibility, SetMaster, IndexAdd,
      RemoveService, RemoveClose, IndexRemove, Age, TickDecide, StopStep, Others
  <2>2. ASSUME NEW c \in Askers, OwnStep(c) PROVE AddSenderHandler(c) \/ UNCHANGED senderVars
    BY <2>2 DEF OwnStep, AskBegin, Visit, Check, AskEnd, AddTmp, DeliverTo, GetSender
  <2>3. CASE TickDelete \/ RepStopBegin
    BY <2>3 DEF TickDelete, RepStopBegin
  <2>4. QED
    BY <2>1, <2>2, <2>3 DEF RepStep, Registry, OwnStep
<1>5. QED
  BY <1>1, <1>2, <1>3, <1>4

LEMMA RepStepKeeps ==
    ASSUME RepInv, [RepNext]_repVars
    PROVE  RepInv'
<1>1. CASE UNCHANGED repVars
  <2>1. UNCHANGED <<mapPID, tmpMapPid, disps, op, nameIdx, typeIdx, evict, repStop, senders, sent, asker, steady, ready>>
    BY <1>1 DEF repVars, tableVars, tmpVars, senderVars, repHistory
  <2>2. DirectoryInv'
    BY <2>1, TableUntouched DEF RepInv, DirectoryInv, TableTypes, tableVars
  <2>3. IndexTypes' /\ SendersOwned' /\ asker' \in [Askers -> Asks]
    BY <2>1 DEF RepInv, IndexTypes, SendersOwned
  <2>4. ASSUME NEW c \in Askers PROVE CallSound(c)' /\ SearchSound(c)'
    <3>1. CallSound(c)'
      BY <2>1 DEF RepInv, CallSound, Made
    <3>2. Selectable(c)' = Selectable(c) /\ EverReady' = EverReady /\ FoundUids(c)' = FoundUids(c)
      BY <2>1 DEF Selectable, EverReady, FoundUids, Matches
    <3>3. SearchSound(c)'
      BY <2>1, <3>2 DEF RepInv, SearchSound
    <3>4. QED
      BY <3>1, <3>3
  <2>5. QED
    BY <2>2, <2>3, <2>4 DEF RepInv
<1>2. CASE RepNext
  <2>1. RepStep /\ Track
    BY <1>2 DEF RepNext
  <2>2. IndexTypes' /\ SendersOwned'
    BY <2>1, IndexTypesKept, SendersKept DEF RepInv
  <2>3. CASE \E c \in Askers : OwnStep(c)
    <3>1. PICK c \in Askers : OwnStep(c)
      BY <2>3
    <3>2. /\ DirectoryInv' /\ TableMoves
          /\ asker' \in [Askers -> Asks] /\ CallSound(c)' /\ SearchSound(c)' /\ \A b \in Askers \ {c} : asker'[b] = asker[b]
      BY <2>1, <3>1, OwnKeeps
    <3>3. ASSUME NEW b \in Askers PROVE CallSound(b)' /\ SearchSound(b)'
      <4>1. CASE b = c
        BY <3>2, <4>1
      <4>2. CASE b # c
        BY <2>1, <3>2, <4>2, AskKept DEF RepInv
      <4>3. QED
        BY <4>1, <4>2
    <3>4. QED
      BY <2>2, <3>2, <3>3 DEF RepInv
  <2>4. CASE (\E u \in Uids : Registry(u)) \/ TickDelete \/ RepStopBegin \/ SendersClose
    <3>1. DirectoryInv' /\ TableMoves
      BY <2>4, RegistryKeeps, TicksKeep DEF RepInv
    <3>2. asker' = asker
      BY <2>4 DEF Registry, AddService, UpdateServiceInfo, UpdateStatus, UpdateVisibility, SetMaster,
         IndexAdd,
        RemoveService, RemoveClose, IndexRemove, Age, TickDecide, StopStep, Others, TickDelete, RepStopBegin,
        SendersClose
    <3>3. ASSUME NEW b \in Askers PROVE CallSound(b)' /\ SearchSound(b)'
      BY <2>1, <3>1, <3>2, AskKept DEF RepInv
    <3>4. QED
      BY <2>2, <3>1, <3>2, <3>3 DEF RepInv
  <2>5. (\E c \in Askers : OwnStep(c)) \/ (\E u \in Uids : Registry(u)) \/ TickDelete \/ RepStopBegin \/ SendersClose
    BY <2>1 DEF RepStep, Registry, OwnStep
  <2>6. QED
    BY <2>3, <2>4, <2>5
<1>3. QED
  BY <1>1, <1>2

LEMMA RepInitInv == RepInit => RepInv
<1> SUFFICES ASSUME RepInit PROVE RepInv
  OBVIOUS
<1>1. mapPID = [u \in Uids |-> 0] /\ tmpMapPid = [u \in Uids |-> 0] /\ disps = <<>> /\ nameIdx = {} /\ typeIdx = {}
      /\ op = [u \in Uids |-> "idle"] /\ evict.d = 0 /\ repStop = [at |-> "run", left |-> {}] /\ sent = <<>>
      /\ senders = [a \in Addrs |-> 0] /\ asker = [c \in Askers |-> NoAsk]
  BY DEF RepInit, Addrs
<1>2. Made = 0 /\ disps \in Seq(Dispatchers)
  BY <1>1 DEF Made
<1>3. DirectoryInv
  <2>1. TableTypes
    BY <1>1, <1>2 DEF TableTypes
  <2>2. DispatchersOwned
    BY <1>2 DEF DispatchersOwned
  <2>3. \A u \in Uids : TableSound(u) /\ RunSound(u)
    BY <1>1 DEF TableSound, RunSound
  <2>4. QED
    BY <2>1, <2>2, <2>3 DEF DirectoryInv
<1>4. IndexTypes /\ SendersOwned
  BY <1>1 DEF IndexTypes, SendersOwned
<1>5. NoAsk \in Asks /\ NoAsk.at = "idle" /\ NoAsk.found = {} /\ ~NoAsk.slaver
  <2>1. (CHOOSE u \in Uids : TRUE) \in Uids
    BY RepositoryAssumption
  <2>2. QED
    BY <2>1 DEF NoAsk, Asks, Stages, Kinds
<1>6. \A c \in Askers : CallSound(c) /\ SearchSound(c)
  BY <1>1, <1>5 DEF CallSound, SearchSound
<1>7. QED
  BY <1>1, <1>3, <1>4, <1>5, <1>6 DEF RepInv

\* However registrations, removals, evictions, the stop and selections interleave, a selection
\* finds what was ready for it throughout and nothing that never was, the indices agree with the
\* table, and nothing open is left without an owner (repository.go, selector.go, sender.go).
THEOREM RepositorySoundHolds == RepSpec => []RepositorySound
<1>1. RepInv => RepositorySound
  <2> SUFFICES ASSUME RepInv PROVE RepositorySound
    OBVIOUS
  <2>1. SelectSound
    BY DEF RepInv, SelectSound, SearchSound, FoundUids
  <2>2. HandlesOwned
    BY DEF RepInv, DirectoryInv, HandlesOwned, DispatchersOwned, SendersOwned
  <2>3. IndexExact
    BY DEF RepInv, DirectoryInv, TableSound, RunSound, IndexExact
  <2>4. QED
    BY <2>1, <2>2, <2>3 DEF RepositorySound
<1>2. RepInit => RepInv
  BY RepInitInv
<1>3. RepInv /\ [RepNext]_repVars => RepInv'
  BY RepStepKeeps
<1>4. QED
  BY <1>1, <1>2, <1>3, PTL DEF RepSpec
=============================================================================
