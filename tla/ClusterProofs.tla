---------------------------- MODULE ClusterProofs ----------------------------
(***************************************************************************)
(* Theorems about the parts of a cluster: the election of a group's master *)
(* (Election), for any group of instances and any number of faults, the    *)
(* directory of services (Directory), for any entries, number of shards    *)
(* and capacity, the policy of a node (Authz), for any snapshots,          *)
(* permissions and callers, and the bus of events (EventBus), for any      *)
(* services, modules, topics and events.                                   *)
(***************************************************************************)
EXTENDS Election, Directory, Authz, EventBus, FiniteSetTheorems, WellFoundedInduction, TLAPS

(***************************************************************************)
(* The election.                                                           *)
(***************************************************************************)
\* The epoch x is on its way to the guard of n, or there: decided by an election, posted as an
\* event, or the one the guard leads with.
Owns(n, x) ==
    \/ guard[n].leader /\ guard[n].epoch = x
    \/ \E i \in 1..Len(chan[n]) : chan[n][i] = <<"become", x>>
    \/ \E e \in elect[n] : e.at \in {"won", "become"} /\ e.epoch = x

\* No two instances are ever given one epoch, and none is newer than the key.
OwnerInv ==
    /\ \A n \in Nodes : guard[n].leader => guard[n].ctx
    /\ \A n \in Nodes, x \in 0..rev : Owns(n, x) /\ key # NoKey => x <= key.rev
    /\ \A n \in Nodes, m \in Nodes, x \in 0..rev : Owns(n, x) /\ Owns(m, x) => n = m

ElectInv == ElectTypeOK /\ OwnerInv

-----------------------------------------------------------------------------
(* Lemmas. *)

\* An element of a sequence.
LEMMA ElementType == ASSUME NEW S, NEW q \in Seq(S), NEW i \in 1..Len(q) PROVE q[i] \in S
  OBVIOUS

\* What is in the state stays well formed when the store gets revisions and leases.
LEMMA Widen ==
    ASSUME NEW r \in Nat, NEW s \in Nat, r <= s
    PROVE  /\ 0..r \subseteq 0..s /\ Elections(r) \subseteq Elections(s) /\ WatchLoops(r) \subseteq WatchLoops(s)
           /\ Seq(Events \X (0..r)) \subseteq Seq(Events \X (0..s))
<1>1. 0..r \subseteq 0..s
  OBVIOUS
<1>2. Elections(r) \subseteq Elections(s) /\ WatchLoops(r) \subseteq WatchLoops(s)
  BY <1>1 DEF Elections, WatchLoops
<1>3. ASSUME NEW q \in Seq(Events \X (0..r)) PROVE q \in Seq(Events \X (0..s))
  <2>1. Len(q) \in Nat /\ q \in [1..Len(q) -> Events \X (0..r)]
    OBVIOUS
  <2>2. Events \X (0..r) \subseteq Events \X (0..s)
    BY <1>1
  <2>3. q \in [1..Len(q) -> Events \X (0..s)]
    BY <2>1, <2>2
  <2>4. QED
    BY <2>1, <2>3
<1>4. QED
  BY <1>1, <1>2, <1>3

\* There is always a free id for a watch goroutine.
LEMMA FreeIdFacts ==
    ASSUME CallsOK, NEW n \in Nodes
    PROVE  FreeId(n) \in Nat
<1> DEFINE k == Cardinality(watch[n])
           f == [g \in watch[n] |-> g.id]
           ids == {g.id : g \in watch[n]}
<1>1. IsFiniteSet(watch[n]) /\ k \in Nat
  BY FS_CardinalityType DEF CallsOK
<1>2. IsFiniteSet(ids) /\ Cardinality(ids) <= k
  <2>1. f \in Surjection(watch[n], ids)
    BY DEF Surjection
  <2>2. QED
    BY <1>1, <2>1, FS_Surjection
<1>3. IsFiniteSet(ids \cup {cancel[n]}) /\ Cardinality(ids \cup {cancel[n]}) <= k + 1
  <2>1. Cardinality(ids) \in Nat
    BY <1>2, FS_CardinalityType
  <2>2. /\ IsFiniteSet(ids \cup {cancel[n]})
        /\ Cardinality(ids \cup {cancel[n]}) = IF cancel[n] \in ids THEN Cardinality(ids) ELSE Cardinality(ids) + 1
    BY <1>2, FS_AddElement
  <2>3. QED
    BY <1>1, <1>2, <2>1, <2>2
<1>4. Cardinality(1..(k + 2)) = k + 2
  BY <1>1, FS_Interval
<1>5. ~(1..(k + 2) \subseteq ids \cup {cancel[n]})
  <2>1. SUFFICES ASSUME 1..(k + 2) \subseteq ids \cup {cancel[n]} PROVE FALSE
    OBVIOUS
  <2>2. Cardinality(1..(k + 2)) <= Cardinality(ids \cup {cancel[n]})
    BY <1>3, <2>1, FS_Subset
  <2>3. Cardinality(ids \cup {cancel[n]}) \in Nat
    BY <1>3, FS_CardinalityType
  <2>4. QED
    BY <1>1, <1>3, <1>4, <2>2, <2>3
<1>6. \E i \in 1..(k + 2) : i # cancel[n] /\ \A g \in watch[n] : g.id # i
  BY <1>5
<1>7. FreeId(n) \in 1..(k + 2)
  BY <1>6 DEF FreeId
<1>8. QED
  BY <1>1, <1>7

\* Nothing has happened.
LEMMA ElectInitInv == ElectInit => ElectInv
<1> SUFFICES ASSUME ElectInit PROVE ElectInv
  OBVIOUS
<1>1. EtcdOK
  BY DEF ElectInit, EtcdOK, NoKey, NoEntry
<1>2. WatcherOK
  BY DEF ElectInit, WatcherOK
<1>3. CallsOK
  BY FS_EmptySet DEF ElectInit, CallsOK
<1>4. ServiceOK
  BY ElectionAssumption DEF ElectInit, ServiceOK
<1>5. OwnerInv
  BY DEF ElectInit, OwnerInv, Owns
<1>6. QED
  BY <1>1, <1>2, <1>3, <1>4, <1>5 DEF ElectInv, ElectTypeOK

-----------------------------------------------------------------------------
(* etcd *)

\* A step of etcd adds revisions and leases, and the key goes or stays.
Grows == rev' \in Nat /\ rev <= rev' /\ granted' \in Nat /\ granted <= granted'

LEMMA EndLeasesEtcd ==
    ASSUME EtcdOK, NEW ls, EndLeases(ls), UNCHANGED granted
    PROVE  EtcdOK' /\ Grows /\ (key' = key \/ key' = NoKey)
<1>1. rev' \in Nat /\ rev <= rev' /\ gone' \in 0..rev'
  BY DEF EtcdOK, EndLeases
<1>2. leases' \subseteq 1..granted /\ (key' = key \/ key' = NoKey)
  BY DEF EtcdOK, EndLeases
<1>3. key' \in [lease : 0..granted, rev : 0..rev']
  BY <1>1, <1>2 DEF EtcdOK, NoKey
<1>4. entry' \in [Nodes -> [lease : 0..granted, master : BOOLEAN]]
  <2>1. NoEntry \in [lease : 0..granted, master : BOOLEAN]
    BY DEF EtcdOK, NoEntry
  <2>2. QED
    BY <2>1 DEF EtcdOK, EndLeases
<1>5. QED
  BY <1>1, <1>2, <1>3, <1>4 DEF EtcdOK, Grows

LEMMA GrantEtcd ==
    ASSUME EtcdOK, NEW n \in Nodes, Grant(n)
    PROVE  EtcdOK' /\ Grows /\ (key' = key \/ key' = NoKey)
<1>1. rev' \in Nat /\ rev <= rev' /\ gone' \in 0..rev'
  BY DEF EtcdOK, Grant
<1>2. granted' \in Nat /\ granted <= granted' /\ 1..granted \subseteq 1..granted' /\ 0..granted \subseteq 0..granted'
  BY DEF EtcdOK, Grant
<1>3. leases' \subseteq 1..granted'
  BY <1>2 DEF EtcdOK, Grant
<1>4. key' = key \/ key' = NoKey
  BY DEF Grant
<1>5. key' \in [lease : 0..granted', rev : 0..rev']
  <2>1. NoKey \in [lease : 0..granted', rev : 0..rev']
    BY <1>1, <1>2 DEF NoKey
  <2>2. 0..rev \subseteq 0..rev'
    BY <1>1 DEF EtcdOK
  <2>3. key \in [lease : 0..granted', rev : 0..rev']
    BY <1>2, <2>2 DEF EtcdOK
  <2>4. QED
    BY <1>4, <2>1, <2>3
<1>6. entry' \in [Nodes -> [lease : 0..granted', master : BOOLEAN]]
  <2>1. NoEntry \in [lease : 0..granted', master : BOOLEAN]
    BY <1>2 DEF NoEntry
  <2>2. \A m \in Nodes : entry[m] \in [lease : 0..granted', master : BOOLEAN]
    BY <1>2 DEF EtcdOK
  <2>3. QED
    BY <2>1, <2>2 DEF Grant
<1>7. QED
  BY <1>1, <1>2, <1>3, <1>4, <1>5, <1>6 DEF EtcdOK, Grows

LEMMA AcquireEtcd ==
    ASSUME EtcdOK, WatcherOK, NEW n \in Nodes, NEW e \in elect[n], TryAcquireMaster(n, e)
    PROVE  EtcdOK' /\ Grows
<1>1. w[n].lease \in 0..granted
  BY DEF WatcherOK
<1>2. CASE UNCHANGED <<rev, key>>
  BY <1>2 DEF EtcdOK, TryAcquireMaster, Grows
<1>3. CASE rev' = rev + 1 /\ key' = [lease |-> w[n].lease, rev |-> rev + 1]
  <2>1. key' \in [lease : 0..granted, rev : 0..rev']
    BY <1>1, <1>3 DEF EtcdOK
  <2>2. UNCHANGED <<leases, granted, gone, entry>>
    BY DEF TryAcquireMaster
  <2>3. gone \in 0..rev'
    BY <1>3 DEF EtcdOK
  <2>4. QED
    BY <1>3, <2>1, <2>2, <2>3 DEF EtcdOK, Grows
<1>4. QED
  BY <1>2, <1>3 DEF TryAcquireMaster

LEMMA RegisterEtcd ==
    ASSUME EtcdOK, WatcherOK, CallsOK, NEW n \in Nodes, NEW e \in elect[n], ElectRegister(n, e) \/ ReadyPut(n, e)
    PROVE  EtcdOK' /\ Grows /\ key' = key
<1>0. UNCHANGED <<rev, leases, granted, key, gone>>
  BY DEF ElectRegister, ReadyPut
<1>1. CASE entry' = entry
  BY <1>0, <1>1 DEF EtcdOK, Grows
<1>2. ASSUME NEW l \in 0..granted, NEW b \in BOOLEAN, entry' = [entry EXCEPT ![n] = [lease |-> l, master |-> b]]
      PROVE  EtcdOK' /\ Grows /\ key' = key
  <2>1. entry' \in [Nodes -> [lease : 0..granted, master : BOOLEAN]]
    BY <1>2 DEF EtcdOK
  <2>2. QED
    BY <1>0, <2>1 DEF EtcdOK, Grows
<1>3. CASE entry' = [entry EXCEPT ![n] = [lease |-> w[n].lease, master |-> w[n].master]]
  <2>1. w[n].lease \in 0..granted /\ w[n].master \in BOOLEAN
    BY DEF WatcherOK
  <2>2. QED
    BY <1>2, <1>3, <2>1
<1>4. CASE e.lease \in leases /\ entry' = [entry EXCEPT ![n] = [lease |-> e.lease, master |-> e.mark]]
  <2>1. e.mark \in BOOLEAN
    BY DEF CallsOK, Elections
  <2>2. e.lease \in 0..granted
    <3>1. leases \subseteq 1..granted /\ granted \in Nat
      BY DEF EtcdOK
    <3>2. e.lease \in 1..granted
      BY <1>4, <3>1
    <3>3. QED
      BY <3>1, <3>2
  <2>3. QED
    BY <1>2, <1>4, <2>1, <2>2
<1>5. QED
  BY <1>1, <1>3, <1>4 DEF ElectRegister, ReadyPut, CanRegister

LEMMA EtcdStep ==
    ASSUME ElectTypeOK, ElectNext
    PROVE  EtcdOK' /\ Grows
<1> USE DEF ElectTypeOK
<1>1. ASSUME UNCHANGED etcd PROVE EtcdOK' /\ Grows
  BY <1>1 DEF EtcdOK, etcd, Grows
<1>2. ASSUME NEW n \in Nodes, Start(n) \/ RestartStart(n) \/ LoopCheck(n) PROVE EtcdOK' /\ Grows
  BY <1>1, <1>2, GrantEtcd DEF Start, RestartStart, LoopCheck
<1>3. ASSUME NEW n \in Nodes, Stop(n) \/ Expire(n) PROVE EtcdOK' /\ Grows
  BY <1>3, EndLeasesEtcd DEF Stop, Expire
<1>4. CASE Lapse
  BY <1>4, EndLeasesEtcd DEF Lapse
<1>5. ASSUME NEW n \in Nodes, StopWait(n) \/ Recover(n) \/ OnEvent(n) \/ Disconnect(n) \/ Reconnect(n)
      PROVE  EtcdOK' /\ Grows
  BY <1>1, <1>5 DEF StopWait, Recover, OnEvent, Disconnect, Reconnect
<1>6. ASSUME NEW n \in Nodes, ElectMaster(n) PROVE EtcdOK' /\ Grows
  <2>1. PICK e \in elect[n] :
          \/ ElectStop(n, e) \/ ElectWait(n, e) \/ ElectReset(n, e) \/ ElectLose(n, e)
          \/ TryAcquireMaster(n, e) \/ ElectWon(n, e) \/ ElectSlave(n, e) \/ ElectNotify(n, e)
          \/ ElectRegister(n, e) \/ ReadyRead(n, e) \/ ReadyPut(n, e)
    BY <1>6 DEF ElectMaster
  <2>2. CASE TryAcquireMaster(n, e)
    BY <2>2, AcquireEtcd
  <2>3. CASE ElectRegister(n, e) \/ ReadyPut(n, e)
    BY <2>3, RegisterEtcd
  <2>4. CASE ElectStop(n, e) \/ ElectWait(n, e) \/ ElectReset(n, e) \/ ElectLose(n, e) \/ ReadyRead(n, e)
    BY <1>1, <2>4 DEF ElectStop, ElectWait, ElectReset, ElectLose, ReadyRead
  <2>5. CASE ElectWon(n, e) \/ ElectSlave(n, e) \/ ElectNotify(n, e)
    BY <1>1, <2>5 DEF ElectWon, ElectSlave, ElectNotify
  <2>6. QED
    BY <2>1, <2>2, <2>3, <2>4, <2>5
<1>7. ASSUME NEW n \in Nodes, WatchMaster(n) PROVE EtcdOK' /\ Grows
  BY <1>1, <1>7 DEF WatchMaster, WatchStart, WatchExit, WatchElect
<1>8. ASSUME NEW n \in Nodes, LoopTop(n) \/ KeepAlive(n) \/ LoopLose(n) \/ LoopElected(n) PROVE EtcdOK' /\ Grows
  BY <1>1, <1>8 DEF LoopTop, KeepAlive, LoopLose, LoopElected
<1>9. QED
  BY <1>2, <1>3, <1>4, <1>5, <1>6, <1>7, <1>8 DEF ElectNext, Steps, KeepaliveLoop

-----------------------------------------------------------------------------
(* The watcher and its keep-alive loop. *)

LEMMA WideWatcher ==
    ASSUME EtcdOK, WatcherOK, Grows
    PROVE  /\ w \in [Nodes -> [started : BOOLEAN, ctx : BOOLEAN, lease : 0..granted', master : BOOLEAN, epoch : 0..rev']]
           /\ loop \in [Nodes -> [at : {"off", "top", "keep", "lose", "check", "elect"}, lease : 0..granted']]
           /\ 0 \in 0..granted' /\ 0 \in 0..rev'
<1>1. 0..granted \subseteq 0..granted' /\ 0..rev \subseteq 0..rev' /\ 0 \in 0..granted' /\ 0 \in 0..rev'
  BY DEF EtcdOK, Grows
<1>2. \A n \in Nodes : w[n] \in [started : BOOLEAN, ctx : BOOLEAN, lease : 0..granted', master : BOOLEAN, epoch : 0..rev']
  BY <1>1 DEF WatcherOK
<1>3. \A n \in Nodes : loop[n] \in [at : {"off", "top", "keep", "lose", "check", "elect"}, lease : 0..granted']
  BY <1>1 DEF WatcherOK
<1>4. QED
  BY <1>1, <1>2, <1>3 DEF WatcherOK

\* initLease numbers the leases.
LEMMA GrantWatcher ==
    ASSUME EtcdOK, WatcherOK, NEW n \in Nodes, Grant(n)
    PROVE  w' \in [Nodes -> [started : BOOLEAN, ctx : BOOLEAN, lease : 0..granted', master : BOOLEAN, epoch : 0..rev']]
<1>1. w \in [Nodes -> [started : BOOLEAN, ctx : BOOLEAN, lease : 0..granted', master : BOOLEAN, epoch : 0..rev']]
  BY GrantEtcd, WideWatcher
<1>2. granted + 1 \in 0..granted'
  BY DEF EtcdOK, Grant
<1>3. w' = [w EXCEPT ![n].started = TRUE, ![n].lease = granted + 1]
  BY DEF Grant
<1>4. QED
  BY <1>1, <1>2, <1>3

LEMMA WatcherStep ==
    ASSUME ElectTypeOK, ElectNext, Grows
    PROVE  WatcherOK'
<1> USE DEF ElectTypeOK
<1> DEFINE W == [started : BOOLEAN, ctx : BOOLEAN, lease : 0..granted', master : BOOLEAN, epoch : 0..rev']
           L == [at : {"off", "top", "keep", "lose", "check", "elect"}, lease : 0..granted']
<1>0. w \in [Nodes -> W] /\ loop \in [Nodes -> L] /\ 0 \in 0..granted' /\ 0 \in 0..rev'
  BY WideWatcher
<1>1. oper \in [Nodes -> {"no", "late", "on", "wait", "again", "done"}] /\ conn \in [Nodes -> BOOLEAN] /\ restart \in [Nodes -> BOOLEAN]
  BY DEF WatcherOK
<1>2. ASSUME NEW n \in Nodes, NEW a \in {"off", "top", "keep", "lose", "check", "elect"}, Goto(n, a, 0)
      PROVE  loop' \in [Nodes -> L]
  BY <1>0, <1>2 DEF Goto
<1>3. SUFFICES w' \in [Nodes -> W] /\ loop' \in [Nodes -> L]
               /\ oper' \in [Nodes -> {"no", "late", "on", "wait", "again", "done"}]
               /\ conn' \in [Nodes -> BOOLEAN] /\ restart' \in [Nodes -> BOOLEAN]
  BY DEF WatcherOK
<1> DEFINE Goal == w' \in [Nodes -> W] /\ loop' \in [Nodes -> L]
               /\ oper' \in [Nodes -> {"no", "late", "on", "wait", "again", "done"}]
               /\ conn' \in [Nodes -> BOOLEAN] /\ restart' \in [Nodes -> BOOLEAN]
<1>4. ASSUME NEW n \in Nodes, Start(n) \/ RestartStart(n) \/ LoopCheck(n) PROVE Goal
  <2>1. w' \in [Nodes -> W]
    BY <1>0, <1>4, GrantWatcher DEF Start, RestartStart, LoopCheck
  <2>2. loop' \in [Nodes -> L]
    BY <1>0, <1>2, <1>4 DEF Start, RestartStart, LoopCheck
  <2>3. QED
    BY <1>1, <1>4, <2>1, <2>2 DEF Start, RestartStart, LoopCheck
<1>5. ASSUME NEW n \in Nodes, Stop(n) PROVE Goal
  <2>1. w' = [w EXCEPT ![n].started = FALSE, ![n].ctx = FALSE, ![n].lease = 0]
    BY <1>5 DEF Stop
  <2>2. w' \in [Nodes -> W]
    <3>1. [w[n] EXCEPT !.started = FALSE, !.ctx = FALSE, !.lease = 0] \in W
      BY <1>0
    <3>2. w' = [w EXCEPT ![n] = [w[n] EXCEPT !.started = FALSE, !.ctx = FALSE, !.lease = 0]]
      BY <1>0, <2>1
    <3>3. QED
      BY <1>0, <3>1, <3>2
  <2>3. QED
    BY <1>0, <1>1, <1>5, <2>2 DEF Stop
<1>6. ASSUME NEW n \in Nodes, StopWait(n) \/ Recover(n) \/ OnEvent(n) \/ Disconnect(n) \/ Reconnect(n) PROVE Goal
  BY <1>0, <1>1, <1>6 DEF StopWait, Recover, OnEvent, Disconnect, Reconnect
<1>7. ASSUME NEW n \in Nodes, Expire(n) \/ Lapse PROVE Goal
  BY <1>0, <1>1, <1>7 DEF Expire, Lapse
<1>8. ASSUME NEW n \in Nodes, ElectMaster(n) PROVE Goal
  <2>1. PICK e \in elect[n] :
          \/ ElectStop(n, e) \/ ElectWait(n, e) \/ ElectReset(n, e) \/ ElectLose(n, e)
          \/ TryAcquireMaster(n, e) \/ ElectWon(n, e) \/ ElectSlave(n, e) \/ ElectNotify(n, e)
          \/ ElectRegister(n, e) \/ ReadyRead(n, e) \/ ReadyPut(n, e)
    BY <1>8 DEF ElectMaster
  <2>2. CASE ElectReset(n, e)
    <3>1. w' = [w EXCEPT ![n].master = FALSE, ![n].epoch = 0]
      BY <2>2 DEF ElectReset
    <3>2. w' \in [Nodes -> W]
      BY <1>0, <3>1, ZenonT(40)
    <3>3. QED
      BY <1>0, <1>1, <2>2, <3>2 DEF ElectReset
  <2>3. CASE ElectWon(n, e)
    <3>1. e.epoch \in 0..rev'
      BY <2>3 DEF CallsOK, Elections, ElectWon, etcd
    <3>2. w' = [w EXCEPT ![n].master = TRUE, ![n].epoch = e.epoch]
      BY <2>3 DEF ElectWon
    <3>3. w' \in [Nodes -> W]
      BY <1>0, <3>1, <3>2, ZenonT(40)
    <3>4. QED
      BY <1>0, <1>1, <2>3, <3>3 DEF ElectWon
  <2>4. CASE ElectStop(n, e) \/ ElectWait(n, e) \/ ElectLose(n, e) \/ TryAcquireMaster(n, e)
    BY <1>0, <1>1, <2>4 DEF ElectStop, ElectWait, ElectLose, TryAcquireMaster
  <2>5. CASE ElectSlave(n, e) \/ ElectNotify(n, e) \/ ElectRegister(n, e) \/ ReadyRead(n, e) \/ ReadyPut(n, e)
    BY <1>0, <1>1, <2>5 DEF ElectSlave, ElectNotify, ElectRegister, ReadyRead, ReadyPut
  <2>6. QED
    BY <2>1, <2>2, <2>3, <2>4, <2>5
<1>9. ASSUME NEW n \in Nodes, WatchMaster(n) PROVE Goal
  BY <1>0, <1>1, <1>9 DEF WatchMaster, WatchStart, WatchExit, WatchElect
<1>10. ASSUME NEW n \in Nodes, LoopTop(n) PROVE Goal
  <2>1. loop' \in [Nodes -> L]
    <3>1. w[n].lease \in 0..granted'
      BY <1>0
    <3>2. QED
      BY <1>0, <1>10, <3>1, SMTT(30) DEF LoopTop, Goto
  <2>2. QED
    BY <1>0, <1>1, <1>10, <2>1 DEF LoopTop
<1>11. ASSUME NEW n \in Nodes, KeepAlive(n) PROVE Goal
  <2>1. loop' \in [Nodes -> L]
    BY <1>2, <1>11 DEF KeepAlive
  <2>2. w' \in [Nodes -> W]
    <3>1. w' = w \/ w' = [w EXCEPT ![n].master = FALSE, ![n].epoch = 0]
      BY <1>11 DEF KeepAlive
    <3>2. CASE w' = [w EXCEPT ![n].master = FALSE, ![n].epoch = 0]
      BY <1>0, <3>2, ZenonT(40)
    <3>3. QED
      BY <1>0, <3>1, <3>2
  <2>3. QED
    BY <1>0, <1>1, <1>11, <2>1, <2>2 DEF KeepAlive
<1>12. ASSUME NEW n \in Nodes, LoopLose(n) \/ LoopElected(n) PROVE Goal
  BY <1>0, <1>1, <1>2, <1>12 DEF LoopLose, LoopElected
<1>13. QED
  BY <1>4, <1>5, <1>6, <1>7, <1>8, <1>9, <1>10, <1>11, <1>12, ElectionAssumption DEF ElectNext, Steps, KeepaliveLoop

-----------------------------------------------------------------------------
(* The elections and the watches. *)

LEMMA WideCalls ==
    ASSUME EtcdOK, CallsOK, Grows
    PROVE  /\ elect \in [Nodes -> SUBSET Elections(rev')]
           /\ watch \in [Nodes -> SUBSET WatchLoops(rev')] /\ \A n \in Nodes : IsFiniteSet(watch[n])
           /\ cancel \in [Nodes -> Nat]
<1>1. Elections(rev) \subseteq Elections(rev') /\ WatchLoops(rev) \subseteq WatchLoops(rev')
  BY Widen DEF EtcdOK, Grows
<1>2. QED
  BY <1>1 DEF CallsOK

\* A new call of electMaster, or one that went on.
LEMMA NewCall ==
    ASSUME Grows, NEW n \in Nodes, NEW e, NEW f \in Elections(rev'),
           elect \in [Nodes -> SUBSET Elections(rev')],
           elect' = [elect EXCEPT ![n] = (@ \ {e}) \cup {f}] \/ elect' = [elect EXCEPT ![n] = @ \cup {f}]
    PROVE  elect' \in [Nodes -> SUBSET Elections(rev')]
  OBVIOUS

LEMMA BeginCall ==
    ASSUME Grows, NEW n \in Nodes, NEW by \in {"start", "late", "loop", "watch"},
           elect \in [Nodes -> SUBSET Elections(rev')],
           elect' = [elect EXCEPT ![n] = @ \cup {FreshCall(by, "stop")}]
    PROVE  elect' \in [Nodes -> SUBSET Elections(rev')]
<1>1. FreshCall(by, "stop") \in Elections(rev')
  BY DEF Elections, FreshCall, Grows
<1>2. QED
  BY <1>1, NewCall

\* stopWatchMaster changes goroutines and adds none.
LEMMA CancelledCalls ==
    ASSUME Grows, NEW n \in Nodes, Cancelled(n),
           watch \in [Nodes -> SUBSET WatchLoops(rev')], \A m \in Nodes : IsFiniteSet(watch[m])
    PROVE  watch' \in [Nodes -> SUBSET WatchLoops(rev')] /\ \A m \in Nodes : IsFiniteSet(watch'[m])
<1> DEFINE Off(g) == IF g.id = cancel[n] THEN [g EXCEPT !.live = FALSE] ELSE g
           T == {Off(g) : g \in watch[n]}
           f == [g \in watch[n] |-> Off(g)]
<1>1. watch' = [watch EXCEPT ![n] = T]
  BY DEF Cancelled
<1>2. \A g \in watch[n] : Off(g) \in WatchLoops(rev')
  <2> SUFFICES ASSUME NEW g \in watch[n] PROVE Off(g) \in WatchLoops(rev')
    OBVIOUS
  <2>1. g \in WatchLoops(rev')
    OBVIOUS
  <2>2. [g EXCEPT !.live = FALSE] \in WatchLoops(rev')
    BY <2>1 DEF WatchLoops
  <2>3. QED
    BY <2>1, <2>2
<1>3. IsFiniteSet(T)
  <2>1. f \in Surjection(watch[n], T)
    BY DEF Surjection
  <2>2. QED
    BY <2>1, FS_Surjection
<1>4. QED
  BY <1>1, <1>2, <1>3

LEMMA CallsStep ==
    ASSUME ElectTypeOK, ElectNext, Grows
    PROVE  CallsOK'
<1> USE DEF ElectTypeOK
<1> DEFINE E == Elections(rev')
           G == WatchLoops(rev')
           Calls == elect' \in [Nodes -> SUBSET E]
           Watches == watch' \in [Nodes -> SUBSET G] /\ \A m \in Nodes : IsFiniteSet(watch'[m])
           Goal == Calls /\ Watches /\ cancel' \in [Nodes -> Nat]
<1>0. /\ elect \in [Nodes -> SUBSET E] /\ watch \in [Nodes -> SUBSET G] /\ cancel \in [Nodes -> Nat]
      /\ \A n \in Nodes : IsFiniteSet(watch[n])
  BY WideCalls
<1>1. SUFFICES Goal
  BY DEF CallsOK
<1>2. ASSUME NEW n \in Nodes, NEW e \in elect[n],
             NEW a \in {"stop", "wait", "reset", "lose", "txn", "won", "slave", "become", "demote", "register"},
             Move(n, e, [e EXCEPT !.at = a])
      PROVE  Calls
  <2>1. e \in E
    BY <1>0
  <2>2. [e EXCEPT !.at = a] \in E
    BY <2>1 DEF Elections
  <2>3. QED
    BY <1>0, <1>2, <2>2, NewCall DEF Move
<1>3. ASSUME NEW n \in Nodes, Start(n) \/ RestartStart(n) \/ LoopCheck(n) PROVE Goal
  <2>1. Calls
    BY <1>0, <1>3, BeginCall DEF Start, RestartStart, LoopCheck, Begin
  <2>2. QED
    BY <1>0, <1>3, <2>1 DEF Start, RestartStart, LoopCheck
<1>4. ASSUME NEW n \in Nodes, Stop(n) PROVE Goal
  <2>1. Watches
    BY <1>0, <1>4, CancelledCalls DEF Stop
  <2>2. QED
    BY <1>0, <1>4, <2>1 DEF Stop
<1>5. ASSUME NEW n \in Nodes, StopWait(n) \/ Recover(n) \/ OnEvent(n) \/ Disconnect(n) \/ Reconnect(n) PROVE Goal
  BY <1>0, <1>5 DEF StopWait, Recover, OnEvent, Disconnect, Reconnect
<1>6. ASSUME NEW n \in Nodes, Expire(n) \/ Lapse PROVE Goal
  BY <1>0, <1>6 DEF Expire, Lapse
<1>7. ASSUME NEW n \in Nodes, LoopTop(n) \/ KeepAlive(n) \/ LoopLose(n) \/ LoopElected(n) PROVE Goal
  BY <1>0, <1>7 DEF LoopTop, KeepAlive, LoopLose, LoopElected
<1>8. ASSUME NEW n \in Nodes, NEW g \in watch[n], WatchStart(n, g) PROVE Goal
  <2>1. g \in G /\ rev \in 0..rev'
    BY <1>0 DEF EtcdOK, Grows
  <2>2. [g EXCEPT !.at = "on", !.rev = rev] \in G /\ g.id \in Nat
    BY <2>1 DEF WatchLoops
  <2>3. watch' = [watch EXCEPT ![n] = (@ \ {g}) \cup {[g EXCEPT !.at = "on", !.rev = rev]}]
    BY <1>8 DEF WatchStart
  <2>4. IsFiniteSet((watch[n] \ {g}) \cup {[g EXCEPT !.at = "on", !.rev = rev]})
    BY <1>0, FS_RemoveElement, FS_AddElement
  <2>5. Watches
    BY <1>0, <2>2, <2>3, <2>4
  <2>6. QED
    BY <1>0, <1>8, <2>2, <2>5 DEF WatchStart
<1>9. ASSUME NEW n \in Nodes, NEW g \in watch[n], WatchExit(n, g) \/ WatchElect(n, g) PROVE Goal
  <2>1. watch' = [watch EXCEPT ![n] = @ \ {g}]
    BY <1>9 DEF WatchExit, WatchElect
  <2>2. IsFiniteSet(watch[n] \ {g})
    BY <1>0, FS_RemoveElement
  <2>3. Watches
    BY <1>0, <2>1, <2>2
  <2>4. Calls
    BY <1>0, <1>9, BeginCall DEF WatchExit, WatchElect, Begin
  <2>5. QED
    BY <1>0, <1>9, <2>3, <2>4 DEF WatchExit, WatchElect
<1>10. ASSUME NEW n \in Nodes, NEW e \in elect[n], ElectStop(n, e) PROVE Goal
  <2>1. Calls
    BY <1>2, <1>10 DEF ElectStop
  <2>2. Watches
    BY <1>0, <1>10, CancelledCalls DEF ElectStop
  <2>3. QED
    BY <1>0, <1>10, <2>1, <2>2 DEF ElectStop
<1>11. ASSUME NEW n \in Nodes, NEW e \in elect[n], ElectWait(n, e) \/ ElectLose(n, e) \/ ElectWon(n, e) \/ ElectNotify(n, e)
       PROVE  Goal
  <2>1. Calls
    BY <1>2, <1>11 DEF ElectWait, ElectLose, ElectWon, ElectNotify
  <2>2. QED
    BY <1>0, <1>11, <2>1 DEF ElectWait, ElectLose, ElectWon, ElectNotify
<1>12. ASSUME NEW n \in Nodes, NEW e \in elect[n], ElectReset(n, e) PROVE Goal
  <2>1. e \in E
    BY <1>0
  <2>2. [e EXCEPT !.at = IF w[n].master THEN "lose" ELSE "txn"] \in E
    BY <2>1 DEF Elections
  <2>3. Calls
    BY <1>0, <1>12, <2>2, NewCall DEF ElectReset, Move
  <2>4. QED
    BY <1>0, <1>12, <2>3 DEF ElectReset
<1>13. ASSUME NEW n \in Nodes, NEW e \in elect[n], TryAcquireMaster(n, e) PROVE Goal
  <2>1. CASE Over(n, e)
    BY <1>0, <1>13, <2>1 DEF TryAcquireMaster, Over
  <2>2. CASE Move(n, e, [e EXCEPT !.at = "slave"])
    BY <1>0, <1>2, <1>13, <2>2 DEF TryAcquireMaster
  <2>3. CASE rev' = rev + 1 /\ Move(n, e, [e EXCEPT !.at = "won", !.epoch = Epoch])
    <3>1. e \in E /\ Epoch \in 0..rev'
      BY <1>0, <2>3 DEF Epoch, EtcdOK
    <3>2. [e EXCEPT !.at = "won", !.epoch = Epoch] \in E
      BY <3>1 DEF Elections
    <3>3. Calls
      BY <1>0, <2>3, <3>2, NewCall DEF Move
    <3>4. QED
      BY <1>0, <1>13, <3>3 DEF TryAcquireMaster
  <2>4. QED
    BY <1>13, <2>1, <2>2, <2>3 DEF TryAcquireMaster
<1>14. ASSUME NEW n \in Nodes, NEW e \in elect[n], ElectSlave(n, e) PROVE Goal
  <2>1. Calls
    BY <1>2, <1>14 DEF ElectSlave
  <2>2. [id |-> FreeId(n), at |-> "new", live |-> TRUE, rev |-> 0] \in G
    BY FreeIdFacts DEF WatchLoops, Grows
  <2>3. IsFiniteSet(watch[n] \cup {[id |-> FreeId(n), at |-> "new", live |-> TRUE, rev |-> 0]})
    BY <1>0, FS_AddElement
  <2>4. watch' = [watch EXCEPT ![n] = @ \cup {[id |-> FreeId(n), at |-> "new", live |-> TRUE, rev |-> 0]}]
    BY <1>14 DEF ElectSlave
  <2>5. Watches
    BY <1>0, <2>2, <2>3, <2>4
  <2>6. QED
    BY <1>0, <1>14, <2>1, <2>5 DEF ElectSlave
<1>15. ASSUME NEW n \in Nodes, NEW e \in elect[n], ElectRegister(n, e) PROVE Goal
  <2>1. CASE Over(n, e)
    BY <1>0, <1>15, <2>1 DEF ElectRegister, Over
  <2>2. CASE Move(n, e, FreshCall("ready", "ready"))
    <3>1. FreshCall("ready", "ready") \in E
      BY DEF Elections, FreshCall, Grows
    <3>2. Calls
      BY <1>0, <2>2, <3>1, NewCall DEF Move
    <3>3. QED
      BY <1>0, <1>15, <3>2 DEF ElectRegister
  <2>3. QED
    BY <1>15, <2>1, <2>2 DEF ElectRegister
<1>16. ASSUME NEW n \in Nodes, NEW e \in elect[n], ReadyRead(n, e) \/ ReadyPut(n, e) PROVE Goal
  <2>1. CASE Over(n, e)
    BY <1>0, <1>16, <2>1 DEF ReadyRead, ReadyPut, Over
  <2>2. CASE Move(n, e, [e EXCEPT !.at = "put", !.lease = w[n].lease, !.mark = w[n].master]) /\ ReadyRead(n, e)
    <3>1. e \in E /\ w[n].lease \in Nat /\ w[n].master \in BOOLEAN
      BY <1>0 DEF WatcherOK, EtcdOK
    <3>2. [e EXCEPT !.at = "put", !.lease = w[n].lease, !.mark = w[n].master] \in E
      BY <3>1 DEF Elections
    <3>3. Calls
      BY <1>0, <2>2, <3>2, NewCall DEF Move
    <3>4. QED
      BY <1>0, <2>2, <3>3 DEF ReadyRead
  <2>3. QED
    BY <1>16, <2>1, <2>2 DEF ReadyRead, ReadyPut
<1>17. QED
  BY <1>3, <1>4, <1>5, <1>6, <1>7, <1>8, <1>9, <1>10, <1>11, <1>12, <1>13, <1>14, <1>15, <1>16, ElectionAssumption
  DEF ElectNext, Steps, ElectMaster, WatchMaster, KeepaliveLoop

-----------------------------------------------------------------------------
(* The events and the guard. *)

LEMMA WideService ==
    ASSUME EtcdOK, ServiceOK, Grows
    PROVE  /\ chan \in [Nodes -> Seq(Events \X (0..rev'))]
           /\ guard \in [Nodes -> [leader : BOOLEAN, epoch : 0..rev', ctx : BOOLEAN]]
<1>1. 0..rev \subseteq 0..rev' /\ Seq(Events \X (0..rev)) \subseteq Seq(Events \X (0..rev'))
  BY Widen DEF EtcdOK, Grows
<1>2. chan \in [Nodes -> Seq(Events \X (0..rev'))]
  BY <1>1 DEF ServiceOK
<1>3. \A n \in Nodes : guard[n] \in [leader : BOOLEAN, epoch : 0..rev', ctx : BOOLEAN]
  BY <1>1 DEF ServiceOK
<1>4. QED
  BY <1>2, <1>3 DEF ServiceOK

\* An event is queued or lost.
LEMMA PostService ==
    ASSUME ServiceOK, chan \in [Nodes -> Seq(Events \X (0..rev'))],
           NEW n \in Nodes, NEW t \in Events, NEW x \in 0..rev', Post(n, t, x)
    PROVE  /\ chan' \in [Nodes -> Seq(Events \X (0..rev'))]
           /\ faults' \in 0..MaxFaults /\ spoiled' \subseteq Nodes
<1>1. <<t, x>> \in Events \X (0..rev')
  OBVIOUS
<1>2. Append(chan[n], <<t, x>>) \in Seq(Events \X (0..rev'))
  BY <1>1
<1>3. CASE /\ chan' = [chan EXCEPT ![n] = Append(@, <<t, x>>)] /\ UNCHANGED <<faults, spoiled>>
  BY <1>2, <1>3 DEF ServiceOK
<1>4. CASE /\ faults < MaxFaults /\ faults' = faults + 1 /\ spoiled' = spoiled \cup {n} /\ UNCHANGED chan
  BY <1>4, ElectionAssumption DEF ServiceOK
<1>5. QED
  BY <1>3, <1>4 DEF Post

\* The guard takes its epoch from the event.
LEMMA OnEventService ==
    ASSUME EtcdOK, ServiceOK, NEW n \in Nodes, OnEvent(n)
    PROVE  ServiceOK'
<1>1. rev' = rev /\ UNCHANGED <<faults, spoiled>>
  BY DEF OnEvent, etcd
<1>2. /\ Head(chan[n]) \in Events \X (0..rev) /\ Tail(chan[n]) \in Seq(Events \X (0..rev))
  BY DEF ServiceOK, OnEvent
<1>3. chan' \in [Nodes -> Seq(Events \X (0..rev))]
  BY <1>2 DEF ServiceOK, OnEvent
<1>4. Head(chan[n])[2] \in 0..rev
  BY <1>2
<1>5. guard' \in [Nodes -> [leader : BOOLEAN, epoch : 0..rev, ctx : BOOLEAN]]
  <2> DEFINE R == [leader : BOOLEAN, epoch : 0..rev, ctx : BOOLEAN]
             v == IF Head(chan[n])[1] = "become"
                  THEN IF GuardStays(n) THEN guard[n] ELSE [leader |-> TRUE, epoch |-> Head(chan[n])[2], ctx |-> TRUE]
                  ELSE IF guard[n].leader THEN [leader |-> FALSE, epoch |-> 0, ctx |-> FALSE] ELSE guard[n]
  <2>1. guard' = [guard EXCEPT ![n] = v]
    BY DEF OnEvent
  <2>2. guard[n] \in R /\ guard \in [Nodes -> R]
    BY DEF ServiceOK
  <2>3. 0 \in 0..rev
    BY DEF EtcdOK
  <2>4. [leader |-> TRUE, epoch |-> Head(chan[n])[2], ctx |-> TRUE] \in R
    BY <1>4
  <2>5. [leader |-> FALSE, epoch |-> 0, ctx |-> FALSE] \in R
    BY <2>3
  <2>6. v \in R
    BY <2>2, <2>4, <2>5
  <2>7. QED
    BY <2>1, <2>2, <2>6
<1>6. QED
  BY <1>1, <1>3, <1>5 DEF ServiceOK

LEMMA ServiceStep ==
    ASSUME ElectTypeOK, ElectNext, Grows
    PROVE  ServiceOK'
<1> USE DEF ElectTypeOK
<1> DEFINE C == chan' \in [Nodes -> Seq(Events \X (0..rev'))]
           F == faults' \in 0..MaxFaults
           S == spoiled' \subseteq Nodes
<1>0. /\ chan \in [Nodes -> Seq(Events \X (0..rev'))]
      /\ guard \in [Nodes -> [leader : BOOLEAN, epoch : 0..rev', ctx : BOOLEAN]]
      /\ faults \in 0..MaxFaults /\ spoiled \subseteq Nodes /\ 0 \in 0..rev'
  BY WideService DEF ServiceOK, Grows
<1>1. ASSUME faults < MaxFaults, faults' = faults + 1 PROVE F
  BY <1>0, <1>1, ElectionAssumption
<1>2. ASSUME C, F, S, UNCHANGED guard PROVE ServiceOK'
  BY <1>0, <1>2 DEF ServiceOK
<1>3. ASSUME NEW n \in Nodes, Start(n) \/ RestartStart(n) \/ LoopCheck(n) PROVE ServiceOK'
  BY <1>0, <1>2, <1>3 DEF Start, RestartStart, LoopCheck, Begin
<1>4. ASSUME NEW n \in Nodes, Stop(n) \/ StopWait(n) \/ Recover(n) \/ Reconnect(n) \/ Lapse PROVE ServiceOK'
  BY <1>0, <1>2, <1>4 DEF Stop, StopWait, Recover, Reconnect, Lapse
<1>5. ASSUME NEW n \in Nodes, Expire(n) \/ Disconnect(n) PROVE ServiceOK'
  BY <1>0, <1>1, <1>2, <1>5 DEF Expire, Disconnect
<1>6. ASSUME NEW n \in Nodes, LoopTop(n) \/ KeepAlive(n) \/ LoopElected(n) PROVE ServiceOK'
  BY <1>0, <1>2, <1>6 DEF LoopTop, KeepAlive, LoopElected
<1>7. ASSUME NEW n \in Nodes, NEW g \in watch[n], WatchStart(n, g) \/ WatchExit(n, g) \/ WatchElect(n, g) PROVE ServiceOK'
  BY <1>0, <1>1, <1>2, <1>7 DEF WatchStart, WatchExit, WatchElect, Begin
<1>8. ASSUME NEW n \in Nodes, LoopLose(n) PROVE ServiceOK'
  <2>1. Post(n, "lose", 0) /\ UNCHANGED guard
    BY <1>8 DEF LoopLose
  <2>2. QED
    BY <1>0, <1>2, <2>1, PostService DEF Events
<1>9. ASSUME NEW n \in Nodes, NEW e \in elect[n], ElectLose(n, e) PROVE ServiceOK'
  <2>1. Post(n, "lose", 0) /\ UNCHANGED guard
    BY <1>9 DEF ElectLose
  <2>2. QED
    BY <1>0, <1>2, <2>1, PostService DEF Events
<1>10. ASSUME NEW n \in Nodes, NEW e \in elect[n], ElectNotify(n, e) PROVE ServiceOK'
  <2>1. (Post(n, "become", e.epoch) \/ Post(n, "slave", 0)) /\ UNCHANGED guard
    BY <1>10 DEF ElectNotify
  <2>2. e.epoch \in 0..rev'
    <3>1. e \in Elections(rev')
      BY WideCalls
    <3>2. QED
      BY <3>1 DEF Elections
  <2>3. QED
    BY <1>0, <1>2, <2>1, <2>2, PostService DEF Events
<1>11. ASSUME NEW n \in Nodes, NEW e \in elect[n],
              \/ ElectStop(n, e) \/ ElectWait(n, e) \/ ElectReset(n, e) \/ ElectWon(n, e) \/ ElectSlave(n, e)
              \/ ElectRegister(n, e) \/ ReadyRead(n, e) \/ ReadyPut(n, e)
       PROVE  ServiceOK'
  BY <1>0, <1>2, <1>11
  DEF ElectStop, ElectWait, ElectReset, ElectWon, ElectSlave, ElectRegister, ReadyRead, ReadyPut
<1>12. ASSUME NEW n \in Nodes, NEW e \in elect[n], TryAcquireMaster(n, e) PROVE ServiceOK'
  BY <1>0, <1>1, <1>2, <1>12 DEF TryAcquireMaster
<1>13. ASSUME NEW n \in Nodes, OnEvent(n) PROVE ServiceOK'
  BY <1>13, OnEventService
<1>14. QED
  BY <1>3, <1>4, <1>5, <1>6, <1>7, <1>8, <1>9, <1>10, <1>11, <1>12, <1>13, ElectionAssumption
  DEF ElectNext, Steps, ElectMaster, WatchMaster, KeepaliveLoop

\* Every step keeps the state well formed, and the store only grows.
LEMMA TypeStep ==
    ASSUME ElectTypeOK, ElectNext
    PROVE  ElectTypeOK' /\ Grows
<1>1. EtcdOK' /\ Grows
  BY EtcdStep
<1>2. QED
  BY <1>1, WatcherStep, CallsStep, ServiceStep DEF ElectTypeOK

-----------------------------------------------------------------------------
(* The owners of the epochs. *)

LEMMA OwnsRange ==
    ASSUME ElectTypeOK, NEW n \in Nodes, NEW x, Owns(n, x)
    PROVE  x \in 0..rev
<1>1. CASE guard[n].leader /\ guard[n].epoch = x
  BY <1>1 DEF ElectTypeOK, ServiceOK
<1>2. ASSUME NEW i \in 1..Len(chan[n]), chan[n][i] = <<"become", x>> PROVE x \in 0..rev
  <2>1. chan[n] \in Seq(Events \X (0..rev))
    BY DEF ElectTypeOK, ServiceOK
  <2>2. <<"become", x>> \in Events \X (0..rev)
    BY <1>2, <2>1, ElementType
  <2>3. QED
    BY <2>2
<1>3. ASSUME NEW e \in elect[n], e.epoch = x PROVE x \in 0..rev
  <2>1. e \in Elections(rev)
    BY DEF ElectTypeOK, CallsOK
  <2>2. QED
    BY <1>3, <2>1 DEF Elections
<1>4. QED
  BY <1>1, <1>2, <1>3 DEF Owns

\* A step that gives nobody an epoch, and the key to nobody.
LEMMA NobodyNew ==
    ASSUME ElectTypeOK, OwnerInv, Grows, key' = key \/ key' = NoKey,
           \A n \in Nodes : guard[n].leader' => guard[n].ctx',
           \A n \in Nodes, x \in 0..rev' : Owns(n, x)' => Owns(n, x)
    PROVE  OwnerInv'
<1>1. ASSUME NEW n \in Nodes, NEW x \in 0..rev', Owns(n, x)' PROVE Owns(n, x) /\ x \in 0..rev
  BY <1>1, OwnsRange
<1>2. \A n \in Nodes, x \in 0..rev' : Owns(n, x)' /\ key' # NoKey => x <= key.rev'
  BY <1>1 DEF OwnerInv
<1>3. \A n \in Nodes, m \in Nodes, x \in 0..rev' : Owns(n, x)' /\ Owns(m, x)' => n = m
  BY <1>1 DEF OwnerInv
<1>4. QED
  BY <1>2, <1>3 DEF OwnerInv

\* The elections of a step that decides none.
NoWinner ==
    \A m \in Nodes : \A f \in elect'[m] : f.at \in {"won", "become"} =>
        \E e \in elect[m] : e.at \in {"won", "become"} /\ e.epoch = f.epoch

\* A call goes on, begins or ends.
LEMMA MoveNoWinner ==
    ASSUME elect \in [Nodes -> SUBSET Elections(rev)], NEW m \in Nodes, NEW e \in elect[m], NEW f, Move(m, e, f),
           f.at \in {"won", "become"} => e.at \in {"won", "become"} /\ e.epoch = f.epoch
    PROVE  NoWinner
  BY DEF NoWinner, Move

LEMMA AtNoWinner ==
    ASSUME elect \in [Nodes -> SUBSET Elections(rev)], NEW m \in Nodes, NEW e \in elect[m],
           NEW a \in {"wait", "reset", "lose", "txn", "slave", "demote", "register"}, Move(m, e, [e EXCEPT !.at = a])
    PROVE  NoWinner
<1>1. e \in Elections(rev)
  OBVIOUS
<1>2. [e EXCEPT !.at = a].at = a
  BY <1>1 DEF Elections
<1>3. QED
  BY <1>2, MoveNoWinner

LEMMA BeginNoWinner ==
    ASSUME elect \in [Nodes -> SUBSET Elections(rev)], NEW m \in Nodes, NEW by,
           elect' = [elect EXCEPT ![m] = @ \cup {FreshCall(by, "stop")}]
    PROVE  NoWinner
<1>1. FreshCall(by, "stop").at = "stop"
  BY DEF FreshCall
<1>2. QED
  BY <1>1 DEF NoWinner

LEMMA OverNoWinner ==
    ASSUME elect \in [Nodes -> SUBSET Elections(rev)], NEW m \in Nodes, NEW e, Over(m, e)
    PROVE  NoWinner
  BY DEF NoWinner, Over

\* Neither the events nor the guard change.
LEMMA QuietOwners ==
    ASSUME NoWinner, UNCHANGED <<chan, guard>>, NEW n \in Nodes, NEW x, Owns(n, x)'
    PROVE  Owns(n, x)
  BY DEF NoWinner, Owns

\* An event other than the one that makes a leader is posted, or lost.
LEMMA PostOwners ==
    ASSUME ElectTypeOK, NoWinner, UNCHANGED guard, NEW m \in Nodes, NEW t \in Events \ {"become"}, Post(m, t, 0),
           NEW n \in Nodes, NEW x, Owns(n, x)'
    PROVE  Owns(n, x)
<1>1. CASE UNCHANGED chan
  BY <1>1, QuietOwners
<1>2. CASE chan' = [chan EXCEPT ![m] = Append(@, <<t, 0>>)]
  <2>1. ASSUME NEW i \in 1..Len(chan'[n]), chan'[n][i] = <<"become", x>> PROVE Owns(n, x)
    <3>1. chan[n] \in Seq(Events \X (0..rev)) /\ chan \in [Nodes -> Seq(Events \X (0..rev))]
      BY DEF ElectTypeOK, ServiceOK
    <3>2. CASE n # m
      BY <1>2, <2>1, <3>1, <3>2 DEF Owns
    <3>3. CASE n = m
      <4>1. chan'[n] = Append(chan[n], <<t, 0>>)
        BY <1>2, <3>1, <3>3
      <4>2. CASE i = Len(chan[n]) + 1
        <5>1. chan'[n][i] = <<t, 0>>
          BY <3>1, <4>1, <4>2
        <5>2. QED
          BY <2>1, <5>1
      <4>3. CASE i # Len(chan[n]) + 1
        <5>1. i \in 1..Len(chan[n]) /\ chan'[n][i] = chan[n][i]
          BY <3>1, <4>1, <4>3
        <5>2. QED
          BY <2>1, <5>1 DEF Owns
      <4>4. QED
        BY <4>2, <4>3
    <3>4. QED
      BY <3>2, <3>3
  <2>2. QED
    BY <2>1 DEF NoWinner, Owns
<1>3. QED
  BY <1>1, <1>2 DEF Post

\* The epoch of an election that was won is posted: it leaves the election for the channel.
LEMMA NotifyOwners ==
    ASSUME ElectTypeOK, NEW m \in Nodes, NEW e \in elect[m], ElectNotify(m, e), e.at = "become",
           NEW n \in Nodes, NEW x, Owns(n, x)'
    PROVE  Owns(n, x)
<1>1. NoWinner
  BY AtNoWinner DEF ElectNotify, ElectTypeOK, CallsOK
<1>2. Post(m, "become", e.epoch) /\ UNCHANGED guard
  BY DEF ElectNotify
<1>3. CASE UNCHANGED chan
  BY <1>1, <1>2, <1>3, QuietOwners
<1>4. CASE chan' = [chan EXCEPT ![m] = Append(@, <<"become", e.epoch>>)]
  <2>1. ASSUME NEW i \in 1..Len(chan'[n]), chan'[n][i] = <<"become", x>> PROVE Owns(n, x)
    <3>1. chan[n] \in Seq(Events \X (0..rev)) /\ chan \in [Nodes -> Seq(Events \X (0..rev))]
      BY DEF ElectTypeOK, ServiceOK
    <3>2. CASE n # m
      BY <1>4, <2>1, <3>1, <3>2 DEF Owns
    <3>3. CASE n = m
      <4>1. chan'[n] = Append(chan[n], <<"become", e.epoch>>)
        BY <1>4, <3>1, <3>3
      <4>2. CASE i = Len(chan[n]) + 1
        <5>1. chan'[n][i] = <<"become", e.epoch>>
          BY <3>1, <4>1, <4>2
        <5>2. e.epoch = x
          BY <2>1, <5>1
        <5>3. QED
          BY <3>3, <5>2 DEF Owns
      <4>3. CASE i # Len(chan[n]) + 1
        <5>1. i \in 1..Len(chan[n]) /\ chan'[n][i] = chan[n][i]
          BY <3>1, <4>1, <4>3
        <5>2. QED
          BY <2>1, <5>1 DEF Owns
      <4>4. QED
        BY <4>2, <4>3
    <3>4. QED
      BY <3>2, <3>3
  <2>2. QED
    BY <1>1, <1>2, <2>1 DEF NoWinner, Owns
<1>5. QED
  BY <1>2, <1>3, <1>4 DEF Post

\* The guard takes over the epoch of the event it handles, or gives up its own.
LEMMA OnEventOwners ==
    ASSUME ElectTypeOK, NEW m \in Nodes, OnEvent(m), NEW n \in Nodes, NEW x, Owns(n, x)'
    PROVE  Owns(n, x)
<1>1. chan[m] \in Seq(Events \X (0..rev)) /\ chan \in [Nodes -> Seq(Events \X (0..rev))] /\ chan[m] # <<>>
  BY DEF ElectTypeOK, ServiceOK, OnEvent
<1>2. elect' = elect
  BY DEF OnEvent
<1>3. guard \in [Nodes -> [leader : BOOLEAN, epoch : 0..rev, ctx : BOOLEAN]]
  BY DEF ElectTypeOK, ServiceOK
<1>4. CASE n # m
  <2>1. guard'[n] = guard[n] /\ chan'[n] = chan[n]
    BY <1>1, <1>3, <1>4 DEF OnEvent
  <2>2. QED
    BY <1>2, <2>1 DEF Owns
<1>5. CASE n = m
  <2>1. chan'[n] = Tail(chan[n]) /\ 1 \in 1..Len(chan[n]) /\ Head(chan[n]) = chan[n][1]
    BY <1>1, <1>5 DEF OnEvent
  <2>2. ASSUME NEW i \in 1..Len(chan'[n]), chan'[n][i] = <<"become", x>> PROVE Owns(n, x)
    <3>1. i + 1 \in 1..Len(chan[n]) /\ chan'[n][i] = chan[n][i + 1]
      BY <1>1, <1>5, <2>1
    <3>2. QED
      BY <2>2, <3>1 DEF Owns
  <2>3. ASSUME guard'[n].leader, guard'[n].epoch = x PROVE Owns(n, x)
    <3>1. CASE guard'[n] = guard[n]
      BY <2>3, <3>1 DEF Owns
    <3>2. CASE /\ Head(chan[n])[1] = "become"
               /\ guard'[n] = [leader |-> TRUE, epoch |-> Head(chan[n])[2], ctx |-> TRUE]
      <4>1. chan[n][1] \in Events \X (0..rev)
        BY <1>1, <1>5, <2>1, ElementType
      <4>2. chan[n][1] = <<"become", x>>
        BY <2>1, <2>3, <3>2, <4>1
      <4>3. QED
        BY <2>1, <4>2 DEF Owns
    <3>3. CASE guard'[n] = [leader |-> FALSE, epoch |-> 0, ctx |-> FALSE]
      BY <2>3, <3>3
    <3>4. QED
      BY <1>3, <1>5, <3>1, <3>2, <3>3 DEF OnEvent
  <2>4. QED
    BY <1>2, <2>2, <2>3 DEF Owns
<1>6. QED
  BY <1>4, <1>5

\* The transaction that went through gives n a new epoch, the revision of the key.
LEMMA WonOwners ==
    ASSUME ElectTypeOK, OwnerInv, NEW m \in Nodes, NEW e \in elect[m],
           rev' = rev + 1, key' = [lease |-> w[m].lease, rev |-> rev + 1], UNCHANGED <<chan, guard>>,
           Move(m, e, [e EXCEPT !.at = "won", !.epoch = Epoch])
    PROVE  OwnerInv'
<1>1. rev \in Nat /\ elect \in [Nodes -> SUBSET Elections(rev)]
  BY DEF ElectTypeOK, EtcdOK, CallsOK
<1>2. e \in Elections(rev)
  BY <1>1
<1>3. ASSUME NEW n \in Nodes, NEW x \in 0..rev', Owns(n, x)' PROVE (Owns(n, x) /\ x \in 0..rev) \/ (n = m /\ x = rev + 1)
  <2>1. CASE guard[n].leader /\ guard[n].epoch = x
    BY <2>1, OwnsRange DEF Owns
  <2>2. CASE \E i \in 1..Len(chan[n]) : chan[n][i] = <<"become", x>>
    BY <2>2, OwnsRange DEF Owns
  <2>3. ASSUME NEW f \in elect'[n], f.at \in {"won", "become"}, f.epoch = x
        PROVE  (Owns(n, x) /\ x \in 0..rev) \/ (n = m /\ x = rev + 1)
    <3>1. CASE f \in elect[n]
      BY <2>3, <3>1, OwnsRange DEF Owns
    <3>2. CASE f \notin elect[n]
      <4>1. n = m /\ f = [e EXCEPT !.at = "won", !.epoch = Epoch]
        BY <1>1, <3>2 DEF Move
      <4>2. f.epoch = rev + 1
        BY <1>2, <4>1 DEF Elections, Epoch
      <4>3. QED
        BY <2>3, <4>1, <4>2
    <3>3. QED
      BY <3>1, <3>2
  <2>4. QED
    BY <1>3, <2>1, <2>2, <2>3 DEF Owns
<1>4. \A n \in Nodes, x \in 0..rev' : Owns(n, x)' /\ key' # NoKey => x <= key.rev'
  <2>1. key.rev' = rev + 1
    OBVIOUS
  <2>2. QED
    BY <1>1, <1>3, <2>1
<1>5. \A n \in Nodes, k \in Nodes, x \in 0..rev' : Owns(n, x)' /\ Owns(k, x)' => n = k
  <2> SUFFICES ASSUME NEW n \in Nodes, NEW k \in Nodes, NEW x \in 0..rev', Owns(n, x)', Owns(k, x)' PROVE n = k
    OBVIOUS
  <2>1. (Owns(n, x) /\ x \in 0..rev) \/ (n = m /\ x = rev + 1)
    BY <1>3
  <2>2. (Owns(k, x) /\ x \in 0..rev) \/ (k = m /\ x = rev + 1)
    BY <1>3
  <2>3. CASE x \in 0..rev
    BY <1>1, <2>1, <2>2, <2>3 DEF OwnerInv
  <2>4. QED
    BY <2>1, <2>2, <2>3
<1>6. QED
  BY <1>4, <1>5 DEF OwnerInv

LEMMA OwnerStep ==
    ASSUME ElectInv, ElectNext
    PROVE  OwnerInv'
<1>1. ElectTypeOK /\ OwnerInv /\ Grows
  BY TypeStep DEF ElectInv
<1>2. elect \in [Nodes -> SUBSET Elections(rev)] /\ \A n \in Nodes : guard[n].leader => guard[n].ctx
  BY <1>1 DEF ElectTypeOK, CallsOK, OwnerInv
<1>3. ASSUME UNCHANGED <<chan, guard>>, NoWinner, key' = key \/ key' = NoKey PROVE OwnerInv'
  BY <1>1, <1>2, <1>3, QuietOwners, NobodyNew
<1>4. ASSUME NEW n \in Nodes, Start(n) \/ RestartStart(n) \/ LoopCheck(n) PROVE OwnerInv'
  <2>1. UNCHANGED <<chan, guard>>
    BY <1>4 DEF Start, RestartStart, LoopCheck
  <2>2. NoWinner
    <3>1. CASE elect' = elect
      BY <3>1 DEF NoWinner
    <3>2. QED
      BY <1>2, <1>4, <3>1, BeginNoWinner DEF Start, RestartStart, LoopCheck, Begin
  <2>3. key' = key \/ key' = NoKey
    BY <1>4 DEF Start, RestartStart, LoopCheck, Grant, etcd
  <2>4. QED
    BY <1>3, <2>1, <2>2, <2>3
<1>5. ASSUME NEW n \in Nodes, Stop(n) \/ Expire(n) \/ Lapse PROVE OwnerInv'
  <2>1. UNCHANGED <<elect, chan, guard>> /\ (key' = key \/ key' = NoKey)
    BY <1>5 DEF Stop, Expire, Lapse, EndLeases
  <2>2. QED
    BY <1>3, <2>1 DEF NoWinner
<1>6. ASSUME NEW n \in Nodes, StopWait(n) \/ Recover(n) \/ Disconnect(n) \/ Reconnect(n) PROVE OwnerInv'
  <2>1. UNCHANGED <<key, elect, chan, guard>>
    BY <1>6 DEF StopWait, Recover, Disconnect, Reconnect, etcd
  <2>2. QED
    BY <1>3, <2>1 DEF NoWinner
<1>7. ASSUME NEW n \in Nodes, LoopTop(n) \/ KeepAlive(n) \/ LoopElected(n) PROVE OwnerInv'
  <2>1. UNCHANGED <<key, elect, chan, guard>>
    BY <1>7 DEF LoopTop, KeepAlive, LoopElected, etcd
  <2>2. QED
    BY <1>3, <2>1 DEF NoWinner
<1>8. ASSUME NEW n \in Nodes, NEW g \in watch[n], WatchStart(n, g) \/ WatchExit(n, g) \/ WatchElect(n, g) PROVE OwnerInv'
  <2>1. UNCHANGED <<key, chan, guard>>
    BY <1>8 DEF WatchStart, WatchExit, WatchElect, etcd
  <2>2. NoWinner
    <3>1. CASE elect' = elect
      BY <3>1 DEF NoWinner
    <3>2. QED
      BY <1>2, <1>8, <3>1, BeginNoWinner DEF WatchStart, WatchExit, WatchElect, Begin
  <2>3. QED
    BY <1>3, <2>1, <2>2
<1>9. ASSUME NoWinner, UNCHANGED <<key, guard>>, NEW n \in Nodes, NEW t \in {"lose", "slave"}, Post(n, t, 0) PROVE OwnerInv'
  <2>1. t \in Events \ {"become"}
    BY DEF Events
  <2>2. \A m \in Nodes, x \in 0..rev' : Owns(m, x)' => Owns(m, x)
    BY <1>1, <1>9, <2>1, PostOwners
  <2>3. QED
    BY <1>1, <1>2, <1>9, <2>2, NobodyNew
<1>10. ASSUME NEW n \in Nodes, LoopLose(n) PROVE OwnerInv'
  <2>1. UNCHANGED <<key, elect, guard>> /\ Post(n, "lose", 0)
    BY <1>10 DEF LoopLose, etcd
  <2>2. QED
    BY <1>9, <2>1 DEF NoWinner
<1>11. ASSUME NEW n \in Nodes, NEW e \in elect[n], ElectLose(n, e) PROVE OwnerInv'
  <2>1. UNCHANGED <<key, guard>> /\ Post(n, "lose", 0) /\ Move(n, e, [e EXCEPT !.at = "txn"])
    BY <1>11 DEF ElectLose, etcd
  <2>2. QED
    BY <1>2, <1>9, <2>1, AtNoWinner
<1>12. ASSUME NEW n \in Nodes, NEW e \in elect[n], ElectNotify(n, e) PROVE OwnerInv'
  <2>1. UNCHANGED <<key, guard>> /\ Move(n, e, [e EXCEPT !.at = "register"])
    BY <1>12 DEF ElectNotify, etcd
  <2>2. CASE e.at = "demote"
    <3>1. Post(n, "slave", 0)
      BY <1>12, <2>2 DEF ElectNotify
    <3>2. QED
      BY <1>2, <1>9, <2>1, <3>1, AtNoWinner
  <2>3. CASE e.at = "become"
    <3>1. \A m \in Nodes, x \in 0..rev' : Owns(m, x)' => Owns(m, x)
      BY <1>1, <1>12, <2>3, NotifyOwners
    <3>2. QED
      BY <1>1, <1>2, <2>1, <3>1, NobodyNew
  <2>4. QED
    BY <1>12, <2>2, <2>3 DEF ElectNotify
<1>13. ASSUME NEW n \in Nodes, NEW e \in elect[n], ElectStop(n, e) \/ ElectWait(n, e) \/ ElectSlave(n, e) PROVE OwnerInv'
  <2>1. UNCHANGED <<key, chan, guard>>
    BY <1>13 DEF ElectStop, ElectWait, ElectSlave, etcd
  <2>2. NoWinner
    BY <1>2, <1>13, AtNoWinner DEF ElectStop, ElectWait, ElectSlave
  <2>3. QED
    BY <1>3, <2>1, <2>2
<1>14. ASSUME NEW n \in Nodes, NEW e \in elect[n], ElectReset(n, e) PROVE OwnerInv'
  <2> DEFINE f == [e EXCEPT !.at = IF w[n].master THEN "lose" ELSE "txn"]
  <2>1. UNCHANGED <<key, chan, guard>> /\ Move(n, e, f)
    BY <1>14 DEF ElectReset, etcd
  <2>2. e \in Elections(rev)
    BY <1>2
  <2>3. f.at \notin {"won", "become"}
    BY <2>2 DEF Elections
  <2>4. NoWinner
    BY <1>2, <2>1, <2>3, MoveNoWinner
  <2>5. QED
    BY <1>3, <2>1, <2>4
<1>15. ASSUME NEW n \in Nodes, NEW e \in elect[n], ElectWon(n, e) PROVE OwnerInv'
  <2>1. UNCHANGED <<key, chan, guard>> /\ Move(n, e, [e EXCEPT !.at = "become"]) /\ e.at = "won"
    BY <1>15 DEF ElectWon, etcd
  <2>2. e \in Elections(rev)
    BY <1>2
  <2>3. [e EXCEPT !.at = "become"].epoch = e.epoch
    BY <2>2 DEF Elections
  <2>4. NoWinner
    BY <1>2, <2>1, <2>3, MoveNoWinner
  <2>5. QED
    BY <1>3, <2>1, <2>4
<1>16. ASSUME NEW n \in Nodes, NEW e \in elect[n], ElectRegister(n, e) \/ ReadyRead(n, e) \/ ReadyPut(n, e)
       PROVE  OwnerInv'
  <2>1. UNCHANGED <<key, chan, guard>>
    BY <1>16 DEF ElectRegister, ReadyRead, ReadyPut, etcd
  <2>2. CASE Over(n, e)
    BY <1>2, <1>3, <2>1, <2>2, OverNoWinner
  <2>3. CASE Move(n, e, FreshCall("ready", "ready"))
    <3>1. FreshCall("ready", "ready").at = "ready"
      BY DEF FreshCall
    <3>2. NoWinner
      BY <1>2, <2>3, <3>1, MoveNoWinner
    <3>3. QED
      BY <1>3, <2>1, <3>2
  <2>4. CASE Move(n, e, [e EXCEPT !.at = "put", !.lease = w[n].lease, !.mark = w[n].master])
    <3>1. e \in Elections(rev)
      BY <1>2
    <3>2. [e EXCEPT !.at = "put", !.lease = w[n].lease, !.mark = w[n].master].at = "put"
      BY <3>1 DEF Elections
    <3>3. NoWinner
      BY <1>2, <2>4, <3>2, MoveNoWinner
    <3>4. QED
      BY <1>3, <2>1, <3>3
  <2>5. QED
    BY <1>16, <2>2, <2>3, <2>4 DEF ElectRegister, ReadyRead, ReadyPut
<1>17. ASSUME NEW n \in Nodes, NEW e \in elect[n], TryAcquireMaster(n, e) PROVE OwnerInv'
  <2>1. UNCHANGED <<chan, guard>>
    BY <1>17 DEF TryAcquireMaster
  <2>2. CASE UNCHANGED key /\ Over(n, e)
    BY <1>2, <1>3, <2>1, <2>2, OverNoWinner
  <2>3. CASE UNCHANGED key /\ Move(n, e, [e EXCEPT !.at = "slave"])
    BY <1>2, <1>3, <2>1, <2>3, AtNoWinner
  <2>4. CASE /\ rev' = rev + 1 /\ key' = [lease |-> w[n].lease, rev |-> rev + 1]
             /\ Move(n, e, [e EXCEPT !.at = "won", !.epoch = Epoch])
    BY <1>1, <2>1, <2>4, WonOwners
  <2>5. CASE /\ rev' = rev + 1 /\ key' = [lease |-> w[n].lease, rev |-> rev + 1]
             /\ Move(n, e, [e EXCEPT !.at = "slave"])
    <3>1. NoWinner
      BY <1>2, <2>5, AtNoWinner
    <3>2. ASSUME NEW m \in Nodes, NEW x \in 0..rev', Owns(m, x)' PROVE Owns(m, x) /\ x \in 0..rev
      BY <1>1, <2>1, <3>1, <3>2, QuietOwners, OwnsRange
    <3>3. \A m \in Nodes, x \in 0..rev' : Owns(m, x)' /\ key' # NoKey => x <= key.rev'
      <4>1. key.rev' = rev + 1 /\ rev \in Nat
        BY <1>1, <2>5 DEF ElectTypeOK, EtcdOK
      <4>2. QED
        BY <3>2, <4>1
    <3>4. \A m \in Nodes, k \in Nodes, x \in 0..rev' : Owns(m, x)' /\ Owns(k, x)' => m = k
      BY <1>1, <3>2 DEF OwnerInv
    <3>5. QED
      BY <1>2, <2>1, <3>3, <3>4 DEF OwnerInv
  <2>6. QED
    BY <1>17, <2>2, <2>3, <2>4, <2>5 DEF TryAcquireMaster
<1>18. ASSUME NEW n \in Nodes, OnEvent(n) PROVE OwnerInv'
  <2>1. \A m \in Nodes, x \in 0..rev' : Owns(m, x)' => Owns(m, x)
    BY <1>1, <1>18, OnEventOwners
  <2>2. ASSUME NEW m \in Nodes, guard'[m].leader PROVE guard'[m].ctx
    <3>1. guard \in [Nodes -> [leader : BOOLEAN, epoch : 0..rev, ctx : BOOLEAN]]
      BY <1>1 DEF ElectTypeOK, ServiceOK
    <3>2. \/ guard'[m] = guard[m]
          \/ guard'[m] = [leader |-> TRUE, epoch |-> Head(chan[n])[2], ctx |-> TRUE]
          \/ guard'[m] = [leader |-> FALSE, epoch |-> 0, ctx |-> FALSE]
      BY <1>18, <3>1 DEF OnEvent
    <3>3. QED
      BY <1>2, <2>2, <3>2
  <2>3. key' = key
    BY <1>18 DEF OnEvent, etcd
  <2>4. QED
    BY <1>1, <2>1, <2>2, <2>3, NobodyNew
<1>19. QED
  BY <1>4, <1>5, <1>6, <1>7, <1>8, <1>10, <1>11, <1>12, <1>13, <1>14, <1>15, <1>16, <1>17, <1>18, ElectionAssumption
  DEF ElectNext, Steps, ElectMaster, WatchMaster, KeepaliveLoop

-----------------------------------------------------------------------------
(* The theorem. *)

LEMMA ElectStep == ElectInv /\ [ElectNext]_electVars => ElectInv'
<1> SUFFICES ASSUME ElectInv, [ElectNext]_electVars PROVE ElectInv'
  OBVIOUS
<1>1. CASE ElectNext
  BY <1>1, TypeStep, OwnerStep DEF ElectInv
<1>2. CASE UNCHANGED electVars
  <2>1. EtcdOK' /\ WatcherOK' /\ CallsOK' /\ ServiceOK'
    BY <1>2 DEF electVars, ElectInv, ElectTypeOK, EtcdOK, WatcherOK, CallsOK, ServiceOK
  <2>2. OwnerInv'
    BY <1>2 DEF electVars, ElectInv, OwnerInv, Owns
  <2>3. QED
    BY <2>1, <2>2 DEF ElectInv, ElectTypeOK
<1>3. QED
  BY <1>1, <1>2

\* The epochs a guard leads with are owned, so OwnerInv fences them.
LEMMA OwnersFence == ElectInv => EpochsSound
<1> SUFFICES ASSUME ElectInv PROVE EpochsSound
  OBVIOUS
<1>1. ASSUME NEW n \in Nodes, guard[n].leader PROVE Owns(n, guard[n].epoch) /\ guard[n].epoch \in 0..rev
  BY <1>1, OwnsRange DEF Owns, ElectInv
<1>2. ASSUME NEW n \in Nodes, guard[n].leader, key # NoKey, guard[n].epoch # key.rev PROVE guard[n].epoch < key.rev
  <2>1. guard[n].epoch <= key.rev /\ guard[n].epoch \in 0..rev
    BY <1>1, <1>2 DEF ElectInv, OwnerInv
  <2>2. key.rev \in 0..rev
    BY DEF ElectInv, ElectTypeOK, EtcdOK
  <2>3. QED
    BY <1>2, <2>1, <2>2
<1>3. ASSUME NEW n \in Nodes, NEW m \in Nodes \ {n}, guard[n].leader, guard[m].leader PROVE guard[m].epoch # guard[n].epoch
  BY <1>1, <1>3 DEF ElectInv, OwnerInv
<1>4. EpochFences
  BY <1>2, <1>3 DEF ElectInv, OwnerInv, EpochFences
<1>5. QED
  BY <1>4 DEF EpochsSound, ElectInv

\* Whatever is lost, expires or overlaps, the epoch of a term fences: in every state the guards
\* that believe to lead have different epochs, none newer than the master key's, and a live context.
THEOREM EpochsSoundHolds == ElectSpec => []EpochsSound
<1>1. ElectInit => ElectInv
  BY ElectInitInv
<1>2. ElectInv /\ [ElectNext]_electVars => ElectInv'
  BY ElectStep
<1>3. ElectInv => EpochsSound
  BY OwnersFence
<1>4. QED
  BY <1>1, <1>2, <1>3, PTL DEF ElectSpec

(***************************************************************************)
(* The directory.                                                          *)
(***************************************************************************)
\* Only CloseShards closes the shards, and Close never goes back.
OpenInv == ~open => closer \in {"wait", "done"}

DirInv == DirTypeOK /\ OpenInv /\ NoSendOnClosed

\* The placeholder of an idle goroutine is an event.
LEMMA NoEventType == NoEvent \in EventSet
  BY DirectoryAssumption DEF NoEvent, EventSet

\* Nothing at all is claimed to have happened yet.
LEMMA DirInitInv == DirInit => DirInv
<1> SUFFICES ASSUME DirInit PROVE DirInv
  OBVIOUS
<1>1. FollowOK
  BY DirectoryAssumption, SMTT(30) DEF DirInit, FollowOK
<1>2. ClusterOK
  BY DirectoryAssumption, NoEventType DEF DirInit, ClusterOK, Pushers, Shards
<1>3. RepositoryOK
  BY DirectoryAssumption DEF DirInit, RepositoryOK
<1>4. OpenInv /\ NoSendOnClosed
  BY DEF DirInit, OpenInv, NoSendOnClosed
<1>5. QED
  BY <1>1, <1>2, <1>3, <1>4 DEF DirInv, DirTypeOK

-----------------------------------------------------------------------------
(* FollowOK: etcd and the two goroutines. *)

\* A new entry of the history.
LEMMA WriteFollow ==
    ASSUME FollowOK, NEW k \in Keys, PutEntry(k) \/ DeleteEntry(k)
    PROVE  FollowOK'
<1>0. Len(hist) \in Nat
  BY DEF FollowOK
<1>1. PICK v \in 0..(MaxWrites + 1) : WriteEntry(k, v)
  <2>1. CASE PutEntry(k)
    <3>1. Len(hist) + 2 \in 0..(MaxWrites + 1)
      BY <1>0, <2>1, DirectoryAssumption DEF PutEntry, WriteEntry
    <3>2. QED
      BY <2>1, <3>1 DEF PutEntry
  <2>2. CASE DeleteEntry(k)
    <3>1. 0 \in 0..(MaxWrites + 1)
      BY DirectoryAssumption
    <3>2. QED
      BY <2>2, <3>1 DEF DeleteEntry
  <2>3. QED
    BY <2>1, <2>2
<1>2. /\ hist' \in Seq([key : Keys, val : 0..(MaxWrites + 1)])
      /\ Len(hist') = Len(hist) + 1 /\ Len(hist') <= MaxWrites
  <2>1. [key |-> k, val |-> v] \in [key : Keys, val : 0..(MaxWrites + 1)]
    OBVIOUS
  <2>2. hist' = Append(hist, [key |-> k, val |-> v]) /\ Len(hist) < MaxWrites
    BY <1>1 DEF WriteEntry
  <2>3. QED
    BY <2>1, <2>2, DirectoryAssumption DEF FollowOK
<1>3. store' \in [Keys -> 0..(MaxWrites + 1)] /\ lost' \subseteq Keys
  BY <1>1 DEF WriteEntry, FollowOK
<1>4. QED
  BY <1>1, <1>2, <1>3 DEF WriteEntry, FollowOK

\* The watch follows the history.
LEMMA WatchFollow ==
    ASSUME FollowOK, DiscoveryStart \/ WatchLoop \/ WatchFails
    PROVE  FollowOK'
<1>2. Len(hist) \in Nat /\ \A j \in 1..Len(hist) : hist[j].key \in Keys
  <2>1. Len(hist) \in Nat /\ \A j \in 1..Len(hist) : hist[j] \in [key : Keys, val : 0..(MaxWrites + 1)]
    <3>1. hist \in Seq([key : Keys, val : 0..(MaxWrites + 1)])
      BY DEF FollowOK
    <3>2. Len(hist) \in Nat
      BY <3>1
    <3>3. QED
      BY <3>1, <3>2, ElementType
  <2>2. QED
    BY <2>1
<1>1. \A i \in 0..Len(hist) : KeysAfter(i) \subseteq Keys
  BY <1>2 DEF KeysAfter
<1>0. watcher.pos \in 0..Len(hist) /\ sync.pos \in 0..Len(hist)
  BY DEF FollowOK
<1>3. CASE DiscoveryStart
  BY <1>3 DEF DiscoveryStart, FollowOK
<1>4. CASE WatchPrefix
  BY <1>0, <1>1, <1>2, <1>4 DEF WatchPrefix, FollowOK
<1>5. CASE WatchReceive
  <2>1. watcher.pos + 1 \in 0..Len(hist)
    BY <1>0, <1>2, <1>5 DEF WatchReceive
  <2>2. watcher' = [watcher EXCEPT !.pos = watcher.pos + 1]
        /\ UNCHANGED <<store, hist, sync, dirFaults, lost>>
    BY <1>5 DEF WatchReceive
  <2>3. QED
    BY <2>1, <2>2 DEF FollowOK
<1>6. CASE WatchLoopExit
  BY <1>6 DEF WatchLoopExit, FollowOK
<1>7. CASE WatchFails
  BY <1>0, <1>1, <1>2, <1>7, DirectoryAssumption DEF WatchFails, FollowOK
<1>8. QED
  BY <1>3, <1>4, <1>5, <1>6, <1>7 DEF WatchLoop

\* The snapshot holds one event for each entry.
LEMMA SyncFollow ==
    ASSUME FollowOK, SyncInitialState
    PROVE  FollowOK'
<1>1. Len(hist) \in Nat /\ Len(hist) <= MaxWrites
  BY DEF FollowOK
<1>2. {Event(k, store[k], Len(hist)) : k \in {j \in Keys : store[j] # 0}} \subseteq EventSet
  BY <1>1, DirectoryAssumption DEF FollowOK, Event, EventSet
<1>3. CASE GetPrefix
  BY <1>1, <1>2, <1>3, DirectoryAssumption, SMTT(30) DEF GetPrefix, FollowOK
<1>4. CASE SyncPush
  BY <1>4 DEF SyncPush, FollowOK
<1>5. QED
  BY <1>3, <1>4 DEF SyncInitialState

\* Pushing an event leaves the watch and the snapshot alone.
LEMMA PushFollow ==
    ASSUME FollowOK, ClusterOK, NEW p \in Pushers, PushEvent(p)
    PROVE  FollowOK'
<1>1. CASE PushCheck(p) \/ PushLock(p) \/ PushRecheck(p)
  BY <1>1 DEF PushCheck, PushLock, PushRecheck, FollowOK
<1>2. CASE PushSend(p)
  <2>1. push[p].ev.key \in Keys
    BY DEF ClusterOK, EventSet
  <2>2. lost' \subseteq Keys
    BY <1>2, <2>1 DEF PushSend, LostBySend, FollowOK
  <2>3. QED
    BY <1>2, <2>2 DEF PushSend, FollowOK
<1>3. QED
  BY <1>1, <1>2 DEF PushEvent

\* So do the shard workers and Close.
LEMMA RestFollow ==
    ASSUME FollowOK,
           \/ \E s \in Shards : ShardWorker(s)
           \/ CloseBegin \/ Close
    PROVE  FollowOK'
  BY DEF FollowOK, ShardWorker, WorkTake, WorkMap, WorkIndex, CloseBegin, Close, CloseDiscovery,
         CloseEndpoints, CloseLock, CloseShards, CloseWait

-----------------------------------------------------------------------------
(* ClusterOK, and what Close may do to the shards. *)

CloseInv == ClusterOK /\ OpenInv /\ NoSendOnClosed

\* etcd and the beginning and the end of a watch leave the cluster alone.
LEMMA OutsideCluster ==
    ASSUME CloseInv, UNCHANGED cluster
    PROVE  CloseInv'
  BY DEF CloseInv, ClusterOK, OpenInv, NoSendOnClosed, cluster

\* A new call of PushEvent holds no lock.
LEMMA CallCluster ==
    ASSUME CloseInv, NEW p \in Pushers, NEW ev \in EventSet, Idle(p), CallPush(p, ev),
           UNCHANGED <<shardMu, shard, open, closer, work>>
    PROVE  CloseInv'
<1>1. push' \in [Pushers -> [at : {"idle", "check", "lock", "recheck", "send"}, ev : EventSet]]
  BY DEF CloseInv, ClusterOK, CallPush
<1>2. \A q \in Pushers : push'[q].at \in {"recheck", "send"} <=> push[q].at \in {"recheck", "send"}
  BY DEF CloseInv, ClusterOK, CallPush, Idle
<1>3. \A q \in Pushers : push'[q].at = "send" => push[q].at = "send"
  BY DEF CloseInv, ClusterOK, CallPush, Idle
<1>4. QED
  BY <1>1, <1>2, <1>3 DEF CloseInv, ClusterOK, OpenInv, NoSendOnClosed

\* Where PushEvent goes: it holds the lock from PushLock to RUnlock.
LEMMA PushCluster ==
    ASSUME CloseInv, NEW p \in Pushers, PushEvent(p)
    PROVE  CloseInv'
<1>1. PICK at \in {"idle", "lock", "recheck", "send"} : MoveTo(p, at)
  BY DEF PushEvent, PushCheck, PushLock, PushRecheck, PushSend, RUnlock
<1>2. push' \in [Pushers -> [at : {"idle", "check", "lock", "recheck", "send"}, ev : EventSet]]
  BY <1>1, NoEventType DEF MoveTo, CloseInv, ClusterOK
<1>3. push'[p].at = at /\ \A q \in Pushers \ {p} : push'[q] = push[q]
  BY <1>1 DEF MoveTo, CloseInv, ClusterOK
<1>4. UNCHANGED <<open, closer, work>>
  BY DEF PushEvent, PushCheck, PushLock, PushRecheck, PushSend
<1>5. shard' \in [Shards -> Seq(EventSet)] /\ \A s \in Shards : Len(shard'[s]) <= ShardCap
  <2>1. CASE UNCHANGED shard
    BY <2>1 DEF CloseInv, ClusterOK
  <2>2. CASE PushSend(p) /\ ~UNCHANGED shard
    <3>1. push[p].ev \in EventSet
      BY DEF CloseInv, ClusterOK
    <3>2. PICK s \in Shards : Room(s) /\ shard' = [shard EXCEPT ![s] = Append(@, push[p].ev)]
      <4>1. push[p].ev.key \in Keys
        BY <3>1 DEF EventSet
      <4>2. ShardIndex(push[p].ev) \in Shards
        BY <4>1, DirectoryAssumption DEF ShardIndex, Shards
      <4>3. Room(ShardIndex(push[p].ev)) /\ shard' = [shard EXCEPT ![ShardIndex(push[p].ev)] = Append(@, push[p].ev)]
        BY <2>2 DEF PushSend
      <4>4. QED
        BY <4>2, <4>3
    <3>3. shard[s] \in Seq(EventSet) /\ Len(shard[s]) < ShardCap
      BY <3>2 DEF CloseInv, ClusterOK, Room
    <3>4. Append(shard[s], push[p].ev) \in Seq(EventSet) /\ Len(Append(shard[s], push[p].ev)) = Len(shard[s]) + 1
      BY <3>1, <3>3
    <3>5. QED
      BY <3>2, <3>3, <3>4, DirectoryAssumption DEF CloseInv, ClusterOK
  <2>3. QED
    BY <2>1, <2>2 DEF PushEvent, PushCheck, PushLock, PushRecheck
<1>6. shardMu' \in [readers : SUBSET Pushers, writer : BOOLEAN]
  BY DEF CloseInv, ClusterOK, PushEvent, PushCheck, PushLock, PushRecheck, PushSend, RUnlock
<1>7. shardMu'.readers = {q \in Pushers : push'[q].at \in {"recheck", "send"}}
  <2>1. CASE PushCheck(p)
    <3>1. push[p].at = "check" /\ push'[p].at \in {"idle", "lock"} /\ shardMu' = shardMu
      BY <2>1 DEF PushCheck, MoveTo, CloseInv, ClusterOK
    <3>2. QED
      BY <1>3, <3>1 DEF CloseInv, ClusterOK
  <2>2. CASE PushLock(p)
    <3>1. push'[p].at = "recheck" /\ shardMu'.readers = shardMu.readers \cup {p}
      BY <2>2 DEF PushLock, MoveTo, CloseInv, ClusterOK
    <3>2. QED
      BY <1>3, <3>1 DEF CloseInv, ClusterOK
  <2>3. CASE PushRecheck(p)
    <3>1. \/ push'[p].at = "idle" /\ shardMu'.readers = shardMu.readers \ {p}
          \/ push[p].at = "recheck" /\ push'[p].at = "send" /\ shardMu' = shardMu
      BY <2>3 DEF PushRecheck, RUnlock, MoveTo, CloseInv, ClusterOK
    <3>2. QED
      BY <1>3, <3>1, ZenonT(40) DEF CloseInv, ClusterOK
  <2>4. CASE PushSend(p)
    <3>1. push'[p].at = "idle" /\ shardMu'.readers = shardMu.readers \ {p}
      BY <2>4 DEF PushSend, RUnlock, MoveTo, CloseInv, ClusterOK
    <3>2. QED
      BY <1>3, <3>1 DEF CloseInv, ClusterOK
  <2>5. QED
    BY <2>1, <2>2, <2>3, <2>4 DEF PushEvent
<1>8. NoSendOnClosed'
  <2>1. push'[p].at = "send" => open
    <3>1. push'[p].at = "send" => closer = "no"
      BY <1>3 DEF PushEvent, PushCheck, PushLock, PushRecheck, PushSend, RUnlock, MoveTo, Closed, CloseInv, ClusterOK
    <3>2. QED
      BY <3>1 DEF CloseInv, OpenInv
  <2>2. QED
    BY <1>3, <1>4, <2>1 DEF NoSendOnClosed, CloseInv
<1>9. QED
  BY <1>2, <1>4, <1>5, <1>6, <1>7, <1>8 DEF CloseInv, ClusterOK, OpenInv

\* The shard workers touch nothing but their queue.
LEMMA WorkCluster ==
    ASSUME CloseInv, NEW s \in Shards, ShardWorker(s)
    PROVE  CloseInv'
<1>1. UNCHANGED <<push, shardMu, open, closer>>
  BY DEF ShardWorker, WorkTake, WorkMap, WorkIndex
<1>2. shard[s] \in Seq(EventSet) /\ work[s].ev \in EventSet
  BY DEF CloseInv, ClusterOK
<1>3. PICK at \in {"idle", "map", "index", "done"}, ev \in EventSet : WorkAt(s, at, ev)
  BY <1>2, NoEventType DEF ShardWorker, WorkTake, WorkMap, WorkIndex, AddWithMeta, RemoveEndpoint, Done
<1>4. work' \in [Shards -> [at : {"idle", "map", "index", "done"}, ev : EventSet]]
  BY <1>3 DEF WorkAt, CloseInv, ClusterOK
<1>5. \/ UNCHANGED shard
      \/ shard[s] # <<>> /\ shard' = [shard EXCEPT ![s] = Tail(@)]
  BY DEF ShardWorker, WorkTake, WorkMap, WorkIndex
<1>6. shard[s] # <<>> => /\ Tail(shard[s]) \in Seq(EventSet)
                         /\ Len(shard[s]) \in Nat /\ Len(Tail(shard[s])) = Len(shard[s]) - 1
  BY <1>2
<1>7. shard' \in [Shards -> Seq(EventSet)] /\ \A r \in Shards : Len(shard'[r]) <= ShardCap
  <2>1. CASE UNCHANGED shard
    BY <2>1 DEF CloseInv, ClusterOK
  <2>2. CASE shard[s] # <<>> /\ shard' = [shard EXCEPT ![s] = Tail(shard[s])]
    <3>1. Len(Tail(shard[s])) <= ShardCap
      BY <1>6, <2>2, DirectoryAssumption DEF CloseInv, ClusterOK
    <3>2. QED
      BY <1>6, <2>2, <3>1 DEF CloseInv, ClusterOK
  <2>3. QED
    BY <1>5, <2>1, <2>2
<1>8. QED
  BY <1>1, <1>4, <1>7 DEF CloseInv, ClusterOK, OpenInv, NoSendOnClosed

\* Close closes the shards while nobody holds the lock, so no call is about to send.
LEMMA CloseCluster ==
    ASSUME CloseInv, CloseBegin \/ Close
    PROVE  CloseInv'
<1>1. CASE CloseBegin \/ CloseDiscovery \/ CloseEndpoints \/ CloseWait
  BY <1>1 DEF CloseBegin, CloseDiscovery, CloseEndpoints, CloseWait, GoOn, CloseInv, ClusterOK, OpenInv, NoSendOnClosed
<1>2. CASE CloseLock
  BY <1>2 DEF CloseLock, GoOn, CloseInv, ClusterOK, OpenInv, NoSendOnClosed
<1>3. CASE CloseShards
  <2>1. \A p \in Pushers : push[p].at \notin {"recheck", "send"}
    BY <1>3 DEF CloseShards, Unlocked, CloseInv, ClusterOK
  <2>2. QED
    BY <1>3, <2>1 DEF CloseShards, GoOn, CloseInv, ClusterOK, OpenInv, NoSendOnClosed
<1>4. QED
  BY <1>1, <1>2, <1>3 DEF Close

-----------------------------------------------------------------------------
(* RepositoryOK. *)

LEMMA WorkRepository ==
    ASSUME RepositoryOK, ClusterOK, NEW s \in Shards, ShardWorker(s)
    PROVE  RepositoryOK'
<1>1. work[s].ev.key \in Keys /\ work[s].ev.val \in 0..(MaxWrites + 1)
  BY DEF ClusterOK, EventSet
<1>2. CASE WorkTake(s)
  BY <1>2 DEF WorkTake, RepositoryOK, repository
<1>3. CASE WorkMap(s)
  <2>1. CASE AddWithMeta(s, work[s].ev)
    BY <1>1, <2>1 DEF AddWithMeta, RepositoryOK
  <2>2. CASE RemoveEndpoint(s, work[s].ev)
    BY <1>1, <2>2, DirectoryAssumption DEF RemoveEndpoint, RepositoryOK
  <2>3. QED
    BY <1>3, <2>1, <2>2 DEF WorkMap
<1>4. CASE WorkIndex(s)
  BY <1>1, <1>4 DEF WorkIndex, RepositoryOK
<1>5. QED
  BY <1>2, <1>3, <1>4 DEF ShardWorker

LEMMA RestRepository ==
    ASSUME RepositoryOK, UNCHANGED repository \/ CloseEndpoints
    PROVE  RepositoryOK'
  BY DEF RepositoryOK, repository, CloseEndpoints

-----------------------------------------------------------------------------
\* Every step preserves the invariant.
LEMMA DirStep == DirInv /\ [DirNext]_dirVars => DirInv'
<1> SUFFICES ASSUME DirInv, [DirNext]_dirVars PROVE DirInv'
  OBVIOUS
<1>1. FollowOK /\ ClusterOK /\ RepositoryOK /\ CloseInv
  BY DEF DirInv, DirTypeOK, CloseInv
<1> SUFFICES FollowOK' /\ CloseInv' /\ RepositoryOK'
  BY DEF DirInv, DirTypeOK, CloseInv
<1>2. CASE UNCHANGED dirVars
  BY <1>1, <1>2, OutsideCluster, RestRepository DEF dirVars, cluster, repository, FollowOK
<1>3. CASE \E k \in Keys : PutEntry(k) \/ DeleteEntry(k)
  BY <1>1, <1>3, WriteFollow, OutsideCluster, RestRepository
     DEF PutEntry, DeleteEntry, WriteEntry
<1>4. CASE DiscoveryStart \/ WatchLoop \/ WatchFails
  <2>1. FollowOK' /\ RepositoryOK'
    BY <1>1, <1>4, WatchFollow, RestRepository
       DEF DiscoveryStart, WatchLoop, WatchPrefix, WatchReceive, WatchLoopExit, WatchFails
  <2>2. CASE WatchReceive
    <3> DEFINE i == watcher.pos + 1
    <3>0. watcher.pos \in 0..Len(hist) /\ Len(hist) \in Nat /\ Len(hist) <= MaxWrites
      BY <1>1 DEF FollowOK
    <3>1. i \in 1..Len(hist) /\ i \in 0..MaxWrites
      BY <3>0, <2>2, DirectoryAssumption DEF WatchReceive
    <3>5. hist[i] \in [key : Keys, val : 0..(MaxWrites + 1)]
      <4>1. hist \in Seq([key : Keys, val : 0..(MaxWrites + 1)])
        BY <1>1 DEF FollowOK
      <4>2. QED
        BY <3>1, <4>1, ElementType
    <3>2. Event(hist[i].key, hist[i].val, i) \in EventSet
      BY <3>1, <3>5 DEF Event, EventSet
    <3>3. CloseInv'
      BY <1>1, <2>2, <3>2, CallCluster DEF WatchReceive, Pushers
    <3>4. QED
      BY <2>1, <3>3
  <2>3. CASE ~WatchReceive
    BY <1>1, <1>4, <2>1, <2>3, OutsideCluster
       DEF DiscoveryStart, WatchLoop, WatchPrefix, WatchLoopExit, WatchFails
  <2>4. QED
    BY <2>2, <2>3
<1>5. CASE SyncInitialState
  <2>1. FollowOK' /\ RepositoryOK'
    BY <1>1, <1>5, SyncFollow, RestRepository DEF SyncInitialState, GetPrefix, SyncPush
  <2>2. CASE UNCHANGED cluster
    BY <1>1, <2>1, <2>2, OutsideCluster
  <2>3. CASE ~UNCHANGED cluster
    <3>1. PICK ev \in EventSet : Idle("sync") /\ CallPush("sync", ev)
      BY <1>1, <1>5, <2>3 DEF SyncInitialState, GetPrefix, SyncPush, FollowOK, cluster
    <3>2. UNCHANGED <<shardMu, shard, open, closer, work>>
      BY <1>5 DEF SyncInitialState, GetPrefix, SyncPush, cluster
    <3>3. QED
      BY <1>1, <2>1, <3>1, <3>2, CallCluster DEF Pushers
  <2>4. QED
    BY <2>2, <2>3
<1>6. CASE \E p \in Pushers : PushEvent(p)
  BY <1>1, <1>6, PushFollow, PushCluster, RestRepository
     DEF PushEvent, PushCheck, PushLock, PushRecheck, PushSend
<1>7. CASE \E s \in Shards : ShardWorker(s)
  BY <1>1, <1>7, RestFollow, WorkCluster, WorkRepository
<1>8. CASE CloseBegin \/ Close
  BY <1>1, <1>8, RestFollow, CloseCluster, RestRepository
     DEF CloseBegin, Close, CloseDiscovery, CloseLock, CloseShards, CloseWait
<1>9. QED
  BY <1>2, <1>3, <1>4, <1>5, <1>6, <1>7, <1>8 DEF DirNext

\* The cluster's fields keep their types, and no PushEvent sends on a shard that Close has closed,
\* for any number of shards and entries: the lock PushEvent holds and the two looks at the closed
\* flag suffice (Cluster.PushEvent, Cluster.Close).
THEOREM SendsSoundHolds == DirSpec => []SendsSound
<1>1. DirInv => SendsSound
  BY DEF DirInv, SendsSound
<1>2. QED
  BY <1>1, DirInitInv, DirStep, PTL DEF DirSpec

(***************************************************************************)
(* The policy.                                                             *)
(***************************************************************************)
\* What a watch carries is a value a key of etcd has held, and a snapshot about to be applied could
\* be read.
Changes == [own : BOOLEAN, value : Snapshots \cup {Absent}]
SnapshotsOK ==
    /\ stored \in Snapshots \cup {Absent} /\ events \in Seq(Changes)
    /\ start = "apply" => loaded \in Snapshots \ {Garbled}

\* The part of FailClosed that does not depend on Start.
Enforces == \E s \in Valid : Granted = Meaning(s)
PolicyInv ==
    /\ SnapshotsOK
    /\ ~FailOpen /\ start \in {"watch", "setup", "up"} /\ ~touched => Enforces

\* ApplySnapshot of a valid snapshot puts its whole meaning in force and nothing else: Normalize
\* drops no permission that Validate has let through, and a role of another snapshot is gone.
LEMMA ApplyEnforces ==
    ASSUME NEW s \in Snapshots \ {Garbled}, Validate(RolesOf[s], BindingsOf[s]), ApplySnapshot(s)
    PROVE  Enforces'
<1>1. /\ roles' = [n \in DOMAIN RolesOf[s] |-> Normalize(RolesOf[s][n])]
      /\ bindings' = [t \in ServiceTypes |-> UNION {b.roles : b \in {c \in BindingsOf[s] : t \in c.types}}]
  BY DEF ApplySnapshot
<1>2. s \in Valid
  BY DEF Valid
<1>3. ASSUME NEW t \in ServiceTypes, NEW r \in Targets
      PROVE  Authorize(t, r)' <=>
                \E b \in BindingsOf[s] : t \in b.types /\
                    \E n \in b.roles : \E i \in DOMAIN RolesOf[s][n] : matchPermission(TrimSpace(RolesOf[s][n][i]), r)
  <2>1. ASSUME Authorize(t, r)'
        PROVE  \E b \in BindingsOf[s] : t \in b.types /\
                  \E n \in b.roles : \E i \in DOMAIN RolesOf[s][n] : matchPermission(TrimSpace(RolesOf[s][n][i]), r)
    <3>1. PICK n \in bindings'[t] \cap DOMAIN roles' : \E p \in roles'[n] : matchPermission(p, r)
      BY <2>1 DEF Authorize
    <3>2. PICK p \in roles'[n] : matchPermission(p, r)
      BY <3>1
    <3>3. PICK b \in BindingsOf[s] : t \in b.types /\ n \in b.roles
      BY <1>1, <3>1
    <3>4. n \in DOMAIN RolesOf[s] /\ p \in Normalize(RolesOf[s][n])
      BY <1>1, <3>1, <3>2
    <3>5. PICK i \in DOMAIN RolesOf[s][n] : p = TrimSpace(RolesOf[s][n][i])
      BY <3>4 DEF Normalize
    <3>6. QED
      BY <3>2, <3>3, <3>5
  <2>2. ASSUME NEW b \in BindingsOf[s], t \in b.types, NEW n \in b.roles, NEW i \in DOMAIN RolesOf[s][n],
               matchPermission(TrimSpace(RolesOf[s][n][i]), r)
        PROVE  Authorize(t, r)'
    <3>1. n \in DOMAIN RolesOf[s] /\ validatePermission(RolesOf[s][n][i])
      BY <2>2 DEF Validate
    <3>2. TrimSpace(RolesOf[s][n][i]) # <<>>
      BY <3>1 DEF validatePermission
    <3>3. TrimSpace(RolesOf[s][n][i]) \in roles'[n] /\ n \in DOMAIN roles'
      BY <1>1, <3>1, <3>2 DEF Normalize
    <3>4. n \in bindings'[t]
      BY <1>1, <2>2
    <3>5. QED
      BY <2>2, <3>3, <3>4 DEF Authorize
  <2>3. QED
    BY <2>1, <2>2
<1>4. Granted' = Meaning(s)
  BY <1>3 DEF Granted, Meaning
<1>5. QED
  BY <1>2, <1>4 DEF Enforces

\* The steps that leave roles and bindings alone keep what is enforced.
LEMMA EnforcesSame ==
    ASSUME UNCHANGED policyVars, Enforces
    PROVE  Enforces'
  BY DEF policyVars, Enforces, Granted, Authorize

\* Every step of a node, of etcd and of an operator keeps the invariant.
LEMMA PolicyStep ==
    ASSUME PolicyInv, [AuthzNext]_authzVars
    PROVE  PolicyInv'
<1>0. SnapshotsOK
  BY DEF PolicyInv
<1>1. CASE \E f \in BOOLEAN : Load(f)
  <2>1. /\ start = "load" /\ UNCHANGED <<policyVars, events, stored>> /\ loaded' = stored
        /\ start' = "apply" => stored \notin {Absent, Garbled}
        /\ start' \in {"watch", "setup", "up"} => FailOpen
    BY <1>1 DEF Load, LoadFails
  <2>2. QED
    BY <1>0, <2>1 DEF PolicyInv, SnapshotsOK
<1>2. CASE Apply
  <2>1. /\ start = "apply" /\ ApplySnapshot(loaded) /\ UNCHANGED <<loaded, events, stored>>
        /\ start' \in {"watch", "failed"} /\ loaded \in Snapshots \ {Garbled}
        /\ start' = "watch" => Validate(RolesOf[loaded], BindingsOf[loaded]) \/ FailOpen
    BY <1>0, <1>2 DEF Apply, SnapshotsOK
  <2>2. ~FailOpen /\ start' = "watch" => Enforces'
    BY <2>1, ApplyEnforces
  <2>3. QED
    BY <1>0, <2>1, <2>2 DEF PolicyInv, SnapshotsOK
<1>3. CASE HandleEvent
  <2>1. /\ events # <<>> /\ events' = Tail(events) /\ UNCHANGED <<start, loaded, stored>>
        /\ Head(events).value \in Snapshots \cup {Absent} /\ Tail(events) \in Seq(Changes)
    <3>1. events # <<>> /\ events' = Tail(events) /\ UNCHANGED <<start, loaded, stored>>
      BY <1>3 DEF HandleEvent
    <3>2. Head(events) \in Changes /\ Tail(events) \in Seq(Changes)
      BY <1>0, <3>1 DEF SnapshotsOK
    <3>3. QED
      BY <3>1, <3>2 DEF Changes
  <2>2. CASE UNCHANGED policyVars
    BY <1>0, <2>1, <2>2, EnforcesSame DEF PolicyInv, SnapshotsOK, policyVars
  <2>3. CASE ~UNCHANGED policyVars
    <3>1. /\ Head(events).value \in Snapshots \ {Garbled} /\ ApplySnapshot(Head(events).value)
          /\ Validate(RolesOf[Head(events).value], BindingsOf[Head(events).value])
      BY <1>3, <2>1, <2>3 DEF HandleEvent, Follow, Usable
    <3>2. Enforces'
      BY <3>1, ApplyEnforces
    <3>3. QED
      BY <1>0, <2>1, <3>2 DEF PolicyInv, SnapshotsOK
  <2>4. QED
    BY <2>2, <2>3
<1>4. CASE Watch \/ SetupReturns \/ WatchEnds \/ StopReturns \/ WatchBreaks \/ StopWatch
  <2>1. /\ UNCHANGED policyVars /\ UNCHANGED <<loaded, stored>> /\ (events' = events \/ events' = <<>>)
        /\ start' = "apply" => start = "apply"
        /\ start' \in {"watch", "setup", "up"} => start \in {"watch", "setup", "up"}
    BY <1>4 DEF Watch, SetupReturns, WatchEnds, StopReturns, WatchBreaks, StopWatch
  <2>2. SnapshotsOK'
    <3>1. <<>> \in Seq(Changes)
      OBVIOUS
    <3>2. events' \in Seq(Changes)
      BY <1>0, <2>1, <3>1 DEF SnapshotsOK
    <3>3. QED
      BY <1>0, <2>1, <3>2 DEF SnapshotsOK
  <2>3. touched' = touched /\ (Enforces => Enforces')
    BY <2>1, EnforcesSame DEF policyVars
  <2>4. QED
    BY <2>1, <2>2, <2>3 DEF PolicyInv
<1>5. ASSUME NEW s \in Snapshots \cup {Absent}, Edit(s) \/ EditOther(s) PROVE PolicyInv'
  <2>1. /\ UNCHANGED policyVars /\ UNCHANGED <<loaded, start>> /\ stored' \in {s, stored}
        /\ \E own \in BOOLEAN : Deliver([own |-> own, value |-> s])
    BY <1>5 DEF Edit, EditOther
  <2>2. PICK own \in BOOLEAN : Deliver([own |-> own, value |-> s])
    BY <2>1
  <2>3. [own |-> own, value |-> s] \in Changes
    BY DEF Changes
  <2>4. events' \in Seq(Changes)
    BY <1>0, <2>2, <2>3 DEF SnapshotsOK, Deliver
  <2>5. QED
    BY <1>0, <2>1, <2>4, EnforcesSame DEF PolicyInv, SnapshotsOK, policyVars
<1>6. CASE LocalEdit
  BY <1>0, <1>6 DEF LocalEdit, PolicyInv, SnapshotsOK, watchVars
<1>7. CASE UNCHANGED authzVars
  BY <1>0, <1>7, EnforcesSame DEF PolicyInv, SnapshotsOK, authzVars, policyVars, watchVars
<1>8. QED
  BY <1>1, <1>2, <1>3, <1>4, <1>5, <1>6, <1>7
    DEF AuthzNext, WatchStep, AddRole, RemoveRole, BindRole, UnbindRole

\* Whatever etcd holds and whenever it changes, a node that started fail-closed grants exactly what
\* one valid snapshot means, until somebody edits its roles by hand (policy_watcher.go Start,
\* handleEvent; authorizer.go ApplySnapshot).
THEOREM FailClosedHolds == AuthzSpec => []FailClosed
<1>1. AuthzInit => PolicyInv
  BY DEF AuthzInit, PolicyInv, SnapshotsOK
<1>2. PolicyInv => FailClosed
  BY DEF PolicyInv, FailClosed, Enforces
<1>3. QED
  BY <1>1, <1>2, PolicyStep, PTL DEF AuthzSpec

(***************************************************************************)
(* The bus of events: subscriptions.                                       *)
(***************************************************************************)
BusTopics == ClusterTopics \cup {Local(t) : t \in Types}
BindSteps == {"make", "inner", "put", "listen"}
UnbindSteps == {"remove", "drop", "unlisten"}
Calls == [by : {"none", "bind", "unbind", "clear"}, at : {"idle", "next"} \cup BindSteps \cup UnbindSteps,
          topic : ClusterTopics, listen : BOOLEAN, todo : SUBSET ClusterTopics]

RegTypes ==
    /\ callbacks \subseteq [by : Handlers, topic : BusTopics, name : Names] /\ IsFiniteSet(callbacks)
    /\ regs \in [Handlers -> Seq([topic : BusTopics, name : Names])]
    /\ handler \in [Handlers -> {"live", "leaving", "dead"}]
    /\ \E x \in ClusterTopics : followed = Group(x)
CallTypes ==
    /\ subCnt \in [Listeners -> [ClusterTopics -> Nat]] /\ call \in [Listeners -> Calls]
    /\ subscribers \in [ClusterTopics -> SUBSET Listeners] /\ inner \subseteq ClusterTopics
    /\ torn \subseteq {x \in ClusterTopics : Shared(x)}
    /\ subMap = [x \in ClusterTopics |-> subMap[x]] /\ listening = [x \in ClusterTopics |-> listening[x]]

\* A handler notes every callback it has bound, under a topic of its own service, and has nothing
\* noted once it is destroyed.
RegsInv ==
    /\ \A h \in Handlers : \A i \in 1..Len(regs[h]) : regs[h][i].topic \in TopicsOf(h[1])
    /\ \A c \in callbacks : \E i \in 1..Len(regs[c.by]) : regs[c.by][i] = Reg(c.topic, c.name)
    /\ \A h \in Handlers : handler[h] = "dead" => regs[h] = <<>>

\* A call on a topic subscribes or unsubscribes, and no two services have one on the same topic.
CallsInv ==
    \A l \in Listeners :
        /\ call[l].by = "none" <=> call[l].at = "idle"
        /\ call[l].by = "bind" <=> call[l].at \in BindSteps
        /\ call[l].by = "unbind" => call[l].at \in UnbindSteps /\ subCnt[l][call[l].topic] = 0
        /\ call[l].by = "clear" => call[l].at = "next" \/ call[l].topic \notin call[l].todo
        /\ call[l].at \in {"make", "drop"} => Shared(call[l].topic)
        /\ call[l].at = "put" /\ ~Shared(call[l].topic) => call[l].topic \in inner
LockInv == \A l \in Listeners, k \in Listeners, x \in ClusterTopics : Busy(l, x) /\ Busy(k, x) => l = k

\* A callback is counted, or about to be; only a torn topic has lost one.
Binding(l, x) == call[l].by = "bind" /\ call[l].topic = x
CountInv ==
    \A l \in Listeners, x \in ClusterTopics :
        /\ subCnt[l][x] + (IF Binding(l, x) THEN 1 ELSE 0) <= Cardinality(Bound(l, x))
        /\ x \notin torn => subCnt[l][x] + (IF Binding(l, x) THEN 1 ELSE 0) = Cardinality(Bound(l, x))

\* A service that counts callbacks of a topic is in the topic's map, and no other is, but for the
\* topic its call is on and those its Clear has been through.
Wanted(l, x) == subCnt[l][x] > 0 /\ (call[l].by = "clear" => x \in call[l].todo)
MemberInv ==
    \A l \in Listeners, x \in ClusterTopics :
        /\ Busy(l, x) /\ call[l].at \in {"make", "inner", "put", "drop", "unlisten"} => l \notin subscribers[x]
        /\ Busy(l, x) /\ call[l].at = "listen" /\ x \notin torn => l \in subscribers[x]
        /\ ~Busy(l, x) /\ l \in subscribers[x] => Wanted(l, x)
        /\ ~Busy(l, x) /\ Wanted(l, x) /\ x \notin torn => l \in subscribers[x]

\* A topic with subscribers has a map; one with an empty map is about to get its first.
InnerInv ==
    /\ \A x \in ClusterTopics : subscribers[x] # {} => x \in inner
    /\ \A x \in inner \ torn : subscribers[x] = {} => \E l \in Listeners : Busy(l, x) /\ call[l].at = "put"
    /\ \A l \in Listeners : call[l].at = "put" =>
         /\ call[l].listen => subscribers[call[l].topic] = {}
         /\ ~call[l].listen /\ call[l].topic \notin torn => subscribers[call[l].topic] # {}
    /\ \A l \in Listeners : call[l].at \in {"drop", "unlisten"} /\ call[l].listen => subscribers[call[l].topic] = {}

\* The Bus listens once to a topic that has a subscriber, and to no other, but for the topics a
\* call is about to open or to close.
Opening(x) == \E l \in Listeners : Busy(l, x) /\ call[l].at = "listen" /\ call[l].listen
Closing(x) == \E l \in Listeners : Busy(l, x) /\ call[l].at \in {"drop", "unlisten"} /\ call[l].listen
ListenInv ==
    enable => \A x \in ClusterTopics \ torn :
        /\ subMap[x] \in Nat /\ listening[x] = {subMap[x]} \ {0}
        /\ subscribers[x] = {} /\ ~Closing(x) => subMap[x] = 0
        /\ Opening(x) => subMap[x] = 0
        /\ subscribers[x] # {} /\ ~Opening(x) => subMap[x] # 0 \/ x \in deaf

CallInv == CallTypes /\ CallsInv /\ LockInv /\ CountInv /\ MemberInv /\ InnerInv /\ ListenInv
SubscriptionInv == RegTypes /\ RegsInv /\ CallInv

(***************************************************************************)
(* The bus of events: where an event is.                                   *)
(***************************************************************************)
EventSeqs == Seq(BusEvents)
EventTypes ==
    /\ event \in [BusEvents -> [at : {"no", "batch", "send", "nats", "ok", "error"}, topic : ClusterTopics]]
    /\ buffer \in [Types -> EventSeqs] /\ flushing \subseteq EventSeqs \ {<<>>}
    /\ \A m \in inbox : m = <<m[1], m[2]>> /\ m[1] \in BusEvents
    /\ posted \in [BusEvents -> [Listeners -> Nat]]

\* A call still has the event.
WithCaller(e) == event[e].at \in {"no", "batch", "send", "nats"}
Buffered(e) == \E t \in Types : e \in Range(buffer[t])
InFlush(e) == \E b \in flushing : e \in Range(b)
InNats(e) == \E m \in inbox : m[1] = e
Placed(e) == WithCaller(e) \/ Buffered(e) \/ InFlush(e) \/ InNats(e)

\* An event is with its caller, in the buffer, in a batch or with NATS, never in two of these
\* places, and twice in one only with NATS and for a torn topic; otherwise, while it is in one of
\* them, no service has been given it.
PlacesInv ==
    /\ \A e \in BusEvents : WithCaller(e) => ~Buffered(e) /\ ~InFlush(e) /\ ~InNats(e)
    /\ \A e \in BusEvents : Buffered(e) => ~InFlush(e) /\ ~InNats(e)
    /\ \A e \in BusEvents : InFlush(e) => ~InNats(e)
    /\ \A t \in Types : IsInjective(buffer[t]) /\ \A e \in Range(buffer[t]) : event[e].topic.type = t
    /\ \A b \in flushing : IsInjective(b) /\ \A c \in flushing : Range(b) \cap Range(c) # {} => b = c
    /\ \A m \in inbox, o \in inbox : m[1] = o[1] /\ event[m[1]].topic \notin torn => m = o
PostedInv ==
    \A e \in BusEvents, l \in Listeners :
        /\ WithCaller(e) => posted[e][l] = 0
        /\ event[e].topic \notin torn => posted[e][l] = 0 \/ (posted[e][l] = 1 /\ ~Placed(e))
EventInv == EventTypes /\ PlacesInv /\ PostedInv

\* The callbacks of a topic are finitely many.
LEMMA BoundFinite ==
    ASSUME RegTypes, NEW l, NEW x
    PROVE  IsFiniteSet(Bound(l, x)) /\ Cardinality(Bound(l, x)) \in Nat
<1>1. Bound(l, x) \subseteq callbacks /\ IsFiniteSet(callbacks)
  BY DEF Bound, RegTypes
<1>2. IsFiniteSet(Bound(l, x))
  BY <1>1, FS_Subset
<1>3. QED
  BY <1>2, FS_CardinalityType

(***************************************************************************)
(* One call of a processor at a time moves.                                *)
(***************************************************************************)
\* A service's call becomes r: the calls of the others are as they were.
LEMMA CallsKept ==
    ASSUME CallTypes, CallsInv, LockInv, NEW l \in Listeners, NEW r \in Calls, call' = [call EXCEPT ![l] = r],
           r.by = "none" <=> r.at = "idle", r.by = "bind" <=> r.at \in BindSteps,
           r.by = "unbind" => r.at \in UnbindSteps /\ subCnt'[l][r.topic] = 0,
           r.by = "clear" => r.at = "next" \/ r.topic \notin r.todo,
           r.at \in {"make", "drop"} => Shared(r.topic),
           r.at = "put" /\ ~Shared(r.topic) => r.topic \in inner',
           \A k \in Listeners \ {l} : subCnt'[k] = subCnt[k],
           r.at \notin {"idle", "next"} => Busy(l, r.topic) \/ ~LockHeld(r.topic),
           \A x \in inner : ~Shared(x) => x \in inner' \/ Busy(l, x)
    PROVE  /\ CallsInv' /\ LockInv' /\ call' \in [Listeners -> Calls]
           /\ call'[l] = r /\ \A k \in Listeners \ {l} : call'[k] = call[k]
           /\ \A k \in Listeners \ {l} : \A x : (Busy(k, x)' <=> Busy(k, x)) /\ (Binding(k, x)' <=> Binding(k, x))
<1>1. call \in [Listeners -> Calls]
  BY DEF CallTypes
<1>2. /\ call' \in [Listeners -> Calls] /\ call'[l] = r /\ \A k \in Listeners \ {l} : call'[k] = call[k]
  BY <1>1
<1>3. \A k \in Listeners \ {l} : \A x : (Busy(k, x)' <=> Busy(k, x)) /\ (Binding(k, x)' <=> Binding(k, x))
  BY <1>2 DEF Busy, Binding
<1>4. \A x : Busy(l, x)' => x = r.topic /\ r.at \notin {"idle", "next"}
  BY <1>2 DEF Busy
<1>5. LockInv'
  <2>1. \A k \in Listeners \ {l} : \A x \in ClusterTopics : ~(Busy(l, x)' /\ Busy(k, x)')
    BY <1>3, <1>4 DEF LockInv, LockHeld
  <2>2. QED
    BY <1>3, <2>1 DEF LockInv
<1>6. CallsInv'
  <2>1. ASSUME NEW k \in Listeners \ {l}, call[k].at = "put", ~Shared(call[k].topic)
        PROVE  call[k].topic \in inner'
    <3>1. call[k].topic \in inner /\ Busy(k, call[k].topic) /\ call[k].topic \in ClusterTopics
      BY <1>1, <2>1 DEF CallsInv, Busy, Calls
    <3>2. QED
      BY <2>1, <3>1 DEF LockInv
  <2>2. ASSUME NEW k \in Listeners \ {l}
        PROVE  /\ call'[k].by = "none" <=> call'[k].at = "idle"
               /\ call'[k].by = "bind" <=> call'[k].at \in BindSteps
               /\ call'[k].by = "unbind" => call'[k].at \in UnbindSteps /\ subCnt'[k][call'[k].topic] = 0
               /\ call'[k].by = "clear" => call'[k].at = "next" \/ call'[k].topic \notin call'[k].todo
               /\ call'[k].at \in {"make", "drop"} => Shared(call'[k].topic)
               /\ call'[k].at = "put" /\ ~Shared(call'[k].topic) => call'[k].topic \in inner'
    BY <1>2, <2>1 DEF CallsInv
  <2>3. QED
    BY <1>2, <2>2 DEF CallsInv
<1>7. QED
  BY <1>2, <1>3, <1>5, <1>6

\* The call CallAt and its like leave.
LEMMA CallAtFacts ==
    ASSUME CallTypes, NEW l \in Listeners, NEW a \in {"idle", "next"} \cup BindSteps \cup UnbindSteps, CallAt(l, a)
    PROVE  \E r \in Calls : /\ call' = [call EXCEPT ![l] = r] /\ r.by = call[l].by /\ r.at = a
                            /\ r.topic = call[l].topic /\ r.listen = call[l].listen /\ r.todo = call[l].todo
<1>1. call[l] \in Calls
  BY DEF CallTypes
<1>2. [call[l] EXCEPT !.at = a] \in Calls
  BY <1>1 DEF Calls
<1>3. call' = [call EXCEPT ![l] = [call[l] EXCEPT !.at = a]]
  BY DEF CallAt
<1>4. QED
  BY <1>1, <1>2, <1>3 DEF Calls

\* A call that returns is no more, or goes on as Clear.
LEMMA ReturnedFacts ==
    ASSUME CallTypes, CallsInv, NEW l \in Listeners, call' = Returned(l)
    PROVE  \E r \in Calls : /\ call' = [call EXCEPT ![l] = r] /\ r.at \in {"idle", "next"}
                            /\ r.by = (IF call[l].by = "clear" THEN "clear" ELSE "none")
                            /\ r.at = (IF call[l].by = "clear" THEN "next" ELSE "idle")
                            /\ call[l].by = "clear" => r.todo = call[l].todo
                            /\ call[l].by # "clear" => r = NoCall
<1>1. call[l] \in Calls
  BY DEF CallTypes
<1>2. CASE call[l].by = "clear"
  <2>1. [call[l] EXCEPT !.at = "next", !.listen = FALSE] \in Calls
    BY <1>1 DEF Calls
  <2>2. call' = [call EXCEPT ![l] = [call[l] EXCEPT !.at = "next", !.listen = FALSE]]
    BY <1>2 DEF Returned
  <2>3. QED
    BY <1>1, <1>2, <2>1, <2>2 DEF Calls
<1>3. CASE call[l].by # "clear"
  <2>1. call[l].topic \in ClusterTopics
    BY <1>1 DEF Calls
  <2>2. AnyTopic \in ClusterTopics
    BY <2>1 DEF AnyTopic
  <2>3. NoCall \in Calls /\ NoCall.at = "idle" /\ NoCall.by = "none"
    BY <2>2 DEF NoCall, Call, Calls
  <2>4. call' = [call EXCEPT ![l] = NoCall]
    BY <1>3 DEF Returned
  <2>5. QED
    BY <1>3, <2>3, <2>4
<1>4. QED
  BY <1>2, <1>3

\* The outer entry of a group goes: what it held is torn, and the rest is as it was.
LEMMA WipeFacts ==
    ASSUME CallTypes, InnerInv, NEW x \in ClusterTopics, Shared(x), Wipe(Group(x))
    PROVE  /\ subscribers' \in [ClusterTopics -> SUBSET Listeners] /\ inner' \subseteq inner /\ torn \subseteq torn'
           /\ torn' \subseteq {y \in ClusterTopics : Shared(y)}
           /\ \A y \in ClusterTopics : subscribers'[y] \subseteq subscribers[y] /\ (subscribers'[y] # {} => y \in inner')
           /\ \A y \in ClusterTopics \ torn' : subscribers'[y] = subscribers[y] /\ (y \in inner' <=> y \in inner)
           /\ \A y \in inner : ~Shared(y) => y \in inner'
<1>1. /\ inner' = inner \ GroupTopics(Group(x)) /\ torn' = torn \cup (inner \cap GroupTopics(Group(x)))
      /\ subscribers' = [y \in ClusterTopics |-> IF y \in GroupTopics(Group(x)) THEN {} ELSE subscribers[y]]
  BY DEF Wipe
<1>2. \A y \in ClusterTopics : y \in GroupTopics(Group(x)) => Shared(y)
  BY DEF GroupTopics, Group, Shared
<1>3. \A y \in ClusterTopics : subscribers[y] # {} => y \in inner
  BY DEF InnerInv
<1>4. /\ subscribers \in [ClusterTopics -> SUBSET Listeners] /\ inner \subseteq ClusterTopics
      /\ torn \subseteq {y \in ClusterTopics : Shared(y)}
  BY DEF CallTypes
<1> QED
  BY <1>1, <1>2, <1>3, <1>4

\* MakeOuter and DropOuter.
LEMMA OuterStep ==
    ASSUME CallInv, NEW l \in Listeners, MakeOuter(l) \/ DropOuter(l)
    PROVE  CallInv'
<1> DEFINE x == call[l].topic
           a == IF call[l].at = "make" THEN "inner" ELSE "unlisten"
<1>0. CallTypes /\ CallsInv /\ LockInv /\ CountInv /\ MemberInv /\ InnerInv /\ ListenInv
  BY DEF CallInv
<1>1. /\ call[l].at \in {"make", "drop"} /\ CallAt(l, a) /\ Wipe(Group(x))
      /\ UNCHANGED <<callbacks, subCnt, subMap, listening, deaf, enable>>
  BY DEF MakeOuter, DropOuter, registry, natsVars
<1>2. x \in ClusterTopics /\ Shared(x) /\ Busy(l, x) /\ call \in [Listeners -> Calls]
  BY <1>0, <1>1 DEF CallTypes, Calls, CallsInv, Busy
<1>3. PICK r \in Calls : /\ call' = [call EXCEPT ![l] = r] /\ r.by = call[l].by /\ r.at = a
                         /\ r.topic = x /\ r.listen = call[l].listen /\ r.todo = call[l].todo
  BY <1>0, <1>1, CallAtFacts DEF BindSteps, UnbindSteps
<1>4. /\ subscribers' \in [ClusterTopics -> SUBSET Listeners] /\ inner' \subseteq inner /\ torn \subseteq torn'
      /\ torn' \subseteq {y \in ClusterTopics : Shared(y)}
      /\ \A y \in ClusterTopics : subscribers'[y] \subseteq subscribers[y] /\ (subscribers'[y] # {} => y \in inner')
      /\ \A y \in ClusterTopics \ torn' : subscribers'[y] = subscribers[y] /\ (y \in inner' <=> y \in inner)
      /\ \A y \in inner : ~Shared(y) => y \in inner'
  BY <1>0, <1>1, <1>2, WipeFacts
<1> HIDE DEF x
<1>5. /\ CallsInv' /\ LockInv' /\ call' \in [Listeners -> Calls]
      /\ call'[l] = r /\ \A k \in Listeners \ {l} : call'[k] = call[k]
      /\ \A k \in Listeners \ {l} : \A y : (Busy(k, y)' <=> Busy(k, y)) /\ (Binding(k, y)' <=> Binding(k, y))
  <2>1. /\ r.by = "none" <=> r.at = "idle"
        /\ r.by = "bind" <=> r.at \in BindSteps
        /\ r.by = "unbind" => r.at \in UnbindSteps /\ subCnt'[l][r.topic] = 0
        /\ r.by = "clear" => r.at = "next" \/ r.topic \notin r.todo
        /\ r.at \notin {"make", "drop", "put"}
    BY <1>0, <1>1, <1>3 DEF CallsInv, BindSteps, UnbindSteps, x
  <2>2. QED
    BY <1>0, <1>1, <1>2, <1>3, <1>4, <2>1, CallsKept
<1>6. \A y : (Busy(l, y)' <=> Busy(l, y)) /\ (Binding(l, y)' <=> Binding(l, y))
  BY <1>1, <1>3, <1>5 DEF Busy, Binding, x
<1>7. CallTypes'
  BY <1>0, <1>1, <1>4, <1>5 DEF CallTypes
<1>8. CountInv'
  <2>1. \A k, y : Bound(k, y)' = Bound(k, y)
    BY <1>1 DEF Bound
  <2>2. QED
    BY <1>0, <1>1, <1>4, <1>5, <1>6, <2>1 DEF CountInv
<1>9. MemberInv'
  <2>1. \A k \in Listeners, y \in ClusterTopics : Wanted(k, y)' <=> Wanted(k, y)
    BY <1>1, <1>3, <1>5 DEF Wanted
  <2>2. \A y \in ClusterTopics : Busy(l, y) => l \notin subscribers[y]
    BY <1>0, <1>1 DEF MemberInv
  <2>3. ASSUME NEW k \in Listeners, NEW y \in ClusterTopics
        PROVE  /\ Busy(k, y)' /\ call'[k].at \in {"make", "inner", "put", "drop", "unlisten"} => k \notin subscribers'[y]
               /\ Busy(k, y)' /\ call'[k].at = "listen" /\ y \notin torn' => k \in subscribers'[y]
               /\ ~Busy(k, y)' /\ k \in subscribers'[y] => Wanted(k, y)'
               /\ ~Busy(k, y)' /\ Wanted(k, y)' /\ y \notin torn' => k \in subscribers'[y]
    <3>1. CASE k = l
      BY <1>0, <1>3, <1>4, <1>5, <1>6, <2>1, <2>2, <3>1 DEF MemberInv
    <3>2. CASE k # l
      BY <1>0, <1>4, <1>5, <2>1, <3>2 DEF MemberInv
    <3>3. QED
      BY <3>1, <3>2
  <2>4. QED
    BY <2>3 DEF MemberInv
<1>10. InnerInv'
  <2>1. \A y \in inner' \ torn' : subscribers'[y] = {} => \E k \in Listeners : Busy(k, y)' /\ call'[k].at = "put"
    <3> TAKE y \in inner' \ torn'
    <3> HAVE subscribers'[y] = {}
    <3>1. y \in inner \ torn /\ subscribers[y] = {}
      BY <1>0, <1>4 DEF CallTypes
    <3>2. PICK k \in Listeners : Busy(k, y) /\ call[k].at = "put"
      BY <1>0, <3>1 DEF InnerInv
    <3>3. k # l
      BY <1>1, <3>2
    <3>4. QED
      BY <1>5, <3>2, <3>3
  <2>2. \A k \in Listeners : call[k].topic \in ClusterTopics
    BY <1>2 DEF Calls
  <2>3. ASSUME NEW k \in Listeners, call'[k].at = "put"
        PROVE  /\ call'[k].listen => subscribers'[call'[k].topic] = {}
               /\ ~call'[k].listen /\ call'[k].topic \notin torn' => subscribers'[call'[k].topic] # {}
    <3>1. k # l
      BY <1>3, <1>5, <2>3
    <3>2. call'[k] = call[k]
      BY <1>5, <3>1
    <3>3. QED
      BY <1>0, <1>4, <2>2, <2>3, <3>2 DEF InnerInv
  <2>4. ASSUME NEW k \in Listeners, call'[k].at \in {"drop", "unlisten"}, call'[k].listen
        PROVE  subscribers'[call'[k].topic] = {}
    <3>1. /\ call'[k].topic = call[k].topic /\ call'[k].listen = call[k].listen
          /\ call[k].at \in {"drop", "unlisten"}
      BY <1>1, <1>3, <1>5, <2>4 DEF x
    <3>2. subscribers[call[k].topic] = {}
      BY <1>0, <2>4, <3>1 DEF InnerInv
    <3>3. QED
      BY <1>4, <2>2, <3>1, <3>2
  <2>5. QED
    BY <1>4, <2>1, <2>3, <2>4 DEF InnerInv
<1>11. ListenInv'
  <2>1. \A y : (Opening(y)' <=> Opening(y)) /\ (Closing(y)' <=> Closing(y))
    BY <1>1, <1>3, <1>5, <1>6 DEF Opening, Closing
  <2>2. QED
    BY <1>0, <1>1, <1>4, <2>1 DEF ListenInv
<1>12. QED
  BY <1>5, <1>7, <1>8, <1>9, <1>10, <1>11 DEF CallInv

\* Panic: the topic is torn.
LEMMA PanicStep ==
    ASSUME RegTypes, CallInv, NEW l \in Listeners, Panic(l)
    PROVE  CallInv'
<1> DEFINE x == call[l].topic
<1>0. CallTypes /\ CallsInv /\ LockInv /\ CountInv /\ MemberInv /\ InnerInv /\ ListenInv
  BY DEF CallInv
<1>1. /\ call[l].at \in {"inner", "put"} /\ torn' = torn \cup {x} /\ call' = Returned(l)
      /\ UNCHANGED <<callbacks, subCnt, inner, subscribers, subMap, listening, deaf, enable>>
      /\ call[l].at = "inner" => Shared(x)
      /\ call[l].at = "put" => x \notin inner
  BY DEF Panic, registry, natsVars
<1>2. x \in ClusterTopics /\ Shared(x) /\ Busy(l, x) /\ call[l].by = "bind"
  BY <1>0, <1>1 DEF CallTypes, Calls, CallsInv, Busy, BindSteps
<1>3. PICK r \in Calls : call' = [call EXCEPT ![l] = r] /\ r.at = "idle" /\ r.by = "none"
  BY <1>0, <1>1, <1>2, ReturnedFacts
<1> HIDE DEF x
<1>4. /\ CallsInv' /\ LockInv' /\ call' \in [Listeners -> Calls]
      /\ call'[l] = r /\ \A k \in Listeners \ {l} : call'[k] = call[k]
      /\ \A k \in Listeners \ {l} : \A y : (Busy(k, y)' <=> Busy(k, y)) /\ (Binding(k, y)' <=> Binding(k, y))
  BY <1>0, <1>1, <1>3, CallsKept DEF BindSteps
<1>5. /\ \A y : ~Busy(l, y)' /\ ~Binding(l, y)'
      /\ \A y : y # x => ~Busy(l, y) /\ ~Binding(l, y)
      /\ \A k \in Listeners \ {l} : ~Busy(k, x)
  BY <1>0, <1>2, <1>3, <1>4 DEF Busy, Binding, LockInv, x
<1>6. CallTypes'
  BY <1>0, <1>1, <1>2, <1>4 DEF CallTypes
<1>7. CountInv'
  <2>1. \A k, y : Bound(k, y)' = Bound(k, y)
    BY <1>1 DEF Bound
  <2>2. \A k \in Listeners, y \in ClusterTopics : Cardinality(Bound(k, y)) \in Nat /\ subCnt[k][y] \in Nat
    BY <1>0, BoundFinite DEF CallTypes
  <2>3. QED
    BY <1>0, <1>1, <1>4, <1>5, <2>1, <2>2 DEF CountInv
<1>8. MemberInv'
  <2>1. ASSUME NEW k \in Listeners, NEW y \in ClusterTopics
        PROVE  /\ Busy(k, y)' /\ call'[k].at \in {"make", "inner", "put", "drop", "unlisten"} => k \notin subscribers'[y]
               /\ Busy(k, y)' /\ call'[k].at = "listen" /\ y \notin torn' => k \in subscribers'[y]
               /\ ~Busy(k, y)' /\ k \in subscribers'[y] => Wanted(k, y)'
               /\ ~Busy(k, y)' /\ Wanted(k, y)' /\ y \notin torn' => k \in subscribers'[y]
    <3>1. CASE k = l
      <4>1. l \notin subscribers[x]
        BY <1>0, <1>1, <1>2 DEF MemberInv
      <4>2. y # x => (Wanted(l, y)' <=> Wanted(l, y))
        BY <1>1, <1>2, <1>3, <1>4 DEF Wanted
      <4>3. QED
        BY <1>0, <1>1, <1>3, <1>4, <1>5, <3>1, <4>1, <4>2 DEF MemberInv
    <3>2. CASE k # l
      <4>1. Wanted(k, y)' <=> Wanted(k, y)
        BY <1>1, <1>4, <3>2 DEF Wanted
      <4>2. QED
        BY <1>0, <1>1, <1>4, <3>2, <4>1 DEF MemberInv
    <3>3. QED
      BY <3>1, <3>2
  <2>2. QED
    BY <2>1 DEF MemberInv
<1>9. InnerInv'
  <2>1. \A y \in inner' \ torn' : subscribers'[y] = {} => \E k \in Listeners : Busy(k, y)' /\ call'[k].at = "put"
    <3> TAKE y \in inner' \ torn'
    <3> HAVE subscribers'[y] = {}
    <3>1. PICK k \in Listeners : Busy(k, y) /\ call[k].at = "put"
      BY <1>0, <1>1 DEF InnerInv
    <3>2. k # l
      BY <1>1, <1>5, <3>1
    <3>3. QED
      BY <1>4, <3>1, <3>2
  <2>2. QED
    BY <1>0, <1>1, <1>3, <1>4, <2>1 DEF InnerInv
<1>10. ListenInv'
  <2>1. \A y : y # x => (Opening(y)' <=> Opening(y)) /\ (Closing(y)' <=> Closing(y))
    BY <1>4, <1>5 DEF Opening, Closing
  <2>2. QED
    BY <1>0, <1>1, <2>1 DEF ListenInv
<1>11. QED
  BY <1>4, <1>6, <1>7, <1>8, <1>9, <1>10 DEF CallInv

\* MakeInner: the topic has a map.
LEMMA MakeInnerStep ==
    ASSUME CallInv, NEW l \in Listeners, MakeInner(l)
    PROVE  CallInv'
<1> DEFINE x == call[l].topic
           r == [call[l] EXCEPT !.at = "put", !.listen = x \notin inner]
<1>0. CallTypes /\ CallsInv /\ LockInv /\ CountInv /\ MemberInv /\ InnerInv /\ ListenInv
  BY DEF CallInv
<1>1. /\ call[l].at = "inner" /\ inner' = inner \cup {x} /\ call' = [call EXCEPT ![l] = r]
      /\ UNCHANGED <<callbacks, subCnt, subscribers, torn, subMap, listening, deaf, enable>>
  BY DEF MakeInner, registry, natsVars
<1>2. /\ x \in ClusterTopics /\ Busy(l, x) /\ call[l].by = "bind"
      /\ r \in Calls /\ r.at = "put" /\ r.by = "bind" /\ r.topic = x /\ r.listen = (x \notin inner)
  <2>1. call[l] \in Calls /\ call[l].by = "bind"
    BY <1>0, <1>1 DEF CallTypes, CallsInv, BindSteps
  <2>2. QED
    BY <1>1, <2>1 DEF Calls, Busy, BindSteps
<1> HIDE DEF x, r
<1>3. /\ CallsInv' /\ LockInv' /\ call' \in [Listeners -> Calls]
      /\ call'[l] = r /\ \A k \in Listeners \ {l} : call'[k] = call[k]
      /\ \A k \in Listeners \ {l} : \A y : (Busy(k, y)' <=> Busy(k, y)) /\ (Binding(k, y)' <=> Binding(k, y))
  <2>1. r.by = "bind" <=> r.at \in BindSteps
    BY <1>2 DEF BindSteps
  <2>2. QED
    BY <1>0, <1>1, <1>2, <2>1, CallsKept
<1>4. /\ \A y : (Busy(l, y)' <=> y = x) /\ (Binding(l, y)' <=> y = x)
      /\ \A y : (Busy(l, y) <=> y = x) /\ (Binding(l, y) <=> y = x)
      /\ \A k \in Listeners \ {l} : ~Busy(k, x)
  BY <1>0, <1>1, <1>2, <1>3 DEF Busy, Binding, LockInv, x
<1>5. CallTypes'
  BY <1>0, <1>1, <1>2, <1>3 DEF CallTypes
<1>6. CountInv'
  <2>1. \A k, y : Bound(k, y)' = Bound(k, y)
    BY <1>1 DEF Bound
  <2>2. QED
    BY <1>0, <1>1, <1>3, <1>4, <2>1 DEF CountInv
<1>7. MemberInv'
  <2>1. \A k \in Listeners, y \in ClusterTopics : y # x \/ k # l => (Wanted(k, y)' <=> Wanted(k, y))
    BY <1>1, <1>2, <1>3 DEF Wanted
  <2>2. QED
    BY <1>0, <1>1, <1>2, <1>3, <1>4, <2>1 DEF MemberInv
<1>8. InnerInv'
  <2>1. \A y \in inner' \ torn' : subscribers'[y] = {} => \E k \in Listeners : Busy(k, y)' /\ call'[k].at = "put"
    <3> TAKE y \in inner' \ torn'
    <3> HAVE subscribers'[y] = {}
    <3>1. CASE y = x
      BY <1>2, <1>3, <1>4, <3>1
    <3>2. CASE y # x
      <4>1. PICK k \in Listeners : Busy(k, y) /\ call[k].at = "put"
        BY <1>0, <1>1, <3>2 DEF InnerInv
      <4>2. QED
        BY <1>1, <1>3, <4>1
    <3>3. QED
      BY <3>1, <3>2
  <2>2. r.listen => subscribers[x] = {}
    BY <1>0, <1>2 DEF InnerInv
  <2>3. ~r.listen /\ x \notin torn => subscribers[x] # {}
    <3> SUFFICES ASSUME x \in inner \ torn, subscribers[x] = {} PROVE FALSE
      BY <1>2
    <3>1. PICK k \in Listeners : Busy(k, x) /\ call[k].at = "put"
      BY <1>0 DEF InnerInv
    <3>2. QED
      BY <1>1, <1>4, <3>1
  <2>4. QED
    BY <1>0, <1>1, <1>2, <1>3, <2>1, <2>2, <2>3 DEF InnerInv
<1>9. ListenInv'
  <2>1. \A y : (Opening(y)' <=> Opening(y)) /\ (Closing(y)' <=> Closing(y))
    BY <1>1, <1>2, <1>3, <1>4 DEF Opening, Closing
  <2>2. QED
    BY <1>0, <1>1, <2>1 DEF ListenInv
<1>10. QED
  BY <1>3, <1>5, <1>6, <1>7, <1>8, <1>9 DEF CallInv

\* PutSubscriber: the service is in the map.
LEMMA PutStep ==
    ASSUME CallInv, NEW l \in Listeners, PutSubscriber(l)
    PROVE  CallInv'
<1>0. CallTypes /\ CallsInv /\ LockInv /\ CountInv /\ MemberInv /\ InnerInv /\ ListenInv
  BY DEF CallInv
<1>x. PICK x \in ClusterTopics : x = call[l].topic
  BY <1>0 DEF CallTypes, Calls
<1>1. /\ call[l].at = "put" /\ x \in inner /\ subscribers' = [subscribers EXCEPT ![x] = @ \cup {l}] /\ CallAt(l, "listen")
      /\ UNCHANGED <<callbacks, subCnt, inner, torn, subMap, listening, deaf, enable>>
  BY <1>x DEF PutSubscriber, registry, natsVars
<1>2. x \in ClusterTopics /\ Busy(l, x) /\ call[l].by = "bind"
  BY <1>0, <1>x, <1>1 DEF CallTypes, Calls, CallsInv, Busy, BindSteps
<1>3. PICK r \in Calls : /\ call' = [call EXCEPT ![l] = r] /\ r.by = "bind" /\ r.at = "listen"
                         /\ r.topic = x /\ r.listen = call[l].listen
  BY <1>0, <1>x, <1>1, <1>2, CallAtFacts DEF BindSteps
<1>4. /\ call[l].listen => subscribers[x] = {}
      /\ ~call[l].listen /\ x \notin torn => subscribers[x] # {}
  BY <1>0, <1>x, <1>1 DEF InnerInv
<1>5. /\ CallsInv' /\ LockInv' /\ call' \in [Listeners -> Calls]
      /\ call'[l] = r /\ \A k \in Listeners \ {l} : call'[k] = call[k]
      /\ \A k \in Listeners \ {l} : \A y : (Busy(k, y)' <=> Busy(k, y)) /\ (Binding(k, y)' <=> Binding(k, y))
  <2>1. r.by = "bind" <=> r.at \in BindSteps
    BY <1>3 DEF BindSteps
  <2>2. QED
    BY <1>0, <1>1, <1>2, <1>3, <2>1, CallsKept
<1>6. /\ \A y : (Busy(l, y)' <=> y = x) /\ (Binding(l, y)' <=> y = x)
      /\ \A y : (Busy(l, y) <=> y = x) /\ (Binding(l, y) <=> y = x)
      /\ \A k \in Listeners \ {l} : ~Busy(k, x)
  BY <1>0, <1>x, <1>1, <1>2, <1>3, <1>5 DEF Busy, Binding, LockInv
<1>7. /\ subscribers' \in [ClusterTopics -> SUBSET Listeners] /\ subscribers'[x] = subscribers[x] \cup {l}
      /\ \A y \in ClusterTopics : y # x => subscribers'[y] = subscribers[y]
  BY <1>0, <1>1, <1>2 DEF CallTypes
<1>8. CallTypes'
  BY <1>0, <1>1, <1>5, <1>7 DEF CallTypes
<1>9. CountInv'
  <2>1. \A k, y : Bound(k, y)' = Bound(k, y)
    BY <1>1 DEF Bound
  <2>2. QED
    BY <1>0, <1>1, <1>5, <1>6, <2>1 DEF CountInv
<1>10. MemberInv'
  <2>1. \A k \in Listeners, y \in ClusterTopics : y # x \/ k # l => (Wanted(k, y)' <=> Wanted(k, y))
    BY <1>1, <1>2, <1>3, <1>5 DEF Wanted
  <2>2. QED
    BY <1>0, <1>1, <1>2, <1>3, <1>5, <1>6, <1>7, <2>1 DEF MemberInv
<1>11. \A k \in Listeners \ {l} : call[k].at \in BindSteps \cup UnbindSteps => call[k].topic \in ClusterTopics /\ call[k].topic # x
  BY <1>0, <1>6 DEF CallTypes, Calls, Busy, BindSteps, UnbindSteps
<1>12. InnerInv'
  <2>1. \A y \in inner' \ torn' : subscribers'[y] = {} => \E k \in Listeners : Busy(k, y)' /\ call'[k].at = "put"
    <3> TAKE y \in inner' \ torn'
    <3> HAVE subscribers'[y] = {}
    <3>1. y # x /\ y \in ClusterTopics /\ subscribers[y] = {}
      BY <1>0, <1>1, <1>7 DEF CallTypes
    <3>2. PICK k \in Listeners : Busy(k, y) /\ call[k].at = "put"
      BY <1>0, <1>1, <3>1 DEF InnerInv
    <3>3. QED
      BY <1>5, <1>6, <3>1, <3>2
  <2>2. \A y \in ClusterTopics : subscribers'[y] # {} => y \in inner'
    BY <1>0, <1>1, <1>7 DEF InnerInv
  <2>3. QED
    BY <1>0, <1>1, <1>3, <1>5, <1>7, <1>11, <2>1, <2>2 DEF InnerInv, BindSteps, UnbindSteps
<1>13. ListenInv'
  <2>1. \A y : y # x => (Opening(y)' <=> Opening(y)) /\ (Closing(y)' <=> Closing(y))
    BY <1>5, <1>6 DEF Opening, Closing
  <2>2. ~Opening(x) /\ ~Closing(x)
    BY <1>1, <1>6 DEF Opening, Closing
  <2>3. \A k \in Listeners : Busy(k, x)' => k = l
    BY <1>5, <1>6
  <2>4. ~Closing(x)'
    BY <1>3, <1>5, <2>3 DEF Closing
  <2>5. Opening(x)' <=> call[l].listen
    <3>1. Busy(l, x)' /\ call'[l].at = "listen" /\ call'[l].listen = call[l].listen
      BY <1>3, <1>5, <1>6
    <3>2. QED
      BY <2>3, <3>1 DEF Opening
  <2>6. ASSUME enable', NEW y \in ClusterTopics \ torn'
        PROVE  /\ subMap'[y] \in Nat /\ listening'[y] = {subMap'[y]} \ {0}
               /\ subscribers'[y] = {} /\ ~Closing(y)' => subMap'[y] = 0
               /\ Opening(y)' => subMap'[y] = 0
               /\ subscribers'[y] # {} /\ ~Opening(y)' => subMap'[y] # 0 \/ y \in deaf'
    <3>1. /\ subMap[y] \in Nat /\ listening[y] = {subMap[y]} \ {0}
          /\ subscribers[y] = {} /\ ~Closing(y) => subMap[y] = 0
          /\ Opening(y) => subMap[y] = 0
          /\ subscribers[y] # {} /\ ~Opening(y) => subMap[y] # 0 \/ y \in deaf
      BY <1>0, <1>1, <2>6 DEF ListenInv
    <3>2. CASE y # x
      BY <1>1, <1>7, <2>1, <3>1, <3>2
    <3>3. CASE y = x
      BY <1>1, <1>4, <1>7, <2>2, <2>4, <2>5, <2>6, <3>1, <3>3
    <3>4. QED
      BY <3>2, <3>3
  <2>7. QED
    BY <2>6 DEF ListenInv
<1>14. QED
  BY <1>5, <1>8, <1>9, <1>10, <1>12, <1>13 DEF CallInv

\* Listen: the callback is counted, and the bus listens to the topic.
LEMMA ListenStep ==
    ASSUME CallInv, NEW l \in Listeners, Listen(l)
    PROVE  CallInv'
<1>0. CallTypes /\ CallsInv /\ LockInv /\ CountInv /\ MemberInv /\ InnerInv /\ ListenInv
  BY DEF CallInv
<1>x. PICK x \in ClusterTopics : x = call[l].topic
  BY <1>0 DEF CallTypes, Calls
<1> DEFINE s == CHOOSE n \in 1..(Cardinality(listening[x]) + 1) : n \notin listening[x]
<1>1. /\ call[l].at = "listen" /\ subCnt' = [subCnt EXCEPT ![l][x] = @ + 1] /\ call' = Returned(l)
      /\ \/ /\ call[l].listen /\ enable /\ subMap' = [subMap EXCEPT ![x] = s]
            /\ listening' = [listening EXCEPT ![x] = @ \cup {s}] /\ UNCHANGED deaf
         \/ /\ call[l].listen /\ enable /\ deaf' = deaf \cup {x} /\ UNCHANGED <<subMap, listening>>
         \/ ~(call[l].listen /\ enable) /\ UNCHANGED <<subMap, listening, deaf>>
      /\ UNCHANGED <<callbacks, inner, subscribers, torn, enable>>
  BY <1>x DEF Listen, tables, natsVars
<1>2. x \in ClusterTopics /\ Busy(l, x) /\ call[l].by = "bind"
  BY <1>0, <1>x, <1>1 DEF CallTypes, Calls, CallsInv, Busy, BindSteps
<1>3. PICK r \in Calls : call' = [call EXCEPT ![l] = r] /\ r.at = "idle" /\ r.by = "none"
  BY <1>0, <1>1, <1>2, ReturnedFacts
<1>4. enable /\ call[l].listen /\ x \notin torn => /\ listening[x] = {} /\ subMap[x] = 0 /\ s = 1
                                                   /\ subMap[x] \in Nat
  <2> SUFFICES ASSUME enable, call[l].listen, x \notin torn PROVE listening[x] = {} /\ subMap[x] = 0 /\ s = 1
    OBVIOUS
  <2>1. Opening(x)
    BY <1>1, <1>2 DEF Opening
  <2>2. listening[x] = {} /\ subMap[x] = 0
    BY <1>0, <1>2, <2>1 DEF ListenInv
  <2>3. 1..(Cardinality(listening[x]) + 1) = {1}
    BY <2>2, FS_EmptySet
  <2>4. QED
    BY <2>2, <2>3
<1> HIDE DEF s
<1>5. /\ subCnt' \in [Listeners -> [ClusterTopics -> Nat]] /\ subCnt'[l][x] = subCnt[l][x] + 1
      /\ \A k \in Listeners, y \in ClusterTopics : k # l \/ y # x => subCnt'[k][y] = subCnt[k][y]
      /\ \A k \in Listeners \ {l} : subCnt'[k] = subCnt[k]
  BY <1>0, <1>1, <1>2 DEF CallTypes
<1>6. /\ CallsInv' /\ LockInv' /\ call' \in [Listeners -> Calls]
      /\ call'[l] = r /\ \A k \in Listeners \ {l} : call'[k] = call[k]
      /\ \A k \in Listeners \ {l} : \A y : (Busy(k, y)' <=> Busy(k, y)) /\ (Binding(k, y)' <=> Binding(k, y))
  <2>1. r.by = "bind" <=> r.at \in BindSteps
    BY <1>3 DEF BindSteps
  <2>2. QED
    BY <1>0, <1>1, <1>3, <1>5, <2>1, CallsKept
<1>7. /\ \A y : ~Busy(l, y)' /\ ~Binding(l, y)'
      /\ \A y : (Busy(l, y) <=> y = x) /\ (Binding(l, y) <=> y = x)
      /\ \A k \in Listeners \ {l} : ~Busy(k, x)
  BY <1>0, <1>x, <1>2, <1>3, <1>6 DEF Busy, Binding, LockInv
<1>8. CallTypes'
  <2>1. subMap' = [y \in ClusterTopics |-> subMap'[y]] /\ listening' = [y \in ClusterTopics |-> listening'[y]]
    BY <1>0, <1>1, <1>2 DEF CallTypes
  <2>2. QED
    BY <1>0, <1>1, <1>5, <1>6, <2>1 DEF CallTypes
<1>9. CountInv'
  <2>1. \A k, y : Bound(k, y)' = Bound(k, y)
    BY <1>1 DEF Bound
  <2>2. subCnt[l][x] \in Nat
    BY <1>0, <1>2 DEF CallTypes
  <2>3. QED
    BY <1>0, <1>1, <1>5, <1>6, <1>7, <2>1, <2>2 DEF CountInv
<1>10. MemberInv'
  <2>1. \A k \in Listeners, y \in ClusterTopics : y # x \/ k # l => (Wanted(k, y)' <=> Wanted(k, y))
    BY <1>2, <1>3, <1>5, <1>6 DEF Wanted
  <2>2. Wanted(l, x)'
    <3>1. subCnt[l][x] \in Nat
      BY <1>0, <1>2 DEF CallTypes
    <3>2. subCnt'[l][x] > 0 /\ call'[l].by = "none"
      BY <1>3, <1>5, <1>6, <3>1
    <3>3. QED
      BY <3>2 DEF Wanted
  <2>3. ASSUME NEW k \in Listeners, NEW y \in ClusterTopics
        PROVE  /\ Busy(k, y)' /\ call'[k].at \in {"make", "inner", "put", "drop", "unlisten"} => k \notin subscribers'[y]
               /\ Busy(k, y)' /\ call'[k].at = "listen" /\ y \notin torn' => k \in subscribers'[y]
               /\ ~Busy(k, y)' /\ k \in subscribers'[y] => Wanted(k, y)'
               /\ ~Busy(k, y)' /\ Wanted(k, y)' /\ y \notin torn' => k \in subscribers'[y]
    <3>1. CASE k = l /\ y = x
      BY <1>0, <1>1, <1>2, <1>7, <2>2, <3>1 DEF MemberInv
    <3>2. CASE k = l /\ y # x
      BY <1>0, <1>1, <1>7, <2>1, <3>2 DEF MemberInv
    <3>3. CASE k # l
      BY <1>0, <1>1, <1>6, <2>1, <3>3 DEF MemberInv
    <3>4. QED
      BY <3>1, <3>2, <3>3
  <2>4. QED
    BY <2>3 DEF MemberInv
<1>11. InnerInv'
  <2>1. \A y \in inner' \ torn' : subscribers'[y] = {} => \E k \in Listeners : Busy(k, y)' /\ call'[k].at = "put"
    <3> TAKE y \in inner' \ torn'
    <3> HAVE subscribers'[y] = {}
    <3>1. PICK k \in Listeners : Busy(k, y) /\ call[k].at = "put"
      BY <1>0, <1>1 DEF InnerInv
    <3>2. QED
      BY <1>1, <1>6, <3>1
  <2>2. QED
    BY <1>0, <1>1, <1>3, <1>6, <2>1 DEF InnerInv
<1>12. ListenInv'
  <2>1. \A y : y # x => (Opening(y)' <=> Opening(y)) /\ (Closing(y)' <=> Closing(y))
    BY <1>6, <1>7 DEF Opening, Closing
  <2>2. ~Opening(x)' /\ ~Closing(x)' /\ (Opening(x) <=> call[l].listen)
    <3>1. \A k \in Listeners : ~Busy(k, x)'
      BY <1>6, <1>7
    <3>2. \A k \in Listeners : Busy(k, x) <=> k = l
      BY <1>7
    <3>3. Opening(x) <=> call[l].listen
      BY <1>1, <3>2 DEF Opening
    <3>4. QED
      BY <3>1, <3>3 DEF Opening, Closing
  <2>3. \A y \in ClusterTopics : y # x => subMap'[y] = subMap[y] /\ listening'[y] = listening[y] /\ (y \in deaf => y \in deaf')
    BY <1>0, <1>1 DEF CallTypes
  <2>4. \A y \in ClusterTopics \ torn' : y # x => (y \in deaf' <=> y \in deaf)
    BY <1>1
  <2>5. ASSUME enable', x \notin torn'
        PROVE  /\ subMap'[x] \in Nat /\ listening'[x] = {subMap'[x]} \ {0}
               /\ l \in subscribers'[x] /\ (subMap'[x] # 0 \/ x \in deaf')
    <3>1. l \in subscribers[x]
      BY <1>0, <1>1, <1>2, <2>5 DEF MemberInv
    <3>2. CASE call[l].listen /\ subMap' = [subMap EXCEPT ![x] = s] /\ listening' = [listening EXCEPT ![x] = @ \cup {s}]
      <4>1. subMap'[x] = 1 /\ listening'[x] = {1}
        BY <1>0, <1>1, <1>2, <1>4, <2>5, <3>2 DEF CallTypes
      <4>2. QED
        BY <1>1, <3>1, <4>1
    <3>3. CASE call[l].listen /\ deaf' = deaf \cup {x} /\ UNCHANGED <<subMap, listening>>
      BY <1>1, <1>4, <2>5, <3>1, <3>3
    <3>4. CASE ~call[l].listen /\ UNCHANGED <<subMap, listening, deaf>>
      BY <1>0, <1>1, <1>2, <2>2, <2>5, <3>1, <3>4 DEF ListenInv
    <3>5. QED
      BY <1>1, <2>5, <3>2, <3>3, <3>4
  <2>6. ASSUME enable', NEW y \in ClusterTopics \ torn'
        PROVE  /\ subMap'[y] \in Nat /\ listening'[y] = {subMap'[y]} \ {0}
               /\ subscribers'[y] = {} /\ ~Closing(y)' => subMap'[y] = 0
               /\ Opening(y)' => subMap'[y] = 0
               /\ subscribers'[y] # {} /\ ~Opening(y)' => subMap'[y] # 0 \/ y \in deaf'
    <3>1. CASE y # x
      <4>1. /\ subMap[y] \in Nat /\ listening[y] = {subMap[y]} \ {0}
            /\ subscribers[y] = {} /\ ~Closing(y) => subMap[y] = 0
            /\ Opening(y) => subMap[y] = 0
            /\ subscribers[y] # {} /\ ~Opening(y) => subMap[y] # 0 \/ y \in deaf
        BY <1>0, <1>1, <2>6 DEF ListenInv
      <4>2. QED
        BY <1>1, <2>1, <2>3, <2>6, <3>1, <4>1
    <3>2. CASE y = x
      BY <2>2, <2>5, <2>6, <3>2
    <3>3. QED
      BY <3>1, <3>2
  <2>7. QED
    BY <2>6 DEF ListenInv
<1>13. QED
  BY <1>6, <1>8, <1>9, <1>10, <1>11, <1>12 DEF CallInv

\* RemoveSubscriber: the service is out of the map, and an empty map is gone.
LEMMA RemoveStep ==
    ASSUME CallInv, NEW l \in Listeners, RemoveSubscriber(l)
    PROVE  CallInv'
<1>0. CallTypes /\ CallsInv /\ LockInv /\ CountInv /\ MemberInv /\ InnerInv /\ ListenInv
  BY DEF CallInv
<1>x. PICK x \in ClusterTopics : x = call[l].topic
  BY <1>0 DEF CallTypes, Calls
<1>e. PICK empty \in BOOLEAN : empty = (x \in inner /\ subscribers[x] \subseteq {l})
  OBVIOUS
<1>1. PICK a \in {"drop", "unlisten"} :
        /\ call[l].at = "remove" /\ subscribers' = [subscribers EXCEPT ![x] = @ \ {l}]
        /\ inner' = IF empty THEN inner \ {x} ELSE inner
        /\ call' = [call EXCEPT ![l].listen = empty, ![l].at = a] /\ (a = "drop" => Shared(x))
        /\ UNCHANGED <<callbacks, subCnt, torn, subMap, listening, deaf, enable>>
  BY <1>x, <1>e DEF RemoveSubscriber, registry, natsVars
<1>2. /\ Busy(l, x) /\ call[l] \in Calls
      /\ \/ call[l].by = "unbind" /\ subCnt[l][x] = 0
         \/ call[l].by = "clear" /\ x \notin call[l].todo
  <2>1. call[l] \in Calls
    BY <1>0 DEF CallTypes
  <2>2. call[l].by \in {"none", "bind", "unbind", "clear"}
    BY <2>1 DEF Calls
  <2>3. QED
    BY <1>0, <1>x, <1>1, <2>1, <2>2 DEF CallsInv, Busy, BindSteps
<1>3. PICK r \in Calls : /\ call' = [call EXCEPT ![l] = r] /\ r.by = call[l].by /\ r.at = a
                         /\ r.topic = x /\ r.listen = empty /\ r.todo = call[l].todo
  <2>1. [call[l] EXCEPT !.listen = empty, !.at = a] \in Calls
    BY <1>2 DEF Calls, UnbindSteps
  <2>2. call' = [call EXCEPT ![l] = [call[l] EXCEPT !.listen = empty, !.at = a]]
    BY <1>1
  <2>3. QED
    BY <1>x, <1>2, <2>1, <2>2 DEF Calls
<1>4. /\ CallsInv' /\ LockInv' /\ call' \in [Listeners -> Calls]
      /\ call'[l] = r /\ \A k \in Listeners \ {l} : call'[k] = call[k]
      /\ \A k \in Listeners \ {l} : \A y : (Busy(k, y)' <=> Busy(k, y)) /\ (Binding(k, y)' <=> Binding(k, y))
  <2>1. /\ r.by = "none" <=> r.at = "idle"
        /\ r.by = "bind" <=> r.at \in BindSteps
        /\ r.by = "unbind" => r.at \in UnbindSteps /\ subCnt'[l][r.topic] = 0
    BY <1>1, <1>2, <1>3 DEF BindSteps, UnbindSteps
  <2>2. \A y \in inner : ~Shared(y) => y \in inner' \/ Busy(l, y)
    BY <1>1, <1>2
  <2>3. QED
    BY <1>0, <1>1, <1>2, <1>3, <2>1, <2>2, CallsKept
<1>5. /\ \A y : (Busy(l, y)' <=> y = x) /\ ~Binding(l, y)'
      /\ \A y : (Busy(l, y) <=> y = x) /\ ~Binding(l, y)
      /\ \A k \in Listeners \ {l} : ~Busy(k, x)
  BY <1>0, <1>x, <1>1, <1>2, <1>3, <1>4 DEF Busy, Binding, LockInv
<1>6. /\ subscribers' \in [ClusterTopics -> SUBSET Listeners] /\ subscribers'[x] = subscribers[x] \ {l}
      /\ \A y \in ClusterTopics : y # x => subscribers'[y] = subscribers[y]
  BY <1>0, <1>1 DEF CallTypes
<1>7. CallTypes'
  BY <1>0, <1>1, <1>4, <1>6 DEF CallTypes
<1>8. CountInv'
  <2>1. \A k, y : Bound(k, y)' = Bound(k, y)
    BY <1>1 DEF Bound
  <2>2. QED
    BY <1>0, <1>1, <1>4, <1>5, <2>1 DEF CountInv
<1>9. MemberInv'
  <2>1. \A k \in Listeners, y \in ClusterTopics : Wanted(k, y)' <=> Wanted(k, y)
    BY <1>1, <1>3, <1>4 DEF Wanted
  <2>2. ASSUME NEW k \in Listeners, NEW y \in ClusterTopics
        PROVE  /\ Busy(k, y)' /\ call'[k].at \in {"make", "inner", "put", "drop", "unlisten"} => k \notin subscribers'[y]
               /\ Busy(k, y)' /\ call'[k].at = "listen" /\ y \notin torn' => k \in subscribers'[y]
               /\ ~Busy(k, y)' /\ k \in subscribers'[y] => Wanted(k, y)'
               /\ ~Busy(k, y)' /\ Wanted(k, y)' /\ y \notin torn' => k \in subscribers'[y]
    <3>1. CASE k = l
      BY <1>0, <1>1, <1>3, <1>4, <1>5, <1>6, <2>1, <3>1 DEF MemberInv
    <3>2. CASE k # l
      BY <1>0, <1>1, <1>4, <1>5, <1>6, <2>1, <3>2 DEF MemberInv
    <3>3. QED
      BY <3>1, <3>2
  <2>3. QED
    BY <2>2 DEF MemberInv
<1>10. \A k \in Listeners \ {l} : call[k].at \in BindSteps \cup UnbindSteps => call[k].topic \in ClusterTopics /\ call[k].topic # x
  BY <1>0, <1>5 DEF CallTypes, Calls, Busy, BindSteps, UnbindSteps
<1>11. InnerInv'
  <2>1. \A y \in ClusterTopics : subscribers'[y] # {} => y \in inner'
    BY <1>0, <1>1, <1>e, <1>6 DEF InnerInv
  <2>2. \A y \in inner' \ torn' : subscribers'[y] = {} => \E k \in Listeners : Busy(k, y)' /\ call'[k].at = "put"
    <3> TAKE y \in inner' \ torn'
    <3> HAVE subscribers'[y] = {}
    <3>1. y # x
      BY <1>1, <1>e, <1>6
    <3>2. y \in inner \ torn /\ subscribers[y] = {}
      BY <1>0, <1>1, <1>6, <3>1 DEF CallTypes
    <3>3. PICK k \in Listeners : Busy(k, y) /\ call[k].at = "put"
      BY <1>0, <3>2 DEF InnerInv
    <3>4. QED
      BY <1>1, <1>4, <3>3
  <2>3. ASSUME NEW k \in Listeners, call'[k].at = "put"
        PROVE  /\ call'[k].listen => subscribers'[call'[k].topic] = {}
               /\ ~call'[k].listen /\ call'[k].topic \notin torn' => subscribers'[call'[k].topic] # {}
    <3>1. k # l
      BY <1>3, <1>4, <2>3
    <3>2. call'[k] = call[k] /\ subscribers'[call[k].topic] = subscribers[call[k].topic]
      BY <1>4, <1>6, <1>10, <2>3, <3>1 DEF BindSteps
    <3>3. call[k].at = "put" /\ torn' = torn
      BY <1>1, <2>3, <3>2
    <3>4. /\ call[k].listen => subscribers[call[k].topic] = {}
          /\ ~call[k].listen /\ call[k].topic \notin torn => subscribers[call[k].topic] # {}
      BY <1>0, <3>3 DEF InnerInv
    <3>5. QED
      BY <3>2, <3>3, <3>4
  <2>4. ASSUME NEW k \in Listeners, call'[k].at \in {"drop", "unlisten"}, call'[k].listen
        PROVE  subscribers'[call'[k].topic] = {}
    <3>1. CASE k = l
      BY <1>e, <1>3, <1>4, <1>6, <2>4, <3>1
    <3>2. CASE k # l
      <4>1. call'[k] = call[k] /\ subscribers'[call[k].topic] = subscribers[call[k].topic]
        BY <1>4, <1>6, <1>10, <2>4, <3>2 DEF UnbindSteps
      <4>2. QED
        BY <1>0, <2>4, <4>1 DEF InnerInv
    <3>3. QED
      BY <3>1, <3>2
  <2>5. QED
    BY <2>1, <2>2, <2>3, <2>4 DEF InnerInv
<1>12. ListenInv'
  <2>1. \A y : y # x => (Opening(y)' <=> Opening(y)) /\ (Closing(y)' <=> Closing(y))
    BY <1>4, <1>5 DEF Opening, Closing
  <2>2. ~Opening(x) /\ ~Closing(x) /\ ~Opening(x)' /\ (Closing(x)' <=> empty)
    <3>1. \A k \in Listeners : (Busy(k, x)' <=> k = l) /\ (Busy(k, x) <=> k = l)
      BY <1>4, <1>5
    <3>2. ~Opening(x) /\ ~Closing(x)
      BY <1>1, <3>1 DEF Opening, Closing
    <3>3. ~Opening(x)'
      BY <1>3, <1>4, <3>1 DEF Opening
    <3>4. Closing(x)' <=> empty
      BY <1>3, <1>4, <3>1 DEF Closing
    <3>5. QED
      BY <3>2, <3>3, <3>4
  <2>3. subscribers'[x] = {} /\ ~empty => subscribers[x] = {}
    BY <1>0, <1>e, <1>6 DEF InnerInv
  <2>4. ASSUME enable', NEW y \in ClusterTopics \ torn'
        PROVE  /\ subMap'[y] \in Nat /\ listening'[y] = {subMap'[y]} \ {0}
               /\ subscribers'[y] = {} /\ ~Closing(y)' => subMap'[y] = 0
               /\ Opening(y)' => subMap'[y] = 0
               /\ subscribers'[y] # {} /\ ~Opening(y)' => subMap'[y] # 0 \/ y \in deaf'
    <3>1. /\ subMap[y] \in Nat /\ listening[y] = {subMap[y]} \ {0}
          /\ subscribers[y] = {} /\ ~Closing(y) => subMap[y] = 0
          /\ Opening(y) => subMap[y] = 0
          /\ subscribers[y] # {} /\ ~Opening(y) => subMap[y] # 0 \/ y \in deaf
      BY <1>0, <1>1, <2>4 DEF ListenInv
    <3>2. CASE y # x
      BY <1>1, <1>6, <2>1, <3>1, <3>2
    <3>3. CASE y = x
      BY <1>1, <1>6, <2>2, <2>3, <3>1, <3>3
    <3>4. QED
      BY <3>2, <3>3
  <2>5. QED
    BY <2>4 DEF ListenInv
<1>13. QED
  BY <1>4, <1>7, <1>8, <1>9, <1>11, <1>12 DEF CallInv

\* Unlisten: the bus does not listen to a topic without subscribers.
LEMMA UnlistenStep ==
    ASSUME CallInv, NEW l \in Listeners, Unlisten(l)
    PROVE  CallInv'
<1>0. CallTypes /\ CallsInv /\ LockInv /\ CountInv /\ MemberInv /\ InnerInv /\ ListenInv
  BY DEF CallInv
<1>x. PICK x \in ClusterTopics : x = call[l].topic
  BY <1>0 DEF CallTypes, Calls
<1>e. PICK ends \in BOOLEAN : ends = (call[l].listen /\ enable /\ subMap[x] # 0)
  OBVIOUS
<1>1. /\ call[l].at = "unlisten" /\ call' = Returned(l)
      /\ subMap' = [subMap EXCEPT ![x] = IF ends THEN 0 ELSE @]
      /\ listening' = [listening EXCEPT ![x] = IF ends THEN @ \ {subMap[x]} ELSE @]
      /\ deaf' = IF call[l].listen THEN deaf \ {x} ELSE deaf
      /\ UNCHANGED <<callbacks, subCnt, inner, subscribers, torn, enable>>
  BY <1>x, <1>e DEF Unlisten, registry, tables
<1>2. /\ Busy(l, x) /\ call[l] \in Calls
      /\ \/ call[l].by = "unbind" /\ subCnt[l][x] = 0
         \/ call[l].by = "clear" /\ x \notin call[l].todo
  <2>1. call[l] \in Calls
    BY <1>0 DEF CallTypes
  <2>2. call[l].by \in {"none", "bind", "unbind", "clear"}
    BY <2>1 DEF Calls
  <2>3. QED
    BY <1>0, <1>x, <1>1, <2>1, <2>2 DEF CallsInv, Busy, BindSteps
<1>3. PICK r \in Calls : /\ call' = [call EXCEPT ![l] = r] /\ r.at \in {"idle", "next"}
                         /\ r.by = (IF call[l].by = "clear" THEN "clear" ELSE "none")
                         /\ r.at = (IF call[l].by = "clear" THEN "next" ELSE "idle")
                         /\ call[l].by = "clear" => r.todo = call[l].todo
  BY <1>0, <1>1, ReturnedFacts
<1>4. /\ CallsInv' /\ LockInv' /\ call' \in [Listeners -> Calls]
      /\ call'[l] = r /\ \A k \in Listeners \ {l} : call'[k] = call[k]
      /\ \A k \in Listeners \ {l} : \A y : (Busy(k, y)' <=> Busy(k, y)) /\ (Binding(k, y)' <=> Binding(k, y))
  <2>1. /\ r.by = "none" <=> r.at = "idle"
        /\ r.by = "bind" <=> r.at \in BindSteps
    BY <1>3 DEF BindSteps
  <2>2. QED
    BY <1>0, <1>1, <1>3, <2>1, CallsKept
<1>5. /\ \A y : ~Busy(l, y)' /\ ~Binding(l, y)'
      /\ \A y : (Busy(l, y) <=> y = x) /\ ~Binding(l, y)
      /\ \A k \in Listeners \ {l} : ~Busy(k, x)
  BY <1>0, <1>x, <1>1, <1>2, <1>3, <1>4 DEF Busy, Binding, LockInv
<1>6. CallTypes'
  <2>1. subMap' = [y \in ClusterTopics |-> subMap'[y]] /\ listening' = [y \in ClusterTopics |-> listening'[y]]
    BY <1>0, <1>1 DEF CallTypes
  <2>2. QED
    BY <1>0, <1>1, <1>4, <2>1 DEF CallTypes
<1>7. CountInv'
  <2>1. \A k, y : Bound(k, y)' = Bound(k, y)
    BY <1>1 DEF Bound
  <2>2. QED
    BY <1>0, <1>1, <1>4, <1>5, <2>1 DEF CountInv
<1>8. MemberInv'
  <2>1. ASSUME NEW k \in Listeners, NEW y \in ClusterTopics, y # x \/ k # l
        PROVE  Wanted(k, y)' <=> Wanted(k, y)
    BY <1>1, <1>2, <1>3, <1>4, <2>1 DEF Wanted
  <2>2. ~Wanted(l, x)' /\ l \notin subscribers[x]
    BY <1>0, <1>1, <1>2, <1>3, <1>4 DEF Wanted, MemberInv
  <2>3. ASSUME NEW k \in Listeners, NEW y \in ClusterTopics
        PROVE  /\ Busy(k, y)' /\ call'[k].at \in {"make", "inner", "put", "drop", "unlisten"} => k \notin subscribers'[y]
               /\ Busy(k, y)' /\ call'[k].at = "listen" /\ y \notin torn' => k \in subscribers'[y]
               /\ ~Busy(k, y)' /\ k \in subscribers'[y] => Wanted(k, y)'
               /\ ~Busy(k, y)' /\ Wanted(k, y)' /\ y \notin torn' => k \in subscribers'[y]
    <3>1. CASE k = l /\ y = x
      BY <1>1, <1>5, <2>2, <3>1
    <3>2. CASE k = l /\ y # x
      BY <1>0, <1>1, <1>5, <2>1, <3>2 DEF MemberInv
    <3>3. CASE k # l
      BY <1>0, <1>1, <1>4, <2>1, <3>3 DEF MemberInv
    <3>4. QED
      BY <3>1, <3>2, <3>3
  <2>4. QED
    BY <2>3 DEF MemberInv
<1>9. InnerInv'
  <2>1. \A y \in inner' \ torn' : subscribers'[y] = {} => \E k \in Listeners : Busy(k, y)' /\ call'[k].at = "put"
    <3> TAKE y \in inner' \ torn'
    <3> HAVE subscribers'[y] = {}
    <3>1. PICK k \in Listeners : Busy(k, y) /\ call[k].at = "put"
      BY <1>0, <1>1 DEF InnerInv
    <3>2. QED
      BY <1>1, <1>4, <3>1
  <2>2. QED
    BY <1>0, <1>1, <1>3, <1>4, <2>1 DEF InnerInv
<1>10. ListenInv'
  <2>1. \A y : y # x => (Opening(y)' <=> Opening(y)) /\ (Closing(y)' <=> Closing(y))
    BY <1>4, <1>5 DEF Opening, Closing
  <2>2. ~Opening(x)' /\ ~Closing(x)' /\ ~Opening(x) /\ (Closing(x) <=> call[l].listen)
    <3>1. \A k \in Listeners : ~Busy(k, x)' /\ (Busy(k, x) <=> k = l)
      BY <1>4, <1>5
    <3>2. ~Opening(x) /\ (Closing(x) <=> call[l].listen)
      BY <1>1, <3>1 DEF Opening, Closing
    <3>3. QED
      BY <3>1, <3>2 DEF Opening, Closing
  <2>3. call[l].listen => subscribers[x] = {}
    BY <1>0, <1>x, <1>1 DEF InnerInv
  <2>4. ASSUME enable', NEW y \in ClusterTopics \ torn'
        PROVE  /\ subMap'[y] \in Nat /\ listening'[y] = {subMap'[y]} \ {0}
               /\ subscribers'[y] = {} /\ ~Closing(y)' => subMap'[y] = 0
               /\ Opening(y)' => subMap'[y] = 0
               /\ subscribers'[y] # {} /\ ~Opening(y)' => subMap'[y] # 0 \/ y \in deaf'
    <3>1. /\ subMap[y] \in Nat /\ listening[y] = {subMap[y]} \ {0}
          /\ subscribers[y] = {} /\ ~Closing(y) => subMap[y] = 0
          /\ Opening(y) => subMap[y] = 0
          /\ subscribers[y] # {} /\ ~Opening(y) => subMap[y] # 0 \/ y \in deaf
      BY <1>0, <1>1, <2>4 DEF ListenInv
    <3>2. CASE y # x
      <4>1. subMap'[y] = subMap[y] /\ listening'[y] = listening[y] /\ (y \in deaf => y \in deaf')
        BY <1>0, <1>1, <3>2 DEF CallTypes
      <4>2. QED
        BY <1>1, <2>1, <3>1, <3>2, <4>1
    <3>3. CASE y = x /\ call[l].listen
      <4>1. subMap'[x] = 0 /\ listening'[x] = {}
        BY <1>0, <1>1, <1>e, <2>4, <3>1, <3>3 DEF CallTypes
      <4>2. QED
        BY <1>1, <2>2, <2>3, <3>3, <4>1
    <3>4. CASE y = x /\ ~call[l].listen
      <4>1. subMap'[x] = subMap[x] /\ listening'[x] = listening[x] /\ deaf' = deaf
        BY <1>0, <1>1, <1>e, <3>4 DEF CallTypes
      <4>2. QED
        BY <1>1, <2>2, <3>1, <3>4, <4>1
    <3>5. QED
      BY <3>2, <3>3, <3>4
  <2>5. QED
    BY <2>4 DEF ListenInv
<1>11. QED
  BY <1>4, <1>6, <1>7, <1>8, <1>9, <1>10 DEF CallInv

\* ClearBegin, ClearNext: the call of Clear goes on, and no table changes.
LEMMA ClearCallStep ==
    ASSUME CallInv, NEW l \in Listeners, ClearBegin(l) \/ ClearNext(l)
    PROVE  CallInv'
<1>0. CallTypes /\ CallsInv /\ LockInv /\ CountInv /\ MemberInv /\ InnerInv /\ ListenInv
  BY DEF CallInv
<1>1. UNCHANGED <<callbacks, subCnt, inner, subscribers, torn, subMap, listening, deaf, enable>>
  BY DEF ClearBegin, ClearNext, registry, tables, natsVars
<1>2. call[l] \in Calls /\ call[l].topic \in ClusterTopics
  BY <1>0 DEF CallTypes, Calls
<1>3. PICK r \in Calls : /\ call' = [call EXCEPT ![l] = r] /\ r.by = "clear" /\ r.at \in {"next", "remove"}
                         /\ r.at = "next" \/ (r.topic \notin r.todo /\ ~LockHeld(r.topic))
                         /\ call[l].by \in {"none", "clear"} /\ call[l].at \in {"idle", "next"}
                         /\ \A x \in ClusterTopics : ~(r.at = "remove" /\ x = r.topic) =>
                              (x \in r.todo /\ subCnt[l][x] > 0 <=> Wanted(l, x))
  <2>1. CASE ClearBegin(l)
    <3>1. AnyTopic \in ClusterTopics
      BY <1>2 DEF AnyTopic
    <3> DEFINE r == Call("clear", "next", AnyTopic, {x \in ClusterTopics : subCnt[l][x] > 0})
    <3>2. call[l] = NoCall /\ call' = [call EXCEPT ![l] = r]
      BY <2>1 DEF ClearBegin
    <3>3. call[l].by = "none" /\ call[l].at = "idle"
      BY <3>2 DEF NoCall, Call
    <3>4. r \in Calls /\ r.by = "clear" /\ r.at = "next" /\ r.todo = {x \in ClusterTopics : subCnt[l][x] > 0}
      BY <3>1 DEF Call, Calls
    <3> HIDE DEF r
    <3>5. QED
      BY <3>2, <3>3, <3>4 DEF Wanted
  <2>2. CASE ClearNext(l)
    <3>1. PICK x \in call[l].todo : /\ ~LockHeld(x)
                                    /\ call' = [call EXCEPT ![l] = Call("clear", "remove", x, call[l].todo \ {x})]
      BY <2>2 DEF ClearNext
    <3> DEFINE r == Call("clear", "remove", x, call[l].todo \ {x})
    <3>2. call' = [call EXCEPT ![l] = r] /\ call[l].at = "next" /\ call[l].by = "clear"
      <4>1. call[l].at = "next" /\ call[l].by \in {"none", "bind", "unbind", "clear"}
        BY <1>2, <2>2 DEF ClearNext, Calls
      <4>2. QED
        BY <1>0, <3>1, <4>1 DEF CallsInv, BindSteps, UnbindSteps
    <3>3. x \in ClusterTopics /\ call[l].todo \subseteq ClusterTopics
      BY <1>2, <3>1 DEF Calls
    <3>4. r \in Calls /\ r.by = "clear" /\ r.at = "remove" /\ r.topic = x /\ r.todo = call[l].todo \ {x}
      BY <3>3 DEF Call, Calls, UnbindSteps
    <3> HIDE DEF r
    <3>5. QED
      BY <3>1, <3>2, <3>4 DEF Wanted
  <2>3. QED
    BY <2>1, <2>2
<1>4. /\ CallsInv' /\ LockInv' /\ call' \in [Listeners -> Calls]
      /\ call'[l] = r /\ \A k \in Listeners \ {l} : call'[k] = call[k]
      /\ \A k \in Listeners \ {l} : \A y : (Busy(k, y)' <=> Busy(k, y)) /\ (Binding(k, y)' <=> Binding(k, y))
  <2>1. /\ r.by = "none" <=> r.at = "idle"
        /\ r.by = "bind" <=> r.at \in BindSteps
        /\ r.at \notin {"make", "drop", "put"}
    BY <1>3 DEF BindSteps
  <2>2. QED
    BY <1>0, <1>1, <1>3, <2>1, CallsKept
<1>5. /\ \A y : (Busy(l, y)' <=> r.at = "remove" /\ y = r.topic) /\ ~Binding(l, y)'
      /\ \A y : ~Busy(l, y) /\ ~Binding(l, y)
  BY <1>3, <1>4 DEF Busy, Binding
<1>6. CallTypes'
  BY <1>0, <1>1, <1>4 DEF CallTypes
<1>7. CountInv'
  <2>1. \A k, y : Bound(k, y)' = Bound(k, y)
    BY <1>1 DEF Bound
  <2>2. QED
    BY <1>0, <1>1, <1>4, <1>5, <2>1 DEF CountInv
<1>8. MemberInv'
  <2>1. \A k \in Listeners \ {l}, y \in ClusterTopics : Wanted(k, y)' <=> Wanted(k, y)
    BY <1>1, <1>4 DEF Wanted
  <2>2. \A y \in ClusterTopics : ~Busy(l, y)' => (Wanted(l, y)' <=> Wanted(l, y))
    BY <1>1, <1>3, <1>4, <1>5 DEF Wanted
  <2>3. ASSUME NEW k \in Listeners, NEW y \in ClusterTopics
        PROVE  /\ Busy(k, y)' /\ call'[k].at \in {"make", "inner", "put", "drop", "unlisten"} => k \notin subscribers'[y]
               /\ Busy(k, y)' /\ call'[k].at = "listen" /\ y \notin torn' => k \in subscribers'[y]
               /\ ~Busy(k, y)' /\ k \in subscribers'[y] => Wanted(k, y)'
               /\ ~Busy(k, y)' /\ Wanted(k, y)' /\ y \notin torn' => k \in subscribers'[y]
    <3>1. CASE k = l
      BY <1>0, <1>1, <1>3, <1>4, <1>5, <2>2, <3>1 DEF MemberInv
    <3>2. CASE k # l
      BY <1>0, <1>1, <1>4, <2>1, <3>2 DEF MemberInv
    <3>3. QED
      BY <3>1, <3>2
  <2>4. QED
    BY <2>3 DEF MemberInv
<1>9. InnerInv'
  <2>1. \A y \in inner' \ torn' : subscribers'[y] = {} => \E k \in Listeners : Busy(k, y)' /\ call'[k].at = "put"
    <3> TAKE y \in inner' \ torn'
    <3> HAVE subscribers'[y] = {}
    <3>1. PICK k \in Listeners : Busy(k, y) /\ call[k].at = "put"
      BY <1>0, <1>1 DEF InnerInv
    <3>2. k # l
      BY <1>3, <3>1
    <3>3. QED
      BY <1>4, <3>1, <3>2
  <2>2. QED
    BY <1>0, <1>1, <1>3, <1>4, <2>1 DEF InnerInv
<1>10. ListenInv'
  <2>1. \A y : (Opening(y)' <=> Opening(y)) /\ (Closing(y)' <=> Closing(y))
    BY <1>3, <1>4, <1>5 DEF Opening, Closing
  <2>2. QED
    BY <1>0, <1>1, <2>1 DEF ListenInv
<1>11. QED
  BY <1>4, <1>6, <1>7, <1>8, <1>9, <1>10 DEF CallInv

\* ClearEnd: the service counts nothing any more and is in no map.
LEMMA ClearEndStep ==
    ASSUME RegTypes, CallInv, NEW l \in Listeners, ClearEnd(l)
    PROVE  CallInv'
<1>0. CallTypes /\ CallsInv /\ LockInv /\ CountInv /\ MemberInv /\ InnerInv /\ ListenInv
  BY DEF CallInv
<1>1. /\ call[l].at = "next" /\ call[l].todo = {} /\ call' = [call EXCEPT ![l] = NoCall]
      /\ callbacks' = {c \in callbacks : c.by[1] # l} /\ subCnt' = [subCnt EXCEPT ![l] = [x \in ClusterTopics |-> 0]]
      /\ UNCHANGED <<inner, subscribers, torn, subMap, listening, deaf, enable>>
  BY DEF ClearEnd, tables, natsVars
<1>2. call[l].by = "clear"
  <2>1. call[l].by \in {"none", "bind", "unbind", "clear"}
    BY <1>0 DEF CallTypes, Calls
  <2>2. QED
    BY <1>0, <1>1, <2>1 DEF CallsInv, BindSteps, UnbindSteps
<1>3. NoCall \in Calls /\ NoCall.by = "none" /\ NoCall.at = "idle"
  <2>1. call[l].topic \in ClusterTopics
    BY <1>0 DEF CallTypes, Calls
  <2>2. AnyTopic \in ClusterTopics
    BY <2>1 DEF AnyTopic
  <2>3. QED
    BY <2>2 DEF NoCall, Call, Calls
<1>4. /\ subCnt' \in [Listeners -> [ClusterTopics -> Nat]] /\ \A x \in ClusterTopics : subCnt'[l][x] = 0
      /\ \A k \in Listeners \ {l} : subCnt'[k] = subCnt[k]
  BY <1>0, <1>1 DEF CallTypes
<1>5. /\ CallsInv' /\ LockInv' /\ call' \in [Listeners -> Calls]
      /\ call'[l] = NoCall /\ \A k \in Listeners \ {l} : call'[k] = call[k]
      /\ \A k \in Listeners \ {l} : \A y : (Busy(k, y)' <=> Busy(k, y)) /\ (Binding(k, y)' <=> Binding(k, y))
  <2>1. NoCall.by = "bind" <=> NoCall.at \in BindSteps
    BY <1>3 DEF BindSteps
  <2>2. QED
    BY <1>0, <1>1, <1>3, <1>4, <2>1, CallsKept
<1>6. \A y : ~Busy(l, y)' /\ ~Binding(l, y)' /\ ~Busy(l, y) /\ ~Binding(l, y)
  BY <1>1, <1>2, <1>3, <1>5 DEF Busy, Binding
<1>7. CallTypes'
  BY <1>0, <1>1, <1>4, <1>5 DEF CallTypes
<1>8. CountInv'
  <2>1. \A y : Bound(l, y)' = {} /\ Cardinality(Bound(l, y)') = 0
    BY <1>1, FS_EmptySet DEF Bound
  <2>2. \A k \in Listeners \ {l} : \A y : Bound(k, y)' = Bound(k, y)
    BY <1>1 DEF Bound
  <2>3. ASSUME NEW k \in Listeners, NEW y \in ClusterTopics
        PROVE  /\ subCnt'[k][y] + (IF Binding(k, y)' THEN 1 ELSE 0) <= Cardinality(Bound(k, y)')
               /\ y \notin torn' => subCnt'[k][y] + (IF Binding(k, y)' THEN 1 ELSE 0) = Cardinality(Bound(k, y)')
    <3>1. CASE k = l
      BY <1>4, <1>6, <2>1, <3>1
    <3>2. CASE k # l
      BY <1>0, <1>1, <1>4, <1>5, <2>2, <3>2 DEF CountInv
    <3>3. QED
      BY <3>1, <3>2
  <2>4. QED
    BY <2>3 DEF CountInv
<1>9. MemberInv'
  <2>1. \A k \in Listeners \ {l}, y \in ClusterTopics : Wanted(k, y)' <=> Wanted(k, y)
    BY <1>1, <1>4, <1>5 DEF Wanted
  <2>2. \A y \in ClusterTopics : ~Wanted(l, y)' /\ l \notin subscribers[y]
    BY <1>0, <1>1, <1>2, <1>4, <1>6 DEF Wanted, MemberInv
  <2>3. QED
    BY <1>0, <1>1, <1>5, <1>6, <2>1, <2>2 DEF MemberInv
<1>10. InnerInv'
  <2>1. \A y \in inner' \ torn' : subscribers'[y] = {} => \E k \in Listeners : Busy(k, y)' /\ call'[k].at = "put"
    <3> TAKE y \in inner' \ torn'
    <3> HAVE subscribers'[y] = {}
    <3>1. PICK k \in Listeners : Busy(k, y) /\ call[k].at = "put"
      BY <1>0, <1>1 DEF InnerInv
    <3>2. QED
      BY <1>1, <1>5, <3>1
  <2>2. QED
    BY <1>0, <1>1, <1>3, <1>5, <2>1 DEF InnerInv
<1>11. ListenInv'
  <2>1. \A y : (Opening(y)' <=> Opening(y)) /\ (Closing(y)' <=> Closing(y))
    BY <1>5, <1>6 DEF Opening, Closing
  <2>2. QED
    BY <1>0, <1>1, <2>1 DEF ListenInv
<1>12. QED
  BY <1>5, <1>7, <1>8, <1>9, <1>10, <1>11 DEF CallInv

(***************************************************************************)
(* Binding and unbinding a callback of the cluster.                        *)
(***************************************************************************)
\* Steps that leave calls and tables alone, and the end of the connection.
LEMMA CallFrame ==
    ASSUME CallInv, UNCHANGED <<subCnt, call, inner, subscribers, torn, subMap>>,
           \A l \in Listeners, x \in ClusterTopics : Bound(l, x)' = Bound(l, x),
           UNCHANGED <<enable, listening, deaf>> \/ (~enable' /\ listening' = [x \in ClusterTopics |-> {}])
    PROVE  CallInv'
<1>0. CallTypes /\ CallsInv /\ LockInv /\ CountInv /\ MemberInv /\ InnerInv /\ ListenInv
  BY DEF CallInv
<1>1. \A l, x : (Busy(l, x)' <=> Busy(l, x)) /\ (Binding(l, x)' <=> Binding(l, x)) /\ (Wanted(l, x)' <=> Wanted(l, x))
  BY DEF Busy, Binding, Wanted
<1>2. \A x : (Opening(x)' <=> Opening(x)) /\ (Closing(x)' <=> Closing(x))
  BY <1>1 DEF Opening, Closing
<1>3. CallTypes' /\ CallsInv'
  BY <1>0 DEF CallTypes, CallsInv
<1>4. LockInv' /\ CountInv'
  BY <1>0, <1>1 DEF LockInv, CountInv
<1>5. MemberInv' /\ InnerInv'
  BY <1>0, <1>1 DEF MemberInv, InnerInv
<1>6. ListenInv'
  BY <1>0, <1>2 DEF ListenInv
<1>7. QED
  BY <1>3, <1>4, <1>5, <1>6 DEF CallInv

\* A callback is counted on or off and the service stays in the map.
LEMMA CountChanges ==
    ASSUME CallInv, NEW l \in Listeners, NEW x \in ClusterTopics, call[l] = NoCall,
           subCnt' \in [Listeners -> [ClusterTopics -> Nat]], subCnt[l][x] > 0, subCnt'[l][x] > 0,
           \A k \in Listeners, y \in ClusterTopics : k # l \/ y # x => subCnt'[k][y] = subCnt[k][y],
           CountInv', UNCHANGED <<call, inner, subscribers, torn, subMap, listening, deaf, enable>>
    PROVE  CallInv'
<1>0. CallTypes /\ CallsInv /\ LockInv /\ MemberInv /\ InnerInv /\ ListenInv
  BY DEF CallInv
<1>1. call[l].by = "none" /\ call[l].at = "idle"
  BY DEF NoCall, Call
<1>2. \A k, y : (Busy(k, y)' <=> Busy(k, y)) /\ (Binding(k, y)' <=> Binding(k, y))
  BY DEF Busy, Binding
<1>3. \A k \in Listeners, y \in ClusterTopics : Wanted(k, y)' <=> Wanted(k, y)
  BY <1>1 DEF Wanted
<1>4. CallTypes'
  BY <1>0 DEF CallTypes
<1>5. CallsInv'
  <2>1. ASSUME NEW k \in Listeners, call[k].by = "unbind" PROVE subCnt'[k][call[k].topic] = 0
    <3>1. k # l /\ call[k].topic \in ClusterTopics
      BY <1>0, <1>1, <2>1 DEF CallTypes, Calls
    <3>2. QED
      BY <1>0, <2>1, <3>1 DEF CallsInv
  <2>2. QED
    BY <1>0, <2>1 DEF CallsInv
<1>6. LockInv' /\ MemberInv' /\ InnerInv'
  BY <1>0, <1>2, <1>3 DEF LockInv, MemberInv, InnerInv
<1>7. ListenInv'
  <2>1. \A y : (Opening(y)' <=> Opening(y)) /\ (Closing(y)' <=> Closing(y))
    BY <1>2 DEF Opening, Closing
  <2>2. QED
    BY <1>0, <2>1 DEF ListenInv
<1>8. QED
  BY <1>4, <1>5, <1>6, <1>7 DEF CallInv

\* A call of the Bus begins, with the lock of its topic.
LEMMA CallBegins ==
    ASSUME CallInv, NEW l \in Listeners, NEW x \in ClusterTopics, NEW r \in Calls,
           call[l] = NoCall, ~LockHeld(x), call' = [call EXCEPT ![l] = r], r.topic = x,
           \/ r.by = "bind" /\ r.at \in {"make", "inner"} /\ subCnt[l][x] = 0
           \/ r.by = "unbind" /\ r.at = "remove",
           r.at = "make" => Shared(x),
           subCnt' \in [Listeners -> [ClusterTopics -> Nat]], subCnt'[l][x] = 0,
           \A k \in Listeners, y \in ClusterTopics : k # l \/ y # x => subCnt'[k][y] = subCnt[k][y],
           CountInv', UNCHANGED <<inner, subscribers, torn, subMap, listening, deaf, enable>>
    PROVE  CallInv'
<1>0. CallTypes /\ CallsInv /\ LockInv /\ MemberInv /\ InnerInv /\ ListenInv
  BY DEF CallInv
<1>1. call[l].by = "none" /\ call[l].at = "idle"
  BY DEF NoCall, Call
<1>2. \A k \in Listeners \ {l} : subCnt'[k] = subCnt[k]
  <2> TAKE k \in Listeners \ {l}
  <2>1. subCnt[k] \in [ClusterTopics -> Nat] /\ subCnt'[k] \in [ClusterTopics -> Nat]
    BY <1>0 DEF CallTypes
  <2>2. QED
    BY <2>1
<1>3. /\ CallsInv' /\ LockInv' /\ call' \in [Listeners -> Calls]
      /\ call'[l] = r /\ \A k \in Listeners \ {l} : call'[k] = call[k]
      /\ \A k \in Listeners \ {l} : \A y : (Busy(k, y)' <=> Busy(k, y)) /\ (Binding(k, y)' <=> Binding(k, y))
  <2>1. /\ r.by = "none" <=> r.at = "idle"
        /\ r.by = "bind" <=> r.at \in BindSteps
        /\ r.by = "unbind" => r.at \in UnbindSteps /\ subCnt'[l][r.topic] = 0
        /\ r.by # "clear" /\ r.at \notin {"drop", "put"}
    BY DEF BindSteps, UnbindSteps
  <2>2. QED
    BY <1>0, <1>2, <2>1, CallsKept
<1>4. /\ \A y : Busy(l, y)' <=> y = x
      /\ \A y : ~Busy(l, y) /\ ~Binding(l, y)
      /\ \A k \in Listeners : ~Busy(k, x)
  BY <1>1, <1>3 DEF Busy, Binding, LockHeld
<1>5. CallTypes'
  BY <1>0, <1>3 DEF CallTypes
<1>6. MemberInv'
  <2>1. \A k \in Listeners, y \in ClusterTopics : k # l \/ y # x => (Wanted(k, y)' <=> Wanted(k, y))
    BY <1>1, <1>3 DEF Wanted
  <2>2. r.at # "remove" => ~Wanted(l, x)
    BY DEF Wanted
  <2>3. r.at # "remove" => l \notin subscribers[x]
    BY <1>0, <1>4, <2>2 DEF MemberInv
  <2>4. ASSUME NEW k \in Listeners, NEW y \in ClusterTopics
        PROVE  /\ Busy(k, y)' /\ call'[k].at \in {"make", "inner", "put", "drop", "unlisten"} => k \notin subscribers'[y]
               /\ Busy(k, y)' /\ call'[k].at = "listen" /\ y \notin torn' => k \in subscribers'[y]
               /\ ~Busy(k, y)' /\ k \in subscribers'[y] => Wanted(k, y)'
               /\ ~Busy(k, y)' /\ Wanted(k, y)' /\ y \notin torn' => k \in subscribers'[y]
    <3>1. CASE k = l
      BY <1>0, <1>3, <1>4, <2>1, <2>3, <3>1 DEF MemberInv
    <3>2. CASE k # l
      BY <1>0, <1>3, <2>1, <3>2 DEF MemberInv
    <3>3. QED
      BY <3>1, <3>2
  <2>5. QED
    BY <2>4 DEF MemberInv
<1>7. InnerInv'
  <2>1. \A y \in inner' \ torn' : subscribers'[y] = {} => \E k \in Listeners : Busy(k, y)' /\ call'[k].at = "put"
    <3> TAKE y \in inner' \ torn'
    <3> HAVE subscribers'[y] = {}
    <3>1. PICK k \in Listeners : Busy(k, y) /\ call[k].at = "put"
      BY <1>0 DEF InnerInv
    <3>2. k # l
      BY <1>1, <3>1
    <3>3. QED
      BY <1>3, <3>1, <3>2
  <2>2. QED
    BY <1>0, <1>3, <2>1 DEF InnerInv
<1>8. ListenInv'
  <2>1. \A y : (Opening(y)' <=> Opening(y)) /\ (Closing(y)' <=> Closing(y))
    BY <1>1, <1>3, <1>4 DEF Opening, Closing
  <2>2. QED
    BY <1>0, <2>1 DEF ListenInv
<1>9. QED
  BY <1>3, <1>5, <1>6, <1>7, <1>8 DEF CallInv

\* A service registers for local topics, which the tables of the cluster do not hold, and for
\* topics of the cluster that its scope rebuilds exactly.
LEMMA TopicFacts ==
    ASSUME NEW l \in Listeners, NEW y \in ClusterTopics, followed = Group(y), NEW x \in TopicsOf(l)
    PROVE  /\ x \in BusTopics
           /\ x.scope = "local" => x \notin ClusterTopics /\ x = Local(x.type)
           /\ x.scope # "local" => x \in ClusterTopics
           /\ x.scope = "global" => x = Global(x.type)
           /\ x.scope = "server" => x = Server(x.type, Partition(l))
           /\ x.scope \notin {"local", "global", "server"} => x = Specific(x.type, x.of)
<1>1. followed.type \in Types
  BY DEF ClusterTopics, Global, Server, Specific, Group
<1>2. \A z \in ClusterTopics : z.scope # "local"
  BY DEF ClusterTopics, Global, Server, Specific
<1>3. CASE x = Local(followed.type)
  <2>1. x.scope = "local" /\ x.type = followed.type
    BY <1>3 DEF Local
  <2>2. QED
    BY <1>1, <1>2, <1>3, <2>1 DEF BusTopics
<1>4. CASE x \in ClusterTopics /\ (x.scope = "server" => x.of = Partition(l))
  BY <1>4 DEF BusTopics, ClusterTopics, Local, Global, Server, Specific
<1>5. QED
  BY <1>3, <1>4 DEF TopicsOf, GroupTopics

\* Bind and Unbind act on the table of their topic's scope.
LEMMA BindEffect ==
    ASSUME RegTypes, NEW h \in Handlers, NEW x \in TopicsOf(h[1]), NEW n \in Names, Bind(h, x, n)
    PROVE  /\ callbacks' = callbacks \cup {Callback(h, x, n)}
           /\ \/ x \in ClusterTopics /\ BindCluster(h, x, n)
              \/ x \notin ClusterTopics /\ UNCHANGED <<subCnt, call>>
<1>1. h[1] \in Listeners /\ \E y \in ClusterTopics : followed = Group(y)
  BY DEF Handlers, RegTypes
<1>2. CASE x.scope = "local"
  BY <1>1, <1>2, TopicFacts DEF Bind, BindHandler
<1>3. CASE x.scope # "local"
  <2>1. BindCluster(h, x, n)
    BY <1>1, <1>3, TopicFacts DEF Bind, BindGlobalHandler, BindServerHandler, BindSpecificHandler
  <2>2. QED
    BY <1>1, <1>3, <2>1, TopicFacts DEF BindCluster
<1>4. QED
  BY <1>2, <1>3

\* Unbind likewise.
LEMMA UnbindEffect ==
    ASSUME RegTypes, NEW h \in Handlers, NEW x \in TopicsOf(h[1]), NEW n \in Names, Unbind(h, x, n)
    PROVE  /\ callbacks' = callbacks \ {Callback(h, x, n)}
           /\ \/ x \in ClusterTopics /\ UnbindCluster(h, x, n)
              \/ x \notin ClusterTopics /\ UNCHANGED <<subCnt, call>>
<1>1. h[1] \in Listeners /\ \E y \in ClusterTopics : followed = Group(y)
  BY DEF Handlers, RegTypes
<1>2. CASE x.scope = "local"
  BY <1>1, <1>2, TopicFacts DEF Unbind, UnbindHandler
<1>3. CASE x.scope # "local"
  <2>1. UnbindCluster(h, x, n)
    BY <1>1, <1>3, TopicFacts DEF Unbind, UnbindGlobalHandler, UnbindServerHandler, UnbindSpecificHandler
  <2>2. QED
    BY <1>1, <1>3, <2>1, TopicFacts DEF UnbindCluster
<1>4. QED
  BY <1>2, <1>3
\* A new callback counts for its service and topic and for nothing else.
LEMMA BoundAdded ==
    ASSUME RegTypes, NEW h \in Handlers, NEW x, NEW n, Callback(h, x, n) \notin callbacks,
           callbacks' = callbacks \cup {Callback(h, x, n)}, NEW l, NEW y
    PROVE  /\ IsFiniteSet(Bound(l, y)) /\ Cardinality(Bound(l, y)) \in Nat
           /\ l = h[1] /\ y = x => Bound(l, y)' # {} /\ Cardinality(Bound(l, y)') = Cardinality(Bound(l, y)) + 1
           /\ l # h[1] \/ y # x => Bound(l, y)' = Bound(l, y)
<1>1. Bound(l, y) \subseteq callbacks /\ IsFiniteSet(callbacks)
  BY DEF Bound, RegTypes
<1>2. IsFiniteSet(Bound(l, y)) /\ Cardinality(Bound(l, y)) \in Nat
  BY <1>1, FS_Subset, FS_CardinalityType
<1>3. ASSUME l = h[1], y = x
      PROVE  Bound(l, y)' = Bound(l, y) \cup {Callback(h, x, n)} /\ Callback(h, x, n) \notin Bound(l, y)
  BY <1>3 DEF Bound, Callback
<1>4. ASSUME l # h[1] \/ y # x
      PROVE  Bound(l, y)' = Bound(l, y)
  BY <1>4 DEF Bound, Callback
<1>5. QED
  BY <1>2, <1>3, <1>4, FS_AddElement

\* A callback that goes is counted off.
LEMMA BoundRemoved ==
    ASSUME RegTypes, NEW h \in Handlers, NEW x, NEW n, Callback(h, x, n) \in callbacks,
           callbacks' = callbacks \ {Callback(h, x, n)}, NEW l, NEW y
    PROVE  /\ l = h[1] /\ y = x => /\ Cardinality(Bound(l, y)') = Cardinality(Bound(l, y)) - 1
                                   /\ Cardinality(Bound(l, y)') = 0 <=> Bound(l, y)' = {}
                                   /\ Cardinality(Bound(l, y)') \in Nat /\ Bound(l, y) # {}
           /\ l # h[1] \/ y # x => Bound(l, y)' = Bound(l, y)
<1>1. Bound(l, y) \subseteq callbacks /\ IsFiniteSet(callbacks)
  BY DEF Bound, RegTypes
<1>2. IsFiniteSet(Bound(l, y)) /\ Cardinality(Bound(l, y)) \in Nat
  BY <1>1, FS_Subset, FS_CardinalityType
<1>3. ASSUME l = h[1], y = x
      PROVE  Bound(l, y)' = Bound(l, y) \ {Callback(h, x, n)} /\ Callback(h, x, n) \in Bound(l, y)
  BY <1>3 DEF Bound, Callback
<1>4. ASSUME l # h[1] \/ y # x
      PROVE  Bound(l, y)' = Bound(l, y)
  BY <1>4 DEF Bound, Callback
<1>5. ASSUME l = h[1], y = x
      PROVE  IsFiniteSet(Bound(l, y)') /\ Cardinality(Bound(l, y)') = Cardinality(Bound(l, y)) - 1
  BY <1>2, <1>3, <1>5, FS_RemoveElement
<1>6. QED
  BY <1>2, <1>3, <1>4, <1>5, FS_EmptySet, FS_CardinalityType

\* Binding a callback of the cluster keeps the counts and the tables in line.
LEMMA BindCount ==
    ASSUME RegTypes, CallInv, NEW h \in Handlers, NEW x \in ClusterTopics, NEW n \in Names, BindCluster(h, x, n),
           call[h[1]] = NoCall, UNCHANGED <<inner, subscribers, torn, subMap, listening, deaf, enable>>
    PROVE  CallInv'
<1> DEFINE l == h[1]
<1>0. /\ l \in Listeners /\ callbacks' = callbacks \cup {Callback(h, x, n)}
      /\ subCnt \in [Listeners -> [ClusterTopics -> Nat]] /\ CountInv
      /\ call[l] = NoCall
  BY DEF Handlers, BindCluster, CallInv, CallTypes
<1>1. CASE Callback(h, x, n) \in callbacks
  <2>1. UNCHANGED <<callbacks, subCnt, call>>
    BY <1>0, <1>1 DEF BindCluster
  <2>2. \A k, y : Bound(k, y)' = Bound(k, y)
    BY <2>1 DEF Bound
  <2>3. QED
    BY <2>1, <2>2, CallFrame
<1>2. CASE Callback(h, x, n) \notin callbacks
  <2>1. \A k, y : /\ Cardinality(Bound(k, y)) \in Nat
                  /\ k = l /\ y = x => Cardinality(Bound(k, y)') = Cardinality(Bound(k, y)) + 1
                  /\ k # l \/ y # x => Bound(k, y)' = Bound(k, y)
    BY <1>0, <1>2, BoundAdded
  <2>2. \A y : ~Binding(l, y)
    BY <1>0 DEF Binding, NoCall, Call
  <2>3. subCnt[l][x] \in Nat
    BY <1>0
  <2>4. CASE subCnt[l][x] > 0
    <3>1. subCnt' = [subCnt EXCEPT ![l][x] = @ + 1] /\ UNCHANGED call
      BY <1>2, <2>4 DEF BindCluster
    <3> HIDE DEF l
    <3>2. /\ subCnt' \in [Listeners -> [ClusterTopics -> Nat]] /\ subCnt'[l][x] = subCnt[l][x] + 1
          /\ \A k \in Listeners, y \in ClusterTopics : k # l \/ y # x => subCnt'[k][y] = subCnt[k][y]
      BY <1>0, <3>1
    <3>3. \A k, y : Binding(k, y)' <=> Binding(k, y)
      BY <3>1 DEF Binding
    <3>4. CountInv'
      BY <1>0, <2>1, <2>2, <2>3, <3>2, <3>3 DEF CountInv
    <3>5. QED
      BY <1>0, <2>3, <2>4, <3>1, <3>2, <3>4, CountChanges
  <2>5. CASE subCnt[l][x] = 0
    <3> DEFINE r == Call("bind", IF Shared(x) /\ Group(x) \notin outer THEN "make" ELSE "inner", x, {})
    <3>1. ~LockHeld(x) /\ call' = [call EXCEPT ![l] = r] /\ UNCHANGED subCnt
      BY <1>2, <2>5 DEF BindCluster, SubscribeBegin
    <3>2. /\ r \in Calls /\ r.by = "bind" /\ r.topic = x /\ r.at \in {"make", "inner"} /\ (r.at = "make" => Shared(x))
      BY DEF Call, Calls, BindSteps
    <3> HIDE DEF l, r
    <3>3. call'[l] = r /\ \A k \in Listeners \ {l} : call'[k] = call[k]
      BY <1>0, <3>1 DEF CallInv, CallTypes
    <3>4. /\ \A y : Binding(l, y)' <=> y = x
          /\ \A k \in Listeners \ {l} : \A y : Binding(k, y)' <=> Binding(k, y)
      BY <3>2, <3>3 DEF Binding
    <3>5. CountInv'
      <4>1. ASSUME NEW k \in Listeners, NEW y \in ClusterTopics
            PROVE  /\ subCnt'[k][y] + (IF Binding(k, y)' THEN 1 ELSE 0) <= Cardinality(Bound(k, y)')
                   /\ y \notin torn' => subCnt'[k][y] + (IF Binding(k, y)' THEN 1 ELSE 0) = Cardinality(Bound(k, y)')
        <5>1. /\ subCnt[k][y] + (IF Binding(k, y) THEN 1 ELSE 0) <= Cardinality(Bound(k, y))
              /\ y \notin torn => subCnt[k][y] + (IF Binding(k, y) THEN 1 ELSE 0) = Cardinality(Bound(k, y))
              /\ subCnt[k][y] \in Nat
          BY <1>0 DEF CountInv
        <5>2. CASE k = l /\ y = x
          BY <2>1, <2>2, <3>1, <3>4, <5>1, <5>2
        <5>3. CASE k # l \/ y # x
          BY <2>1, <2>2, <3>1, <3>4, <5>1, <5>3
        <5>4. QED
          BY <5>2, <5>3
      <4>2. QED
        BY <4>1 DEF CountInv
    <3>6. QED
      BY <1>0, <2>5, <3>1, <3>2, <3>5, CallBegins
  <2>6. QED
    BY <2>3, <2>4, <2>5
<1>3. QED
  BY <1>1, <1>2

\* So does taking one back.
LEMMA UnbindCount ==
    ASSUME RegTypes, CallInv, NEW h \in Handlers, NEW x \in ClusterTopics, NEW n \in Names, UnbindCluster(h, x, n),
           call[h[1]] = NoCall, UNCHANGED <<inner, subscribers, torn, subMap, listening, deaf, enable>>
    PROVE  CallInv'
<1> DEFINE l == h[1]
<1>0. /\ l \in Listeners /\ subCnt \in [Listeners -> [ClusterTopics -> Nat]] /\ CountInv /\ call[l] = NoCall
  BY DEF Handlers, CallInv, CallTypes
<1>1. CASE Callback(h, x, n) \notin callbacks
  <2>1. UNCHANGED <<callbacks, subCnt, call>>
    BY <1>1 DEF UnbindCluster
  <2>2. \A k, y : Bound(k, y)' = Bound(k, y)
    BY <2>1 DEF Bound
  <2>3. QED
    BY <2>1, <2>2, CallFrame
<1>2. CASE Callback(h, x, n) \in callbacks
  <2>1. \A k, y : /\ k = l /\ y = x => /\ Cardinality(Bound(k, y)') = Cardinality(Bound(k, y)) - 1
                                       /\ Cardinality(Bound(k, y)') \in Nat
                  /\ k # l \/ y # x => Bound(k, y)' = Bound(k, y)
                  /\ Cardinality(Bound(k, y)) \in Nat
    BY <1>2, BoundRemoved, BoundFinite DEF UnbindCluster
  <2>2. \A y : ~Binding(l, y)
    BY <1>0 DEF Binding, NoCall, Call
  <2>3. /\ subCnt' = [subCnt EXCEPT ![l][x] = IF @ > 1 THEN @ - 1 ELSE 0]
        /\ IF subCnt[l][x] > 1 THEN UNCHANGED call
           ELSE ~LockHeld(x) /\ call' = [call EXCEPT ![l] = Call("unbind", "remove", x, {})]
    BY <1>2 DEF UnbindCluster
  <2> HIDE DEF l
  <2>4. /\ subCnt[l][x] \in Nat /\ subCnt' \in [Listeners -> [ClusterTopics -> Nat]]
        /\ subCnt'[l][x] = (IF subCnt[l][x] > 1 THEN subCnt[l][x] - 1 ELSE 0)
        /\ \A k \in Listeners, y \in ClusterTopics : k # l \/ y # x => subCnt'[k][y] = subCnt[k][y]
    <3>1. subCnt[l][x] \in Nat
      BY <1>0
    <3>2. QED
      BY <1>0, <2>3, <3>1
  <2>5. ASSUME \A k \in Listeners, y \in ClusterTopics : Binding(k, y)' <=> Binding(k, y)
        PROVE  CountInv'
    <3>1. ASSUME NEW k \in Listeners, NEW y \in ClusterTopics
          PROVE  /\ subCnt'[k][y] + (IF Binding(k, y)' THEN 1 ELSE 0) <= Cardinality(Bound(k, y)')
                 /\ y \notin torn' => subCnt'[k][y] + (IF Binding(k, y)' THEN 1 ELSE 0) = Cardinality(Bound(k, y)')
      <4>1. /\ subCnt[k][y] + (IF Binding(k, y) THEN 1 ELSE 0) <= Cardinality(Bound(k, y))
            /\ y \notin torn => subCnt[k][y] + (IF Binding(k, y) THEN 1 ELSE 0) = Cardinality(Bound(k, y))
        BY <1>0 DEF CountInv
      <4>2. CASE k = l /\ y = x
        BY <2>1, <2>2, <2>4, <2>5, <4>1, <4>2
      <4>3. CASE k # l \/ y # x
        BY <2>1, <2>4, <2>5, <4>1, <4>3
      <4>4. QED
        BY <4>2, <4>3
    <3>2. QED
      BY <3>1 DEF CountInv
  <2>6. CASE subCnt[l][x] > 1
    <3>1. UNCHANGED call
      BY <2>3, <2>6
    <3>2. CountInv'
      BY <2>5, <3>1 DEF Binding
    <3>3. subCnt[l][x] > 0 /\ subCnt'[l][x] > 0
      BY <2>4, <2>6
    <3>4. QED
      BY <1>0, <2>4, <3>1, <3>2, <3>3, CountChanges
  <2>7. CASE ~(subCnt[l][x] > 1)
    <3> DEFINE r == Call("unbind", "remove", x, {})
    <3>1. ~LockHeld(x) /\ call' = [call EXCEPT ![l] = r]
      BY <2>3, <2>7
    <3>2. r \in Calls /\ r.by = "unbind" /\ r.topic = x /\ r.at = "remove"
      BY DEF Call, Calls, UnbindSteps
    <3> HIDE DEF r
    <3>3. call'[l] = r /\ \A k \in Listeners \ {l} : call'[k] = call[k]
      BY <1>0, <3>1 DEF CallInv, CallTypes
    <3>4. CountInv'
      BY <2>2, <2>5, <3>2, <3>3 DEF Binding
    <3>5. subCnt'[l][x] = 0
      BY <2>4, <2>7
    <3>6. QED
      BY <1>0, <2>4, <3>1, <3>2, <3>4, <3>5, CallBegins
  <2>8. QED
    BY <2>6, <2>7
<1>3. QED
  BY <1>1, <1>2

(***************************************************************************)
(* What a handler has noted.                                               *)
(***************************************************************************)
\* A set of indices has a least one.
LEMMA LeastIndex ==
    ASSUME NEW S \in SUBSET Nat, S # {}
    PROVE  Min(S) \in S
<1> DEFINE R == {ss \in Nat \X Nat : ss[1] < ss[2]}
<1>1. IsWellFoundedOn(R, Nat)
  BY NatLessThanWellFounded DEF OpToRel
<1>2. PICK m \in S : \A y \in S : ~(<<y, m>> \in R)
  BY <1>1, WFMin
<1>3. \A y \in S : m =< y
  <2> TAKE y \in S
  <2>1. y \in Nat /\ m \in Nat /\ ~(y < m)
    BY <1>2
  <2>2. QED
    BY <2>1
<1>4. QED
  BY <1>3 DEF Min

\* RemoveFirstReg takes at most one entry, and only one that equals r.
LEMMA RemoveFirstFacts ==
    ASSUME NEW S, NEW s \in Seq(S), NEW r
    PROVE  /\ RemoveFirstReg(s, r) \in Seq(S)
           /\ \A i \in 1..Len(RemoveFirstReg(s, r)) : \E j \in 1..Len(s) : RemoveFirstReg(s, r)[i] = s[j]
           /\ \A i \in 1..Len(s) : s[i] # r => \E j \in 1..Len(RemoveFirstReg(s, r)) : RemoveFirstReg(s, r)[j] = s[i]
<1>1. CASE r \notin Range(s)
  <2>1. RemoveFirstReg(s, r) = s
    BY <1>1 DEF RemoveFirstReg
  <2>2. \A i \in 1..Len(s) : \E j \in 1..Len(s) : s[j] = s[i] /\ s[i] = s[j]
    OBVIOUS
  <2>3. /\ Len(RemoveFirstReg(s, r)) = Len(s) /\ RemoveFirstReg(s, r) \in Seq(S)
        /\ \A i : RemoveFirstReg(s, r)[i] = s[i]
    BY <2>1
  <2>4. QED
    BY <2>2, <2>3, Zenon
<1>2. CASE r \in Range(s)
  <2> DEFINE k == Min({i \in 1..Len(s) : s[i] = r})
             q == RemoveAt(s, k)
  <2>1. k \in 1..Len(s) /\ s[k] = r
    <3> DEFINE T == {i \in 1..Len(s) : s[i] = r}
    <3>1. T # {} /\ T \in SUBSET Nat
      BY <1>2 DEF Range
    <3> HIDE DEF T
    <3>2. Min(T) \in T
      BY <3>1, LeastIndex
    <3>3. QED
      BY <3>2 DEF T
  <2> HIDE DEF k
  <2>2. /\ q \in Seq(S) /\ Len(q) = Len(s) - 1
        /\ \A i \in 1..Len(q) : q[i] = IF i < k THEN s[i] ELSE s[i + 1]
    <3> DEFINE a == SubSeq(s, 1, k - 1)
               b == SubSeq(s, k + 1, Len(s))
    <3>1. a \in Seq(S) /\ Len(a) = k - 1 /\ \A i \in 1..(k - 1) : a[i] = s[i]
      BY <2>1
    <3>2. b \in Seq(S) /\ Len(b) = Len(s) - k /\ \A i \in 1..(Len(s) - k) : b[i] = s[k + i]
      BY <2>1
    <3>3. q = a \o b
      BY DEF RemoveAt
    <3> HIDE DEF a, b, q
    <3>4. /\ q \in Seq(S) /\ Len(q) = Len(s) - 1
          /\ \A i \in 1..Len(q) : q[i] = IF i <= k - 1 THEN a[i] ELSE b[i - (k - 1)]
      <4>1. a \in Seq(S) /\ b \in Seq(S) /\ q = a \o b
        BY <3>1, <3>2, <3>3
      <4>2. /\ q \in Seq(S) /\ Len(q) = Len(a) + Len(b)
            /\ \A i \in 1..(Len(a) + Len(b)) : q[i] = IF i <= Len(a) THEN a[i] ELSE b[i - Len(a)]
        BY <4>1
      <4>3. QED
        BY <2>1, <3>1, <3>2, <4>2
    <3>5. ASSUME NEW i \in 1..Len(q)
          PROVE  q[i] = IF i < k THEN s[i] ELSE s[i + 1]
      <4>1. CASE i < k
        BY <2>1, <3>1, <3>4, <4>1, SMTT(30)
      <4>2. CASE i >= k
        <5>1. i - (k - 1) \in 1..(Len(s) - k) /\ k + (i - (k - 1)) = i + 1
          BY <2>1, <3>4, <4>2
        <5>2. QED
          BY <2>1, <3>2, <3>4, <4>2, <5>1
      <4>3. QED
        BY <2>1, <4>1, <4>2
    <3>6. QED
      BY <3>4, <3>5
  <2>3. RemoveFirstReg(s, r) = q
    BY <1>2 DEF RemoveFirstReg, k
  <2> HIDE DEF q
  <2>4. ASSUME NEW i \in 1..Len(q)
        PROVE  \E j \in 1..Len(s) : q[i] = s[j]
    BY <2>1, <2>2
  <2>5. ASSUME NEW i \in 1..Len(s), s[i] # r
        PROVE  \E j \in 1..Len(q) : q[j] = s[i]
    <3>1. CASE i < k
      BY <2>1, <2>2, <3>1
    <3>2. CASE i > k
      <4>1. i - 1 \in 1..Len(q) /\ q[i - 1] = s[i]
        BY <2>1, <2>2, <3>2
      <4>2. QED
        BY <4>1
    <3>3. QED
      BY <2>1, <2>5, <3>1, <3>2
  <2>6. QED
    BY <2>2, <2>3, <2>4, <2>5
<1>3. QED
  BY <1>1, <1>2

(***************************************************************************)
(* The steps of the handlers.                                              *)
(***************************************************************************)
\* Steps that leave the registrations, calls and tables alone, and the end of the connection.
LEMMA SubscriptionFrame ==
    ASSUME SubscriptionInv, UNCHANGED <<registry, followed, call, inner, subscribers, torn, subMap>>,
           UNCHANGED <<enable, listening, deaf>> \/ (~enable' /\ listening' = [x \in ClusterTopics |-> {}])
    PROVE  SubscriptionInv'
<1>1. UNCHANGED <<callbacks, subCnt, regs, handler>>
  BY DEF registry
<1>2. \A l : TopicsOf(l)' = TopicsOf(l)
  BY DEF TopicsOf
<1>3. RegTypes' /\ RegsInv'
  BY <1>1, <1>2 DEF SubscriptionInv, RegTypes, RegsInv
<1>4. \A l, x : Bound(l, x)' = Bound(l, x)
  BY <1>1 DEF Bound
<1>5. CallInv'
  BY <1>1, <1>4, CallFrame DEF SubscriptionInv
<1>6. QED
  BY <1>3, <1>5 DEF SubscriptionInv

\* Register notes the callback and binds it.
LEMMA RegisterStep ==
    ASSUME SubscriptionInv, NEW h \in Handlers, NEW x \in TopicsOf(h[1]), NEW n \in Names, Register(h, x, n)
    PROVE  SubscriptionInv'
<1>1. /\ RegTypes /\ RegsInv /\ CallInv /\ call[h[1]] = NoCall
      /\ handler[h] = "live" /\ regs' = [regs EXCEPT ![h] = Append(@, Reg(x, n))] /\ Bind(h, x, n)
      /\ UNCHANGED <<handler, followed, inner, subscribers, torn, subMap, listening, deaf, enable>>
  BY DEF SubscriptionInv, Register, tables, natsVars
<1>2. /\ callbacks' = callbacks \cup {Callback(h, x, n)}
      /\ \/ x \in ClusterTopics /\ BindCluster(h, x, n)
         \/ x \notin ClusterTopics /\ UNCHANGED <<subCnt, call>>
  BY <1>1, BindEffect
<1>3. x \in BusTopics
  <2>1. h[1] \in Listeners /\ \E y \in ClusterTopics : followed = Group(y)
    BY <1>1 DEF Handlers, RegTypes
  <2>2. QED
    BY <2>1, TopicFacts
<1>4. CallInv'
  <2>1. CASE x \in ClusterTopics /\ BindCluster(h, x, n)
    BY <1>1, <2>1, BindCount
  <2>2. CASE x \notin ClusterTopics /\ UNCHANGED <<subCnt, call>>
    <3>1. \A l, y : y \in ClusterTopics => Bound(l, y)' = Bound(l, y)
      BY <1>2, <2>2 DEF Bound, Callback
    <3>2. QED
      BY <1>1, <2>2, <3>1, CallFrame
  <2>3. QED
    BY <1>2, <2>1, <2>2
<1>5. RegTypes'
  <2>1. Callback(h, x, n) \in [by : Handlers, topic : BusTopics, name : Names]
    BY <1>3 DEF Callback
  <2>2. Reg(x, n) \in [topic : BusTopics, name : Names]
    BY <1>3 DEF Reg
  <2>3. regs' \in [Handlers -> Seq([topic : BusTopics, name : Names])]
    <3>1. /\ regs[h] \in Seq([topic : BusTopics, name : Names])
          /\ regs \in [Handlers -> Seq([topic : BusTopics, name : Names])]
      BY <1>1 DEF RegTypes
    <3>2. Append(regs[h], Reg(x, n)) \in Seq([topic : BusTopics, name : Names])
      BY <2>2, <3>1
    <3>3. QED
      BY <1>1, <3>1, <3>2
  <2>4. callbacks' \subseteq [by : Handlers, topic : BusTopics, name : Names] /\ IsFiniteSet(callbacks')
    BY <1>1, <1>2, <2>1, FS_AddElement DEF RegTypes
  <2>5. QED
    BY <1>1, <1>4, <2>3, <2>4 DEF RegTypes
<1>6. RegsInv'
  <2>1. regs[h] \in Seq([topic : BusTopics, name : Names]) /\ regs \in [Handlers -> Seq([topic : BusTopics, name : Names])]
    BY <1>1 DEF RegTypes
  <2>2. /\ Len(regs'[h]) = Len(regs[h]) + 1 /\ regs'[h][Len(regs[h]) + 1] = Reg(x, n)
        /\ \A i \in 1..Len(regs[h]) : regs'[h][i] = regs[h][i]
        /\ \A g \in Handlers : g # h => regs'[g] = regs[g]
    BY <1>1, <2>1
  <2>3. ASSUME NEW g \in Handlers, NEW i \in 1..Len(regs'[g])
        PROVE  regs'[g][i].topic \in TopicsOf(g[1])'
    <3>1. TopicsOf(g[1])' = TopicsOf(g[1])
      BY <1>1 DEF TopicsOf
    <3>2. CASE g = h /\ i = Len(regs[h]) + 1
      BY <2>2, <3>1, <3>2 DEF Reg
    <3>3. CASE g # h \/ i # Len(regs[h]) + 1
      <4>1. i \in 1..Len(regs[g]) /\ regs'[g][i] = regs[g][i]
        BY <2>1, <2>2, <2>3, <3>3
      <4>2. QED
        BY <1>1, <3>1, <4>1 DEF RegsInv
    <3>4. QED
      BY <3>2, <3>3
  <2>4. ASSUME NEW c \in callbacks'
        PROVE  \E i \in 1..Len(regs'[c.by]) : regs'[c.by][i] = Reg(c.topic, c.name)
    <3>1. CASE c \in callbacks
      <4>1. c.by \in Handlers
        BY <1>1, <3>1 DEF RegTypes
      <4>2. PICK i \in 1..Len(regs[c.by]) : regs[c.by][i] = Reg(c.topic, c.name)
        BY <1>1, <3>1 DEF RegsInv
      <4>3. i \in 1..Len(regs'[c.by]) /\ regs'[c.by][i] = regs[c.by][i]
        BY <2>1, <2>2, <4>1, <4>2, SMTT(30)
      <4>4. QED
        BY <4>2, <4>3
    <3>2. CASE c = Callback(h, x, n)
      <4>1. c.by = h /\ c.topic = x /\ c.name = n
        BY <3>2 DEF Callback
      <4>2. Len(regs[h]) + 1 \in 1..Len(regs'[h])
        BY <2>1, <2>2
      <4>3. QED
        BY <2>2, <4>1, <4>2
    <3>3. QED
      BY <1>2, <2>4, <3>1, <3>2
  <2>5. ASSUME NEW g \in Handlers, handler'[g] = "dead"
        PROVE  regs'[g] = <<>>
    BY <1>1, <2>2, <2>5 DEF RegsInv
  <2>6. QED
    BY <2>3, <2>4, <2>5 DEF RegsInv
<1>7. QED
  BY <1>4, <1>5, <1>6 DEF SubscriptionInv

\* A callback goes, and with it only entries that note it.
LEMMA UnbindStep ==
    ASSUME SubscriptionInv, NEW h \in Handlers, NEW x \in TopicsOf(h[1]), NEW n \in Names, Unbind(h, x, n),
           NEW s \in Seq([topic : BusTopics, name : Names]), regs' = [regs EXCEPT ![h] = s],
           \A i \in 1..Len(s) : \E j \in 1..Len(regs[h]) : s[i] = regs[h][j],
           \A j \in 1..Len(regs[h]) : regs[h][j] # Reg(x, n) => \E i \in 1..Len(s) : s[i] = regs[h][j],
           handler[h] # "dead", call[h[1]] = NoCall,
           UNCHANGED <<handler, followed, inner, subscribers, torn, subMap, listening, deaf, enable>>
    PROVE  SubscriptionInv'
<1>1. RegTypes /\ RegsInv /\ CallInv
  BY DEF SubscriptionInv
<1>2. /\ callbacks' = callbacks \ {Callback(h, x, n)}
      /\ \/ x \in ClusterTopics /\ UnbindCluster(h, x, n)
         \/ x \notin ClusterTopics /\ UNCHANGED <<subCnt, call>>
  BY <1>1, UnbindEffect
<1>3. CallInv'
  <2>1. CASE x \in ClusterTopics /\ UnbindCluster(h, x, n)
    BY <1>1, <2>1, UnbindCount
  <2>2. CASE x \notin ClusterTopics /\ UNCHANGED <<subCnt, call>>
    <3>1. \A l, y : y \in ClusterTopics => Bound(l, y)' = Bound(l, y)
      BY <1>2, <2>2 DEF Bound, Callback
    <3>2. QED
      BY <1>1, <2>2, <3>1, CallFrame
  <2>3. QED
    BY <1>2, <2>1, <2>2
<1>4. regs \in [Handlers -> Seq([topic : BusTopics, name : Names])] /\ regs'[h] = s /\ \A g \in Handlers : g # h => regs'[g] = regs[g]
  BY <1>1 DEF RegTypes
<1>5. RegTypes'
  <2>1. callbacks' \subseteq [by : Handlers, topic : BusTopics, name : Names] /\ IsFiniteSet(callbacks')
    BY <1>1, <1>2, FS_RemoveElement DEF RegTypes
  <2>2. regs' \in [Handlers -> Seq([topic : BusTopics, name : Names])]
    BY <1>4
  <2>3. QED
    BY <1>1, <1>3, <2>1, <2>2 DEF RegTypes
<1>6. RegsInv'
  <2>1. ASSUME NEW g \in Handlers, NEW i \in 1..Len(regs'[g])
        PROVE  regs'[g][i].topic \in TopicsOf(g[1])'
    <3>1. TopicsOf(g[1])' = TopicsOf(g[1])
      BY DEF TopicsOf
    <3>2. PICK j \in 1..Len(regs[g]) : regs'[g][i] = regs[g][j]
      <4>1. CASE g = h
        BY <1>4, <4>1
      <4>2. CASE g # h
        BY <1>4, <4>2
      <4>3. QED
        BY <4>1, <4>2
    <3>3. QED
      BY <1>1, <3>1, <3>2 DEF RegsInv
  <2>2. ASSUME NEW c \in callbacks'
        PROVE  \E i \in 1..Len(regs'[c.by]) : regs'[c.by][i] = Reg(c.topic, c.name)
    <3>1. c \in callbacks /\ c # Callback(h, x, n) /\ c \in [by : Handlers, topic : BusTopics, name : Names]
      BY <1>1, <1>2 DEF RegTypes
    <3>2. PICK j \in 1..Len(regs[c.by]) : regs[c.by][j] = Reg(c.topic, c.name)
      BY <1>1, <3>1 DEF RegsInv
    <3>3. CASE c.by = h
      <4>1. c = Callback(c.by, c.topic, c.name)
        BY <3>1 DEF Callback
      <4>2. c.topic # x \/ c.name # n
        BY <3>1, <3>3, <4>1
      <4>3. Reg(c.topic, c.name) # Reg(x, n)
        BY <4>2 DEF Reg
      <4>4. PICK i \in 1..Len(s) : s[i] = regs[h][j]
        BY <3>2, <3>3, <4>3
      <4>5. QED
        BY <1>4, <3>2, <3>3, <4>4
    <3>4. CASE c.by # h
      BY <1>4, <3>1, <3>2, <3>4
    <3>5. QED
      BY <3>3, <3>4
  <2>3. ASSUME NEW g \in Handlers, handler'[g] = "dead"
        PROVE  regs'[g] = <<>>
    BY <1>1, <1>4, <2>3 DEF RegsInv
  <2>4. QED
    BY <2>1, <2>2, <2>3 DEF RegsInv
<1>7. QED
  BY <1>3, <1>5, <1>6 DEF SubscriptionInv

\* Unregister takes one entry and the callback.
LEMMA UnregisterStep ==
    ASSUME SubscriptionInv, NEW h \in Handlers, NEW x \in TopicsOf(h[1]), NEW n \in Names, Unregister(h, x, n)
    PROVE  SubscriptionInv'
<1>1. PICK S : S = [topic : BusTopics, name : Names]
  OBVIOUS
<1>2. PICK q \in Seq(S) : q = regs[h]
  BY <1>1 DEF SubscriptionInv, RegTypes
<1>3. PICK s : s = RemoveFirstReg(q, Reg(x, n))
  OBVIOUS
<1>4. /\ handler[h] = "live" /\ regs' = [regs EXCEPT ![h] = s] /\ Unbind(h, x, n) /\ call[h[1]] = NoCall
      /\ UNCHANGED <<handler, followed, inner, subscribers, torn, subMap, listening, deaf, enable>>
  BY <1>2, <1>3 DEF Unregister, tables, natsVars
<1>5. /\ s \in Seq(S)
      /\ \A i \in 1..Len(s) : \E j \in 1..Len(q) : s[i] = q[j]
      /\ \A j \in 1..Len(q) : q[j] # Reg(x, n) => \E i \in 1..Len(s) : s[i] = q[j]
  BY <1>3, RemoveFirstFacts
<1>6. QED
  BY <1>1, <1>2, <1>4, <1>5, UnbindStep

\* UnregisterAll takes the first entry and its callback.
LEMMA UnregisterAllStep ==
    ASSUME SubscriptionInv, NEW h \in Handlers, UnregisterAll(h)
    PROVE  SubscriptionInv'
<1> DEFINE S == [topic : BusTopics, name : Names]
           s == Tail(regs[h])
           r == Head(regs[h])
<1>1. /\ handler[h] = "leaving" /\ regs[h] # <<>> /\ regs' = [regs EXCEPT ![h] = s] /\ Unbind(h, r.topic, r.name)
      /\ call[h[1]] = NoCall
      /\ UNCHANGED <<handler, followed, inner, subscribers, torn, subMap, listening, deaf, enable>>
  BY DEF UnregisterAll, tables, natsVars, busBounds
<1>2. regs[h] \in Seq(S)
  BY DEF SubscriptionInv, RegTypes
<1>3. /\ s \in Seq(S) /\ Len(s) = Len(regs[h]) - 1 /\ Len(regs[h]) > 0 /\ r = regs[h][1]
      /\ \A i \in 1..Len(s) : s[i] = regs[h][i + 1]
  BY <1>1, <1>2
<1>4. r \in S /\ r.topic \in TopicsOf(h[1]) /\ r.name \in Names /\ r = Reg(r.topic, r.name)
  <2>1. r \in S
    <3>1. 1 \in 1..Len(regs[h])
      BY <1>2, <1>3
    <3>2. QED
      BY <1>2, <1>3, <3>1, ElementType, ZenonT(40)
  <2>2. r.topic \in TopicsOf(h[1])
    BY <1>2, <1>3 DEF SubscriptionInv, RegsInv
  <2>3. QED
    BY <2>1, <2>2 DEF Reg
<1> HIDE DEF s, r
<1>5. \A i \in 1..Len(s) : \E j \in 1..Len(regs[h]) : s[i] = regs[h][j]
  <2> TAKE i \in 1..Len(s)
  <2>1. i + 1 \in 1..Len(regs[h]) /\ s[i] = regs[h][i + 1]
    BY <1>2, <1>3
  <2>2. QED
    BY <2>1
<1>6. ASSUME NEW j \in 1..Len(regs[h]), regs[h][j] # Reg(r.topic, r.name)
      PROVE  \E i \in 1..Len(s) : s[i] = regs[h][j]
  <2>1. j # 1
    BY <1>3, <1>4, <1>6
  <2>2. j - 1 \in 1..Len(s) /\ s[j - 1] = regs[h][j]
    BY <1>2, <1>3, <2>1
  <2>3. QED
    BY <2>2
<1>7. QED
  BY <1>1, <1>3, <1>4, <1>5, <1>6, UnbindStep, ZenonT(40)

\* A handler is destroyed once nothing is noted.
LEMMA DestroyStep ==
    ASSUME SubscriptionInv, NEW h \in Handlers, DestroyBegin(h) \/ DestroyEnd(h)
    PROVE  SubscriptionInv'
<1>1. /\ UNCHANGED <<callbacks, subCnt, regs, followed, call, inner, subscribers, torn, subMap, listening, deaf, enable>>
      /\ \E v \in {"leaving", "dead"} : handler' = [handler EXCEPT ![h] = v] /\ (v = "dead" => regs[h] = <<>>)
  BY DEF DestroyBegin, DestroyEnd, tables, natsVars, busBounds
<1>2. RegTypes'
  BY <1>1 DEF SubscriptionInv, RegTypes
<1>3. RegsInv'
  <2>1. \A l : TopicsOf(l)' = TopicsOf(l)
    BY <1>1 DEF TopicsOf
  <2>2. \A g \in Handlers : handler'[g] = "dead" => regs'[g] = <<>>
    BY <1>1 DEF SubscriptionInv, RegTypes, RegsInv
  <2>3. QED
    BY <1>1, <2>1, <2>2 DEF SubscriptionInv, RegsInv
<1>4. CallInv'
  <2>1. \A l, x : Bound(l, x)' = Bound(l, x)
    BY <1>1 DEF Bound
  <2>2. QED
    BY <1>1, <2>1, CallFrame DEF SubscriptionInv
<1>5. QED
  BY <1>2, <1>3, <1>4 DEF SubscriptionInv

\* A call of a processor, step by step.
LEMMA CallSteps ==
    ASSUME SubscriptionInv, NEW l \in Listeners, CallStep(l) \/ ClearBegin(l)
    PROVE  SubscriptionInv'
<1>1. RegTypes /\ RegsInv /\ CallInv
  BY DEF SubscriptionInv
<1>2. CallInv'
  BY <1>1, OuterStep, PanicStep, MakeInnerStep, PutStep, ListenStep, RemoveStep, UnlistenStep, ClearCallStep, ClearEndStep
  DEF CallStep
<1>3. /\ callbacks' \subseteq callbacks /\ UNCHANGED <<regs, handler, followed>>
  BY DEF CallStep, MakeOuter, Panic, MakeInner, PutSubscriber, Listen, RemoveSubscriber, DropOuter, Unlisten,
         ClearBegin, ClearNext, ClearEnd, registry, busBounds
<1>4. RegTypes' /\ RegsInv'
  <2>1. \A k : TopicsOf(k)' = TopicsOf(k)
    BY <1>3 DEF TopicsOf
  <2>2. RegsInv'
    BY <1>1, <1>3, <2>1 DEF RegsInv
  <2>3. IsFiniteSet(callbacks')
    BY <1>1, <1>3, FS_Subset DEF RegTypes
  <2>4. QED
    BY <1>1, <1>3, <2>2, <2>3 DEF RegTypes
<1>5. QED
  BY <1>2, <1>4 DEF SubscriptionInv

\* Every step keeps the tables of the processors and the bus in line with the callbacks.
LEMMA SubscriptionStep ==
    ASSUME SubscriptionInv, [BusNext]_busVars
    PROVE  SubscriptionInv'
<1>1. ASSUME NEW h \in Handlers, HandlerStep(h) PROVE SubscriptionInv'
  BY <1>1, RegisterStep, UnregisterStep, UnregisterAllStep, DestroyStep DEF HandlerStep
<1>2. ASSUME NEW l \in Listeners, CallStep(l) \/ ClearBegin(l) PROVE SubscriptionInv'
  BY <1>2, CallSteps
<1>3. ASSUME NEW e \in BusEvents, PublishStep(e) \/ \E x \in GroupTopics(followed) : Publish(e, x)
      PROVE  SubscriptionInv'
  <2>1. UNCHANGED <<registry, followed, call, tables, natsVars, enable>>
    BY <1>3 DEF PublishStep, Publish, PublishThrottled, ChooseNats, SendNats, SendClosed, SendLocal, AddToBatch, busBounds
  <2>2. UNCHANGED <<inner, subscribers, torn, subMap, listening, deaf>>
    BY <2>1 DEF tables, natsVars
  <2>3. QED
    BY <2>1, <2>2, SubscriptionFrame
<1>4. ASSUME (\E m \in inbox : NatsReceive(m)) \/ FlushStep \/ BatchLoopExit \/ StopBus PROVE SubscriptionInv'
  <2>1. UNCHANGED <<registry, followed, call, tables, natsVars, enable>>
    BY <1>4 DEF NatsReceive, FlushStep, BatchTick, FlushEvent, BatchLoopExit, StopBus, StopTicker, StopFlush, busBounds
  <2>2. UNCHANGED <<inner, subscribers, torn, subMap, listening, deaf>>
    BY <2>1 DEF tables, natsVars
  <2>3. QED
    BY <2>1, <2>2, SubscriptionFrame
<1>5. CASE StopNats
  <2>1. /\ UNCHANGED <<registry, followed, call, inner, subscribers, torn, subMap>> /\ ~enable'
        /\ listening' = [x \in ClusterTopics |-> {}]
    BY <1>5 DEF StopNats, tables, busBounds
  <2>2. QED
    BY <2>1, SubscriptionFrame
<1>6. CASE UNCHANGED busVars
  <2>1. UNCHANGED <<registry, followed, call, inner, subscribers, torn, subMap, enable, listening, deaf>>
    BY <1>6 DEF busVars, busBounds, tables, natsVars
  <2>2. QED
    BY <2>1, SubscriptionFrame
<1>7. QED
  BY <1>1, <1>2, <1>3, <1>4, <1>5, <1>6 DEF BusNext

(***************************************************************************)
(* Sequences of different events.                                          *)
(***************************************************************************)
\* The elements of the empty sequence, of a longer one and of a tail.
LEMMA RangeEmpty == Range(<<>>) = {} /\ IsInjective(<<>>)
  BY DEF Range, IsInjective

LEMMA RangeAppend ==
    ASSUME NEW S, NEW s \in Seq(S), NEW e \in S
    PROVE  /\ Append(s, e) \in Seq(S) \ {<<>>} /\ Range(Append(s, e)) = Range(s) \cup {e}
           /\ IsInjective(s) /\ e \notin Range(s) => IsInjective(Append(s, e))
<1> DEFINE q == Append(s, e)
<1>1. /\ q \in Seq(S) /\ Len(q) = Len(s) + 1 /\ DOMAIN q = 1..(Len(s) + 1) /\ DOMAIN s = 1..Len(s)
      /\ q[Len(s) + 1] = e /\ \A i \in 1..Len(s) : q[i] = s[i]
  OBVIOUS
<1> HIDE DEF q
<1>2. Range(q) = Range(s) \cup {e}
  <2>1. \A i \in DOMAIN q : q[i] \in Range(s) \cup {e}
    BY <1>1 DEF Range
  <2>2. \A i \in DOMAIN s : s[i] \in Range(q)
    BY <1>1 DEF Range
  <2>3. e \in Range(q)
    <3>1. Len(s) + 1 \in DOMAIN q
      BY <1>1
    <3>2. QED
      BY <1>1, <3>1 DEF Range
  <2>4. QED
    BY <2>1, <2>2, <2>3 DEF Range
<1>3. ASSUME IsInjective(s), e \notin Range(s)
      PROVE  IsInjective(q)
  <2>1. \A i \in DOMAIN s : s[i] # e
    BY <1>3 DEF Range
  <2>2. QED
    BY <1>1, <1>3, <2>1 DEF IsInjective
<1>4. QED
  BY <1>1, <1>2, <1>3 DEF q

LEMMA RangeTail ==
    ASSUME NEW S, NEW s \in Seq(S), s # <<>>
    PROVE  /\ Head(s) \in S /\ Tail(s) \in Seq(S) /\ Head(s) \in Range(s) /\ Range(Tail(s)) \subseteq Range(s)
           /\ Len(s) > 1 <=> Tail(s) # <<>>
           /\ IsInjective(s) => IsInjective(Tail(s)) /\ Range(Tail(s)) = Range(s) \ {Head(s)}
<1> DEFINE q == Tail(s)
<1>1. /\ q \in Seq(S) /\ Len(q) = Len(s) - 1 /\ DOMAIN q = 1..(Len(s) - 1) /\ DOMAIN s = 1..Len(s) /\ Len(s) \in Nat
      /\ Head(s) = s[1] /\ 1 \in DOMAIN s /\ \A i \in DOMAIN q : q[i] = s[i + 1] /\ i + 1 \in DOMAIN s
  OBVIOUS
<1>2. Head(s) \in S /\ (Len(s) > 1 <=> q # <<>>)
  OBVIOUS
<1> HIDE DEF q
<1>3. Head(s) \in Range(s) /\ Range(q) \subseteq Range(s)
  BY <1>1 DEF Range
<1>4. ASSUME IsInjective(s)
      PROVE  IsInjective(q) /\ Range(q) = Range(s) \ {Head(s)}
  <2>1. IsInjective(q)
    BY <1>1, <1>4 DEF IsInjective
  <2>2. \A i \in DOMAIN q : q[i] # Head(s)
    BY <1>1, <1>4 DEF IsInjective
  <2>3. \A i \in DOMAIN s : s[i] # Head(s) => s[i] \in Range(q)
    <3> TAKE i \in DOMAIN s
    <3> HAVE s[i] # Head(s)
    <3>1. i - 1 \in DOMAIN q /\ q[i - 1] = s[i]
      BY <1>1
    <3>2. QED
      BY <3>1 DEF Range
  <2>4. QED
    BY <1>3, <2>1, <2>2, <2>3 DEF Range
<1>5. QED
  BY <1>1, <1>2, <1>3, <1>4 DEF q

(***************************************************************************)
(* Where the events are.                                                   *)
(***************************************************************************)
\* An event keeps its topic once its caller has given it up, and no caller gets one back.
Answered == \A e \in BusEvents : /\ WithCaller(e)' => WithCaller(e)
                                 /\ ~WithCaller(e) => event'[e].topic = event[e].topic

\* Nothing is posted while events only leave their places.
LEMMA NonePosted ==
    ASSUME PostedInv, Answered, UNCHANGED posted, torn \subseteq torn', \A f \in BusEvents : Placed(f)' => Placed(f)
    PROVE  PostedInv'
<1>1. ASSUME NEW e \in BusEvents, NEW l \in Listeners
      PROVE  /\ WithCaller(e)' => posted'[e][l] = 0
             /\ event'[e].topic \notin torn' => posted'[e][l] = 0 \/ (posted'[e][l] = 1 /\ ~Placed(e)')
  <2>1. CASE WithCaller(e)
    BY <2>1 DEF PostedInv
  <2>2. CASE ~WithCaller(e)
    BY <2>2 DEF PostedInv, Answered
  <2>3. QED
    BY <2>1, <2>2
<1>2. QED
  BY <1>1 DEF PostedInv

\* An event is posted as it leaves its place.
LEMMA PostedOnce ==
    ASSUME EventTypes, PostedInv, Answered, UNCHANGED torn, NEW e \in BusEvents, NEW x, PostTo(e, x), ~WithCaller(e)',
           event'[e].topic = event[e].topic, event[e].topic \notin torn => Placed(e) /\ ~Placed(e)',
           \A f \in BusEvents : Placed(f)' => Placed(f)
    PROVE  PostedInv' /\ posted' \in [BusEvents -> [Listeners -> Nat]]
<1>1. /\ posted \in [BusEvents -> [Listeners -> Nat]]
      /\ posted' = [posted EXCEPT ![e] = [l \in Listeners |-> IF l \in subscribers[x] THEN posted[e][l] + 1 ELSE posted[e][l]]]
  BY DEF EventTypes, PostTo
<1>2. posted' \in [BusEvents -> [Listeners -> Nat]]
  BY <1>1
<1>3. ASSUME NEW f \in BusEvents, NEW l \in Listeners
      PROVE  /\ WithCaller(f)' => posted'[f][l] = 0
             /\ event'[f].topic \notin torn' => posted'[f][l] = 0 \/ (posted'[f][l] = 1 /\ ~Placed(f)')
  <2>1. CASE f = e
    <3>1. event[e].topic \notin torn => posted[e][l] = 0
      BY DEF PostedInv
    <3>2. event[e].topic \notin torn => posted'[e][l] \in {0, 1}
      BY <1>1, <3>1
    <3>3. QED
      BY <2>1, <3>2
  <2>2. CASE f # e
    <3>1. posted'[f][l] = posted[f][l]
      BY <1>1, <2>2
    <3>2. CASE WithCaller(f)
      BY <3>1, <3>2 DEF PostedInv
    <3>3. CASE ~WithCaller(f)
      BY <3>1, <3>3 DEF PostedInv, Answered
    <3>4. QED
      BY <3>2, <3>3
  <2>3. QED
    BY <2>1, <2>2
<1>4. QED
  BY <1>2, <1>3 DEF PostedInv

\* Events that leave their callers and NATS only.
LEMMA PlacesLeft ==
    ASSUME EventTypes, PlacesInv, Answered, UNCHANGED <<buffer, flushing>>, torn \subseteq torn', inbox' \subseteq inbox
    PROVE  PlacesInv' /\ \A e \in BusEvents : Placed(e)' => Placed(e)
<1>1. \A e \in BusEvents : (Buffered(e)' <=> Buffered(e)) /\ (InFlush(e)' <=> InFlush(e)) /\ (InNats(e)' => InNats(e))
  BY DEF Buffered, InFlush, InNats
<1>2. ASSUME NEW t \in Types
      PROVE  IsInjective(buffer'[t]) /\ \A e \in Range(buffer'[t]) : event'[e].topic.type = t
  <2>1. IsInjective(buffer[t]) /\ \A e \in Range(buffer[t]) : event[e].topic.type = t
    BY DEF PlacesInv
  <2>2. ASSUME NEW e \in Range(buffer[t]) PROVE event'[e].topic.type = t
    <3>1. e \in BusEvents /\ Buffered(e)
      BY DEF EventTypes, EventSeqs, Range, Buffered
    <3>2. ~WithCaller(e)
      BY <3>1 DEF PlacesInv
    <3>3. QED
      BY <2>1, <3>1, <3>2 DEF Answered
  <2>3. QED
    BY <2>1, <2>2
<1>3. ASSUME NEW m \in inbox', NEW o \in inbox', m[1] = o[1], event'[m[1]].topic \notin torn'
      PROVE  m = o
  <2>1. m[1] \in BusEvents /\ InNats(m[1])
    BY DEF EventTypes, InNats
  <2>2. ~WithCaller(m[1])
    BY <2>1 DEF PlacesInv
  <2>3. event[m[1]].topic \notin torn
    BY <1>3, <2>1, <2>2 DEF Answered
  <2>4. QED
    BY <1>3, <2>3 DEF PlacesInv
<1>4. PlacesInv'
  BY <1>1, <1>2, <1>3 DEF PlacesInv, Answered
<1>5. QED
  BY <1>1, <1>4 DEF Placed, Answered

(***************************************************************************)
(* The steps of the events.                                                *)
(***************************************************************************)
\* Steps that may make NATS drop what it has delivered.
LEMMA QuietEvents ==
    ASSUME EventInv, UNCHANGED <<event, buffer, flushing, posted>>, inbox' \subseteq inbox, torn \subseteq torn'
    PROVE  EventInv'
<1>1. EventTypes /\ PlacesInv /\ PostedInv
  BY DEF EventInv
<1>2. Answered
  BY DEF Answered, WithCaller
<1>3. PlacesInv' /\ \A e \in BusEvents : Placed(e)' => Placed(e)
  BY <1>1, <1>2, PlacesLeft
<1>4. PostedInv'
  BY <1>1, <1>2, <1>3, NonePosted
<1>5. EventTypes'
  BY <1>1 DEF EventTypes
<1>6. QED
  BY <1>3, <1>4, <1>5 DEF EventInv

\* Registrations and calls of the Bus move no event, but for what the end of a subscription drops.
LEMMA HandlerEvents ==
    ASSUME EventInv, NEW h \in Handlers, HandlerStep(h)
    PROVE  EventInv'
<1>1. UNCHANGED <<event, buffer, flushing, posted, inbox, torn>>
  BY DEF HandlerStep, Register, Unregister, DestroyBegin, UnregisterAll, DestroyEnd, delivery, batching, tables
<1>2. QED
  BY <1>1, QuietEvents

LEMMA CallEvents ==
    ASSUME EventInv, NEW l \in Listeners, CallStep(l) \/ ClearBegin(l)
    PROVE  EventInv'
<1>1. UNCHANGED <<event, buffer, flushing, posted>>
  BY DEF CallStep, MakeOuter, Panic, MakeInner, PutSubscriber, Listen, RemoveSubscriber, DropOuter, Unlisten,
         ClearBegin, ClearNext, ClearEnd, delivery, batching
<1>2. torn \subseteq torn'
  BY DEF CallStep, MakeOuter, Panic, MakeInner, PutSubscriber, Listen, RemoveSubscriber, DropOuter, Unlisten,
         ClearBegin, ClearNext, ClearEnd, Wipe, tables
<1>3. inbox' \subseteq inbox
  BY DEF CallStep, MakeOuter, Panic, MakeInner, PutSubscriber, Listen, RemoveSubscriber, DropOuter, Unlisten,
         ClearBegin, ClearNext, ClearEnd
<1>4. QED
  BY <1>1, <1>2, <1>3, QuietEvents

\* Nor do the steps of Stop, but for what the connection drops.
LEMMA RestEvents ==
    ASSUME EventInv, BatchLoopExit \/ StopNats \/ StopTicker \/ UNCHANGED busVars
    PROVE  EventInv'
<1>1. UNCHANGED <<event, buffer, flushing, posted, torn>> /\ inbox' \subseteq inbox
  BY DEF BatchLoopExit, StopNats, StopTicker, busVars, delivery, batching, tables
<1>2. QED
  BY <1>1, QuietEvents

\* A call keeps its event, gives it up, or gives it to the subscribers of the node.
LEMMA CallerEvents ==
    ASSUME EventInv, NEW e \in BusEvents,
           \/ \E x \in GroupTopics(followed) : Publish(e, x)
           \/ PublishThrottled(e) \/ ChooseNats(e) \/ SendClosed(e) \/ SendLocal(e)
    PROVE  EventInv'
<1>0. EventTypes /\ PlacesInv /\ PostedInv
  BY DEF EventInv
<1>1. /\ UNCHANGED <<buffer, flushing, inbox, torn>> /\ WithCaller(e)
      /\ \E r \in [at : {"batch", "send", "nats", "ok", "error"}, topic : ClusterTopics] : event' = [event EXCEPT ![e] = r]
  <2>1. CASE \E x \in GroupTopics(followed) : Publish(e, x)
    <3>1. PICK x \in ClusterTopics : Publish(e, x)
      BY <2>1 DEF GroupTopics
    <3>2. PICK a \in {"batch", "send"} : event' = [event EXCEPT ![e] = [topic |-> x, at |-> a]]
      BY <3>1 DEF Publish
    <3>3. [topic |-> x, at |-> a] \in [at : {"batch", "send", "nats", "ok", "error"}, topic : ClusterTopics]
      OBVIOUS
    <3>4. QED
      BY <3>1, <3>2, <3>3 DEF Publish, batching, tables, WithCaller
  <2>2. CASE PublishThrottled(e) \/ ChooseNats(e) \/ SendClosed(e) \/ SendLocal(e)
    <3>1. PICK a \in {"batch", "send", "nats", "ok", "error"} : Answer(e, a)
      BY <2>2 DEF PublishThrottled, ChooseNats, SendClosed, SendLocal
    <3>2. event[e] \in [at : {"no", "batch", "send", "nats", "ok", "error"}, topic : ClusterTopics]
      BY <1>0 DEF EventTypes
    <3>3. event' = [event EXCEPT ![e] = [event[e] EXCEPT !.at = a]]
      BY <3>1 DEF Answer
    <3>4. [event[e] EXCEPT !.at = a] \in [at : {"batch", "send", "nats", "ok", "error"}, topic : ClusterTopics]
      BY <3>2
    <3>5. UNCHANGED <<buffer, flushing, inbox, torn>> /\ WithCaller(e)
      BY <2>2 DEF PublishThrottled, ChooseNats, SendClosed, SendLocal, batching, tables, WithCaller
    <3>6. QED
      BY <3>3, <3>4, <3>5
  <2>3. QED
    BY <2>1, <2>2
<1>2. Answered
  BY <1>0, <1>1 DEF EventTypes, WithCaller, Answered
<1>3. PlacesInv' /\ \A f \in BusEvents : Placed(f)' => Placed(f)
  BY <1>0, <1>1, <1>2, PlacesLeft
<1>4. event' \in [BusEvents -> [at : {"no", "batch", "send", "nats", "ok", "error"}, topic : ClusterTopics]]
  BY <1>0, <1>1 DEF EventTypes
<1>5. PostedInv' /\ posted' \in [BusEvents -> [Listeners -> Nat]]
  <2>1. CASE SendLocal(e)
    <3>1. PICK x : PostTo(e, x)
      BY <2>1 DEF SendLocal, PublishLocally, publishGlobal, publishServer, publishSpecific
    <3>2. event'[e].at = "ok" /\ event'[e].topic = event[e].topic
      BY <1>0, <2>1 DEF SendLocal, Answer, EventTypes
    <3>3. ~WithCaller(e)' /\ Placed(e)
      BY <1>1, <3>2 DEF WithCaller, Placed
    <3>4. ~Placed(e)'
      BY <1>0, <1>1, <3>3 DEF Placed, PlacesInv, Buffered, InFlush, InNats
    <3>5. QED
      BY <1>0, <1>1, <1>2, <1>3, <3>1, <3>2, <3>3, <3>4, PostedOnce
  <2>2. CASE ~SendLocal(e)
    <3>1. UNCHANGED posted
      BY <2>2 DEF Publish, PublishThrottled, ChooseNats, SendClosed, delivery
    <3>2. QED
      BY <1>0, <1>1, <1>2, <1>3, <3>1, NonePosted DEF EventTypes
  <2>3. QED
    BY <2>1, <2>2
<1>6. QED
  BY <1>0, <1>1, <1>3, <1>4, <1>5 DEF EventInv, EventTypes

\* NATS takes an event from its call, for each of the node's subscriptions.
LEMMA NatsEvents ==
    ASSUME ListenInv, EventInv, NEW e \in BusEvents, SendNats(e)
    PROVE  EventInv'
<1>0. EventTypes /\ PlacesInv /\ PostedInv
  BY DEF EventInv
<1>x. PICK x \in ClusterTopics : x = event[e].topic
  BY <1>0 DEF EventTypes
<1>1. /\ event' = [event EXCEPT ![e].at = "ok"] /\ inbox' = inbox \cup {<<e, s>> : s \in listening[x]} /\ event[e].at = "nats"
      /\ UNCHANGED <<buffer, flushing, posted, torn>> /\ enable
  BY <1>x DEF SendNats, Answer, batching, tables
<1>2. /\ event' \in [BusEvents -> [at : {"no", "batch", "send", "nats", "ok", "error"}, topic : ClusterTopics]]
      /\ \A f \in BusEvents : event'[f].topic = event[f].topic /\ (f # e => event'[f] = event[f])
      /\ event'[e].at = "ok"
  BY <1>0, <1>1 DEF EventTypes
<1>3. WithCaller(e) /\ ~WithCaller(e)' /\ \A f \in BusEvents : f # e => (WithCaller(f)' <=> WithCaller(f))
  BY <1>1, <1>2 DEF WithCaller
<1>4. ~Buffered(e) /\ ~InFlush(e) /\ ~InNats(e)
  BY <1>0, <1>3 DEF PlacesInv
<1>5. x \notin torn => \A s \in listening[x] : s = subMap[x]
  BY <1>1 DEF ListenInv
<1>6. Answered
  BY <1>2, <1>3 DEF Answered
<1>7. \A f \in BusEvents : /\ Buffered(f)' <=> Buffered(f)
                           /\ InFlush(f)' <=> InFlush(f)
                           /\ InNats(f)' => InNats(f) \/ f = e
  BY <1>1 DEF Buffered, InFlush, InNats
<1>8. PlacesInv'
  <2>1. \A f \in BusEvents : WithCaller(f)' => ~Buffered(f)' /\ ~InFlush(f)' /\ ~InNats(f)'
    BY <1>0, <1>3, <1>7 DEF PlacesInv
  <2>2. \A f \in BusEvents : /\ Buffered(f)' => ~InFlush(f)' /\ ~InNats(f)'
                             /\ InFlush(f)' => ~InNats(f)'
    BY <1>0, <1>4, <1>7 DEF PlacesInv
  <2>3. \A t \in Types : IsInjective(buffer'[t]) /\ \A f \in Range(buffer'[t]) : event'[f].topic.type = t
    <3> TAKE t \in Types
    <3>1. \A f \in Range(buffer[t]) : f \in BusEvents
      BY <1>0 DEF EventTypes, EventSeqs, Range
    <3>2. QED
      BY <1>0, <1>1, <1>2, <3>1 DEF PlacesInv
  <2>4. \A b \in flushing' : IsInjective(b) /\ \A c \in flushing' : Range(b) \cap Range(c) # {} => b = c
    BY <1>0, <1>1 DEF PlacesInv
  <2>5. ASSUME NEW m \in inbox', NEW o \in inbox', m[1] = o[1], event'[m[1]].topic \notin torn'
        PROVE  m = o
    <3>1. \A p \in inbox : p[1] \in BusEvents /\ p[1] # e
      BY <1>0, <1>4 DEF EventTypes, InNats
    <3>2. CASE m \in inbox /\ o \in inbox
      BY <1>0, <1>1, <1>2, <2>5, <3>1, <3>2 DEF PlacesInv
    <3>3. CASE m \notin inbox
      <4>1. PICK s \in listening[x] : m = <<e, s>>
        BY <1>1, <3>3
      <4>2. o \notin inbox
        BY <2>5, <3>1, <4>1
      <4>3. PICK s2 \in listening[x] : o = <<e, s2>>
        BY <1>1, <4>2
      <4>4. x \notin torn
        BY <1>x, <1>1, <1>2, <2>5, <4>1
      <4>5. QED
        BY <1>5, <4>1, <4>3, <4>4
    <3>4. CASE o \notin inbox
      <4>1. PICK s \in listening[x] : o = <<e, s>>
        BY <1>1, <3>4
      <4>2. m \notin inbox
        BY <2>5, <3>1, <4>1
      <4>3. QED
        BY <3>3, <4>2
    <3>5. QED
      BY <3>2, <3>3, <3>4
  <2>6. QED
    BY <2>1, <2>2, <2>3, <2>4, <2>5 DEF PlacesInv
<1>9. PostedInv'
  <2>1. \A f \in BusEvents : Placed(f)' => Placed(f)
    BY <1>3, <1>7 DEF Placed
  <2>2. QED
    BY <1>0, <1>1, <1>6, <2>1, NonePosted
<1>10. EventTypes'
  <2>1. \A m \in inbox' : m = <<m[1], m[2]>> /\ m[1] \in BusEvents
    BY <1>0, <1>1 DEF EventTypes
  <2>2. QED
    BY <1>0, <1>1, <1>2, <2>1 DEF EventTypes
<1>11. QED
  BY <1>8, <1>9, <1>10 DEF EventInv

\* NATS hands an event to the subscribers of the node.
LEMMA ReceiveEvents ==
    ASSUME EventInv, NEW m \in inbox, NatsReceive(m)
    PROVE  EventInv'
<1>0. EventTypes /\ PlacesInv /\ PostedInv
  BY DEF EventInv
<1>1. PICK e \in BusEvents : e = m[1]
  BY <1>0 DEF EventTypes
<1>2. /\ inbox' = inbox \ {m} /\ UNCHANGED <<event, buffer, flushing, torn>> /\ \E y : PostTo(e, y)
  BY <1>1 DEF NatsReceive, PublishLocally, publishGlobal, publishServer, publishSpecific, batching, tables
<1>3. Answered
  BY <1>2 DEF Answered, WithCaller
<1>4. PlacesInv' /\ \A f \in BusEvents : Placed(f)' => Placed(f)
  BY <1>0, <1>2, <1>3, PlacesLeft
<1>5. InNats(e) /\ ~WithCaller(e) /\ ~Buffered(e) /\ ~InFlush(e)
  BY <1>0, <1>1 DEF PlacesInv, InNats
<1>6. event[e].topic \notin torn => ~InNats(e)'
  BY <1>0, <1>1, <1>2 DEF PlacesInv, InNats
<1>7. Placed(e) /\ ~WithCaller(e)' /\ (event[e].topic \notin torn => ~Placed(e)')
  BY <1>2, <1>5, <1>6 DEF Placed, WithCaller, Buffered, InFlush
<1>8. PostedInv' /\ posted' \in [BusEvents -> [Listeners -> Nat]]
  BY <1>0, <1>2, <1>3, <1>4, <1>7, PostedOnce
<1>9. QED
  BY <1>0, <1>2, <1>4, <1>8 DEF EventInv, EventTypes

\* The batching takes an event from its call, into the buffer or with the full buffer into a batch.
LEMMA BatchEvents ==
    ASSUME EventInv, NEW e \in BusEvents, AddToBatch(e)
    PROVE  EventInv'
<1>0. EventTypes /\ PlacesInv /\ PostedInv
  BY DEF EventInv
<1>1. PICK t : t = event[e].topic.type
  OBVIOUS
<1> DEFINE q == Append(buffer[t], e)
<1>2. /\ event' = [event EXCEPT ![e].at = "ok"] /\ event[e].at = "batch" /\ UNCHANGED <<inbox, posted, torn>>
      /\ \/ buffer' = [buffer EXCEPT ![t] = <<>>] /\ flushing' = flushing \cup {q}
         \/ buffer' = [buffer EXCEPT ![t] = q] /\ flushing' = flushing
  BY <1>1 DEF AddToBatch, Answer, tables
<1>3. /\ t \in Types /\ buffer[t] \in Seq(BusEvents) /\ buffer \in [Types -> EventSeqs]
      /\ event' \in [BusEvents -> [at : {"no", "batch", "send", "nats", "ok", "error"}, topic : ClusterTopics]]
      /\ \A f \in BusEvents : event'[f].topic = event[f].topic /\ (f # e => event'[f] = event[f])
      /\ event'[e].at = "ok"
  <2>1. event[e].topic \in ClusterTopics
    BY <1>0 DEF EventTypes
  <2>2. t \in Types
    BY <1>1, <2>1 DEF ClusterTopics, Global, Server, Specific
  <2>3. QED
    BY <1>0, <1>2, <2>2 DEF EventTypes, EventSeqs
<1>4. WithCaller(e) /\ ~WithCaller(e)' /\ \A f \in BusEvents : f # e => (WithCaller(f)' <=> WithCaller(f))
  BY <1>2, <1>3 DEF WithCaller
<1>5. ~Buffered(e) /\ ~InFlush(e) /\ ~InNats(e)
  BY <1>0, <1>4 DEF PlacesInv
<1>6. q \in EventSeqs \ {<<>>} /\ Range(q) = Range(buffer[t]) \cup {e} /\ IsInjective(q)
  <2>1. IsInjective(buffer[t]) /\ e \notin Range(buffer[t])
    BY <1>0, <1>3, <1>5 DEF PlacesInv, Buffered
  <2>2. QED
    BY <1>3, <2>1, RangeAppend DEF EventSeqs
<1>7. /\ \A u \in Types : \A f \in Range(buffer[u]) : f \in BusEvents /\ event'[f].topic.type = u /\ Buffered(f)
      /\ event'[e].topic.type = t
  <2>1. \A u \in Types : \A f \in Range(buffer[u]) : f \in BusEvents
    BY <1>0 DEF EventTypes, EventSeqs, Range
  <2>2. QED
    BY <1>0, <1>1, <1>3, <2>1 DEF PlacesInv, Buffered
<1>8. Answered /\ \A m \in inbox', o \in inbox' : m[1] = o[1] /\ event'[m[1]].topic \notin torn' => m = o
  <2>1. Answered
    BY <1>3, <1>4 DEF Answered
  <2>2. \A m \in inbox : m[1] \in BusEvents
    BY <1>0 DEF EventTypes
  <2>3. QED
    BY <1>0, <1>2, <1>3, <2>1, <2>2 DEF PlacesInv
<1>9. \A f \in BusEvents : InNats(f)' <=> InNats(f)
  BY <1>2 DEF InNats
<1> HIDE DEF q
<1>10. CASE buffer' = [buffer EXCEPT ![t] = <<>>] /\ flushing' = flushing \cup {q}
  <2>1. \A u \in Types : buffer'[u] = IF u = t THEN <<>> ELSE buffer[u]
    BY <1>3, <1>10
  <2>2. \A f \in BusEvents : /\ Buffered(f)' <=> Buffered(f) /\ f \notin Range(buffer[t])
                             /\ InFlush(f)' <=> InFlush(f) \/ f \in Range(buffer[t]) \/ f = e
    <3> TAKE f \in BusEvents
    <3>1. Buffered(f)' <=> Buffered(f) /\ f \notin Range(buffer[t])
      BY <1>3, <1>7, <2>1, RangeEmpty DEF Buffered
    <3>2. InFlush(f)' <=> InFlush(f) \/ f \in Range(q)
      BY <1>10 DEF InFlush
    <3>3. QED
      BY <1>6, <3>1, <3>2
  <2>3. PlacesInv'
    <3>1. \A f \in BusEvents : WithCaller(f)' => ~Buffered(f)' /\ ~InFlush(f)' /\ ~InNats(f)'
      BY <1>0, <1>3, <1>4, <1>7, <1>9, <2>2 DEF PlacesInv
    <3>2. \A f \in BusEvents : /\ Buffered(f)' => ~InFlush(f)' /\ ~InNats(f)'
                               /\ InFlush(f)' => ~InNats(f)'
      BY <1>0, <1>3, <1>5, <1>7, <1>9, <2>2 DEF PlacesInv
    <3>3. \A u \in Types : IsInjective(buffer'[u]) /\ \A f \in Range(buffer'[u]) : event'[f].topic.type = u
      BY <1>0, <1>7, <2>1, RangeEmpty DEF PlacesInv
    <3>4. \A b \in flushing : Range(b) \cap Range(q) = {}
      <4> TAKE b \in flushing
      <4>1. \A f \in Range(b) : f \in BusEvents /\ InFlush(f)
        BY <1>0 DEF EventTypes, EventSeqs, Range, InFlush
      <4>2. \A f \in Range(b) : f # e /\ ~Buffered(f)
        BY <1>0, <1>5, <4>1 DEF PlacesInv
      <4>3. QED
        BY <1>3, <1>6, <1>7, <4>2
    <3>5. \A b \in flushing' : IsInjective(b) /\ \A c \in flushing' : Range(b) \cap Range(c) # {} => b = c
      BY <1>0, <1>6, <1>10, <3>4 DEF PlacesInv
    <3>6. QED
      BY <1>8, <3>1, <3>2, <3>3, <3>5 DEF PlacesInv
  <2>4. PostedInv'
    <3>1. \A f \in BusEvents : Placed(f)' => Placed(f)
      BY <1>3, <1>4, <1>7, <1>9, <2>2 DEF Placed
    <3>2. QED
      BY <1>0, <1>2, <1>8, <3>1, NonePosted
  <2>5. EventTypes'
    <3>1. <<>> \in EventSeqs
      BY DEF EventSeqs
    <3>2. buffer' \in [Types -> EventSeqs]
      BY <1>3, <1>10, <3>1
    <3>3. QED
      BY <1>0, <1>2, <1>3, <1>6, <1>10, <3>2 DEF EventTypes
  <2>6. QED
    BY <2>3, <2>4, <2>5 DEF EventInv
<1>11. CASE buffer' = [buffer EXCEPT ![t] = q] /\ flushing' = flushing
  <2>1. \A u \in Types : buffer'[u] = IF u = t THEN q ELSE buffer[u]
    BY <1>3, <1>11
  <2>2. \A f \in BusEvents : /\ Buffered(f)' <=> Buffered(f) \/ f = e
                             /\ InFlush(f)' <=> InFlush(f)
    BY <1>3, <1>6, <1>11, <2>1 DEF Buffered, InFlush
  <2>3. PlacesInv'
    <3>1. \A f \in BusEvents : WithCaller(f)' => ~Buffered(f)' /\ ~InFlush(f)' /\ ~InNats(f)'
      BY <1>0, <1>4, <1>9, <2>2 DEF PlacesInv
    <3>2. \A f \in BusEvents : /\ Buffered(f)' => ~InFlush(f)' /\ ~InNats(f)'
                               /\ InFlush(f)' => ~InNats(f)'
      BY <1>0, <1>5, <1>9, <2>2 DEF PlacesInv
    <3>3. \A u \in Types : IsInjective(buffer'[u]) /\ \A f \in Range(buffer'[u]) : event'[f].topic.type = u
      BY <1>0, <1>6, <1>7, <2>1 DEF PlacesInv
    <3>4. \A b \in flushing' : IsInjective(b) /\ \A c \in flushing' : Range(b) \cap Range(c) # {} => b = c
      BY <1>0, <1>11 DEF PlacesInv
    <3>5. QED
      BY <1>8, <3>1, <3>2, <3>3, <3>4 DEF PlacesInv
  <2>4. PostedInv'
    <3>1. \A f \in BusEvents : Placed(f)' => Placed(f)
      BY <1>4, <1>9, <2>2 DEF Placed
    <3>2. QED
      BY <1>0, <1>2, <1>8, <3>1, NonePosted
  <2>5. EventTypes'
    <3>1. buffer' \in [Types -> EventSeqs]
      BY <1>3, <1>6, <1>11
    <3>2. QED
      BY <1>0, <1>2, <1>3, <1>11, <3>1 DEF EventTypes
  <2>6. QED
    BY <2>3, <2>4, <2>5 DEF EventInv
<1>12. QED
  BY <1>2, <1>10, <1>11

\* The buffer becomes batches, one for each type that has events.
LEMMA TakeEvents ==
    ASSUME EventInv, TakeBuffers, UNCHANGED <<event, inbox, posted, torn>>
    PROVE  EventInv'
<1>0. EventTypes /\ PlacesInv /\ PostedInv
  BY DEF EventInv
<1>1. /\ \A u \in Types : buffer'[u] = <<>>
      /\ buffer' = [u \in Types |-> <<>>]
      /\ flushing' = flushing \cup {buffer[u] : u \in {v \in Types : buffer[v] # <<>>}}
  BY DEF TakeBuffers
<1>2. \A u \in Types : /\ buffer[u] \in EventSeqs /\ IsInjective(buffer[u])
                       /\ \A f \in Range(buffer[u]) : f \in BusEvents /\ event[f].topic.type = u /\ Buffered(f)
  BY <1>0 DEF PlacesInv, EventTypes, EventSeqs, Range, Buffered
<1>3. \A b \in flushing : \A f \in Range(b) : f \in BusEvents /\ InFlush(f)
  BY <1>0 DEF EventTypes, EventSeqs, Range, InFlush
<1>4. \A f \in BusEvents : /\ ~Buffered(f)'
                           /\ InFlush(f)' => InFlush(f) \/ Buffered(f)
                           /\ InNats(f)' <=> InNats(f)
                           /\ WithCaller(f)' <=> WithCaller(f)
  BY <1>1, RangeEmpty DEF Buffered, InFlush, InNats, WithCaller
<1>5. \A b \in flushing' : IsInjective(b) /\ \A c \in flushing' : Range(b) \cap Range(c) # {} => b = c
  <2>1. \A b \in flushing' : IsInjective(b)
    BY <1>0, <1>1, <1>2 DEF PlacesInv
  <2>2. ASSUME NEW b \in flushing', NEW c \in flushing', NEW f \in Range(b), f \in Range(c)
        PROVE  b = c
    <3>1. CASE b \in flushing /\ c \in flushing
      BY <1>0, <2>2, <3>1 DEF PlacesInv
    <3>2. ASSUME NEW u \in Types, b = buffer[u], c \in flushing
          PROVE  FALSE
      BY <1>0, <1>2, <1>3, <2>2, <3>2 DEF PlacesInv
    <3>3. ASSUME NEW u \in Types, c = buffer[u], b \in flushing
          PROVE  FALSE
      BY <1>0, <1>2, <1>3, <2>2, <3>3 DEF PlacesInv
    <3>4. ASSUME NEW u \in Types, b = buffer[u], NEW v \in Types, c = buffer[v]
          PROVE  b = c
      BY <1>2, <2>2, <3>4
    <3>5. QED
      BY <1>1, <3>1, <3>2, <3>3, <3>4
  <2>3. QED
    BY <2>1, <2>2
<1>6. PlacesInv'
  <2>1. \A f \in BusEvents : /\ WithCaller(f)' => ~Buffered(f)' /\ ~InFlush(f)' /\ ~InNats(f)'
                             /\ InFlush(f)' => ~InNats(f)'
    BY <1>0, <1>4 DEF PlacesInv
  <2>2. \A u \in Types : IsInjective(buffer'[u]) /\ \A f \in Range(buffer'[u]) : event'[f].topic.type = u
    BY <1>1, RangeEmpty
  <2>3. \A m \in inbox', o \in inbox' : m[1] = o[1] /\ event'[m[1]].topic \notin torn' => m = o
    BY <1>0 DEF PlacesInv
  <2>4. QED
    BY <1>4, <1>5, <2>1, <2>2, <2>3 DEF PlacesInv
<1>7. PostedInv'
  <2>1. \A f \in BusEvents : Placed(f)' => Placed(f)
    BY <1>4 DEF Placed
  <2>2. Answered
    BY DEF Answered, WithCaller
  <2>3. QED
    BY <1>0, <2>1, <2>2, NonePosted
<1>8. EventTypes'
  <2>1. <<>> \in EventSeqs
    BY DEF EventSeqs
  <2>2. buffer' \in [Types -> EventSeqs] /\ flushing' \subseteq EventSeqs \ {<<>>}
    BY <1>0, <1>1, <1>2, <2>1 DEF EventTypes
  <2>3. QED
    BY <1>0, <2>2 DEF EventTypes
<1>9. QED
  BY <1>6, <1>7, <1>8 DEF EventInv

\* A flush hands the first event of its batch to the subscribers of the node.
LEMMA FlushEvents ==
    ASSUME EventInv, NEW b \in flushing, FlushEvent(b)
    PROVE  EventInv'
<1>0. EventTypes /\ PlacesInv /\ PostedInv
  BY DEF EventInv
<1>1. /\ flushing' = (flushing \ {b}) \cup (IF Len(b) > 1 THEN {Tail(b)} ELSE {})
      /\ UNCHANGED <<event, buffer, inbox, torn>> /\ \E y : PostTo(Head(b), y)
  BY DEF FlushEvent, publishGlobal, publishServer, tables
<1>2. b \in Seq(BusEvents) /\ b # <<>> /\ IsInjective(b)
  BY <1>0 DEF EventTypes, EventSeqs, PlacesInv
<1>3. PICK e \in BusEvents : /\ e = Head(b) /\ Tail(b) \in EventSeqs /\ e \in Range(b) /\ IsInjective(Tail(b))
                             /\ Range(Tail(b)) = Range(b) \ {e} /\ (Len(b) > 1 <=> Tail(b) # <<>>)
  BY <1>2, RangeTail DEF EventSeqs
<1>4. \A c \in flushing' : \/ c \in flushing /\ c # b
                           \/ c = Tail(b) /\ c # <<>>
  BY <1>1, <1>3
<1>5. \A c \in flushing : c # b => Range(c) \cap Range(b) = {}
  BY <1>0 DEF PlacesInv
<1>6. \A f \in BusEvents : InFlush(f)' => InFlush(f) /\ f # e
  <2> TAKE f \in BusEvents
  <2> HAVE InFlush(f)'
  <2>1. PICK c \in flushing' : f \in Range(c)
    BY DEF InFlush
  <2>2. QED
    BY <1>3, <1>4, <1>5, <2>1 DEF InFlush
<1>7. \A f \in BusEvents : /\ Buffered(f)' <=> Buffered(f)
                           /\ InNats(f)' <=> InNats(f)
                           /\ WithCaller(f)' <=> WithCaller(f)
  BY <1>1 DEF Buffered, InNats, WithCaller
<1>8. \A c \in flushing' : IsInjective(c) /\ \A d \in flushing' : Range(c) \cap Range(d) # {} => c = d
  <2>1. \A c \in flushing' : IsInjective(c)
    BY <1>0, <1>3, <1>4 DEF PlacesInv
  <2>2. ASSUME NEW c \in flushing', NEW d \in flushing', Range(c) \cap Range(d) # {}
        PROVE  c = d
    <3>1. CASE c \in flushing /\ d \in flushing
      BY <1>0, <2>2, <3>1 DEF PlacesInv
    <3>2. CASE c = Tail(b) /\ d \in flushing /\ d # b
      BY <1>3, <1>5, <2>2, <3>2
    <3>3. CASE d = Tail(b) /\ c \in flushing /\ c # b
      BY <1>3, <1>5, <2>2, <3>3
    <3>4. QED
      BY <1>4, <3>1, <3>2, <3>3
  <2>3. QED
    BY <2>1, <2>2
<1>9. PlacesInv'
  <2>1. \A f \in BusEvents : /\ WithCaller(f)' => ~Buffered(f)' /\ ~InFlush(f)' /\ ~InNats(f)'
                             /\ Buffered(f)' => ~InFlush(f)' /\ ~InNats(f)'
                             /\ InFlush(f)' => ~InNats(f)'
    BY <1>0, <1>6, <1>7 DEF PlacesInv
  <2>2. /\ \A u \in Types : IsInjective(buffer'[u]) /\ \A f \in Range(buffer'[u]) : event'[f].topic.type = u
        /\ \A m \in inbox', o \in inbox' : m[1] = o[1] /\ event'[m[1]].topic \notin torn' => m = o
    BY <1>0, <1>1 DEF PlacesInv
  <2>3. QED
    BY <1>8, <2>1, <2>2 DEF PlacesInv
<1>10. Placed(e) /\ ~Placed(e)' /\ \A f \in BusEvents : Placed(f)' => Placed(f)
  <2>1. InFlush(e)
    BY <1>3 DEF InFlush
  <2>2. ~WithCaller(e) /\ ~Buffered(e) /\ ~InNats(e)
    BY <1>0, <2>1 DEF PlacesInv
  <2>3. QED
    BY <1>6, <1>7, <2>1, <2>2 DEF Placed
<1>11. PostedInv' /\ posted' \in [BusEvents -> [Listeners -> Nat]]
  <2>1. Answered /\ ~WithCaller(e)'
    BY <1>1, <1>7, <1>10 DEF Answered, Placed
  <2>2. QED
    BY <1>0, <1>1, <1>3, <1>10, <2>1, PostedOnce
<1>12. EventTypes'
  <2>1. flushing' \subseteq EventSeqs \ {<<>>}
    BY <1>0, <1>3, <1>4 DEF EventTypes
  <2>2. QED
    BY <1>0, <1>1, <1>11, <2>1 DEF EventTypes
<1>13. QED
  BY <1>9, <1>11, <1>12 DEF EventInv

\* Every step keeps every event in one place.
LEMMA EventStep ==
    ASSUME SubscriptionInv, EventInv, [BusNext]_busVars
    PROVE  EventInv'
<1>1. ListenInv
  BY DEF SubscriptionInv, CallInv
<1>2. ASSUME NEW h \in Handlers, HandlerStep(h) PROVE EventInv'
  BY <1>2, HandlerEvents
<1>3. ASSUME NEW l \in Listeners, CallStep(l) \/ ClearBegin(l) PROVE EventInv'
  BY <1>3, CallEvents
<1>4. CASE BatchLoopExit \/ StopNats \/ StopTicker \/ UNCHANGED busVars
  BY <1>4, RestEvents
<1>5. ASSUME NEW e \in BusEvents, PublishStep(e) \/ \E x \in GroupTopics(followed) : Publish(e, x) PROVE EventInv'
  BY <1>1, <1>5, CallerEvents, NatsEvents, BatchEvents DEF PublishStep
<1>6. ASSUME NEW m \in inbox, NatsReceive(m) PROVE EventInv'
  BY <1>6, ReceiveEvents
<1>7. CASE BatchTick \/ StopFlush
  <2>1. TakeBuffers /\ UNCHANGED <<event, inbox, posted, torn>>
    BY <1>7 DEF BatchTick, StopFlush, delivery, tables
  <2>2. QED
    BY <2>1, TakeEvents
<1>8. ASSUME NEW b \in flushing, FlushEvent(b) PROVE EventInv'
  BY <1>8, FlushEvents
<1>9. QED
  BY <1>2, <1>3, <1>4, <1>5, <1>6, <1>7, <1>8 DEF BusNext, FlushStep, StopBus

\* The bus starts with no callback and no event.
LEMMA BusInitInv == BusInit => SubscriptionInv /\ EventInv
<1> SUFFICES ASSUME BusInit PROVE SubscriptionInv /\ EventInv
  OBVIOUS
<1> USE DEF BusInit
<1>1. RegTypes
  <2>1. <<>> \in Seq([topic : BusTopics, name : Names])
    OBVIOUS
  <2>2. QED
    BY <2>1, FS_EmptySet DEF RegTypes
<1>2. RegsInv
  BY DEF RegsInv
<1>3. AnyTopic \in ClusterTopics /\ NoCall \in Calls /\ NoCall.by = "none" /\ NoCall.at = "idle"
  <2>1. PICK x \in ClusterTopics : TRUE
    BY DEF BusInit
  <2>2. AnyTopic \in ClusterTopics
    BY <2>1 DEF AnyTopic
  <2>3. QED
    BY <2>2 DEF NoCall, Call, Calls
<1>4. CallInv
  <2>1. \A l \in Listeners : \A x : ~Busy(l, x) /\ ~Binding(l, x)
    BY <1>3 DEF Busy, Binding
  <2>2. \A l, x : Bound(l, x) = {} /\ Cardinality(Bound(l, x)) = 0
    BY FS_EmptySet DEF Bound
  <2>3. CallTypes
    BY <1>3 DEF CallTypes
  <2>4. CallsInv
    BY <1>3 DEF CallsInv, BindSteps
  <2>5. LockInv /\ CountInv
    BY <2>1, <2>2 DEF LockInv, CountInv
  <2>6. MemberInv
    BY <2>1 DEF MemberInv, Wanted
  <2>7. InnerInv
    BY <1>3 DEF InnerInv
  <2>8. ListenInv
    BY <2>1 DEF ListenInv, Opening, Closing
  <2>9. QED
    BY <2>3, <2>4, <2>5, <2>6, <2>7, <2>8 DEF CallInv
<1>5. EventTypes
  <2>1. NoBusEvent.topic \in ClusterTopics
    BY <1>3 DEF NoBusEvent
  <2>2. NoBusEvent \in [at : {"no", "batch", "send", "nats", "ok", "error"}, topic : ClusterTopics]
    BY <2>1 DEF NoBusEvent
  <2>3. <<>> \in EventSeqs
    BY DEF EventSeqs
  <2>4. QED
    BY <2>2, <2>3 DEF EventTypes
<1>6. PlacesInv
  <2>1. \A e \in BusEvents : ~Buffered(e) /\ ~InFlush(e) /\ ~InNats(e)
    BY RangeEmpty DEF Buffered, InFlush, InNats
  <2>2. QED
    BY <2>1, RangeEmpty DEF PlacesInv
<1>7. PostedInv
  BY DEF PostedInv
<1>8. QED
  BY <1>1, <1>2, <1>4, <1>5, <1>6, <1>7 DEF SubscriptionInv, EventInv

\* For any services, modules, topics and callbacks: between its calls a service is in the table of
\* a topic only while a callback of its modules is bound to it, and, but for a topic whose group
\* had its outer map changed under it, whenever one is, with every callback counted and the bus
\* listening exactly once to a topic with subscribers; a destroyed handler has left nothing; and
\* no service is given an event twice, through NATS, a batch or at once (processor.go, handler.go,
\* bus_server.go, bus_specific.go, bus_global.go, bus_batch.go).
THEOREM EventsSoundHolds == BusSpec => []EventsSound
<1>1. SubscriptionInv /\ EventInv => EventsSound
  <2> SUFFICES ASSUME SubscriptionInv, EventInv PROVE EventsSound
    OBVIOUS
  <2>0. RegTypes /\ RegsInv /\ CallTypes /\ CountInv /\ MemberInv /\ ListenInv
    BY DEF SubscriptionInv, CallInv
  <2>1. ASSUME NEW h \in Handlers, handler[h] = "dead", NEW c \in callbacks, c.by = h
        PROVE  FALSE
    <3>1. regs[h] = <<>>
      BY <2>0, <2>1 DEF RegsInv
    <3>2. PICK i \in 1..Len(regs[h]) : TRUE
      BY <2>0, <2>1 DEF RegsInv
    <3>3. QED
      BY <3>1, <3>2
  <2>2. ASSUME NEW l \in Listeners, NEW x \in ClusterTopics, call[l] = NoCall
        PROVE  /\ l \in subscribers[x] => Bound(l, x) # {}
               /\ x \notin torn => /\ subCnt[l][x] = Cardinality(Bound(l, x))
                                   /\ Bound(l, x) # {} => l \in subscribers[x]
    <3>1. ~Busy(l, x) /\ ~Binding(l, x) /\ (Wanted(l, x) <=> subCnt[l][x] > 0)
      BY <2>2 DEF Busy, Binding, Wanted, NoCall, Call
    <3>2. IsFiniteSet(Bound(l, x)) /\ Cardinality(Bound(l, x)) \in Nat /\ subCnt[l][x] \in Nat
      BY <2>0, BoundFinite DEF CallTypes
    <3>3. Cardinality(Bound(l, x)) = 0 <=> Bound(l, x) = {}
      BY <3>2, FS_EmptySet
    <3>4. subCnt[l][x] <= Cardinality(Bound(l, x)) /\ (x \notin torn => subCnt[l][x] = Cardinality(Bound(l, x)))
      BY <2>0, <3>1, <3>2 DEF CountInv
    <3>5. /\ l \in subscribers[x] => subCnt[l][x] > 0
          /\ x \notin torn /\ subCnt[l][x] > 0 => l \in subscribers[x]
      BY <2>0, <3>1 DEF MemberInv
    <3>6. QED
      BY <3>2, <3>3, <3>4, <3>5
  <2>3. ASSUME enable, NEW x \in ClusterTopics \ torn, ~LockHeld(x)
        PROVE  IF subscribers[x] = {} THEN listening[x] = {} /\ subMap[x] = 0
               ELSE x \in deaf \/ (subMap[x] # 0 /\ listening[x] = {subMap[x]})
    <3>1. ~Opening(x) /\ ~Closing(x)
      BY <2>3 DEF Opening, Closing, LockHeld
    <3>2. QED
      BY <2>0, <2>3, <3>1 DEF ListenInv
  <2>4. SubscriptionExact
    BY <2>0, <2>1, <2>2, <2>3 DEF SubscriptionExact, CallTypes
  <2>5. EventOnce
    BY DEF EventInv, PostedInv, EventOnce
  <2>6. QED
    BY <2>4, <2>5 DEF EventsSound
<1>2. SubscriptionInv /\ EventInv /\ [BusNext]_busVars => (SubscriptionInv /\ EventInv)'
  BY SubscriptionStep, EventStep
<1>3. QED
  BY <1>1, <1>2, BusInitInv, PTL DEF BusSpec
=============================================================================
