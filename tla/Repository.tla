----------------------------- MODULE Repository -----------------------------
(***************************************************************************)
(* The table of services of a node (cluster/endpoints/repository), what    *)
(* EndpointManager does to it (endpoints.go), the selectors services reach *)
(* it with (selector.go, router, core/rpc/selector.go) and the dispatchers *)
(* and senders they get (rpc/client/sender.go).                            *)
(*                                                                         *)
(* mapPID and tmpMapPid are sync.Maps: every access is a step. The two     *)
(* indices are behind one lock, which a selector holds while it walks one. *)
(* Events of one service are applied one after the other (Directory). A    *)
(* dispatcher is a number; closing it clears its pid.                      *)
(***************************************************************************)
EXTENDS Integers, Sequences, FiniteSets

CONSTANTS
    Uids,                          \* services, by serviceUid
    HomeUids,                      \* the ones of this node
    NameOf, TypeOf, PartitionOf,   \* what their pids say
    AddrOf,                        \* the address and rpc type of a remote one
    Askers,                        \* goroutines that select a service and send to it
    AsksOf,                        \* the selectors each of them calls
    MaxOps, MaxAsks                \* bounds: registry operations, selections

Searches == {"name", "type", "rule", "choice"}   \* the selectors that look for services

ASSUME RepositoryAssumption ==
    /\ Uids # {} /\ HomeUids \subseteq Uids
    /\ AsksOf \in [Askers -> SUBSET (Searches \cup {"uid", "route"})]

VARIABLES
    mapPID, tmpMapPid,   \* per uid the dispatcher, 0 for none
    stale,               \* uids whose temporary entry was not touched for five minutes
    disps,               \* all dispatchers made: uid, temporary, closed, and of their
                         \* serviceInfo status and visibility, of their pid the master flag
    nameIdx, typeIdx,    \* mapSvcBySNameAndSUid, mapSvcBySTpAndSName
    readers,             \* the askers that hold the index lock
    op,                  \* per uid: the registry operation under way
    evict,               \* the tick's decision: [uid, d] or nothing
    repStop,             \* Repository.Stop: what is left to close, or "run"
    senders,             \* SenderManager.handlerMap: per address a sender, 0 for none
    sent,                \* all senders made: address, closed
    asker,               \* per asker: its call
    repOps, asks,
    steady, ready        \* history: per asker, since its call began: services that were
                         \* selectable all the time, services that were ready at some time

tableVars == <<mapPID, disps, nameIdx, typeIdx, op>>
tmpVars == <<tmpMapPid, stale, evict>>
senderVars == <<senders, sent>>
repHistory == <<steady, ready>>
repVars == <<tableVars, tmpVars, readers, repStop, senderVars, asker, repOps, asks, repHistory>>

NoAsk == [at |-> "idle", kind |-> "uid", slaver |-> FALSE, target |-> CHOOSE u \in Uids : TRUE,
          left |-> {}, cur |-> 0, d |-> 0, chosen |-> {}, found |-> {}]

RepInit ==
    /\ mapPID = [u \in Uids |-> 0] /\ tmpMapPid = [u \in Uids |-> 0]
    /\ stale = {} /\ disps = <<>> /\ nameIdx = {} /\ typeIdx = {} /\ readers = {}
    /\ op = [u \in Uids |-> "idle"] /\ evict = [uid |-> 0, d |-> 0]
    /\ repStop = [at |-> "run", left |-> {}]
    /\ senders = [a \in {AddrOf[u] : u \in Uids} |-> 0] /\ sent = <<>>
    /\ asker = [c \in Askers |-> NoAsk]
    /\ repOps = 0 /\ asks = 0
    /\ steady = [c \in Askers |-> {}] /\ ready = [c \in Askers |-> {}]

\* NewDispatcher, NewTmpDispatcher with the serviceInfo it is put into.
NewDispatcher(u, tmp, st, v, m) == [uid |-> u, tmp |-> tmp, closed |-> FALSE, status |-> st, vis |-> v, master |-> m]

\* IsRetired: a dispatcher that was closed has no pid, which counts as retired.
Retired(d) == disps[d].closed
CloseDispatcher(d) == [disps EXCEPT ![d].closed = TRUE]
Made == Len(disps)

-----------------------------------------------------------------------------
(* Repository.AddWithMeta, UpdateStatus, UpdateVisibility and Remove, and    *)
(* the operations of EndpointManager that call them.                         *)

Operate(u) == repOps < MaxOps /\ op[u] = "idle" /\ repOps' = repOps + 1
Others == UNCHANGED <<tmpVars, readers, repStop, senderVars, asker, asks>>

\* An entry that is there takes the new status, visibility and master flag, and the new
\* dispatcher is closed before anyone has seen it; a new one is put into the table first and then into the indices.
AddWithMeta(u, st, v, m) ==
    LET d == mapPID[u]
        new == NewDispatcher(u, FALSE, st, v, m) IN
    IF d # 0
      THEN /\ disps' = [disps EXCEPT ![d].status = st, ![d].vis = v, ![d].master = IF Retired(d) THEN @ ELSE m]
           /\ UNCHANGED <<mapPID, op>>
      ELSE /\ disps' = Append(disps, new)
           /\ mapPID' = [mapPID EXCEPT ![u] = Made + 1]
           /\ op' = [op EXCEPT ![u] = "index"]

IndexAdd(u) ==
    /\ op[u] = "index" /\ readers = {}
    /\ nameIdx' = nameIdx \cup {u} /\ typeIdx' = typeIdx \cup {u}
    /\ op' = [op EXCEPT ![u] = "idle"]
    /\ UNCHANGED <<mapPID, disps, repOps>> /\ Others

\* EndpointManager.AddService: a service of this node, not ready yet.
AddService(u) ==
    /\ u \in HomeUids /\ mapPID[u] = 0 /\ Operate(u)
    /\ \E v \in {"cluster", "private"}, m \in BOOLEAN : AddWithMeta(u, "starting", v, m)
    /\ UNCHANGED <<nameIdx, typeIdx>> /\ Others

\* updateServiceInfo: an entry of another node; one of this node is ignored.
UpdateServiceInfo(u) ==
    /\ u \notin HomeUids /\ Operate(u)
    /\ \E st \in {"starting", "ready"}, m \in BOOLEAN : AddWithMeta(u, st, "cluster", m)
    /\ UNCHANGED <<nameIdx, typeIdx>> /\ Others

\* ServiceReady
UpdateStatus(u) ==
    /\ u \in HomeUids /\ mapPID[u] # 0 /\ disps[mapPID[u]].status = "starting" /\ Operate(u)
    /\ disps' = [disps EXCEPT ![mapPID[u]].status = "ready"]
    /\ UNCHANGED <<mapPID, nameIdx, typeIdx, op>> /\ Others

\* ToNodeService
UpdateVisibility(u) ==
    /\ u \in HomeUids /\ mapPID[u] # 0 /\ disps[mapPID[u]].vis = "cluster" /\ Operate(u)
    /\ disps' = [disps EXCEPT ![mapPID[u]].vis = "node"]
    /\ UNCHANGED <<mapPID, nameIdx, typeIdx, op>> /\ Others

\* The election sets the flag in the pid the dispatcher shares with the service.
SetMaster(u) ==
    /\ u \in HomeUids /\ mapPID[u] # 0 /\ ~Retired(mapPID[u]) /\ Operate(u)
    /\ disps' = [disps EXCEPT ![mapPID[u]].master = ~@]
    /\ UNCHANGED <<mapPID, nameIdx, typeIdx, op>> /\ Others

\* Remove (RemoveService, removeServiceInfo): out of the table, closed, out of the indices.
RemoveService(u) ==
    /\ mapPID[u] # 0 /\ Operate(u)
    /\ mapPID' = [mapPID EXCEPT ![u] = 0]
    /\ op' = [op EXCEPT ![u] = "close"]
    /\ UNCHANGED <<disps, nameIdx, typeIdx>> /\ Others

RemoveClose(u) ==
    /\ op[u] = "close"
    /\ disps' = [d \in 1..Made |-> IF disps[d].uid = u /\ ~disps[d].tmp THEN [disps[d] EXCEPT !.closed = TRUE] ELSE disps[d]]
    \* after Stop the pid is gone, and indexRemove finds nothing under its empty name
    /\ op' = [op EXCEPT ![u] = IF \A d \in 1..Made : disps[d].uid = u /\ ~disps[d].tmp => disps[d].closed
                                 THEN "idle" ELSE "unindex"]
    /\ UNCHANGED <<mapPID, nameIdx, typeIdx, repOps>> /\ Others

IndexRemove(u) ==
    /\ op[u] = "unindex" /\ readers = {}
    /\ nameIdx' = nameIdx \ {u} /\ typeIdx' = typeIdx \ {u}
    /\ op' = [op EXCEPT ![u] = "idle"]
    /\ UNCHANGED <<mapPID, disps, repOps>> /\ Others

-----------------------------------------------------------------------------
(* Temporary dispatchers: the tick evicts the ones not used for long.        *)

\* Five minutes pass.
Age(u) ==
    /\ tmpMapPid[u] # 0 /\ u \notin stale
    /\ stale' = stale \cup {u}
    /\ UNCHANGED <<tableVars, tmpMapPid, evict, readers, repStop, senderVars, asker, repOps, asks>>

\* tick with defaultStrategy: decide, then CompareAndDelete and close.
TickDecide(u) ==
    /\ repStop.at = "run" /\ evict.d = 0 /\ u \in stale
    /\ evict' = [uid |-> u, d |-> tmpMapPid[u]]
    /\ UNCHANGED <<tableVars, tmpMapPid, stale, readers, repStop, senderVars, asker, repOps, asks>>

DropTmp(u) ==
    /\ disps' = CloseDispatcher(tmpMapPid[u])
    /\ tmpMapPid' = [tmpMapPid EXCEPT ![u] = 0]
    /\ stale' = stale \ {u}

TickDelete ==
    /\ evict.d # 0
    /\ IF tmpMapPid[evict.uid] = evict.d THEN DropTmp(evict.uid) ELSE UNCHANGED <<disps, tmpMapPid, stale>>
    /\ evict' = [uid |-> 0, d |-> 0]
    /\ UNCHANGED <<mapPID, nameIdx, typeIdx, op, readers, repStop, senderVars, asker, repOps, asks>>

-----------------------------------------------------------------------------
(* Repository.Stop, then SenderManager.Close.                                *)

RepStopBegin ==
    /\ repStop.at = "run"
    /\ repStop' = [at |-> "table", left |-> Uids]
    /\ UNCHANGED <<tableVars, tmpVars, readers, senderVars, asker, repOps, asks>>

StopStep(u) ==
    /\ u \in repStop.left
    /\ LET d == IF repStop.at = "table" THEN mapPID[u] ELSE tmpMapPid[u] IN
       CASE d = 0                                -> UNCHANGED <<disps, tmpMapPid, stale>>
         [] d # 0 /\ repStop.at = "table"        -> disps' = CloseDispatcher(d) /\ UNCHANGED <<tmpMapPid, stale>>
         [] d # 0 /\ repStop.at = "tmp"          -> DropTmp(u)
    /\ repStop' = [at |-> IF repStop.left # {u} THEN repStop.at ELSE IF repStop.at = "table" THEN "tmp" ELSE "senders",
                   left |-> IF repStop.left = {u} /\ repStop.at = "table" THEN Uids ELSE repStop.left \ {u}]
    /\ UNCHANGED <<mapPID, nameIdx, typeIdx, op, evict, readers, senderVars, asker, repOps, asks>>

\* SenderManager.Close, under handlerLock.
SendersClose ==
    /\ repStop.at = "senders" /\ repStop' = [repStop EXCEPT !.at = "stopped"]
    /\ sent' = [i \in 1..Len(sent) |-> [sent[i] EXCEPT !.closed = TRUE]]
    /\ senders' = [a \in DOMAIN senders |-> 0]
    /\ UNCHANGED <<tableVars, tmpVars, readers, asker, repOps, asks>>

-----------------------------------------------------------------------------
(* The selectors.                                                            *)

\* The services a call is about: of one name, one type, one partition, or any.
Matches(c, u) ==
    LET t == asker[c].target IN
    CASE asker[c].kind = "name" -> NameOf[u] = NameOf[t] /\ PartitionOf[u] = PartitionOf[t]
      [] asker[c].kind = "type" -> TypeOf[u] = TypeOf[t]
      [] OTHER                  -> TRUE

\* SelectByServiceUid: the table, and the temporary ones only for what is not in it.
Lookup(u) ==
    IF mapPID[u] = 0 THEN tmpMapPid[u] ELSE IF Retired(mapPID[u]) THEN 0 ELSE mapPID[u]
Touch(u) == stale' = IF mapPID[u] = 0 THEN stale \ {u} ELSE stale

IsSelectable(u) == mapPID[u] # 0 /\ disps[mapPID[u]].status = "ready"
IsRemoteCallable(u) == mapPID[u] # 0 /\ disps[mapPID[u]].vis \in {"cluster", "node"}

Asking == UNCHANGED <<tableVars, tmpMapPid, evict, repStop, repOps>>

\* Select and SelectByServiceType read the index under its lock and keep it; SelectByRule and
\* SelectByFilterAndChoice range over the table.
AskBegin(c) ==
    /\ asker[c].at = "idle" /\ asks < MaxAsks /\ asks' = asks + 1
    /\ \E k \in AsksOf[c], t \in Uids, slaver \in BOOLEAN :
         /\ slaver => k = "name"
         /\ k \in {"uid", "route"} \/ t = CHOOSE u \in Uids : k \in {"rule", "choice"} \/ NameOf[u] = NameOf[t]
         /\ asker' = [asker EXCEPT ![c] = [NoAsk EXCEPT
                !.at = "visit", !.kind = k, !.target = t, !.slaver = slaver,
                !.left = CASE k = "name" -> {u \in nameIdx : NameOf[u] = NameOf[t]}
                           [] k = "type" -> {u \in typeIdx : TypeOf[u] = TypeOf[t]}
                           [] k \in {"rule", "choice"} -> Uids
                           [] OTHER -> {t}]]
         /\ readers' = IF k \in {"name", "type"} THEN readers \cup {c} ELSE readers
    /\ UNCHANGED <<stale, senderVars>> /\ Asking

\* The next service: its dispatcher.
Visit(c) ==
    /\ asker[c].at = "visit"
    /\ \E u \in asker[c].left :
         LET d == IF asker[c].kind \in {"rule", "choice"} /\ asker[c].chosen = {} THEN mapPID[u] ELSE Lookup(u) IN
         /\ asker' = [asker EXCEPT ![c].left = @ \ {u}, ![c].cur = u, ![c].d = d,
                                   ![c].at = IF d = 0 THEN (IF asker[c].kind = "route" THEN "none" ELSE "visit") ELSE "check"]
         /\ IF asker[c].kind \in {"rule", "choice"} /\ asker[c].chosen = {} THEN UNCHANGED stale ELSE Touch(u)
    /\ UNCHANGED <<readers, senderVars, asks>> /\ Asking

\* Mutant: Select does not ask whether the service is ready.
CheckUnready(c) ==
    LET d == asker[c].d
        u == asker[c].cur IN
    CASE asker[c].kind = "name" -> ~Retired(d) /\ Matches(c, u) /\ disps[d].master = ~asker[c].slaver
      [] asker[c].kind = "type" -> IsSelectable(u) /\ ~Retired(d) /\ disps[d].master
      [] asker[c].kind = "rule" -> disps[d].status = "ready" /\ disps[d].master
      [] asker[c].kind = "choice" -> (asker[c].chosen = {} => disps[d].status = "ready") /\ ~Retired(d)
      [] asker[c].kind = "uid" -> ~Retired(d)
      [] asker[c].kind = "route" -> (u \in HomeUids => IsRemoteCallable(u)) /\ ~Retired(d)

\* Whether the service is taken: it must be ready, of the right partition, and master (or, for
\* SelectSlavers, not). SelectByPid, SelectBySvcUid and RouteByPid ask for neither, and
\* SelectByFilterAndChoice asks only before the choice (a closed dispatcher has no pid to choose).
Passes(c) ==
    LET d == asker[c].d
        u == asker[c].cur IN
    CASE asker[c].kind = "name" -> IsSelectable(u) /\ ~Retired(d) /\ Matches(c, u) /\ disps[d].master = ~asker[c].slaver
      [] asker[c].kind = "type" -> IsSelectable(u) /\ ~Retired(d) /\ disps[d].master
      [] asker[c].kind = "rule" -> disps[d].status = "ready" /\ disps[d].master
      [] asker[c].kind = "choice" -> (asker[c].chosen = {} => disps[d].status = "ready") /\ ~Retired(d)
      [] asker[c].kind = "uid" -> ~Retired(d)
      [] asker[c].kind = "route" -> (u \in HomeUids => IsRemoteCallable(u)) /\ ~Retired(d)

\* SelectByRule asks the pid of a closed dispatcher whether it is master: a nil pointer.
Check(c) ==
    /\ asker[c].at = "check"
    /\ asker' = [asker EXCEPT
         ![c].at = IF asker[c].kind = "rule" /\ Retired(asker[c].d) /\ disps[asker[c].d].status = "ready"
                     THEN "panic" ELSE "visit",
         ![c].found = IF Passes(c) /\ ~(asker[c].kind = "rule" /\ Retired(asker[c].d)) THEN @ \cup {asker[c].d} ELSE @]
    /\ UNCHANGED <<stale, readers, senderVars, asks>> /\ Asking

\* SelectByFilterAndChoice looks the chosen ones up again.
AskEnd(c) ==
    /\ asker[c].at = "visit" /\ asker[c].left = {}
    /\ LET again == asker[c].kind = "choice" /\ asker[c].chosen = {} /\ asker[c].found # {}
           uids == {disps[d].uid : d \in asker[c].found} IN
       asker' = IF again THEN [asker EXCEPT ![c].chosen = uids, ![c].left = uids, ![c].found = {}]
                         ELSE [asker EXCEPT ![c].at = "found"]
    /\ readers' = readers \ {c}
    /\ UNCHANGED <<stale, senderVars, asks>> /\ Asking

\* GetDispatcher of a service of another node that is not in the table: AddTmp of a new
\* dispatcher; when there is one already, that is touched and returned and the new one closed.
AddTmp(c) ==
    LET u == asker[c].cur
        new == NewDispatcher(u, TRUE, "ready", "cluster", FALSE) IN
    /\ asker[c].at = "none"
    /\ IF u \in HomeUids
         THEN asker' = [asker EXCEPT ![c].at = "found"] /\ UNCHANGED <<disps, tmpMapPid, stale>>
         ELSE /\ disps' = IF tmpMapPid[u] = 0 THEN Append(disps, new) ELSE disps
              /\ tmpMapPid' = [tmpMapPid EXCEPT ![u] = IF @ = 0 THEN Made + 1 ELSE @]
              /\ stale' = stale \ {u}
              /\ asker' = [asker EXCEPT ![c].at = "found", ![c].found = {tmpMapPid'[u]}]
    /\ UNCHANGED <<mapPID, nameIdx, typeIdx, op, evict, readers, repStop, senderVars, repOps, asks>>

-----------------------------------------------------------------------------
(* Dispatcher.DeliverRequest and the senders it gets.                        *)

\* A closed dispatcher says ErrServiceNotFound.
DeliverTo(c) ==
    /\ asker[c].at = "found"
    /\ \/ asker[c].found = {} /\ asker' = [asker EXCEPT ![c] = NoAsk]
       \/ \E d \in asker[c].found :
            asker' = [asker EXCEPT ![c] = IF Retired(d) THEN NoAsk ELSE [@ EXCEPT !.at = "sender", !.d = d]]
    /\ UNCHANGED <<stale, readers, senderVars, asks>> /\ Asking

\* getSender: of this node the local one; else the one of the address, looked up under the read
\* lock. Of a dispatcher closed since there is no address, and no creator for its empty type.
GetSender(c) ==
    LET d == asker[c].d
        u == disps[d].uid IN
    /\ asker[c].at = "sender"
    /\ asker' = [asker EXCEPT ![c] =
         CASE u \in HomeUids                    -> NoAsk
           [] u \notin HomeUids /\ Retired(d)   -> [@ EXCEPT !.at = "panic"]
           [] u \notin HomeUids /\ ~Retired(d) /\ senders[AddrOf[u]] # 0 -> NoAsk
           [] OTHER                             -> [@ EXCEPT !.at = "create"]]
    /\ UNCHANGED <<stale, readers, senderVars, asks>> /\ Asking

\* addSenderHandler: under the write lock, look again, then create.
AddSenderHandler(c) ==
    LET a == AddrOf[disps[asker[c].d].uid] IN
    /\ asker[c].at = "create"
    /\ IF senders[a] # 0 THEN UNCHANGED senderVars
       ELSE /\ sent' = Append(sent, [addr |-> a, closed |-> FALSE])
            /\ senders' = [senders EXCEPT ![a] = Len(sent) + 1]
    /\ asker' = [asker EXCEPT ![c] = NoAsk]
    /\ UNCHANGED <<stale, readers, asks>> /\ Asking

-----------------------------------------------------------------------------
\* What a call by name, type, rule or choice should find.
Selectable(c) ==
    {u \in Uids : /\ mapPID[u] # 0 /\ op[u] = "idle" /\ Matches(c, u)
                  /\ disps[mapPID[u]].status = "ready" /\ ~disps[mapPID[u]].closed
                  /\ asker[c].kind = "choice" \/ disps[mapPID[u]].master = ~asker[c].slaver}
EverReady == {u \in Uids : mapPID[u] # 0 /\ disps[mapPID[u]].status = "ready"}

Track ==
    /\ steady' = [c \in Askers |-> IF asker[c].at = "idle" THEN Selectable(c)'
                                   ELSE IF asker[c].at \in {"visit", "check"} THEN steady[c] \cap Selectable(c)' ELSE steady[c]]
    /\ ready' = [c \in Askers |-> IF asker[c].at = "idle" THEN EverReady'
                                  ELSE IF asker[c].at \in {"visit", "check"} THEN ready[c] \cup EverReady' ELSE ready[c]]

RepStep ==
    \/ \E u \in Uids :
         \/ AddService(u) \/ UpdateServiceInfo(u) \/ UpdateStatus(u) \/ UpdateVisibility(u) \/ SetMaster(u)
         \/ IndexAdd(u) \/ RemoveService(u) \/ RemoveClose(u) \/ IndexRemove(u)
         \/ Age(u) \/ TickDecide(u) \/ StopStep(u)
    \/ TickDelete \/ RepStopBegin \/ SendersClose
    \/ \E c \in Askers :
         \/ AskBegin(c) \/ Visit(c) \/ Check(c) \/ AskEnd(c) \/ AddTmp(c)
         \/ DeliverTo(c) \/ GetSender(c) \/ AddSenderHandler(c)

RepNext == RepStep /\ Track

RepSpec == RepInit /\ [][RepNext]_repVars

(***************************************************************************)
(* Properties.                                                             *)
(***************************************************************************)
\* A selection by name, type, rule or choice is right although nothing stops the table from
\* changing under it: it finds every service that was registered, ready and master from its
\* beginning to its end, and none that was ready at no time in between.
SelectSound ==
    \A c \in Askers :
        asker[c].at = "found" /\ asker[c].kind \in Searches =>
            LET uids == {disps[d].uid : d \in asker[c].found} IN
            steady[c] \subseteq uids /\ uids \subseteq ready[c]

\* Nothing is left open that nobody can close: an open dispatcher is in the table, is the
\* temporary one of its service, or is being removed; an open sender is the one of its address.
\* So two goroutines that need the same temporary dispatcher or sender at once share one.
HandlesOwned ==
    /\ \A d \in 1..Made : ~disps[d].closed =>
         LET u == disps[d].uid IN
         IF disps[d].tmp THEN tmpMapPid[u] = d ELSE mapPID[u] = d \/ op[u] = "close"
    /\ \A i \in 1..Len(sent) : ~sent[i].closed => senders[sent[i].addr] = i

\* While the repository runs, the two indices and the table agree on every service no
\* operation is under way for: none is listed that is gone, none is registered and cannot be
\* found by name.
IndexExact ==
    repStop.at = "run" =>
        \A u \in Uids : op[u] = "idle" => (mapPID[u] # 0 <=> u \in nameIdx) /\ (u \in nameIdx <=> u \in typeIdx)

\* A selection finds what was ready for it throughout and nothing that never was, table and
\* indices agree, and no dispatcher or sender is left open that nobody can close (Repository.Add,
\* Remove, Select*, AddTmp, SenderHandler).
RepositorySound == SelectSound /\ IndexExact /\ HandlesOwned
=============================================================================
