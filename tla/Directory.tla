----------------------------- MODULE Directory -----------------------------
(***************************************************************************)
(* How a node learns of the services of the others: the entries under Path *)
(* in etcd are read once and watched (cluster/discovery/etcd/discovery.go),*)
(* every change is pushed as an event to the shards of the cluster         *)
(* (cluster/cluster.go), whose workers keep the repository of dispatchers  *)
(* (cluster/endpoints), until the cluster is closed.                       *)
(*                                                                         *)
(* The other nodes and etcd are external: a service is registered, changed *)
(* and unregistered at any time.                                           *)
(***************************************************************************)
EXTENDS Integers, Sequences, FiniteSets

CONSTANTS
    Keys,          \* the entries of services of other nodes
    Workers,       \* workerCount
    ShardOf,       \* the hash of a key modulo workerCount
    KeyGetter,     \* whether an event's data has a GetKey; the KeyValue of etcd v3.5.21 has none
    ShardCap,      \* EventChannelSize
    MaxWrites,     \* bound: changes of the entries
    MaxDirFaults   \* bound: failed reads, failed watches and new clients

ASSUME DirectoryAssumption ==
    /\ Keys # {} /\ Workers \in Nat \ {0} /\ ShardOf \in [Keys -> 0..(Workers - 1)] /\ KeyGetter \in BOOLEAN
    /\ ShardCap \in Nat \ {0} /\ MaxWrites \in Nat /\ MaxDirFaults \in Nat

Shards == 0..(Workers - 1)

VARIABLES
    store,      \* etcd: the value of an entry, 0 when absent
    hist,       \* etcd: the events [key, val] so far, val 0 for a deletion
    watcher,    \* watchLoop: [at, pos], pos events of hist received
    sync,       \* syncInitialState: [at, left, pos], the entries left to push of the state after pos events
    push,       \* the calls of PushEvent of both: [at, ev]
    shardMu,    \* [readers, writer]
    shard,      \* the queues of the shards
    open,       \* the shards are not closed
    closer,     \* Close
    keyMap, known, disp, index,   \* the repository: keyMap, mapPID, its dispatchers and the index tables
    work,       \* shardWorker: [at, ev]
    dirFaults,  \* faults so far
    lost        \* history: keys of which an event was missed, or overtaken by an older one

dirVars == <<store, hist, watcher, sync, push, shardMu, shard, open, closer, keyMap, known, disp, index,
             work, dirFaults, lost>>
repository == <<keyMap, known, disp, index>>
cluster == <<push, shardMu, shard, open, closer, work>>

Pushers == {"watch", "sync"}
NoEvent == [key |-> CHOOSE k \in Keys : TRUE, val |-> 0, no |-> 0]
Event(k, v, i) == [key |-> k, val |-> v, no |-> i]

DirInit ==
    /\ store \in [Keys -> {0, 1}] /\ hist = <<>>
    /\ watcher = [at |-> "off", pos |-> 0] /\ sync = [at |-> "off", left |-> {}, pos |-> 0]
    /\ push = [p \in Pushers |-> [at |-> "idle", ev |-> NoEvent]]
    /\ shardMu = [readers |-> {}, writer |-> FALSE]
    /\ shard = [s \in Shards |-> <<>>] /\ open = TRUE /\ closer = "no"
    /\ keyMap = {} /\ known = [k \in Keys |-> 0] /\ disp = [k \in Keys |-> "none"] /\ index = {}
    /\ work = [s \in Shards |-> [at |-> "idle", ev |-> NoEvent]]
    /\ dirFaults = 0 /\ lost = {}

\* The keys of the events of hist after the first i.
KeysAfter(i) == {hist[j].key : j \in (i + 1)..Len(hist)}

-----------------------------------------------------------------------------
(* etcd: another node writes an entry, or its lease ends. *)

WriteEntry(k, v) ==
    /\ Len(hist) < MaxWrites /\ store[k] # v
    /\ store' = [store EXCEPT ![k] = v] /\ hist' = Append(hist, [key |-> k, val |-> v])
    /\ lost' = IF watcher.at = "blind" THEN lost \cup {k} ELSE lost
    /\ UNCHANGED <<watcher, sync, cluster, repository, dirFaults>>
PutEntry(k) == WriteEntry(k, Len(hist) + 2)
DeleteEntry(k) == WriteEntry(k, 0)

-----------------------------------------------------------------------------
(* EtcdDiscovery *)

\* Start: go watchLoop, then syncInitialState beside it.
DiscoveryStart ==
    /\ watcher.at = "off" /\ watcher' = [watcher EXCEPT !.at = "new"] /\ sync' = [sync EXCEPT !.at = "get"]
    /\ UNCHANGED <<store, hist, cluster, repository, dirFaults, lost>>

\* The watch has no revision: what happened after the snapshot and before it is missed.
WatchPrefix ==
    /\ watcher.at = "new" /\ watcher' = [at |-> "on", pos |-> Len(hist)]
    /\ lost' = IF sync.at = "get" THEN lost ELSE lost \cup KeysAfter(sync.pos)
    /\ UNCHANGED <<store, hist, sync, cluster, repository, dirFaults>>

Ctx == closer \in {"no", "closed"}
Idle(p) == push[p].at = "idle"
CallPush(p, ev) == push' = [push EXCEPT ![p] = [at |-> "check", ev |-> ev]]

WatchReceive ==
    /\ watcher.at = "on" /\ Idle("watch") /\ watcher.pos < Len(hist)
    /\ LET i == watcher.pos + 1 IN
         watcher' = [watcher EXCEPT !.pos = i] /\ CallPush("watch", Event(hist[i].key, hist[i].val, i))
    /\ UNCHANGED <<store, hist, sync, shardMu, shard, open, closer, repository, work, dirFaults, lost>>

\* An error of the watch, or reconnectAndRecover closing the client it belongs to: a new
\* watch, again without a revision, or a closed channel that yields empty answers forever.
WatchFails ==
    /\ watcher.at = "on" /\ Idle("watch") /\ dirFaults < MaxDirFaults /\ dirFaults' = dirFaults + 1
    /\ watcher' \in {[at |-> "on", pos |-> Len(hist)], [at |-> "blind", pos |-> Len(hist)]}
    /\ lost' = lost \cup KeysAfter(watcher.pos)
    /\ UNCHANGED <<store, hist, sync, cluster, repository>>
WatchLoopExit ==
    /\ watcher.at \in {"on", "blind"} /\ Idle("watch") /\ ~Ctx
    /\ watcher' = [watcher EXCEPT !.at = "done"]
    /\ UNCHANGED <<store, hist, sync, cluster, repository, dirFaults, lost>>

\* syncInitialState: the snapshot makes up for a missed put, not for a missed deletion, and
\* a failed read leaves out whatever is registered.
GetPrefix ==
    /\ sync.at = "get"
    /\ \/ /\ sync' = [at |-> "push", pos |-> Len(hist),
                      left |-> {Event(k, store[k], Len(hist)) : k \in {j \in Keys : store[j] # 0}}]
          /\ lost' = {k \in lost : store[k] = 0}
          /\ UNCHANGED dirFaults
       \/ /\ dirFaults < MaxDirFaults /\ dirFaults' = dirFaults + 1
          /\ sync' = [at |-> "done", left |-> {}, pos |-> Len(hist)] /\ lost' = Keys
    /\ UNCHANGED <<store, hist, watcher, cluster, repository>>
SyncPush ==
    /\ sync.at = "push" /\ Idle("sync")
    /\ IF sync.left = {} THEN sync' = [sync EXCEPT !.at = "done"] /\ UNCHANGED push
       ELSE \E ev \in sync.left : sync' = [sync EXCEPT !.left = @ \ {ev}] /\ CallPush("sync", ev)
    /\ UNCHANGED <<store, hist, watcher, shardMu, shard, open, closer, repository, work, dirFaults, lost>>

-----------------------------------------------------------------------------
(* Cluster.PushEvent *)

Closed == closer # "no"
MoveTo(p, at) == push' = [push EXCEPT ![p] = [at |-> at, ev |-> IF at = "idle" THEN NoEvent ELSE @.ev]]

PushCheck(p) ==
    /\ push[p].at = "check" /\ MoveTo(p, IF Closed THEN "idle" ELSE "lock")
    /\ UNCHANGED <<store, hist, watcher, sync, shardMu, shard, open, closer, repository, work, dirFaults, lost>>
PushLock(p) ==
    /\ push[p].at = "lock" /\ ~shardMu.writer
    /\ shardMu' = [shardMu EXCEPT !.readers = @ \cup {p}] /\ MoveTo(p, "recheck")
    /\ UNCHANGED <<store, hist, watcher, sync, shard, open, closer, repository, work, dirFaults, lost>>
RUnlock(p) == shardMu' = [shardMu EXCEPT !.readers = @ \ {p}] /\ MoveTo(p, "idle")
PushRecheck(p) ==
    /\ push[p].at = "recheck"
    /\ IF Closed THEN RUnlock(p) ELSE MoveTo(p, "send") /\ UNCHANGED shardMu
    /\ UNCHANGED <<store, hist, watcher, sync, shard, open, closer, repository, work, dirFaults, lost>>

\* Mutant: the shard is chosen by the type of the event.
ShardIndexOfType(ev) == IF ev.val = 0 THEN 1 ELSE 0

\* shardIndex: the hash of the key, so that the events of one key stay in order; an event in which
\* eventShardKey finds no key goes to shard 0.
ShardIndex(ev) == IF KeyGetter THEN ShardOf[ev.key] ELSE 0

Room(s) == Len(shard[s]) < ShardCap

\* An event of the snapshot sent after a later one of its key leaves the view wrong, until
\* the next event of the key.
Newest(ev) == \A j \in (ev.no + 1)..watcher.pos : hist[j].key # ev.key
Unsent(k) == push["watch"].at # "idle" /\ push["watch"].ev.key = k
LostBySend(p, ev) ==
    IF p = "watch" THEN lost \ {ev.key}
    ELSE IF Newest(ev) \/ Unsent(ev.key) THEN lost ELSE lost \cup {ev.key}
PushSend(p) ==
    /\ push[p].at = "send" /\ RUnlock(p)
    /\ LET ev == push[p].ev  s == ShardIndex(ev) IN
         \/ /\ open /\ Room(s)
            /\ shard' = [shard EXCEPT ![s] = Append(@, ev)] /\ lost' = LostBySend(p, ev)
         \/ Closed /\ UNCHANGED <<shard, lost>>
    /\ UNCHANGED <<store, hist, watcher, sync, open, closer, repository, work, dirFaults>>

-----------------------------------------------------------------------------
(* shardWorker and the repository *)

WorkAt(s, at, ev) == work' = [work EXCEPT ![s] = [at |-> at, ev |-> ev]]
Done(s) == WorkAt(s, "idle", NoEvent)

WorkTake(s) ==
    /\ work[s].at = "idle"
    /\ \/ /\ shard[s] # <<>> /\ shard' = [shard EXCEPT ![s] = Tail(@)]
          /\ WorkAt(s, "map", Head(shard[s]))
       \/ /\ shard[s] = <<>> /\ ~open /\ WorkAt(s, "done", NoEvent) /\ UNCHANGED shard
    /\ UNCHANGED <<store, hist, watcher, sync, push, shardMu, open, closer, repository, dirFaults, lost>>

\* updateServiceInfo, AddWithMeta: a service that is known keeps its dispatcher and takes
\* the status, the visibility and the master flag.
AddWithMeta(s, ev) ==
    /\ ev.val # 0
    /\ keyMap' = keyMap \cup {ev.key} /\ known' = [known EXCEPT ![ev.key] = ev.val]
    /\ IF known[ev.key] # 0 THEN UNCHANGED disp /\ Done(s)
       ELSE disp' = [disp EXCEPT ![ev.key] = "open"] /\ WorkAt(s, "index", ev)
    /\ UNCHANGED index

\* removeServiceInfo, Remove: the dispatcher is closed; one that Stop had closed has no pid
\* left to take out of the index.
RemoveEndpoint(s, ev) ==
    /\ ev.val = 0
    /\ keyMap' = keyMap \ {ev.key}
    /\ IF ev.key \notin keyMap \/ known[ev.key] = 0
       THEN UNCHANGED <<known, disp>> /\ Done(s)
       ELSE /\ known' = [known EXCEPT ![ev.key] = 0] /\ disp' = [disp EXCEPT ![ev.key] = "closed"]
            /\ IF disp[ev.key] = "open" THEN WorkAt(s, "index", ev) ELSE Done(s)
    /\ UNCHANGED index
WorkMap(s) ==
    /\ work[s].at = "map" /\ (AddWithMeta(s, work[s].ev) \/ RemoveEndpoint(s, work[s].ev))
    /\ UNCHANGED <<store, hist, watcher, sync, push, shardMu, shard, open, closer, dirFaults, lost>>

\* indexAdd and indexRemove
WorkIndex(s) ==
    /\ work[s].at = "index" /\ Done(s)
    /\ index' = IF work[s].ev.val # 0 THEN index \cup {work[s].ev.key} ELSE index \ {work[s].ev.key}
    /\ UNCHANGED <<store, hist, watcher, sync, push, shardMu, shard, open, closer, keyMap, known, disp, dirFaults, lost>>

-----------------------------------------------------------------------------
(* Cluster.Close, of a cluster that was started *)

GoOn(from, to) == closer = from /\ closer' = to
CloseBegin ==
    /\ sync.at = "done" /\ GoOn("no", "closed")
    /\ UNCHANGED <<store, hist, watcher, sync, push, shardMu, shard, open, repository, work, dirFaults, lost>>
CloseDiscovery ==
    /\ GoOn("closed", "endpoints")
    /\ UNCHANGED <<store, hist, watcher, sync, push, shardMu, shard, open, repository, work, dirFaults, lost>>
\* EndpointManager.Stop, Repository.Stop: the dispatchers are closed.
CloseEndpoints ==
    /\ GoOn("endpoints", "lock")
    /\ disp' = [k \in Keys |-> IF known[k] # 0 THEN "closed" ELSE disp[k]]
    /\ UNCHANGED <<store, hist, watcher, sync, push, shardMu, shard, open, keyMap, known, index, work, dirFaults, lost>>
\* A waiting writer keeps new readers out.
CloseLock ==
    /\ GoOn("lock", "shards") /\ shardMu' = [shardMu EXCEPT !.writer = TRUE]
    /\ UNCHANGED <<store, hist, watcher, sync, push, shard, open, repository, work, dirFaults, lost>>

\* Mutant: the shards are closed without the lock.
UnlockedNow == TRUE

Unlocked == shardMu.readers = {}
CloseShards ==
    /\ GoOn("shards", "wait") /\ Unlocked
    /\ open' = FALSE /\ shardMu' = [shardMu EXCEPT !.writer = FALSE]
    /\ UNCHANGED <<store, hist, watcher, sync, push, shard, repository, work, dirFaults, lost>>
CloseWait ==
    /\ GoOn("wait", "done") /\ \A s \in Shards : work[s].at = "done"
    /\ UNCHANGED <<store, hist, watcher, sync, push, shardMu, shard, open, repository, work, dirFaults, lost>>

Close == CloseDiscovery \/ CloseEndpoints \/ CloseLock \/ CloseShards \/ CloseWait

-----------------------------------------------------------------------------
WatchLoop == WatchPrefix \/ WatchReceive \/ WatchLoopExit
SyncInitialState == GetPrefix \/ SyncPush
PushEvent(p) == PushCheck(p) \/ PushLock(p) \/ PushRecheck(p) \/ PushSend(p)
ShardWorker(s) == WorkTake(s) \/ WorkMap(s) \/ WorkIndex(s)

DirNext ==
    \/ \E k \in Keys : PutEntry(k) \/ DeleteEntry(k)
    \/ DiscoveryStart \/ WatchLoop \/ WatchFails \/ SyncInitialState
    \/ \E p \in Pushers : PushEvent(p)
    \/ \E s \in Shards : ShardWorker(s)
    \/ CloseBegin \/ Close

\* Goroutines run; nothing is assumed of when the cluster starts, closes or fails.
DirFairness ==
    /\ WF_dirVars(WatchLoop) /\ WF_dirVars(SyncInitialState) /\ WF_dirVars(Close)
    /\ \A p \in Pushers : WF_dirVars(PushEvent(p))
    /\ \A s \in Shards : WF_dirVars(ShardWorker(s))

DirSpec == DirInit /\ [][DirNext]_dirVars /\ DirFairness

-----------------------------------------------------------------------------
EventSet == [key : Keys, val : 0..(MaxWrites + 1), no : 0..MaxWrites]

\* The types of the etcd entries and of the two goroutines that follow them.
FollowOK ==
    /\ store \in [Keys -> 0..(MaxWrites + 1)]
    /\ hist \in Seq([key : Keys, val : 0..(MaxWrites + 1)]) /\ Len(hist) <= MaxWrites
    /\ watcher \in [at : {"off", "new", "on", "blind", "done"}, pos : 0..Len(hist)]
    /\ sync \in [at : {"off", "get", "push", "done"}, left : SUBSET EventSet, pos : 0..Len(hist)]
    /\ dirFaults \in 0..MaxDirFaults /\ lost \subseteq Keys

\* The types of the cluster; the readers of shardMu are the calls of PushEvent that hold it.
ClusterOK ==
    /\ push \in [Pushers -> [at : {"idle", "check", "lock", "recheck", "send"}, ev : EventSet]]
    /\ shardMu \in [readers : SUBSET Pushers, writer : BOOLEAN]
    /\ shardMu.readers = {p \in Pushers : push[p].at \in {"recheck", "send"}}
    /\ shard \in [Shards -> Seq(EventSet)] /\ \A s \in Shards : Len(shard[s]) <= ShardCap
    /\ work \in [Shards -> [at : {"idle", "map", "index", "done"}, ev : EventSet]]
    /\ open \in BOOLEAN /\ closer \in {"no", "closed", "endpoints", "lock", "shards", "wait", "done"}

\* The types of the repository.
RepositoryOK ==
    /\ keyMap \subseteq Keys /\ known \in [Keys -> 0..(MaxWrites + 1)] /\ index \subseteq Keys
    /\ disp \in [Keys -> {"none", "open", "closed"}]

DirTypeOK == FollowOK /\ ClusterOK /\ RepositoryOK

\* Close closes the shards only when no PushEvent can send to one: a send on a closed
\* channel would panic.
NoSendOnClosed == \A p \in Pushers : push[p].at = "send" => open

\* PushEvent and Close keep the shards and their lock well formed, and no send meets a closed
\* shard (Cluster.PushEvent, Cluster.Close).
SendsSound == DirTypeOK /\ NoSendOnClosed

\* Once the entries stay as they are, a running node knows each service exactly as etcd has
\* it, with an open dispatcher and an entry in the index, unless an event of it was missed
\* (the watch began after the snapshot, failed or ended) or overtaken by the snapshot.
Right(k) ==
    /\ known[k] = store[k]
    /\ store[k] # 0 <=> k \in index
    /\ store[k] # 0 => disp[k] = "open"
ViewConverges == <>[](watcher.at = "off" \/ Closed \/ \A k \in Keys \ lost : Right(k))
=============================================================================
