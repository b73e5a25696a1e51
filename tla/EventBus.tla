------------------------------ MODULE EventBus ------------------------------
(***************************************************************************)
(* Events between the services of a cluster (event/): a module of a        *)
(* service registers callbacks with its Handler, the Processor of the      *)
(* service counts them per topic and subscribes the service with the Bus   *)
(* of the node while it has any, the Bus listens to NATS for the topics    *)
(* that have a subscriber, and a published event goes through NATS, or     *)
(* through a buffer, or straight to the subscribers, whose mailboxes get a *)
(* job each.                                                               *)
(*                                                                         *)
(* The calls of one Handler come from one goroutine and those of one       *)
(* Processor hold its mutex; those of different services, the publishers,  *)
(* the flushes, NATS and Stop run concurrently. In the Bus each topic has  *)
(* a lock, taken here to be of a shard of its own; the maps of one event   *)
(* type are shared by its topics, under different locks. (The runtime may  *)
(* end the process over two such accesses; a behaviour stops there.)       *)
(* NATS is external. Whether a limiter lets an event pass is Throttle's    *)
(* subject: here it may refuse any.                                        *)
(***************************************************************************)
EXTENDS Integers, Sequences, FiniteSets, SequencesExt

CONSTANTS
    Listeners,    \* services of the node
    Elsewhere,    \* those of them in partition 1, the others are in partition 0
    Modules,      \* the modules of a service that register callbacks
    Names,        \* names of callbacks
    Types,        \* event types
    BatchTypes,   \* those of a category that is batched, with a BatchSize above 1
    ServerScoped, \* those of them with the scope of a cluster, a region or a node
    BatchSize,
    Uids,         \* services whose specific events are followed
    MaxCalls,     \* bound: registrations and deregistrations
    MaxEvents,    \* bound: published events
    MaxBusFaults  \* bound: subscriptions NATS refuses and jobs a mailbox refuses

ASSUME EventBusAssumption ==
    /\ Elsewhere \subseteq Listeners /\ BatchTypes \subseteq Types /\ ServerScoped \subseteq BatchTypes /\ BatchSize \in Nat \ {0, 1}
    /\ MaxCalls \in Nat /\ MaxEvents \in Nat /\ MaxBusFaults \in Nat

VARIABLES
    callbacks,   \* Processor: local, global, server and specific
    subCnt,      \* Processor: globalSubCnt, serverSubCnt and specificSubCnt
    call,        \* the call that holds the Processor's mutex: [by, at, topic, listen, todo]
    regs,        \* Handler.regs
    handler,     \* a Handler: "live", "leaving" within UnregisterAll, "dead" after Destroy
    outer,       \* Bus: the groups with an entry in serverSubscribers or specificSubscribers
    inner,       \* Bus: the topics with a map of subscribers
    subscribers, \* Bus: what these maps hold
    torn,        \* history: topics that lost subscribers to a change of the shared map of their group
    subMap,      \* Bus.subMap: the recorded NATS subscription of a topic, 0 if none
    listening,   \* NATS: the live subscriptions of the node to a topic
    deaf,        \* history: topics whose NATS subscription failed
    inbox,       \* NATS: events on their way to a subscription, <<event, subscription>>
    enable,      \* Bus.enable: NATS is connected
    buffer,      \* Bus.eventBuffer
    flushing,    \* the batches of running calls of flushEventBatch
    batchLoop,   \* processBatchedEvents runs
    stranded,    \* history: events that came into the buffer after Stop's last flush
    busStop,     \* Stop: the step it has reached
    event,       \* the call that publishes an event: [at, topic]
    posted,      \* history: how often an event was posted to a service
    owed,        \* history: the subscribers an accepted event has still to reach
    refused,     \* history: the mailbox of a service refused an event, <<event, service>>
    followed,    \* bound: the one group of topics the modules register for and publish
    busCalls, busFaults

registry == <<callbacks, subCnt, regs, handler>>
tables == <<outer, inner, subscribers, torn>>
natsVars == <<subMap, listening, deaf>>
delivery == <<posted, owed, refused>>
batching == <<buffer, flushing, batchLoop, stranded>>
busBounds == <<followed, busCalls, busFaults>>
busVars == <<registry, call, tables, natsVars, inbox, enable, batching, busStop, event, delivery, busBounds>>

Handlers == Listeners \X Modules
BusEvents == 1..MaxEvents

Partition(l) == IF l \in Elsewhere THEN 1 ELSE 0
Local(t) == [scope |-> "local", type |-> t, of |-> 0]
Global(t) == [scope |-> "global", type |-> t, of |-> 0]
Server(t, p) == [scope |-> "server", type |-> t, of |-> p]
Specific(t, u) == [scope |-> "specific", type |-> t, of |-> u]
ClusterTopics == {Global(t) : t \in Types} \cup {Server(t, p) : t \in Types, p \in {0, 1}}
                 \cup {Specific(t, u) : t \in Types, u \in Uids}
\* The topics of one scope and type share the outer map of the Bus, unless they are global.
Group(x) == [scope |-> x.scope, type |-> x.type]
GroupTopics(g) == {x \in ClusterTopics : Group(x) = g}
Shared(x) == x.scope \in {"server", "specific"}
\* The topics a service registers for: server events are those of its own partition.
TopicsOf(l) == {x \in GroupTopics(followed) : x.scope = "server" => x.of = Partition(l)} \cup {Local(followed.type)}

AnyTopic == CHOOSE x \in ClusterTopics : TRUE
NoBusEvent == [at |-> "no", topic |-> AnyTopic]
Call(by, at, x, todo) == [by |-> by, at |-> at, topic |-> x, listen |-> FALSE, todo |-> todo]
NoCall == Call("none", "idle", AnyTopic, {})

BusInit ==
    /\ callbacks = {} /\ subCnt = [l \in Listeners |-> [x \in ClusterTopics |-> 0]]
    /\ call = [l \in Listeners |-> NoCall]
    /\ regs = [h \in Handlers |-> <<>>] /\ handler = [h \in Handlers |-> "live"]
    /\ outer = {} /\ inner = {} /\ subscribers = [x \in ClusterTopics |-> {}] /\ torn = {}
    /\ subMap = [x \in ClusterTopics |-> 0] /\ listening = [x \in ClusterTopics |-> {}] /\ deaf = {}
    /\ inbox = {} /\ enable \in BOOLEAN
    /\ buffer = [t \in Types |-> <<>>] /\ flushing = {} /\ batchLoop = TRUE /\ stranded = {} /\ busStop = "run"
    /\ event = [e \in BusEvents |-> NoBusEvent]
    /\ posted = [e \in BusEvents |-> [l \in Listeners |-> 0]] /\ owed = [e \in BusEvents |-> {}] /\ refused = {}
    /\ followed \in {Group(x) : x \in ClusterTopics} /\ busCalls = 0 /\ busFaults = 0

Fails == busFaults < MaxBusFaults /\ busFaults' = busFaults + 1

\* A call of l on x holds the lock of x.
Busy(l, x) == call[l].at \notin {"idle", "next"} /\ call[l].topic = x
LockHeld(x) == \E l \in Listeners : Busy(l, x)

-----------------------------------------------------------------------------
(* Bus: SubscribeGlobal, SubscribeServer, SubscribeSpecific and their opposites, on the topic   *)
(* call[l].topic, whose lock the call of l holds. Only the lock of the topic is held, so the    *)
(* calls on two topics of a group read and write their outer map in any order.                  *)

CallAt(l, at) == call' = [call EXCEPT ![l].at = at]
\* The call of the Bus returns: a callback is counted, Clear goes on.
Returned(l) == [call EXCEPT ![l] = IF call[l].by = "clear" THEN [@ EXCEPT !.at = "next", !.listen = FALSE] ELSE NoCall]

\* The outer entry of g is replaced or deleted, and with it every map of subscribers in it.
Wipe(g) ==
    /\ inner' = inner \ GroupTopics(g) /\ torn' = torn \cup (inner \cap GroupTopics(g))
    /\ subscribers' = [x \in ClusterTopics |-> IF x \in GroupTopics(g) THEN {} ELSE subscribers[x]]

\* Look up the outer entry, and make it if it was not there.
SubscribeBegin(x, l) ==
    call' = [call EXCEPT ![l] = Call("bind", IF Shared(x) /\ Group(x) \notin outer THEN "make" ELSE "inner", x, {})]
MakeOuter(l) ==
    LET g == Group(call[l].topic) IN
      /\ call[l].at = "make" /\ CallAt(l, "inner") /\ outer' = outer \cup {g} /\ Wipe(g)
      /\ UNCHANGED <<registry, natsVars, inbox, enable, batching, busStop, event, delivery, busBounds>>
\* The call writes to a map that is gone: it panics, its locks are released, and the callback
\* stays bound without being counted.
Panic(l) ==
    LET x == call[l].topic IN
      /\ \/ call[l].at = "inner" /\ Shared(x) /\ Group(x) \notin outer
         \/ call[l].at = "put" /\ x \notin inner
      /\ torn' = torn \cup {x} /\ call' = Returned(l)
      /\ UNCHANGED <<registry, outer, inner, subscribers, natsVars, inbox, enable, batching, busStop, event, delivery,
                     busBounds>>
\* Without a map of subscribers the topic gets one, and the Bus will listen to it.
MakeInner(l) ==
    LET x == call[l].topic IN
      /\ call[l].at = "inner" /\ (Shared(x) => Group(x) \in outer)
      /\ inner' = inner \cup {x} /\ call' = [call EXCEPT ![l].at = "put", ![l].listen = x \notin inner]
      /\ UNCHANGED <<registry, outer, subscribers, torn, natsVars, inbox, enable, batching, busStop, event, delivery,
                     busBounds>>
PutSubscriber(l) ==
    LET x == call[l].topic IN
      /\ call[l].at = "put" /\ x \in inner
      /\ subscribers' = [subscribers EXCEPT ![x] = @ \cup {l}] /\ CallAt(l, "listen")
      /\ UNCHANGED <<registry, outer, inner, torn, natsVars, inbox, enable, batching, busStop, event, delivery, busBounds>>
\* A refusal by NATS is only logged: later subscribers do not try again.
Listen(l) ==
    LET x == call[l].topic
        s == CHOOSE n \in 1..(Cardinality(listening[x]) + 1) : n \notin listening[x]
    IN  /\ call[l].at = "listen" /\ subCnt' = [subCnt EXCEPT ![l][x] = @ + 1] /\ call' = Returned(l)
        /\ \/ /\ call[l].listen /\ enable
              /\ subMap' = [subMap EXCEPT ![x] = s] /\ listening' = [listening EXCEPT ![x] = @ \cup {s}]
              /\ UNCHANGED <<deaf, busFaults>>
           \/ call[l].listen /\ enable /\ Fails /\ deaf' = deaf \cup {x} /\ UNCHANGED <<subMap, listening>>
           \/ ~(call[l].listen /\ enable) /\ UNCHANGED <<natsVars, busFaults>>
        /\ UNCHANGED <<callbacks, regs, handler, tables, inbox, enable, batching, busStop, event, delivery, followed,
                       busCalls>>

\* The events of x that l will not get any more.
Forgive(l, x) == owed' = [e \in BusEvents |-> IF event[e].topic = x THEN owed[e] \ {l} ELSE owed[e]]

\* The subscriber leaves the map of its topic, an empty map leaves the outer one, and an empty
\* outer one is found to be so.
RemoveSubscriber(l) ==
    LET x == call[l].topic
        empty == x \in inner /\ subscribers[x] \subseteq {l}
    IN  /\ call[l].at = "remove" /\ Forgive(l, x)
        /\ subscribers' = [subscribers EXCEPT ![x] = @ \ {l}] /\ inner' = IF empty THEN inner \ {x} ELSE inner
        /\ call' = [call EXCEPT ![l].listen = empty,
                    ![l].at = IF Shared(x) /\ Group(x) \in outer /\ inner' \cap GroupTopics(Group(x)) = {}
                              THEN "drop" ELSE "unlisten"]
        /\ UNCHANGED <<registry, outer, torn, natsVars, inbox, enable, batching, busStop, event, posted, refused, busBounds>>
\* The outer entry is deleted, whatever it holds by now.
DropOuter(l) ==
    LET g == Group(call[l].topic) IN
      /\ call[l].at = "drop" /\ CallAt(l, "unlisten") /\ outer' = outer \ {g} /\ Wipe(g)
      /\ UNCHANGED <<registry, natsVars, inbox, enable, batching, busStop, event, delivery, busBounds>>
\* After the last subscriber the recorded subscription ends, and what NATS had for it is dropped.
Unlisten(l) ==
    LET x == call[l].topic
        ends == call[l].listen /\ enable /\ subMap[x] # 0
    IN  /\ call[l].at = "unlisten" /\ call' = Returned(l)
        /\ subMap' = [subMap EXCEPT ![x] = IF ends THEN 0 ELSE @]
        /\ listening' = [listening EXCEPT ![x] = IF ends THEN @ \ {subMap[x]} ELSE @]
        /\ inbox' = IF ends THEN {m \in inbox : event[m[1]].topic # x \/ m[2] # subMap[x]} ELSE inbox
        /\ deaf' = IF call[l].listen THEN deaf \ {x} ELSE deaf
        /\ UNCHANGED <<registry, tables, enable, batching, busStop, event, delivery, busBounds>>

-----------------------------------------------------------------------------
(* Processor, under its mutex *)

Bound(l, x) == {c \in callbacks : c.by[1] = l /\ c.topic = x}
Callback(h, x, n) == [by |-> h, topic |-> x, name |-> n]

\* (The mutex is free, and so is the lock of the topic when the Bus is called.)
BindCluster(h, x, n) ==
    /\ callbacks' = callbacks \cup {Callback(h, x, n)}
    /\ IF Callback(h, x, n) \in callbacks THEN UNCHANGED <<subCnt, call>>
       ELSE IF subCnt[h[1]][x] > 0 THEN subCnt' = [subCnt EXCEPT ![h[1]][x] = @ + 1] /\ UNCHANGED call
       ELSE ~LockHeld(x) /\ SubscribeBegin(x, h[1]) /\ UNCHANGED subCnt

UnbindCluster(h, x, n) ==
    IF Callback(h, x, n) \notin callbacks THEN UNCHANGED <<callbacks, subCnt, call>>
    ELSE /\ callbacks' = callbacks \ {Callback(h, x, n)}
         /\ subCnt' = [subCnt EXCEPT ![h[1]][x] = IF @ > 1 THEN @ - 1 ELSE 0]
         /\ IF subCnt[h[1]][x] > 1 THEN UNCHANGED call
            ELSE ~LockHeld(x) /\ call' = [call EXCEPT ![h[1]] = Call("unbind", "remove", x, {})]

BindHandler(h, t, n) == callbacks' = callbacks \cup {Callback(h, Local(t), n)} /\ UNCHANGED <<subCnt, call>>
UnbindHandler(h, t, n) == callbacks' = callbacks \ {Callback(h, Local(t), n)} /\ UNCHANGED <<subCnt, call>>
BindGlobalHandler(h, t, n) == BindCluster(h, Global(t), n)
UnbindGlobalHandler(h, t, n) == UnbindCluster(h, Global(t), n)
BindServerHandler(h, t, n) == BindCluster(h, Server(t, Partition(h[1])), n)
UnbindServerHandler(h, t, n) == UnbindCluster(h, Server(t, Partition(h[1])), n)
BindSpecificHandler(h, t, u, n) == BindCluster(h, Specific(t, u), n)
UnbindSpecificHandler(h, t, u, n) == UnbindCluster(h, Specific(t, u), n)

Bind(h, x, n) ==
    CASE x.scope = "local" -> BindHandler(h, x.type, n)
      [] x.scope = "global" -> BindGlobalHandler(h, x.type, n)
      [] x.scope = "server" -> BindServerHandler(h, x.type, n)
      [] OTHER -> BindSpecificHandler(h, x.type, x.of, n)
Unbind(h, x, n) ==
    CASE x.scope = "local" -> UnbindHandler(h, x.type, n)
      [] x.scope = "global" -> UnbindGlobalHandler(h, x.type, n)
      [] x.scope = "server" -> UnbindServerHandler(h, x.type, n)
      [] OTHER -> UnbindSpecificHandler(h, x.type, x.of, n)

\* Clear unsubscribes whatever is counted, in any order, and drops everything.
ClearBegin(l) ==
    /\ call[l] = NoCall /\ busCalls < MaxCalls /\ busCalls' = busCalls + 1
    /\ call' = [call EXCEPT ![l] = Call("clear", "next", AnyTopic, {x \in ClusterTopics : subCnt[l][x] > 0})]
    /\ UNCHANGED <<registry, tables, natsVars, inbox, enable, batching, busStop, event, delivery, followed, busFaults>>
ClearNext(l) ==
    /\ call[l].at = "next"
    /\ \E x \in call[l].todo : /\ ~LockHeld(x)
                               /\ call' = [call EXCEPT ![l] = Call("clear", "remove", x, call[l].todo \ {x})]
    /\ UNCHANGED <<registry, tables, natsVars, inbox, enable, batching, busStop, event, delivery, busBounds>>
ClearEnd(l) ==
    /\ call[l].at = "next" /\ call[l].todo = {} /\ call' = [call EXCEPT ![l] = NoCall]
    /\ callbacks' = {c \in callbacks : c.by[1] # l} /\ subCnt' = [subCnt EXCEPT ![l] = [x \in ClusterTopics |-> 0]]
    /\ UNCHANGED <<regs, handler, tables, natsVars, inbox, enable, batching, busStop, event, delivery, busBounds>>

-----------------------------------------------------------------------------
(* Handler: what it registered is noted in regs, so that Destroy can undo it *)

Reg(x, n) == [topic |-> x, name |-> n]

\* RegisterEvent, RegisterGlobalEvent, RegisterServerEvent, RegisterSpecificEvent.
Register(h, x, n) ==
    /\ handler[h] = "live" /\ call[h[1]] = NoCall /\ busCalls < MaxCalls /\ busCalls' = busCalls + 1
    /\ regs' = [regs EXCEPT ![h] = Append(@, Reg(x, n))] /\ Bind(h, x, n)
    /\ UNCHANGED <<handler, tables, natsVars, inbox, enable, batching, busStop, event, delivery, followed, busFaults>>

RemoveFirstReg(s, r) ==
    IF r \in Range(s) THEN RemoveAt(s, Min({i \in 1..Len(s) : s[i] = r})) ELSE s

\* (Taking back what was never registered changes nothing.)
Unregister(h, x, n) ==
    /\ handler[h] = "live" /\ (Reg(x, n) \in Range(regs[h]) \/ Callback(h, x, n) \in callbacks)
    /\ call[h[1]] = NoCall /\ busCalls < MaxCalls /\ busCalls' = busCalls + 1
    /\ regs' = [regs EXCEPT ![h] = RemoveFirstReg(@, Reg(x, n))] /\ Unbind(h, x, n)
    /\ UNCHANGED <<handler, tables, natsVars, inbox, enable, batching, busStop, event, delivery, followed, busFaults>>

\* Destroy: UnregisterAll takes a copy of regs and undoes it entry by entry.
DestroyBegin(h) ==
    /\ handler[h] = "live" /\ call[h[1]] = NoCall /\ busCalls < MaxCalls /\ busCalls' = busCalls + 1
    /\ handler' = [handler EXCEPT ![h] = "leaving"]
    /\ UNCHANGED <<callbacks, subCnt, regs, call, tables, natsVars, inbox, enable, batching, busStop, event, delivery,
                   followed, busFaults>>
UnregisterAll(h) ==
    /\ handler[h] = "leaving" /\ regs[h] # <<>> /\ call[h[1]] = NoCall
    /\ regs' = [regs EXCEPT ![h] = Tail(@)] /\ Unbind(h, Head(regs[h]).topic, Head(regs[h]).name)
    /\ UNCHANGED <<handler, tables, natsVars, inbox, enable, batching, busStop, event, delivery, busBounds>>
DestroyEnd(h) ==
    /\ handler[h] = "leaving" /\ regs[h] = <<>> /\ call[h[1]] = NoCall /\ handler' = [handler EXCEPT ![h] = "dead"]
    /\ UNCHANGED <<callbacks, subCnt, regs, call, tables, natsVars, inbox, enable, batching, busStop, event, delivery,
                   busBounds>>

-----------------------------------------------------------------------------
(* Bus: events *)

\* publishGlobal, publishServer, publishSpecific: a job for each subscriber, under the lock of
\* the topic. A mailbox may refuse its job, which is only logged.
PostTo(e, x) ==
    \E refuse \in {{}} \cup {{l} : l \in subscribers[x]} :
        /\ ~LockHeld(x) /\ IF refuse = {} THEN UNCHANGED busFaults ELSE Fails
        /\ posted' = [posted EXCEPT ![e] = [l \in Listeners |-> IF l \in subscribers[x] THEN @[l] + 1 ELSE @[l]]]
        /\ owed' = [owed EXCEPT ![e] = @ \ (subscribers[x] \ refuse)]
        /\ refused' = refused \cup {<<e, l>> : l \in refuse}
publishGlobal(e, t) == PostTo(e, Global(t))
publishServer(e, t, p) == PostTo(e, Server(t, p))
publishSpecific(e, t, u) == PostTo(e, Specific(t, u))
PublishLocally(e, x) ==
    CASE x.scope = "global" -> publishGlobal(e, x.type)
      [] x.scope = "server" -> publishServer(e, x.type, x.of)
      [] OTHER -> publishSpecific(e, x.type, x.of)

Answer(e, at) == event' = [event EXCEPT ![e].at = at]

\* A new event: PublishGlobal, PublishServer and PublishSpecific have marshalled it, and
\* PublishGlobal has read that NATS is on to choose between the buffer and publishing at once.
Publish(e, x) ==
    /\ event[e].at = "no" /\ \A f \in 1..(e - 1) : event[f].at # "no"
    /\ event' = [event EXCEPT ![e] = [topic |-> x, at |-> IF x.scope = "global" /\ x.type \in BatchTypes /\ enable
                                                          THEN "batch" ELSE "send"]]
    /\ UNCHANGED <<registry, call, tables, natsVars, inbox, enable, batching, busStop, delivery, busBounds>>

\* The limiter of the type refuses the event.
PublishThrottled(e) ==
    /\ event[e].at \in {"batch", "send"} /\ event[e].topic.scope = "global" /\ Fails /\ Answer(e, "error")
    /\ UNCHANGED <<registry, call, tables, natsVars, inbox, enable, batching, busStop, delivery, followed, busCalls>>

\* publishImmediately, PublishServer and PublishSpecific look whether NATS is on; the connection
\* may be closed before they use it. It hands the event to the node's own subscriptions too.
ChooseNats(e) ==
    /\ event[e].at = "send" /\ enable /\ Answer(e, "nats")
    /\ UNCHANGED <<registry, call, tables, natsVars, inbox, enable, batching, busStop, delivery, busBounds>>
SendNats(e) ==
    /\ event[e].at = "nats" /\ enable /\ Answer(e, "ok")
    /\ LET x == event[e].topic IN
         /\ inbox' = inbox \cup {<<e, s>> : s \in listening[x]}
         /\ owed' = [owed EXCEPT ![e] = IF listening[x] = {} THEN {} ELSE subscribers[x]]
    /\ UNCHANGED <<registry, call, tables, natsVars, enable, batching, busStop, posted, refused, busBounds>>
SendClosed(e) ==
    /\ event[e].at = "nats" /\ ~enable /\ Answer(e, "error")
    /\ UNCHANGED <<registry, call, tables, natsVars, inbox, enable, batching, busStop, delivery, busBounds>>
\* Without NATS, and the ...Local variants: straight to the subscribers.
SendLocal(e) ==
    /\ event[e].at = "send" /\ ~enable /\ Answer(e, "ok") /\ PublishLocally(e, event[e].topic)
    /\ UNCHANGED <<registry, call, tables, natsVars, inbox, enable, batching, busStop, followed, busCalls>>
\* The callback of a subscription: unmarshalEvent, and on to the local subscribers. (In which
\* order a subscription gets its events is no property's subject.)
NatsReceive(m) ==
    /\ inbox' = inbox \ {m} /\ PublishLocally(m[1], event[m[1]].topic)
    /\ UNCHANGED <<registry, call, tables, natsVars, enable, batching, busStop, event, followed, busCalls>>

Full(t) == Len(buffer[t]) + 1 >= BatchSize

\* Mutant: a full batch is handed over and stays in the buffer.
AddToBatchKeeps(e) ==
    /\ event[e].at = "batch" /\ Answer(e, "ok") /\ owed' = [owed EXCEPT ![e] = subscribers[event[e].topic]]
    /\ LET t == event[e].topic.type IN
         /\ buffer' = [buffer EXCEPT ![t] = Append(@, e)]
         /\ flushing' = IF Full(t) THEN flushing \cup {Append(buffer[t], e)} ELSE flushing
    /\ UNCHANGED <<registry, call, tables, natsVars, inbox, enable, batchLoop, stranded, busStop, posted, refused,
                   busBounds>>

\* addToBatch: a full batch is flushed by a goroutine of its own. The publisher is told nil;
\* after Stop's last flush nothing looks at the buffer any more.
AddToBatch(e) ==
    /\ event[e].at = "batch" /\ Answer(e, "ok") /\ owed' = [owed EXCEPT ![e] = subscribers[event[e].topic]]
    /\ LET t == event[e].topic.type IN
         IF Full(t) THEN /\ buffer' = [buffer EXCEPT ![t] = <<>>] /\ UNCHANGED stranded
                         /\ flushing' = flushing \cup {Append(buffer[t], e)}
         ELSE /\ buffer' = [buffer EXCEPT ![t] = Append(@, e)] /\ UNCHANGED flushing
              /\ stranded' = IF busStop = "done" THEN stranded \cup {e} ELSE stranded
    /\ UNCHANGED <<registry, call, tables, natsVars, inbox, enable, batchLoop, busStop, posted, refused, busBounds>>

\* flushAllBuffers takes the whole buffer; flushEventBatch hands the events to the subscribers
\* of this node one by one, also with NATS on, those of a server-scoped type to the subscribers
\* of server events of partition 0.
TakeBuffers ==
    /\ buffer' = [t \in Types |-> <<>>]
    /\ flushing' = flushing \cup {buffer[t] : t \in {u \in Types : buffer[u] # <<>>}}
BatchTick ==
    /\ batchLoop /\ (\E t \in Types : buffer[t] # <<>>) /\ TakeBuffers
    /\ UNCHANGED <<registry, call, tables, natsVars, inbox, enable, batchLoop, stranded, busStop, event, delivery, busBounds>>
FlushEvent(b) ==
    /\ flushing' = (flushing \ {b}) \cup (IF Len(b) > 1 THEN {Tail(b)} ELSE {})
    /\ LET t == event[Head(b)].topic.type IN
         IF t \in ServerScoped THEN publishServer(Head(b), t, 0) ELSE publishGlobal(Head(b), t)
    /\ UNCHANGED <<registry, call, tables, natsVars, inbox, enable, buffer, batchLoop, stranded, busStop, event, followed,
                   busCalls>>
BatchLoopExit ==
    /\ batchLoop /\ busStop \in {"flush", "done"} /\ batchLoop' = FALSE
    /\ UNCHANGED <<registry, call, tables, natsVars, inbox, enable, buffer, flushing, stranded, busStop, event, delivery,
                   busBounds>>

\* Stop: the connection, then the ticker, then what is left in the buffer.
StopNats ==
    /\ busStop = "run" /\ busStop' = "ticker" /\ enable' = FALSE /\ inbox' = {}
    /\ listening' = [x \in ClusterTopics |-> {}]
    /\ owed' = [e \in BusEvents |-> IF \E m \in inbox : m[1] = e THEN {} ELSE owed[e]]
    /\ UNCHANGED <<registry, call, tables, subMap, deaf, batching, event, posted, refused, busBounds>>
StopTicker ==
    /\ busStop = "ticker" /\ busStop' = "flush"
    /\ UNCHANGED <<registry, call, tables, natsVars, inbox, enable, batching, event, delivery, busBounds>>
\* Mutant: Stop leaves the buffer alone.
StopWithoutFlush ==
    /\ busStop = "flush" /\ busStop' = "done"
    /\ UNCHANGED <<registry, call, tables, natsVars, inbox, enable, batching, event, delivery, busBounds>>
StopFlush ==
    /\ busStop = "flush" /\ busStop' = "done" /\ TakeBuffers
    /\ UNCHANGED <<registry, call, tables, natsVars, inbox, enable, batchLoop, stranded, event, delivery, busBounds>>

-----------------------------------------------------------------------------

HandlerStep(h) ==
    \/ \E x \in TopicsOf(h[1]), n \in Names : Register(h, x, n) \/ Unregister(h, x, n)
    \/ DestroyBegin(h) \/ UnregisterAll(h) \/ DestroyEnd(h)
CallStep(l) ==
    \/ MakeOuter(l) \/ Panic(l) \/ MakeInner(l) \/ PutSubscriber(l) \/ Listen(l)
    \/ RemoveSubscriber(l) \/ DropOuter(l) \/ Unlisten(l) \/ ClearNext(l) \/ ClearEnd(l)
PublishStep(e) == PublishThrottled(e) \/ ChooseNats(e) \/ SendNats(e) \/ SendClosed(e) \/ SendLocal(e) \/ AddToBatch(e)
FlushStep == BatchTick \/ (\E b \in flushing : FlushEvent(b))
StopBus == StopTicker \/ StopFlush

BusNext ==
    \/ \E h \in Handlers : HandlerStep(h)
    \/ \E l \in Listeners : CallStep(l) \/ ClearBegin(l)
    \/ \E e \in BusEvents : PublishStep(e) \/ \E x \in GroupTopics(followed) : Publish(e, x)
    \/ \E m \in inbox : NatsReceive(m)
    \/ FlushStep \/ BatchLoopExit \/ StopNats \/ StopBus

\* Calls of the Processor, publishers, the batch loop, flushes, NATS and a begun Stop go on.
BusFairness ==
    /\ \A l \in Listeners : WF_busVars(CallStep(l))
    /\ WF_busVars(\E e \in BusEvents : PublishStep(e)) /\ WF_busVars(\E m \in inbox : NatsReceive(m))
    /\ WF_busVars(BatchTick) /\ WF_busVars(\E b \in flushing : FlushEvent(b)) /\ WF_busVars(StopBus)
BusSpec == BusInit /\ [][BusNext]_busVars /\ BusFairness

-----------------------------------------------------------------------------
(* Properties *)

\* The processor's counts, the bus's tables and the NATS subscriptions tell the same story
\* whatever services register, deregister, clear and destroy at the same time: between its calls
\* a service is in the table of a topic only while one of its callbacks is bound to it; it is
\* there whenever one is, its callbacks are all counted, and the bus listens once to a topic that
\* has a subscriber (unless NATS refused) and not to another, except for a topic whose group had
\* its outer map changed under it, which a global topic never has; and a destroyed handler has no
\* callback left (processor.go BindServerHandler, UnbindServerHandler, bus_server.go
\* SubscribeServer, UnSubscribeServer, handler.go UnregisterAll).
SubscriptionExact ==
    /\ \A l \in Listeners, x \in ClusterTopics : call[l] = NoCall =>
         /\ l \in subscribers[x] => Bound(l, x) # {}
         /\ x \notin torn => /\ subCnt[l][x] = Cardinality(Bound(l, x))
                             /\ Bound(l, x) # {} => l \in subscribers[x]
    /\ enable => \A x \in ClusterTopics \ torn : ~LockHeld(x) =>
         IF subscribers[x] = {} THEN listening[x] = {} /\ subMap[x] = 0
         ELSE x \in deaf \/ (subMap[x] # 0 /\ listening[x] = {subMap[x]})
    /\ \A x \in torn : Shared(x)
    /\ \A h \in Handlers : handler[h] = "dead" => ~\E c \in callbacks : c.by = h

\* No service gets an event twice, whichever way it came: NATS's echo, a batch, or at once,
\* unless its topic was torn (bus_global.go addToBatch, publishImmediately).
EventOnce == \A e \in BusEvents, l \in Listeners : event[e].topic \notin torn => posted[e][l] <= 1

\* Subscriptions follow the registered callbacks, and no service is given an event twice
\* (Processor, EventBus, addToBatch).
EventsSound == SubscriptionExact /\ EventOnce

\* An event whose publisher was told nil is in the end accepted or refused by the mailbox of
\* every service that was subscribed on this node then and stays subscribed, also when it waits
\* in the buffer as Stop begins (bus_batch.go flushAllBuffers, eventBus.go Stop). Excepted: an
\* event that came into the buffer after Stop's last flush, one NATS had not delivered as its
\* connection closed, one of a server-scoped type, one whose topic NATS refused to subscribe to
\* or was torn. (Other nodes get no event that went through the buffer: see the README.)
EventsArrive ==
    <>[](\A e \in BusEvents :
            event[e].at = "ok" /\ e \notin stranded /\ event[e].topic \notin torn /\ event[e].topic.type \notin ServerScoped
            => \A l \in owed[e] : <<e, l>> \in refused)
=============================================================================
