------------------------------ MODULE RpcCall ------------------------------
(***************************************************************************)
(* RPC between services: the message bus (bus.go), the monitor of pending  *)
(* calls (monitor.go, call_state.go), the senders (sender*.go), the        *)
(* receiving side (remote/handler/handler.go, core/rpc/handler.go,         *)
(* dedup.go) and the pooled objects they hand to each other.               *)
(*                                                                         *)
(* A call is one use of a request id.  Its CallState and its envelopes are *)
(* objects of sync.Pools, modelled as slots with a reference flag, because *)
(* what can go wrong is one goroutine that still uses an object after      *)
(* another put it back and a third took it again.                          *)
(***************************************************************************)
EXTENDS Naturals, FiniteSets, Sequences

CONSTANTS
    Calls,        \* request ids, GenSeq never hands one out twice
    Order,        \* the calls in the order a MultiBus visits its buses
    States, Envs, \* the slots of the CallState and of the envelope pool
    Keys,         \* idempotency keys
    Scenarios,    \* the choices of [mode, kind, dedup, faults] to explore
    NoCall, NoState, NoEnv, NoKey

ASSUME ConstantsAssumption ==
    /\ IsFiniteSet(Calls) /\ NoCall \notin Calls
    /\ States \subseteq Nat /\ NoState \notin States /\ Envs \subseteq Nat /\ NoEnv \notin Envs
    /\ Order \in Seq(Calls) /\ Calls = {Order[i] : i \in DOMAIN Order}
    /\ \A s \in Scenarios :
        \* "single" is a MessageBus; the others are the loops of a MultiBus.
        /\ s.mode \in {"single", "any", "all", "async", "send"}
        /\ s.kind \in [Calls -> [async : BOOLEAN, remote : BOOLEAN, key : Keys \cup {NoKey}]]
        \* A MultiBus gives the key of its option to every bus.
        /\ s.mode # "single" => \A c, d \in Calls : s.kind[c].key = s.kind[d].key
        /\ s.dedup \in {"ttl", "lru"}
        \* bound: the faults that may strike in a scenario
        /\ s.faults \subseteq {"stop", "duplicate", "drop", "expire", "reject", "forget"}
    /\ NoKey \notin Keys

VARIABLES
    scene,    \* the scenario, fixed by Init
    pc,       \* where the goroutine of a call is
    obj, env, \* the CallState and the request envelope it holds
    ret,      \* what a call returned, or its callback was given
    runs,     \* how often its callback ran
    closed,   \* RpcMonitor.closed
    stop,     \* where RpcMonitor.Stop is
    bucket,   \* the wait buckets: the CallState pending under a request id
    timer,    \* the timeout of a call
    taken,    \* goroutines between the removal of a CallState and its completion
    st, ev,   \* the pooled CallStates and envelopes
    net,      \* messages on the wire
    inbox,    \* request jobs in the receivers' mailboxes
    cbjobs,   \* callback jobs in the callers' mailboxes
    seen,     \* the idempotency keys the deduplicator holds
    looking,  \* TTL lookups that missed and have not stored the key yet
    data,     \* the Data object a request travels with
    answers,  \* the results the receiver's method computed for a call
    execs,    \* how often the receiver executed a request
    raced, early, lost, doubled, overlap,  \* history, see the properties
    forgotten,  \* history: how often the deduplicator has forgotten a key
    passed,     \* history: the keyed requests it let through, and after how many of these
    ran         \* history: those of them that were executed

callVars == <<pc, obj, env, ret, runs>>
monVars == <<closed, stop, bucket, timer, taken>>
srvVars == <<net, inbox, seen, looking, data, answers, execs>>
keyVars == <<overlap, forgotten, passed, ran>>
histVars == <<raced, early, lost, doubled, keyVars>>
vars == <<scene, callVars, monVars, st, ev, srvVars, cbjobs, histVars>>

kind == scene.kind
NoRes == [k |-> "none", c |-> NoCall]
Res(k, c) == [k |-> k, c |-> c]
FreeState == [ref |-> FALSE, call |-> NoCall, res |-> NoRes, done |-> FALSE]
FreeEnv == [ref |-> FALSE, call |-> NoCall]

\* pool.Put: UnRef is a compare-and-swap, so only a referenced object is reset and pooled.
PutState(S, s) == IF S[s].ref THEN [S EXCEPT ![s] = FreeState] ELSE S
PutEnv(E, e) == IF E[e].ref THEN [E EXCEPT ![e] = FreeEnv] ELSE E
\* pool.Get hands out an object of the pool, reset and referenced: here always the first
\* one, so that an object is used again as soon as it can be.
Least(S) == {x \in S : \A y \in S : x <= y}
PooledStates == Least({s \in States : ~st[s].ref})
PooledEnvs == Least({e \in Envs : ~ev[e].ref})
NewCallState(s, c) == [st EXCEPT ![s] = [ref |-> TRUE, call |-> c, res |-> NoRes, done |-> FALSE]]
NewMsgEnvelope(e, c) == [ev EXCEPT ![e] = [ref |-> TRUE, call |-> c]]

\* CallState.callbacks is empty after Reset and in a synchronous call.
NeedCallback(s) == st[s].call # NoCall /\ kind[st[s].call].async

\* Mutant: every bus of a MultiBus uses the Data of the first.
DataAlwaysShared(c) == Order[1]

\* The calls of a MultiBus.AsyncCall carry one Data object between them.
DataOf(c) == IF scene.mode = "async" THEN Order[1] ELSE c

\* RpcMonitor.remove and Remove: nothing is found once the monitor is closed.
Found(c) == ~closed /\ bucket[c] # NoState
Unbucket(c) == IF Found(c) THEN [bucket EXCEPT ![c] = NoState] ELSE bucket
CancelTimer(c) ==
    IF Found(c) /\ timer[c] \in {"armed", "fired"} THEN [timer EXCEPT ![c] = "off"] ELSE timer

Init ==
    /\ scene \in Scenarios
    /\ pc = [c \in Calls |-> "idle"]
    /\ obj = [c \in Calls |-> NoState] /\ env = [c \in Calls |-> NoEnv]
    /\ ret = [c \in Calls |-> NoRes] /\ runs = [c \in Calls |-> 0]
    /\ closed = FALSE /\ stop = "run"
    /\ bucket = [c \in Calls |-> NoState] /\ timer = [c \in Calls |-> "none"]
    /\ taken = {} /\ net = {} /\ inbox = {} /\ cbjobs = {} /\ seen = {} /\ looking = {}
    /\ st = [s \in States |-> FreeState] /\ ev = [e \in Envs |-> FreeEnv]
    /\ data = [c \in Calls |-> {}] /\ answers = [c \in Calls |-> {}]
    /\ execs = [c \in Calls |-> 0]
    /\ raced = FALSE /\ early = {} /\ lost = {} /\ doubled = FALSE
    /\ overlap = {} /\ forgotten = [k \in Keys |-> 0] /\ passed = {} /\ ran = {}

-----------------------------------------------------------------------------
(* The caller: MessageBus and MultiBus.                                    *)

Ended(c) == pc[c] = "done" \/ (pc[c] = "out" /\ kind[c].async)
Before(c) == {Order[i] : i \in {j \in DOMAIN Order : \E k \in DOMAIN Order : Order[k] = c /\ j < k}}

\* The loop of a MultiBus goes on to the next bus: at once after an asynchronous
\* call or a send, after the end of a synchronous call ...
InTurn(c) == \A b \in Before(c) : Ended(b)

\* ... and in CallModeAny only if that failed.
MayStart(c) ==
    \/ scene.mode = "single"
    \/ /\ InTurn(c)
       /\ scene.mode = "any" => \A b \in Before(c) : ret[b].k # "ok"

\* call, asyncCall: take the request id, the CallState and the envelope.
NewCall(c) ==
    /\ scene.mode # "send" /\ pc[c] = "idle" /\ MayStart(c)
    /\ \E s \in PooledStates, e \in PooledEnvs :
        /\ st' = NewCallState(s, c)
        /\ ev' = NewMsgEnvelope(e, c)
        /\ obj' = [obj EXCEPT ![c] = s] /\ env' = [env EXCEPT ![c] = e]
    /\ pc' = [pc EXCEPT ![c] = "add"]
    /\ UNCHANGED <<scene, ret, runs, monVars, srvVars, cbjobs, histVars>>

\* send: an envelope without a reply to wait for, hence without a CallState.
Send(c) ==
    /\ scene.mode = "send" /\ pc[c] = "idle" /\ InTurn(c)
    /\ \E e \in PooledEnvs : ev' = NewMsgEnvelope(e, c) /\ env' = [env EXCEPT ![c] = e]
    /\ pc' = [pc EXCEPT ![c] = "deliver"]
    /\ UNCHANGED <<scene, obj, ret, runs, monVars, st, srvVars, cbjobs, histVars>>

Refused(c) ==
    /\ pc[c] = "idle" /\ MayStart(c)
    /\ pc' = [pc EXCEPT ![c] = "done"] /\ ret' = [ret EXCEPT ![c] = Res("refused", c)]
    /\ UNCHANGED <<scene, obj, env, runs, monVars, st, ev, srvVars, cbjobs, histVars>>

\* The bus has an error, no sender or no receiver, or out is no valid target ...
RefuseCall(c) == ~kind[c].async /\ Refused(c)

\* ... or an asynchronous call has no callback.
RefuseAsyncCall(c) == kind[c].async /\ Refused(c)

\* CallState.Complete after SetResult(r): a callback is posted to the caller's mailbox
\* in an envelope of its own, which is garbage when PostJob fails, and the state goes
\* back to the pool; without a callback the waiting caller is signalled.
SetAndComplete(s, r) ==
    IF NeedCallback(s)
    THEN /\ st' = PutState(st, s)
         /\ \/ \E e \in PooledEnvs :
                 /\ ev' = NewMsgEnvelope(e, st[s].call)
                 /\ cbjobs' = cbjobs \cup {[call |-> st[s].call, res |-> r, env |-> e]}
                 /\ UNCHANGED lost
            \/ /\ lost' = lost \cup {st[s].call}
               /\ UNCHANGED <<ev, cbjobs>>
    ELSE /\ st' = [st EXCEPT ![s].res = r, ![s].done = TRUE]
         /\ UNCHANGED <<ev, cbjobs, lost>>

\* RpcMonitor.Add on a closed monitor, and the first half of it on an open one.
AddClosed(c) ==
    /\ pc[c] = "add" /\ closed
    /\ SetAndComplete(obj[c], Res("closed", c))
    /\ pc' = [pc EXCEPT ![c] = "deliver"]
    /\ UNCHANGED <<scene, obj, env, ret, runs, monVars, srvVars, raced, early, doubled, keyVars>>

AddOpen(c) ==
    /\ pc[c] = "add" /\ ~closed
    /\ pc' = [pc EXCEPT ![c] = "arm"]
    /\ UNCHANGED <<scene, obj, env, ret, runs, monVars, st, ev, srvVars, cbjobs, histVars>>

\* AfterFunc fails once the scheduler is stopped: the call is completed, not added.
ArmFails(c) ==
    /\ pc[c] = "arm" /\ stop \in {"wait", "stopped"}
    /\ SetAndComplete(obj[c], Res("closed", c))
    /\ pc' = [pc EXCEPT ![c] = "deliver"]
    /\ UNCHANGED <<scene, obj, env, ret, runs, monVars, srvVars, raced, early, doubled, keyVars>>

\* Mutant: the timeout is not armed.
ArmNothing(c) ==
    /\ pc[c] = "arm" /\ stop \notin {"wait", "stopped"}
    /\ pc' = [pc EXCEPT ![c] = "bucket"]
    /\ UNCHANGED <<scene, obj, env, ret, runs, monVars, st, ev, srvVars, cbjobs, histVars>>

\* The timer runs from here on; the state gets into its bucket one step later.
Arm(c) ==
    /\ pc[c] = "arm" /\ stop \notin {"wait", "stopped"}
    /\ timer' = [timer EXCEPT ![c] = "armed"]
    /\ pc' = [pc EXCEPT ![c] = "bucket"]
    /\ UNCHANGED <<scene, obj, env, ret, runs, closed, stop, bucket, taken, st, ev, srvVars, cbjobs, histVars>>

BucketAdd(c) ==
    /\ pc[c] = "bucket"
    /\ bucket' = [bucket EXCEPT ![c] = obj[c]]
    /\ pc' = [pc EXCEPT ![c] = "deliver"]
    /\ UNCHANGED <<scene, obj, env, ret, runs, closed, stop, timer, taken, st, ev, srvVars, cbjobs, histVars>>

Delivered(c) ==
    pc' = [pc EXCEPT ![c] = IF scene.mode = "send" THEN "done" ELSE IF kind[c].async THEN "out" ELSE "wait"]

\* A send has only its envelope to give back.
Undelivered(c) == pc' = [pc EXCEPT ![c] = IF scene.mode = "send" THEN "relenv" ELSE "remove"]

\* localSender.DeliverRequest: the envelope goes into the receiver's mailbox.
DeliverLocal(c) ==
    /\ pc[c] = "deliver" /\ ~kind[c].remote
    /\ inbox' = inbox \cup {[call |-> c, env |-> env[c], at |-> "queued", copy |-> 1, resp |-> NoEnv]}
    /\ Delivered(c)
    /\ UNCHANGED <<scene, obj, env, ret, runs, monVars, st, ev, net, seen, looking, data, answers, execs, cbjobs, histVars>>

\* The remote senders serialise the envelope, send it and release it.
DeliverRemote(c) ==
    /\ pc[c] = "deliver" /\ kind[c].remote
    /\ net' = net \cup {[type |-> "req", call |-> c, val |-> NoRes, copy |-> 1]}
    /\ ev' = PutEnv(ev, env[c])
    /\ Delivered(c)
    /\ UNCHANGED <<scene, obj, env, ret, runs, monVars, st, inbox, seen, looking, data, answers, execs, cbjobs, histVars>>

\* Dispatcher.DeliverRequest finds no pid or no sender, or the mailbox refuses the job.
DeliverRejected(c) ==
    /\ pc[c] = "deliver"
    /\ Undelivered(c)
    /\ UNCHANGED <<scene, obj, env, ret, runs, monVars, st, ev, srvVars, cbjobs, histVars>>

\* A remote sender reports an error, whether the message left or not; it has released
\* the envelope, and the bus is going to release it again.
SendFails(c) ==
    /\ pc[c] = "deliver" /\ kind[c].remote
    /\ ev' = PutEnv(ev, env[c])
    /\ \/ net' = net \cup {[type |-> "req", call |-> c, val |-> NoRes, copy |-> 1]}
       \/ UNCHANGED net
    /\ doubled' = TRUE
    /\ Undelivered(c)
    /\ UNCHANGED <<scene, obj, env, ret, runs, monVars, st, inbox, seen, looking, data, answers, execs, cbjobs,
                   raced, early, lost, keyVars>>

\* The error path of call and asyncCall: Remove, whose result is ignored, ...
FailRemove(c) ==
    /\ pc[c] = "remove"
    /\ bucket' = Unbucket(c) /\ timer' = CancelTimer(c)
    /\ raced' = (raced \/ ~Found(c))
    /\ pc' = [pc EXCEPT ![c] = "release"]
    /\ UNCHANGED <<scene, obj, env, ret, runs, closed, stop, taken, st, ev, srvVars, cbjobs,
                   early, lost, doubled, keyVars>>

\* ... state.Release, ...
FailRelease(c) ==
    /\ pc[c] = "release"
    /\ st' = PutState(st, obj[c])
    /\ pc' = [pc EXCEPT ![c] = "relenv"]
    /\ UNCHANGED <<scene, obj, env, ret, runs, monVars, ev, srvVars, cbjobs, histVars>>

\* ... envelope.Release, and ErrRPCCallFailed.
FailEnvelope(c) ==
    /\ pc[c] = "relenv"
    /\ ev' = PutEnv(ev, env[c])
    /\ ret' = [ret EXCEPT ![c] = Res("failed", c)]
    /\ pc' = [pc EXCEPT ![c] = "done"]
    /\ UNCHANGED <<scene, obj, env, runs, monVars, st, srvVars, cbjobs, histVars>>

\* state.Wait, then the result is read and the state released.
WaitReturn(c) ==
    /\ pc[c] = "wait" /\ st[obj[c]].done
    /\ ret' = [ret EXCEPT ![c] = st[obj[c]].res]
    /\ st' = PutState(st, obj[c])
    /\ pc' = [pc EXCEPT ![c] = "done"]
    /\ UNCHANGED <<scene, obj, env, runs, monVars, ev, srvVars, cbjobs, histVars>>

\* Mutant: the cancel function looks the state up and leaves it in its bucket.
CancelKeepsEntry(c) ==
    /\ pc[c] = "out" /\ Found(c)
    /\ st' = PutState(st, bucket[c])
    /\ ret' = [ret EXCEPT ![c] = Res("cancelled", c)]
    /\ pc' = [pc EXCEPT ![c] = "done"]
    /\ UNCHANGED <<scene, obj, env, runs, monVars, ev, srvVars, cbjobs, histVars>>

\* The function AsyncCall returns: NewCancel, NewMultiCancel.
Cancel(c) ==
    /\ pc[c] = "out" /\ Found(c)
    /\ bucket' = Unbucket(c) /\ timer' = CancelTimer(c)
    /\ st' = PutState(st, bucket[c])
    /\ ret' = [ret EXCEPT ![c] = Res("cancelled", c)]
    /\ pc' = [pc EXCEPT ![c] = "done"]
    /\ UNCHANGED <<scene, obj, env, runs, closed, stop, taken, ev, srvVars, cbjobs, histVars>>

-----------------------------------------------------------------------------
(* The monitor.                                                            *)

\* The timer expires and listen hands it to a goroutine of the pool.
TimerFire(c) ==
    /\ timer[c] = "armed" /\ stop \in {"run", "closing"}
    /\ timer' = [timer EXCEPT ![c] = "fired"]
    /\ UNCHANGED <<scene, callVars, closed, stop, bucket, taken, st, ev, srvVars, cbjobs, histVars>>

\* The callback channel of the scheduler is full, or the goroutine pool refuses the task.
TimerDrop(c) ==
    /\ "drop" \in scene.faults /\ timer[c] = "armed"
    /\ timer' = [timer EXCEPT ![c] = "off"]
    /\ lost' = lost \cup {c}
    /\ UNCHANGED <<scene, callVars, closed, stop, bucket, taken, st, ev, srvVars, cbjobs,
                   raced, early, doubled, keyVars>>

\* The timeout callback: remove, then SetResult and Complete in Finish.
TimerTake(c) ==
    /\ timer[c] = "fired"
    /\ timer' = [timer EXCEPT ![c] = "off"]
    /\ bucket' = Unbucket(c)
    /\ taken' = IF Found(c)
                THEN taken \cup {[by |-> "timer", call |-> c, obj |-> bucket[c], res |-> Res("timeout", c)]}
                ELSE taken
    /\ early' = IF pc[c] = "bucket" THEN early \cup {c} ELSE early
    /\ UNCHANGED <<scene, callVars, closed, stop, st, ev, srvVars, cbjobs, raced, lost, doubled, keyVars>>

Finish ==
    \E t \in taken :
        /\ t.by # "local" /\ taken' = taken \ {t}
        /\ SetAndComplete(t.obj, t.res)
        /\ UNCHANGED <<scene, callVars, closed, stop, bucket, timer, srvVars, raced, early, doubled, keyVars>>

StopBegin ==
    /\ "stop" \in scene.faults /\ stop = "run" /\ stop' = "closing" /\ closed' = TRUE
    /\ UNCHANGED <<scene, callVars, bucket, timer, taken, st, ev, srvVars, cbjobs, histVars>>

\* cancel and sd.Stop: no timer fires any more.
StopScheduler ==
    /\ stop = "closing" /\ stop' = "wait"
    /\ timer' = [c \in Calls |-> IF timer[c] = "armed" THEN "off" ELSE timer[c]]
    /\ UNCHANGED <<scene, callVars, closed, bucket, taken, st, ev, srvVars, cbjobs, histVars>>

\* wg.Wait for the callbacks that run; then the buckets are cleared, not completed.
StopClear ==
    /\ stop = "wait" /\ stop' = "stopped"
    /\ \A c \in Calls : timer[c] # "fired" /\ \A t \in taken : t.by # "timer"
    /\ st' = [s \in States |-> IF s \in {bucket[c] : c \in Calls} /\ st[s].ref THEN FreeState ELSE st[s]]
    /\ bucket' = [c \in Calls |-> NoState]
    /\ UNCHANGED <<scene, callVars, closed, timer, taken, ev, srvVars, cbjobs, histVars>>

-----------------------------------------------------------------------------
(* The network and the receiving side.                                     *)

Lose(m) ==
    /\ net' = net \ {m}
    /\ UNCHANGED <<scene, callVars, monVars, st, ev, inbox, seen, looking, data, answers, execs, cbjobs, histVars>>

\* A retry or a backup request of the transport: a request arrives twice.
Duplicate(m) ==
    /\ "duplicate" \in scene.faults /\ m.type = "req" /\ m.copy = 1
    /\ net' = (net \ {m}) \cup {[m EXCEPT !.copy = 2], [m EXCEPT !.copy = 3]}
    /\ UNCHANGED <<scene, callVars, monVars, st, ev, inbox, seen, looking, data, answers, execs, cbjobs, histVars>>

KeyOf(c) == kind[c].key
Keyed(c) == KeyOf(c) # NoKey

\* RpcMessageHandler, a request: SeenKey of the deduplicator drops a duplicate, whatever its
\* request id.
RecvDuplicate(m) ==
    /\ m.type = "req" /\ Keyed(m.call) /\ KeyOf(m.call) \in seen
    /\ net' = net \ {m}
    /\ UNCHANGED <<scene, callVars, monVars, st, ev, inbox, seen, looking, data, answers, execs, cbjobs, histVars>>

\* The key is not there: LRU stores it under the same lock, TTL in a step of its own.
RecvRequest(m) ==
    /\ m.type = "req" /\ KeyOf(m.call) \notin seen
    /\ net' = net \ {m}
    /\ looking' = looking \cup {m}
    /\ seen' = IF Keyed(m.call) /\ scene.dedup = "lru" THEN seen \cup {KeyOf(m.call)} ELSE seen
    /\ overlap' = IF scene.dedup = "ttl" /\ Keyed(m.call) /\ \E l \in looking : KeyOf(l.call) = KeyOf(m.call)
                  THEN overlap \cup {KeyOf(m.call)} ELSE overlap
    /\ passed' = IF Keyed(m.call)
                 THEN passed \cup {[call |-> m.call, copy |-> m.copy, gen |-> forgotten[KeyOf(m.call)]]}
                 ELSE passed
    /\ UNCHANGED <<scene, callVars, monVars, st, ev, inbox, data, answers, execs, cbjobs,
                   raced, early, lost, doubled, forgotten, ran>>

\* Mutant: the missed key is not stored.
StoreNothing(m) == UNCHANGED seen

StoreKey(m) == seen' = IF Keyed(m.call) /\ scene.dedup = "ttl" THEN seen \cup {KeyOf(m.call)} ELSE seen

\* An entry expires or is evicted.
KeyForgotten(k) ==
    /\ "forget" \in scene.faults /\ k \in seen
    /\ seen' = seen \ {k} /\ forgotten' = [forgotten EXCEPT ![k] = @ + 1]
    /\ UNCHANGED <<scene, callVars, monVars, st, ev, net, inbox, looking, data, answers, execs, cbjobs,
                   raced, early, lost, doubled, overlap, passed, ran>>

\* Authorised, decoded and posted to the receiver's mailbox.
AcceptRequest(m) ==
    /\ looking' = looking \ {m} /\ StoreKey(m)
    /\ inbox' = inbox \cup {[call |-> m.call, env |-> NoEnv, at |-> "queued", copy |-> m.copy, resp |-> NoEnv]}
    /\ UNCHANGED <<scene, callVars, monVars, st, ev, net, data, answers, execs, cbjobs, histVars>>

\* Not authorised, not decodable, no dispatcher, or the mailbox refuses: the key stays.
RejectRequest(m) ==
    /\ "reject" \in scene.faults
    /\ looking' = looking \ {m} /\ StoreKey(m)
    /\ UNCHANGED <<scene, callVars, monVars, st, ev, net, inbox, data, answers, execs, cbjobs, histVars>>

\* InvokeJob finds the deadline of the job behind it: nothing is executed or answered,
\* and the envelope is left to the garbage collector.
ExpireJob(j) ==
    /\ "expire" \in scene.faults /\ j.at = "queued"
    /\ inbox' = inbox \ {j}
    /\ ev' = IF j.env = NoEnv THEN ev ELSE [ev EXCEPT ![j.env] = FreeEnv]
    /\ UNCHANGED <<scene, callVars, monVars, st, net, seen, looking, data, answers, execs, cbjobs, histVars>>

\* HandleRequest: the method's response or error (also of a panic, a denied or an
\* unknown method) is set in the Data of the request; the other one is left alone.
\* A send is not answered.
HandleRequest(j) ==
    /\ j.at = "queued"
    /\ \E a \in {"ok", "err"} :
        /\ data' = [data EXCEPT ![DataOf(j.call)] = @ \cup {a}]
        /\ answers' = [answers EXCEPT ![j.call] = @ \cup {a}]
    /\ execs' = [execs EXCEPT ![j.call] = @ + 1]
    /\ ran' = ran \cup {p \in passed : p.call = j.call /\ p.copy = j.copy}
    /\ inbox' = (inbox \ {j}) \cup {[j EXCEPT !.at = IF scene.mode = "send" THEN "release" ELSE "respond"]}
    /\ UNCHANGED <<scene, callVars, monVars, st, ev, net, seen, looking, cbjobs,
                   raced, early, lost, doubled, overlap, forgotten, passed>>

\* An error wins over a response when the reply is read.
ReplyOf(c) == Res(IF "err" \in data[DataOf(c)] THEN "err" ELSE "ok", c)

\* doResponse over a remote sender: the reply is sent, or the error only logged.
RespondRemote(j) ==
    /\ j.at = "respond" /\ kind[j.call].remote
    /\ inbox' = inbox \ {j}
    /\ \/ net' = net \cup {[type |-> "rep", call |-> j.call, val |-> ReplyOf(j.call), copy |-> j.copy]}
       \/ UNCHANGED net
    /\ UNCHANGED <<scene, callVars, monVars, st, ev, seen, looking, data, answers, execs, cbjobs, histVars>>

\* doResponse over localSender.DeliverResponse: the state is removed ...
RespondLocal(j) ==
    /\ j.at = "respond" /\ ~kind[j.call].remote /\ Found(j.call)
    /\ \E e \in PooledEnvs :
        /\ ev' = NewMsgEnvelope(e, j.call)
        /\ inbox' = (inbox \ {j}) \cup {[j EXCEPT !.at = "reply", !.resp = e]}
    /\ bucket' = Unbucket(j.call) /\ timer' = CancelTimer(j.call)
    /\ taken' = taken \cup {[by |-> "local", call |-> j.call, obj |-> bucket[j.call], res |-> ReplyOf(j.call)]}
    /\ UNCHANGED <<scene, callVars, closed, stop, st, net, seen, looking, data, answers, execs, cbjobs, histVars>>

\* ... or nobody waits any more, or the sender is closed: the reply is given up.
RespondNobody(j) ==
    /\ j.at = "respond" /\ ~kind[j.call].remote
    /\ inbox' = (inbox \ {j}) \cup {[j EXCEPT !.at = "release"]}
    /\ UNCHANGED <<scene, callVars, monVars, st, ev, net, seen, looking, data, answers, execs, cbjobs, histVars>>

\* The callback goes into the caller's mailbox in the envelope of the reply, or PostJob
\* fails and the envelope is released here and again in doResponse; a synchronous
\* caller is signalled.
DeliverResponse(j) ==
    /\ j.at = "reply"
    /\ \E t \in taken :
        /\ t.by = "local" /\ t.call = j.call /\ taken' = taken \ {t}
        /\ \/ /\ NeedCallback(t.obj)
              /\ st' = PutState(st, t.obj)
              /\ cbjobs' = cbjobs \cup {[call |-> st[t.obj].call, res |-> t.res, env |-> j.resp]}
              /\ inbox' = (inbox \ {j}) \cup {[j EXCEPT !.at = "release"]}
              /\ UNCHANGED <<ev, lost, doubled>>
           \/ /\ NeedCallback(t.obj)
              /\ st' = PutState(st, t.obj) /\ ev' = PutEnv(ev, j.resp)
              /\ inbox' = (inbox \ {j}) \cup {[j EXCEPT !.at = "again"]}
              /\ lost' = lost \cup {st[t.obj].call} /\ doubled' = TRUE
              /\ UNCHANGED cbjobs
           \/ /\ ~NeedCallback(t.obj)
              /\ st' = [st EXCEPT ![t.obj].res = t.res, ![t.obj].done = TRUE]
              /\ ev' = PutEnv(ev, j.resp)
              /\ inbox' = (inbox \ {j}) \cup {[j EXCEPT !.at = "release"]}
              /\ UNCHANGED <<cbjobs, lost, doubled>>
    /\ UNCHANGED <<scene, callVars, closed, stop, bucket, timer, net, seen, looking, data, answers, execs,
                   raced, early, keyVars>>

ReleaseAgain(j) ==
    /\ j.at = "again"
    /\ inbox' = (inbox \ {j}) \cup {[j EXCEPT !.at = "release"]}
    /\ ev' = PutEnv(ev, j.resp)
    /\ UNCHANGED <<scene, callVars, monVars, st, net, seen, looking, data, answers, execs, cbjobs, histVars>>

\* handleRpcJob releases the request envelope after the reply has been delivered.
ReleaseRequest(j) ==
    /\ j.at = "release"
    /\ inbox' = inbox \ {j}
    /\ ev' = IF j.env = NoEnv THEN ev ELSE PutEnv(ev, j.env)
    /\ UNCHANGED <<scene, callVars, monVars, st, net, seen, looking, data, answers, execs, cbjobs, histVars>>

\* RpcMessageHandler, a reply: Remove; a late reply is dropped.
RecvReply(m) ==
    /\ m.type = "rep"
    /\ net' = net \ {m}
    /\ bucket' = Unbucket(m.call) /\ timer' = CancelTimer(m.call)
    /\ taken' = IF Found(m.call)
                THEN taken \cup {[by |-> "reply", call |-> m.call, obj |-> bucket[m.call], res |-> m.val]}
                ELSE taken
    /\ UNCHANGED <<scene, callVars, closed, stop, st, ev, inbox, seen, looking, data, answers, execs, cbjobs, histVars>>

\* handleRpcJob, a reply: HandleResponse runs the callbacks, the envelope is released.
RunCallback(j) ==
    /\ cbjobs' = cbjobs \ {j}
    /\ runs' = [runs EXCEPT ![j.call] = @ + 1]
    /\ ret' = [ret EXCEPT ![j.call] = j.res]
    /\ ev' = PutEnv(ev, j.env)
    /\ UNCHANGED <<scene, pc, obj, env, monVars, st, srvVars, histVars>>

-----------------------------------------------------------------------------
CallStep(c) ==
    \/ AddClosed(c) \/ AddOpen(c) \/ ArmFails(c) \/ Arm(c) \/ BucketAdd(c)
    \/ DeliverLocal(c) \/ DeliverRemote(c) \/ DeliverRejected(c) \/ SendFails(c)
    \/ FailRemove(c) \/ FailRelease(c) \/ FailEnvelope(c) \/ WaitReturn(c)

Next ==
    \/ \E c \in Calls :
        \/ NewCall(c) \/ Send(c) \/ RefuseCall(c) \/ RefuseAsyncCall(c) \/ CallStep(c) \/ Cancel(c)
        \/ TimerFire(c) \/ TimerDrop(c) \/ TimerTake(c)
    \/ Finish \/ StopBegin \/ StopScheduler \/ StopClear
    \/ \E m \in net : Lose(m) \/ Duplicate(m) \/ RecvDuplicate(m) \/ RecvRequest(m) \/ RecvReply(m)
    \/ \E m \in looking : AcceptRequest(m) \/ RejectRequest(m)
    \/ \E k \in Keys : KeyForgotten(k)
    \/ \E j \in inbox :
        \/ ExpireJob(j) \/ HandleRequest(j) \/ RespondRemote(j)
        \/ RespondLocal(j) \/ RespondNobody(j) \/ DeliverResponse(j) \/ ReleaseAgain(j) \/ ReleaseRequest(j)
    \/ \E j \in cbjobs : RunCallback(j)

\* Goroutines that can run do so, an armed timer expires and is handed on, and the
\* worker of the caller's mailbox serves its queue.  Nothing is assumed of the network
\* or of the receiver.
Fairness ==
    /\ \A c \in Calls : WF_vars(CallStep(c)) /\ WF_vars(TimerFire(c)) /\ WF_vars(TimerTake(c))
    /\ WF_vars(Finish) /\ WF_vars(\E j \in inbox : DeliverResponse(j))
    /\ WF_vars(\E j \in cbjobs : RunCallback(j))

Spec == Init /\ [][Next]_vars /\ Fairness

-----------------------------------------------------------------------------
Results == [k : {"none", "ok", "err", "timeout", "closed", "failed", "refused", "cancelled"},
            c : Calls \cup {NoCall}]

CallsOK ==
    /\ scene \in Scenarios
    /\ pc \in [Calls -> {"idle", "add", "arm", "bucket", "deliver", "wait", "out", "remove",
                         "release", "relenv", "done"}]
    /\ obj \in [Calls -> States \cup {NoState}] /\ env \in [Calls -> Envs \cup {NoEnv}]
    /\ ret \in [Calls -> Results] /\ runs \in [Calls -> Nat]
MonitorOK ==
    /\ closed \in BOOLEAN /\ stop \in {"run", "closing", "wait", "stopped"}
    /\ bucket \in [Calls -> States \cup {NoState}]
    /\ timer \in [Calls -> {"none", "armed", "fired", "off"}]
    /\ taken \subseteq [by : {"timer", "local", "reply"}, call : Calls, obj : States, res : Results]
PoolsOK ==
    /\ st \in [States -> [ref : BOOLEAN, call : Calls \cup {NoCall}, res : Results, done : BOOLEAN]]
    /\ ev \in [Envs -> [ref : BOOLEAN, call : Calls \cup {NoCall}]]
    /\ cbjobs \subseteq [call : Calls, res : Results, env : Envs]
ServerOK ==
    /\ net \cup looking \subseteq [type : {"req", "rep"}, call : Calls, val : Results, copy : 1..3]
    /\ inbox \subseteq [call : Calls, env : Envs \cup {NoEnv}, copy : 1..3, resp : Envs \cup {NoEnv},
                        at : {"queued", "respond", "reply", "again", "release"}]
    /\ data \in [Calls -> SUBSET {"ok", "err"}] /\ answers \in [Calls -> SUBSET {"ok", "err"}]
    /\ execs \in [Calls -> Nat]
KeysOK ==
    /\ seen \cup overlap \subseteq Keys /\ forgotten \in [Keys -> Nat]
    /\ passed \cup ran \subseteq [call : Calls, copy : 1..3, gen : Nat]
TypeOK == CallsOK /\ MonitorOK /\ PoolsOK /\ ServerOK /\ KeysOK

(* raced: the error path of a delivery released a CallState that its Remove had not   *)
(* found: a timeout had taken it, or Add had completed it already.  It is the one way *)
(* a CallState is put back under somebody's hands before Stop clears the buckets.     *)
Sound == ~raced /\ stop # "stopped"

\* A CallState that is pending in a bucket, or that a goroutine is about to complete, or
\* that a caller waits for, is that call's own and not back in the pool.
StateOwned ==
    Sound =>
        /\ \A c \in Calls : bucket[c] # NoState => st[bucket[c]].ref /\ st[bucket[c]].call = c
        /\ \A t \in taken : st[t.obj].ref /\ st[t.obj].call = t.call
        /\ \A c \in Calls : pc[c] = "wait" => st[obj[c]].ref /\ st[obj[c]].call = c

\* Another receiver of the same MultiBus.AsyncCall has written the Data they share.
MixedData(c) == scene.mode = "async" /\ \E d \in Calls \ {c} : execs[d] > 0

\* What a call returns, or its callback is given, is the outcome of that call: its own
\* timeout or failure, or an answer the method really computed for it.
OwnOutcome ==
    Sound => \A c \in Calls :
        ret[c] # NoRes =>
            /\ ret[c].c = c
            /\ ret[c].k \in {"ok", "err"} => ret[c].k \in answers[c] \/ MixedData(c)

\* A callback runs at most once, and never for an asynchronous call that was cancelled
\* or returned an error.
CallbackOnce ==
    Sound => \A c \in Calls :
        /\ runs[c] + Cardinality({j \in cbjobs : j.call = c}) <= 1
        /\ kind[c].async /\ pc[c] = "done" =>
            /\ runs[c] = 0
            /\ \A j \in cbjobs : j.call # c
            /\ \A t \in taken : t.call # c

\* An envelope in a mailbox, or that a call has yet to deliver, is not back in the pool,
\* as long as no delivery error made two parties release the same envelope (doubled).  A raced
\* CallState may bring the callbacks of another call into the envelope of a reply.
EnvelopeOwned ==
    ~doubled =>
        /\ \A j \in inbox : j.env # NoEnv => ev[j.env] = [ref |-> TRUE, call |-> j.call]
        /\ \A j \in cbjobs : ev[j.env].ref /\ (Sound => ev[j.env].call = j.call)
        /\ \A c \in Calls : pc[c] \in {"add", "arm", "bucket", "deliver"} => ev[env[c]] = [ref |-> TRUE, call |-> c]

\* A CallState and an envelope belong to one call at a time: neither is used by anyone after it
\* went back to its pool (monitor, bus, MsgEnvelope.Release).
ObjectsOwned == TypeOK /\ StateOwned /\ EnvelopeOwned

\* A call returns, or its callback is given, that call's own outcome, and a callback runs at most
\* once and never for a call that was cancelled (CallState.complete, AsyncCall, MultiBus).
OutcomeOwned == OwnOutcome /\ CallbackOnce

\* A node executes at most one of the requests that carry a key, whatever their request ids and
\* however often the transport delivers them, until the deduplicator forgets the key; two TTL
\* lookups that overlap both miss (overlap).
KeySpentOnce ==
    \A p, q \in ran :
        /\ KeyOf(p.call) = KeyOf(q.call) /\ p.gen = q.gen
        /\ KeyOf(p.call) \notin overlap
        => p = q

\* Every call that was delivered comes to an end even if the network loses everything,
\* unless the monitor is stopped, the timeout is dropped or the callback refused (lost),
\* or the timer fired before the state was in its bucket (early).  A call is made once, so
\* "eventually none is waiting" says it of each of them.
CallsEnd ==
    <>[](\A c \in Calls : pc[c] \in {"wait", "out"} =>
            runs[c] > 0 \/ c \in lost \cup early \/ raced \/ closed)
=============================================================================
