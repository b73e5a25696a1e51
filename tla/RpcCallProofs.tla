--------------------------- MODULE RpcCallProofs ----------------------------
(***************************************************************************)
(* Theorems about RpcCall, for any calls, pools and scenarios.             *)
(***************************************************************************)
EXTENDS RpcCall, FiniteSetTheorems, TLAPS

\* What a call holds at each of its steps, and what the monitor may hold of it.
ShapeInv ==
    /\ \A c \in Calls :
        /\ pc[c] \notin {"idle", "done"} => env[c] \in Envs /\ (scene.mode # "send" => obj[c] \in States)
        /\ scene.mode = "send" => pc[c] \in {"idle", "deliver", "relenv", "done"}
        /\ pc[c] = "wait" => ~kind[c].async
        /\ pc[c] = "out" => kind[c].async
        /\ bucket[c] # NoState => bucket[c] = obj[c] /\ pc[c] \notin {"idle", "add", "arm", "bucket"}
        /\ scene.mode = "send" => bucket[c] = NoState
    /\ scene.mode = "send" => taken = {}
    /\ \A t \in taken : t.obj = obj[t.call] /\ pc[t.call] \notin {"idle", "add", "arm", "bucket"}

\* The messages and jobs of the receiving side.
JobInv ==
    /\ \A m \in net \cup looking : kind[m.call].remote
    /\ \A m \in looking : m.type = "req"
    /\ \A j \in inbox :
        /\ j.at \in {"reply", "again"} => j.resp \in Envs
        /\ j.env # NoEnv => ~kind[j.call].remote
        /\ ~kind[j.call].remote => pc[j.call] \notin {"idle", "add", "arm", "bucket", "deliver"}
    /\ \A c \in Calls :
        ~kind[c].remote /\ pc[c] \in {"idle", "add", "arm", "bucket", "deliver"} => execs[c] = 0

-----------------------------------------------------------------------------
(* The CallState of a call, while Sound. *)

Held(c) == obj[c] \in States /\ st[obj[c]].ref /\ st[obj[c]].call = c
Live(c) == Held(c) /\ ~st[obj[c]].done
Pending(c) == bucket[c] # NoState
Taken(c) == \E t \in taken : t.call = c
Posted(c) == \E j \in cbjobs : j.call = c
Ran(c) == runs[c] # 0
Quiet(c) == ~Pending(c) /\ ~Taken(c) /\ ~Posted(c) /\ ~Ran(c)
Open == {"deliver", "wait", "out", "remove"}

\* One party at a time has the CallState: the bucket, the goroutine that took it, or, once it
\* is back in the pool, the callback.
OwnsOne(c) ==
    /\ pc[c] \notin Open \/ scene.mode = "send" => Quiet(c)
    /\ pc[c] \in {"add", "arm", "bucket", "release"} => Live(c)
    /\ ~kind[c].async /\ pc[c] \in Open /\ scene.mode # "send" => Held(c)
    /\ Pending(c) => Live(c) /\ ~Taken(c) /\ ~Posted(c) /\ ~Ran(c)
    /\ Taken(c) => Live(c) /\ ~Posted(c) /\ ~Ran(c)
    /\ Posted(c) => kind[c].async /\ ~Ran(c)
    /\ Ran(c) => kind[c].async /\ runs[c] = 1
    /\ \A t \in taken, u \in taken : t.call = c /\ u.call = c => t = u
    /\ \A j \in cbjobs, k \in cbjobs : j.call = c /\ k.call = c => j = k
OwnInv == Sound => \A c \in Calls : OwnsOne(c)

-----------------------------------------------------------------------------
(* The outcome of a call, while Sound. *)

Answered(r, c) == r.c = c /\ (r.k \in {"ok", "err"} => r.k \in answers[c] \/ MixedData(c))

DataInv ==
    /\ \A c \in Calls : \A a \in data[DataOf(c)] : a \in answers[c] \/ MixedData(c)
    /\ \A j \in inbox : j.at = "respond" => data[DataOf(j.call)] # {}
    /\ \A m \in net : m.type = "rep" => Answered(m.val, m.call)

RetOK == \A c \in Calls : ret[c] # NoRes => Answered(ret[c], c)
TakenOK == \A t \in taken : Answered(t.res, t.call)
PostedOK == \A j \in cbjobs : Answered(j.res, j.call)
DoneOK == \A s \in States : st[s].ref /\ st[s].done => st[s].call \in Calls /\ Answered(st[s].res, st[s].call)
OutcomeInv == Sound => RetOK /\ TakenOK /\ PostedOK /\ DoneOK

-----------------------------------------------------------------------------
(* The envelopes, while no two parties release one. *)

\* Who holds the envelope e: the call before its delivery or after the error of it, the job of
\* the request, the reply under way, the callback.
Holding == {"add", "arm", "bucket", "deliver", "remove", "release", "relenv"}
Holds(who, x, e) ==
    \/ who = "call" /\ x \in Calls /\ pc[x] \in Holding /\ env[x] = e
    \/ who = "job" /\ x \in inbox /\ x.env = e
    \/ who = "reply" /\ x \in inbox /\ x.at = "reply" /\ x.resp = e
    \/ who = "callback" /\ x \in cbjobs /\ x.env = e
CallOf(who, x) == IF who = "call" THEN x ELSE x.call
Parties == {"call", "job", "reply", "callback"}

\* A callback that the timeout of a raced CallState posted may be another call's.
EnvAt(e) ==
    /\ \A p \in Parties : \A x :
        Holds(p, x, e) => ev[e].ref /\ (p # "callback" \/ Sound => ev[e].call = CallOf(p, x))
    /\ \A p \in Parties, q \in Parties : \A x, y : Holds(p, x, e) /\ Holds(q, y, e) => p = q /\ x = y
EnvInv ==
    ~doubled => /\ \A j \in inbox : j.at # "again"
                /\ \A e \in Envs : EnvAt(e)

-----------------------------------------------------------------------------
(* The idempotency keys. *)

\* Someone has looked the key up, missed it and not stored it yet.
Looked(k) == \E m \in looking : KeyOf(m.call) = k

\* After each time it forgets the key the deduplicator lets one request through, and from then on
\* the key is known: stored, or with TTL about to be.
KeyAt(k) ==
    /\ \A p \in passed, q \in passed : KeyOf(p.call) = k /\ KeyOf(q.call) = k /\ p.gen = q.gen => p = q
    /\ \A p \in passed : KeyOf(p.call) = k => p.gen <= forgotten[k]
    /\ \A p \in passed :
        KeyOf(p.call) = k /\ p.gen = forgotten[k] => k \in seen \/ (scene.dedup = "ttl" /\ Looked(k))
KeyInv ==
    /\ ran \subseteq passed /\ \A p \in passed : KeyOf(p.call) \in Keys
    /\ \A k \in Keys \ overlap : KeyAt(k)

CallInv == TypeOK /\ ShapeInv /\ JobInv /\ OwnInv /\ DataInv /\ OutcomeInv /\ EnvInv /\ KeyInv

-----------------------------------------------------------------------------
(* The pools. *)

StateSet == [ref : BOOLEAN, call : Calls \cup {NoCall}, res : Results, done : BOOLEAN]
EnvSet == [ref : BOOLEAN, call : Calls \cup {NoCall}]
JobSet == [call : Calls, res : Results, env : Envs]

\* What the scenario says of a call.
LEMMA SceneFacts ==
    ASSUME scene \in Scenarios
    PROVE  /\ scene.mode \in {"single", "any", "all", "async", "send"}
           /\ \A c \in Calls : kind[c].async \in BOOLEAN /\ kind[c].remote \in BOOLEAN /\ KeyOf(c) \in Keys \cup {NoKey}
           /\ scene.dedup \in {"ttl", "lru"}
           /\ \A c \in Calls : DataOf(c) \in Calls
<1>1. scene.mode \in {"single", "any", "all", "async", "send"} /\ scene.dedup \in {"ttl", "lru"}
  BY ConstantsAssumption
<1>2. kind \in [Calls -> [async : BOOLEAN, remote : BOOLEAN, key : Keys \cup {NoKey}]]
  BY ConstantsAssumption DEF kind
<1>3. ASSUME NEW c \in Calls PROVE DataOf(c) \in Calls
  <2>1. PICK i \in DOMAIN Order : c = Order[i]
    BY ConstantsAssumption
  <2>2. 1 \in DOMAIN Order
    <3>1. Order \in Seq(Calls)
      BY ConstantsAssumption
    <3>2. DOMAIN Order = 1..Len(Order) /\ Len(Order) \in Nat
      BY <3>1
    <3>3. QED
      BY <2>1, <3>2
  <2>3. Order[1] \in Calls
    BY <2>2, ConstantsAssumption
  <2>4. QED
    BY <2>3 DEF DataOf
<1>4. QED
  BY <1>1, <1>2, <1>3 DEF KeyOf

\* The constant results, states and envelopes.
LEMMA FreeTypes ==
    /\ NoRes \in Results /\ FreeState \in StateSet /\ FreeEnv \in EnvSet
    /\ \A k \in {"ok", "err", "timeout", "closed", "failed", "refused", "cancelled"}, c \in Calls : Res(k, c) \in Results
    /\ FreeState.ref = FALSE /\ FreeState.done = FALSE /\ FreeEnv.ref = FALSE
    /\ NoRes.k = "none" /\ \A k, c : Res(k, c).k = k /\ Res(k, c).c = c
<1>1. NoRes \in Results
  BY DEF NoRes, Results
<1>2. \A k \in {"ok", "err", "timeout", "closed", "failed", "refused", "cancelled"}, c \in Calls : Res(k, c) \in Results
  BY DEF Res, Results
<1>3. FreeState \in StateSet /\ FreeEnv \in EnvSet
  BY <1>1 DEF FreeState, FreeEnv, StateSet, EnvSet
<1>4. FreeState.ref = FALSE /\ FreeState.done = FALSE /\ FreeEnv.ref = FALSE
  BY DEF FreeState, FreeEnv
<1>5. NoRes.k = "none" /\ \A k, c : Res(k, c).k = k /\ Res(k, c).c = c
  BY DEF NoRes, Res
<1>6. QED
  BY <1>1, <1>2, <1>3, <1>4, <1>5

LEMMA PutTypes ==
    ASSUME PoolsOK
    PROVE  /\ \A s \in States : PutState(st, s) \in [States -> StateSet]
           /\ \A e \in Envs : PutEnv(ev, e) \in [Envs -> EnvSet]
<1>1. FreeState \in StateSet /\ FreeEnv \in EnvSet
  BY FreeTypes
<1>2. QED
  BY <1>1 DEF PoolsOK, PutState, PutEnv, StateSet, EnvSet

LEMMA NewTypes ==
    ASSUME PoolsOK, NEW c \in Calls
    PROVE  /\ \A s \in PooledStates : s \in States /\ ~st[s].ref /\ NewCallState(s, c) \in [States -> StateSet]
           /\ \A e \in PooledEnvs : e \in Envs /\ ~ev[e].ref /\ NewMsgEnvelope(e, c) \in [Envs -> EnvSet]
<1>1. [ref |-> TRUE, call |-> c, res |-> NoRes, done |-> FALSE] \in StateSet
  BY FreeTypes DEF StateSet
<1>2. [ref |-> TRUE, call |-> c] \in EnvSet
  BY DEF EnvSet
<1>3. ASSUME NEW s \in PooledStates PROVE s \in States /\ ~st[s].ref /\ NewCallState(s, c) \in [States -> StateSet]
  BY <1>1 DEF PooledStates, Least, NewCallState, PoolsOK, StateSet
<1>4. ASSUME NEW e \in PooledEnvs PROVE e \in Envs /\ ~ev[e].ref /\ NewMsgEnvelope(e, c) \in [Envs -> EnvSet]
  BY <1>2 DEF PooledEnvs, Least, NewMsgEnvelope, PoolsOK, EnvSet
<1>5. QED
  BY <1>3, <1>4

LEMMA CompleteTypes ==
    ASSUME PoolsOK, NEW s \in States, NEW r \in Results, SetAndComplete(s, r)
    PROVE  PoolsOK'
<1>1. CASE NeedCallback(s)
  <2>1. st' \in [States -> StateSet]
    BY <1>1, PutTypes DEF SetAndComplete
  <2>2. st[s].call \in Calls
    BY <1>1 DEF NeedCallback, PoolsOK
  <2>3. ASSUME NEW e \in PooledEnvs, ev' = NewMsgEnvelope(e, st[s].call),
               cbjobs' = cbjobs \cup {[call |-> st[s].call, res |-> r, env |-> e]}
        PROVE  ev' \in [Envs -> EnvSet] /\ cbjobs' \subseteq JobSet
    <3>1. e \in Envs /\ ev' \in [Envs -> EnvSet]
      BY <2>2, <2>3, NewTypes
    <3>2. [call |-> st[s].call, res |-> r, env |-> e] \in JobSet
      BY <2>2, <3>1 DEF JobSet
    <3>3. QED
      BY <2>3, <3>1, <3>2 DEF PoolsOK, JobSet
  <2>4. ev' \in [Envs -> EnvSet] /\ cbjobs' \subseteq JobSet
    <3>1. CASE UNCHANGED <<ev, cbjobs>>
      BY <3>1 DEF PoolsOK, EnvSet, JobSet
    <3>2. QED
      BY <1>1, <2>3, <3>1 DEF SetAndComplete
  <2>5. QED
    BY <2>1, <2>4 DEF PoolsOK, StateSet, EnvSet, JobSet
<1>2. CASE ~NeedCallback(s)
  <2>1. st' = [st EXCEPT ![s].res = r, ![s].done = TRUE] /\ UNCHANGED <<ev, cbjobs>>
    BY <1>2 DEF SetAndComplete
  <2>2. st \in [States -> StateSet]
    BY DEF PoolsOK, StateSet
  <2>3. st' \in [States -> StateSet]
    BY <2>1, <2>2 DEF StateSet
  <2>4. QED
    BY <2>1, <2>3 DEF PoolsOK, StateSet
<1>3. QED
  BY <1>1, <1>2

-----------------------------------------------------------------------------
(* Type correctness, one group of variables at a time. *)

BaseInv == TypeOK /\ ShapeInv /\ JobInv

LEMMA CallsType ==
    ASSUME BaseInv, Next
    PROVE  CallsOK'
<1> USE DEF BaseInv, TypeOK
<1>0. CallsOK /\ NoRes \in Results /\ \A k \in {"ok", "err", "timeout", "closed", "failed", "refused", "cancelled"}, c \in Calls : Res(k, c) \in Results
  BY FreeTypes
<1>1. ASSUME UNCHANGED <<scene, callVars>> PROVE CallsOK'
  BY <1>1 DEF CallsOK, callVars
<1>2. ASSUME NEW c \in Calls, NewCall(c) PROVE CallsOK'
  <2>1. PICK s \in PooledStates, e \in PooledEnvs : obj' = [obj EXCEPT ![c] = s] /\ env' = [env EXCEPT ![c] = e]
    BY <1>2 DEF NewCall
  <2>2. s \in States /\ e \in Envs
    BY NewTypes
  <2>3. QED
    BY <1>2, <2>1, <2>2 DEF CallsOK, NewCall
<1>3. ASSUME NEW c \in Calls, Send(c) PROVE CallsOK'
  <2>1. PICK e \in PooledEnvs : env' = [env EXCEPT ![c] = e]
    BY <1>3 DEF Send
  <2>2. e \in Envs
    BY NewTypes
  <2>3. QED
    BY <1>3, <2>1, <2>2 DEF CallsOK, Send
<1>4. ASSUME NEW c \in Calls, Refused(c) PROVE CallsOK'
  BY <1>0, <1>4 DEF CallsOK, Refused
<1>5. ASSUME NEW c \in Calls, AddClosed(c) \/ AddOpen(c) \/ ArmFails(c) \/ Arm(c) \/ BucketAdd(c) PROVE CallsOK'
  BY <1>5 DEF CallsOK, AddClosed, AddOpen, ArmFails, Arm, BucketAdd
<1>6. ASSUME NEW c \in Calls, DeliverLocal(c) \/ DeliverRemote(c) \/ DeliverRejected(c) \/ SendFails(c) PROVE CallsOK'
  <2>1. \E a \in {"done", "out", "wait", "relenv", "remove"} : pc' = [pc EXCEPT ![c] = a]
    BY <1>6 DEF DeliverLocal, DeliverRemote, DeliverRejected, SendFails, Delivered, Undelivered
  <2>2. UNCHANGED <<scene, obj, env, ret, runs>>
    BY <1>6 DEF DeliverLocal, DeliverRemote, DeliverRejected, SendFails
  <2>3. QED
    BY <2>1, <2>2 DEF CallsOK
<1>7. ASSUME NEW c \in Calls, FailRemove(c) \/ FailRelease(c) \/ FailEnvelope(c) \/ Cancel(c) PROVE CallsOK'
  BY <1>0, <1>7 DEF CallsOK, FailRemove, FailRelease, FailEnvelope, Cancel
<1>8. ASSUME NEW c \in Calls, WaitReturn(c) PROVE CallsOK'
  <2>1. obj[c] \in States
    BY <1>8, SceneFacts DEF WaitReturn, ShapeInv, CallsOK
  <2>2. st[obj[c]].res \in Results
    BY <2>1 DEF PoolsOK
  <2>3. QED
    BY <1>8, <2>2 DEF CallsOK, WaitReturn
<1>9. ASSUME NEW c \in Calls, TimerFire(c) \/ TimerDrop(c) \/ TimerTake(c) PROVE CallsOK'
  BY <1>1, <1>9 DEF TimerFire, TimerDrop, TimerTake
<1>10. CASE Finish \/ StopBegin \/ StopScheduler \/ StopClear
  BY <1>1, <1>10 DEF Finish, StopBegin, StopScheduler, StopClear
<1>11. ASSUME NEW m, Lose(m) \/ Duplicate(m) \/ KeyForgotten(m) \/ RecvDuplicate(m) \/ RecvRequest(m) \/ RecvReply(m) \/ AcceptRequest(m) \/ RejectRequest(m)
       PROVE  CallsOK'
  BY <1>1, <1>11 DEF Lose, Duplicate, KeyForgotten, RecvDuplicate, RecvRequest, RecvReply, AcceptRequest, RejectRequest
<1>12. ASSUME NEW j, \/ ExpireJob(j) \/ HandleRequest(j) \/ RespondRemote(j) \/ RespondLocal(j) \/ RespondNobody(j)
                     \/ DeliverResponse(j) \/ ReleaseAgain(j) \/ ReleaseRequest(j)
       PROVE  CallsOK'
  BY <1>1, <1>12 DEF ExpireJob, HandleRequest, RespondRemote, RespondLocal, RespondNobody, DeliverResponse, ReleaseAgain, ReleaseRequest
<1>13. ASSUME NEW j \in cbjobs, RunCallback(j) PROVE CallsOK'
  <2>1. j.call \in Calls /\ j.res \in Results
    BY DEF PoolsOK
  <2>2. runs' \in [Calls -> Nat] /\ ret' \in [Calls -> Results]
    BY <1>13, <2>1 DEF CallsOK, RunCallback
  <2>3. QED
    BY <1>13, <2>2 DEF CallsOK, RunCallback
<1>14. QED
  BY <1>2, <1>3, <1>4, <1>5, <1>6, <1>7, <1>8, <1>9, <1>10, <1>11, <1>12, <1>13 DEF Next, CallStep, RefuseCall, RefuseAsyncCall

LEMMA MonitorType ==
    ASSUME BaseInv, Next
    PROVE  MonitorOK'
<1> USE DEF BaseInv, TypeOK
<1>1. ASSUME UNCHANGED monVars PROVE MonitorOK'
  BY <1>1 DEF MonitorOK, monVars
<1>2. ASSUME NEW c \in Calls, NewCall(c) \/ Send(c) \/ Refused(c) \/ AddClosed(c) \/ AddOpen(c) \/ ArmFails(c) PROVE MonitorOK'
  BY <1>1, <1>2 DEF NewCall, Send, Refused, AddClosed, AddOpen, ArmFails
<1>3. ASSUME NEW c \in Calls, Arm(c) \/ BucketAdd(c) PROVE MonitorOK'
  BY <1>3 DEF Arm, BucketAdd, MonitorOK, CallsOK
<1>4. ASSUME NEW c \in Calls, \/ DeliverLocal(c) \/ DeliverRemote(c) \/ DeliverRejected(c) \/ SendFails(c)
                              \/ FailRelease(c) \/ FailEnvelope(c) \/ WaitReturn(c)
      PROVE  MonitorOK'
  BY <1>1, <1>4 DEF DeliverLocal, DeliverRemote, DeliverRejected, SendFails, FailRelease, FailEnvelope, WaitReturn
<1>5. ASSUME NEW c \in Calls PROVE Unbucket(c) \in [Calls -> States \cup {NoState}] /\ CancelTimer(c) \in [Calls -> {"none", "armed", "fired", "off"}]
  BY DEF Unbucket, CancelTimer, MonitorOK
<1>6. ASSUME NEW c \in Calls, FailRemove(c) \/ Cancel(c) PROVE MonitorOK'
  BY <1>5, <1>6 DEF FailRemove, Cancel, MonitorOK
<1>7. ASSUME NEW c \in Calls, TimerFire(c) \/ TimerDrop(c) PROVE MonitorOK'
  BY <1>7 DEF TimerFire, TimerDrop, MonitorOK
<1>8. ASSUME NEW c \in Calls, NEW b \in {"timer", "local", "reply"}, NEW r \in Results, Found(c)
      PROVE  [by |-> b, call |-> c, obj |-> bucket[c], res |-> r] \in [by : {"timer", "local", "reply"}, call : Calls, obj : States, res : Results]
  BY <1>8 DEF Found, MonitorOK
<1>9. ASSUME NEW c \in Calls, TimerTake(c) PROVE MonitorOK'
  <2>1. Res("timeout", c) \in Results
    BY FreeTypes
  <2>2. taken' \subseteq [by : {"timer", "local", "reply"}, call : Calls, obj : States, res : Results]
    BY <1>8, <1>9, <2>1 DEF TimerTake, MonitorOK
  <2>3. QED
    BY <1>5, <1>9, <2>2 DEF TimerTake, MonitorOK
<1>10. CASE Finish \/ StopBegin \/ StopScheduler \/ StopClear
  BY <1>10 DEF Finish, StopBegin, StopScheduler, StopClear, MonitorOK
<1>11. ASSUME NEW m, Lose(m) \/ Duplicate(m) \/ KeyForgotten(m) \/ RecvDuplicate(m) \/ RecvRequest(m) \/ AcceptRequest(m) \/ RejectRequest(m)
       PROVE  MonitorOK'
  BY <1>1, <1>11 DEF Lose, Duplicate, KeyForgotten, RecvDuplicate, RecvRequest, AcceptRequest, RejectRequest
<1>12. ASSUME NEW m \in net, RecvReply(m) PROVE MonitorOK'
  <2>1. m.call \in Calls /\ m.val \in Results
    BY DEF ServerOK
  <2>2. taken' \subseteq [by : {"timer", "local", "reply"}, call : Calls, obj : States, res : Results]
    BY <1>8, <1>12, <2>1 DEF RecvReply, MonitorOK
  <2>3. QED
    BY <1>5, <1>12, <2>1, <2>2 DEF RecvReply, MonitorOK
<1>13. ASSUME NEW j \in inbox, RespondLocal(j) PROVE MonitorOK'
  <2>1. j.call \in Calls
    BY DEF ServerOK
  <2>2. ReplyOf(j.call) \in Results
    BY <2>1, FreeTypes DEF ReplyOf
  <2>3. taken' \subseteq [by : {"timer", "local", "reply"}, call : Calls, obj : States, res : Results]
    BY <1>8, <1>13, <2>1, <2>2 DEF RespondLocal, MonitorOK
  <2>4. QED
    BY <1>5, <1>13, <2>1, <2>3 DEF RespondLocal, MonitorOK
<1>14. ASSUME NEW j, DeliverResponse(j) PROVE MonitorOK'
  BY <1>14 DEF DeliverResponse, MonitorOK
<1>15. ASSUME NEW j, \/ ExpireJob(j) \/ HandleRequest(j) \/ RespondRemote(j) \/ RespondNobody(j)
                     \/ ReleaseAgain(j) \/ ReleaseRequest(j) \/ RunCallback(j)
       PROVE  MonitorOK'
  BY <1>1, <1>15 DEF ExpireJob, HandleRequest, RespondRemote, RespondNobody, ReleaseAgain, ReleaseRequest, RunCallback
<1>16. QED
  BY <1>2, <1>3, <1>4, <1>6, <1>7, <1>9, <1>10, <1>11, <1>12, <1>13, <1>14, <1>15 DEF Next, CallStep, RefuseCall, RefuseAsyncCall

LEMMA PoolsType ==
    ASSUME BaseInv, Next
    PROVE  PoolsOK'
<1> USE DEF BaseInv, TypeOK
<1>0. st \in [States -> StateSet] /\ ev \in [Envs -> EnvSet] /\ cbjobs \subseteq JobSet
  BY DEF PoolsOK, StateSet, EnvSet, JobSet
<1>1. ASSUME st' \in [States -> StateSet], ev' \in [Envs -> EnvSet], cbjobs' \subseteq JobSet PROVE PoolsOK'
  BY <1>1 DEF PoolsOK, StateSet, EnvSet, JobSet
<1>2. ASSUME NEW c \in Calls, pc[c] \notin {"idle", "done"} PROVE env[c] \in Envs
  BY <1>2 DEF ShapeInv
<1>3. ASSUME NEW c \in Calls, pc[c] \in {"add", "arm", "wait", "release"} PROVE obj[c] \in States
  BY <1>3, SceneFacts DEF ShapeInv, CallsOK
<1>4. ASSUME NEW c \in Calls, NewCall(c) PROVE PoolsOK'
  <2>1. st' \in [States -> StateSet] /\ ev' \in [Envs -> EnvSet]
    BY <1>4, NewTypes DEF NewCall
  <2>2. QED
    BY <1>0, <1>1, <1>4, <2>1 DEF NewCall
<1>5. ASSUME NEW c \in Calls, Send(c) PROVE PoolsOK'
  <2>1. ev' \in [Envs -> EnvSet]
    BY <1>5, NewTypes DEF Send
  <2>2. QED
    BY <1>0, <1>1, <1>5, <2>1 DEF Send
<1>6. ASSUME NEW c \in Calls, AddClosed(c) \/ ArmFails(c) PROVE PoolsOK'
  <2>1. obj[c] \in States /\ Res("closed", c) \in Results
    BY <1>3, <1>6, FreeTypes DEF AddClosed, ArmFails
  <2>2. QED
    BY <1>6, <2>1, CompleteTypes DEF AddClosed, ArmFails
<1>7. ASSUME NEW c \in Calls, Refused(c) \/ AddOpen(c) \/ Arm(c) \/ BucketAdd(c) \/ DeliverLocal(c) \/ DeliverRejected(c) \/ FailRemove(c)
      PROVE  PoolsOK'
  BY <1>0, <1>1, <1>7 DEF Refused, AddOpen, Arm, BucketAdd, DeliverLocal, DeliverRejected, FailRemove
<1>8. ASSUME NEW c \in Calls, DeliverRemote(c) \/ SendFails(c) \/ FailEnvelope(c) PROVE PoolsOK'
  <2>1. ev' \in [Envs -> EnvSet]
    BY <1>2, <1>8, PutTypes DEF DeliverRemote, SendFails, FailEnvelope
  <2>2. QED
    BY <1>0, <1>1, <1>8, <2>1 DEF DeliverRemote, SendFails, FailEnvelope
<1>9. ASSUME NEW c \in Calls, FailRelease(c) \/ WaitReturn(c) PROVE PoolsOK'
  <2>1. st' \in [States -> StateSet]
    BY <1>3, <1>9, PutTypes DEF FailRelease, WaitReturn
  <2>2. QED
    BY <1>0, <1>1, <1>9, <2>1 DEF FailRelease, WaitReturn
<1>10. ASSUME NEW c \in Calls, Cancel(c) PROVE PoolsOK'
  <2>1. bucket[c] \in States
    BY <1>10 DEF Cancel, Found, MonitorOK
  <2>2. st' \in [States -> StateSet]
    BY <1>10, <2>1, PutTypes DEF Cancel
  <2>3. QED
    BY <1>0, <1>1, <1>10, <2>2 DEF Cancel
<1>11. ASSUME NEW c \in Calls, TimerFire(c) \/ TimerDrop(c) \/ TimerTake(c) PROVE PoolsOK'
  BY <1>0, <1>1, <1>11 DEF TimerFire, TimerDrop, TimerTake
<1>12. CASE Finish
  <2>1. PICK t \in taken : SetAndComplete(t.obj, t.res)
    BY <1>12 DEF Finish
  <2>2. t.obj \in States /\ t.res \in Results
    BY DEF MonitorOK
  <2>3. QED
    BY <2>1, <2>2, CompleteTypes
<1>13. CASE StopBegin \/ StopScheduler
  BY <1>0, <1>1, <1>13 DEF StopBegin, StopScheduler
<1>14. CASE StopClear
  <2>1. FreeState \in StateSet
    BY FreeTypes
  <2>2. st' \in [States -> StateSet]
    BY <1>0, <1>14, <2>1 DEF StopClear
  <2>3. QED
    BY <1>0, <1>1, <1>14, <2>2 DEF StopClear
<1>15. ASSUME NEW m, \/ Lose(m) \/ Duplicate(m) \/ KeyForgotten(m) \/ RecvDuplicate(m) \/ RecvRequest(m) \/ RecvReply(m)
                     \/ AcceptRequest(m) \/ RejectRequest(m)
       PROVE  PoolsOK'
  BY <1>0, <1>1, <1>15 DEF Lose, Duplicate, KeyForgotten, RecvDuplicate, RecvRequest, RecvReply, AcceptRequest, RejectRequest
<1>16. ASSUME NEW j \in inbox, ExpireJob(j) PROVE PoolsOK'
  <2>1. ev' \in [Envs -> EnvSet]
    BY <1>0, <1>16, FreeTypes DEF ExpireJob
  <2>2. QED
    BY <1>0, <1>1, <1>16, <2>1 DEF ExpireJob
<1>17. ASSUME NEW j, HandleRequest(j) \/ RespondRemote(j) \/ RespondNobody(j) PROVE PoolsOK'
  BY <1>0, <1>1, <1>17 DEF HandleRequest, RespondRemote, RespondNobody
<1>18. ASSUME NEW j \in inbox, RespondLocal(j) PROVE PoolsOK'
  <2>1. j.call \in Calls
    BY DEF ServerOK
  <2>2. ev' \in [Envs -> EnvSet]
    BY <1>18, <2>1, NewTypes DEF RespondLocal
  <2>3. QED
    BY <1>0, <1>1, <1>18, <2>2 DEF RespondLocal
<1>19. ASSUME NEW j \in inbox, DeliverResponse(j) PROVE PoolsOK'
  <2>1. PICK t \in taken :
           \/ /\ NeedCallback(t.obj) /\ st' = PutState(st, t.obj) /\ UNCHANGED ev
              /\ cbjobs' = cbjobs \cup {[call |-> st[t.obj].call, res |-> t.res, env |-> j.resp]}
           \/ st' = PutState(st, t.obj) /\ ev' = PutEnv(ev, j.resp) /\ UNCHANGED cbjobs
           \/ /\ st' = [st EXCEPT ![t.obj].res = t.res, ![t.obj].done = TRUE] /\ ev' = PutEnv(ev, j.resp) /\ UNCHANGED cbjobs
    BY <1>19 DEF DeliverResponse
  <2>2. t.obj \in States /\ t.res \in Results /\ j.resp \in Envs
    BY <1>19 DEF MonitorOK, JobInv, DeliverResponse
  <2>3. PutState(st, t.obj) \in [States -> StateSet] /\ PutEnv(ev, j.resp) \in [Envs -> EnvSet]
    BY <2>2, PutTypes
  <2>4. [st EXCEPT ![t.obj].res = t.res, ![t.obj].done = TRUE] \in [States -> StateSet]
    BY <1>0, <2>2 DEF StateSet
  <2>5. NeedCallback(t.obj) => [call |-> st[t.obj].call, res |-> t.res, env |-> j.resp] \in JobSet
    BY <1>0, <2>2 DEF NeedCallback, StateSet, JobSet
  <2>6. QED
    BY <1>0, <1>1, <2>1, <2>3, <2>4, <2>5
<1>20. ASSUME NEW j \in inbox, ReleaseAgain(j) PROVE PoolsOK'
  <2>1. j.resp \in Envs
    BY <1>20 DEF ReleaseAgain, JobInv
  <2>2. ev' \in [Envs -> EnvSet]
    BY <1>20, <2>1, PutTypes DEF ReleaseAgain
  <2>3. QED
    BY <1>0, <1>1, <1>20, <2>2 DEF ReleaseAgain
<1>21. ASSUME NEW j \in inbox, ReleaseRequest(j) PROVE PoolsOK'
  <2>1. j.env # NoEnv => j.env \in Envs
    BY DEF ServerOK
  <2>2. ev' \in [Envs -> EnvSet]
    BY <1>0, <1>21, <2>1, PutTypes DEF ReleaseRequest
  <2>3. QED
    BY <1>0, <1>1, <1>21, <2>2 DEF ReleaseRequest
<1>22. ASSUME NEW j \in cbjobs, RunCallback(j) PROVE PoolsOK'
  <2>1. j.env \in Envs
    BY DEF PoolsOK
  <2>2. ev' \in [Envs -> EnvSet]
    BY <1>22, <2>1, PutTypes DEF RunCallback
  <2>3. QED
    BY <1>0, <1>1, <1>22, <2>2 DEF RunCallback
<1>23. QED
  BY <1>4, <1>5, <1>6, <1>7, <1>8, <1>9, <1>10, <1>11, <1>12, <1>13, <1>14, <1>15, <1>16, <1>17, <1>18, <1>19, <1>20, <1>21, <1>22
  DEF Next, CallStep, RefuseCall, RefuseAsyncCall

MsgSet == [type : {"req", "rep"}, call : Calls, val : Results, copy : 1..3]
ReqSet == [call : Calls, env : Envs \cup {NoEnv}, copy : 1..3, resp : Envs \cup {NoEnv},
           at : {"queued", "respond", "reply", "again", "release"}]

\* A request job goes on.
LEMMA JobMoves ==
    ASSUME NEW j \in ReqSet, NEW a \in {"queued", "respond", "reply", "again", "release"}
    PROVE  /\ [j EXCEPT !.at = a] \in ReqSet /\ [j EXCEPT !.at = a].at = a
           /\ [j EXCEPT !.at = a].call = j.call /\ [j EXCEPT !.at = a].env = j.env /\ [j EXCEPT !.at = a].resp = j.resp
  BY DEF ReqSet

LEMMA JobReplies ==
    ASSUME NEW j \in ReqSet, NEW e \in Envs
    PROVE  /\ [j EXCEPT !.at = "reply", !.resp = e] \in ReqSet /\ [j EXCEPT !.at = "reply", !.resp = e].at = "reply"
           /\ [j EXCEPT !.at = "reply", !.resp = e].call = j.call /\ [j EXCEPT !.at = "reply", !.resp = e].env = j.env
           /\ [j EXCEPT !.at = "reply", !.resp = e].resp = e
  BY DEF ReqSet

\* The steps that concern no key.
LEMMA KeysMove ==
    ASSUME Next
    PROVE  \/ UNCHANGED <<scene, looking, seen, keyVars>>
           \/ \E m \in net : RecvRequest(m)
           \/ \E m \in looking : AcceptRequest(m) \/ RejectRequest(m)
           \/ \E k \in Keys : KeyForgotten(k)
           \/ \E j \in inbox : HandleRequest(j)
<1> DEFINE Same == UNCHANGED <<scene, looking, seen, keyVars>>
<1>1. ASSUME NEW c \in Calls, \/ NewCall(c) \/ Send(c) \/ Refused(c) \/ AddClosed(c) \/ AddOpen(c) \/ ArmFails(c) \/ Arm(c)
                              \/ BucketAdd(c) \/ DeliverLocal(c) \/ DeliverRemote(c) \/ DeliverRejected(c) \/ SendFails(c)
      PROVE  Same
  BY <1>1 DEF NewCall, Send, Refused, AddClosed, AddOpen, ArmFails, Arm, BucketAdd, DeliverLocal, DeliverRemote,
                    DeliverRejected, SendFails, srvVars, histVars
<1>2. ASSUME NEW c \in Calls, \/ FailRemove(c) \/ FailRelease(c) \/ FailEnvelope(c) \/ WaitReturn(c) \/ Cancel(c) \/ TimerFire(c)
                              \/ TimerDrop(c) \/ TimerTake(c)
      PROVE  Same
  BY <1>2 DEF FailRemove, FailRelease, FailEnvelope, WaitReturn, Cancel, TimerFire, TimerDrop, TimerTake, srvVars, histVars
<1>3. CASE Finish \/ StopBegin \/ StopScheduler \/ StopClear
  BY <1>3 DEF Finish, StopBegin, StopScheduler, StopClear, srvVars, histVars
<1>4. ASSUME NEW m, Lose(m) \/ Duplicate(m) \/ RecvDuplicate(m) \/ RecvReply(m) PROVE Same
  BY <1>4 DEF Lose, Duplicate, RecvDuplicate, RecvReply, histVars
<1>5. ASSUME NEW j, \/ ExpireJob(j) \/ RespondRemote(j) \/ RespondLocal(j) \/ RespondNobody(j) \/ DeliverResponse(j)
                    \/ ReleaseAgain(j) \/ ReleaseRequest(j) \/ RunCallback(j)
      PROVE  Same
  BY <1>5 DEF ExpireJob, RespondRemote, RespondLocal, RespondNobody, DeliverResponse, ReleaseAgain, ReleaseRequest,
                    RunCallback, srvVars, histVars
<1>6. QED
  BY <1>1, <1>2, <1>3, <1>4, <1>5 DEF Next, CallStep, RefuseCall, RefuseAsyncCall

LEMMA ServerType ==
    ASSUME BaseInv, Next
    PROVE  ServerOK'
<1> USE DEF BaseInv, TypeOK
<1>0. net \subseteq MsgSet /\ looking \subseteq MsgSet /\ inbox \subseteq ReqSet
  BY DEF ServerOK, MsgSet, ReqSet
<1>1. ASSUME UNCHANGED srvVars PROVE ServerOK'
  BY <1>1 DEF ServerOK, srvVars
<1>2. ASSUME net' \subseteq MsgSet, looking' \subseteq MsgSet, inbox' \subseteq ReqSet, UNCHANGED <<data, answers, execs>>
      PROVE  ServerOK'
  BY <1>2 DEF ServerOK, MsgSet, ReqSet
<1>4. ASSUME NEW c \in Calls, \/ NewCall(c) \/ Send(c) \/ Refused(c) \/ AddClosed(c) \/ AddOpen(c) \/ ArmFails(c)
                              \/ Arm(c) \/ BucketAdd(c) \/ DeliverRejected(c)
      PROVE  ServerOK'
  BY <1>1, <1>4 DEF NewCall, Send, Refused, AddClosed, AddOpen, ArmFails, Arm, BucketAdd, DeliverRejected
<1>5. ASSUME NEW c \in Calls, \/ FailRemove(c) \/ FailRelease(c) \/ FailEnvelope(c) \/ WaitReturn(c) \/ Cancel(c)
                              \/ TimerFire(c) \/ TimerDrop(c) \/ TimerTake(c)
      PROVE  ServerOK'
  BY <1>1, <1>5 DEF FailRemove, FailRelease, FailEnvelope, WaitReturn, Cancel, TimerFire, TimerDrop, TimerTake
<1>6. CASE Finish \/ StopBegin \/ StopScheduler \/ StopClear
  BY <1>1, <1>6 DEF Finish, StopBegin, StopScheduler, StopClear
<1>7. ASSUME NEW c \in Calls, DeliverLocal(c) PROVE ServerOK'
  <2>1. env[c] \in Envs
    BY <1>7 DEF DeliverLocal, ShapeInv
  <2>2. [call |-> c, env |-> env[c], at |-> "queued", copy |-> 1, resp |-> NoEnv] \in ReqSet
    BY <2>1 DEF ReqSet
  <2>3. QED
    BY <1>0, <1>2, <1>7, <2>2 DEF DeliverLocal
<1>8. ASSUME NEW c \in Calls, DeliverRemote(c) \/ SendFails(c) PROVE ServerOK'
  <2>1. [type |-> "req", call |-> c, val |-> NoRes, copy |-> 1] \in MsgSet
    BY FreeTypes DEF MsgSet
  <2>2. QED
    BY <1>0, <1>2, <1>8, <2>1 DEF DeliverRemote, SendFails
<1>9. ASSUME NEW m \in net, Duplicate(m) PROVE ServerOK'
  <2>1. [m EXCEPT !.copy = 2] \in MsgSet /\ [m EXCEPT !.copy = 3] \in MsgSet
    <3>1. m \in MsgSet
      BY <1>0
    <3>2. QED
      BY <3>1 DEF MsgSet
  <2>2. QED
    BY <1>0, <1>2, <1>9, <2>1 DEF Duplicate
<1>10. ASSUME NEW m \in net, Lose(m) \/ RecvDuplicate(m) \/ RecvReply(m) PROVE ServerOK'
  BY <1>0, <1>2, <1>10 DEF Lose, RecvDuplicate, RecvReply
<1>11. ASSUME NEW m \in net, RecvRequest(m) PROVE ServerOK'
  <2>1. m.call \in Calls
    BY <1>0 DEF MsgSet
  <2>2. QED
    BY <1>0, <1>2, <1>11, <2>1 DEF RecvRequest
<1>12. ASSUME NEW m \in looking, AcceptRequest(m) \/ RejectRequest(m) PROVE ServerOK'
  <2>1. m.call \in Calls /\ m.copy \in 1..3
    BY <1>0 DEF MsgSet
  <2>2. [call |-> m.call, env |-> NoEnv, at |-> "queued", copy |-> m.copy, resp |-> NoEnv] \in ReqSet
    BY <2>1 DEF ReqSet
  <2>3. QED
    BY <1>0, <1>2, <1>12, <2>1, <2>2 DEF AcceptRequest, RejectRequest
<1>13. ASSUME NEW j \in inbox PROVE j \in ReqSet /\ j.call \in Calls
  BY <1>0 DEF ReqSet
<1>14. ASSUME NEW j \in inbox, ExpireJob(j) \/ ReleaseRequest(j) PROVE ServerOK'
  BY <1>0, <1>2, <1>14 DEF ExpireJob, ReleaseRequest
<1>15. ASSUME NEW j \in inbox, HandleRequest(j) PROVE ServerOK'
  <2>1. PICK a \in {"ok", "err"} : /\ data' = [data EXCEPT ![DataOf(j.call)] = @ \cup {a}]
                                   /\ answers' = [answers EXCEPT ![j.call] = @ \cup {a}]
    BY <1>15 DEF HandleRequest
  <2>2. data' \in [Calls -> SUBSET {"ok", "err"}] /\ answers' \in [Calls -> SUBSET {"ok", "err"}]
    BY <1>13, <2>1 DEF ServerOK
  <2>3. execs' \in [Calls -> Nat]
    BY <1>13, <1>15 DEF ServerOK, HandleRequest
  <2>4. [j EXCEPT !.at = IF scene.mode = "send" THEN "release" ELSE "respond"] \in ReqSet
    BY <1>13, JobMoves
  <2>5. inbox' \subseteq ReqSet
    BY <1>0, <1>15, <2>4 DEF HandleRequest
  <2>6. QED
    BY <1>0, <1>15, <2>2, <2>3, <2>5 DEF HandleRequest, ServerOK, MsgSet, ReqSet
<1>16. ASSUME NEW j \in inbox, RespondRemote(j) PROVE ServerOK'
  <2>1. j.call \in Calls /\ j.copy \in 1..3
    BY <1>13 DEF ReqSet
  <2>2. [type |-> "rep", call |-> j.call, val |-> ReplyOf(j.call), copy |-> j.copy] \in MsgSet
    BY <2>1, FreeTypes DEF ReplyOf, MsgSet
  <2>3. QED
    BY <1>0, <1>2, <1>16, <2>2 DEF RespondRemote
<1>17. ASSUME NEW j \in inbox, RespondLocal(j) PROVE ServerOK'
  <2>1. PICK e \in PooledEnvs : inbox' = (inbox \ {j}) \cup {[j EXCEPT !.at = "reply", !.resp = e]}
    BY <1>17 DEF RespondLocal
  <2>2. e \in Envs
    BY <1>13, NewTypes
  <2>3. inbox' \subseteq ReqSet
    BY <1>0, <1>13, <2>1, <2>2, JobReplies, ZenonT(40)
  <2>4. QED
    BY <1>0, <1>2, <1>17, <2>3 DEF RespondLocal
<1>18. ASSUME NEW j \in inbox, RespondNobody(j) \/ DeliverResponse(j) \/ ReleaseAgain(j) PROVE ServerOK'
  <2>1. inbox' = (inbox \ {j}) \cup {[j EXCEPT !.at = "release"]} \/ inbox' = (inbox \ {j}) \cup {[j EXCEPT !.at = "again"]}
    BY <1>18 DEF RespondNobody, DeliverResponse, ReleaseAgain
  <2>2. [j EXCEPT !.at = "release"] \in ReqSet /\ [j EXCEPT !.at = "again"] \in ReqSet
    BY <1>13, JobMoves
  <2>3. inbox' \subseteq ReqSet
    BY <1>0, <2>1, <2>2
  <2>4. QED
    BY <1>0, <1>2, <1>18, <2>3 DEF RespondNobody, DeliverResponse, ReleaseAgain
<1>19. ASSUME NEW j, RunCallback(j) PROVE ServerOK'
  BY <1>1, <1>19 DEF RunCallback
<1>20. ASSUME NEW k \in Keys, KeyForgotten(k) PROVE ServerOK'
  BY <1>20 DEF KeyForgotten, ServerOK
<1>21. QED
  BY <1>4, <1>5, <1>6, <1>7, <1>8, <1>9, <1>10, <1>11, <1>12, <1>14, <1>15, <1>16, <1>17, <1>18, <1>19, <1>20
  DEF Next, CallStep, RefuseCall, RefuseAsyncCall

LEMMA KeysType ==
    ASSUME BaseInv, Next
    PROVE  KeysOK'
<1> USE DEF BaseInv, TypeOK
<1>0. KeysOK /\ net \subseteq MsgSet /\ looking \subseteq MsgSet /\ \A c \in Calls : Keyed(c) => KeyOf(c) \in Keys
  <2>1. scene \in Scenarios
    BY DEF CallsOK
  <2>2. QED
    BY <2>1, SceneFacts DEF ServerOK, MsgSet, Keyed
<1>1. ASSUME UNCHANGED <<seen, keyVars>> PROVE KeysOK'
  BY <1>0, <1>1 DEF KeysOK, keyVars
<1>2. ASSUME NEW m \in net, RecvRequest(m) PROVE KeysOK'
  <2>1. m.call \in Calls /\ m.copy \in 1..3 /\ (Keyed(m.call) => KeyOf(m.call) \in Keys)
    BY <1>0 DEF MsgSet
  <2>2. UNCHANGED <<forgotten, ran>>
    BY <1>2 DEF RecvRequest
  <2>3. seen' \cup overlap' \subseteq Keys
    BY <1>0, <1>2, <2>1 DEF KeysOK, RecvRequest
  <2>4. passed' \subseteq [call : Calls, copy : 1..3, gen : Nat]
    <3>1. CASE Keyed(m.call)
      <4>1. forgotten[KeyOf(m.call)] \in Nat
        BY <1>0, <2>1, <3>1 DEF KeysOK
      <4>2. QED
        BY <1>0, <1>2, <2>1, <3>1, <4>1 DEF KeysOK, RecvRequest
    <3>2. CASE ~Keyed(m.call)
      BY <1>0, <1>2, <3>2 DEF KeysOK, RecvRequest
    <3>3. QED
      BY <3>1, <3>2
  <2>5. QED
    BY <1>0, <2>2, <2>3, <2>4 DEF KeysOK
<1>3. ASSUME NEW m \in looking, AcceptRequest(m) \/ RejectRequest(m) PROVE KeysOK'
  <2>1. m.call \in Calls /\ (Keyed(m.call) => KeyOf(m.call) \in Keys)
    BY <1>0 DEF MsgSet
  <2>2. UNCHANGED keyVars /\ StoreKey(m)
    BY <1>3 DEF AcceptRequest, RejectRequest, histVars
  <2>3. QED
    BY <1>0, <2>1, <2>2 DEF KeysOK, StoreKey, keyVars
<1>4. ASSUME NEW k \in Keys, KeyForgotten(k) PROVE KeysOK'
  BY <1>0, <1>4 DEF KeyForgotten, KeysOK
<1>5. ASSUME NEW j, HandleRequest(j) PROVE KeysOK'
  BY <1>0, <1>5 DEF HandleRequest, KeysOK
<1>6. QED
  BY <1>1, <1>2, <1>3, <1>4, <1>5, KeysMove

-----------------------------------------------------------------------------
(* What a call holds. *)

LEMMA ShapeStep ==
    ASSUME BaseInv, Next
    PROVE  ShapeInv'
<1> USE DEF BaseInv, TypeOK
<1>0. /\ scene.mode \in {"single", "any", "all", "async", "send"} /\ NoState \notin States
      /\ pc \in [Calls -> {"idle", "add", "arm", "bucket", "deliver", "wait", "out", "remove", "release", "relenv", "done"}]
      /\ \A t \in taken : t.call \in Calls
      /\ obj \in [Calls -> States \cup {NoState}] /\ env \in [Calls -> Envs \cup {NoEnv}] /\ bucket \in [Calls -> States \cup {NoState}]
  BY SceneFacts, ConstantsAssumption DEF CallsOK, MonitorOK
<1>1. ASSUME UNCHANGED <<scene, callVars, bucket>>, taken' \subseteq taken PROVE ShapeInv'
  BY <1>1 DEF ShapeInv, callVars, kind
<1>2. ASSUME NEW c \in Calls, NewCall(c) PROVE ShapeInv'
  <2>1. PICK s \in PooledStates, e \in PooledEnvs : obj' = [obj EXCEPT ![c] = s] /\ env' = [env EXCEPT ![c] = e]
    BY <1>2 DEF NewCall
  <2>2. s \in States /\ e \in Envs
    BY NewTypes
  <2>3. pc[c] = "idle" /\ pc' = [pc EXCEPT ![c] = "add"] /\ UNCHANGED <<scene, bucket, taken>> /\ scene.mode # "send"
    BY <1>2 DEF NewCall, monVars
  <2>4. bucket[c] = NoState /\ \A t \in taken : t.call # c
    BY <2>3 DEF ShapeInv
  <2>5. QED
    BY <1>0, <2>1, <2>2, <2>3, <2>4 DEF ShapeInv, kind
<1>3. ASSUME NEW c \in Calls, Send(c) PROVE ShapeInv'
  <2>1. PICK e \in PooledEnvs : env' = [env EXCEPT ![c] = e]
    BY <1>3 DEF Send
  <2>2. e \in Envs
    BY NewTypes
  <2>3. pc' = [pc EXCEPT ![c] = "deliver"] /\ UNCHANGED <<scene, obj, bucket, taken>> /\ scene.mode = "send"
    BY <1>3 DEF Send, monVars
  <2>4. QED
    BY <1>0, <2>1, <2>2, <2>3 DEF ShapeInv, kind
<1>4. ASSUME NEW c \in Calls, NEW a \in {"add", "arm", "bucket", "deliver", "remove", "release", "relenv", "done", "wait", "out"},
             pc' = [pc EXCEPT ![c] = a], UNCHANGED <<scene, obj, env, taken>>,
             bucket' = bucket \/ bucket' = [bucket EXCEPT ![c] = NoState],
             scene.mode = "send" => a \in {"relenv", "done"}, a = "wait" => ~kind[c].async, a = "out" => kind[c].async,
             a # "done" => pc[c] \notin {"idle", "done"}, a \in {"add", "arm", "bucket"} => pc[c] \in {"add", "arm", "bucket"}
      PROVE  ShapeInv'
  <2>1. \A d \in Calls : bucket'[d] # NoState => bucket'[d] = bucket[d]
    BY <1>0, <1>4
  <2>2. \A d \in Calls \ {c} : pc'[d] = pc[d]
    BY <1>0, <1>4
  <2>3. pc'[c] = a
    BY <1>0, <1>4
  <2>4. \A d \in Calls : bucket'[d] # NoState => bucket'[d] = obj[d] /\ pc'[d] \notin {"idle", "add", "arm", "bucket"}
    BY <1>4, <2>1, <2>2, <2>3 DEF ShapeInv
  <2>5. \A t \in taken : t.obj = obj[t.call] /\ pc'[t.call] \notin {"idle", "add", "arm", "bucket"}
    BY <1>0, <1>4, <2>2, <2>3 DEF ShapeInv
  <2>6. scene.mode = "send" => taken = {} /\ \A d \in Calls : bucket'[d] = NoState /\ pc'[d] \in {"idle", "deliver", "relenv", "done"}
    BY <1>0, <1>4, <2>2, <2>3 DEF ShapeInv
  <2>7. \A d \in Calls : pc'[d] \notin {"idle", "done"} => env[d] \in Envs /\ (scene.mode # "send" => obj[d] \in States)
    BY <1>4, <2>2, <2>3 DEF ShapeInv
  <2>8. \A d \in Calls : (pc'[d] = "wait" => ~kind[d].async) /\ (pc'[d] = "out" => kind[d].async)
    BY <1>4, <2>2, <2>3 DEF ShapeInv
  <2>9. QED
    BY <1>4, <2>4, <2>5, <2>6, <2>7, <2>8 DEF ShapeInv, kind
<1>5. ASSUME NEW c \in Calls, Refused(c) PROVE ShapeInv'
  BY <1>4, <1>5 DEF Refused, monVars
<1>6. ASSUME NEW c \in Calls, pc[c] \in {"add", "arm", "bucket", "wait", "out", "remove", "release"} PROVE scene.mode # "send"
  BY <1>6 DEF ShapeInv
<1>7. ASSUME NEW c \in Calls, AddClosed(c) \/ ArmFails(c) PROVE ShapeInv'
  <2>1. pc' = [pc EXCEPT ![c] = "deliver"] /\ UNCHANGED <<scene, obj, env, taken, bucket>> /\ pc[c] \in {"add", "arm"}
    BY <1>7 DEF AddClosed, ArmFails, monVars
  <2>2. QED
    BY <1>4, <1>6, <2>1
<1>8. ASSUME NEW c \in Calls, AddOpen(c) \/ Arm(c) PROVE ShapeInv'
  <2>1. /\ pc' = [pc EXCEPT ![c] = "arm"] \/ pc' = [pc EXCEPT ![c] = "bucket"]
        /\ UNCHANGED <<scene, obj, env, taken, bucket>> /\ pc[c] \in {"add", "arm"}
    BY <1>8 DEF AddOpen, Arm, monVars
  <2>2. QED
    BY <1>4, <1>6, <2>1
<1>9. ASSUME NEW c \in Calls, BucketAdd(c) PROVE ShapeInv'
  <2>1. /\ pc' = [pc EXCEPT ![c] = "deliver"] /\ bucket' = [bucket EXCEPT ![c] = obj[c]]
        /\ UNCHANGED <<scene, obj, env, taken>> /\ pc[c] = "bucket"
    BY <1>9 DEF BucketAdd
  <2>2. QED
    BY <1>0, <1>6, <2>1 DEF ShapeInv, kind
<1>10. ASSUME NEW c \in Calls, DeliverLocal(c) \/ DeliverRemote(c) \/ DeliverRejected(c) \/ SendFails(c) PROVE ShapeInv'
  <2>1. pc[c] = "deliver" /\ UNCHANGED <<scene, obj, env, taken, bucket>> /\ (Delivered(c) \/ Undelivered(c))
    BY <1>10 DEF DeliverLocal, DeliverRemote, DeliverRejected, SendFails, monVars
  <2>2. CASE Delivered(c)
    BY <1>4, <2>1, <2>2 DEF Delivered
  <2>3. CASE Undelivered(c)
    BY <1>4, <2>1, <2>3 DEF Undelivered
  <2>4. QED
    BY <2>1, <2>2, <2>3
<1>11. ASSUME NEW c \in Calls, FailRemove(c) PROVE ShapeInv'
  <2>1. /\ pc[c] = "remove" /\ UNCHANGED <<scene, obj, env, taken>> /\ pc' = [pc EXCEPT ![c] = "release"]
        /\ bucket' = bucket \/ bucket' = [bucket EXCEPT ![c] = NoState]
    BY <1>11 DEF FailRemove, Unbucket
  <2>2. QED
    BY <1>4, <1>6, <2>1
<1>12. ASSUME NEW c \in Calls, FailRelease(c) PROVE ShapeInv'
  <2>1. pc[c] = "release" /\ UNCHANGED <<scene, obj, env, taken, bucket>> /\ pc' = [pc EXCEPT ![c] = "relenv"]
    BY <1>12 DEF FailRelease, monVars
  <2>2. QED
    BY <1>4, <2>1
<1>13. ASSUME NEW c \in Calls, FailEnvelope(c) \/ WaitReturn(c) PROVE ShapeInv'
  BY <1>4, <1>13 DEF FailEnvelope, WaitReturn, monVars
<1>14. ASSUME NEW c \in Calls, Cancel(c) PROVE ShapeInv'
  <2>1. /\ UNCHANGED <<scene, obj, env, taken>> /\ pc' = [pc EXCEPT ![c] = "done"]
        /\ bucket' = bucket \/ bucket' = [bucket EXCEPT ![c] = NoState]
    BY <1>14 DEF Cancel, Unbucket
  <2>2. QED
    BY <1>4, <2>1
<1>15. ASSUME NEW c \in Calls, TimerFire(c) \/ TimerDrop(c) PROVE ShapeInv'
  BY <1>1, <1>15 DEF TimerFire, TimerDrop
<1>16. ASSUME NEW c \in Calls, NEW t, t.call = c, t.obj = bucket[c], UNCHANGED <<scene, callVars>>, bucket' = Unbucket(c),
              taken' = IF Found(c) THEN taken \cup {t} ELSE taken
       PROVE  ShapeInv'
  <2>1. CASE ~Found(c)
    BY <1>1, <1>16, <2>1 DEF Unbucket
  <2>2. CASE Found(c)
    <3>1. bucket' = [bucket EXCEPT ![c] = NoState] /\ taken' = taken \cup {t} /\ bucket[c] # NoState
      BY <1>16, <2>2 DEF Unbucket, Found
    <3>2. t.obj = obj[c] /\ pc[c] \notin {"idle", "add", "arm", "bucket"} /\ scene.mode # "send"
      BY <1>16, <3>1 DEF ShapeInv
    <3>3. UNCHANGED <<scene, pc, obj, env>>
      BY <1>16 DEF callVars
    <3>4. QED
      BY <1>0, <1>16, <3>1, <3>2, <3>3 DEF ShapeInv, kind
  <2>3. QED
    BY <2>1, <2>2
<1>17. ASSUME NEW c \in Calls, TimerTake(c) PROVE ShapeInv'
  <2> DEFINE t == [by |-> "timer", call |-> c, obj |-> bucket[c], res |-> Res("timeout", c)]
  <2>1. t.call = c /\ t.obj = bucket[c] /\ UNCHANGED <<scene, callVars>> /\ bucket' = Unbucket(c)
        /\ taken' = IF Found(c) THEN taken \cup {t} ELSE taken
    BY <1>17 DEF TimerTake
  <2> HIDE DEF t
  <2>2. QED
    BY <1>16, <2>1
<1>18. CASE Finish \/ StopBegin \/ StopScheduler
  BY <1>1, <1>18 DEF Finish, StopBegin, StopScheduler
<1>19. CASE StopClear
  BY <1>19 DEF StopClear, ShapeInv, callVars, kind
<1>20. ASSUME NEW m, Lose(m) \/ Duplicate(m) \/ KeyForgotten(m) \/ RecvDuplicate(m) \/ RecvRequest(m) \/ AcceptRequest(m) \/ RejectRequest(m)
       PROVE  ShapeInv'
  BY <1>1, <1>20 DEF Lose, Duplicate, KeyForgotten, RecvDuplicate, RecvRequest, AcceptRequest, RejectRequest, monVars
<1>21. ASSUME NEW m \in net, RecvReply(m) PROVE ShapeInv'
  <2> DEFINE t == [by |-> "reply", call |-> m.call, obj |-> bucket[m.call], res |-> m.val]
  <2>1. t.call = m.call /\ t.obj = bucket[m.call] /\ UNCHANGED <<scene, callVars>> /\ bucket' = Unbucket(m.call)
        /\ taken' = IF Found(m.call) THEN taken \cup {t} ELSE taken
    BY <1>21 DEF RecvReply
  <2>2. m.call \in Calls
    BY DEF ServerOK
  <2> HIDE DEF t
  <2>3. QED
    BY <1>16, <2>1, <2>2
<1>22. ASSUME NEW j \in inbox, RespondLocal(j) PROVE ShapeInv'
  <2> DEFINE t == [by |-> "local", call |-> j.call, obj |-> bucket[j.call], res |-> ReplyOf(j.call)]
  <2>1. t.call = j.call /\ t.obj = bucket[j.call] /\ UNCHANGED <<scene, callVars>> /\ bucket' = Unbucket(j.call)
        /\ taken' = IF Found(j.call) THEN taken \cup {t} ELSE taken
    BY <1>22 DEF RespondLocal
  <2>2. j.call \in Calls
    BY DEF ServerOK
  <2> HIDE DEF t
  <2>3. QED
    BY <1>16, <2>1, <2>2
<1>23. ASSUME NEW j, \/ ExpireJob(j) \/ HandleRequest(j) \/ RespondRemote(j) \/ RespondNobody(j)
                     \/ ReleaseAgain(j) \/ ReleaseRequest(j)
       PROVE  ShapeInv'
  BY <1>1, <1>23 DEF ExpireJob, HandleRequest, RespondRemote, RespondNobody, ReleaseAgain, ReleaseRequest, monVars
<1>24. ASSUME NEW j, DeliverResponse(j) PROVE ShapeInv'
  BY <1>1, <1>24 DEF DeliverResponse
<1>25. ASSUME NEW j, RunCallback(j) PROVE ShapeInv'
  BY <1>25 DEF RunCallback, ShapeInv, monVars, kind
<1>26. QED
  BY <1>2, <1>3, <1>5, <1>7, <1>8, <1>9, <1>10, <1>11, <1>12, <1>13, <1>14, <1>15, <1>17, <1>18, <1>19, <1>20, <1>21, <1>22, <1>23, <1>24, <1>25
  DEF Next, CallStep, RefuseCall, RefuseAsyncCall

\* Where a request is before it is delivered.
Early == {"idle", "add", "arm", "bucket", "deliver"}

LEMMA JobStep ==
    ASSUME BaseInv, Next
    PROVE  JobInv'
<1> USE DEF BaseInv, TypeOK
<1>0. /\ net \subseteq MsgSet /\ looking \subseteq MsgSet /\ inbox \subseteq ReqSet
      /\ pc \in [Calls -> {"idle", "add", "arm", "bucket", "deliver", "wait", "out", "remove", "release", "relenv", "done"}]
      /\ execs \in [Calls -> Nat] /\ NoEnv \notin Envs
  BY ConstantsAssumption DEF CallsOK, ServerOK, MsgSet, ReqSet
<1>1. ASSUME NEW j \in inbox PROVE j \in ReqSet /\ j.call \in Calls
  BY <1>0 DEF ReqSet
<1>2. ASSUME UNCHANGED <<scene, net, looking, inbox, execs>>, \A c \in Calls : pc'[c] \in Early => pc[c] \in Early PROVE JobInv'
  BY <1>1, <1>2 DEF JobInv, Early, kind
<1>3. ASSUME NEW c \in Calls, \/ NewCall(c) \/ Send(c) \/ Refused(c) \/ AddClosed(c) \/ AddOpen(c) \/ ArmFails(c)
                              \/ Arm(c) \/ BucketAdd(c)
      PROVE  JobInv'
  <2>1. UNCHANGED <<scene, net, looking, inbox, execs>>
    BY <1>3 DEF NewCall, Send, Refused, AddClosed, AddOpen, ArmFails, Arm, BucketAdd, srvVars
  <2>2. pc[c] \in Early /\ \E a \in {"add", "deliver", "done", "arm", "bucket"} : pc' = [pc EXCEPT ![c] = a]
    BY <1>3 DEF NewCall, Send, Refused, AddClosed, AddOpen, ArmFails, Arm, BucketAdd, Early
  <2>3. QED
    BY <1>0, <1>2, <2>1, <2>2
<1>4. ASSUME NEW c \in Calls, DeliverRejected(c) \/ FailRemove(c) \/ FailRelease(c) \/ FailEnvelope(c) \/ WaitReturn(c) \/ Cancel(c)
      PROVE  JobInv'
  <2>1. UNCHANGED <<scene, net, looking, inbox, execs>>
    BY <1>4 DEF DeliverRejected, FailRemove, FailRelease, FailEnvelope, WaitReturn, Cancel, srvVars
  <2>2. \E a \in {"relenv", "remove", "release", "done"} : pc' = [pc EXCEPT ![c] = a]
    BY <1>4 DEF DeliverRejected, FailRemove, FailRelease, FailEnvelope, WaitReturn, Cancel, Undelivered
  <2>3. QED
    BY <1>0, <1>2, <2>1, <2>2 DEF Early
<1>5. ASSUME NEW c \in Calls, TimerFire(c) \/ TimerDrop(c) \/ TimerTake(c) PROVE JobInv'
  BY <1>2, <1>5 DEF TimerFire, TimerDrop, TimerTake, callVars, srvVars
<1>6. CASE Finish \/ StopBegin \/ StopScheduler \/ StopClear
  BY <1>2, <1>6 DEF Finish, StopBegin, StopScheduler, StopClear, callVars, srvVars
<1>7. ASSUME NEW j, RunCallback(j) PROVE JobInv'
  BY <1>2, <1>7 DEF RunCallback, srvVars
<1>8. ASSUME NEW c \in Calls, DeliverLocal(c) PROVE JobInv'
  <2> DEFINE r == [call |-> c, env |-> env[c], at |-> "queued", copy |-> 1, resp |-> NoEnv]
  <2>1. UNCHANGED <<scene, net, looking, execs>> /\ ~kind[c].remote /\ inbox' = inbox \cup {r}
    BY <1>8 DEF DeliverLocal
  <2>2. r.call = c /\ r.at = "queued"
    OBVIOUS
  <2> HIDE DEF r
  <2>3. \E a \in {"done", "out", "wait"} : pc' = [pc EXCEPT ![c] = a]
    BY <1>8 DEF DeliverLocal, Delivered
  <2>4. pc'[c] \notin Early /\ \A d \in Calls : pc'[d] \in Early => pc[d] \in Early
    BY <1>0, <2>3 DEF Early
  <2>5. QED
    BY <1>1, <2>1, <2>2, <2>4 DEF JobInv, Early, kind
<1>9. ASSUME NEW c \in Calls, DeliverRemote(c) \/ SendFails(c) PROVE JobInv'
  <2> DEFINE m == [type |-> "req", call |-> c, val |-> NoRes, copy |-> 1]
  <2>1. UNCHANGED <<scene, looking, inbox, execs>> /\ kind[c].remote /\ net' \subseteq net \cup {m}
    BY <1>9 DEF DeliverRemote, SendFails
  <2>2. m.call = c
    OBVIOUS
  <2> HIDE DEF m
  <2>3. \E a \in {"done", "out", "wait", "relenv", "remove"} : pc' = [pc EXCEPT ![c] = a]
    BY <1>9 DEF DeliverRemote, SendFails, Delivered, Undelivered
  <2>4. \A d \in Calls : pc'[d] \in Early => pc[d] \in Early
    BY <1>0, <2>3 DEF Early
  <2>5. QED
    BY <1>1, <2>1, <2>2, <2>4 DEF JobInv, Early, kind
<1>10. ASSUME NEW m \in net, Duplicate(m) PROVE JobInv'
  <2>1. m \in MsgSet /\ UNCHANGED <<scene, pc, looking, inbox, execs>> /\ net' = (net \ {m}) \cup {[m EXCEPT !.copy = 2], [m EXCEPT !.copy = 3]}
    BY <1>0, <1>10 DEF Duplicate, callVars
  <2>2. [m EXCEPT !.copy = 2].call = m.call /\ [m EXCEPT !.copy = 3].call = m.call
    BY <2>1 DEF MsgSet
  <2>3. QED
    BY <2>1, <2>2 DEF JobInv, kind
<1>11. ASSUME NEW m \in net, Lose(m) \/ RecvDuplicate(m) \/ RecvReply(m) PROVE JobInv'
  BY <1>11 DEF Lose, RecvDuplicate, RecvReply, JobInv, callVars, kind
<1>k. ASSUME NEW k, KeyForgotten(k) PROVE JobInv'
  BY <1>k DEF KeyForgotten, JobInv, callVars, kind
<1>12. ASSUME NEW m \in net, RecvRequest(m) PROVE JobInv'
  BY <1>12 DEF RecvRequest, JobInv, callVars, kind
<1>13. ASSUME NEW m \in looking, RejectRequest(m) PROVE JobInv'
  BY <1>13 DEF RejectRequest, JobInv, callVars, kind
<1>14. ASSUME NEW m \in looking, AcceptRequest(m) PROVE JobInv'
  <2> DEFINE r == [call |-> m.call, env |-> NoEnv, at |-> "queued", copy |-> m.copy, resp |-> NoEnv]
  <2>1. UNCHANGED <<scene, pc, net, execs>> /\ kind[m.call].remote /\ inbox' = inbox \cup {r} /\ looking' \subseteq looking
    BY <1>14 DEF AcceptRequest, callVars, JobInv
  <2>2. r.call = m.call /\ r.at = "queued" /\ r.env = NoEnv
    OBVIOUS
  <2> HIDE DEF r
  <2>3. QED
    BY <2>1, <2>2 DEF JobInv, kind
<1>15. ASSUME NEW j \in inbox, NEW k, UNCHANGED <<scene, pc>>, inbox' = inbox \ {j} \/ inbox' = (inbox \ {j}) \cup {k},
              k.call = j.call, k.env = j.env, k.at \in {"reply", "again"} => k.resp \in Envs,
              looking' = looking, \A m \in net' : kind[m.call].remote,
              \A c \in Calls : execs'[c] # execs[c] => c = j.call
       PROVE  JobInv'
  <2>1. \A i \in inbox' : \/ i \in inbox
                          \/ /\ i = k /\ (k.at \in {"reply", "again"} => k.resp \in Envs)
    BY <1>15
  <2>2. ASSUME NEW i \in inbox'
        PROVE  /\ i.at \in {"reply", "again"} => i.resp \in Envs
               /\ i.env # NoEnv => ~kind[i.call].remote
               /\ ~kind[i.call].remote => pc[i.call] \notin {"idle", "add", "arm", "bucket", "deliver"}
    BY <1>15, <2>1 DEF JobInv
  <2>3. \A c \in Calls : ~kind[c].remote /\ pc[c] \in {"idle", "add", "arm", "bucket", "deliver"} => execs'[c] = 0
    BY <1>1, <1>15 DEF JobInv
  <2>4. QED
    BY <1>15, <2>2, <2>3 DEF JobInv, kind
<1>16. ASSUME NEW j \in inbox, ExpireJob(j) \/ ReleaseRequest(j) PROVE JobInv'
  <2>1. UNCHANGED <<scene, pc, net, looking, execs>> /\ inbox' = inbox \ {j}
    BY <1>16 DEF ExpireJob, ReleaseRequest, callVars
  <2>2. QED
    BY <2>1 DEF JobInv, kind
<1>17. ASSUME NEW j \in inbox, HandleRequest(j) PROVE JobInv'
  <2>1. PICK a \in {"release", "respond"} : inbox' = (inbox \ {j}) \cup {[j EXCEPT !.at = a]}
    BY <1>17 DEF HandleRequest
  <2>2. UNCHANGED <<scene, pc, net, looking>> /\ \A c \in Calls : execs'[c] # execs[c] => c = j.call
    BY <1>0, <1>17 DEF HandleRequest, callVars
  <2>3. \A m \in net' : kind[m.call].remote
    BY <2>2 DEF JobInv
  <2>4. /\ [j EXCEPT !.at = a].call = j.call /\ [j EXCEPT !.at = a].env = j.env /\ [j EXCEPT !.at = a].at = a
    BY <1>1, JobMoves
  <2>5. QED
    BY <1>15, <2>1, <2>2, <2>3, <2>4
<1>18. ASSUME NEW j \in inbox, RespondRemote(j) PROVE JobInv'
  <2> DEFINE m == [type |-> "rep", call |-> j.call, val |-> ReplyOf(j.call), copy |-> j.copy]
  <2>1. UNCHANGED <<scene, pc, looking, execs>> /\ kind[j.call].remote /\ inbox' = inbox \ {j} /\ net' \subseteq net \cup {m}
    BY <1>18 DEF RespondRemote, callVars
  <2>2. m.call = j.call
    OBVIOUS
  <2> HIDE DEF m
  <2>3. QED
    BY <2>1, <2>2 DEF JobInv, kind
<1>19. ASSUME NEW j \in inbox, RespondLocal(j) PROVE JobInv'
  <2>1. PICK e \in PooledEnvs : inbox' = (inbox \ {j}) \cup {[j EXCEPT !.at = "reply", !.resp = e]}
    BY <1>19 DEF RespondLocal
  <2>2. e \in Envs
    BY <1>1, NewTypes
  <2>3. UNCHANGED <<scene, pc, net, looking, execs>>
    BY <1>19 DEF RespondLocal, callVars
  <2>4. \A m \in net' : kind[m.call].remote
    BY <2>3 DEF JobInv
  <2> DEFINE k == [j EXCEPT !.at = "reply", !.resp = e]
  <2>5. k.call = j.call /\ k.env = j.env /\ k.resp = e
    BY <1>1, <2>2, JobReplies
  <2>6. inbox' = (inbox \ {j}) \cup {k}
    BY <2>1
  <2> HIDE DEF k
  <2>7. QED
    BY <1>15, <2>2, <2>3, <2>4, <2>5, <2>6
<1>20. ASSUME NEW j \in inbox, RespondNobody(j) \/ DeliverResponse(j) \/ ReleaseAgain(j) PROVE JobInv'
  <2>1. PICK a \in {"release", "again"} : inbox' = (inbox \ {j}) \cup {[j EXCEPT !.at = a]} /\ (a = "again" => j.at = "reply")
    BY <1>20 DEF RespondNobody, DeliverResponse, ReleaseAgain
  <2>2. UNCHANGED <<scene, pc, net, looking, execs>>
    BY <1>20 DEF RespondNobody, DeliverResponse, ReleaseAgain, callVars
  <2>3. \A m \in net' : kind[m.call].remote
    BY <2>2 DEF JobInv
  <2>4. /\ [j EXCEPT !.at = a].call = j.call /\ [j EXCEPT !.at = a].env = j.env /\ [j EXCEPT !.at = a].at = a
        /\ [j EXCEPT !.at = a].resp = j.resp
    BY <1>1, JobMoves
  <2>5. a = "again" => j.resp \in Envs
    BY <2>1 DEF JobInv
  <2>6. QED
    BY <1>15, <2>1, <2>2, <2>3, <2>4, <2>5
<1>21. QED
  BY <1>3, <1>4, <1>5, <1>6, <1>7, <1>8, <1>9, <1>10, <1>11, <1>k, <1>12, <1>13, <1>14, <1>16, <1>17, <1>18, <1>19, <1>20
  DEF Next, CallStep, RefuseCall, RefuseAsyncCall

LEMMA BaseStep ==
    ASSUME BaseInv, Next
    PROVE  BaseInv'
  BY CallsType, MonitorType, PoolsType, ServerType, KeysType, ShapeStep, JobStep DEF BaseInv, TypeOK

-----------------------------------------------------------------------------
(* OwnInv: one party at a time has a CallState. *)

\* Sound is never regained.
LEMMA SoundBefore ==
    ASSUME BaseInv, Next, Sound'
    PROVE  Sound
<1>1. raced => raced'
  <2>1. ASSUME UNCHANGED raced PROVE raced => raced'
    BY <2>1
  <2>2. ASSUME NEW c \in Calls, \/ NewCall(c) \/ Send(c) \/ Refused(c) \/ AddClosed(c) \/ AddOpen(c) \/ ArmFails(c) \/ Arm(c)
                                \/ BucketAdd(c) \/ DeliverLocal(c) \/ DeliverRemote(c) \/ DeliverRejected(c) \/ SendFails(c)
        PROVE  raced => raced'
    BY <2>2 DEF NewCall, Send, Refused, AddClosed, AddOpen, ArmFails, Arm, BucketAdd, DeliverLocal, DeliverRemote, DeliverRejected,
                SendFails, histVars
  <2>3. ASSUME NEW c \in Calls, \/ FailRemove(c) \/ FailRelease(c) \/ FailEnvelope(c) \/ WaitReturn(c) \/ Cancel(c) \/ TimerFire(c)
                                \/ TimerDrop(c) \/ TimerTake(c)
        PROVE  raced => raced'
    BY <2>3 DEF FailRemove, FailRelease, FailEnvelope, WaitReturn, Cancel, TimerFire, TimerDrop, TimerTake, histVars
  <2>4. CASE Finish \/ StopBegin \/ StopScheduler \/ StopClear
    BY <2>4 DEF Finish, StopBegin, StopScheduler, StopClear, histVars
  <2>5. ASSUME NEW m, \/ Lose(m) \/ Duplicate(m) \/ KeyForgotten(m) \/ RecvDuplicate(m) \/ RecvRequest(m) \/ RecvReply(m) \/ AcceptRequest(m)
                      \/ RejectRequest(m)
        PROVE  raced => raced'
    BY <2>5 DEF Lose, Duplicate, KeyForgotten, RecvDuplicate, RecvRequest, RecvReply, AcceptRequest, RejectRequest, histVars
  <2>6. ASSUME NEW j, \/ ExpireJob(j) \/ HandleRequest(j) \/ RespondRemote(j) \/ RespondLocal(j) \/ RespondNobody(j)
                      \/ DeliverResponse(j) \/ ReleaseAgain(j) \/ ReleaseRequest(j) \/ RunCallback(j)
        PROVE  raced => raced'
    BY <2>6 DEF ExpireJob, HandleRequest, RespondRemote, RespondLocal, RespondNobody, DeliverResponse, ReleaseAgain, ReleaseRequest,
                RunCallback, histVars
  <2>7. QED
    BY <2>2, <2>3, <2>4, <2>5, <2>6 DEF Next, CallStep, RefuseCall, RefuseAsyncCall
<1>2. stop = "stopped" => stop' = "stopped"
  <2>2. ASSUME NEW c \in Calls, \/ NewCall(c) \/ Send(c) \/ Refused(c) \/ AddClosed(c) \/ AddOpen(c) \/ ArmFails(c) \/ Arm(c)
                                \/ BucketAdd(c) \/ DeliverLocal(c) \/ DeliverRemote(c) \/ DeliverRejected(c) \/ SendFails(c)
        PROVE  stop' = stop
    BY <2>2 DEF NewCall, Send, Refused, AddClosed, AddOpen, ArmFails, Arm, BucketAdd, DeliverLocal, DeliverRemote, DeliverRejected,
                SendFails, monVars
  <2>3. ASSUME NEW c \in Calls, \/ FailRemove(c) \/ FailRelease(c) \/ FailEnvelope(c) \/ WaitReturn(c) \/ Cancel(c) \/ TimerFire(c)
                                \/ TimerDrop(c) \/ TimerTake(c)
        PROVE  stop' = stop
    BY <2>3 DEF FailRemove, FailRelease, FailEnvelope, WaitReturn, Cancel, TimerFire, TimerDrop, TimerTake, monVars
  <2>4. CASE Finish \/ StopBegin \/ StopScheduler \/ StopClear
    BY <2>4 DEF Finish, StopBegin, StopScheduler, StopClear
  <2>5. ASSUME NEW m, \/ Lose(m) \/ Duplicate(m) \/ KeyForgotten(m) \/ RecvDuplicate(m) \/ RecvRequest(m) \/ RecvReply(m) \/ AcceptRequest(m)
                      \/ RejectRequest(m)
        PROVE  stop' = stop
    BY <2>5 DEF Lose, Duplicate, KeyForgotten, RecvDuplicate, RecvRequest, RecvReply, AcceptRequest, RejectRequest, monVars
  <2>6. ASSUME NEW j, \/ ExpireJob(j) \/ HandleRequest(j) \/ RespondRemote(j) \/ RespondLocal(j) \/ RespondNobody(j)
                      \/ DeliverResponse(j) \/ ReleaseAgain(j) \/ ReleaseRequest(j) \/ RunCallback(j)
        PROVE  stop' = stop
    BY <2>6 DEF ExpireJob, HandleRequest, RespondRemote, RespondLocal, RespondNobody, DeliverResponse, ReleaseAgain, ReleaseRequest,
                RunCallback, monVars
  <2>7. QED
    BY <2>2, <2>3, <2>4, <2>5, <2>6 DEF Next, CallStep, RefuseCall, RefuseAsyncCall
<1>3. QED
  BY <1>1, <1>2 DEF Sound

\* A call none of whose parts changes.
LEMMA OwnsSame ==
    ASSUME NEW c \in Calls, OwnsOne(c), UNCHANGED scene, obj'[c] = obj[c], bucket'[c] = bucket[c], runs'[c] = runs[c],
           pc'[c] = pc[c], Held(c) => st'[obj[c]] = st[obj[c]],
           {t \in taken' : t.call = c} = {t \in taken : t.call = c},
           {j \in cbjobs' : j.call = c} = {j \in cbjobs : j.call = c}
    PROVE  OwnsOne(c)'
<1>1. Taken(c)' = Taken(c) /\ Posted(c)' = Posted(c)
  BY DEF Taken, Posted
<1>2. Pending(c)' = Pending(c) /\ Ran(c)' = Ran(c) /\ Quiet(c)' = Quiet(c)
  BY <1>1 DEF Pending, Ran, Quiet
<1>3. Held(c) => Held(c)'
  BY DEF Held
<1>4. Live(c) => Live(c)'
  BY <1>3 DEF Live, Held
<1>5. /\ \A t \in taken', u \in taken' : t.call = c /\ u.call = c => t = u
      /\ \A j \in cbjobs', k \in cbjobs' : j.call = c /\ k.call = c => j = k
  BY DEF OwnsOne
<1>6. QED
  BY <1>1, <1>2, <1>3, <1>4, <1>5 DEF OwnsOne, kind

\* A step of one call: it may change its own CallState, or take one from the pool.
LEMMA OneCall ==
    ASSUME TypeOK, TypeOK', \A d \in Calls : OwnsOne(d), NEW c \in Calls, OwnsOne(c)', UNCHANGED scene,
           \A d \in Calls \ {c} : obj'[d] = obj[d] /\ bucket'[d] = bucket[d] /\ runs'[d] = runs[d] /\ pc'[d] = pc[d],
           \A t : t.call # c => (t \in taken' <=> t \in taken),
           \A j : j.call # c => (j \in cbjobs' <=> j \in cbjobs),
           \A s \in States : st[s].ref /\ st[s].call # c => st'[s] = st[s]
    PROVE  \A d \in Calls : OwnsOne(d)'
<1> SUFFICES ASSUME NEW d \in Calls \ {c} PROVE OwnsOne(d)'
  OBVIOUS
<1>1. Held(d) => st'[obj[d]] = st[obj[d]]
  BY DEF Held
<1>2. {t \in taken' : t.call = d} = {t \in taken : t.call = d} /\ {j \in cbjobs' : j.call = d} = {j \in cbjobs : j.call = d}
  OBVIOUS
<1>3. QED
  BY <1>1, <1>2, OwnsSame

\* A call that only goes on.
LEMMA OwnMove ==
    ASSUME TypeOK, TypeOK', ShapeInv, \A d \in Calls : OwnsOne(d), NEW c \in Calls, NEW a,
           pc' = [pc EXCEPT ![c] = a], UNCHANGED <<scene, obj, bucket, runs, taken, cbjobs, st>>,
           a \notin Open => Quiet(c), a \in {"add", "arm", "bucket", "release"} => Live(c),
           ~kind[c].async /\ a \in Open /\ scene.mode # "send" => Held(c)
    PROVE  \A d \in Calls : OwnsOne(d)'
<1>1. pc'[c] = a /\ \A d \in Calls \ {c} : pc'[d] = pc[d]
  BY DEF TypeOK, CallsOK
<1>2. OwnsOne(c)'
  <2>1. /\ Taken(c)' = Taken(c) /\ Posted(c)' = Posted(c) /\ Pending(c)' = Pending(c) /\ Ran(c)' = Ran(c)
        /\ Quiet(c)' = Quiet(c) /\ Held(c)' = Held(c) /\ Live(c)' = Live(c)
    BY DEF Taken, Posted, Pending, Ran, Quiet, Held, Live
  <2>2. OwnsOne(c)
    OBVIOUS
  <2>3. QED
    BY <1>1, <2>1, <2>2 DEF OwnsOne, kind
<1>3. QED
  BY <1>1, <1>2, OneCall

\* A CallState changes hands: out of the bucket, to the goroutine that completes it.
LEMMA OwnTake ==
    ASSUME TypeOK, TypeOK', ShapeInv, \A d \in Calls : OwnsOne(d), NEW c \in Calls, NEW t, t.call = c, Found(c),
           bucket' = Unbucket(c), taken' = taken \cup {t}, UNCHANGED <<scene, callVars, cbjobs, st>>
    PROVE  \A d \in Calls : OwnsOne(d)'
<1>1. bucket' = [bucket EXCEPT ![c] = NoState] /\ Pending(c)
  BY DEF Unbucket, Found, Pending
<1>2. OwnsOne(c) /\ Live(c) /\ ~Taken(c) /\ ~Posted(c) /\ ~Ran(c) /\ pc[c] \in Open /\ scene.mode # "send"
  BY <1>1 DEF OwnsOne, Quiet, ShapeInv, Pending
<1>3. ~Pending(c)' /\ bucket'[c] = NoState /\ \A d \in Calls \ {c} : bucket'[d] = bucket[d]
  BY <1>1 DEF Pending, TypeOK, MonitorOK
<1>4. UNCHANGED <<pc, obj, runs>>
  BY DEF callVars
<1>5. Held(c)' /\ Live(c)' /\ ~Posted(c)' /\ ~Ran(c)'
  BY <1>2, <1>4 DEF Held, Live, Posted, Ran
<1>6. \A u \in taken' : u.call = c => u = t
  BY <1>2 DEF Taken
<1>7. OwnsOne(c)'
  BY <1>2, <1>3, <1>4, <1>5, <1>6 DEF OwnsOne, kind
<1>8. QED
  BY <1>3, <1>4, <1>7, OneCall

\* complete: the waiting caller is signalled, or the state goes back to the pool and the
\* callback to the mailbox, unless it is lost.
LEMMA OwnComplete ==
    ASSUME TypeOK, TypeOK', ShapeInv, \A d \in Calls : OwnsOne(d), NEW c \in Calls,
           Live(c), ~Pending(c), ~Posted(c), ~Ran(c), ~Taken(c)', scene.mode # "send",
           \A t : t.call # c => (t \in taken' <=> t \in taken),
           pc'[c] \in Open, \A d \in Calls \ {c} : pc'[d] = pc[d], UNCHANGED <<scene, obj, bucket, runs>>,
           \/ /\ NeedCallback(obj[c]) /\ st' = PutState(st, obj[c])
              /\ \/ cbjobs' = cbjobs
                 \/ \E j : j.call = st[obj[c]].call /\ cbjobs' = cbjobs \cup {j}
           \/ /\ ~NeedCallback(obj[c]) /\ cbjobs' = cbjobs
              /\ \E r : st' = [st EXCEPT ![obj[c]].res = r, ![obj[c]].done = TRUE]
    PROVE  \A d \in Calls : OwnsOne(d)'
<1>1. obj[c] \in States /\ st[obj[c]].ref /\ st[obj[c]].call = c /\ c # NoCall /\ st \in [States -> StateSet]
  BY ConstantsAssumption DEF Live, Held, TypeOK, PoolsOK, StateSet
<1>2. NeedCallback(obj[c]) <=> kind[c].async
  BY <1>1 DEF NeedCallback
<1>3. ~Pending(c)' /\ ~Ran(c)'
  BY DEF Pending, Ran
<1>4. /\ \A s \in States : st[s].ref /\ st[s].call # c => st'[s] = st[s]
      /\ \A j : j.call # c => (j \in cbjobs' <=> j \in cbjobs)
  BY <1>1 DEF PutState
<1>5. CASE kind[c].async
  <2>1. \A j \in cbjobs', k \in cbjobs' : j.call = c /\ k.call = c => j = k
    BY <1>1, <1>2, <1>5 DEF Posted
  <2>2. OwnsOne(c)'
    BY <1>3, <1>5, <2>1 DEF OwnsOne, Quiet, Open, Taken, kind
  <2>3. QED
    BY <1>4, <2>2, OneCall
<1>6. CASE ~kind[c].async
  <2>1. cbjobs' = cbjobs
    BY <1>2, <1>6
  <2>2. PICK r : st' = [st EXCEPT ![obj[c]].res = r, ![obj[c]].done = TRUE]
    BY <1>2, <1>6
  <2>3. st'[obj[c]].ref /\ st'[obj[c]].call = c
    BY <1>1, <2>2 DEF StateSet
  <2>4. Held(c)'
    BY <1>1, <2>3 DEF Held
  <2>5. ~Posted(c)' /\ \A j \in cbjobs' : j.call # c
    BY <2>1 DEF Posted
  <2>6. OwnsOne(c)'
    BY <1>3, <1>6, <2>4, <2>5 DEF OwnsOne, Quiet, Open, Taken, kind
  <2>7. QED
    BY <1>4, <2>6, OneCall
<1>7. QED
  BY <1>5, <1>6

\* SetAndComplete in the form OwnComplete takes.
LEMMA CompleteForm ==
    ASSUME NEW s, NEW r, SetAndComplete(s, r)
    PROVE  \/ /\ NeedCallback(s) /\ st' = PutState(st, s)
              /\ \/ cbjobs' = cbjobs
                 \/ \E j : j.call = st[s].call /\ cbjobs' = cbjobs \cup {j}
           \/ /\ ~NeedCallback(s) /\ cbjobs' = cbjobs
              /\ \E x : st' = [st EXCEPT ![s].res = x, ![s].done = TRUE]
<1>1. \A e : [call |-> st[s].call, res |-> r, env |-> e].call = st[s].call
  OBVIOUS
<1>2. CASE NeedCallback(s)
  BY <1>1, <1>2 DEF SetAndComplete
<1>3. CASE ~NeedCallback(s)
  BY <1>3 DEF SetAndComplete
<1>4. QED
  BY <1>2, <1>3

LEMMA OwnStep ==
    ASSUME BaseInv, BaseInv', OwnInv, Next
    PROVE  OwnInv'
<1>0. TypeOK /\ TypeOK' /\ ShapeInv
  BY DEF BaseInv
<1> DEFINE Goal == \A d \in Calls : OwnsOne(d)'
<1>1. SUFFICES ASSUME Sound' PROVE Goal
  BY DEF OwnInv
<1>2. Sound /\ \A d \in Calls : OwnsOne(d)
  BY SoundBefore, <1>1 DEF OwnInv
<1>3. ASSUME UNCHANGED <<scene, callVars, bucket, taken, cbjobs, st>> PROVE Goal
  <2> SUFFICES ASSUME NEW d \in Calls PROVE OwnsOne(d)'
    OBVIOUS
  <2>1. OwnsOne(d)
    BY <1>2
  <2>2. QED
    BY <1>3, <2>1, OwnsSame DEF callVars
<1>4. pc \in [Calls -> {"idle", "add", "arm", "bucket", "deliver", "wait", "out", "remove", "release", "relenv", "done"}]
  BY <1>0 DEF TypeOK, CallsOK
<1>5. ASSUME NEW c \in Calls PROVE OwnsOne(c) /\ (pc[c] \notin Open => Quiet(c)) /\ (scene.mode = "send" => Quiet(c))
  BY <1>2 DEF OwnsOne
<1>6. ASSUME NEW c \in Calls, NewCall(c) PROVE Goal
  <2>1. PICK s \in PooledStates : st' = NewCallState(s, c) /\ obj' = [obj EXCEPT ![c] = s]
    BY <1>6 DEF NewCall
  <2>2. s \in States /\ ~st[s].ref /\ st \in [States -> StateSet] /\ obj \in [Calls -> States \cup {NoState}]
    BY <1>0, <2>1, NewTypes DEF TypeOK, CallsOK, PoolsOK, StateSet
  <2>3. pc[c] = "idle" /\ pc' = [pc EXCEPT ![c] = "add"] /\ UNCHANGED <<scene, bucket, runs, taken, cbjobs>> /\ scene.mode # "send"
    BY <1>6 DEF NewCall, monVars
  <2>4. Quiet(c)
    BY <1>5, <2>3 DEF Open
  <2>5. Quiet(c)'
    BY <2>3, <2>4 DEF Quiet, Pending, Taken, Posted, Ran
  <2>6. obj'[c] = s /\ st'[s] = [ref |-> TRUE, call |-> c, res |-> NoRes, done |-> FALSE] /\ pc'[c] = "add"
    BY <1>4, <2>1, <2>2, <2>3 DEF NewCallState
  <2>7. Live(c)' /\ Held(c)'
    BY <2>2, <2>6 DEF Live, Held
  <2>8. OwnsOne(c)'
    BY <2>5, <2>6, <2>7 DEF OwnsOne, Quiet, Taken, Posted
  <2>9. /\ \A d \in Calls \ {c} : obj'[d] = obj[d] /\ bucket'[d] = bucket[d] /\ runs'[d] = runs[d] /\ pc'[d] = pc[d]
        /\ \A x \in States : st[x].ref /\ st[x].call # c => st'[x] = st[x]
    BY <1>4, <2>1, <2>2, <2>3 DEF NewCallState
  <2>10. QED
    BY <1>0, <1>2, <2>3, <2>8, <2>9, OneCall
<1>7. ASSUME NEW c \in Calls, Send(c) \/ Refused(c) PROVE Goal
  <2>1. /\ pc[c] = "idle" /\ UNCHANGED <<scene, obj, bucket, runs, taken, cbjobs, st>>
        /\ (pc' = [pc EXCEPT ![c] = "deliver"] /\ scene.mode = "send") \/ pc' = [pc EXCEPT ![c] = "done"]
    BY <1>7 DEF Send, Refused, monVars
  <2>2. Quiet(c)
    BY <1>5, <2>1 DEF Open
  <2>3. "deliver" \in Open /\ "done" \notin Open
    BY DEF Open
  <2>4. QED
    BY <1>0, <1>2, <2>1, <2>2, <2>3, OwnMove
<1>8. ASSUME NEW c \in Calls, AddClosed(c) \/ ArmFails(c) PROVE Goal
  <2>1. /\ pc[c] \in {"add", "arm"} /\ pc' = [pc EXCEPT ![c] = "deliver"] /\ UNCHANGED <<scene, obj, bucket, runs, taken>>
        /\ SetAndComplete(obj[c], Res("closed", c))
    BY <1>8 DEF AddClosed, ArmFails, monVars
  <2>2. Quiet(c) /\ Live(c) /\ scene.mode # "send"
    BY <1>0, <1>5, <2>1 DEF Open, OwnsOne, ShapeInv
  <2>3. ~Pending(c) /\ ~Posted(c) /\ ~Ran(c) /\ ~Taken(c)'
    BY <2>1, <2>2 DEF Quiet, Taken
  <2>4. pc'[c] \in Open /\ \A d \in Calls \ {c} : pc'[d] = pc[d]
    BY <1>4, <2>1 DEF Open
  <2>5. \/ /\ NeedCallback(obj[c]) /\ st' = PutState(st, obj[c])
           /\ \/ cbjobs' = cbjobs
              \/ \E j : j.call = st[obj[c]].call /\ cbjobs' = cbjobs \cup {j}
        \/ /\ ~NeedCallback(obj[c]) /\ cbjobs' = cbjobs
           /\ \E r : st' = [st EXCEPT ![obj[c]].res = r, ![obj[c]].done = TRUE]
    BY <2>1, CompleteForm
  <2>6. QED
    BY <1>0, <1>2, <2>1, <2>2, <2>3, <2>4, <2>5, OwnComplete
<1>9. ASSUME NEW c \in Calls, AddOpen(c) \/ Arm(c) PROVE Goal
  <2>1. /\ pc[c] \in {"add", "arm"} /\ UNCHANGED <<scene, obj, bucket, runs, taken, cbjobs, st>>
        /\ pc' = [pc EXCEPT ![c] = "arm"] \/ pc' = [pc EXCEPT ![c] = "bucket"]
    BY <1>9 DEF AddOpen, Arm, monVars
  <2>2. Quiet(c) /\ Live(c) /\ "arm" \notin Open /\ "bucket" \notin Open
    BY <1>5, <2>1 DEF Open, OwnsOne
  <2>3. QED
    BY <1>0, <1>2, <2>1, <2>2, OwnMove
<1>10. ASSUME NEW c \in Calls, BucketAdd(c) PROVE Goal
  <2>1. /\ pc[c] = "bucket" /\ UNCHANGED <<scene, obj, runs, taken, cbjobs, st>> /\ pc' = [pc EXCEPT ![c] = "deliver"]
        /\ bucket' = [bucket EXCEPT ![c] = obj[c]] /\ bucket \in [Calls -> States \cup {NoState}]
    BY <1>0, <1>10 DEF BucketAdd, TypeOK, MonitorOK
  <2>2. Quiet(c) /\ Live(c) /\ scene.mode # "send"
    BY <1>0, <1>5, <2>1 DEF Open, OwnsOne, ShapeInv
  <2>3. /\ pc'[c] = "deliver" /\ Live(c)' /\ Held(c)' /\ ~Taken(c)' /\ ~Posted(c)' /\ ~Ran(c)'
    BY <1>4, <2>1, <2>2 DEF Quiet, Live, Held, Taken, Posted, Ran
  <2>4. OwnsOne(c)'
    BY <2>1, <2>2, <2>3 DEF OwnsOne, Open, Taken, Posted
  <2>5. \A d \in Calls \ {c} : bucket'[d] = bucket[d] /\ pc'[d] = pc[d]
    BY <1>4, <2>1
  <2>6. QED
    BY <1>0, <1>2, <2>1, <2>4, <2>5, OneCall
<1>11. ASSUME NEW c \in Calls, DeliverLocal(c) \/ DeliverRemote(c) \/ DeliverRejected(c) \/ SendFails(c) PROVE Goal
  <2>1. pc[c] = "deliver" /\ UNCHANGED <<scene, obj, bucket, runs, taken, cbjobs, st>> /\ (Delivered(c) \/ Undelivered(c))
    BY <1>11 DEF DeliverLocal, DeliverRemote, DeliverRejected, SendFails, monVars
  <2>2. \E a \in {"done", "out", "wait", "relenv", "remove"} :
           pc' = [pc EXCEPT ![c] = a] /\ (a \in {"done", "relenv"} => scene.mode = "send")
    BY <2>1 DEF Delivered, Undelivered
  <2>3. PICK a \in {"done", "out", "wait", "relenv", "remove"} :
           pc' = [pc EXCEPT ![c] = a] /\ (a \in {"done", "relenv"} => scene.mode = "send")
    BY <2>2
  <2>4. a \notin Open => Quiet(c)
    BY <1>5, <2>3 DEF Open
  <2>5. ~kind[c].async /\ a \in Open /\ scene.mode # "send" => Held(c)
    BY <1>5, <2>1 DEF OwnsOne, Open
  <2>6. QED
    BY <1>0, <1>2, <2>1, <2>3, <2>4, <2>5, OwnMove
<1>12. ASSUME NEW c \in Calls, FailRemove(c) PROVE Goal
  <2>1. /\ pc[c] = "remove" /\ UNCHANGED <<scene, obj, runs, taken, cbjobs, st>> /\ pc' = [pc EXCEPT ![c] = "release"]
        /\ bucket' = Unbucket(c) /\ Found(c)
    BY <1>1, <1>12 DEF FailRemove, Sound
  <2>2. bucket' = [bucket EXCEPT ![c] = NoState] /\ Pending(c) /\ bucket \in [Calls -> States \cup {NoState}]
    BY <1>0, <2>1 DEF Unbucket, Found, Pending, TypeOK, MonitorOK
  <2>3. Live(c) /\ ~Taken(c) /\ ~Posted(c) /\ ~Ran(c)
    BY <1>5, <2>2 DEF OwnsOne
  <2>4. Quiet(c)' /\ Live(c)'
    BY <2>1, <2>2, <2>3 DEF Quiet, Pending, Taken, Posted, Ran, Live, Held
  <2>5. pc'[c] = "release" /\ \A d \in Calls \ {c} : bucket'[d] = bucket[d] /\ pc'[d] = pc[d]
    BY <1>4, <2>1, <2>2
  <2>6. OwnsOne(c)'
    BY <2>4, <2>5 DEF OwnsOne, Open, Quiet, Taken, Posted
  <2>7. QED
    BY <1>0, <1>2, <2>1, <2>5, <2>6, OneCall
<1>13. ASSUME NEW c \in Calls, NEW s \in States, NEW a \in {"relenv", "done"}, Quiet(c)', st[s].ref => st[s].call = c, st' = PutState(st, s),
              UNCHANGED <<scene, obj, runs, taken, cbjobs>>, \A d \in Calls \ {c} : bucket'[d] = bucket[d], pc' = [pc EXCEPT ![c] = a]
       PROVE  Goal
  <2>1. pc'[c] = a /\ \A d \in Calls \ {c} : pc'[d] = pc[d]
    BY <1>4, <1>13
  <2>2. OwnsOne(c)'
    BY <1>13, <2>1 DEF OwnsOne, Open, Quiet, Taken, Posted
  <2>3. \A x \in States : st[x].ref /\ st[x].call # c => st'[x] = st[x]
    BY <1>0, <1>13 DEF PutState, TypeOK, PoolsOK
  <2>4. QED
    BY <1>0, <1>2, <1>13, <2>1, <2>2, <2>3, OneCall
<1>14. ASSUME NEW c \in Calls, FailRelease(c) PROVE Goal
  <2>1. /\ pc[c] = "release" /\ UNCHANGED <<scene, obj, bucket, runs, taken, cbjobs>> /\ pc' = [pc EXCEPT ![c] = "relenv"]
        /\ st' = PutState(st, obj[c])
    BY <1>14 DEF FailRelease, monVars
  <2>2. Quiet(c) /\ Live(c)
    BY <1>5, <2>1 DEF Open, OwnsOne
  <2>3. Quiet(c)' /\ obj[c] \in States /\ st[obj[c]].call = c
    BY <2>1, <2>2 DEF Quiet, Pending, Taken, Posted, Ran, Live, Held
  <2>4. QED
    BY <1>13, <2>1, <2>3
<1>15. ASSUME NEW c \in Calls, FailEnvelope(c) PROVE Goal
  <2>1. pc[c] = "relenv" /\ UNCHANGED <<scene, obj, bucket, runs, taken, cbjobs, st>> /\ pc' = [pc EXCEPT ![c] = "done"]
    BY <1>15 DEF FailEnvelope, monVars
  <2>2. Quiet(c) /\ "done" \notin Open
    BY <1>5, <2>1 DEF Open
  <2>3. QED
    BY <1>0, <1>2, <2>1, <2>2, OwnMove
<1>16. ASSUME NEW c \in Calls, WaitReturn(c) PROVE Goal
  <2>1. /\ pc[c] = "wait" /\ st[obj[c]].done /\ UNCHANGED <<scene, obj, bucket, runs, taken, cbjobs>>
        /\ pc' = [pc EXCEPT ![c] = "done"] /\ st' = PutState(st, obj[c])
    BY <1>16 DEF WaitReturn, monVars
  <2>2. ~kind[c].async /\ scene.mode # "send"
    BY <1>0, <2>1 DEF ShapeInv
  <2>3. Held(c) /\ ~Live(c)
    BY <1>5, <2>1, <2>2 DEF OwnsOne, Open, Live
  <2>4. Quiet(c)
    BY <1>5, <2>2, <2>3 DEF OwnsOne, Quiet
  <2>5. Quiet(c)' /\ obj[c] \in States /\ st[obj[c]].call = c
    BY <2>1, <2>3, <2>4 DEF Quiet, Pending, Taken, Posted, Ran, Held
  <2>6. QED
    BY <1>13, <2>1, <2>5
<1>17. ASSUME NEW c \in Calls, Cancel(c) PROVE Goal
  <2>1. /\ Found(c) /\ bucket' = Unbucket(c) /\ UNCHANGED <<scene, obj, runs, taken, cbjobs>>
        /\ pc' = [pc EXCEPT ![c] = "done"] /\ st' = PutState(st, bucket[c])
    BY <1>17 DEF Cancel
  <2>2. bucket' = [bucket EXCEPT ![c] = NoState] /\ Pending(c) /\ bucket \in [Calls -> States \cup {NoState}] /\ bucket[c] = obj[c]
    BY <1>0, <2>1 DEF Unbucket, Found, Pending, TypeOK, MonitorOK, ShapeInv
  <2>3. Live(c) /\ ~Taken(c) /\ ~Posted(c) /\ ~Ran(c)
    BY <1>5, <2>2 DEF OwnsOne
  <2>4. Quiet(c)' /\ obj[c] \in States /\ st[obj[c]].call = c
    BY <2>1, <2>2, <2>3 DEF Quiet, Pending, Taken, Posted, Ran, Live, Held
  <2>5. \A d \in Calls \ {c} : bucket'[d] = bucket[d]
    BY <2>2
  <2>6. QED
    BY <1>13, <2>1, <2>2, <2>4, <2>5
<1>18. ASSUME NEW c \in Calls, TimerFire(c) \/ TimerDrop(c) PROVE Goal
  BY <1>3, <1>18 DEF TimerFire, TimerDrop
<1>19. ASSUME NEW c \in Calls, NEW t, t.call = c, bucket' = Unbucket(c), taken' = IF Found(c) THEN taken \cup {t} ELSE taken,
              UNCHANGED <<scene, callVars, cbjobs, st>>
       PROVE  Goal
  <2>1. CASE Found(c)
    BY <1>0, <1>2, <1>19, <2>1, OwnTake
  <2>2. CASE ~Found(c)
    BY <1>3, <1>19, <2>2 DEF Unbucket
  <2>3. QED
    BY <2>1, <2>2
<1>20. ASSUME NEW c \in Calls, TimerTake(c) PROVE Goal
  <2> DEFINE t == [by |-> "timer", call |-> c, obj |-> bucket[c], res |-> Res("timeout", c)]
  <2>1. t.call = c /\ UNCHANGED <<scene, callVars, cbjobs, st>> /\ bucket' = Unbucket(c)
        /\ taken' = IF Found(c) THEN taken \cup {t} ELSE taken
    BY <1>20 DEF TimerTake
  <2> HIDE DEF t
  <2>2. QED
    BY <1>19, <2>1
<1>21. ASSUME NEW t \in taken, taken' = taken \ {t}, UNCHANGED <<scene, callVars, bucket>>,
              \/ /\ NeedCallback(t.obj) /\ st' = PutState(st, t.obj)
                 /\ \/ cbjobs' = cbjobs
                    \/ \E j : j.call = st[t.obj].call /\ cbjobs' = cbjobs \cup {j}
              \/ /\ ~NeedCallback(t.obj) /\ cbjobs' = cbjobs
                 /\ \E x : st' = [st EXCEPT ![t.obj].res = x, ![t.obj].done = TRUE]
       PROVE  Goal
  <2> DEFINE c == t.call
  <2>1. c \in Calls /\ t.obj = obj[c] /\ scene.mode # "send"
    BY <1>0 DEF TypeOK, MonitorOK, ShapeInv
  <2>2. Taken(c)
    BY DEF Taken
  <2>3. OwnsOne(c)
    BY <1>5, <2>1
  <2>4. Live(c) /\ ~Pending(c) /\ ~Posted(c) /\ ~Ran(c) /\ pc[c] \in Open
    BY <2>2, <2>3 DEF OwnsOne, Quiet
  <2>5. ~Taken(c)'
    BY <1>21, <2>3 DEF OwnsOne, Taken
  <2>6. UNCHANGED <<pc, obj, runs>>
    BY <1>21 DEF callVars
  <2>7. \A u : u.call # c => (u \in taken' <=> u \in taken)
    BY <1>21
  <2> HIDE DEF c
  <2>8. QED
    BY <1>0, <1>2, <1>21, <2>1, <2>4, <2>5, <2>6, <2>7, OwnComplete
<1>22. CASE Finish
  <2>1. PICK t \in taken : taken' = taken \ {t} /\ SetAndComplete(t.obj, t.res) /\ UNCHANGED <<scene, callVars, bucket>>
    BY <1>22 DEF Finish
  <2>2. QED
    BY <1>21, <2>1, CompleteForm
<1>23. CASE StopBegin \/ StopScheduler
  BY <1>3, <1>23 DEF StopBegin, StopScheduler
<1>24. CASE StopClear
  BY <1>1, <1>24 DEF StopClear, Sound
<1>25. ASSUME NEW m, Lose(m) \/ Duplicate(m) \/ KeyForgotten(m) \/ RecvDuplicate(m) \/ RecvRequest(m) \/ AcceptRequest(m) \/ RejectRequest(m)
       PROVE  Goal
  BY <1>3, <1>25 DEF Lose, Duplicate, KeyForgotten, RecvDuplicate, RecvRequest, AcceptRequest, RejectRequest, monVars
<1>26. ASSUME NEW m \in net, RecvReply(m) PROVE Goal
  <2> DEFINE t == [by |-> "reply", call |-> m.call, obj |-> bucket[m.call], res |-> m.val]
  <2>1. t.call = m.call /\ UNCHANGED <<scene, callVars, cbjobs, st>> /\ bucket' = Unbucket(m.call)
        /\ taken' = IF Found(m.call) THEN taken \cup {t} ELSE taken
    BY <1>26 DEF RecvReply
  <2>2. m.call \in Calls
    BY <1>0 DEF TypeOK, ServerOK
  <2> HIDE DEF t
  <2>3. QED
    BY <1>19, <2>1, <2>2
<1>27. ASSUME NEW j \in inbox, RespondLocal(j) PROVE Goal
  <2> DEFINE t == [by |-> "local", call |-> j.call, obj |-> bucket[j.call], res |-> ReplyOf(j.call)]
  <2>1. t.call = j.call /\ UNCHANGED <<scene, callVars, cbjobs, st>> /\ bucket' = Unbucket(j.call)
        /\ taken' = IF Found(j.call) THEN taken \cup {t} ELSE taken
    BY <1>27 DEF RespondLocal
  <2>2. j.call \in Calls
    BY <1>0 DEF TypeOK, ServerOK
  <2> HIDE DEF t
  <2>3. QED
    BY <1>19, <2>1, <2>2
<1>28. ASSUME NEW j, \/ ExpireJob(j) \/ HandleRequest(j) \/ RespondRemote(j) \/ RespondNobody(j)
                     \/ ReleaseAgain(j) \/ ReleaseRequest(j)
       PROVE  Goal
  BY <1>3, <1>28 DEF ExpireJob, HandleRequest, RespondRemote, RespondNobody, ReleaseAgain, ReleaseRequest, monVars
<1>29. ASSUME NEW j \in inbox, DeliverResponse(j) PROVE Goal
  <2>1. PICK t \in taken :
          /\ taken' = taken \ {t}
          /\ \/ /\ NeedCallback(t.obj) /\ st' = PutState(st, t.obj)
                /\ cbjobs' = cbjobs \cup {[call |-> st[t.obj].call, res |-> t.res, env |-> j.resp]}
             \/ NeedCallback(t.obj) /\ st' = PutState(st, t.obj) /\ cbjobs' = cbjobs
             \/ /\ ~NeedCallback(t.obj) /\ cbjobs' = cbjobs
                /\ st' = [st EXCEPT ![t.obj].res = t.res, ![t.obj].done = TRUE]
    BY <1>29 DEF DeliverResponse
  <2>2. [call |-> st[t.obj].call, res |-> t.res, env |-> j.resp].call = st[t.obj].call
    OBVIOUS
  <2>3. UNCHANGED <<scene, callVars, bucket>>
    BY <1>29 DEF DeliverResponse
  <2>4. QED
    BY <1>21, <2>1, <2>2, <2>3
<1>30. ASSUME NEW j \in cbjobs, RunCallback(j) PROVE Goal
  <2> DEFINE c == j.call
  <2>1. c \in Calls /\ runs \in [Calls -> Nat]
    BY <1>0 DEF TypeOK, PoolsOK, CallsOK
  <2>2. /\ cbjobs' = cbjobs \ {j} /\ runs' = [runs EXCEPT ![c] = @ + 1] /\ UNCHANGED <<scene, pc, obj, bucket, taken, st>>
    BY <1>30 DEF RunCallback, monVars
  <2>3. Posted(c) /\ OwnsOne(c)
    BY <1>5, <2>1 DEF Posted
  <2>4. ~Pending(c) /\ ~Taken(c) /\ ~Ran(c) /\ kind[c].async /\ pc[c] \in Open /\ scene.mode # "send"
    BY <2>3 DEF OwnsOne, Quiet
  <2>5. ~Pending(c)' /\ ~Taken(c)' /\ runs'[c] = 1
    BY <2>1, <2>2, <2>4 DEF Pending, Taken, Ran
  <2>6. ~Posted(c)'
    BY <2>2, <2>3 DEF OwnsOne, Posted
  <2>7. OwnsOne(c)'
    BY <2>2, <2>4, <2>5, <2>6 DEF OwnsOne, Open, Taken, Posted, kind
  <2>8. \A d \in Calls \ {c} : runs'[d] = runs[d]
    BY <2>1, <2>2
  <2>9. \A i : i.call # c => (i \in cbjobs' <=> i \in cbjobs)
    BY <2>2
  <2> HIDE DEF c
  <2>10. QED
    BY <1>0, <1>2, <2>1, <2>2, <2>7, <2>8, <2>9, OneCall
<1>31. QED
  BY <1>6, <1>7, <1>8, <1>9, <1>10, <1>11, <1>12, <1>14, <1>15, <1>16, <1>17, <1>18, <1>20, <1>22, <1>23, <1>24, <1>25, <1>26, <1>27, <1>28, <1>29, <1>30
  DEF Next, CallStep, RefuseCall, RefuseAsyncCall

-----------------------------------------------------------------------------
(* DataInv and OutcomeInv: a result is one the method computed for the call. *)

\* Answers and executions only become more.
Grow == /\ UNCHANGED scene
        /\ \A c \in Calls : answers[c] \subseteq answers'[c] /\ (execs[c] > 0 => execs'[c] > 0)

LEMMA GrowStep ==
    ASSUME BaseInv, Next
    PROVE  Grow
<1>1. ASSUME UNCHANGED <<scene, answers, execs>> PROVE Grow
  BY <1>1 DEF Grow
<1>2. ASSUME NEW c \in Calls, \/ NewCall(c) \/ Send(c) \/ Refused(c) \/ AddClosed(c) \/ AddOpen(c) \/ ArmFails(c) \/ Arm(c)
                              \/ BucketAdd(c) \/ DeliverLocal(c) \/ DeliverRemote(c) \/ DeliverRejected(c) \/ SendFails(c)
      PROVE  Grow
  BY <1>1, <1>2 DEF NewCall, Send, Refused, AddClosed, AddOpen, ArmFails, Arm, BucketAdd, DeliverLocal, DeliverRemote,
                    DeliverRejected, SendFails, srvVars
<1>3. ASSUME NEW c \in Calls, \/ FailRemove(c) \/ FailRelease(c) \/ FailEnvelope(c) \/ WaitReturn(c) \/ Cancel(c) \/ TimerFire(c)
                              \/ TimerDrop(c) \/ TimerTake(c)
      PROVE  Grow
  BY <1>1, <1>3 DEF FailRemove, FailRelease, FailEnvelope, WaitReturn, Cancel, TimerFire, TimerDrop, TimerTake, srvVars
<1>4. CASE Finish \/ StopBegin \/ StopScheduler \/ StopClear
  BY <1>1, <1>4 DEF Finish, StopBegin, StopScheduler, StopClear, srvVars
<1>5. ASSUME NEW m, \/ Lose(m) \/ Duplicate(m) \/ KeyForgotten(m) \/ RecvDuplicate(m) \/ RecvRequest(m) \/ RecvReply(m) \/ AcceptRequest(m)
                    \/ RejectRequest(m)
      PROVE  Grow
  BY <1>1, <1>5 DEF Lose, Duplicate, KeyForgotten, RecvDuplicate, RecvRequest, RecvReply, AcceptRequest, RejectRequest
<1>6. ASSUME NEW j, \/ ExpireJob(j) \/ RespondRemote(j) \/ RespondLocal(j) \/ RespondNobody(j)
                    \/ DeliverResponse(j) \/ ReleaseAgain(j) \/ ReleaseRequest(j) \/ RunCallback(j)
      PROVE  Grow
  BY <1>1, <1>6 DEF ExpireJob, RespondRemote, RespondLocal, RespondNobody, DeliverResponse, ReleaseAgain, ReleaseRequest,
                    RunCallback, srvVars
<1>7. ASSUME NEW j \in inbox, HandleRequest(j) PROVE Grow
  <2>1. answers \in [Calls -> SUBSET {"ok", "err"}] /\ execs \in [Calls -> Nat] /\ j.call \in Calls
    BY DEF BaseInv, TypeOK, ServerOK
  <2>2. PICK a : answers' = [answers EXCEPT ![j.call] = @ \cup {a}]
    BY <1>7 DEF HandleRequest
  <2>3. execs' = [execs EXCEPT ![j.call] = @ + 1] /\ UNCHANGED scene
    BY <1>7 DEF HandleRequest
  <2>4. QED
    BY <2>1, <2>2, <2>3 DEF Grow
<1>8. QED
  BY <1>2, <1>3, <1>4, <1>5, <1>6, <1>7 DEF Next, CallStep, RefuseCall, RefuseAsyncCall

LEMMA AnsweredStays ==
    ASSUME Grow, NEW c \in Calls, NEW r, Answered(r, c)
    PROVE  Answered(r, c)'
  BY DEF Grow, Answered, MixedData

\* A call's own answer, or the Data another receiver wrote.
LEMMA DataAnswers ==
    ASSUME BaseInv, DataInv, NEW j \in inbox, HandleRequest(j)
    PROVE  /\ \A c \in Calls : \A a \in data'[DataOf(c)] : a \in answers'[c] \/ MixedData(c)'
           /\ data'[DataOf(j.call)] # {}
<1>1. /\ data \in [Calls -> SUBSET {"ok", "err"}] /\ answers \in [Calls -> SUBSET {"ok", "err"}]
      /\ execs \in [Calls -> Nat] /\ j.call \in Calls /\ DataOf(j.call) \in Calls
  BY SceneFacts DEF BaseInv, TypeOK, ServerOK, CallsOK
<1>2. PICK b \in {"ok", "err"} : /\ data' = [data EXCEPT ![DataOf(j.call)] = @ \cup {b}]
                                 /\ answers' = [answers EXCEPT ![j.call] = @ \cup {b}]
  BY DEF HandleRequest
<1>3. execs' = [execs EXCEPT ![j.call] = @ + 1] /\ UNCHANGED scene
  BY DEF HandleRequest
<1>4. ASSUME NEW c \in Calls, NEW a \in data'[DataOf(c)] PROVE a \in answers'[c] \/ MixedData(c)'
  <2>1. DataOf(c) \in Calls
    BY SceneFacts DEF BaseInv, TypeOK, CallsOK
  <2>2. CASE a \in data[DataOf(c)]
    <3>1. a \in answers[c] \/ MixedData(c)
      BY <2>2 DEF DataInv
    <3>2. answers[c] \subseteq answers'[c] /\ \A d \in Calls : execs[d] > 0 => execs'[d] > 0
      BY <1>1, <1>2, <1>3
    <3>3. QED
      BY <1>3, <3>1, <3>2 DEF MixedData
  <2>3. CASE a \notin data[DataOf(c)]
    <3>1. DataOf(c) = DataOf(j.call) /\ a = b
      BY <1>1, <1>2, <1>4, <2>1, <2>3
    <3>2. CASE c = j.call
      BY <1>1, <1>2, <3>1, <3>2
    <3>3. CASE c # j.call
      <4>1. scene.mode = "async"
        BY <3>1, <3>3 DEF DataOf
      <4>2. execs'[j.call] > 0
        BY <1>1, <1>3
      <4>3. QED
        BY <1>1, <1>3, <3>3, <4>1, <4>2 DEF MixedData
    <3>4. QED
      BY <3>2, <3>3
  <2>4. QED
    BY <2>2, <2>3
<1>5. data'[DataOf(j.call)] # {}
  BY <1>1, <1>2
<1>6. QED
  BY <1>4, <1>5

\* The reply that is read from the Data.
LEMMA ReplyAnswered ==
    ASSUME BaseInv, DataInv, NEW j \in inbox, j.at = "respond"
    PROVE  Answered(ReplyOf(j.call), j.call)
<1>1. j.call \in Calls /\ DataOf(j.call) \in Calls /\ data \in [Calls -> SUBSET {"ok", "err"}]
  BY SceneFacts DEF BaseInv, TypeOK, ServerOK, CallsOK
<1>2. data[DataOf(j.call)] # {} /\ data[DataOf(j.call)] \subseteq {"ok", "err"}
  BY <1>1 DEF DataInv
<1>3. ReplyOf(j.call).c = j.call /\ ReplyOf(j.call).k \in data[DataOf(j.call)]
  BY <1>2 DEF ReplyOf, Res
<1>4. QED
  BY <1>1, <1>3 DEF DataInv, Answered

LEMMA DataStep ==
    ASSUME BaseInv, DataInv, Next
    PROVE  DataInv'
<1>0. /\ inbox \subseteq ReqSet /\ net \subseteq MsgSet /\ Grow
  BY GrowStep DEF BaseInv, TypeOK, ServerOK, MsgSet, ReqSet
<1>1. ASSUME NEW j \in inbox PROVE j \in ReqSet /\ j.call \in Calls
  BY <1>0 DEF ReqSet
<1>2. ASSUME NEW m \in net, m.type = "rep" PROVE Answered(m.val, m.call)'
  <2>1. m.call \in Calls
    BY <1>0 DEF MsgSet
  <2>2. QED
    BY <1>0, <1>2, <2>1, AnsweredStays DEF DataInv
<1>3. ASSUME UNCHANGED <<scene, data, answers, execs>>,
             \A j \in inbox' : j.at = "respond" => j \in inbox,
             \A m \in net' : m.type = "rep" => m \in net
      PROVE  DataInv'
  <2>1. \A c \in Calls : \A a \in data'[DataOf(c)'] : a \in answers'[c] \/ MixedData(c)'
    BY <1>3 DEF DataInv, DataOf, MixedData
  <2>2. \A j \in inbox' : j.at = "respond" => data'[DataOf(j.call)'] # {}
    BY <1>3 DEF DataInv, DataOf
  <2>3. \A m \in net' : m.type = "rep" => Answered(m.val, m.call)'
    BY <1>2, <1>3
  <2>4. QED
    BY <2>1, <2>2, <2>3 DEF DataInv
<1>4. ASSUME NEW c \in Calls, \/ NewCall(c) \/ Send(c) \/ Refused(c) \/ AddClosed(c) \/ AddOpen(c) \/ ArmFails(c) \/ Arm(c)
                              \/ BucketAdd(c) \/ DeliverRejected(c)
      PROVE  DataInv'
  BY <1>3, <1>4 DEF NewCall, Send, Refused, AddClosed, AddOpen, ArmFails, Arm, BucketAdd, DeliverRejected, srvVars
<1>5. ASSUME NEW c \in Calls, \/ FailRemove(c) \/ FailRelease(c) \/ FailEnvelope(c) \/ WaitReturn(c) \/ Cancel(c) \/ TimerFire(c)
                              \/ TimerDrop(c) \/ TimerTake(c)
      PROVE  DataInv'
  BY <1>3, <1>5 DEF FailRemove, FailRelease, FailEnvelope, WaitReturn, Cancel, TimerFire, TimerDrop, TimerTake, srvVars
<1>6. CASE Finish \/ StopBegin \/ StopScheduler \/ StopClear
  BY <1>3, <1>6 DEF Finish, StopBegin, StopScheduler, StopClear, srvVars
<1>7. ASSUME NEW c \in Calls, DeliverLocal(c) PROVE DataInv'
  <2> DEFINE r == [call |-> c, env |-> env[c], at |-> "queued", copy |-> 1, resp |-> NoEnv]
  <2>1. UNCHANGED <<scene, net, data, answers, execs>> /\ inbox' = inbox \cup {r} /\ r.at # "respond"
    BY <1>7 DEF DeliverLocal
  <2> HIDE DEF r
  <2>2. QED
    BY <1>3, <2>1
<1>8. ASSUME NEW c \in Calls, DeliverRemote(c) \/ SendFails(c) PROVE DataInv'
  <2> DEFINE m == [type |-> "req", call |-> c, val |-> NoRes, copy |-> 1]
  <2>1. UNCHANGED <<scene, inbox, data, answers, execs>> /\ net' \subseteq net \cup {m} /\ m.type # "rep"
    BY <1>8 DEF DeliverRemote, SendFails
  <2> HIDE DEF m
  <2>2. QED
    BY <1>3, <2>1
<1>9. ASSUME NEW m \in net, Duplicate(m) PROVE DataInv'
  <2>1. UNCHANGED <<scene, inbox, data, answers, execs>> /\ net' = (net \ {m}) \cup {[m EXCEPT !.copy = 2], [m EXCEPT !.copy = 3]} /\ m.type = "req" /\ m \in MsgSet
    BY <1>0, <1>9 DEF Duplicate
  <2>2. [m EXCEPT !.copy = 2].type = "req" /\ [m EXCEPT !.copy = 3].type = "req"
    BY <2>1 DEF MsgSet
  <2>3. QED
    BY <1>3, <2>1, <2>2
<1>10. ASSUME NEW m, Lose(m) \/ RecvDuplicate(m) \/ KeyForgotten(m) \/ RecvRequest(m) \/ RecvReply(m) \/ RejectRequest(m) PROVE DataInv'
  BY <1>3, <1>10 DEF Lose, RecvDuplicate, KeyForgotten, RecvRequest, RecvReply, RejectRequest
<1>11. ASSUME NEW m \in looking, AcceptRequest(m) PROVE DataInv'
  <2> DEFINE r == [call |-> m.call, env |-> NoEnv, at |-> "queued", copy |-> m.copy, resp |-> NoEnv]
  <2>1. UNCHANGED <<scene, net, data, answers, execs>> /\ inbox' = inbox \cup {r} /\ r.at # "respond"
    BY <1>11 DEF AcceptRequest
  <2> HIDE DEF r
  <2>2. QED
    BY <1>3, <2>1
<1>12. ASSUME NEW j \in inbox, ExpireJob(j) \/ ReleaseRequest(j) PROVE DataInv'
  BY <1>3, <1>12 DEF ExpireJob, ReleaseRequest
<1>13. ASSUME NEW j \in inbox, HandleRequest(j) PROVE DataInv'
  <2>1. UNCHANGED <<scene, net>> /\ inbox' = (inbox \ {j}) \cup {[j EXCEPT !.at = IF scene.mode = "send" THEN "release" ELSE "respond"]}
    BY <1>13 DEF HandleRequest
  <2>2. [j EXCEPT !.at = IF scene.mode = "send" THEN "release" ELSE "respond"].call = j.call
    BY <1>1, JobMoves
  <2>3. \A c \in Calls : DataOf(c)' = DataOf(c)
    BY <2>1 DEF DataOf
  <2>4. data'[DataOf(j.call)] # {} /\ \A c \in Calls : \A a \in data'[DataOf(c)] : a \in answers'[c] \/ MixedData(c)'
    BY <1>13, DataAnswers
  <2>5. ASSUME NEW i \in inbox', i.at = "respond" PROVE data'[DataOf(i.call)'] # {}
    <3>1. CASE i \in inbox
      <4>1. i.call \in Calls /\ data[DataOf(i.call)] # {}
        BY <1>1, <2>5, <3>1 DEF DataInv
      <4>2. data[DataOf(i.call)] \subseteq data'[DataOf(i.call)]
        <5>1. data \in [Calls -> SUBSET {"ok", "err"}] /\ DataOf(i.call) \in Calls
          BY <4>1, SceneFacts DEF BaseInv, TypeOK, ServerOK, CallsOK
        <5>2. PICK b : data' = [data EXCEPT ![DataOf(j.call)] = @ \cup {b}]
          BY <1>13 DEF HandleRequest
        <5>3. QED
          BY <5>1, <5>2
      <4>3. QED
        BY <2>3, <4>1, <4>2
    <3>2. CASE i.call = j.call
      BY <1>1, <2>3, <2>4, <3>2
    <3>3. QED
      BY <2>1, <2>2, <3>1, <3>2
  <2>6. \A m \in net' : m.type = "rep" => Answered(m.val, m.call)'
    BY <1>2, <2>1
  <2>7. QED
    BY <2>3, <2>4, <2>5, <2>6 DEF DataInv
<1>14. ASSUME NEW j \in inbox, RespondRemote(j) PROVE DataInv'
  <2>0. PICK r : r = ReplyOf(j.call)
    OBVIOUS
  <2> DEFINE m == [type |-> "rep", call |-> j.call, val |-> r, copy |-> j.copy]
  <2>1. /\ UNCHANGED <<scene, data, answers, execs>> /\ inbox' = inbox \ {j} /\ net' \subseteq net \cup {m} /\ j.at = "respond"
        /\ m.call = j.call /\ m.val = r
    BY <1>14, <2>0 DEF RespondRemote
  <2>2. Answered(r, j.call)'
    <3>1. Answered(r, j.call)
      BY <2>0, <2>1, ReplyAnswered
    <3>2. QED
      BY <1>0, <1>1, <3>1, AnsweredStays
  <2> HIDE DEF m
  <2>3. \A c \in Calls : \A a \in data'[DataOf(c)'] : a \in answers'[c] \/ MixedData(c)'
    BY <2>1 DEF DataInv, DataOf, MixedData
  <2>4. \A i \in inbox' : i.at = "respond" => data'[DataOf(i.call)'] # {}
    BY <2>1 DEF DataInv, DataOf
  <2>5. \A x \in net' : x.type = "rep" => Answered(x.val, x.call)'
    <3> SUFFICES ASSUME NEW x \in net', x.type = "rep" PROVE Answered(x.val, x.call)'
      OBVIOUS
    <3>1. CASE x \in net
      BY <1>2, <3>1
    <3>2. CASE x = m
      BY <2>1, <2>2, <3>2
    <3>3. QED
      BY <2>1, <3>1, <3>2
  <2>6. QED
    BY <2>3, <2>4, <2>5 DEF DataInv
<1>15. ASSUME NEW j \in inbox, RespondLocal(j) PROVE DataInv'
  <2>1. PICK e \in PooledEnvs : inbox' = (inbox \ {j}) \cup {[j EXCEPT !.at = "reply", !.resp = e]}
    BY <1>15 DEF RespondLocal
  <2>2. e \in Envs
    BY <1>1, NewTypes DEF BaseInv, TypeOK
  <2> DEFINE k == [j EXCEPT !.at = "reply", !.resp = e]
  <2>3. inbox' = (inbox \ {j}) \cup {k} /\ k.at # "respond"
    BY <1>1, <2>1, <2>2, JobReplies
  <2> HIDE DEF k
  <2>4. UNCHANGED <<scene, net, data, answers, execs>>
    BY <1>15 DEF RespondLocal
  <2>5. QED
    BY <1>3, <2>3, <2>4
<1>16. ASSUME NEW j \in inbox, RespondNobody(j) \/ DeliverResponse(j) \/ ReleaseAgain(j) PROVE DataInv'
  <2>1. PICK a \in {"release", "again"} : inbox' = (inbox \ {j}) \cup {[j EXCEPT !.at = a]}
    BY <1>16 DEF RespondNobody, DeliverResponse, ReleaseAgain
  <2>2. [j EXCEPT !.at = a].at # "respond"
    BY <1>1, JobMoves
  <2>3. UNCHANGED <<scene, net, data, answers, execs>>
    BY <1>16 DEF RespondNobody, DeliverResponse, ReleaseAgain
  <2>4. QED
    BY <1>3, <2>1, <2>2, <2>3
<1>17. ASSUME NEW j, RunCallback(j) PROVE DataInv'
  BY <1>3, <1>17 DEF RunCallback, srvVars
<1>18. QED
  BY <1>4, <1>5, <1>6, <1>7, <1>8, <1>9, <1>10, <1>11, <1>12, <1>13, <1>14, <1>15, <1>16, <1>17
  DEF Next, CallStep, RefuseCall, RefuseAsyncCall

LEMMA TakenStep ==
    ASSUME BaseInv, DataInv, TakenOK, Next
    PROVE  TakenOK'
<1>0. taken \subseteq [by : {"timer", "local", "reply"}, call : Calls, obj : States, res : Results] /\ Grow
  BY GrowStep DEF BaseInv, TypeOK, MonitorOK
<1>1. ASSUME NEW t \in taken PROVE Answered(t.res, t.call)'
  <2>1. t.call \in Calls /\ Answered(t.res, t.call)
    BY <1>0 DEF TakenOK
  <2>2. QED
    BY <1>0, <2>1, AnsweredStays
<1>2. ASSUME taken' \subseteq taken PROVE TakenOK'
  BY <1>1, <1>2 DEF TakenOK
<1>3. ASSUME NEW c \in Calls, NEW r, Answered(r, c), NEW b, NEW s,
             taken' \subseteq taken \cup {[by |-> b, call |-> c, obj |-> s, res |-> r]}
      PROVE  TakenOK'
  <2> DEFINE u == [by |-> b, call |-> c, obj |-> s, res |-> r]
  <2>1. Answered(r, c)'
    BY <1>0, <1>3, AnsweredStays
  <2>2. u.res = r /\ u.call = c /\ taken' \subseteq taken \cup {u}
    BY <1>3
  <2> HIDE DEF u
  <2> SUFFICES ASSUME NEW t \in taken' PROVE Answered(t.res, t.call)'
    BY DEF TakenOK
  <2>3. CASE t \in taken
    BY <1>1, <2>3
  <2>4. CASE t = u
    BY <2>1, <2>2, <2>4
  <2>5. QED
    BY <2>2, <2>3, <2>4
<1>4. ASSUME NEW c \in Calls, \/ NewCall(c) \/ Send(c) \/ Refused(c) \/ AddClosed(c) \/ AddOpen(c) \/ ArmFails(c) \/ Arm(c)
                              \/ BucketAdd(c) \/ DeliverLocal(c) \/ DeliverRemote(c) \/ DeliverRejected(c) \/ SendFails(c)
      PROVE  TakenOK'
  BY <1>2, <1>4 DEF NewCall, Send, Refused, AddClosed, AddOpen, ArmFails, Arm, BucketAdd, DeliverLocal, DeliverRemote,
                    DeliverRejected, SendFails, monVars
<1>5. ASSUME NEW c \in Calls, \/ FailRemove(c) \/ FailRelease(c) \/ FailEnvelope(c) \/ WaitReturn(c) \/ Cancel(c) \/ TimerFire(c)
                              \/ TimerDrop(c)
      PROVE  TakenOK'
  BY <1>2, <1>5 DEF FailRemove, FailRelease, FailEnvelope, WaitReturn, Cancel, TimerFire, TimerDrop, monVars
<1>6. CASE Finish \/ StopBegin \/ StopScheduler \/ StopClear
  BY <1>2, <1>6 DEF Finish, StopBegin, StopScheduler, StopClear
<1>7. ASSUME NEW c \in Calls, TimerTake(c) PROVE TakenOK'
  <2>1. PICK s : s = bucket[c]
    OBVIOUS
  <2>2. taken' \subseteq taken \cup {[by |-> "timer", call |-> c, obj |-> s, res |-> Res("timeout", c)]}
    BY <1>7, <2>1 DEF TimerTake
  <2>3. Answered(Res("timeout", c), c)
    BY DEF Answered, Res
  <2>4. QED
    BY <1>3, <2>2, <2>3
<1>8. ASSUME NEW m, Lose(m) \/ Duplicate(m) \/ KeyForgotten(m) \/ RecvDuplicate(m) \/ RecvRequest(m) \/ AcceptRequest(m) \/ RejectRequest(m)
      PROVE  TakenOK'
  BY <1>2, <1>8 DEF Lose, Duplicate, KeyForgotten, RecvDuplicate, RecvRequest, AcceptRequest, RejectRequest, monVars
<1>9. ASSUME NEW m \in net, RecvReply(m) PROVE TakenOK'
  <2>1. PICK s : s = bucket[m.call]
    OBVIOUS
  <2>2. taken' \subseteq taken \cup {[by |-> "reply", call |-> m.call, obj |-> s, res |-> m.val]} /\ m.type = "rep"
    BY <1>9, <2>1 DEF RecvReply
  <2>3. m.call \in Calls /\ Answered(m.val, m.call)
    BY <2>2 DEF DataInv, BaseInv, TypeOK, ServerOK
  <2>4. QED
    BY <1>3, <2>2, <2>3
<1>10. ASSUME NEW j, \/ ExpireJob(j) \/ HandleRequest(j) \/ RespondRemote(j) \/ RespondNobody(j)
                     \/ DeliverResponse(j) \/ ReleaseAgain(j) \/ ReleaseRequest(j) \/ RunCallback(j)
       PROVE  TakenOK'
  BY <1>2, <1>10 DEF ExpireJob, HandleRequest, RespondRemote, RespondNobody, DeliverResponse, ReleaseAgain, ReleaseRequest,
                     RunCallback, monVars
<1>11. ASSUME NEW j \in inbox, RespondLocal(j) PROVE TakenOK'
  <2>1. PICK s, r : s = bucket[j.call] /\ r = ReplyOf(j.call)
    OBVIOUS
  <2>2. taken' \subseteq taken \cup {[by |-> "local", call |-> j.call, obj |-> s, res |-> r]} /\ j.at = "respond"
    BY <1>11, <2>1 DEF RespondLocal
  <2>3. Answered(r, j.call)
    BY <2>1, <2>2, ReplyAnswered
  <2>4. j.call \in Calls
    BY DEF BaseInv, TypeOK, ServerOK
  <2>5. QED
    BY <1>3, <2>2, <2>3, <2>4
<1>12. QED
  BY <1>4, <1>5, <1>6, <1>7, <1>8, <1>9, <1>10, <1>11 DEF Next, CallStep, RefuseCall, RefuseAsyncCall

\* A result is posted to the mailbox of the caller, or given to the waiting caller.
PostedDone == PostedOK /\ DoneOK

LEMMA PostOne ==
    ASSUME BaseInv, Grow, PostedOK, NEW c \in Calls, NEW r, Answered(r, c), NEW e,
           cbjobs' \subseteq cbjobs \cup {[call |-> c, res |-> r, env |-> e]}
    PROVE  PostedOK'
<1> DEFINE u == [call |-> c, res |-> r, env |-> e]
<1>1. u.res = r /\ u.call = c /\ cbjobs' \subseteq cbjobs \cup {u}
  OBVIOUS
<1> HIDE DEF u
<1>2. Answered(r, c)'
  BY AnsweredStays
<1> SUFFICES ASSUME NEW j \in cbjobs' PROVE Answered(j.res, j.call)'
  BY DEF PostedOK
<1>3. CASE j \in cbjobs
  <2>1. j.call \in Calls /\ Answered(j.res, j.call)
    BY <1>3 DEF PostedOK, BaseInv, TypeOK, PoolsOK
  <2>2. QED
    BY <2>1, AnsweredStays
<1>4. CASE j = u
  BY <1>1, <1>2, <1>4
<1>5. QED
  BY <1>1, <1>3, <1>4

LEMMA DoneKeep ==
    ASSUME BaseInv, Grow, DoneOK, \A s \in States : st'[s].ref /\ st'[s].done => st'[s] = st[s]
    PROVE  DoneOK'
<1> SUFFICES ASSUME NEW s \in States, st'[s].ref, st'[s].done PROVE st'[s].call \in Calls /\ Answered(st[s].res, st[s].call)'
  BY DEF DoneOK
<1>1. st'[s] = st[s] /\ st[s].ref /\ st[s].done
  OBVIOUS
<1>2. PICK r, c : r = st[s].res /\ c = st[s].call
  OBVIOUS
<1>3. c \in Calls /\ Answered(r, c)
  BY <1>1, <1>2 DEF DoneOK
<1>4. Answered(r, c)'
  BY <1>3, AnsweredStays
<1>5. QED
  BY <1>1, <1>2, <1>3, <1>4 DEF Answered

LEMMA DoneOne ==
    ASSUME BaseInv, Grow, DoneOK, NEW c \in Calls, NEW r, Answered(r, c), NEW s \in States, st[s].call = c,
           st' = [st EXCEPT ![s].res = r, ![s].done = TRUE]
    PROVE  DoneOK'
<1>1. st \in [States -> StateSet]
  BY DEF BaseInv, TypeOK, PoolsOK, StateSet
<1>2. st'[s].res = r /\ st'[s].call = c /\ \A x \in States \ {s} : st'[x] = st[x]
  BY <1>1 DEF StateSet
<1>3. Answered(r, c)'
  BY AnsweredStays
<1> SUFFICES ASSUME NEW x \in States, st'[x].ref, st'[x].done PROVE st'[x].call \in Calls /\ Answered(st[x].res, st[x].call)'
  BY DEF DoneOK
<1>4. CASE x = s
  BY <1>2, <1>3, <1>4 DEF Answered
<1>5. CASE x # s
  <2>1. st'[x] = st[x] /\ st[x].ref /\ st[x].done
    BY <1>2, <1>5
  <2>2. PICK q, d : q = st[x].res /\ d = st[x].call
    OBVIOUS
  <2>3. d \in Calls /\ Answered(q, d)
    BY <2>1, <2>2 DEF DoneOK
  <2>4. Answered(q, d)'
    BY <2>3, AnsweredStays
  <2>5. QED
    BY <2>1, <2>2, <2>3, <2>4 DEF Answered
<1>6. QED
  BY <1>4, <1>5

\* Putting a state back leaves no finished state that was not there.
LEMMA PutDone ==
    ASSUME BaseInv, NEW s \in States, st' = PutState(st, s)
    PROVE  \A x \in States : st'[x].ref /\ st'[x].done => st'[x] = st[x]
<1>1. st \in [States -> StateSet] /\ FreeState.ref = FALSE
  BY FreeTypes DEF BaseInv, TypeOK, PoolsOK, StateSet
<1>2. QED
  BY <1>1 DEF PutState

LEMMA CompleteOutcome ==
    ASSUME BaseInv, Grow, PostedDone, NEW c \in Calls, NEW r, Answered(r, c), NEW s \in States, st[s].call = c,
           SetAndComplete(s, r)
    PROVE  PostedDone'
<1>1. CASE NeedCallback(s)
  <2>1. st' = PutState(st, s)
    BY <1>1 DEF SetAndComplete
  <2>2. DoneOK'
    BY <2>1, PutDone, DoneKeep DEF PostedDone
  <2>3. \E e : cbjobs' \subseteq cbjobs \cup {[call |-> c, res |-> r, env |-> e]}
    BY <1>1 DEF SetAndComplete
  <2>4. PostedOK'
    BY <2>3, PostOne DEF PostedDone
  <2>5. QED
    BY <2>2, <2>4 DEF PostedDone
<1>2. CASE ~NeedCallback(s)
  <2>1. st' = [st EXCEPT ![s].res = r, ![s].done = TRUE] /\ cbjobs' = cbjobs
    BY <1>2 DEF SetAndComplete
  <2>2. DoneOK'
    BY <2>1, DoneOne DEF PostedDone
  <2>3. cbjobs' \subseteq cbjobs \cup {[call |-> c, res |-> r, env |-> 0]}
    BY <2>1
  <2>4. PostedOK'
    BY <2>3, PostOne DEF PostedDone
  <2>5. QED
    BY <2>2, <2>4 DEF PostedDone
<1>3. QED
  BY <1>1, <1>2

LEMMA PostedStep ==
    ASSUME BaseInv, \A d \in Calls : OwnsOne(d), TakenOK, PostedDone, Next, stop' # "stopped"
    PROVE  PostedDone'
<1>0. Grow /\ st \in [States -> StateSet]
  BY GrowStep DEF BaseInv, TypeOK, PoolsOK, StateSet
<1>1. ASSUME cbjobs' \subseteq cbjobs, \A s \in States : st'[s].ref /\ st'[s].done => st'[s] = st[s] PROVE PostedDone'
  <2>1. PostedOK'
    <3> SUFFICES ASSUME NEW j \in cbjobs' PROVE Answered(j.res, j.call)'
      BY DEF PostedOK
    <3>1. j.call \in Calls /\ Answered(j.res, j.call)
      BY <1>1 DEF PostedDone, PostedOK, BaseInv, TypeOK, PoolsOK
    <3>2. QED
      BY <1>0, <3>1, AnsweredStays
  <2>2. DoneOK'
    BY <1>0, <1>1, DoneKeep DEF PostedDone
  <2>3. QED
    BY <2>1, <2>2 DEF PostedDone
<1>2. ASSUME cbjobs' \subseteq cbjobs, UNCHANGED st PROVE PostedDone'
  BY <1>1, <1>2
<1>3. ASSUME cbjobs' \subseteq cbjobs, NEW s \in States, st' = PutState(st, s) PROVE PostedDone'
  BY <1>1, <1>3, PutDone
<1>4. ASSUME NEW c \in Calls, NewCall(c) PROVE PostedDone'
  <2>1. PICK s \in PooledStates : st' = NewCallState(s, c)
    BY <1>4 DEF NewCall
  <2>2. s \in States
    BY <2>1, NewTypes DEF BaseInv, TypeOK
  <2>3. \A x \in States : st'[x].ref /\ st'[x].done => st'[x] = st[x]
    BY <1>0, <2>1, <2>2 DEF NewCallState
  <2>4. QED
    BY <1>1, <1>4, <2>3 DEF NewCall
<1>5. ASSUME NEW c \in Calls, AddClosed(c) \/ ArmFails(c) PROVE PostedDone'
  <2>1. PICK s : s = obj[c]
    OBVIOUS
  <2>2. SetAndComplete(s, Res("closed", c)) /\ pc[c] \in {"add", "arm"}
    BY <1>5, <2>1 DEF AddClosed, ArmFails
  <2>3. s \in States /\ st[s].call = c
    BY <2>1, <2>2 DEF OwnsOne, Live, Held
  <2>4. Answered(Res("closed", c), c)
    BY DEF Answered, Res
  <2>5. QED
    BY <1>0, <2>2, <2>3, <2>4, CompleteOutcome
<1>6. ASSUME NEW c \in Calls, \/ Send(c) \/ Refused(c) \/ AddOpen(c) \/ Arm(c) \/ BucketAdd(c) \/ DeliverLocal(c)
                              \/ DeliverRemote(c) \/ DeliverRejected(c) \/ SendFails(c) \/ FailRemove(c) \/ FailEnvelope(c)
                              \/ TimerFire(c) \/ TimerDrop(c) \/ TimerTake(c)
      PROVE  PostedDone'
  BY <1>2, <1>6 DEF Send, Refused, AddOpen, Arm, BucketAdd, DeliverLocal, DeliverRemote, DeliverRejected, SendFails, FailRemove,
                    FailEnvelope, TimerFire, TimerDrop, TimerTake
<1>7. ASSUME NEW c \in Calls, FailRelease(c) \/ WaitReturn(c) PROVE PostedDone'
  <2>1. PICK s : s = obj[c]
    OBVIOUS
  <2>2. st' = PutState(st, s) /\ UNCHANGED cbjobs /\ pc[c] \in {"release", "wait"}
    BY <1>7, <2>1 DEF FailRelease, WaitReturn
  <2>3. s \in States
    BY <2>1, <2>2 DEF BaseInv, ShapeInv
  <2>4. QED
    BY <1>3, <2>2, <2>3
<1>8. ASSUME NEW c \in Calls, Cancel(c) PROVE PostedDone'
  <2>1. PICK s : s = bucket[c]
    OBVIOUS
  <2>2. st' = PutState(st, s) /\ UNCHANGED cbjobs /\ s \in States
    BY <1>8, <2>1 DEF Cancel, Found, BaseInv, TypeOK, MonitorOK
  <2>3. QED
    BY <1>3, <2>2
<1>9. ASSUME NEW t \in taken PROVE t.obj \in States /\ t.call \in Calls /\ st[t.obj].call = t.call /\ Answered(t.res, t.call)
  <2>1. t.call \in Calls /\ t.obj = obj[t.call]
    BY DEF BaseInv, TypeOK, MonitorOK, ShapeInv
  <2>2. Taken(t.call)
    BY DEF Taken
  <2>3. Live(t.call)
    BY <2>1, <2>2 DEF OwnsOne
  <2>4. QED
    BY <2>1, <2>3 DEF Live, Held, TakenOK
<1>10. CASE Finish
  <2>1. PICK t \in taken : SetAndComplete(t.obj, t.res)
    BY <1>10 DEF Finish
  <2>2. QED
    BY <1>0, <1>9, <2>1, CompleteOutcome
<1>11. CASE StopBegin \/ StopScheduler
  BY <1>2, <1>11 DEF StopBegin, StopScheduler
<1>12. CASE StopClear
  BY <1>12 DEF StopClear
<1>13. ASSUME NEW m, \/ Lose(m) \/ Duplicate(m) \/ KeyForgotten(m) \/ RecvDuplicate(m) \/ RecvRequest(m) \/ RecvReply(m) \/ AcceptRequest(m)
                     \/ RejectRequest(m)
       PROVE  PostedDone'
  BY <1>2, <1>13 DEF Lose, Duplicate, KeyForgotten, RecvDuplicate, RecvRequest, RecvReply, AcceptRequest, RejectRequest
<1>14. ASSUME NEW j, \/ ExpireJob(j) \/ HandleRequest(j) \/ RespondRemote(j) \/ RespondLocal(j) \/ RespondNobody(j)
                     \/ ReleaseAgain(j) \/ ReleaseRequest(j) \/ RunCallback(j)
       PROVE  PostedDone'
  BY <1>2, <1>14 DEF ExpireJob, HandleRequest, RespondRemote, RespondLocal, RespondNobody, ReleaseAgain, ReleaseRequest, RunCallback
<1>15. ASSUME NEW j \in inbox, DeliverResponse(j) PROVE PostedDone'
  <2>1. PICK t \in taken :
          \/ /\ st' = PutState(st, t.obj)
             /\ cbjobs' = cbjobs \cup {[call |-> st[t.obj].call, res |-> t.res, env |-> j.resp]}
          \/ st' = PutState(st, t.obj) /\ cbjobs' = cbjobs
          \/ st' = [st EXCEPT ![t.obj].res = t.res, ![t.obj].done = TRUE] /\ cbjobs' = cbjobs
    BY <1>15 DEF DeliverResponse
  <2>2. cbjobs' \subseteq cbjobs \cup {[call |-> t.call, res |-> t.res, env |-> j.resp]}
    BY <1>9, <2>1
  <2>3. PostedOK'
    BY <1>0, <1>9, <2>2, PostOne DEF PostedDone
  <2>4. DoneOK'
    <3>1. CASE st' = PutState(st, t.obj)
      BY <1>0, <1>9, <3>1, PutDone, DoneKeep DEF PostedDone
    <3>2. CASE st' = [st EXCEPT ![t.obj].res = t.res, ![t.obj].done = TRUE]
      BY <1>0, <1>9, <3>2, DoneOne DEF PostedDone
    <3>3. QED
      BY <2>1, <3>1, <3>2
  <2>5. QED
    BY <2>3, <2>4 DEF PostedDone
<1>16. QED
  BY <1>4, <1>5, <1>6, <1>7, <1>8, <1>10, <1>11, <1>12, <1>13, <1>14, <1>15 DEF Next, CallStep, RefuseCall, RefuseAsyncCall

\* What a call returns.
LEMMA RetStep ==
    ASSUME BaseInv, \A d \in Calls : OwnsOne(d), RetOK, PostedDone, Next
    PROVE  RetOK'
<1>0. Grow /\ ret \in [Calls -> Results]
  BY GrowStep DEF BaseInv, TypeOK, CallsOK
<1>1. ASSUME NEW d \in Calls, ret'[d] # NoRes, ret'[d] = ret[d] PROVE Answered(ret[d], d)'
  <2>1. PICK r : r = ret[d]
    OBVIOUS
  <2>2. Answered(r, d)
    BY <1>1, <2>1 DEF RetOK
  <2>3. Answered(r, d)'
    BY <1>0, <2>2, AnsweredStays
  <2>4. QED
    BY <1>1, <2>1, <2>3 DEF Answered
<1>2. ASSUME UNCHANGED ret PROVE RetOK'
  BY <1>1, <1>2 DEF RetOK
<1>3. ASSUME NEW c \in Calls, NEW r, Answered(r, c), ret' = [ret EXCEPT ![c] = r] PROVE RetOK'
  <2> SUFFICES ASSUME NEW d \in Calls, ret'[d] # NoRes PROVE Answered(ret[d], d)'
    BY DEF RetOK
  <2>1. CASE d = c
    <3>1. Answered(r, c)'
      BY <1>0, <1>3, AnsweredStays
    <3>2. ret'[c] = r
      BY <1>0, <1>3
    <3>3. QED
      BY <2>1, <3>1, <3>2 DEF Answered
  <2>2. CASE d # c
    BY <1>0, <1>1, <1>3, <2>2
  <2>3. QED
    BY <2>1, <2>2
<1>4. ASSUME NEW c \in Calls, NEW k \in {"refused", "failed", "cancelled"} PROVE Answered(Res(k, c), c)
  BY DEF Answered, Res
<1>5. ASSUME NEW c \in Calls, Refused(c) \/ FailEnvelope(c) \/ Cancel(c) PROVE RetOK'
  <2>1. PICK k \in {"refused", "failed", "cancelled"} : ret' = [ret EXCEPT ![c] = Res(k, c)]
    BY <1>5 DEF Refused, FailEnvelope, Cancel
  <2>2. QED
    BY <1>3, <1>4, <2>1
<1>6. ASSUME NEW c \in Calls, WaitReturn(c) PROVE RetOK'
  <2>1. PICK r : r = st[obj[c]].res
    OBVIOUS
  <2>2. pc[c] = "wait" /\ st[obj[c]].done /\ ret' = [ret EXCEPT ![c] = r]
    BY <1>6, <2>1 DEF WaitReturn
  <2>3. Held(c)
    BY <2>2 DEF BaseInv, ShapeInv, OwnsOne, Open
  <2>4. Answered(r, c)
    BY <2>1, <2>2, <2>3 DEF PostedDone, DoneOK, Held
  <2>5. QED
    BY <1>3, <2>2, <2>4
<1>7. ASSUME NEW j \in cbjobs, RunCallback(j) PROVE RetOK'
  <2>1. j.call \in Calls /\ Answered(j.res, j.call) /\ ret' = [ret EXCEPT ![j.call] = j.res]
    BY <1>7 DEF RunCallback, PostedDone, PostedOK, BaseInv, TypeOK, PoolsOK
  <2>2. QED
    BY <1>3, <2>1
<1>8. ASSUME NEW c \in Calls, \/ NewCall(c) \/ Send(c) \/ AddClosed(c) \/ AddOpen(c) \/ ArmFails(c) \/ Arm(c) \/ BucketAdd(c)
                              \/ DeliverLocal(c) \/ DeliverRemote(c) \/ DeliverRejected(c) \/ SendFails(c) \/ FailRemove(c)
                              \/ FailRelease(c) \/ TimerFire(c) \/ TimerDrop(c) \/ TimerTake(c)
      PROVE  RetOK'
  BY <1>2, <1>8 DEF NewCall, Send, AddClosed, AddOpen, ArmFails, Arm, BucketAdd, DeliverLocal, DeliverRemote, DeliverRejected,
                    SendFails, FailRemove, FailRelease, TimerFire, TimerDrop, TimerTake, callVars
<1>9. CASE Finish \/ StopBegin \/ StopScheduler \/ StopClear
  BY <1>2, <1>9 DEF Finish, StopBegin, StopScheduler, StopClear, callVars
<1>10. ASSUME NEW m, \/ Lose(m) \/ Duplicate(m) \/ KeyForgotten(m) \/ RecvDuplicate(m) \/ RecvRequest(m) \/ RecvReply(m) \/ AcceptRequest(m)
                     \/ RejectRequest(m)
       PROVE  RetOK'
  BY <1>2, <1>10 DEF Lose, Duplicate, KeyForgotten, RecvDuplicate, RecvRequest, RecvReply, AcceptRequest, RejectRequest, callVars
<1>11. ASSUME NEW j, \/ ExpireJob(j) \/ HandleRequest(j) \/ RespondRemote(j) \/ RespondLocal(j) \/ RespondNobody(j)
                     \/ DeliverResponse(j) \/ ReleaseAgain(j) \/ ReleaseRequest(j)
       PROVE  RetOK'
  BY <1>2, <1>11 DEF ExpireJob, HandleRequest, RespondRemote, RespondLocal, RespondNobody, DeliverResponse, ReleaseAgain,
                     ReleaseRequest, callVars
<1>12. QED
  BY <1>5, <1>6, <1>7, <1>8, <1>9, <1>10, <1>11 DEF Next, CallStep, RefuseCall, RefuseAsyncCall

LEMMA OutcomeStep ==
    ASSUME BaseInv, OwnInv, DataInv, OutcomeInv, Next
    PROVE  OutcomeInv'
<1> SUFFICES ASSUME Sound' PROVE RetOK' /\ TakenOK' /\ PostedOK' /\ DoneOK'
  BY DEF OutcomeInv
<1>1. Sound /\ stop' # "stopped"
  BY SoundBefore DEF Sound
<1>2. TakenOK /\ RetOK /\ PostedDone /\ \A d \in Calls : OwnsOne(d)
  BY <1>1 DEF OutcomeInv, OwnInv, PostedDone
<1>3. TakenOK'
  BY <1>2, TakenStep
<1>4. PostedDone'
  BY <1>1, <1>2, PostedStep
<1>5. RetOK'
  BY <1>2, RetStep
<1>6. QED
  BY <1>3, <1>4, <1>5 DEF PostedDone

-----------------------------------------------------------------------------
(* EnvInv: one party at a time has an envelope. *)

LEMMA EnvKeep ==
    ASSUME NEW e \in Envs, EnvAt(e), Sound' => Sound, ev'[e] = ev[e],
           \A p \in Parties : \A x : Holds(p, x, e)' => Holds(p, x, e)
    PROVE  EnvAt(e)'
<1>1. \A p \in Parties : \A x : Holds(p, x, e)' => ev'[e].ref /\ (p # "callback" \/ Sound' => ev'[e].call = CallOf(p, x))
  BY DEF EnvAt
<1>2. \A p \in Parties, q \in Parties : \A x, y : Holds(p, x, e)' /\ Holds(q, y, e)' => p = q /\ x = y
  BY DEF EnvAt
<1>3. QED
  BY <1>1, <1>2 DEF EnvAt

LEMMA EnvOne ==
    ASSUME NEW e \in Envs, NEW q \in Parties, NEW y, ev'[e].ref, q # "callback" \/ Sound' => ev'[e].call = CallOf(q, y),
           \A p \in Parties : \A x : Holds(p, x, e)' => p = q /\ x = y
    PROVE  EnvAt(e)'
  BY DEF EnvAt

LEMMA EnvNone ==
    ASSUME NEW e \in Envs, \A p \in Parties : \A x : ~Holds(p, x, e)'
    PROVE  EnvAt(e)'
  BY DEF EnvAt

LEMMA EnvFresh ==
    ASSUME PoolsOK, NEW e \in Envs, ~ev[e].ref, EnvAt(e)
    PROVE  \A p \in Parties : \A x : ~Holds(p, x, e)
  BY DEF EnvAt

\* No party but the calls, the jobs and the callbacks.
LEMMA HoldsLess ==
    ASSUME \A x \in Calls : pc'[x] \in Holding => pc[x] \in Holding /\ env'[x] = env[x],
           inbox' \subseteq inbox, cbjobs' \subseteq cbjobs
    PROVE  \A e, p, x : Holds(p, x, e)' => Holds(p, x, e)
  BY DEF Holds

\* Everybody keeps an envelope, gives it up, or nobody has one.
LEMMA EnvLess ==
    ASSUME PoolsOK, \A e \in Envs : EnvAt(e), Sound' => Sound, UNCHANGED ev,
           \A x \in Calls : pc'[x] \in Holding => pc[x] \in Holding /\ env'[x] = env[x],
           inbox' \subseteq inbox, cbjobs' \subseteq cbjobs
    PROVE  \A e \in Envs : EnvAt(e)'
  BY HoldsLess, EnvKeep

\* The one holder of an envelope releases it.
LEMMA EnvDrop ==
    ASSUME PoolsOK, \A e \in Envs : EnvAt(e), Sound' => Sound, NEW d, NEW q \in Parties, NEW y,
           Holds(q, y, d), ~Holds(q, y, d)',
           \A e \in Envs : e # d => ev'[e] = ev[e],
           \A x \in Calls : pc'[x] \in Holding => pc[x] \in Holding /\ env'[x] = env[x],
           inbox' \subseteq inbox, cbjobs' \subseteq cbjobs
    PROVE  \A e \in Envs : EnvAt(e)'
<1> SUFFICES ASSUME NEW e \in Envs PROVE EnvAt(e)'
  OBVIOUS
<1>1. \A p, x : Holds(p, x, e)' => Holds(p, x, e)
  BY HoldsLess
<1>2. CASE e = d
  <2>1. \A p \in Parties : \A x : Holds(p, x, d) => p = q /\ x = y
    BY <1>2 DEF EnvAt
  <2>2. QED
    BY <1>1, <1>2, <2>1, EnvNone
<1>3. CASE e # d
  BY <1>1, <1>3, EnvKeep
<1>4. QED
  BY <1>2, <1>3

\* A new holder of an envelope of the pool.
LEMMA EnvNew ==
    ASSUME PoolsOK, \A e \in Envs : EnvAt(e), Sound' => Sound, NEW d \in Envs, ~ev[d].ref, NEW q \in Parties, NEW y,
           ev' = NewMsgEnvelope(d, CallOf(q, y)),
           \A e \in Envs : \A p \in Parties : \A x : Holds(p, x, e)' => Holds(p, x, e) \/ (p = q /\ x = y /\ e = d)
    PROVE  \A e \in Envs : EnvAt(e)'
<1> SUFFICES ASSUME NEW e \in Envs PROVE EnvAt(e)'
  OBVIOUS
<1>0. ev \in [Envs -> EnvSet]
  BY DEF PoolsOK, EnvSet
<1>1. CASE e = d
  <2>1. ev'[e].ref /\ ev'[e].call = CallOf(q, y)
    BY <1>0, <1>1 DEF NewMsgEnvelope
  <2>2. \A p \in Parties : \A x : Holds(p, x, e)' => p = q /\ x = y
    BY <1>1, EnvFresh
  <2>3. QED
    BY <2>1, <2>2, EnvOne
<1>2. CASE e # d
  <2>1. ev'[e] = ev[e]
    BY <1>0, <1>2 DEF NewMsgEnvelope
  <2>2. QED
    BY <1>2, <2>1, EnvKeep
<1>3. QED
  BY <1>1, <1>2

\* complete with a callback: the envelope of the callback is a new one.
LEMMA EnvComplete ==
    ASSUME PoolsOK, \A e \in Envs : EnvAt(e), Sound' => Sound, NEW s \in States, NEW r, SetAndComplete(s, r),
           \A x \in Calls : pc'[x] \in Holding => pc[x] \in Holding /\ env'[x] = env[x], inbox' = inbox
    PROVE  \A e \in Envs : EnvAt(e)'
<1>1. CASE UNCHANGED <<ev, cbjobs>>
  BY <1>1, EnvLess
<1>2. CASE ~UNCHANGED <<ev, cbjobs>>
  <2>0. PICK c : c = st[s].call
    OBVIOUS
  <2>1. PICK d \in PooledEnvs : /\ ev' = NewMsgEnvelope(d, c)
                                /\ cbjobs' = cbjobs \cup {[call |-> c, res |-> r, env |-> d]}
    BY <1>2, <2>0 DEF SetAndComplete
  <2>2. d \in Envs /\ ~ev[d].ref
    BY DEF PooledEnvs, Least
  <2> DEFINE u == [call |-> c, res |-> r, env |-> d]
  <2>3. u.env = d /\ u.call = c /\ cbjobs' = cbjobs \cup {u}
    BY <2>1
  <2> HIDE DEF u
  <2>4. "callback" \in Parties /\ CallOf("callback", u) = c
    BY <2>3 DEF Parties, CallOf
  <2>5. \A e \in Envs : \A p \in Parties : \A x : Holds(p, x, e)' => Holds(p, x, e) \/ (p = "callback" /\ x = u /\ e = d)
    BY <2>3 DEF Holds
  <2>6. QED
    BY <2>1, <2>2, <2>4, <2>5, EnvNew
<1>3. QED
  BY <1>1, <1>2

\* A job goes on with its envelope.
LEMMA EnvJob ==
    ASSUME NEW e \in Envs, EnvAt(e), Sound' => Sound, ev'[e] = ev[e], NEW j \in inbox, NEW k, k.call = j.call, k.env = j.env,
           inbox' = (inbox \ {j}) \cup {k},
           k.at = "reply" => k.resp # e,
           \A x \in Calls : pc'[x] \in Holding => pc[x] \in Holding /\ env'[x] = env[x],
           \A x \in cbjobs' : x \in cbjobs \/ x.env # e
    PROVE  EnvAt(e)'
<1>1. CASE j.env = e
  <2>1. "job" \in Parties /\ Holds("job", j, e) /\ CallOf("job", k) = CallOf("job", j)
    BY <1>1 DEF Parties, Holds, CallOf
  <2>2. \A p \in Parties : \A x : Holds(p, x, e) => p = "job" /\ x = j
    BY <2>1 DEF EnvAt
  <2>3. \A p \in Parties : \A x : Holds(p, x, e)' => p = "job" /\ x = k
    <3> SUFFICES ASSUME NEW p \in Parties, NEW x, Holds(p, x, e)' PROVE p = "job" /\ x = k
      OBVIOUS
    <3>1. CASE p = "call"
      <4>1. Holds("call", x, e)
        BY <3>1 DEF Holds
      <4>2. QED
        BY <2>2, <4>1 DEF Parties
    <3>2. CASE p = "job"
      <4>1. CASE x # k
        <5>1. Holds("job", x, e) /\ x # j
          BY <3>2, <4>1 DEF Holds
        <5>2. QED
          BY <2>1, <2>2, <5>1
      <4>2. QED
        BY <3>2, <4>1
    <3>3. CASE p = "reply"
      <4>1. Holds("reply", x, e)
        BY <3>3 DEF Holds
      <4>2. QED
        BY <2>2, <4>1 DEF Parties
    <3>4. CASE p = "callback"
      <4>1. Holds("callback", x, e)
        BY <3>4 DEF Holds
      <4>2. QED
        BY <2>2, <4>1 DEF Parties
    <3>5. QED
      BY <3>1, <3>2, <3>3, <3>4 DEF Parties
  <2>4. ev'[e].ref /\ ev'[e].call = CallOf("job", k)
    BY <2>1 DEF EnvAt
  <2>5. QED
    BY <2>1, <2>3, <2>4, EnvOne
<1>2. CASE j.env # e
  <2>1. \A p \in Parties : \A x : Holds(p, x, e)' => Holds(p, x, e)
    BY <1>2 DEF Holds
  <2>2. QED
    BY <2>1, EnvKeep
<1>3. QED
  BY <1>1, <1>2

\* The flag is never taken back.
LEMMA DoubledBefore ==
    ASSUME Next, ~doubled'
    PROVE  ~doubled
<1>1. ASSUME NEW c \in Calls, \/ NewCall(c) \/ Send(c) \/ Refused(c) \/ AddClosed(c) \/ AddOpen(c) \/ ArmFails(c) \/ Arm(c)
                              \/ BucketAdd(c) \/ DeliverLocal(c) \/ DeliverRemote(c) \/ DeliverRejected(c) \/ SendFails(c)
      PROVE  ~doubled
  BY <1>1 DEF NewCall, Send, Refused, AddClosed, AddOpen, ArmFails, Arm, BucketAdd, DeliverLocal, DeliverRemote, DeliverRejected,
              SendFails, histVars
<1>2. ASSUME NEW c \in Calls, \/ FailRemove(c) \/ FailRelease(c) \/ FailEnvelope(c) \/ WaitReturn(c) \/ Cancel(c) \/ TimerFire(c)
                              \/ TimerDrop(c) \/ TimerTake(c)
      PROVE  ~doubled
  BY <1>2 DEF FailRemove, FailRelease, FailEnvelope, WaitReturn, Cancel, TimerFire, TimerDrop, TimerTake, histVars
<1>3. CASE Finish \/ StopBegin \/ StopScheduler \/ StopClear
  BY <1>3 DEF Finish, StopBegin, StopScheduler, StopClear, histVars
<1>4. ASSUME NEW m, \/ Lose(m) \/ Duplicate(m) \/ KeyForgotten(m) \/ RecvDuplicate(m) \/ RecvRequest(m) \/ RecvReply(m) \/ AcceptRequest(m)
                    \/ RejectRequest(m)
      PROVE  ~doubled
  BY <1>4 DEF Lose, Duplicate, KeyForgotten, RecvDuplicate, RecvRequest, RecvReply, AcceptRequest, RejectRequest, histVars
<1>5. ASSUME NEW j, \/ ExpireJob(j) \/ HandleRequest(j) \/ RespondRemote(j) \/ RespondLocal(j) \/ RespondNobody(j)
                    \/ DeliverResponse(j) \/ ReleaseAgain(j) \/ ReleaseRequest(j) \/ RunCallback(j)
      PROVE  ~doubled
  BY <1>5 DEF ExpireJob, HandleRequest, RespondRemote, RespondLocal, RespondNobody, DeliverResponse, ReleaseAgain, ReleaseRequest,
              RunCallback, histVars
<1>6. QED
  BY <1>1, <1>2, <1>3, <1>4, <1>5 DEF Next, CallStep, RefuseCall, RefuseAsyncCall

\* No job waits for a second release of its reply.
LEMMA AgainStep ==
    ASSUME BaseInv, \A j \in inbox : j.at # "again", Next, ~doubled'
    PROVE  \A j \in inbox' : j.at # "again"
<1> DEFINE Goal == \A j \in inbox' : j.at # "again"
<1>0. ASSUME NEW j \in inbox PROVE j \in ReqSet
  BY DEF BaseInv, TypeOK, ServerOK, ReqSet
<1>1. ASSUME inbox' \subseteq inbox PROVE Goal
  BY <1>1
<1>2. ASSUME NEW c \in Calls, \/ NewCall(c) \/ Send(c) \/ Refused(c) \/ AddClosed(c) \/ AddOpen(c) \/ ArmFails(c) \/ Arm(c)
                              \/ BucketAdd(c) \/ DeliverRemote(c) \/ DeliverRejected(c) \/ SendFails(c)
      PROVE  Goal
  BY <1>1, <1>2 DEF NewCall, Send, Refused, AddClosed, AddOpen, ArmFails, Arm, BucketAdd, DeliverRemote, DeliverRejected,
                    SendFails, srvVars
<1>3. ASSUME NEW c \in Calls, \/ FailRemove(c) \/ FailRelease(c) \/ FailEnvelope(c) \/ WaitReturn(c) \/ Cancel(c) \/ TimerFire(c)
                              \/ TimerDrop(c) \/ TimerTake(c)
      PROVE  Goal
  BY <1>1, <1>3 DEF FailRemove, FailRelease, FailEnvelope, WaitReturn, Cancel, TimerFire, TimerDrop, TimerTake, srvVars
<1>4. CASE Finish \/ StopBegin \/ StopScheduler \/ StopClear
  BY <1>1, <1>4 DEF Finish, StopBegin, StopScheduler, StopClear, srvVars
<1>5. ASSUME NEW m, Lose(m) \/ Duplicate(m) \/ KeyForgotten(m) \/ RecvDuplicate(m) \/ RecvRequest(m) \/ RecvReply(m) \/ RejectRequest(m)
      PROVE  Goal
  BY <1>1, <1>5 DEF Lose, Duplicate, KeyForgotten, RecvDuplicate, RecvRequest, RecvReply, RejectRequest
<1>6. ASSUME NEW j, ExpireJob(j) \/ RespondRemote(j) \/ ReleaseRequest(j) \/ RunCallback(j) PROVE Goal
  BY <1>1, <1>6 DEF ExpireJob, RespondRemote, ReleaseRequest, RunCallback, srvVars
<1>7. ASSUME NEW k, k.at # "again", inbox' \subseteq inbox \cup {k} PROVE Goal
  BY <1>7
<1>8. ASSUME NEW c \in Calls, DeliverLocal(c) PROVE Goal
  <2>1. PICK d : d = env[c]
    OBVIOUS
  <2>2. inbox' = inbox \cup {[call |-> c, env |-> d, at |-> "queued", copy |-> 1, resp |-> NoEnv]}
    BY <1>8, <2>1 DEF DeliverLocal
  <2>3. [call |-> c, env |-> d, at |-> "queued", copy |-> 1, resp |-> NoEnv].at = "queued"
    OBVIOUS
  <2>4. QED
    BY <1>7, <2>2, <2>3
<1>9. ASSUME NEW m \in looking, AcceptRequest(m) PROVE Goal
  <2>1. [call |-> m.call, env |-> NoEnv, at |-> "queued", copy |-> m.copy, resp |-> NoEnv].at = "queued"
    OBVIOUS
  <2>2. QED
    BY <1>7, <1>9, <2>1 DEF AcceptRequest
<1>10. ASSUME NEW j \in inbox, \/ HandleRequest(j) \/ RespondNobody(j) \/ DeliverResponse(j) \/ ReleaseAgain(j) PROVE Goal
  <2>1. PICK a \in {"respond", "release"} : inbox' = (inbox \ {j}) \cup {[j EXCEPT !.at = a]}
    BY <1>10 DEF HandleRequest, RespondNobody, DeliverResponse, ReleaseAgain
  <2>2. [j EXCEPT !.at = a].at = a
    BY <1>0, JobMoves
  <2>3. QED
    BY <1>7, <2>1, <2>2
<1>11. ASSUME NEW j \in inbox, RespondLocal(j) PROVE Goal
  <2>1. PICK e \in PooledEnvs : inbox' = (inbox \ {j}) \cup {[j EXCEPT !.at = "reply", !.resp = e]}
    BY <1>11 DEF RespondLocal
  <2>2. e \in Envs
    BY DEF PooledEnvs, Least
  <2>3. [j EXCEPT !.at = "reply", !.resp = e].at = "reply"
    BY <1>0, <2>2, JobReplies
  <2>4. QED
    BY <1>7, <2>1, <2>3
<1>12. QED
  BY <1>2, <1>3, <1>4, <1>5, <1>6, <1>8, <1>9, <1>10, <1>11 DEF Next, CallStep, RefuseCall, RefuseAsyncCall

LEMMA EnvStep ==
    ASSUME BaseInv, OwnInv, EnvInv, Next
    PROVE  EnvInv'
<1> DEFINE Goal == \A e \in Envs : EnvAt(e)'
<1> SUFFICES ASSUME ~doubled' PROVE Goal
  BY DoubledBefore, AgainStep DEF EnvInv
<1>0. /\ PoolsOK /\ (Sound' => Sound) /\ \A e \in Envs : EnvAt(e)
      /\ \A j \in inbox : j.at # "again"
      /\ pc \in [Calls -> {"idle", "add", "arm", "bucket", "deliver", "wait", "out", "remove", "release", "relenv", "done"}]
      /\ env \in [Calls -> Envs \cup {NoEnv}] /\ ev \in [Envs -> EnvSet] /\ NoEnv \notin Envs
  BY DoubledBefore, SoundBefore, ConstantsAssumption DEF EnvInv, BaseInv, TypeOK, PoolsOK, CallsOK, EnvSet
<1>j. ASSUME NEW j \in inbox PROVE j \in ReqSet /\ j.call \in Calls
  BY DEF BaseInv, TypeOK, ServerOK, ReqSet
<1>p. "call" \in Parties /\ "job" \in Parties /\ "reply" \in Parties /\ "callback" \in Parties
  BY DEF Parties
<1> DEFINE Stay == \A x \in Calls : pc'[x] \in Holding => pc[x] \in Holding /\ env'[x] = env[x]
<1>1. ASSUME Stay, UNCHANGED ev, inbox' \subseteq inbox, cbjobs' \subseteq cbjobs PROVE Goal
  BY <1>0, <1>1, EnvLess
<1>2. ASSUME UNCHANGED <<callVars, ev>>, inbox' \subseteq inbox, cbjobs' \subseteq cbjobs PROVE Goal
  BY <1>1, <1>2 DEF callVars
<1>3. ASSUME NEW c \in Calls, NewCall(c) \/ Send(c) PROVE Goal
  <2>1. PICK d \in PooledEnvs : ev' = NewMsgEnvelope(d, c) /\ env' = [env EXCEPT ![c] = d]
    BY <1>3 DEF NewCall, Send
  <2>2. d \in Envs /\ ~ev[d].ref /\ CallOf("call", c) = c
    BY DEF PooledEnvs, Least, CallOf
  <2>3. UNCHANGED <<inbox, cbjobs>> /\ \A x \in Calls : x # c => pc'[x] = pc[x] /\ env'[x] = env[x]
    BY <1>0, <1>3, <2>1 DEF NewCall, Send, srvVars
  <2>4. env'[c] = d
    BY <1>0, <2>1
  <2>5. \A e \in Envs : \A p \in Parties : \A x : Holds(p, x, e)' => Holds(p, x, e) \/ (p = "call" /\ x = c /\ e = d)
    BY <2>3, <2>4 DEF Holds
  <2>6. QED
    BY <1>0, <1>p, <2>1, <2>2, <2>5, EnvNew
<1>4. ASSUME NEW c \in Calls, \/ Refused(c) \/ AddOpen(c) \/ Arm(c) \/ BucketAdd(c) \/ DeliverRejected(c) \/ FailRemove(c)
                              \/ FailRelease(c) \/ WaitReturn(c) \/ Cancel(c)
      PROVE  Goal
  <2>1. UNCHANGED <<env, ev, inbox, cbjobs>>
    BY <1>4 DEF Refused, AddOpen, Arm, BucketAdd, DeliverRejected, FailRemove, FailRelease, WaitReturn, Cancel, srvVars
  <2>2. \E a : pc' = [pc EXCEPT ![c] = a] /\ (a \in Holding => pc[c] \in Holding)
    <3>1. CASE Refused(c) \/ WaitReturn(c) \/ Cancel(c)
      BY <3>1 DEF Refused, WaitReturn, Cancel, Holding
    <3>2. CASE AddOpen(c) \/ Arm(c) \/ BucketAdd(c) \/ FailRemove(c) \/ FailRelease(c)
      BY <3>2 DEF AddOpen, Arm, BucketAdd, FailRemove, FailRelease, Holding
    <3>3. CASE DeliverRejected(c)
      BY <3>3 DEF DeliverRejected, Undelivered, Holding
    <3>4. QED
      BY <1>4, <3>1, <3>2, <3>3
  <2>3. Stay
    BY <1>0, <2>1, <2>2
  <2>4. QED
    BY <1>1, <2>1, <2>3
<1>5. ASSUME NEW c \in Calls, AddClosed(c) \/ ArmFails(c) PROVE Goal
  <2>1. PICK s, r : s = obj[c] /\ r = Res("closed", c)
    OBVIOUS
  <2>2. /\ SetAndComplete(s, r) /\ UNCHANGED <<env, inbox>> /\ pc[c] \in {"add", "arm"} /\ pc' = [pc EXCEPT ![c] = "deliver"]
    BY <1>5, <2>1 DEF AddClosed, ArmFails, srvVars
  <2>3. Stay
    BY <1>0, <2>2 DEF Holding
  <2>4. s \in States
    BY <2>1, <2>2 DEF BaseInv, ShapeInv
  <2>5. QED
    BY <1>0, <2>2, <2>3, <2>4, EnvComplete
<1>6. ASSUME NEW c \in Calls, DeliverLocal(c) PROVE Goal
  <2>0. PICK d : d = env[c]
    OBVIOUS
  <2> DEFINE k == [call |-> c, env |-> d, at |-> "queued", copy |-> 1, resp |-> NoEnv]
  <2>1. k.call = c /\ k.env = d /\ k.at = "queued"
    OBVIOUS
  <2>2. inbox' = inbox \cup {k} /\ UNCHANGED <<env, ev, cbjobs>> /\ pc[c] = "deliver" /\ Delivered(c)
    BY <1>6, <2>0 DEF DeliverLocal
  <2> HIDE DEF k
  <2>3. pc'[c] \notin Holding /\ \A x \in Calls : x # c => pc'[x] = pc[x]
    BY <1>0, <2>2 DEF Delivered, Holding
  <2>4. Holds("call", c, d)
    BY <2>0, <2>2 DEF Holds, Holding
  <2>5. ASSUME NEW e \in Envs PROVE EnvAt(e)'
    <3>1. CASE e = d
      <4>1. \A p \in Parties : \A x : Holds(p, x, e) => p = "call" /\ x = c
        BY <1>0, <1>p, <2>4, <3>1 DEF EnvAt
      <4>2. ev[e].ref /\ ev[e].call = c
        BY <1>0, <1>p, <2>4, <3>1 DEF EnvAt, CallOf
      <4>3. \A p \in Parties : \A x : Holds(p, x, e)' => p = "job" /\ x = k
        <5> SUFFICES ASSUME NEW p \in Parties, NEW x, Holds(p, x, e)', ~(p = "job" /\ x = k) PROVE FALSE
          OBVIOUS
        <5>1. Holds(p, x, e) /\ ~(p = "call" /\ x = c)
          BY <2>1, <2>2, <2>3 DEF Holds
        <5>2. QED
          BY <4>1, <5>1
      <4>4. CallOf("job", k) = c
        BY <2>1 DEF CallOf
      <4>5. QED
        BY <1>p, <2>2, <4>2, <4>3, <4>4, EnvOne
    <3>2. CASE e # d
      <4>1. \A p \in Parties : \A x : Holds(p, x, e)' => Holds(p, x, e)
        BY <2>1, <2>2, <2>3, <3>2 DEF Holds
      <4>2. QED
        BY <1>0, <2>2, <4>1, EnvKeep
    <3>3. QED
      BY <3>1, <3>2
  <2>6. QED
    BY <2>5
<1>7. ASSUME NEW c \in Calls, DeliverRemote(c) \/ FailEnvelope(c) PROVE Goal
  <2>0. PICK d : d = env[c]
    OBVIOUS
  <2>1. UNCHANGED <<env, inbox, cbjobs>> /\ pc[c] \in {"deliver", "relenv"} /\ ev' = PutEnv(ev, d)
    BY <1>7, <2>0 DEF DeliverRemote, FailEnvelope, srvVars
  <2>2. pc'[c] \notin Holding /\ \A x \in Calls : x # c => pc'[x] = pc[x]
    BY <1>0, <1>7 DEF DeliverRemote, FailEnvelope, Delivered, Holding
  <2>3. Holds("call", c, d) /\ ~Holds("call", c, d)'
    BY <2>0, <2>1, <2>2 DEF Holds, Holding
  <2>4. \A e \in Envs : e # d => ev'[e] = ev[e]
    BY <1>0, <2>1 DEF PutEnv
  <2>5. Stay
    BY <2>1, <2>2
  <2>6. QED
    BY <1>0, <1>p, <2>1, <2>3, <2>4, <2>5, EnvDrop
<1>8. ASSUME NEW c \in Calls, SendFails(c) PROVE Goal
  BY <1>8 DEF SendFails
<1>9. ASSUME NEW c \in Calls, TimerFire(c) \/ TimerDrop(c) \/ TimerTake(c) PROVE Goal
  BY <1>2, <1>9 DEF TimerFire, TimerDrop, TimerTake, srvVars
<1>10. CASE Finish
  <2>1. PICK t \in taken : SetAndComplete(t.obj, t.res)
    BY <1>10 DEF Finish
  <2>2. UNCHANGED <<pc, env, inbox>>
    BY <1>10 DEF Finish, callVars, srvVars
  <2>3. t.obj \in States
    BY DEF BaseInv, TypeOK, MonitorOK
  <2>4. QED
    BY <1>0, <2>1, <2>2, <2>3, EnvComplete
<1>11. CASE StopBegin \/ StopScheduler \/ StopClear
  BY <1>2, <1>11 DEF StopBegin, StopScheduler, StopClear, srvVars
<1>12. ASSUME NEW m, Lose(m) \/ Duplicate(m) \/ KeyForgotten(m) \/ RecvDuplicate(m) \/ RecvRequest(m) \/ RecvReply(m) \/ RejectRequest(m)
       PROVE  Goal
  BY <1>2, <1>12 DEF Lose, Duplicate, KeyForgotten, RecvDuplicate, RecvRequest, RecvReply, RejectRequest
<1>13. ASSUME NEW m \in looking, AcceptRequest(m) PROVE Goal
  <2> DEFINE k == [call |-> m.call, env |-> NoEnv, at |-> "queued", copy |-> m.copy, resp |-> NoEnv]
  <2>1. k.env = NoEnv /\ k.at = "queued" /\ inbox' = inbox \cup {k} /\ UNCHANGED <<pc, env, ev, cbjobs>>
    BY <1>13 DEF AcceptRequest, callVars
  <2> HIDE DEF k
  <2>2. \A e \in Envs : \A p \in Parties : \A x : Holds(p, x, e)' => Holds(p, x, e)
    BY <1>0, <2>1 DEF Holds
  <2>3. QED
    BY <1>0, <2>1, <2>2, EnvKeep
<1>14. ASSUME NEW j \in inbox, ExpireJob(j) \/ ReleaseRequest(j) PROVE Goal
  <2>1. UNCHANGED <<callVars, cbjobs>> /\ inbox' = inbox \ {j} /\ (j.env = NoEnv => UNCHANGED ev)
    BY <1>14 DEF ExpireJob, ReleaseRequest
  <2>2. CASE j.env = NoEnv
    BY <1>2, <2>1, <2>2
  <2>3. CASE j.env # NoEnv
    <3>1. \A e \in Envs : e # j.env => ev'[e] = ev[e]
      BY <1>0, <1>14, <2>3 DEF ExpireJob, ReleaseRequest, PutEnv
    <3>2. Holds("job", j, j.env) /\ ~Holds("job", j, j.env)'
      BY <2>1 DEF Holds
    <3>3. Stay
      BY <2>1 DEF callVars
    <3>4. QED
      BY <1>0, <1>p, <2>1, <3>1, <3>2, <3>3, EnvDrop
  <2>4. QED
    BY <2>2, <2>3
<1>15. ASSUME NEW j \in inbox, HandleRequest(j) \/ RespondNobody(j) PROVE Goal
  <2>1. PICK a \in {"respond", "release"} : inbox' = (inbox \ {j}) \cup {[j EXCEPT !.at = a]}
    BY <1>15 DEF HandleRequest, RespondNobody
  <2>2. UNCHANGED <<pc, env, ev, cbjobs>>
    BY <1>15 DEF HandleRequest, RespondNobody, callVars
  <2> DEFINE k == [j EXCEPT !.at = a]
  <2>3. k.call = j.call /\ k.env = j.env /\ k.at = a /\ inbox' = (inbox \ {j}) \cup {k}
    BY <1>j, <2>1, JobMoves
  <2> HIDE DEF k
  <2>4. QED
    BY <1>0, <2>2, <2>3, EnvJob
<1>16. ASSUME NEW j, RespondRemote(j) PROVE Goal
  BY <1>2, <1>16 DEF RespondRemote
<1>17. ASSUME NEW j \in inbox, RespondLocal(j) PROVE Goal
  <2>1. PICK d \in PooledEnvs : /\ ev' = NewMsgEnvelope(d, j.call)
                                /\ inbox' = (inbox \ {j}) \cup {[j EXCEPT !.at = "reply", !.resp = d]}
    BY <1>17 DEF RespondLocal
  <2>2. d \in Envs /\ ~ev[d].ref
    BY DEF PooledEnvs, Least
  <2>3. UNCHANGED <<pc, env, cbjobs>> /\ j.at = "respond"
    BY <1>17 DEF RespondLocal, callVars
  <2> DEFINE k == [j EXCEPT !.at = "reply", !.resp = d]
  <2>4. k.call = j.call /\ k.env = j.env /\ k.at = "reply" /\ k.resp = d /\ inbox' = (inbox \ {j}) \cup {k}
    BY <1>j, <2>1, <2>2, JobReplies
  <2> HIDE DEF k
  <2>5. ASSUME NEW e \in Envs PROVE EnvAt(e)'
    <3>1. CASE e = d
      <4>1. \A p \in Parties : \A x : ~Holds(p, x, e)
        BY <1>0, <2>2, <3>1, EnvFresh
      <4>2. j.env # e
        BY <1>p, <4>1 DEF Holds
      <4>3. \A p \in Parties : \A x : Holds(p, x, e)' => p = "reply" /\ x = k
        <5> SUFFICES ASSUME NEW p \in Parties, NEW x, Holds(p, x, e)', ~(p = "reply" /\ x = k) PROVE FALSE
          OBVIOUS
        <5>1. Holds(p, x, e)
          BY <2>3, <2>4, <4>2 DEF Holds
        <5>2. QED
          BY <4>1, <5>1
      <4>4. ev'[e].ref /\ ev'[e].call = CallOf("reply", k)
        BY <1>0, <2>1, <2>2, <2>4, <3>1 DEF NewMsgEnvelope, CallOf
      <4>5. QED
        BY <1>p, <4>3, <4>4, EnvOne
    <3>2. CASE e # d
      <4>1. ev'[e] = ev[e]
        BY <1>0, <2>1, <3>2 DEF NewMsgEnvelope
      <4>2. QED
        BY <1>0, <2>3, <2>4, <3>2, <4>1, EnvJob
    <3>3. QED
      BY <3>1, <3>2
  <2>6. QED
    BY <2>5
<1>18. ASSUME NEW j \in inbox, DeliverResponse(j) PROVE Goal
  <2>1. PICK t \in taken :
          /\ t.call = j.call
          /\ \/ /\ cbjobs' = cbjobs \cup {[call |-> st[t.obj].call, res |-> t.res, env |-> j.resp]}
                /\ UNCHANGED ev
             \/ ev' = PutEnv(ev, j.resp) /\ UNCHANGED cbjobs
    BY <1>18 DEF DeliverResponse
  <2>2. inbox' = (inbox \ {j}) \cup {[j EXCEPT !.at = "release"]} /\ UNCHANGED <<pc, env>> /\ j.at = "reply"
    BY <1>18 DEF DeliverResponse, callVars
  <2> DEFINE k == [j EXCEPT !.at = "release"]
  <2>3. k.call = j.call /\ k.env = j.env /\ k.at = "release" /\ inbox' = (inbox \ {j}) \cup {k}
    BY <1>j, <2>2, JobMoves
  <2> HIDE DEF k
  <2>4. Holds("reply", j, j.resp) /\ j.resp \in Envs
    BY <2>2 DEF Holds, BaseInv, JobInv
  <2>5. /\ \A p \in Parties : \A x : Holds(p, x, j.resp) => p = "reply" /\ x = j
        /\ ev[j.resp].ref /\ ev[j.resp].call = j.call
    BY <1>0, <1>p, <2>4 DEF EnvAt, CallOf
  <2>6. j.env # j.resp
    BY <1>p, <2>5 DEF Holds
  <2>7. ASSUME NEW p \in Parties, NEW x, Holds(p, x, j.resp)' PROVE p = "callback" /\ x \notin cbjobs
    <3>1. CASE p = "callback" /\ x \notin cbjobs
      BY <3>1
    <3>2. CASE ~(p = "callback" /\ x \notin cbjobs)
      <4>1. Holds(p, x, j.resp) /\ ~(p = "reply" /\ x = j)
        BY <2>2, <2>3, <2>6, <2>7, <3>2 DEF Holds
      <4>2. QED
        BY <2>5, <4>1
    <3>3. QED
      BY <3>1, <3>2
  <2>8. ASSUME NEW e \in Envs, e # j.resp PROVE EnvAt(e)'
    <3>1. ev'[e] = ev[e]
      BY <1>0, <2>1, <2>8 DEF PutEnv
    <3>2. [call |-> st[t.obj].call, res |-> t.res, env |-> j.resp].env # e
      BY <2>8
    <3>3. \A x \in cbjobs' : x \in cbjobs \/ x.env # e
      BY <2>1, <3>2
    <3>4. QED
      BY <1>0, <2>2, <2>3, <3>1, <3>3, EnvJob
  <2>9. EnvAt(j.resp)'
    <3>1. CASE UNCHANGED cbjobs
      <4>1. \A p \in Parties : \A x : ~Holds(p, x, j.resp)'
        BY <2>7, <3>1 DEF Holds
      <4>2. QED
        BY <2>4, <4>1, EnvNone
    <3>2. CASE ~UNCHANGED cbjobs
      <4>0. PICK c : c = st[t.obj].call
        OBVIOUS
      <4> DEFINE u == [call |-> c, res |-> t.res, env |-> j.resp]
      <4>1. u.call = c /\ u.env = j.resp /\ cbjobs' = cbjobs \cup {u} /\ UNCHANGED ev
        BY <2>1, <3>2, <4>0
      <4> HIDE DEF u
      <4>2. \A p \in Parties : \A x : Holds(p, x, j.resp)' => p = "callback" /\ x = u
        BY <2>7, <4>1 DEF Holds
      <4>3. Sound' => ev'[j.resp].call = CallOf("callback", u)
        <5> SUFFICES ASSUME Sound' PROVE ev'[j.resp].call = u.call
          BY DEF CallOf
        <5>1. t.call \in Calls /\ t.obj = obj[t.call] /\ OwnsOne(t.call) /\ Taken(t.call)
          BY <1>0 DEF BaseInv, TypeOK, MonitorOK, ShapeInv, OwnInv, Taken
        <5>2. st[t.obj].call = t.call
          BY <5>1 DEF OwnsOne, Live, Held
        <5>3. QED
          BY <2>1, <2>5, <4>0, <4>1, <5>2
      <4>4. QED
        BY <1>p, <2>4, <2>5, <4>1, <4>2, <4>3, EnvOne
    <3>3. QED
      BY <3>1, <3>2
  <2>10. QED
    BY <2>8, <2>9
<1>19. ASSUME NEW j \in inbox, ReleaseAgain(j) PROVE Goal
  BY <1>0, <1>19 DEF ReleaseAgain
<1>20. ASSUME NEW j \in cbjobs, RunCallback(j) PROVE Goal
  <2>1. UNCHANGED <<pc, env, inbox>> /\ cbjobs' = cbjobs \ {j} /\ ev' = PutEnv(ev, j.env)
    BY <1>20 DEF RunCallback, srvVars
  <2>2. \A e \in Envs : e # j.env => ev'[e] = ev[e]
    BY <1>0, <2>1 DEF PutEnv
  <2>3. Holds("callback", j, j.env) /\ ~Holds("callback", j, j.env)'
    BY <2>1 DEF Holds
  <2>4. QED
    BY <1>0, <1>p, <2>1, <2>2, <2>3, EnvDrop
<1>21. QED
  BY <1>3, <1>4, <1>5, <1>6, <1>7, <1>8, <1>9, <1>10, <1>11, <1>12, <1>13, <1>14, <1>15, <1>16, <1>17, <1>18, <1>19, <1>20
  DEF Next, CallStep, RefuseCall, RefuseAsyncCall

-----------------------------------------------------------------------------
(* KeyInv: a key is spent once. *)

LEMMA KeyStep ==
    ASSUME BaseInv, BaseInv', KeyInv, Next
    PROVE  KeyInv'
<1>0. /\ net \subseteq MsgSet /\ looking \subseteq MsgSet /\ KeysOK /\ KeysOK'
      /\ scene.dedup \in {"ttl", "lru"} /\ \A c \in Calls : KeyOf(c) \in Keys \cup {NoKey}
  BY SceneFacts DEF BaseInv, TypeOK, CallsOK, ServerOK, MsgSet
<1>1. ASSUME UNCHANGED <<scene, looking, seen, keyVars>> PROVE KeyInv'
  BY <1>1 DEF KeyInv, KeyAt, Looked, KeyOf, kind, keyVars
<1>2. ASSUME NEW m \in net, RecvRequest(m) PROVE KeyInv'
  <2> DEFINE b == KeyOf(m.call)
             p0 == [call |-> m.call, copy |-> m.copy, gen |-> forgotten[b]]
  <2>1. /\ UNCHANGED <<scene, forgotten, ran>> /\ b \notin seen /\ seen \subseteq seen' /\ looking' = looking \cup {m}
        /\ overlap \subseteq overlap' /\ (scene.dedup = "lru" /\ b \in Keys => b \in seen')
        /\ (scene.dedup = "ttl" /\ b \in Keys /\ Looked(b) => b \in overlap')
        /\ passed' = IF b \in Keys THEN passed \cup {p0} ELSE passed
    <3>1. Keyed(m.call) <=> b \in Keys
      BY <1>0, ConstantsAssumption DEF Keyed, MsgSet
    <3>2. QED
      BY <1>2, <3>1 DEF RecvRequest, Looked
  <2>2. m.call \in Calls /\ \A k : Looked(k)' <=> Looked(k) \/ k = b
    <3>1. m.call \in Calls
      BY <1>0 DEF MsgSet
    <3>2. QED
      BY <2>1, <3>1 DEF Looked, KeyOf, kind
  <2>3. \A c : KeyOf(c)' = KeyOf(c)
    BY <2>1 DEF KeyOf, kind
  <2>4. ran' \subseteq passed' /\ \A p \in passed' : KeyOf(p.call)' \in Keys
    BY <2>1, <2>3 DEF KeyInv
  <2>5. ASSUME NEW k \in Keys, k \notin overlap' PROVE KeyAt(k)'
    <3>1. KeyAt(k)
      BY <2>1, <2>5 DEF KeyInv
    <3>2. CASE k # b
      <4>1. \A p \in passed' : KeyOf(p.call) = k => p \in passed
        BY <2>1, <3>2
      <4>2. QED
        BY <2>1, <2>2, <2>3, <3>1, <3>2, <4>1 DEF KeyAt
    <3>3. CASE k = b
      <4>1. \A p \in passed : KeyOf(p.call) = k => p.gen # forgotten[k]
        BY <1>0, <2>1, <2>5, <3>1, <3>3 DEF KeyAt
      <4>2. passed' = passed \cup {p0} /\ p0.gen = forgotten[k] /\ KeyOf(p0.call) = k
        BY <2>1, <3>3
      <4>3. k \in seen' \/ (scene.dedup = "ttl" /\ Looked(k)')
        BY <1>0, <2>1, <2>2, <3>3
      <4>4. forgotten[k] \in Nat
        BY <1>0 DEF KeysOK
      <4> HIDE DEF p0
      <4>5. \A p \in passed', q \in passed' : KeyOf(p.call) = k /\ KeyOf(q.call) = k /\ p.gen = q.gen => p = q
        BY <3>1, <4>1, <4>2 DEF KeyAt
      <4>6. \A p \in passed' : KeyOf(p.call) = k => p.gen <= forgotten[k]
        BY <3>1, <4>2, <4>4 DEF KeyAt
      <4>7. QED
        BY <2>1, <2>3, <4>3, <4>5, <4>6 DEF KeyAt
    <3>4. QED
      BY <3>2, <3>3
  <2>6. QED
    BY <2>4, <2>5 DEF KeyInv
<1>3. ASSUME NEW m \in looking, AcceptRequest(m) \/ RejectRequest(m) PROVE KeyInv'
  <2> DEFINE b == KeyOf(m.call)
  <2>1. UNCHANGED <<scene, keyVars>> /\ StoreKey(m) /\ looking' = looking \ {m}
    BY <1>3 DEF AcceptRequest, RejectRequest, histVars
  <2>2. seen \subseteq seen' /\ (scene.dedup = "ttl" /\ b \in Keys => b \in seen')
    BY <2>1, ConstantsAssumption DEF StoreKey, Keyed
  <2>3. \A k : Looked(k) => Looked(k)' \/ k = b
    BY <2>1 DEF Looked, KeyOf, kind
  <2>4. \A c : KeyOf(c)' = KeyOf(c)
    BY <2>1 DEF KeyOf, kind
  <2>5. UNCHANGED <<scene, overlap, forgotten, passed, ran>>
    BY <2>1 DEF keyVars
  <2> HIDE DEF b
  <2>6. ASSUME NEW k \in Keys, k \notin overlap PROVE KeyAt(k)'
    <3>1. KeyAt(k)
      BY <2>6 DEF KeyInv
    <3>2. k \in seen \/ (scene.dedup = "ttl" /\ Looked(k)) => k \in seen' \/ (scene.dedup = "ttl" /\ Looked(k)')
      BY <2>2, <2>3
    <3>3. QED
      BY <2>4, <2>5, <3>1, <3>2 DEF KeyAt
  <2>7. QED
    BY <2>4, <2>5, <2>6 DEF KeyInv
<1>4. ASSUME NEW b \in Keys, KeyForgotten(b) PROVE KeyInv'
  <2>1. /\ UNCHANGED <<scene, looking, overlap, passed, ran>> /\ seen' = seen \ {b}
        /\ forgotten' = [forgotten EXCEPT ![b] = @ + 1]
    BY <1>4 DEF KeyForgotten
  <2>2. forgotten \in [Keys -> Nat] /\ passed \subseteq [call : Calls, copy : 1..3, gen : Nat]
    BY <1>0 DEF KeysOK
  <2>3. (\A c : KeyOf(c)' = KeyOf(c)) /\ \A k : Looked(k)' = Looked(k)
    BY <2>1 DEF KeyOf, Looked, kind
  <2>4. ASSUME NEW k \in Keys, k \notin overlap PROVE KeyAt(k)'
    <3>1. KeyAt(k)
      BY <2>4 DEF KeyInv
    <3>2. CASE k = b
      <4>1. \A p \in passed : p.gen \in Nat
        BY <2>2
      <4>2. \A p \in passed : KeyOf(p.call) = k => p.gen <= forgotten'[k] /\ p.gen # forgotten'[k]
        BY <2>1, <2>2, <3>1, <3>2, <4>1 DEF KeyAt
      <4>3. QED
        BY <2>1, <2>3, <3>1, <4>2 DEF KeyAt
    <3>3. CASE k # b
      <4>1. forgotten'[k] = forgotten[k] /\ (k \in seen' <=> k \in seen)
        BY <2>1, <2>2, <3>3
      <4>2. QED
        BY <2>1, <2>3, <3>1, <4>1 DEF KeyAt
    <3>4. QED
      BY <3>2, <3>3
  <2>5. QED
    BY <2>1, <2>3, <2>4 DEF KeyInv
<1>5. ASSUME NEW j, HandleRequest(j) PROVE KeyInv'
  <2>1. UNCHANGED <<scene, looking, seen, overlap, forgotten, passed>>
    BY <1>5 DEF HandleRequest
  <2>2. ran' \subseteq passed
    BY <1>5 DEF HandleRequest, KeyInv
  <2>3. QED
    BY <2>1, <2>2 DEF KeyInv, KeyAt, Looked, KeyOf, kind
<1>6. QED
  BY <1>1, <1>2, <1>3, <1>4, <1>5, KeysMove

-----------------------------------------------------------------------------
(* The invariant and the theorems. *)

LEMMA CallInit ==
    ASSUME Init
    PROVE  CallInv
<1>1. TypeOK
  <2>1. NoRes \in Results /\ FreeState \in StateSet /\ FreeEnv \in EnvSet
    BY FreeTypes
  <2>2. CallsOK
    BY <2>1 DEF Init, CallsOK
  <2>3. MonitorOK
    BY DEF Init, MonitorOK
  <2>4. PoolsOK
    BY <2>1 DEF Init, PoolsOK, StateSet, EnvSet
  <2>5. ServerOK
    BY DEF Init, ServerOK
  <2>6. KeysOK
    BY DEF Init, KeysOK
  <2>7. QED
    BY <2>2, <2>3, <2>4, <2>5, <2>6 DEF TypeOK
<1>2. ShapeInv
  BY DEF Init, ShapeInv
<1>3. JobInv
  BY DEF Init, JobInv
<1>4. OwnInv
  <2> SUFFICES ASSUME NEW c \in Calls PROVE OwnsOne(c)
    BY DEF OwnInv
  <2>1. pc[c] = "idle" /\ bucket[c] = NoState /\ runs[c] = 0 /\ taken = {} /\ cbjobs = {}
    BY DEF Init
  <2>2. QED
    BY <2>1 DEF OwnsOne, Quiet, Pending, Taken, Posted, Ran, Open
<1>5. DataInv
  <2>1. \A c \in Calls : DataOf(c) \in Calls
    BY <1>1, SceneFacts DEF TypeOK, CallsOK
  <2>2. \A c \in Calls : data[DataOf(c)] = {}
    BY <2>1 DEF Init
  <2>3. QED
    BY <2>2 DEF Init, DataInv
<1>6. OutcomeInv
  BY FreeTypes DEF Init, OutcomeInv, RetOK, TakenOK, PostedOK, DoneOK
<1>7. EnvInv
  <2>1. \A e, p, x : ~Holds(p, x, e)
    BY DEF Init, Holds, Holding
  <2>2. QED
    BY <2>1 DEF Init, EnvInv, EnvAt
<1>8. KeyInv
  BY DEF Init, KeyInv, KeyAt
<1>9. QED
  BY <1>1, <1>2, <1>3, <1>4, <1>5, <1>6, <1>7, <1>8 DEF CallInv

LEMMA CallStutter ==
    ASSUME CallInv, UNCHANGED vars
    PROVE  CallInv'
<1>0. UNCHANGED <<scene, pc, obj, env, ret, runs, closed, stop, bucket, timer, taken, st, ev, net, inbox, seen, looking, data,
                  answers, execs, cbjobs, raced, early, lost, doubled, overlap, forgotten, passed, ran>>
  BY DEF vars, callVars, monVars, srvVars, histVars, keyVars
<1>1. TypeOK'
  BY <1>0 DEF CallInv, TypeOK, CallsOK, MonitorOK, PoolsOK, ServerOK, KeysOK
<1>2. ShapeInv' /\ JobInv'
  BY <1>0 DEF CallInv, ShapeInv, JobInv, kind
<1>3. OwnInv'
  BY <1>0 DEF CallInv, OwnInv, OwnsOne, Quiet, Pending, Taken, Posted, Ran, Live, Held, Sound, kind
<1>4. \A r, c : Answered(r, c)' = Answered(r, c)
  BY <1>0 DEF Answered, MixedData
<1>5. DataInv'
  BY <1>0 DEF CallInv, DataInv, DataOf, Answered, MixedData
<1>6. OutcomeInv'
  BY <1>0 DEF CallInv, OutcomeInv, RetOK, TakenOK, PostedOK, DoneOK, Answered, MixedData, Sound
<1>7. EnvInv'
  BY <1>0 DEF CallInv, EnvInv, EnvAt, Holds, Sound
<1>8. KeyInv'
  BY <1>0 DEF CallInv, KeyInv, KeyAt, Looked, KeyOf, kind
<1>9. QED
  BY <1>1, <1>2, <1>3, <1>5, <1>6, <1>7, <1>8 DEF CallInv

LEMMA CallStepInv ==
    ASSUME CallInv, Next
    PROVE  CallInv'
<1>1. BaseInv /\ BaseInv'
  BY BaseStep DEF CallInv, BaseInv
<1>2. OwnInv' /\ DataInv' /\ OutcomeInv'
  BY <1>1, OwnStep, DataStep, OutcomeStep DEF CallInv
<1>3. EnvInv' /\ KeyInv'
  BY <1>1, EnvStep, KeyStep DEF CallInv
<1>4. QED
  BY <1>1, <1>2, <1>3 DEF CallInv, BaseInv

LEMMA CallInvariant == Spec => []CallInv
<1>1. CallInv /\ [Next]_vars => CallInv'
  BY CallStepInv, CallStutter
<1>2. QED
  BY <1>1, CallInit, PTL DEF Spec

LEMMA InvOwned ==
    ASSUME CallInv
    PROVE  ObjectsOwned
<1>1. StateOwned
  <2> SUFFICES ASSUME Sound PROVE /\ \A c \in Calls : bucket[c] # NoState => st[bucket[c]].ref /\ st[bucket[c]].call = c
                                  /\ \A t \in taken : st[t.obj].ref /\ st[t.obj].call = t.call
                                  /\ \A c \in Calls : pc[c] = "wait" => st[obj[c]].ref /\ st[obj[c]].call = c
    BY DEF StateOwned
  <2>1. \A c \in Calls : OwnsOne(c)
    BY DEF CallInv, OwnInv
  <2>2. ASSUME NEW c \in Calls, bucket[c] # NoState PROVE st[bucket[c]].ref /\ st[bucket[c]].call = c
    BY <2>1, <2>2 DEF OwnsOne, Pending, Live, Held, CallInv, ShapeInv
  <2>3. ASSUME NEW t \in taken PROVE st[t.obj].ref /\ st[t.obj].call = t.call
    <3>1. t.call \in Calls /\ t.obj = obj[t.call] /\ Taken(t.call)
      BY DEF CallInv, TypeOK, MonitorOK, ShapeInv, Taken
    <3>2. QED
      BY <2>1, <3>1 DEF OwnsOne, Live, Held
  <2>4. ASSUME NEW c \in Calls, pc[c] = "wait" PROVE st[obj[c]].ref /\ st[obj[c]].call = c
    <3>1. ~kind[c].async /\ scene.mode # "send"
      BY <2>4 DEF CallInv, ShapeInv
    <3>2. QED
      BY <2>1, <2>4, <3>1 DEF OwnsOne, Open, Held
  <2>5. QED
    BY <2>2, <2>3, <2>4
<1>2. EnvelopeOwned
  <2> SUFFICES ASSUME ~doubled
               PROVE  /\ \A j \in inbox : j.env # NoEnv => ev[j.env] = [ref |-> TRUE, call |-> j.call]
                      /\ \A j \in cbjobs : ev[j.env].ref /\ (Sound => ev[j.env].call = j.call)
                      /\ \A c \in Calls : pc[c] \in {"add", "arm", "bucket", "deliver"} => ev[env[c]] = [ref |-> TRUE, call |-> c]
    BY DEF EnvelopeOwned
  <2>1. \A e \in Envs : EnvAt(e) /\ ev[e] \in EnvSet
    BY DEF CallInv, EnvInv, TypeOK, PoolsOK, EnvSet
  <2>2. ASSUME NEW e \in Envs, NEW c, ev[e].ref, ev[e].call = c PROVE ev[e] = [ref |-> TRUE, call |-> c]
    BY <2>1, <2>2 DEF EnvSet
  <2>3. ASSUME NEW j \in inbox, j.env # NoEnv PROVE ev[j.env] = [ref |-> TRUE, call |-> j.call]
    <3>1. j.env \in Envs
      BY <2>3 DEF CallInv, TypeOK, ServerOK
    <3>2. Holds("job", j, j.env) /\ CallOf("job", j) = j.call /\ "job" \in Parties
      BY DEF Holds, CallOf, Parties
    <3>3. ev[j.env].ref /\ ev[j.env].call = j.call
      BY <2>1, <3>1, <3>2 DEF EnvAt
    <3>4. QED
      BY <2>2, <3>1, <3>3
  <2>4. ASSUME NEW j \in cbjobs PROVE ev[j.env].ref /\ (Sound => ev[j.env].call = j.call)
    <3>1. j.env \in Envs
      BY DEF CallInv, TypeOK, PoolsOK
    <3>2. Holds("callback", j, j.env) /\ CallOf("callback", j) = j.call /\ "callback" \in Parties
      BY DEF Holds, CallOf, Parties
    <3>3. QED
      BY <2>1, <3>1, <3>2 DEF EnvAt
  <2>5. ASSUME NEW c \in Calls, pc[c] \in {"add", "arm", "bucket", "deliver"} PROVE ev[env[c]] = [ref |-> TRUE, call |-> c]
    <3>1. env[c] \in Envs
      BY <2>5 DEF CallInv, ShapeInv
    <3>2. Holds("call", c, env[c]) /\ CallOf("call", c) = c /\ "call" \in Parties
      BY <2>5 DEF Holds, CallOf, Parties, Holding
    <3>3. ev[env[c]].ref /\ ev[env[c]].call = c
      BY <2>1, <3>1, <3>2 DEF EnvAt
    <3>4. QED
      BY <2>2, <3>1, <3>3
  <2>6. QED
    BY <2>3, <2>4, <2>5
<1>3. QED
  BY <1>1, <1>2 DEF ObjectsOwned, CallInv

LEMMA InvOutcome ==
    ASSUME CallInv
    PROVE  OutcomeOwned
<1>1. OwnOutcome
  BY DEF CallInv, OutcomeInv, RetOK, Answered, OwnOutcome
<1>2. CallbackOnce
  <2> SUFFICES ASSUME Sound, NEW c \in Calls
               PROVE  /\ runs[c] + Cardinality({j \in cbjobs : j.call = c}) <= 1
                      /\ kind[c].async /\ pc[c] = "done" => runs[c] = 0 /\ (\A j \in cbjobs : j.call # c) /\ \A t \in taken : t.call # c
    BY DEF CallbackOnce
  <2>1. OwnsOne(c) /\ runs[c] \in Nat
    BY DEF CallInv, OwnInv, TypeOK, CallsOK
  <2> DEFINE S == {j \in cbjobs : j.call = c}
  <2>2. CASE Posted(c)
    <3>1. PICK j \in cbjobs : j.call = c
      BY <2>2 DEF Posted
    <3>2. S = {j}
      BY <2>1, <3>1 DEF OwnsOne
    <3>3. Cardinality(S) = 1
      BY <3>2, FS_Singleton
    <3>4. runs[c] = 0
      BY <2>1, <2>2 DEF OwnsOne, Ran
    <3>5. pc[c] # "done"
      BY <2>1, <2>2 DEF OwnsOne, Quiet, Open
    <3>6. QED
      BY <3>3, <3>4, <3>5
  <2>3. CASE ~Posted(c)
    <3>1. S = {}
      BY <2>3 DEF Posted
    <3>2. Cardinality(S) = 0
      BY <3>1, FS_EmptySet
    <3>3. runs[c] \in {0, 1}
      BY <2>1 DEF OwnsOne, Ran
    <3>4. pc[c] = "done" => runs[c] = 0 /\ (\A j \in cbjobs : j.call # c) /\ \A t \in taken : t.call # c
      BY <2>1 DEF OwnsOne, Quiet, Open, Ran, Posted, Taken
    <3>5. QED
      BY <3>2, <3>3, <3>4
  <2>4. QED
    BY <2>2, <2>3
<1>3. QED
  BY <1>1, <1>2 DEF OutcomeOwned

LEMMA InvKey ==
    ASSUME CallInv
    PROVE  KeySpentOnce
<1> SUFFICES ASSUME NEW p \in ran, NEW q \in ran, KeyOf(p.call) = KeyOf(q.call), p.gen = q.gen, KeyOf(p.call) \notin overlap
             PROVE  p = q
  BY DEF KeySpentOnce
<1>1. p \in passed /\ q \in passed /\ KeyAt(KeyOf(p.call))
  BY DEF CallInv, KeyInv
<1>2. QED
  BY <1>1 DEF KeyAt

\* Whatever the order in which replies, timeouts, cancellations and delivery errors come, a CallState
\* that is pending, being completed or waited for is that call's own, and an envelope that a call, a
\* mailbox or a reply holds is not back in the pool (RpcMonitor, CallState, MsgEnvelope).
THEOREM ObjectsOwnedHolds == Spec => []ObjectsOwned
  BY CallInvariant, InvOwned, PTL

\* A call returns, or its callback is given, its own timeout or failure or an answer the method
\* computed for it, and a callback runs at most once and never after a cancellation.
THEOREM OutcomeOwnedHolds == Spec => []OutcomeOwned
  BY CallInvariant, InvOutcome, PTL

\* However often the transport delivers the requests that carry a key, a node executes one of them each
\* time the deduplicator has forgotten the key, unless two TTL lookups of it overlapped (SeenKey).
THEOREM KeySpentOnceHolds == Spec => []KeySpentOnce
  BY CallInvariant, InvKey, PTL
=============================================================================
