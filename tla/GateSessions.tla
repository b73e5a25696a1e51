----------------------------- MODULE GateSessions -----------------------------
(***************************************************************************)
(* The sessions of a gate's WebSocket users: a table of sessions, the      *)
(* session of each user, a goroutine that sends what is queued for a       *)
(* session and one that reads from its connection. Sockets and users are   *)
(* external.                                                               *)
(***************************************************************************)
EXTENDS Naturals, Sequences, FiniteSets, SequencesExt

CONSTANTS
    Users,          \* user ids
    LockOf,         \* the shard of shareLocks a user id falls into
    Sessions,       \* 1..n: the sessions of a behaviour, in the order of genSessionID
    MaxPushes,      \* bound: messages sent to users
    MaxKicks,       \* bound: kicks and messages over the rate or not readable
    MaxHangUps      \* bound: connections users break

NoUser == "nobody"

ASSUME GateAssumption ==
    /\ IsFiniteSet(Sessions) /\ Sessions = 1..Cardinality(Sessions)
    /\ DOMAIN LockOf = Users /\ NoUser \notin Users

VARIABLES
    userOf,      \* the user of a session, or NoUser
    sessions,    \* WebSocketManager.sessions
    uidMap,      \* a user's session, or 0
    held,        \* the shard locks closeSession holds
    binder,      \* the goroutine of Bind: "none", "connect", "close", "start", "end"
    closer,      \* closeSession of a session by one of Closers: "none", "want", "wait", "end"
    closedFlag,  \* the sessions with closed set
    sender,      \* the sending goroutine: "none", "run", "send", "drain", "drainSend", "done"
    listener,    \* the reading goroutine: "none", "run", "end"
    sendQueue,   \* msgCh
    conn,        \* the connection: "open", "cut", "closed"
    rpc,         \* the session an RPC of the gate looked up, or 0
    sentTo,      \* history: messages sent on an open connection
    due,         \* history: messages the session owes its user: queued before it was closed with its sender started
    gateDown,    \* two writers met on a connection: gorilla/websocket panics
    pushes, kicks, hangUps

sessTables == <<userOf, sessions, uidMap, held, binder, closer, closedFlag>>
ioVars == <<sender, listener, sendQueue, conn, rpc, sentTo, due, gateDown>>
sessBounds == <<pushes, kicks, hangUps>>
sessVars == <<sessTables, ioVars, sessBounds>>

Closers == {"bind", "kick", "limit", "listen"}

SessInit ==
    /\ userOf = [s \in Sessions |-> NoUser] /\ sessions = {} /\ uidMap = [u \in Users |-> 0] /\ held = {}
    /\ binder = [s \in Sessions |-> "none"] /\ closer = [s \in Sessions |-> [w \in Closers |-> "none"]]
    /\ closedFlag = {} /\ sender = [s \in Sessions |-> "none"] /\ listener = [s \in Sessions |-> "none"]
    /\ sendQueue = [s \in Sessions |-> <<>>] /\ conn = [s \in Sessions |-> "open"] /\ rpc = 0
    /\ sentTo = [s \in Sessions |-> {}] /\ due = [s \in Sessions |-> {}] /\ gateDown = FALSE
    /\ pushes = 0 /\ kicks = 0 /\ hangUps = 0

(***************************************************************************)
(* The session table. Bind and closeSession hold the user's lock.          *)
(***************************************************************************)
Want(s, w) == [closer EXCEPT ![s][w] = IF @ = "none" THEN "want" ELSE @]

\* A user's connection: the session it had is kicked by a goroutine, the new one takes its place.
Bind(s, u) ==
    /\ userOf[s] = NoUser /\ (\A r \in Sessions : r < s => userOf[r] # NoUser) /\ LockOf[u] \notin held
    /\ closer' = IF uidMap[u] = 0 THEN closer ELSE Want(uidMap[u], "kick")
    /\ userOf' = [userOf EXCEPT ![s] = u] /\ sessions' = sessions \union {s} /\ uidMap' = [uidMap EXCEPT ![u] = s]
    /\ binder' = [binder EXCEPT ![s] = "connect"]
    /\ UNCHANGED <<held, closedFlag, ioVars, sessBounds>>

\* OnConnect; its failure closes the session before its goroutines start.
Connected(s, ok) ==
    /\ binder[s] = "connect" /\ binder' = [binder EXCEPT ![s] = IF ok THEN "start" ELSE "close"]
    /\ closer' = IF ok THEN closer ELSE Want(s, "bind")
    /\ UNCHANGED <<userOf, sessions, uidMap, held, closedFlag, ioVars, sessBounds>>

StartSession(s) ==
    /\ binder[s] = "start" \/ (binder[s] = "close" /\ closer[s]["bind"] = "end")
    /\ binder' = [binder EXCEPT ![s] = "end"]
    /\ sender' = [sender EXCEPT ![s] = "run"] /\ listener' = [listener EXCEPT ![s] = "run"]
    /\ UNCHANGED <<userOf, sessions, uidMap, held, closer, closedFlag, sendQueue, conn, rpc, sentTo, due, gateDown, sessBounds>>

\* Mutant: the user's entry goes although a newer session holds it.
DeleteEntry(s) == [uidMap EXCEPT ![userOf[s]] = 0]

\* uidMap.CompareAndDelete
DropEntry(s) == [uidMap EXCEPT ![userOf[s]] = IF @ = s THEN 0 ELSE @]

MarkClosed(s) == closedFlag \union {s}

\* closeSession: the first caller takes the session out and waits for its sender with the lock held.
CloseSession(s, w) ==
    /\ closer[s][w] = "want" /\ LockOf[userOf[s]] \notin held
    /\ IF s \notin sessions
       THEN /\ closer' = [closer EXCEPT ![s][w] = "end"] /\ UNCHANGED <<sessions, uidMap, held, closedFlag>>
       ELSE /\ sessions' = sessions \ {s} /\ uidMap' = DropEntry(s)
            /\ closedFlag' = MarkClosed(s) /\ held' = held \union {LockOf[userOf[s]]}
            /\ closer' = [closer EXCEPT ![s][w] = "wait"]
    /\ due' = [due EXCEPT ![s] = IF s \in sessions /\ sender[s] = "none" THEN {} ELSE @]
    /\ UNCHANGED <<userOf, binder, sender, listener, sendQueue, conn, rpc, sentTo, gateDown, sessBounds>>

\* session.Close waits for the goroutine StartSender counted.
SenderGone(s) == sender[s] \in {"none", "done"}

CloseEnds(s, w) ==
    /\ closer[s][w] = "wait" /\ SenderGone(s)
    /\ conn' = [conn EXCEPT ![s] = "closed"] /\ held' = held \ {LockOf[userOf[s]]}
    /\ closer' = [closer EXCEPT ![s][w] = "end"]
    /\ UNCHANGED <<userOf, sessions, uidMap, binder, closedFlag, sender, listener, sendQueue, rpc, sentTo, due, gateDown, sessBounds>>

CountKick == kicks < MaxKicks /\ kicks' = kicks + 1

\* Kick; RpcKick and the goroutine of Bind call it.
Kick(s) ==
    /\ s \in sessions /\ CountKick /\ closer[s]["kick"] = "none" /\ closer' = Want(s, "kick")
    /\ UNCHANGED <<userOf, sessions, uidMap, held, binder, closedFlag, ioVars, pushes, hangUps>>

KickByUid(u) ==
    /\ uidMap[u] \in sessions /\ CountKick /\ closer[uidMap[u]]["kick"] = "none" /\ closer' = Want(uidMap[u], "kick")
    /\ UNCHANGED <<userOf, sessions, uidMap, held, binder, closedFlag, ioVars, pushes, hangUps>>

\* OnMessage: a message over the rate or without a header has its session kicked.
OnMessage(s) ==
    /\ listener[s] = "run" /\ conn[s] = "open" /\ s \in sessions /\ s \notin closedFlag
    /\ CountKick /\ closer' = Want(s, "limit")
    /\ UNCHANGED <<userOf, sessions, uidMap, held, binder, closedFlag, ioVars, pushes, hangUps>>

\* listen: the loop ends on the flag or on a failed read, and closes the session.
ListenEnds(s) ==
    /\ listener[s] = "run" /\ (s \in closedFlag \/ conn[s] # "open") /\ closer[s]["limit"] \in {"none", "end"}
    /\ listener' = [listener EXCEPT ![s] = "end"] /\ closer' = Want(s, "listen")
    /\ UNCHANGED <<userOf, sessions, uidMap, held, binder, closedFlag, sender, sendQueue, conn, rpc, sentTo, due, gateDown, sessBounds>>

(***************************************************************************)
(* Sending.                                                                *)
(***************************************************************************)
\* RpcSendMsgToClientBySessionId and ByUid look the session up, then queue the message.
RpcLookup(s) ==
    /\ rpc = 0 /\ s \in sessions /\ pushes < MaxPushes /\ rpc' = s
    /\ UNCHANGED <<sessTables, sender, listener, sendQueue, conn, sentTo, due, gateDown, sessBounds>>

GateSend ==
    /\ rpc # 0 /\ rpc' = 0 /\ pushes' = pushes + 1
    /\ sendQueue' = [sendQueue EXCEPT ![rpc] = Append(@, pushes')]
    /\ due' = [due EXCEPT ![rpc] = IF rpc \in closedFlag \/ conn[rpc] # "open" THEN @ ELSE @ \union {pushes'}]
    /\ UNCHANGED <<sessTables, sender, listener, conn, sentTo, gateDown, kicks, hangUps>>

\* Broadcast writes on the connection itself: the two writers of a connection must not meet.
Broadcast(s) ==
    /\ s \in sessions /\ pushes < MaxPushes /\ pushes' = pushes + 1
    /\ gateDown' = (sender[s] \in {"send", "drainSend"} /\ conn[s] = "open")
    /\ UNCHANGED <<sessTables, sender, listener, sendQueue, conn, rpc, sentTo, due, kicks, hangUps>>

SenderStep(s, from, to) == sender[s] = from /\ sender' = [sender EXCEPT ![s] = to]
SenderRest(s) == UNCHANGED <<sessTables, listener, conn, rpc, due, gateDown, sessBounds>>

SenderPops(s) ==
    /\ sendQueue[s] # <<>> /\ UNCHANGED <<sendQueue, sentTo>> /\ SenderRest(s)
    /\ (s \notin closedFlag /\ SenderStep(s, "run", "send")) \/ SenderStep(s, "drain", "drainSend")

SenderLeavesLoop(s) ==
    /\ s \in closedFlag /\ SenderStep(s, "run", "drain") /\ UNCHANGED <<sendQueue, sentTo>> /\ SenderRest(s)

\* A failed send is logged; the last loop ends with it.
SenderSends(s) ==
    /\ sender[s] \in {"send", "drainSend"} /\ sendQueue' = [sendQueue EXCEPT ![s] = Tail(@)]
    /\ sentTo' = [sentTo EXCEPT ![s] = IF conn[s] = "open" THEN @ \union {Head(sendQueue[s])} ELSE @]
    /\ SenderStep(s, "send", "run") \/ SenderStep(s, "drainSend", IF conn[s] = "open" THEN "drain" ELSE "done")
    /\ SenderRest(s)

SenderDone(s) ==
    /\ sendQueue[s] = <<>> /\ SenderStep(s, "drain", "done") /\ UNCHANGED <<sendQueue, sentTo>> /\ SenderRest(s)

\* A user breaks the connection. External.
HangUp(s) ==
    /\ userOf[s] # NoUser /\ conn[s] = "open" /\ hangUps < MaxHangUps /\ hangUps' = hangUps + 1
    /\ conn' = [conn EXCEPT ![s] = "cut"] /\ due' = [due EXCEPT ![s] = {}]
    /\ UNCHANGED <<sessTables, sender, listener, sendQueue, rpc, sentTo, gateDown, pushes, kicks>>

SessionStep(s) ==
    \/ StartSession(s) \/ (\E ok \in BOOLEAN : Connected(s, ok)) \/ ListenEnds(s)
    \/ SenderPops(s) \/ SenderLeavesLoop(s) \/ SenderSends(s) \/ SenderDone(s)

SessNext ==
    /\ ~gateDown
    /\ \/ GateSend
       \/ \E u \in Users : KickByUid(u) \/ \E s \in Sessions : Bind(s, u)
       \/ \E s \in Sessions :
             \/ Kick(s) \/ OnMessage(s) \/ RpcLookup(s) \/ Broadcast(s) \/ HangUp(s) \/ SessionStep(s)
             \/ \E w \in Closers : CloseSession(s, w) \/ CloseEnds(s, w)

\* WriteMessage has no deadline and ReadMessage neither: on a connection that stays open a write
\* need not return if the user does not read, nor a read if the user does not send.
SenderRuns(s) ==
    SenderPops(s) \/ SenderLeavesLoop(s) \/ (conn[s] # "open" /\ SenderSends(s)) \/ SenderDone(s)
ListenerRuns(s) == conn[s] # "open" /\ ListenEnds(s)

\* Goroutines go on, and a mutex that is free again and again is granted in the end.
SessFairness ==
    /\ \A s \in Sessions :
          /\ WF_sessVars(~gateDown /\ (StartSession(s) \/ \E ok \in BOOLEAN : Connected(s, ok)))
          /\ WF_sessVars(~gateDown /\ ListenerRuns(s))
          /\ WF_sessVars(~gateDown /\ SenderRuns(s))
          /\ WF_sessVars(~gateDown /\ \E w \in Closers : CloseSession(s, w) \/ CloseEnds(s, w))

SessSpec == SessInit /\ [][SessNext]_sessVars /\ SessFairness

(***************************************************************************)
(* Properties.                                                             *)
(***************************************************************************)
\* Whenever nobody is closing a session of a user, the table holds at most the user's newest one,
\* and uidMap finds it: a kick of an old session never takes the new one's entry (Bind,
\* closeSession).
UserSessionExact ==
    \A u \in Users :
        (\A s \in Sessions : userOf[s] = u => \A w \in Closers : closer[s][w] \in {"none", "end"})
            => {s \in sessions : userOf[s] = u} = {uidMap[u]} \ {0}

\* What was queued before a session was closed is sent before its connection is: closeSession waits
\* for the sender, which drains the queue. A session closed before its sender started, or broken
\* by its user, loses it (BaseSession.Close, StartSender, closeSession).
SentBeforeClose ==
    \A s \in Sessions : (conn[s] = "closed" /\ sender[s] = "done") => due[s] \subseteq sentTo[s]

\* The gate's tables hold a user's newest session only, and a session that is closed has sent
\* what was queued for it (SessionMgr, BaseSession).
SessionsSound == UserSessionExact /\ SentBeforeClose

\* A user of the shard of s does not read what is being sent to it.
HeldUp(s) ==
    \E r \in Sessions :
        sender[r] \in {"send", "drainSend"} /\ conn[r] = "open" /\ LockOf[userOf[r]] = LockOf[userOf[s]]

\* A session taken out of the table ends: its goroutines return, its connection is closed and its
\* user's lock is free again (closeSession, Close, StartSender, listen).  A user that does not read
\* what it is sent holds up its own session and, with the lock of its shard, those of others.
SessionsEnd ==
    <>[](\/ gateDown
         \/ \A s \in Sessions : userOf[s] # NoUser /\ s \notin sessions =>
               \/ HeldUp(s)
               \/ /\ conn[s] = "closed" /\ sender[s] = "done" /\ listener[s] = "end"
                  /\ LockOf[userOf[s]] \notin held)
=============================================================================
