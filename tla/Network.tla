------------------------------- MODULE Network -------------------------------
(***************************************************************************)
(* The connections of utils/network: a TCP, WebSocket or KCP server that   *)
(* accepts connections and runs an agent on each, or a client that dials   *)
(* them again and again, until Close. A connection (NetConn, WSConn) has a *)
(* bounded channel of messages and a goroutine that writes them; Close     *)
(* queues a nil behind them, Destroy closes the socket and the channel.    *)
(*                                                                         *)
(* The sockets, the peers and the agents are external: an agent writes,    *)
(* closes and destroys as it likes, and its Run returns at the latest when *)
(* its socket fails.                                                       *)
(***************************************************************************)
EXTENDS Integers, Sequences, FiniteSets, SequencesExt, FiniteSetsExt

CONSTANTS
    NetConns,        \* 1..n: the connections of a behaviour, in the order they come
    Slots,           \* the goroutines of a client: ConnNum of them
    NetMsgs,         \* messages
    LenOf,           \* the length of a message
    MaxConnNum, Pendings, \* MaxConnNum and PendingWriteNum as configured
    LenMsgLen, MinMsgLen, MaxMsgLen, \* as configured
    MaxNetCalls,     \* bound: calls of Write, WriteMsg, Close and Destroy by agents
    MaxCuts          \* bound: connections the peer breaks, and writes that fail

ASSUME NetworkAssumption ==
    /\ IsFiniteSet(NetConns) /\ NetConns = 1..Cardinality(NetConns)
    /\ MaxConnNum \in Nat \ {0} /\ Pendings \subseteq Nat
    /\ LenMsgLen \in {1, 2, 4} /\ MinMsgLen \in Nat /\ MaxMsgLen \in Nat /\ LenOf \in [NetMsgs -> Nat]
    /\ MaxNetCalls \in Nat /\ MaxCuts \in Nat

VARIABLES
    netKind,    \* "tcp", "ws" or "kcp"
    netSide,    \* "server" or "client"
    reconnect,  \* AutoReconnect of a client
    limits,     \* what init made of the configuration: connections, capacity of writeChan, MaxMsgLen
    netState,   \* "run", then the step of Close: "listener" (ln is closed), "wait", "closed"
    connSet,    \* conns, cons: the connections listed; nil from "wait" on
    wg,         \* the connections the WaitGroup of a server counts
    sock,       \* a socket: "none", "open", "cut" by the peer, "closed"
    chan,       \* writeChan; Nil ends it
    shut,       \* the connections whose writeChan is closed
    closeFlag,  \* the connections with closeFlag set
    writer,     \* the writing goroutine: "none", "recv", "write", "shut", "sweep", "end"
    agent,      \* the goroutine of the connection: its next step
    dialer,     \* a slot of a client: its connection, Dialing, Done or Panicked
    queued,     \* history: the messages queued, by their number
    wire,       \* history: the queued messages taken and written
    broken,     \* history: the connections broken by a peer, a passed deadline, Destroy or Close of the whole
    framing,    \* calls of WriteMsg that have found the connection not closed, with their message
    framed,     \* history: the messages WriteMsg framed and wrote itself
    netCalls, cuts

confVars == <<netKind, netSide, reconnect, limits>>
chanVars == <<chan, shut, closeFlag, queued>>
sockVars == <<sock, broken>>
agentVars == <<netState, connSet, wg, agent, dialer>>
frameVars == <<framing, framed>>
netVars == <<confVars, agentVars, sockVars, chanVars, writer, wire, frameVars, netCalls, cuts>>

Nil == 0
Dialing == 0
Done == -1
Panicked == -2
NetServer == netSide = "server"
KCPServer == netKind = "kcp" /\ NetServer

(***************************************************************************)
(* What an endpoint makes of its configuration c.                          *)
(***************************************************************************)
OrDefault(value, default) == IF value <= 0 THEN default ELSE value

\* getMaxMsgLen, and what LenMsgLen bytes hold of a length
LargestLen ==
    CASE LenMsgLen = 1 -> 255 [] LenMsgLen = 2 -> 65535 [] LenMsgLen = 4 -> 65536 * 65536 - 1
Header(len) == len % (LargestLen + 1)

TCPServerInit(c) ==
    [conns |-> OrDefault(c.conns, 1000000), pending |-> OrDefault(c.pending, 100000),
     maxLen |-> Min({OrDefault(c.maxLen, 65535), LargestLen})]

TCPClientInit(c) ==
    [conns |-> Cardinality(Slots), pending |-> OrDefault(c.pending, 1000),
     maxLen |-> Min({OrDefault(c.maxLen, 65535), LargestLen})]

KCPClientInit(c) ==
    [conns |-> Cardinality(Slots), pending |-> OrDefault(c.pending, 1000),
     maxLen |-> Min({OrDefault(c.maxLen, 65535), LargestLen})]

\* KCPServer corrects neither PendingWriteNum nor MaxMsgLen.
KCPServerInit(c) ==
    [conns |-> IF c.conns = 0 THEN 20000 ELSE c.conns, pending |-> c.pending, maxLen |-> c.maxLen]

WSServerStart(c) ==
    [conns |-> OrDefault(c.conns, 100), pending |-> OrDefault(c.pending, 100), maxLen |-> OrDefault(c.maxLen, 4096)]

WSClientInit(c) ==
    [conns |-> Cardinality(Slots), pending |-> OrDefault(c.pending, 100), maxLen |-> OrDefault(c.maxLen, 4096)]

Limits(kind, side, c) ==
    CASE kind = "tcp" -> IF side = "server" THEN TCPServerInit(c) ELSE TCPClientInit(c)
      [] kind = "kcp" -> IF side = "server" THEN KCPServerInit(c) ELSE KCPClientInit(c)
      [] kind = "ws"  -> IF side = "server" THEN WSServerStart(c) ELSE WSClientInit(c)

NetInit ==
    /\ netKind \in {"tcp", "ws", "kcp"} /\ netSide \in {"server", "client"}
    /\ reconnect \in (IF netSide = "client" THEN BOOLEAN ELSE {FALSE})
    /\ \E p \in Pendings : limits = Limits(netKind, netSide, [conns |-> MaxConnNum, pending |-> p, maxLen |-> MaxMsgLen])
    /\ netState = "run" /\ connSet = {} /\ wg = {}
    /\ sock = [c \in NetConns |-> "none"] /\ broken = {}
    /\ chan = [c \in NetConns |-> <<>>] /\ shut = {} /\ closeFlag = {}
    /\ queued = [c \in NetConns |-> <<>>] /\ wire = [c \in NetConns |-> <<>>]
    /\ writer = [c \in NetConns |-> "none"] /\ agent = [c \in NetConns |-> "none"]
    /\ dialer = [s \in Slots |-> Dialing]
    /\ framing = {} /\ framed = {} /\ netCalls = 0 /\ cuts = 0

(***************************************************************************)
(* A connection. Its lock covers Write, Close, Destroy and the sweep.      *)
(***************************************************************************)
\* Mutant: the channel is left open, so the writer waits on it for ever.
DestroyKeepsChan(c) ==
    /\ sock' = [sock EXCEPT ![c] = "closed"] /\ broken' = broken \union {c}
    /\ closeFlag' = closeFlag \union {c} /\ UNCHANGED <<chan, shut, queued>>

doDestroy(c) ==
    /\ sock' = [sock EXCEPT ![c] = "closed"] /\ broken' = broken \union {c}
    /\ shut' = IF c \in closeFlag THEN shut ELSE shut \union {c}
    /\ closeFlag' = closeFlag \union {c} /\ UNCHANGED <<chan, queued>>

CountCall == netCalls < MaxNetCalls /\ netCalls' = netCalls + 1

Full(c) == Len(chan[c]) = limits.pending

Destroy(c) ==
    /\ writer[c] # "none" /\ (sock[c] # "closed" \/ c \notin closeFlag)
    /\ CountCall /\ doDestroy(c) /\ UNCHANGED <<confVars, agentVars, writer, wire, frameVars, cuts>>

\* Mutant: the socket goes before the messages that are queued.
CloseAtOnce(c) ==
    /\ sock' = [sock EXCEPT ![c] = "closed"] /\ closeFlag' = closeFlag \union {c}
    /\ shut' = shut \union {c} /\ UNCHANGED <<chan, queued, broken>>

\* NetConn.Close, WSConn.Close
CloseConn(c) ==
    \/ c \in closeFlag /\ UNCHANGED <<sockVars, chanVars>>
    \/ c \notin closeFlag /\ Full(c) /\ doDestroy(c)
    \/ /\ c \notin closeFlag /\ ~Full(c)
       /\ chan' = [chan EXCEPT ![c] = Append(@, Nil)] /\ closeFlag' = closeFlag \union {c}
       /\ UNCHANGED <<sockVars, shut, queued>>

AgentCloses(c) ==
    /\ writer[c] # "none" /\ c \notin closeFlag /\ CountCall /\ CloseConn(c)
    /\ UNCHANGED <<confVars, agentVars, writer, wire, frameVars, cuts>>

\* doWrite of a message; its number stands for it.
doWrite(c) ==
    \/ Full(c) /\ doDestroy(c)
    \/ /\ ~Full(c) /\ chan' = [chan EXCEPT ![c] = Append(@, netCalls')]
       /\ queued' = [queued EXCEPT ![c] = Append(@, netCalls')] /\ UNCHANGED <<sockVars, shut, closeFlag>>

\* WriteRawMsg, Write; refused once closeFlag is set
Write(c) ==
    /\ netKind # "ws" /\ writer[c] # "none" /\ c \notin closeFlag
    /\ CountCall /\ doWrite(c)
    /\ UNCHANGED <<confVars, agentVars, writer, wire, frameVars, cuts>>

WSWriteMsg(c, m) ==
    /\ netKind = "ws" /\ writer[c] # "none" /\ c \notin closeFlag
    /\ LenOf[m] \in 1..limits.maxLen
    /\ CountCall /\ doWrite(c)
    /\ UNCHANGED <<confVars, agentVars, writer, wire, frameVars, cuts>>

\* NetConn.WriteMsg passes by the channel and its lock: the caller looks at closeFlag, then writes the
\* frame, and ignores a failure.
WriteMsg(c, m) ==
    /\ netKind # "ws" /\ writer[c] # "none" /\ c \notin closeFlag
    /\ LenOf[m] \in MinMsgLen..limits.maxLen
    /\ CountCall /\ framing' = framing \union {<<c, m>>}
    /\ UNCHANGED <<confVars, agentVars, sockVars, chanVars, writer, wire, framed, cuts>>

WriteFrame(c, m) ==
    /\ <<c, m>> \in framing /\ framing' = framing \ {<<c, m>>}
    /\ framed' = IF sock[c] = "open" THEN framed \union {m} ELSE framed
    /\ UNCHANGED <<confVars, agentVars, sockVars, chanVars, writer, wire, netCalls, cuts>>

\* The writing goroutine: a receive ends its loop on nil and on a closed, empty channel.
WriterRecv(c) ==
    /\ writer[c] = "recv" /\ (chan[c] # <<>> \/ c \in shut)
    /\ IF chan[c] = <<>> \/ Head(chan[c]) = Nil
       THEN /\ writer' = [writer EXCEPT ![c] = "shut"] /\ UNCHANGED wire
       ELSE /\ writer' = [writer EXCEPT ![c] = "write"] /\ wire' = [wire EXCEPT ![c] = Append(@, Head(chan[c]))]
    /\ chan' = [chan EXCEPT ![c] = IF @ = <<>> THEN @ ELSE Tail(@)]
    /\ UNCHANGED <<confVars, agentVars, sockVars, shut, closeFlag, queued, frameVars, netCalls, cuts>>

WriterWrites(c) ==
    /\ writer[c] = "write" /\ sock[c] \in {"open", "cut"} /\ writer' = [writer EXCEPT ![c] = "recv"]
    /\ UNCHANGED <<confVars, agentVars, sockVars, chanVars, wire, frameVars, netCalls, cuts>>

\* The socket is gone, or (NetConn) the write deadline passes: the message is lost.
WriterFails(c) ==
    /\ writer[c] = "write"
    /\ \/ sock[c] # "open" /\ UNCHANGED <<cuts, broken>>
       \/ /\ sock[c] = "open" /\ netKind # "ws" /\ cuts < MaxCuts /\ cuts' = cuts + 1
          /\ broken' = broken \union {c}
    /\ writer' = [writer EXCEPT ![c] = "shut"]
    /\ wire' = [wire EXCEPT ![c] = Front(@)]
    /\ UNCHANGED <<confVars, agentVars, sock, chanVars, frameVars, netCalls>>

WriterShuts(c) ==
    /\ writer[c] = "shut" /\ sock' = [sock EXCEPT ![c] = "closed"]
    /\ writer' = [writer EXCEPT ![c] = "sweep"]
    /\ UNCHANGED <<confVars, agentVars, broken, chanVars, wire, frameVars, netCalls, cuts>>

\* freeChannel (NetConn); a WSConn leaves what is queued to the collector.
WriterSweeps(c) ==
    /\ writer[c] = "sweep" /\ writer' = [writer EXCEPT ![c] = "end"]
    /\ chan' = [chan EXCEPT ![c] = IF netKind = "ws" THEN @ ELSE <<>>]
    /\ closeFlag' = closeFlag \union {c}
    /\ UNCHANGED <<confVars, agentVars, sockVars, shut, queued, wire, frameVars, netCalls, cuts>>

\* The peer breaks the connection. External.
PeerCuts(c) ==
    /\ sock[c] = "open" /\ cuts < MaxCuts /\ cuts' = cuts + 1
    /\ sock' = [sock EXCEPT ![c] = "cut"] /\ broken' = broken \union {c}
    /\ UNCHANGED <<confVars, agentVars, chanVars, writer, wire, frameVars, netCalls>>

Drop(c) ==
    /\ sock' = [sock EXCEPT ![c] = "closed"] /\ broken' = broken \union {c}

(***************************************************************************)
(* The goroutine of a connection.                                          *)
(***************************************************************************)
GoTo(c, step) == agent' = [agent EXCEPT ![c] = step]
Waiting == \E c \in NetConns : agent[c] = "none"
Open(c, step) ==
    /\ Waiting /\ c = Min({d \in NetConns : agent[d] = "none"})
    /\ sock' = [sock EXCEPT ![c] = "open"] /\ GoTo(c, step) /\ UNCHANGED broken

\* Accept. The loop of tcp and kcp registers one connection before it takes the next; a ws
\* connection has a handler of its own.
InAcceptLoop(c) == netKind # "ws" /\ agent[c] \in {"admit", "launch"}
Accept(c) ==
    /\ NetServer /\ netState = "run" /\ (\A d \in NetConns : ~InAcceptLoop(d))
    /\ Open(c, IF netKind = "ws" THEN "add" ELSE "admit")
    /\ UNCHANGED <<confVars, netState, connSet, wg, dialer, chanVars, writer, wire, frameVars, netCalls, cuts>>

\* dial: what it returns once closeFlag is set may be nil, and for kcp a nil *UDPSession, which is
\* no nil net.Conn: its Close panics.
NetClosing == netState \in {"wait", "closed"}
Dial(s, c) ==
    /\ ~NetServer /\ dialer[s] = Dialing /\ Open(c, "admit") /\ dialer' = [dialer EXCEPT ![s] = c]
    /\ UNCHANGED <<confVars, netState, connSet, wg, chanVars, writer, wire, frameVars, netCalls, cuts>>

DialFails(s) ==
    /\ ~NetServer /\ dialer[s] = Dialing /\ NetClosing
    /\ dialer' = [dialer EXCEPT ![s] = IF netKind = "kcp" THEN Panicked ELSE Done]
    /\ UNCHANGED <<confVars, netState, connSet, wg, sockVars, chanVars, writer, agent, wire, frameVars, netCalls, cuts>>

\* ServeHTTP counts itself in the WaitGroup before it takes the lock.
AddHandler(c) ==
    /\ agent[c] = "add" /\ GoTo(c, "admit") /\ wg' = wg \union {c}
    /\ UNCHANGED <<confVars, netState, connSet, dialer, sockVars, chanVars, writer, wire, frameVars, netCalls, cuts>>

\* The end of the goroutine: a client's slot dials again, or is done.
Leave(c) ==
    /\ GoTo(c, "end") /\ wg' = wg \ {c}
    /\ dialer' = [s \in Slots |-> IF dialer[s] # c THEN dialer[s]
                                  ELSE IF reconnect /\ agent[c] # "admit" THEN Dialing ELSE Done]

\* A full server and a closed one refuse the connection; conns is nil for tcp and kcp only if the
\* accept loop outlives the drop: the assignment then panics.
Admit(c) ==
    /\ agent[c] = "admit"
    /\ LET refused == (NetServer /\ Cardinality(connSet) >= limits.conns) \/ (NetClosing /\ (~NetServer \/ netKind = "ws"))
       IN  \/ /\ refused /\ Drop(c) /\ Leave(c) /\ UNCHANGED connSet
          \/ /\ ~refused /\ NetClosing /\ GoTo(c, "panic") /\ UNCHANGED <<wg, dialer, sockVars, connSet>>
          \/ /\ ~refused /\ ~NetClosing /\ GoTo(c, "launch") /\ connSet' = connSet \union {c}
             /\ UNCHANGED <<wg, dialer, sockVars>>
    /\ UNCHANGED <<confVars, netState, chanVars, writer, wire, frameVars, netCalls, cuts>>

\* newNetConn, NewWSConn and NewAgent
Launch(c) ==
    /\ agent[c] = "launch" /\ writer' = [writer EXCEPT ![c] = "recv"] /\ GoTo(c, "run")
    /\ wg' = IF NetServer THEN wg \union {c} ELSE wg
    /\ UNCHANGED <<confVars, netState, connSet, dialer, sockVars, chanVars, wire, frameVars, netCalls, cuts>>

\* The newAgent of a WSServer may return nil: close, unlist, and no OnClose.
LaunchNoAgent(c) ==
    /\ agent[c] = "launch" /\ NetServer /\ netKind = "ws"
    /\ writer' = [writer EXCEPT ![c] = "recv"] /\ CloseConn(c)
    /\ connSet' = connSet \ {c} /\ Leave(c)
    /\ UNCHANGED <<confVars, netState, wire, frameVars, netCalls, cuts>>

\* Agent.Run returns. External.
RunEnds(c) ==
    /\ agent[c] = "run" /\ GoTo(c, "close")
    /\ UNCHANGED <<confVars, netState, connSet, wg, dialer, sockVars, chanVars, writer, wire, frameVars, netCalls, cuts>>

\* KCPServer closes the session itself and not its NetConn, whose writer stays behind.
CloseAfterRun(c) ==
    /\ agent[c] = "close" /\ GoTo(c, "unlist")
    /\ IF KCPServer THEN Drop(c) /\ UNCHANGED chanVars ELSE CloseConn(c)
    /\ UNCHANGED <<confVars, netState, connSet, wg, dialer, writer, wire, frameVars, netCalls, cuts>>

Unlist(c) ==
    /\ agent[c] = "unlist" /\ GoTo(c, "onClose") /\ connSet' = connSet \ {c}
    /\ UNCHANGED <<confVars, netState, wg, dialer, sockVars, chanVars, writer, wire, frameVars, netCalls, cuts>>

OnClose(c) ==
    /\ agent[c] = "onClose" /\ Leave(c)
    /\ UNCHANGED <<confVars, netState, connSet, sockVars, chanVars, writer, wire, frameVars, netCalls, cuts>>

(***************************************************************************)
(* Close of the whole.                                                     *)
(***************************************************************************)
CloseListener ==
    /\ NetServer /\ netState = "run" /\ netState' = "listener"
    /\ UNCHANGED <<confVars, connSet, wg, agent, dialer, sockVars, chanVars, writer, wire, frameVars, netCalls, cuts>>

\* wgLn.Wait
AcceptLoopEnded == \A c \in NetConns : ~InAcceptLoop(c)

\* Under the lock: the listed sockets are closed, the table is nil.
DropAll ==
    /\ IF NetServer THEN netState = "listener" /\ AcceptLoopEnded ELSE netState = "run"
    /\ netState' = "wait" /\ connSet' = {}
    /\ sock' = [c \in NetConns |-> IF c \in connSet THEN "closed" ELSE sock[c]]
    /\ broken' = broken \union connSet
    /\ UNCHANGED <<confVars, wg, agent, dialer, chanVars, writer, wire, frameVars, netCalls, cuts>>

WaitConns ==
    /\ netState = "wait" /\ wg = {} /\ (NetServer \/ \A s \in Slots : dialer[s] = Done)
    /\ netState' = "closed"
    /\ UNCHANGED <<confVars, connSet, wg, agent, dialer, sockVars, chanVars, writer, wire, frameVars, netCalls, cuts>>

\* A panic of a goroutine ends the process.
Crashed == (\E s \in Slots : dialer[s] = Panicked) \/ (\E c \in NetConns : agent[c] = "panic")

ConnStep(c) ==
    \/ WriterRecv(c) \/ WriterWrites(c) \/ WriterFails(c) \/ WriterShuts(c) \/ WriterSweeps(c)
    \/ AddHandler(c) \/ Admit(c) \/ Launch(c) \/ LaunchNoAgent(c)
    \/ CloseAfterRun(c) \/ Unlist(c) \/ OnClose(c)

NetNext ==
    /\ ~Crashed
    /\ \/ \E c \in NetConns :
             \/ Destroy(c) \/ AgentCloses(c) \/ Write(c)
             \/ \E m \in NetMsgs : WSWriteMsg(c, m) \/ WriteMsg(c, m) \/ WriteFrame(c, m)
             \/ PeerCuts(c) \/ Accept(c) \/ RunEnds(c) \/ ConnStep(c)
             \/ \E s \in Slots : Dial(s, c)
       \/ \E s \in Slots : DialFails(s)
       \/ CloseListener \/ DropAll \/ WaitConns

(***************************************************************************)
(* The goroutines go on; a write of a NetConn returns by its deadline, one *)
(* of a WSConn has none and returns only if its socket fails; Run returns  *)
(* once its socket is gone; a dial returns.                                *)
(***************************************************************************)
NetFairness ==
    /\ \A c \in NetConns :
          /\ WF_netVars(~Crashed /\ (writer[c] # "write" \/ netKind # "ws" \/ sock[c] # "open")
                          /\ (WriterRecv(c) \/ WriterWrites(c) \/ WriterFails(c) \/ WriterShuts(c) \/ WriterSweeps(c)))
          /\ WF_netVars(~Crashed /\ (AddHandler(c) \/ Admit(c) \/ Launch(c) \/ CloseAfterRun(c) \/ Unlist(c) \/ OnClose(c)))
          /\ WF_netVars(~Crashed /\ sock[c] # "open" /\ RunEnds(c))
    /\ \A s \in Slots : WF_netVars(~Crashed /\ NetClosing /\ DialFails(s))
    /\ WF_netVars(~Crashed /\ (DropAll \/ WaitConns) /\ netState # "run")

NetSpec == NetInit /\ [][NetNext]_netVars /\ NetFairness

(***************************************************************************)
(* Properties.                                                             *)
(***************************************************************************)
\* Close lets the messages queued before it go out: a connection nobody broke has written, in the
\* order they were queued, all of them by the time its writer ends, and at any time no others
\* (writeChan, the nil of Close and the sweep of newNetConn and NewWSConn).
MessagesKept ==
    \A c \in NetConns :
        /\ IsPrefix(wire[c], queued[c])
        /\ (writer[c] = "end" /\ c \notin broken) => wire[c] = queued[c]

\* The stream can be split again: the header of every frame written holds the whole length
\* (MsgParser.Write, init and getMaxMsgLen). A KCPServer does not correct MaxMsgLen and is excepted.
FramesSound ==
    KCPServer \/ \A m \in framed : Header(LenOf[m]) = LenOf[m]

\* When Close of a server or client has returned, no agent it admitted is left running, nothing
\* is listed and the accept loop never met the nil table (Close, run, ServeHTTP and connect).
CloseComplete ==
    /\ \A c \in NetConns : agent[c] # "panic"
    /\ netState = "closed" =>
          /\ connSet = {}
          /\ \A c \in NetConns : agent[c] \in {"none", "end"} \/ (netKind = "ws" /\ agent[c] \in {"add", "admit"})

\* A closed connection has written what was queued before, whole and in order, its frames can be
\* split again, and a closed server or client leaves no agent behind (NetConn, WSConn, MsgParser,
\* TCPServer, WSServer, KCPServer and the clients).
NetworkSound == MessagesKept /\ FramesSound /\ CloseComplete

\* Close returns, and a closed connection ends its writer: nil or a closed channel reaches it
\* (a WSConn without a write deadline only once its socket fails).
CloseReturns ==
    <>[](\/ Crashed
         \/ /\ netState \in {"run", "closed"}
            /\ \A c \in closeFlag : (netKind = "ws" /\ sock[c] = "open") \/ writer[c] = "end")
=============================================================================
