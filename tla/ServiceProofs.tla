---------------------------- MODULE ServiceProofs ----------------------------
(***************************************************************************)
(* Theorems about the life of a node and of its services (NodeLife), for   *)
(* any number of services and faults, about the tree of modules of a       *)
(* service (ModuleTree), for any modules and methods, and about the        *)
(* middlewares of its mailboxes (Middleware), for any chains and messages. *)
(***************************************************************************)
EXTENDS NodeLife, ModuleTree, Middleware, SequenceTheorems, TLAPS

(***************************************************************************)
(* The node.  Its inductive invariant says for every step of Node.Start,   *)
(* Service.Start and Service.Stop what is up, what is recorded for the way *)
(* back, and how far each service is.                                      *)
(***************************************************************************)
Steps == {NodeSteps[k] : k \in 1..Len(NodeSteps)}
Phases == {"new", "steps", "init", "start", "rollback", "undo", "failed", "up", "stop", "stopAll", "stopped"}
InitPcs == {"logger", "timers", "mailbox", "tasks", "pid", "rpc", "visibility", "OnInit"}
StartPcs == {"no", "mailbox", "OnStart", "loadRunning", "storeRunning", "list", "OnStarted",
             "loadReady", "storeReady", "ready", "unlist", "release"}
Statuses == {"Unknown", "Init", "Starting", "Running", "Ready", "Closing", "Closed"}
Mailboxes == {"no", "made", "on", "suspended", "stopped"}
PastRequest == {"closing", "suspend", "release", "unlist", "closed"}

NodeRecord == [at : Phases, i : Int, pc : InitPcs \cup StartPcs]
SvcRecord ==
    [status : Statuses, requested : BOOLEAN, mailbox : Mailboxes,
     own : SUBSET Makes, released : BOOLEAN, listed : Statuses \cup {"no"}]
CallRecord == [at : {"no", "request"} \cup PastRequest, of : Services \cup {0}]

\* A caller that is in no call names no service.
NodeTypeOK ==
    /\ node \in NodeRecord /\ svc \in [Services -> SvcRecord] /\ stops \in [Callers -> CallRecord]
    /\ cleanups \in Seq(Steps \cup {"services"}) /\ overlapped \subseteq Services
    /\ \A c \in Callers : IF stops[c].at = "no" THEN stops[c] = NoCall ELSE stops[c].of \in Services

\* Where the goroutine of the node can be.
Whereabouts ==
    /\ node.at = "steps" => node.i \in 1..Len(NodeSteps)
    /\ node.at = "init" => /\ node.i \in 1..(NumServices + 1)
                           /\ node.pc # "no" => node.i \in Services /\ node.pc \in InitPcs
    /\ node.at = "start" => node.i \in Services /\ node.pc \in StartPcs
    /\ node.at \in {"rollback", "stopAll"} => node.i \in 0..NumServices

\* The steps that are recorded. The node is unwinding once it takes its components down, and serves
\* while its services are up.
Recorded == {cleanups[k] : k \in 1..Len(cleanups)}
Unwound == node.at \in {"undo", "failed", "stopped"} \/ (node.at = "stop" /\ "services" \notin Recorded)
Serving == node.at = "up" \/ (node.at = "stop" /\ "services" \in Recorded)

\* The components that run are the ones recorded and the ones left halfway, but for the logger and
\* the pid file, which Node.Stop keeps to its end; the services are recorded last.
NoRepeats == \A j, k \in 1..Len(cleanups) : cleanups[j] = cleanups[k] => j = k

ComponentsKept ==
    /\ NoRepeats
    /\ \A k \in 1..Len(cleanups) : cleanups[k] = "services" => k = Len(cleanups)
    /\ node.at \notin {"up", "stop"} => "services" \notin Recorded
    /\ node.at = "up" => "services" \in Recorded
    /\ leaked \cap (Recorded \cup NotInStop \cup {"services"}) = {}
    /\ node.at \notin {"undo", "failed", "stop", "stopAll", "stopped"} => leaked = {}
    /\ node.at \notin {"stop", "stopAll", "stopped"} => up = (Recorded \ {"services"}) \cup leaked
    /\ node.at \in {"stop", "stopAll"} =>
         up \ NotInStop = (Recorded \ (NotInStop \cup {"services"})) \cup leaked
    /\ node.at \in {"failed", "stopped"} => up = leaked
    /\ node.at = "new" => cleanups = <<>>
    /\ node.at = "steps" => Recorded = {NodeSteps[k] : k \in 1..(node.i - 1)} \ NoCleanup
    /\ node.at \in {"init", "start", "rollback", "stopAll"} \/ Serving => Needed \subseteq up

\* A call of Stop, and one past the claim of the request. A service has ended its Start; it is over
\* when it needs nothing any more.
Calling(c) == stops[c].at # "no"
Past(c) == stops[c].at \in PastRequest
Ended(s) == svc[s].status \in {"Ready", "Closing", "Closed"} /\ (svc[s].status # "Ready" => svc[s].requested)
Over(s) == svc[s].status \in {"Unknown", "Init", "Closed"}

\* One call at most goes past the claim, and the node stops the services from the last to the first.
CallsKept ==
    /\ \A c \in Callers : Past(c) => svc[stops[c].of].requested
    /\ Past("node") /\ Past("user") => stops["node"].of # stops["user"].of
    /\ Calling("node") => node.at \in {"rollback", "stopAll"} /\ stops["node"].of = node.i + 1

\* How far the service is that a call stops.
CallSound(c) ==
    LET s == stops[c].of IN
    Calling(c) /\ s \notin overlapped =>
        /\ Ended(s)
        /\ ~(node.at = "start" /\ node.i = s)
        /\ stops[c].at = "closing" => svc[s].status = "Ready"
        /\ stops[c].at \in PastRequest \ {"closing"} => svc[s].status = "Closing"
        /\ stops[c].at \in {"unlist", "closed"} => svc[s].released
        /\ stops[c].at = "closed" => svc[s].listed = "no"

\* The status of the service the node is starting.
StatusAt(s) ==
    CASE node.pc = "no" -> svc[s].status = "Init"
      [] node.pc \in {"mailbox", "OnStart", "loadRunning", "storeRunning"} -> svc[s].status = "Starting"
      [] node.pc \in {"list", "OnStarted", "unlist", "loadReady", "storeReady"} -> svc[s].status = "Running"
      [] node.pc = "ready" -> svc[s].status = "Ready"
      [] node.pc = "release" -> svc[s].status \in {"Starting", "Running"} /\ svc[s].listed = "no"

\* A service that no call overlapped is as far as the node says.
ServiceSound(s) ==
    /\ svc[s].status = "Closed" => svc[s].released /\ svc[s].own = {} /\ svc[s].listed = "no"
    /\ svc[s].status \in {"Unknown", "Init", "Starting"} => svc[s].listed = "no"
    /\ node.at \in {"new", "steps"} => svc[s].status = "Unknown"
    /\ node.at = "init" => svc[s].status = IF s < node.i \/ (s = node.i /\ node.pc # "no") THEN "Init" ELSE "Unknown"
    /\ node.at = "start" => /\ s < node.i => Ended(s)
                            /\ s = node.i => StatusAt(s)
                            /\ s > node.i => svc[s].status = "Init"
    /\ node.at \in {"rollback", "stopAll"} =>
         /\ s <= node.i => Ended(s)
         /\ s > node.i => Over(s) \/ (Calling("node") /\ stops["node"].of = s)
    /\ Serving => Ended(s)
    /\ Unwound => Over(s)

\* A service without a mailbox has something of its own only while its Init makes it.
InitHolds(s) ==
    svc[s].mailbox = "no" /\ svc[s].own # {} =>
        node.at = "init" /\ node.i = s /\ node.pc \in {"logger", "timers", "mailbox"}
MailboxMade ==
    node.at = "init" /\ node.pc \in {"tasks", "pid", "rpc", "visibility", "OnInit"} => svc[node.i].mailbox # "no"

NodeInv ==
    /\ NodeTypeOK /\ Whereabouts /\ ComponentsKept /\ CallsKept
    /\ \A c \in Callers : CallSound(c)
    /\ \A s \in Services \ overlapped : ServiceSound(s)
    /\ \A s \in Services : InitHolds(s)
    /\ MailboxMade
-----------------------------------------------------------------------------
\* The tables of steps, entry by entry.
LEMMA StepNames ==
    /\ Len(NodeSteps) = 13 /\ Len(InitSteps) = 8
    /\ \A j, k \in 1..13 : NodeSteps[j] = NodeSteps[k] => j = k
    /\ \A k \in 1..13 : NodeSteps[k] # "services"
    /\ Needed \subseteq Steps \ NoCleanup
<1>1. Len(NodeSteps) = 13 /\ Len(InitSteps) = 8
  BY DEF NodeSteps, InitSteps
<1>2.
    /\ NodeSteps[1] = "config" /\ NodeSteps[2] = "logger" /\ NodeSteps[3] = "asyncPool"
    /\ NodeSteps[4] = "timingWheel" /\ NodeSteps[5] = "deduplicator" /\ NodeSteps[6] = "pidFile"
    /\ NodeSteps[7] = "rpcMonitor" /\ NodeSteps[8] = "poolManager" /\ NodeSteps[9] = "policyWatcher"
    /\ NodeSteps[10] = "senderManager" /\ NodeSteps[11] = "cluster" /\ NodeSteps[12] = "eventBus"
    /\ NodeSteps[13] = "hooks"
  BY DEF NodeSteps
<1>3. \A j, k \in 1..13 : NodeSteps[j] = NodeSteps[k] => j = k
  <2>1. SUFFICES ASSUME NEW j \in 1..13, NEW k \in 1..13, j < k PROVE NodeSteps[j] # NodeSteps[k]
    BY SMTT(30)
  <2> QED
    BY <1>2, <2>1, SMTT(30)
<1>4. \A k \in 1..13 : NodeSteps[k] # "services"
  BY <1>2, SMTT(30)
<1>5. Needed \subseteq Steps
  BY <1>1, <1>2, SMTT(30) DEF Steps, Needed
<1>6. Needed \cap NoCleanup = {}
  BY DEF Needed, NoCleanup
<1> QED
  BY <1>1, <1>3, <1>4, <1>5, <1>6

\* The step of Service.Init that follows another.
LEMMA InitOrder ==
    ASSUME node.pc \in InitPcs, node.pc # "OnInit"
    PROVE  /\ NextInit \in InitPcs /\ NextInit # "no"
           /\ NextInit \in {"logger", "timers", "mailbox"} <=> node.pc \in {"logger", "timers"}
<1>1. /\ InitSteps[1] = "logger" /\ InitSteps[2] = "timers" /\ InitSteps[3] = "mailbox" /\ InitSteps[4] = "tasks"
      /\ InitSteps[5] = "pid" /\ InitSteps[6] = "rpc" /\ InitSteps[7] = "visibility" /\ InitSteps[8] = "OnInit"
  BY DEF InitSteps
<1>2. PICK k \in 1..7 : InitSteps[k] = node.pc /\ \A l \in 1..8 : InitSteps[l] = node.pc => l = k
  <2>1. \A l \in 1..8 : l \in {1, 2, 3, 4, 5, 6, 7, 8}
    OBVIOUS
  <2> QED
    BY <1>1, <2>1, SMTT(30) DEF InitPcs
<1>3. (CHOOSE l \in 1..Len(InitSteps) : InitSteps[l] = node.pc) = k
  BY <1>2, StepNames
<1>4. NextInit = InitSteps[1 + k]
  BY <1>3 DEF NextInit
<1> QED
  BY <1>1, <1>2, <1>4, SMTT(30) DEF InitPcs

\* A step joins the record.
LEMMA RecordAppend ==
    ASSUME NodeTypeOK, NEW t \in Steps \cup {"services"}, cleanups' = Append(cleanups, t)
    PROVE  /\ cleanups' \in Seq(Steps \cup {"services"}) /\ Len(cleanups') = Len(cleanups) + 1
           /\ \A k \in 1..Len(cleanups) : cleanups'[k] = cleanups[k]
           /\ cleanups'[Len(cleanups) + 1] = t /\ Recorded' = Recorded \cup {t}
<1>1. /\ cleanups' \in Seq(Steps \cup {"services"}) /\ Len(cleanups') = Len(cleanups) + 1
      /\ \A k \in 1..Len(cleanups) : cleanups'[k] = cleanups[k]
      /\ cleanups'[Len(cleanups) + 1] = t
  BY DEF NodeTypeOK
<1>2. Len(cleanups) \in Nat
  BY DEF NodeTypeOK
<1>3. 1..(Len(cleanups) + 1) = (1..Len(cleanups)) \cup {Len(cleanups) + 1}
  BY <1>2
<1>4. Recorded' = Recorded \cup {t}
  BY <1>1, <1>3 DEF Recorded
<1> QED
  BY <1>1, <1>4

\* The last step leaves the record.
LEMMA RecordButLast ==
    ASSUME NodeTypeOK, cleanups # <<>>, cleanups' = ButLast(cleanups), NoRepeats
    PROVE  /\ cleanups' \in Seq(Steps \cup {"services"}) /\ Len(cleanups') = Len(cleanups) - 1
           /\ \A k \in 1..Len(cleanups') : cleanups'[k] = cleanups[k]
           /\ LastStep(cleanups) = cleanups[Len(cleanups)] /\ Len(cleanups) \in Nat \ {0}
           /\ LastStep(cleanups) \in Recorded /\ Recorded' = Recorded \ {LastStep(cleanups)}
<1>1. Len(cleanups) \in Nat \ {0}
  BY DEF NodeTypeOK
<1>2. /\ cleanups' \in Seq(Steps \cup {"services"}) /\ Len(cleanups') = Len(cleanups) - 1
      /\ \A k \in 1..Len(cleanups') : cleanups'[k] = cleanups[k]
  <2>1. \A k \in 1..(Len(cleanups) - 1) : cleanups[k] \in Steps \cup {"services"}
    BY <1>1 DEF NodeTypeOK
  <2>2. /\ cleanups' \in Seq(Steps \cup {"services"}) /\ Len(cleanups') = Len(cleanups) - 1
        /\ \A k \in 1..(Len(cleanups) - 1) : cleanups'[k] = cleanups[k]
    <3> DEFINE n == Len(cleanups) - 1
    <3>1. n \in Nat /\ ButLast(cleanups) = SubSeq(cleanups, 1, n)
      BY <1>1 DEF ButLast
    <3>2. \A k \in 1..n : cleanups[k] \in Steps \cup {"services"}
      BY <2>1
    <3> HIDE DEF n
    <3>3. /\ SubSeq(cleanups, 1, n) \in Seq(Steps \cup {"services"})
          /\ Len(SubSeq(cleanups, 1, n)) = n
          /\ \A k \in 1..n : SubSeq(cleanups, 1, n)[k] = cleanups[k]
      <4>1. Len(SubSeq(cleanups, 1, n)) = IF 1 <= n THEN n - 1 + 1 ELSE 0
        BY <3>1, <3>2, SubSeqProperties
      <4>2. SubSeq(cleanups, 1, n) \in Seq(Steps \cup {"services"})
        BY <3>1, <3>2, SubSeqProperties
      <4>3. \A k \in 1..(n - 1 + 1) : SubSeq(cleanups, 1, n)[k] = cleanups[1 + k - 1]
        BY <3>1, <3>2, SubSeqProperties
      <4> QED
        BY <3>1, <4>1, <4>2, <4>3
    <3>4. cleanups' = SubSeq(cleanups, 1, n)
      BY <3>1
    <3> QED
      BY <3>1, <3>3, <3>4 DEF n
  <2> QED
    BY <2>2
<1>3. LastStep(cleanups) = cleanups[Len(cleanups)] /\ LastStep(cleanups) \in Recorded
  BY <1>1 DEF LastStep, Recorded
<1>4. 1..Len(cleanups) = (1..Len(cleanups')) \cup {Len(cleanups)}
  BY <1>1, <1>2
<1>5. Recorded = Recorded' \cup {LastStep(cleanups)}
  BY <1>2, <1>3, <1>4 DEF Recorded
<1>6. LastStep(cleanups) \notin Recorded'
  BY <1>1, <1>2, <1>3 DEF Recorded, NoRepeats
<1> QED
  BY <1>1, <1>2, <1>3, <1>5, <1>6

\* Every step leaves the node at a place it can be.
LEMMA NodeStep_Place ==
    ASSUME NodeTypeOK, Whereabouts, NodeNext
    PROVE  node' \in NodeRecord /\ Whereabouts'
<1> USE NodeLifeAssumption DEF Services, NodeTypeOK, Whereabouts
<1>1. CASE NodeStart
  BY <1>1, StepNames, SMTT(30) DEF NodeStart, NodeAt, NodeRecord, Phases, StartPcs, InitPcs
<1>2. CASE StepDone
  BY <1>2, StepNames, SMTT(30) DEF StepDone, NodeStep, NodeAt, NodeRecord, Phases, StartPcs, InitPcs
<1>3. CASE StepFails
  BY <1>3, SMTT(30) DEF StepFails, NodeAt, NodeStep, Fault, NodeRecord, Phases, StartPcs, InitPcs
<1>4. CASE InitBegin
  BY <1>4, InitOrder, SMTT(30) DEF InitBegin, NodeAt, NodeRecord, Phases, StartPcs, InitPcs, InitSteps
<1>5. CASE InitResource
  BY <1>5, InitOrder, SMTT(30) DEF InitResource, Initialising, InitGoes, NodeAt, NodeRecord, Phases, StartPcs,
     InitPcs
<1>6. CASE InitPlain
  BY <1>6, InitOrder, SMTT(30) DEF InitPlain, Initialising, InitGoes, NodeAt, NodeRecord, Phases, StartPcs,
     InitPcs
<1>7. CASE InitFails
  BY <1>7, InitOrder, SMTT(30) DEF InitFails, Initialising, NodeAt, Fault, NodeRecord, Phases, StartPcs,
     InitPcs
<1>8. CASE StartBegin
  BY <1>8, SMTT(30) DEF StartBegin, In, This, Then, NodeAt, NodeRecord, Phases, StartPcs, InitPcs
<1>9. CASE StartMailbox
  BY <1>9, SMTT(30) DEF StartMailbox, In, Then, NodeRecord, Phases, StartPcs, InitPcs
<1>10. CASE StartHook
  BY <1>10, SMTT(30) DEF StartHook, Then, Fault, NodeRecord, Phases, StartPcs, InitPcs
<1>11. CASE SetStatus
  BY <1>11, SMTT(30) DEF SetStatus, StatusLoad, StatusStore, In, Then, This, NodeRecord, Phases, StartPcs,
     InitPcs
<1>12. CASE StartList
  BY <1>12, SMTT(30) DEF StartList, In, Then, This, NodeRecord, Phases, StartPcs, InitPcs
<1>13. CASE StartReady
  BY <1>13, SMTT(30) DEF StartReady, In, This, NodeAt, NodeRecord, Phases, StartPcs, InitPcs
<1>14. CASE RollbackUnlist
  BY <1>14, SMTT(30) DEF RollbackUnlist, In, Then, NodeRecord, Phases, StartPcs, InitPcs
<1>15. CASE RollbackRelease
  BY <1>15, SMTT(30) DEF RollbackRelease, In, NodeAt, NodeRecord, Phases, StartPcs, InitPcs
<1>16. CASE Rollback
  BY <1>16, SMTT(30) DEF Rollback, StopServices, NodeAt, Call, NodeRecord, Phases, StartPcs, InitPcs
<1>17. CASE StopAll
  BY <1>17, SMTT(30) DEF StopAll, StopServices, NodeAt, Call, NodeRecord, Phases, StartPcs, InitPcs
<1>18. CASE Undo
  BY <1>18, SMTT(30) DEF Undo, NodeAt, NodeRecord, Phases, StartPcs, InitPcs
<1>19. CASE NodeStop
  BY <1>19, SMTT(30) DEF NodeStop, NodeAt, NodeRecord, Phases, StartPcs, InitPcs
<1>20. CASE StopStep
  BY <1>20, SMTT(30) DEF StopStep, NodeAt, NextToStop, Fault, NodeRecord, Phases, StartPcs, InitPcs
<1>21. CASE NodeStopped
  BY <1>21, SMTT(30) DEF NodeStopped, NodeAt, NodeRecord, Phases, StartPcs, InitPcs
<1>22. CASE (\E s \in Services : UserStop(s)) \/ (\E s \in Services : PostToService(s))
         \/ (\E s \in Services : RunJob(s)) \/ (\E c \in Callers : StopRequest(c))
         \/ (\E c \in Callers : StopClosing(c))
  BY <1>22 DEF UserStop, Call, Initialising, PostToService, RunJob, StopRequest, StopClosing
<1>23. CASE (\E c \in Callers : StopSuspend(c)) \/ (\E c \in Callers : StopRelease(c))
         \/ (\E c \in Callers : StopUnlist(c)) \/ (\E c \in Callers : StopClosed(c))
  BY <1>23 DEF StopSuspend, StopRelease, StopUnlist, StopClosed
<1> QED
  BY <1>1, <1>2, <1>3, <1>4, <1>5, <1>6, <1>7, <1>8, <1>9, <1>10, <1>11, <1>12, <1>13, <1>14, <1>15, <1>16,
     <1>17, <1>18, <1>19, <1>20, <1>21, <1>22, <1>23 DEF NodeNext, InitService, ServiceStart, ServiceStop

\* The fields of a service, one at a time and as the steps set them together.
LEMMA ServiceFields ==
    ASSUME NEW r \in SvcRecord
    PROVE  /\ \A v \in Statuses : [r EXCEPT !.status = v] \in SvcRecord
           /\ [r EXCEPT !.requested = TRUE] \in SvcRecord /\ [r EXCEPT !.released = TRUE] \in SvcRecord
           /\ \A v \in Mailboxes : [r EXCEPT !.mailbox = v] \in SvcRecord
           /\ \A v \in SUBSET Makes : [r EXCEPT !.own = v] \in SvcRecord
           /\ \A v \in Statuses \cup {"no"} : [r EXCEPT !.listed = v] \in SvcRecord
           /\ r.own \subseteq Makes /\ r.status \in Statuses /\ r.listed \in Statuses \cup {"no"}
           /\ r.mailbox \in Mailboxes
           /\ \A m \in Mailboxes, o \in SUBSET Makes :
                /\ [r EXCEPT !.own = o, !.mailbox = m] \in SvcRecord
                /\ [r EXCEPT !.mailbox = m, !.own = o] \in SvcRecord
                /\ [r EXCEPT !.mailbox = m, !.own = o, !.released = TRUE] \in SvcRecord
                /\ [r EXCEPT !.status = "Closed", !.own = o] \in SvcRecord
<1>1. \A m \in Mailboxes, o \in SUBSET Makes :
        [r EXCEPT !.own = o, !.mailbox = m] \in SvcRecord /\ [r EXCEPT !.mailbox = m, !.own = o] \in SvcRecord
  BY DEF SvcRecord
<1>2. \A m \in Mailboxes, o \in SUBSET Makes : [r EXCEPT !.mailbox = m, !.own = o, !.released = TRUE] \in SvcRecord
  BY DEF SvcRecord
<1>3. \A o \in SUBSET Makes : [r EXCEPT !.status = "Closed", !.own = o] \in SvcRecord
  BY DEF SvcRecord, Statuses
<1>4. /\ \A v \in Statuses : [r EXCEPT !.status = v] \in SvcRecord
      /\ [r EXCEPT !.requested = TRUE] \in SvcRecord /\ [r EXCEPT !.released = TRUE] \in SvcRecord
  BY DEF SvcRecord
<1>5. /\ \A v \in Mailboxes : [r EXCEPT !.mailbox = v] \in SvcRecord
      /\ \A v \in SUBSET Makes : [r EXCEPT !.own = v] \in SvcRecord
      /\ \A v \in Statuses \cup {"no"} : [r EXCEPT !.listed = v] \in SvcRecord
  BY DEF SvcRecord
<1>6. r.own \subseteq Makes /\ r.status \in Statuses /\ r.listed \in Statuses \cup {"no"} /\ r.mailbox \in Mailboxes
  BY DEF SvcRecord
<1> QED
  BY <1>1, <1>2, <1>3, <1>4, <1>5, <1>6

\* Every step leaves every service a service.
LEMMA NodeStep_Services ==
    ASSUME NodeTypeOK, Whereabouts, NodeNext
    PROVE  svc' \in [Services -> SvcRecord]
<1> USE NodeLifeAssumption DEF NodeTypeOK
<1>1. CASE InitBegin
  <2>1. CASE node.i > NumServices
    BY <1>1, <2>1 DEF InitBegin
  <2>2. CASE ~(node.i > NumServices)
    <3>1. node.i \in Services
      BY <1>1, <2>2 DEF InitBegin, Whereabouts, Services
    <3>2. [svc[node.i] EXCEPT !.status = "Init"] \in SvcRecord
      BY <3>1, ServiceFields DEF Statuses, Mailboxes
    <3> QED
      BY <1>1, <2>2, <3>2 DEF InitBegin
  <2> QED
    BY <2>1, <2>2
<1>2. CASE InitResource
  <2>1. node.i \in Services
    BY <1>2 DEF InitResource, Initialising, Whereabouts
  <2>2. [svc[node.i] EXCEPT !.mailbox = "made"] \in SvcRecord
    BY <2>1, ServiceFields DEF Mailboxes
  <2>3. ASSUME node.pc \in Makes PROVE [svc[node.i] EXCEPT !.own = svc[node.i].own \cup {node.pc}] \in SvcRecord
    <3>1. svc[node.i].own \cup {node.pc} \in SUBSET Makes
      BY <2>1, <2>3, ServiceFields
    <3> QED
      BY <2>1, <3>1, ServiceFields
  <2> QED
    BY <1>2, <2>2, <2>3 DEF InitResource
<1>3. CASE InitFails
  <2>1. node.i \in Services
    BY <1>3 DEF InitFails, Initialising, Whereabouts
  <2>2. [svc[node.i] EXCEPT !.own = {}, !.mailbox = "no"] \in SvcRecord
    BY <2>1, ServiceFields DEF Mailboxes
  <2> QED
    BY <1>3, <2>2 DEF InitFails
<1>4. CASE StartBegin
  <2>1. node.i \in Services
    BY <1>4 DEF StartBegin, In
  <2>2. [svc[node.i] EXCEPT !.status = "Starting"] \in SvcRecord
    BY <2>1, ServiceFields DEF Statuses
  <2> QED
    BY <1>4, <2>1, <2>2 DEF StartBegin, This
<1>5. CASE StartMailbox
  <2>1. node.i \in Services
    BY <1>5 DEF StartMailbox, In
  <2>2. [svc[node.i] EXCEPT !.mailbox = IF @ = "made" THEN "on" ELSE @] \in SvcRecord
    BY <2>1, ServiceFields DEF Mailboxes
  <2> QED
    BY <1>5, <2>2 DEF StartMailbox
<1>6. CASE SetStatus
  <2>1. ASSUME node.i \in Services PROVE [svc[node.i] EXCEPT !.status = "Running"] \in SvcRecord
    BY <2>1, ServiceFields DEF Statuses, Mailboxes
  <2>2. ASSUME node.i \in Services PROVE [svc[node.i] EXCEPT !.status = "Ready"] \in SvcRecord
    BY <2>2, ServiceFields DEF Statuses, Mailboxes
  <2> QED
    BY <1>6, <2>1, <2>2 DEF SetStatus, StatusLoad, StatusStore, In
<1>7. CASE StartList
  <2>1. node.i \in Services
    BY <1>7 DEF StartList, In
  <2>2. [svc[node.i] EXCEPT !.listed = svc[node.i].status] \in SvcRecord
    BY <2>1, ServiceFields DEF Statuses
  <2> QED
    BY <1>7, <2>1, <2>2 DEF StartList, This
<1>8. CASE StartReady
  <2>1. node.i \in Services
    BY <1>8 DEF StartReady, In
  <2>2. [svc[node.i] EXCEPT !.listed = IF @ = "no" THEN @ ELSE svc[node.i].status] \in SvcRecord
    BY <2>1, ServiceFields DEF Statuses
  <2> QED
    BY <1>8, <2>1, <2>2 DEF StartReady, This
<1>9. CASE RollbackUnlist
  <2>1. node.i \in Services
    BY <1>9 DEF RollbackUnlist, In
  <2>2. [svc[node.i] EXCEPT !.listed = "no"] \in SvcRecord
    BY <2>1, ServiceFields DEF Statuses
  <2> QED
    BY <1>9, <2>1, <2>2 DEF RollbackUnlist
<1>10. CASE RollbackRelease
  <2>1. node.i \in Services
    BY <1>10 DEF RollbackRelease, In
  <2>2. [svc[node.i] EXCEPT !.mailbox = "stopped", !.own = {}, !.released = TRUE] \in SvcRecord
    BY <2>1, ServiceFields DEF Mailboxes
  <2>3. [[svc[node.i] EXCEPT !.mailbox = "stopped", !.own = {}, !.released = TRUE]
           EXCEPT !.status = "Closed"] \in SvcRecord
    BY <2>2, ServiceFields DEF Statuses, Mailboxes
  <2> QED
    BY <1>10, <2>3 DEF RollbackRelease
<1>11. ASSUME NEW c \in Callers, StopRequest(c) PROVE svc' \in [Services -> SvcRecord]
  <2>1. stops[c].of \in Services
    BY <1>11 DEF StopRequest, StopAt
  <2>2. [svc[stops[c].of] EXCEPT !.requested = TRUE] \in SvcRecord
    BY <2>1, ServiceFields DEF Statuses, Mailboxes
  <2> QED
    BY <1>11, <2>2 DEF StopRequest
<1>12. ASSUME NEW c \in Callers, StopClosing(c) PROVE svc' \in [Services -> SvcRecord]
  <2>1. stops[c].of \in Services
    BY <1>12 DEF StopClosing, StopAt
  <2>2. [svc[stops[c].of] EXCEPT !.status = "Closing"] \in SvcRecord
    BY <2>1, ServiceFields DEF Statuses, Mailboxes
  <2> QED
    BY <1>12, <2>2 DEF StopClosing
<1>13. ASSUME NEW c \in Callers, StopSuspend(c) PROVE svc' \in [Services -> SvcRecord]
  <2>0. stops[c].of \in Services
    BY <1>13 DEF StopSuspend, StopAt
  <2> DEFINE r == svc[stops[c].of]
  <2>1. r \in SvcRecord
    BY <2>0
  <2> HIDE DEF r
  <2>2. r.own \ {"timers", "tasks"} \in SUBSET Makes
    BY <2>1, ServiceFields DEF Mailboxes
  <2>4. [r EXCEPT !.mailbox = IF @ \in {"made", "on"} THEN "suspended" ELSE @,
                  !.own = r.own \ {"timers", "tasks"}] \in SvcRecord
    BY <2>1, <2>2, ServiceFields DEF Mailboxes
  <2> QED
    BY <1>13, <2>0, <2>4 DEF StopSuspend, r
<1>14. ASSUME NEW c \in Callers, StopRelease(c) PROVE svc' \in [Services -> SvcRecord]
  <2>1. stops[c].of \in Services
    BY <1>14 DEF StopRelease, StopAt
  <2>2. [svc[stops[c].of] EXCEPT !.released = TRUE] \in SvcRecord
    BY <2>1, ServiceFields DEF Statuses, Mailboxes
  <2> QED
    BY <1>14, <2>2 DEF StopRelease
<1>15. ASSUME NEW c \in Callers, StopUnlist(c) PROVE svc' \in [Services -> SvcRecord]
  <2>1. stops[c].of \in Services
    BY <1>15 DEF StopUnlist, StopAt
  <2>2. [svc[stops[c].of] EXCEPT !.listed = "no"] \in SvcRecord
    BY <2>1, ServiceFields DEF Statuses, Mailboxes
  <2> QED
    BY <1>15, <2>2 DEF StopUnlist
<1>16. ASSUME NEW c \in Callers, StopClosed(c) PROVE svc' \in [Services -> SvcRecord]
  <2>1. stops[c].of \in Services
    BY <1>16 DEF StopClosed, StopAt
  <2>2. [svc[stops[c].of] EXCEPT !.status = "Closed", !.own = {}] \in SvcRecord
    BY <2>1, ServiceFields DEF Statuses, Mailboxes
  <2> QED
    BY <1>16, <2>2 DEF StopClosed
<1>17. CASE NodeStart \/ StepDone \/ StepFails \/ InitPlain \/ StartHook
  BY <1>17 DEF NodeStart, StepDone, NodeStep, StepFails, InitPlain, Initialising, InitGoes, StartHook
<1>18. CASE Rollback \/ StopAll \/ Undo \/ NodeStop \/ StopStep
  BY <1>18 DEF Rollback, StopServices, Call, StopAll, Undo, NodeStop, StopStep
<1>19. CASE NodeStopped \/ (\E s \in Services : UserStop(s)) \/ (\E s \in Services : PostToService(s))
         \/ (\E s \in Services : RunJob(s))
  BY <1>19 DEF NodeStopped, UserStop, Call, Initialising, PostToService, RunJob
<1> QED
  BY <1>1, <1>2, <1>3, <1>4, <1>5, <1>6, <1>7, <1>8, <1>9, <1>10, <1>11, <1>12, <1>13, <1>14, <1>15, <1>16,
     <1>17, <1>18, <1>19 DEF NodeNext, InitService, ServiceStart, ServiceStop

\* Every step leaves every caller a call or none.
LEMMA NodeStep_Calls ==
    ASSUME NodeTypeOK, Whereabouts, NodeNext
    PROVE  /\ stops' \in [Callers -> CallRecord]
           /\ \A d \in Callers : IF stops'[d].at = "no" THEN stops'[d] = NoCall ELSE stops'[d].of \in Services
<1> USE NodeLifeAssumption DEF NodeTypeOK
<1> DEFINE Kept == /\ stops' \in [Callers -> CallRecord]
                   /\ \A d \in Callers : IF stops'[d].at = "no" THEN stops'[d] = NoCall ELSE stops'[d].of \in Services
<1>a. NoCall \in CallRecord
  BY DEF NoCall, CallRecord
<1>b. \A s \in Services : [at |-> "request", of |-> s] \in CallRecord
  BY DEF CallRecord
<1>c. \A c \in Callers : Calling(c) => stops[c].of \in Services
  BY DEF Calling
<1>1. CASE Rollback
  <2>1. node.i = 0 \/ node.i \in Services
    BY <1>1 DEF Rollback, StopServices, Whereabouts, Services
  <2> QED
    BY <1>1, <1>b, <2>1 DEF Rollback, StopServices, Call, Callers
<1>2. CASE StopAll
  <2>1. node.i = 0 \/ node.i \in Services
    BY <1>2 DEF StopAll, StopServices, Whereabouts, Services
  <2> QED
    BY <1>2, <1>b, <2>1 DEF StopAll, StopServices, Call, Callers
<1>3. ASSUME NEW s \in Services, UserStop(s) PROVE Kept
  BY <1>3, <1>b DEF UserStop, Call, Callers
<1>4. ASSUME NEW c \in Callers, StopRequest(c) PROVE Kept
  <2>1. stops[c].at # "no" /\ stops[c].of \in Services
    BY <1>4 DEF StopRequest, StopAt
  <2>2. [stops[c] EXCEPT !.at = "closing"] \in CallRecord
    BY <2>1 DEF CallRecord, PastRequest
  <2>3. CASE Return(c)
    BY <1>a, <2>3 DEF Return, NoCall
  <2>4. CASE StopThen(c, "closing")
    <3>1. stops' = [stops EXCEPT ![c] = [stops[c] EXCEPT !.at = "closing"]]
      BY <2>4 DEF StopThen
    <3>2. [stops[c] EXCEPT !.at = "closing"].at # "no" /\ [stops[c] EXCEPT !.at = "closing"].of \in Services
      BY <2>1 DEF CallRecord
    <3> QED
      BY <2>2, <3>1, <3>2
  <2> QED
    BY <1>4, <2>3, <2>4 DEF StopRequest
<1>5. ASSUME NEW c \in Callers, StopClosing(c) PROVE Kept
  <2>1. stops[c].at # "no" /\ stops[c].of \in Services
    BY <1>5 DEF StopClosing, StopAt
  <2>2. [stops[c] EXCEPT !.at = "suspend"] \in CallRecord
    BY <2>1 DEF CallRecord, PastRequest
  <2>3. CASE Return(c)
    BY <1>a, <2>3 DEF Return, NoCall
  <2>4. CASE StopThen(c, "suspend")
    <3>1. stops' = [stops EXCEPT ![c] = [stops[c] EXCEPT !.at = "suspend"]]
      BY <2>4 DEF StopThen
    <3>2. [stops[c] EXCEPT !.at = "suspend"].at # "no" /\ [stops[c] EXCEPT !.at = "suspend"].of \in Services
      BY <2>1 DEF CallRecord
    <3> QED
      BY <2>2, <3>1, <3>2
  <2> QED
    BY <1>5, <2>3, <2>4 DEF StopClosing
<1>6. ASSUME NEW c \in Callers, StopSuspend(c) PROVE Kept
  <2>1. stops[c].at # "no" /\ stops[c].of \in Services
    BY <1>6 DEF StopSuspend, StopAt
  <2>2. [stops[c] EXCEPT !.at = "release"] \in CallRecord
    BY <2>1 DEF CallRecord, PastRequest
  <2>4. CASE StopThen(c, "release")
    <3>1. stops' = [stops EXCEPT ![c] = [stops[c] EXCEPT !.at = "release"]]
      BY <2>4 DEF StopThen
    <3>2. [stops[c] EXCEPT !.at = "release"].at # "no" /\ [stops[c] EXCEPT !.at = "release"].of \in Services
      BY <2>1 DEF CallRecord
    <3> QED
      BY <2>2, <3>1, <3>2
  <2> QED
    BY <1>6, <2>4 DEF StopSuspend
<1>7. ASSUME NEW c \in Callers, StopRelease(c) PROVE Kept
  <2>1. stops[c].at # "no" /\ stops[c].of \in Services
    BY <1>7 DEF StopRelease, StopAt
  <2>2. [stops[c] EXCEPT !.at = "unlist"] \in CallRecord
    BY <2>1 DEF CallRecord, PastRequest
  <2>4. CASE StopThen(c, "unlist")
    <3>1. stops' = [stops EXCEPT ![c] = [stops[c] EXCEPT !.at = "unlist"]]
      BY <2>4 DEF StopThen
    <3>2. [stops[c] EXCEPT !.at = "unlist"].at # "no" /\ [stops[c] EXCEPT !.at = "unlist"].of \in Services
      BY <2>1 DEF CallRecord
    <3> QED
      BY <2>2, <3>1, <3>2
  <2> QED
    BY <1>7, <2>4 DEF StopRelease
<1>8. ASSUME NEW c \in Callers, StopUnlist(c) PROVE Kept
  <2>1. stops[c].at # "no" /\ stops[c].of \in Services
    BY <1>8 DEF StopUnlist, StopAt
  <2>2. [stops[c] EXCEPT !.at = "closed"] \in CallRecord
    BY <2>1 DEF CallRecord, PastRequest
  <2>4. CASE StopThen(c, "closed")
    <3>1. stops' = [stops EXCEPT ![c] = [stops[c] EXCEPT !.at = "closed"]]
      BY <2>4 DEF StopThen
    <3>2. [stops[c] EXCEPT !.at = "closed"].at # "no" /\ [stops[c] EXCEPT !.at = "closed"].of \in Services
      BY <2>1 DEF CallRecord
    <3> QED
      BY <2>2, <3>1, <3>2
  <2> QED
    BY <1>8, <2>4 DEF StopUnlist
<1>9. ASSUME NEW c \in Callers, StopClosed(c) PROVE Kept
  BY <1>9, <1>a DEF StopClosed, Return, NoCall
<1>10. CASE NodeStart \/ StepDone \/ StepFails \/ InitBegin \/ InitResource
  BY <1>10 DEF NodeStart, StepDone, NodeStep, StepFails, InitBegin, InitResource, Initialising, InitGoes
<1>11. CASE InitPlain \/ InitFails \/ StartBegin \/ StartMailbox \/ StartHook
  BY <1>11 DEF InitPlain, Initialising, InitGoes, InitFails, StartBegin, StartMailbox, StartHook
<1>12. CASE SetStatus \/ StartList \/ StartReady \/ RollbackUnlist \/ RollbackRelease
  BY <1>12 DEF SetStatus, StatusLoad, StatusStore, StartList, StartReady, RollbackUnlist, RollbackRelease
<1>13. CASE Undo \/ NodeStop \/ StopStep \/ NodeStopped \/ (\E s \in Services : PostToService(s))
  BY <1>13 DEF Undo, NodeStop, StopStep, NodeStopped, PostToService
<1>14. CASE (\E s \in Services : RunJob(s))
  BY <1>14 DEF RunJob
<1> QED
  BY <1>1, <1>2, <1>3, <1>4, <1>5, <1>6, <1>7, <1>8, <1>9, <1>10, <1>11, <1>12, <1>13, <1>14 DEF NodeNext,
     InitService, ServiceStart, ServiceStop

\* Every step leaves a record of steps.
LEMMA NodeStep_Record ==
    ASSUME NodeTypeOK, Whereabouts, NoRepeats, NodeNext
    PROVE  cleanups' \in Seq(Steps \cup {"services"}) /\ overlapped' \subseteq Services
<1> USE NodeLifeAssumption DEF NodeTypeOK, Whereabouts
<1> DEFINE Goal == cleanups' \in Seq(Steps \cup {"services"}) /\ overlapped' \subseteq Services
<1>1. CASE StepDone
  <2>1. NodeStep \in Steps
    BY <1>1 DEF StepDone, NodeStep, Steps
  <2> QED
    BY <1>1, <2>1 DEF StepDone
<1>2. CASE StartReady
  <2>1. cleanups' = cleanups \/ cleanups' = Append(cleanups, "services")
    BY <1>2 DEF StartReady
  <2>2. overlapped' = overlapped
    BY <1>2 DEF StartReady
  <2> QED
    BY <2>1, <2>2
<1>3. CASE Undo
  BY <1>3, RecordButLast DEF Undo, NoRepeats
<1>4. CASE StopStep
  BY <1>4, RecordButLast DEF StopStep, NoRepeats
<1>5. ASSUME NEW s \in Services, UserStop(s) PROVE Goal
  BY <1>5 DEF UserStop
<1>6. ASSUME NEW c \in Callers, StopRequest(c) PROVE Goal
  BY <1>6 DEF StopRequest, StopAt
<1>7. CASE NodeStart \/ StepFails \/ InitBegin \/ InitResource \/ InitPlain
  BY <1>7 DEF NodeStart, StepFails, NodeStep, InitBegin, InitResource, Initialising, InitGoes, InitPlain
<1>8. CASE InitFails \/ StartBegin \/ StartMailbox \/ StartHook \/ SetStatus
  BY <1>8 DEF InitFails, Initialising, StartBegin, StartMailbox, StartHook, SetStatus, StatusLoad, StatusStore
<1>9. CASE StartList \/ RollbackUnlist \/ RollbackRelease \/ Rollback \/ StopAll
  BY <1>9 DEF StartList, RollbackUnlist, RollbackRelease, Rollback, StopServices, Call, StopAll
<1>10. CASE NodeStop \/ NodeStopped \/ (\E s \in Services : PostToService(s))
         \/ (\E s \in Services : RunJob(s)) \/ (\E c \in Callers : StopClosing(c))
  BY <1>10 DEF NodeStop, NodeStopped, PostToService, RunJob, StopClosing
<1>11. CASE (\E c \in Callers : StopSuspend(c)) \/ (\E c \in Callers : StopRelease(c))
         \/ (\E c \in Callers : StopUnlist(c)) \/ (\E c \in Callers : StopClosed(c))
  BY <1>11 DEF StopSuspend, StopRelease, StopUnlist, StopClosed
<1> QED
  BY <1>1, <1>2, <1>3, <1>4, <1>5, <1>6, <1>7, <1>8, <1>9, <1>10, <1>11 DEF NodeNext, InitService,
     ServiceStart, ServiceStop

\* The types and the places, together.
LEMMA NodeTypesStep ==
    ASSUME NodeTypeOK, Whereabouts, NoRepeats, NodeNext
    PROVE  (NodeTypeOK /\ Whereabouts)'
BY NodeStep_Place, NodeStep_Services, NodeStep_Calls, NodeStep_Record DEF NodeTypeOK

\* Every step keeps what runs and what is recorded in agreement.
LEMMA ComponentsStep ==
    ASSUME NodeTypeOK, Whereabouts, ComponentsKept, NodeNext
    PROVE  ComponentsKept'
<1> USE NodeLifeAssumption DEF Serving
<1>0. /\ cleanups' = cleanups => Recorded' = Recorded
      /\ Len(cleanups) \in Nat /\ (cleanups = <<>> <=> Recorded = {}) /\ Recorded \subseteq Steps \cup {"services"}
      /\ node.at = "steps" => NodeStep \in Steps /\ NodeStep \notin Recorded /\ NodeStep # "services"
  <2>1. Len(cleanups) \in Nat /\ (cleanups = <<>> <=> Len(cleanups) = 0)
    BY DEF NodeTypeOK
  <2>2. Recorded \subseteq Steps \cup {"services"}
    BY DEF NodeTypeOK, Recorded
  <2>3. cleanups = <<>> <=> Recorded = {}
    <3>1. Len(cleanups) # 0 => cleanups[1] \in Recorded
      BY <2>1 DEF Recorded
    <3>2. Len(cleanups) = 0 => 1..Len(cleanups) = {}
      BY <2>1
    <3> QED
      BY <2>1, <3>1, <3>2 DEF Recorded
  <2>4. ASSUME node.at = "steps" PROVE NodeStep \in Steps /\ NodeStep \notin Recorded /\ NodeStep # "services"
    <3>1. node.i \in 1..13 /\ Recorded = {NodeSteps[k] : k \in 1..(node.i - 1)} \ NoCleanup
      BY <2>4, StepNames DEF Whereabouts, ComponentsKept
    <3>2. NodeStep \notin {NodeSteps[k] : k \in 1..(node.i - 1)}
      BY <3>1, StepNames DEF NodeStep
    <3> QED
      BY <3>1, <3>2, StepNames DEF NodeStep, Steps
  <2> QED
    BY <2>1, <2>2, <2>3, <2>4 DEF Recorded
<1>1. CASE NodeStart
  <2>1. {NodeSteps[k] : k \in 1..0} = {}
    OBVIOUS
  <2> QED
    BY <1>1, <1>0, <2>1 DEF NodeStart, NodeAt, ComponentsKept, NoRepeats
<1>2. CASE StepDone
  <2>1. node.i \in 1..13 /\ Recorded = {NodeSteps[k] : k \in 1..(node.i - 1)} \ NoCleanup
    BY <1>2, StepNames DEF StepDone, Whereabouts, ComponentsKept
  <2>2. {NodeSteps[k] : k \in 1..node.i} = {NodeSteps[k] : k \in 1..(node.i - 1)} \cup {NodeStep}
    <3>1. 1..node.i = (1..(node.i - 1)) \cup {node.i}
      BY <2>1
    <3> QED
      BY <3>1 DEF NodeStep
  <2>3. Recorded' = {NodeSteps[k] : k \in 1..node.i} \ NoCleanup /\ NoRepeats' /\ "services" \notin Recorded'
    <3>1. CASE NodeStep \in NoCleanup
      <4>1. cleanups' = cleanups /\ Recorded' = Recorded /\ "services" \notin Recorded /\ NoRepeats
        BY <1>0, <1>2, <3>1 DEF StepDone, ComponentsKept
      <4> QED
        BY <2>1, <2>2, <3>1, <4>1 DEF NoRepeats
    <3>2. CASE NodeStep \notin NoCleanup
      <4>1. /\ \A k \in 1..Len(cleanups) : cleanups'[k] = cleanups[k]
            /\ Len(cleanups') = Len(cleanups) + 1
            /\ cleanups'[Len(cleanups) + 1] = NodeStep /\ Recorded' = Recorded \cup {NodeStep}
        BY <1>0, <1>2, <3>2, RecordAppend DEF StepDone
      <4>2. \A k \in 1..Len(cleanups) : cleanups[k] # NodeStep
        BY <1>0, <1>2 DEF StepDone, Recorded
      <4>3. NoRepeats'
        BY <1>0, <4>1, <4>2 DEF ComponentsKept, NoRepeats
      <4>4. "services" \notin Recorded /\ NodeStep # "services"
        BY <1>0, <1>2 DEF StepDone, ComponentsKept
      <4>5. Recorded' = {NodeSteps[k] : k \in 1..node.i} \ NoCleanup
        BY <2>1, <2>2, <3>2, <4>1
      <4> QED
        BY <4>1, <4>3, <4>4, <4>5
    <3> QED
      BY <3>1, <3>2
  <2>4. up' = Recorded' /\ leaked' = {}
    <3>1. up = Recorded /\ leaked = {}
      BY <1>2, <2>1, StepNames DEF StepDone, ComponentsKept
    <3>2. Recorded' = IF NodeStep \in NoCleanup THEN Recorded ELSE Recorded \cup {NodeStep}
      BY <1>0, <1>2, RecordAppend DEF StepDone
    <3> QED
      BY <1>2, <3>1, <3>2 DEF StepDone
  <2>5. node.i = 13 => Needed \subseteq up'
    <3>1. node.i = 13 => Recorded' = Steps \ NoCleanup
      BY <2>3, StepNames DEF Steps
    <3> QED
      BY <2>4, <3>1, StepNames
  <2>6. "services" \notin Recorded' /\ \A k \in 1..Len(cleanups)' : cleanups'[k] \in Recorded'
    BY <2>3 DEF Recorded
  <2>7. CASE node.i = 13
    <3>1. node'.at = "init"
      BY <1>2, <2>7, StepNames DEF StepDone, NodeAt
    <3>2. leaked' = {} /\ up' = (Recorded' \ {"services"}) \cup leaked' /\ Needed \subseteq up'
      BY <2>3, <2>4, <2>5, <2>7
    <3>3. \A k \in 1..Len(cleanups') : cleanups'[k] # "services"
      BY <2>6
    <3> QED
      BY <2>3, <3>1, <3>2, <3>3 DEF ComponentsKept
  <2>8. CASE node.i # 13
    <3>1. node'.at = "steps" /\ node'.i = node.i + 1
      BY <1>2, <2>8, StepNames DEF StepDone, NodeAt
    <3>2. Recorded' = {NodeSteps[k] : k \in 1..(node'.i - 1)} \ NoCleanup
      BY <2>1, <2>3, <3>1
    <3>3. \A k \in 1..Len(cleanups') : cleanups'[k] # "services"
      BY <2>6
    <3>4. leaked' = {} /\ up' = (Recorded' \ {"services"}) \cup leaked' /\ "services" \notin Recorded'
      BY <2>3, <2>4
    <3> QED
      BY <2>3, <3>1, <3>2, <3>3, <3>4 DEF ComponentsKept
  <2> QED
    BY <2>7, <2>8
<1>3. CASE StepFails
  <2>1. Recorded' = Recorded /\ node'.at = "undo" /\ cleanups' = cleanups /\ node.at = "steps"
    BY <1>0, <1>3 DEF StepFails, NodeAt
  <2>2. up = Recorded /\ leaked = {} /\ "services" \notin Recorded
    BY <2>1 DEF ComponentsKept
  <2>3. /\ up' = Recorded \cup leaked'
        /\ leaked' = {} \/ (leaked' = {"cluster"} /\ "cluster" \notin Recorded)
    <3>1. NodeStep \notin Recorded
      BY <1>0, <2>1
    <3>2. CASE up' = up /\ leaked' = leaked
      BY <2>2, <3>2
    <3>3. CASE NodeStep = "cluster" /\ up' = up \cup {"cluster"} /\ leaked' = leaked \cup {"cluster"}
      <4>1. "cluster" \notin Recorded /\ leaked' = {"cluster"}
        BY <2>2, <3>1, <3>3
      <4> QED
        BY <2>2, <3>3, <4>1
    <3> QED
      BY <1>3, <3>2, <3>3 DEF StepFails
  <2>4. leaked' \cap (Recorded' \cup NotInStop \cup {"services"}) = {}
    BY <2>1, <2>3 DEF NotInStop
  <2> QED
    BY <2>1, <2>2, <2>3, <2>4 DEF ComponentsKept, NoRepeats
<1>4. CASE InitService
  <2>1. /\ node.at = "init" /\ node'.at \in {"init", "start", "undo"}
        /\ UNCHANGED <<up, cleanups, leaked>>
    BY <1>4 DEF InitService, InitBegin, InitResource, Initialising, InitGoes, InitPlain, InitFails, NodeAt,
       NodeTypeOK, NodeRecord
  <2> QED
    BY <1>0, <2>1 DEF ComponentsKept, NoRepeats
<1>5. CASE ServiceStart /\ ~(StartReady /\ node.i = NumServices)
  <2>1. /\ node.at = "start" /\ node'.at \in {"start", "rollback"}
        /\ UNCHANGED <<up, cleanups, leaked>>
    BY <1>5, SMTT(30) DEF ServiceStart, StartBegin, StartMailbox, StartHook, SetStatus, StatusLoad,
       StatusStore, StartList, StartReady,
       RollbackUnlist, RollbackRelease, In, Then, NodeAt, NodeTypeOK, NodeRecord
  <2> QED
    BY <1>0, <2>1 DEF ComponentsKept, NoRepeats
<1>6. CASE StartReady /\ node.i = NumServices
  <2>1. node.at = "start" /\ node'.at = "up" /\ cleanups' = Append(cleanups, "services") /\ UNCHANGED <<up,
                                                                                                        leaked>>
    BY <1>6 DEF StartReady, In, NodeAt
  <2>2. /\ \A k \in 1..Len(cleanups) : cleanups'[k] = cleanups[k]
        /\ Len(cleanups') = Len(cleanups) + 1
        /\ cleanups'[Len(cleanups) + 1] = "services" /\ Recorded' = Recorded \cup {"services"}
    BY <2>1, RecordAppend
  <2>3. \A k \in 1..Len(cleanups) : cleanups[k] # "services"
    BY <2>1 DEF ComponentsKept, Recorded
  <2>4. NoRepeats' /\ \A k \in 1..Len(cleanups') : cleanups'[k] = "services" => k = Len(cleanups')
    BY <1>0, <2>2, <2>3 DEF ComponentsKept, NoRepeats
  <2> QED
    BY <2>1, <2>2, <2>4 DEF ComponentsKept
<1>7. CASE Rollback
  <2>1. node.at = "rollback" /\ node'.at \in {"undo", "rollback"} /\ UNCHANGED <<up, cleanups, leaked>>
    BY <1>7 DEF Rollback, StopServices, NodeAt
  <2> QED
    BY <1>0, <2>1 DEF ComponentsKept, NoRepeats
<1>8. CASE StopAll
  <2>1. node.at = "stopAll" /\ node'.at \in {"stop", "stopAll"} /\ UNCHANGED <<up, cleanups, leaked>>
    BY <1>8 DEF StopAll, StopServices, NodeAt
  <2> QED
    BY <1>0, <2>1 DEF ComponentsKept, NoRepeats
<1>9. CASE Undo
  <2>1. CASE cleanups = <<>>
    <3>1. node.at = "undo" /\ node'.at = "failed" /\ UNCHANGED <<up, cleanups, leaked>>
      BY <1>9, <2>1 DEF Undo, NodeAt
    <3> QED
      BY <1>0, <2>1, <3>1 DEF ComponentsKept, NoRepeats
  <2>2. CASE cleanups # <<>>
    <3>1. /\ node.at = "undo" /\ cleanups' = ButLast(cleanups) /\ up' = up \ {LastStep(cleanups)}
          /\ UNCHANGED <<node, leaked>>
      BY <1>9, <2>2 DEF Undo
    <3>2. /\ Len(cleanups') = Len(cleanups) - 1 /\ \A k \in 1..Len(cleanups') : cleanups'[k] = cleanups[k]
          /\ LastStep(cleanups) \in Recorded /\ Recorded' = Recorded \ {LastStep(cleanups)}
      BY <2>2, <3>1, RecordButLast DEF ComponentsKept
    <3>3. NoRepeats' /\ \A k \in 1..Len(cleanups') : cleanups'[k] # "services"
      BY <1>0, <3>1, <3>2 DEF ComponentsKept, NoRepeats, Recorded
    <3> QED
      BY <3>1, <3>2, <3>3 DEF ComponentsKept
  <2> QED
    BY <2>1, <2>2
<1>10. CASE NodeStop
  <2>1. node.at = "up" /\ node'.at = "stop" /\ UNCHANGED <<up, cleanups, leaked>>
    BY <1>10 DEF NodeStop, NodeAt
  <2> QED
    BY <1>0, <2>1 DEF ComponentsKept, NoRepeats
<1>11. CASE StopStep
  <2>1. node.at = "stop" /\ cleanups # <<>> /\ cleanups' = ButLast(cleanups)
    BY <1>11 DEF StopStep
  <2>2. /\ Len(cleanups') = Len(cleanups) - 1 /\ \A k \in 1..Len(cleanups') : cleanups'[k] = cleanups[k]
        /\ LastStep(cleanups) = cleanups[Len(cleanups)]
        /\ LastStep(cleanups) \in Recorded /\ Recorded' = Recorded \ {LastStep(cleanups)}
    BY <2>1, RecordButLast DEF ComponentsKept
  <2>3. NoRepeats' /\ "services" \notin Recorded' /\ \A k \in 1..Len(cleanups') : cleanups'[k] # "services"
    <3>1. \A k \in 1..Len(cleanups') : cleanups'[k] # "services"
      BY <1>0, <2>2 DEF ComponentsKept
    <3>2. NoRepeats'
      BY <1>0, <2>2 DEF ComponentsKept, NoRepeats
    <3> QED
      BY <3>1, <3>2 DEF Recorded
  <2>4. CASE NextToStop = "services"
    <3>1. node'.at = "stopAll" /\ UNCHANGED <<up, leaked>>
      BY <1>11, <2>4 DEF StopStep, NodeAt
    <3> QED
      BY <2>1, <2>2, <2>3, <2>4, <3>1 DEF ComponentsKept, NextToStop
  <2>5. CASE NextToStop # "services"
    <3>1. /\ node' = node
          /\ \/ up' = up \ ({NextToStop} \ NotInStop) /\ leaked' = leaked
             \/ NextToStop \notin NotInStop /\ leaked' = leaked \cup {NextToStop} /\ up' = up
      BY <1>11, <2>5 DEF StopStep
    <3>2. "services" \notin Recorded
      BY <2>2, <2>3, <2>5 DEF NextToStop
    <3> QED
      BY <2>1, <2>2, <2>3, <2>5, <3>1, <3>2 DEF ComponentsKept, NextToStop
  <2> QED
    BY <2>4, <2>5
<1>12. CASE NodeStopped
  <2>1. /\ node.at = "stop" /\ node'.at = "stopped" /\ up' = up \ NotInStop
        /\ UNCHANGED <<cleanups, leaked>> /\ Recorded = {}
    BY <1>0, <1>12 DEF NodeStopped, NodeAt
  <2> QED
    BY <1>0, <2>1 DEF ComponentsKept, NoRepeats
<1>13. CASE UNCHANGED <<node, up, cleanups, leaked>>
  BY <1>0, <1>13 DEF ComponentsKept, NoRepeats
<1>14. ASSUME NEW s \in Services, UserStop(s) \/ PostToService(s) \/ RunJob(s)
       PROVE  UNCHANGED <<node, up, cleanups, leaked>>
  BY <1>14 DEF UserStop, PostToService, RunJob
<1>15. ASSUME NEW c \in Callers, ServiceStop(c) PROVE UNCHANGED <<node, up, cleanups, leaked>>
  BY <1>15 DEF ServiceStop, StopRequest, StopClosing, StopSuspend, StopRelease, StopUnlist, StopClosed
<1> QED
  BY <1>1, <1>2, <1>3, <1>4, <1>5, <1>6, <1>7, <1>8, <1>9, <1>10, <1>11, <1>12, <1>13, <1>14, <1>15
     DEF NodeNext, ServiceStart

\* What a step makes of the fields of service s; it leaves the other services alone.
Moved(s, status, requested, mailbox, own, released, listed) ==
    /\ svc'[s].status = status /\ svc'[s].requested = requested /\ svc'[s].mailbox = mailbox
    /\ svc'[s].own = own /\ svc'[s].released = released /\ svc'[s].listed = listed
    /\ \A t \in Services \ {s} : svc'[t] = svc[t]

\* Where a step of Service.Stop takes the call of c and the service it stops.
CallMoves(c, s, r) ==
    LET Next(at) == stops'[c].at = at /\ stops'[c].of = s IN
    \/ stops[c].at = "request" /\ r.requested /\ svc' = svc /\ stops'[c].at = "no"
       /\ (r.status = "Closed" \/ s \in overlapped')
    \/ stops[c].at = "request" /\ ~r.requested /\ Next("closing")
       /\ Moved(s, r.status, TRUE, r.mailbox, r.own, r.released, r.listed)
    \/ stops[c].at = "closing" /\ r.status \in {"Closing", "Closed"} /\ svc' = svc /\ stops'[c].at = "no"
    \/ stops[c].at = "closing" /\ Next("suspend")
       /\ Moved(s, "Closing", r.requested, r.mailbox, r.own, r.released, r.listed)
    \/ stops[c].at = "suspend" /\ Next("release")
       /\ Moved(s, r.status, r.requested, IF r.mailbox \in {"made", "on"} THEN "suspended" ELSE r.mailbox,
                r.own \ {"timers", "tasks"}, r.released, r.listed)
    \/ stops[c].at = "release" /\ Next("unlist")
       /\ Moved(s, r.status, r.requested, r.mailbox, r.own, TRUE, r.listed)
    \/ stops[c].at = "unlist" /\ Next("closed")
       /\ Moved(s, r.status, r.requested, r.mailbox, r.own, r.released, "no")
    \/ stops[c].at = "closed" /\ stops'[c].at = "no"
       /\ Moved(s, "Closed", r.requested, r.mailbox, {}, r.released, r.listed)

\* A step of Service.Stop is one of CallMoves.
LEMMA StopMoves ==
    ASSUME NodeTypeOK, NEW c \in Callers, ServiceStop(c)
    PROVE  /\ stops[c].of \in Services /\ Calling(c)
           /\ \A d \in Callers \ {c} : stops'[d] = stops[d]
           /\ UNCHANGED <<node, cleanups>> /\ overlapped \subseteq overlapped'
           /\ CallMoves(c, stops[c].of, svc[stops[c].of])
<1> DEFINE s == stops[c].of
<1>1. Calling(c) /\ s \in Services
  BY DEF NodeTypeOK, Calling, ServiceStop, StopRequest, StopClosing, StopSuspend, StopRelease, StopUnlist,
     StopClosed, StopAt
<1>2. /\ \A d \in Callers \ {c} : stops'[d] = stops[d]
      /\ UNCHANGED <<node, cleanups>> /\ overlapped \subseteq overlapped'
  BY DEF NodeTypeOK, ServiceStop, StopRequest, StopClosing, StopSuspend, StopRelease, StopUnlist, StopClosed,
     StopThen, Return
<1>3. svc \in [Services -> SvcRecord] /\ stops \in [Callers -> CallRecord]
  BY DEF NodeTypeOK
<1>4. \A at : stops' = [stops EXCEPT ![c].at = at] => stops'[c].at = at /\ stops'[c].of = s
  BY <1>3 DEF CallRecord
<1>5. ASSUME Return(c) PROVE stops'[c].at = "no"
  BY <1>3, <1>5 DEF Return, NoCall
<1>6. ASSUME StopRequest(c) PROVE CallMoves(c, s, svc[s])
  <2>1. CASE svc[s].requested
    BY <1>5, <1>6, <2>1 DEF StopRequest, StopAt, CallMoves
  <2>2. CASE ~svc[s].requested
    <3>1. Moved(s, svc[s].status, TRUE, svc[s].mailbox, svc[s].own, svc[s].released, svc[s].listed)
      BY <1>1, <1>3, <1>6, <2>2 DEF StopRequest, Moved, SvcRecord
    <3>2. stops[c].at = "request" /\ stops'[c].at = "closing" /\ stops'[c].of = s
      BY <1>4, <1>6, <2>2 DEF StopRequest, StopAt, StopThen
    <3> QED
      BY <2>2, <3>1, <3>2 DEF CallMoves
  <2> QED
    BY <2>1, <2>2
<1>7. ASSUME StopClosing(c) PROVE CallMoves(c, s, svc[s])
  <2>1. CASE svc[s].status \in {"Closing", "Closed"}
    BY <1>5, <1>7, <2>1 DEF StopClosing, StopAt, CallMoves
  <2>2. CASE svc[s].status \notin {"Closing", "Closed"}
    <3>1. Moved(s, "Closing", svc[s].requested, svc[s].mailbox, svc[s].own, svc[s].released, svc[s].listed)
      BY <1>1, <1>3, <1>7, <2>2 DEF StopClosing, Moved, SvcRecord
    <3>2. stops[c].at = "closing" /\ stops'[c].at = "suspend" /\ stops'[c].of = s
      BY <1>4, <1>7, <2>2 DEF StopClosing, StopAt, StopThen
    <3> QED
      BY <3>1, <3>2 DEF CallMoves
  <2> QED
    BY <2>1, <2>2
<1>8. ASSUME StopSuspend(c) PROVE CallMoves(c, s, svc[s])
  <2>1. Moved(s, svc[s].status, svc[s].requested,
              IF svc[s].mailbox \in {"made", "on"} THEN "suspended" ELSE svc[s].mailbox,
              svc[s].own \ {"timers", "tasks"}, svc[s].released, svc[s].listed)
    BY <1>1, <1>3, <1>8 DEF StopSuspend, Moved, SvcRecord
  <2>2. stops[c].at = "suspend" /\ stops'[c].at = "release" /\ stops'[c].of = s
    BY <1>4, <1>8 DEF StopSuspend, StopAt, StopThen
  <2> QED
    BY <2>1, <2>2 DEF CallMoves
<1>9. ASSUME StopRelease(c) PROVE CallMoves(c, s, svc[s])
  <2>1. Moved(s, svc[s].status, svc[s].requested, svc[s].mailbox, svc[s].own, TRUE, svc[s].listed)
    BY <1>1, <1>3, <1>9 DEF StopRelease, Moved, SvcRecord
  <2>2. stops[c].at = "release" /\ stops'[c].at = "unlist" /\ stops'[c].of = s
    BY <1>4, <1>9 DEF StopRelease, StopAt, StopThen
  <2> QED
    BY <2>1, <2>2 DEF CallMoves
<1>10. ASSUME StopUnlist(c) PROVE CallMoves(c, s, svc[s])
  <2>1. Moved(s, svc[s].status, svc[s].requested, svc[s].mailbox, svc[s].own, svc[s].released, "no")
    BY <1>1, <1>3, <1>10 DEF StopUnlist, Moved, SvcRecord
  <2>2. stops[c].at = "unlist" /\ stops'[c].at = "closed" /\ stops'[c].of = s
    BY <1>4, <1>10 DEF StopUnlist, StopAt, StopThen
  <2> QED
    BY <2>1, <2>2 DEF CallMoves
<1>11. ASSUME StopClosed(c) PROVE CallMoves(c, s, svc[s])
  <2>1. Moved(s, "Closed", svc[s].requested, svc[s].mailbox, {}, svc[s].released, svc[s].listed)
    BY <1>1, <1>3, <1>11 DEF StopClosed, Moved, SvcRecord
  <2>2. stops[c].at = "closed" /\ stops'[c].at = "no"
    BY <1>5, <1>11 DEF StopClosed, StopAt
  <2> QED
    BY <2>1, <2>2 DEF CallMoves
<1> QED
  BY <1>1, <1>2, <1>6, <1>7, <1>8, <1>9, <1>10, <1>11 DEF ServiceStop

\* What a step of Service.Init or Service.Start makes of the service it is at.
InitMoves(r) ==
    \/ node.pc = "no" /\ node'.pc = "logger" /\ node'.i = node.i /\ node'.at = "init"
       /\ Moved(node.i, "Init", r.requested, r.mailbox, r.own, r.released, r.listed)
    \/ /\ node.pc # "no" /\ node'.at = "init"
       /\ \/ node.pc = "OnInit" /\ node'.pc = "no" /\ node'.i = node.i + 1
          \/ node.pc # "OnInit" /\ node'.pc = NextInit /\ node'.i = node.i
       /\ \/ node.pc \in Makes
             /\ Moved(node.i, r.status, r.requested, r.mailbox, r.own \cup {node.pc}, r.released, r.listed)
          \/ node.pc = "mailbox"
             /\ Moved(node.i, r.status, r.requested, "made", r.own, r.released, r.listed)
          \/ node.pc \notin {"timers", "tasks", "mailbox"} /\ svc' = svc
    \/ node.pc # "no" /\ node'.at = "undo"
       /\ Moved(node.i, r.status, r.requested, "no", {}, r.released, r.listed)

\* A step of Service.Init is one of InitMoves.
LEMMA InitServiceMoves ==
    ASSUME NodeTypeOK, Whereabouts, InitService
    PROVE  /\ node.at = "init" /\ UNCHANGED <<cleanups, stops, overlapped>>
           /\ \/ node.i = NumServices + 1 /\ node.pc = "no" /\ svc' = svc
                 /\ node' = [at |-> "start", i |-> 1, pc |-> "no"]
              \/ node.i \in Services /\ InitMoves(svc[node.i])
<1> DEFINE i == node.i  r == svc[i]
<1> USE NodeLifeAssumption
<1>1. node.at = "init" /\ UNCHANGED <<cleanups, stops, overlapped>> /\ i \in 1..(NumServices + 1)
  BY DEF InitService, InitBegin, InitResource, InitPlain, InitFails, Initialising, Whereabouts
<1>2. svc \in [Services -> SvcRecord] /\ node \in NodeRecord
  BY DEF NodeTypeOK
<1>3. CASE InitBegin
  <2>1. CASE i > NumServices
    BY <1>1, <1>3, <2>1 DEF InitBegin, NodeAt
  <2>2. CASE ~(i > NumServices)
    <3>1. i \in Services
      BY <1>1, <2>2 DEF Services
    <3>2. Moved(i, "Init", r.requested, r.mailbox, r.own, r.released, r.listed)
      BY <1>2, <1>3, <2>2, <3>1 DEF InitBegin, Moved, SvcRecord
    <3>3. InitSteps[1] = "logger"
      BY DEF InitSteps
    <3>4. node.pc = "no" /\ node'.pc = "logger" /\ node'.i = node.i /\ node'.at = "init"
      BY <1>2, <1>3, <2>2, <3>3 DEF InitBegin, NodeRecord
    <3> QED
      BY <1>1, <3>1, <3>2, <3>4 DEF InitMoves
  <2> QED
    BY <2>1, <2>2
<1>4. ASSUME Initialising PROVE i \in Services /\ node.pc # "no" /\ node.pc \in InitPcs
  BY <1>4 DEF Initialising, Whereabouts
<1>5. ASSUME Initialising, InitGoes
      PROVE  /\ node'.at = "init"
             /\ \/ node.pc = "OnInit" /\ node'.pc = "no" /\ node'.i = node.i + 1
                \/ node.pc # "OnInit" /\ node'.pc = NextInit /\ node'.i = node.i
  BY <1>1, <1>2, <1>5 DEF InitGoes, NodeAt, NodeRecord
<1>6. CASE InitResource
  <2>1. CASE node.pc \in Makes /\ svc' = [svc EXCEPT ![node.i].own = @ \cup {node.pc}]
    <3>1. Moved(i, r.status, r.requested, r.mailbox, r.own \cup {node.pc}, r.released, r.listed)
      BY <1>2, <1>4, <1>6, <2>1 DEF InitResource, Moved, SvcRecord
    <3> QED
      BY <1>1, <1>4, <1>5, <1>6, <2>1, <3>1 DEF InitResource, InitMoves
  <2>2. CASE node.pc = "mailbox" /\ svc' = [svc EXCEPT ![node.i].mailbox = "made"]
    <3>1. Moved(i, r.status, r.requested, "made", r.own, r.released, r.listed)
      BY <1>2, <1>4, <1>6, <2>2 DEF InitResource, Moved, SvcRecord
    <3> QED
      BY <1>1, <1>4, <1>5, <1>6, <2>2, <3>1 DEF InitResource, InitMoves
  <2>3. CASE node.pc = "logger" /\ UNCHANGED svc
    BY <1>1, <1>4, <1>5, <1>6, <2>3 DEF InitResource, InitMoves
  <2> QED
    BY <1>6, <2>1, <2>2, <2>3 DEF InitResource
<1>7. CASE InitPlain
  BY <1>1, <1>4, <1>5, <1>7 DEF InitPlain, InitMoves, Makes
<1>8. CASE InitFails
  <2>1. Moved(i, r.status, r.requested, "no", {}, r.released, r.listed)
    BY <1>2, <1>4, <1>8 DEF InitFails, Moved, SvcRecord
  <2> QED
    BY <1>1, <1>4, <1>8, <2>1 DEF InitFails, InitMoves, NodeAt
<1> QED
  BY <1>3, <1>6, <1>7, <1>8, <1>1 DEF InitService

StartMoves(r) ==
    LET Go(pc) == node'.at = "start" /\ node'.i = node.i /\ node'.pc = pc
        Set(status) == Moved(node.i, status, r.requested, r.mailbox, r.own, r.released, r.listed)
        List(listed) == Moved(node.i, r.status, r.requested, r.mailbox, r.own, r.released, listed)
    IN
    \/ node.pc = "no" /\ r.status = "Init" /\ Go("mailbox") /\ Set("Starting")
    \/ node.pc = "no" /\ r.status # "Init" /\ node'.at = "rollback" /\ node'.i = node.i - 1 /\ svc' = svc
    \/ node.pc = "mailbox" /\ Go("OnStart")
       /\ Moved(node.i, r.status, r.requested, IF r.mailbox = "made" THEN "on" ELSE r.mailbox,
                r.own, r.released, r.listed)
    \/ node.pc = "OnStart" /\ svc' = svc /\ (Go("loadRunning") \/ Go("release"))
    \/ node.pc = "OnStarted" /\ svc' = svc /\ (Go("loadReady") \/ Go("unlist"))
    \/ node.pc = "loadRunning" /\ svc' = svc
       /\ Go(IF r.status \in {"Running", "Closed"} THEN "list" ELSE "storeRunning")
    \/ node.pc = "storeRunning" /\ Set("Running") /\ Go("list")
    \/ node.pc = "loadReady" /\ svc' = svc /\ Go(IF r.status \in {"Ready", "Closed"} THEN "ready" ELSE "storeReady")
    \/ node.pc = "storeReady" /\ Set("Ready") /\ Go("ready")
    \/ node.pc = "list" /\ List(r.status) /\ Go("OnStarted")
    \/ /\ node.pc = "ready" /\ List(IF r.listed = "no" THEN r.listed ELSE r.status)
       /\ IF node.i = NumServices THEN node'.at = "up" /\ node'.i = 0
          ELSE node'.at = "start" /\ node'.i = node.i + 1 /\ node'.pc = "no"
    \/ node.pc = "unlist" /\ List("no") /\ Go("release")
    \/ node.pc = "release" /\ Moved(node.i, "Closed", r.requested, "stopped", {}, TRUE, r.listed)
       /\ node'.at = "rollback" /\ node'.i = node.i - 1

\* A step of Service.Start is one of StartMoves.
LEMMA ServiceStartMoves ==
    ASSUME NodeTypeOK, Whereabouts, ServiceStart
    PROVE  /\ node.at = "start" /\ UNCHANGED <<stops, overlapped>>
           /\ node.i \in Services /\ StartMoves(svc[node.i])
<1> DEFINE r == svc[node.i]
<1>1. svc \in [Services -> SvcRecord] /\ node \in NodeRecord
  BY DEF NodeTypeOK
<1>2. \A pc : Then(pc) => node'.at = node.at /\ node'.i = node.i /\ node'.pc = pc
  BY <1>1 DEF Then, NodeRecord
<1>3. node.at = "start" /\ UNCHANGED <<stops, overlapped>> /\ node.i \in Services
  BY DEF ServiceStart, StartBegin, StartMailbox, StartHook, SetStatus, StatusLoad, StatusStore, StartList,
     StartReady,
     RollbackUnlist, RollbackRelease, In, Whereabouts
<1>4. ASSUME StartBegin PROVE StartMoves(r)
  <2>1. ASSUME r.status = "Init" PROVE Moved(node.i, "Starting", r.requested, r.mailbox, r.own, r.released, r.listed)
    BY <1>1, <1>3, <1>4, <2>1 DEF StartBegin, In, This, NodeAt, Moved, SvcRecord
  <2> QED
    BY <1>2, <1>3, <1>4, <2>1 DEF StartBegin, In, This, NodeAt, StartMoves
<1>5. ASSUME StartMailbox PROVE StartMoves(r)
  <2>1. Moved(node.i, r.status, r.requested, IF r.mailbox = "made" THEN "on" ELSE r.mailbox,
              r.own, r.released, r.listed)
    BY <1>1, <1>3, <1>5 DEF StartMailbox, In, Moved, SvcRecord
  <2> QED
    BY <1>2, <1>3, <1>5, <2>1 DEF StartMailbox, In, StartMoves
<1>6. ASSUME StartHook PROVE StartMoves(r)
  BY <1>2, <1>3, <1>6 DEF StartHook, StartMoves
<1>7. ASSUME SetStatus PROVE StartMoves(r)
  <2>1. ASSUME node.pc = "storeRunning"
        PROVE  Moved(node.i, "Running", r.requested, r.mailbox, r.own, r.released, r.listed)
    BY <1>1, <1>3, <1>7, <2>1 DEF SetStatus, StatusLoad, StatusStore, In, This, Moved, SvcRecord
  <2>2. ASSUME node.pc = "storeReady"
        PROVE  Moved(node.i, "Ready", r.requested, r.mailbox, r.own, r.released, r.listed)
    BY <1>1, <1>3, <1>7, <2>2 DEF SetStatus, StatusLoad, StatusStore, In, This, Moved, SvcRecord
  <2> QED
    BY <1>2, <1>3, <1>7, <2>1, <2>2 DEF SetStatus, StatusLoad, StatusStore, In, This, StartMoves
<1>8. ASSUME StartList PROVE StartMoves(r)
  <2>1. Moved(node.i, r.status, r.requested, r.mailbox, r.own, r.released, r.status)
    BY <1>1, <1>3, <1>8 DEF StartList, In, This, Moved, SvcRecord
  <2> QED
    BY <1>2, <1>3, <1>8, <2>1 DEF StartList, In, This, StartMoves
<1>9. ASSUME StartReady PROVE StartMoves(r)
  <2>1. Moved(node.i, r.status, r.requested, r.mailbox, r.own, r.released,
              IF r.listed = "no" THEN r.listed ELSE r.status)
    BY <1>1, <1>3, <1>9 DEF StartReady, In, This, NodeAt, Moved, SvcRecord
  <2> QED
    BY <1>2, <1>3, <1>9, <2>1 DEF StartReady, In, This, NodeAt, StartMoves
<1>10. ASSUME RollbackUnlist PROVE StartMoves(r)
  <2>1. Moved(node.i, r.status, r.requested, r.mailbox, r.own, r.released, "no")
    BY <1>1, <1>3, <1>10 DEF RollbackUnlist, In, Moved, SvcRecord
  <2> QED
    BY <1>2, <1>3, <1>10, <2>1 DEF RollbackUnlist, In, StartMoves
<1>11. ASSUME RollbackRelease PROVE StartMoves(r)
  <2>1. Moved(node.i, "Closed", r.requested, "stopped", {}, TRUE, r.listed)
    BY <1>1, <1>3, <1>11 DEF RollbackRelease, In, NodeAt, Moved, SvcRecord
  <2> QED
    BY <1>2, <1>3, <1>11, <2>1 DEF RollbackRelease, In, NodeAt, StartMoves
<1> QED
  BY <1>3, <1>4, <1>5, <1>6, <1>7, <1>8, <1>9, <1>10, <1>11 DEF ServiceStart

\* The steps of the node that touch no service.
NodeQuiet ==
    \/ /\ stops' = stops
       /\ \/ node.at = "new" /\ node'.at = "steps"
          \/ node.at = "steps" /\ node'.at \in {"steps", "undo"}
          \/ node.at = "steps" /\ node'.at = "init" /\ node'.i = 1 /\ node'.pc = "no"
          \/ node.at = "undo" /\ node'.at \in {"undo", "failed"}
          \/ node.at = "up" /\ node'.at = "stop" /\ Recorded' = Recorded
          \/ node.at = "stop" /\ node'.at = "stop" /\ "services" \notin Recorded /\ "services" \notin Recorded'
          \/ node.at = "stop" /\ node'.at = "stopAll" /\ node'.i = NumServices /\ "services" \in Recorded
          \/ node.at = "stop" /\ node'.at = "stopped" /\ "services" \notin Recorded
    \/ /\ stops' = stops /\ stops["node"] = NoCall /\ node.i = 0
       /\ \/ node.at = "rollback" /\ node'.at = "undo"
          \/ node.at = "stopAll" /\ node'.at = "stop" /\ "services" \notin Recorded'
    \/ /\ node.at \in {"rollback", "stopAll"} /\ node'.at = node.at /\ node'.i = node.i - 1
       /\ node.i \in Services /\ stops["node"] = NoCall
       /\ stops'["node"].at = "request" /\ stops'["node"].of = node.i /\ stops'["user"] = stops["user"]

\* The other steps of the node are among these.
LEMMA NodeQuietMoves ==
    ASSUME NodeTypeOK, Whereabouts, ComponentsKept,
           NodeStart \/ StepDone \/ StepFails \/ Rollback \/ Undo \/ NodeStop \/ StopStep \/ StopAll \/ NodeStopped
    PROVE  UNCHANGED <<svc, overlapped>> /\ NodeQuiet
<1>1. UNCHANGED <<svc, overlapped>>
  BY DEF NodeStart, StepDone, StepFails, Rollback, Undo, NodeStop, StopStep, StopAll, NodeStopped,
     StopServices
<1>2. cleanups' = cleanups => Recorded' = Recorded
  BY DEF Recorded
<1>3. node \in NodeRecord /\ stops \in [Callers -> CallRecord] /\ NumServices \in Nat \ {0}
  BY NodeLifeAssumption DEF NodeTypeOK
<1>4. CASE NodeStart \/ StepDone \/ StepFails
  BY <1>4 DEF NodeStart, StepDone, StepFails, NodeAt, NodeQuiet
<1>5. CASE Undo
  BY <1>5, <1>3 DEF Undo, NodeAt, NodeQuiet
<1>6. CASE NodeStop
  BY <1>2, <1>6 DEF NodeStop, NodeAt, NodeQuiet
<1>7. CASE NodeStopped
  <2>1. "services" \notin Recorded
    <3>1. cleanups = <<>> => Len(cleanups) = 0 /\ 1..Len(cleanups) = {}
      OBVIOUS
    <3> QED
      BY <1>7, <3>1 DEF NodeStopped, Recorded
  <2> QED
    BY <1>7, <2>1 DEF NodeStopped, NodeAt, NodeQuiet
<1>8. CASE StopStep
  <2>1. /\ Len(cleanups') = Len(cleanups) - 1 /\ \A k \in 1..Len(cleanups') : cleanups'[k] = cleanups[k]
        /\ LastStep(cleanups) = cleanups[Len(cleanups)] /\ Len(cleanups) \in Nat \ {0}
        /\ LastStep(cleanups) \in Recorded /\ Recorded' = Recorded \ {LastStep(cleanups)}
    BY <1>8, RecordButLast DEF ComponentsKept, StopStep
  <2>2. NextToStop # "services" => "services" \notin Recorded
    BY <2>1 DEF ComponentsKept, Recorded, NextToStop
  <2>3. CASE NextToStop = "services"
    BY <1>8, <2>1, <2>3 DEF StopStep, NodeAt, NodeQuiet, NextToStop
  <2>4. CASE NextToStop # "services"
    BY <1>8, <2>1, <2>2, <2>4 DEF StopStep, NodeQuiet
  <2> QED
    BY <2>3, <2>4
<1>9. CASE Rollback \/ StopAll
  <2>1. node.i \in 0..NumServices
    BY <1>9 DEF Rollback, StopAll, StopServices, Whereabouts
  <2>2. CASE node.i = 0
    <3>1. node.at = "stopAll" => "services" \notin Recorded' /\ Recorded' = Recorded
      BY <1>2, <1>9, <2>2 DEF ComponentsKept, Rollback, StopAll, StopServices
    <3> QED
      BY <1>9, <2>2, <3>1 DEF Rollback, StopAll, StopServices, NodeAt, NodeQuiet
  <2>3. CASE node.i # 0
    <3>1. node.i \in Services
      BY <1>3, <2>1, <2>3 DEF Services
    <3>2. stops' = [stops EXCEPT !["node"] = [at |-> "request", of |-> node.i]]
      BY <1>9, <2>3 DEF Rollback, StopAll, StopServices, Call
    <3>3. stops'["node"].at = "request" /\ stops'["node"].of = node.i /\ stops'["user"] = stops["user"]
      BY <1>3, <3>2 DEF Callers
    <3> QED
      BY <1>9, <2>3, <3>1, <3>3 DEF Rollback, StopAll, StopServices, NodeAt, NodeQuiet
  <2> QED
    BY <2>2, <2>3
<1> QED
  BY <1>1, <1>4, <1>5, <1>6, <1>7, <1>8, <1>9

\* A service that is not yet ready, or that the node is starting, has no call of Stop, but for
\* the services that were stopped too early.
LEMMA NoEarlyCall ==
    ASSUME NodeInv, NEW c \in Callers, Calling(c), stops[c].of \notin overlapped
    PROVE  /\ stops[c].of \in Services /\ Ended(stops[c].of)
           /\ node.at \notin {"new", "steps", "init"}
           /\ node.at = "start" => stops[c].of < node.i
<1>1. stops[c].of \in Services
  BY DEF NodeInv, NodeTypeOK, Calling
<1>2. Ended(stops[c].of) /\ ~(node.at = "start" /\ node.i = stops[c].of) /\ ServiceSound(stops[c].of)
  BY <1>1 DEF NodeInv, CallSound
<1>3. node.at = "start" => node.i \in Int /\ stops[c].of \in Int
  BY <1>1 DEF NodeInv, Whereabouts, Services
<1> QED
  BY <1>1, <1>2, <1>3 DEF ServiceSound, Ended

\* Every step keeps the calls of Stop in order.
LEMMA CallsStep ==
    ASSUME NodeInv, NodeNext
    PROVE  CallsKept' /\ \A c \in Callers : CallSound(c)'
<1> USE DEF Calling, Past, NoCall
<1>0. /\ NodeTypeOK /\ Whereabouts /\ ComponentsKept /\ CallsKept
      /\ \A c \in Callers : CallSound(c) /\ stops[c].at \in {"no", "request"} \cup PastRequest
      /\ stops \in [Callers -> CallRecord] /\ svc \in [Services -> SvcRecord]
  BY DEF NodeInv, NodeTypeOK, CallRecord
<1>1. \A c \in Callers : Calling(c) => stops[c].of \in Services
  BY <1>0 DEF NodeTypeOK
<1>2. ASSUME NEW c \in Callers, ServiceStop(c) PROVE CallsKept' /\ \A d \in Callers : CallSound(d)'
  <2>0. PICK s \in Services : s = stops[c].of
    BY <1>0, <1>2, StopMoves
  <2>1. /\ Calling(c) /\ \A d \in Callers \ {c} : stops'[d] = stops[d]
        /\ UNCHANGED <<node, cleanups>> /\ overlapped \subseteq overlapped' /\ CallMoves(c, s, svc[s])
    BY <1>0, <1>2, <2>0, StopMoves
  <2>2. \A t \in Services : /\ svc[t].requested => svc'[t].requested
                            /\ t # s => svc'[t] = svc[t]
    BY <2>0, <2>1 DEF CallMoves, Moved
  <2>3. /\ Calling(c)' => stops'[c].of = s
        /\ Past(c)' => Past(c) \/ (~svc[s].requested /\ svc'[s].requested)
        /\ Past(c) => svc[s].requested
    <3>1. Calling(c)' => stops'[c].of = s
      BY <2>0, <2>1 DEF CallMoves
    <3>2. Past(c)' => Past(c) \/ (~svc[s].requested /\ svc'[s].requested)
      BY <2>0, <2>1 DEF CallMoves, Moved, PastRequest
    <3>3. Past(c) => svc[s].requested
      BY <1>0, <2>0 DEF CallsKept
    <3> QED
      BY <3>1, <3>2, <3>3
  <2>4. \A d \in Callers : Past(d)' => svc'[stops'[d].of].requested
    <3>1. Past(c)' => svc'[stops'[c].of].requested
      BY <2>2, <2>3 DEF PastRequest
    <3>2. ASSUME NEW d \in Callers, d # c PROVE Past(d)' => svc'[stops'[d].of].requested
      BY <1>0, <1>1, <2>1, <2>2, <3>2 DEF CallsKept, PastRequest
    <3> QED
      BY <3>1, <3>2
  <2>5. Past("node")' /\ Past("user")' => stops'["node"].of # stops'["user"].of
    <3> SUFFICES ASSUME Past("node")', Past("user")' PROVE stops'["node"].of # stops'["user"].of
      OBVIOUS
    <3>1. PICK d \in Callers : d # c /\ {c, d} = {"node", "user"}
      BY DEF Callers
    <3>2. stops'[d] = stops[d] /\ Past(d) /\ svc[stops[d].of].requested /\ stops'[c].of = s
      BY <1>0, <2>1, <2>3, <3>1 DEF CallsKept, PastRequest
    <3>3. CASE Past(c)
      <4>1. stops["node"].of # stops["user"].of
        BY <1>0, <3>1, <3>2, <3>3 DEF CallsKept
      <4> QED
        BY <2>0, <3>1, <3>2, <4>1
    <3>4. CASE ~svc[s].requested
      BY <3>1, <3>2, <3>4
    <3> QED
      BY <2>3, <3>1, <3>3, <3>4
  <2>6. Calling("node")' => node'.at \in {"rollback", "stopAll"} /\ stops'["node"].of = node'.i + 1
    <3>1. Calling("node")' => Calling("node") /\ stops'["node"].of = stops["node"].of
      BY <2>0, <2>1, <2>3 DEF Callers
    <3> QED
      BY <1>0, <2>1, <3>1 DEF CallsKept
  <2>7. s \notin overlapped' => Ended(s)'
    <3>1. s \notin overlapped => CallSound(c) /\ Ended(s)
      BY <1>0, <2>0, <2>1 DEF CallSound
    <3> QED
      BY <2>0, <2>1, <2>3, <3>1 DEF CallMoves, Moved, CallSound, Ended, PastRequest
  <2>8. ASSUME NEW d \in Callers, d # c PROVE CallSound(d)'
    <3> SUFFICES ASSUME Calling(d), stops[d].of \notin overlapped' PROVE CallSound(d)'
      BY <2>1, <2>8 DEF CallSound
    <3>1. stops'[d] = stops[d] /\ stops[d].of \in Services /\ stops[d].of \notin overlapped /\ CallSound(d)
      BY <1>0, <1>1, <2>1, <2>8
    <3>2. CASE stops[d].of # s
      BY <2>1, <2>2, <3>1, <3>2 DEF CallSound, Ended
    <3>3. CASE stops[d].of = s
      <4>1. ~(node'.at = "start" /\ node'.i = s)
        BY <2>1, <3>1, <3>3 DEF CallSound
      <4>2. CASE Past(c)
        <5>1. stops[d].at = "request"
          BY <1>0, <2>0, <2>8, <3>1, <3>3, <4>2 DEF CallsKept, Callers
        <5> QED
          BY <2>7, <3>1, <3>3, <4>1, <5>1 DEF CallSound, PastRequest
      <4>3. CASE stops[c].at = "request"
        <5>1. svc'[s].status = svc[s].status /\ svc'[s].released = svc[s].released /\ svc'[s].listed = svc[s].listed
          BY <2>1, <4>3 DEF CallMoves, Moved
        <5> QED
          BY <2>7, <3>1, <3>3, <4>1, <5>1 DEF CallSound
      <4> QED
        BY <1>0, <2>1, <4>2, <4>3
    <3> QED
      BY <3>2, <3>3
  <2>9. CallSound(c)'
    <3> SUFFICES ASSUME Calling(c)', s \notin overlapped' PROVE CallSound(c)'
      BY <2>3 DEF CallSound
    <3>1. s \notin overlapped /\ Ended(s) /\ CallSound(c) /\ ~(node.at = "start" /\ node.i = s)
      BY <1>0, <2>0, <2>1 DEF CallSound
    <3>2. /\ stops'[c].at = "closing" => svc'[s].status = "Ready"
          /\ stops'[c].at \in PastRequest \ {"closing"} => svc'[s].status = "Closing"
          /\ stops'[c].at \in {"unlist", "closed"} => svc'[s].released
          /\ stops'[c].at = "closed" => svc'[s].listed = "no"
      <4>1. stops'[c].at = "closing" => svc'[s].status = "Ready"
        BY <2>0, <2>1, <3>1 DEF CallMoves, Moved, Ended
      <4>2. stops'[c].at \in PastRequest \ {"closing"} => svc'[s].status = "Closing"
        BY <2>0, <2>1, <3>1 DEF CallSound, CallMoves, Moved, PastRequest
      <4>3. stops'[c].at \in {"unlist", "closed"} => svc'[s].released
        BY <2>0, <2>1, <3>1 DEF CallSound, CallMoves, Moved
      <4>4. stops'[c].at = "closed" => svc'[s].listed = "no"
        BY <2>0, <2>1, <3>1 DEF CallMoves, Moved
      <4> QED
        BY <4>1, <4>2, <4>3, <4>4
    <3> QED
      BY <2>1, <2>3, <2>7, <3>1, <3>2 DEF CallSound
  <2> QED
    BY <2>4, <2>5, <2>6, <2>8, <2>9 DEF CallsKept
<1>3. ASSUME NEW s \in Services, UserStop(s) PROVE CallsKept' /\ \A d \in Callers : CallSound(d)'
  <2>1. /\ stops' = [stops EXCEPT !["user"] = [at |-> "request", of |-> s]] /\ UNCHANGED <<node, svc>>
        /\ overlapped \subseteq overlapped'
        /\ s \notin overlapped' => svc[s].status = "Ready" /\ ~(node.at = "start" /\ node.i = s)
    BY <1>3 DEF UserStop, Call
  <2>2. stops'["user"].at = "request" /\ stops'["user"].of = s /\ stops'["node"] = stops["node"]
    BY <1>0, <2>1 DEF Callers
  <2>3. CallsKept'
    BY <1>0, <2>1, <2>2 DEF CallsKept, Callers, PastRequest
  <2>4. CallSound("user")'
    BY <2>1, <2>2 DEF CallSound, Ended, PastRequest
  <2>5. CallSound("node")'
    BY <1>0, <2>1, <2>2 DEF CallSound, Ended, Callers
  <2> QED
    BY <2>3, <2>4, <2>5 DEF Callers
<1>4. CASE NodeStart \/ StepDone \/ StepFails \/ Rollback \/ Undo \/ NodeStop \/ StopStep \/ StopAll
        \/ NodeStopped
  <2>1. UNCHANGED <<svc, overlapped>> /\ NodeQuiet
    BY <1>0, <1>4, NodeQuietMoves
  <2>2. CallsKept'
    <3>1. CASE stops' = stops
      <4>1. Calling("node") => node'.at = node.at /\ node'.i = node.i
        BY <1>0, <2>1, <3>1 DEF CallsKept, NodeQuiet, Services
      <4> QED
        BY <1>0, <2>1, <3>1, <4>1 DEF CallsKept
    <3>2. CASE stops' # stops
      <4>1. /\ node'.at \in {"rollback", "stopAll"} /\ node.i \in Services /\ node'.i = node.i - 1
            /\ stops'["node"].at = "request" /\ stops'["node"].of = node.i /\ stops'["user"] = stops["user"]
        BY <2>1, <3>2 DEF NodeQuiet
      <4> QED
        BY <1>0, <2>1, <4>1 DEF CallsKept, Callers, PastRequest, Services
    <3> QED
      BY <3>1, <3>2
  <2>3. CallSound("user")'
    <3>1. stops'["user"] = stops["user"] /\ node'.at # "start"
      BY <2>1 DEF NodeQuiet
    <3> QED
      BY <1>0, <2>1, <3>1 DEF CallSound, Ended, Callers
  <2>4. CallSound("node")'
    <3>1. CASE stops' = stops
      BY <1>0, <2>1, <3>1 DEF CallSound, Ended, Callers, NodeQuiet
    <3>2. CASE stops' # stops
      <4>1. /\ node.at \in {"rollback", "stopAll"} /\ node'.at = node.at /\ node.i \in Services
            /\ stops'["node"].at = "request" /\ stops'["node"].of = node.i
        BY <2>1, <3>2 DEF NodeQuiet
      <4>2. node.i \notin overlapped => Ended(node.i)
        BY <4>1 DEF NodeInv, ServiceSound, Services
      <4> QED
        BY <2>1, <4>1, <4>2 DEF CallSound, Ended, PastRequest
    <3> QED
      BY <3>1, <3>2
  <2> QED
    BY <2>2, <2>3, <2>4 DEF Callers
<1>5. CASE InitService
  <2>1. node.at = "init" /\ UNCHANGED <<stops, overlapped>>
    BY <1>0, <1>5, InitServiceMoves
  <2>2. \A t \in Services : svc'[t].requested = svc[t].requested
    BY <1>0, <1>5, InitServiceMoves DEF InitMoves, Moved
  <2>3. CallsKept'
    BY <1>0, <1>1, <2>1, <2>2, SMTT(30) DEF CallsKept, Callers, PastRequest
  <2>4. ASSUME NEW c \in Callers PROVE CallSound(c)'
    BY <2>1, NoEarlyCall DEF CallSound
  <2> QED
    BY <2>3, <2>4
<1>6. CASE ServiceStart
  <2>1. node.at = "start" /\ UNCHANGED <<stops, overlapped>> /\ node.i \in Services /\ StartMoves(svc[node.i])
    BY <1>0, <1>6, ServiceStartMoves
  <2>2. \A t \in Services : svc'[t].requested = svc[t].requested
    BY <2>1 DEF StartMoves, Moved
  <2>3. CallsKept'
    BY <1>0, <1>1, <2>1, <2>2, SMTT(30) DEF CallsKept, Callers, PastRequest
  <2>4. ASSUME NEW c \in Callers PROVE CallSound(c)'
    <3> SUFFICES ASSUME Calling(c), stops[c].of \notin overlapped PROVE CallSound(c)'
      BY <2>1 DEF CallSound
    <3>1. stops[c].of \in Services /\ stops[c].of < node.i /\ CallSound(c) /\ ServiceSound(stops[c].of)
      BY <1>0, <2>1, NoEarlyCall DEF NodeInv
    <3>2. svc'[stops[c].of] = svc[stops[c].of]
      BY <2>1, <3>1 DEF StartMoves, Moved, Services
    <3>3. node'.at = "start" => node'.i = node.i \/ node'.i = node.i + 1
      BY <2>1 DEF StartMoves
    <3>4. node.i \in Int /\ stops[c].of \in Int
      BY <2>1, <3>1 DEF Services
    <3> QED
      BY <2>1, <3>1, <3>2, <3>3, <3>4 DEF CallSound, Ended
  <2> QED
    BY <2>3, <2>4
<1>7. ASSUME NEW s \in Services, PostToService(s) \/ RunJob(s) PROVE CallsKept' /\ \A d \in Callers : CallSound(d)'
  <2>1. UNCHANGED <<node, svc, stops, overlapped>>
    BY <1>7 DEF PostToService, RunJob
  <2> QED
    BY <1>0, <2>1 DEF CallsKept, CallSound, Ended
<1> QED
  BY <1>2, <1>3, <1>4, <1>5, <1>6, <1>7 DEF NodeNext

\* A step of Service.Stop neither revives a service nor leaves it half taken down.
LEMMA ServiceStepByStop ==
    ASSUME NodeInv, NEW c \in Callers, ServiceStop(c), NEW t \in Services \ overlapped'
    PROVE  ServiceSound(t)'
<1>0. PICK s \in Services : s = stops[c].of
  BY StopMoves DEF NodeInv
<1>1. /\ Calling(c) /\ \A d \in Callers \ {c} : stops'[d] = stops[d]
      /\ UNCHANGED <<node, cleanups>> /\ overlapped \subseteq overlapped' /\ CallMoves(c, s, svc[s])
  BY <1>0, StopMoves DEF NodeInv
<1>2. Recorded' = Recorded /\ (Serving' <=> Serving) /\ (Unwound' <=> Unwound)
  BY <1>1 DEF Recorded, Serving, Unwound
<1>3. ServiceSound(t) /\ t \notin overlapped
  BY <1>1 DEF NodeInv
<1>4. CASE t # s
  <2>1. svc'[t] = svc[t]
    BY <1>0, <1>1, <1>4 DEF CallMoves, Moved
  <2>2. Calling("node") /\ stops["node"].of = t => Calling("node")' /\ stops'["node"].of = t
    BY <1>0, <1>1, <1>4 DEF Callers, Calling
  <2> QED
    BY <1>1, <1>2, <1>3, <2>1, <2>2 DEF ServiceSound, Ended, Over, StatusAt
<1>5. CASE t = s
  <2>1. /\ Ended(s) /\ CallSound(c) /\ ~(node.at = "start" /\ node.i = s) /\ (Past(c) => svc[s].requested)
        /\ node.at \notin {"new", "steps", "init"} /\ (node.at = "start" => s < node.i)
    BY <1>0, <1>1, <1>3, <1>5, NoEarlyCall DEF CallSound, NodeInv, CallsKept
  <2>2. /\ Ended(s)'
        /\ Over(s) => Over(s)'
        /\ svc'[s].status = "Closed" => svc'[s].released /\ svc'[s].own = {} /\ svc'[s].listed = "no"
    BY <1>0, <1>1, <1>3, <1>5, <2>1 DEF CallMoves, Moved, ServiceSound, Ended, Over, CallSound, Calling, Past,
       PastRequest
  <2>3. Calling("node") /\ stops["node"].of = s => Over(s)' \/ (Calling("node")' /\ stops'["node"].of = s)
    <3>1. CASE c = "node"
      <4>1. stops["node"].at = "closing" => svc[s].status = "Ready"
        BY <1>0, <1>1, <1>3, <1>5, <2>1, <3>1 DEF CallSound
      <4> QED
        BY <1>0, <1>1, <1>5, <2>1, <3>1, <4>1 DEF CallMoves, Moved, Over, Calling
    <3>2. CASE c # "node"
      BY <1>1, <3>2 DEF Callers, Calling
    <3> QED
      BY <3>1, <3>2
  <2>4. s \in Int /\ (node.at = "start" => node.i \in Int)
    BY DEF Services, NodeInv, Whereabouts
  <2> QED
    BY <1>1, <1>2, <1>3, <1>5, <2>1, <2>2, <2>3, <2>4 DEF ServiceSound, Ended
<1> QED
  BY <1>4, <1>5

\* Service.Init goes through the services in order.
LEMMA ServiceStepByInit ==
    ASSUME NodeInv, InitService, NEW t \in Services \ overlapped'
    PROVE  ServiceSound(t)'
<1>1. /\ node.at = "init" /\ UNCHANGED <<cleanups, stops, overlapped>> /\ ServiceSound(t)
      /\ \/ node.i = NumServices + 1 /\ node.pc = "no" /\ svc' = svc
            /\ node' = [at |-> "start", i |-> 1, pc |-> "no"]
         \/ node.i \in Services /\ InitMoves(svc[node.i])
  BY InitServiceMoves DEF NodeInv
<1>2. NumServices \in Nat \ {0} /\ t \in 1..NumServices
  BY NodeLifeAssumption DEF Services
<1>3. /\ svc[t].status \in {"Unknown", "Init"} /\ svc[t].listed = "no"
      /\ svc[t].status = "Init" <=> t < node.i \/ (t = node.i /\ node.pc # "no")
  BY <1>1 DEF ServiceSound
<1>4. CASE node.i = NumServices + 1 /\ node.pc = "no" /\ svc' = svc /\ node' = [at |-> "start", i |-> 1, pc |-> "no"]
  <2>1. node'.at = "start" /\ node'.i = 1 /\ node'.pc = "no" /\ svc'[t].status = "Init" /\ svc'[t].listed = "no"
    BY <1>2, <1>3, <1>4
  <2> QED
    BY <1>2, <2>1 DEF ServiceSound, StatusAt, Serving, Unwound
<1>5. CASE node.i \in Services /\ InitMoves(svc[node.i])
  <2>1. node.i \in Int
    BY <1>5 DEF Services
  <2>2. svc'[t].status \in {"Unknown", "Init"} /\ svc'[t].listed = "no"
    BY <1>3, <1>5 DEF InitMoves, Moved
  <2>3. CASE node'.at = "undo"
    BY <2>2, <2>3 DEF ServiceSound, Over, Serving, Unwound
  <2>4. CASE node'.at = "init"
    <3>1. svc'[t].status = "Init" <=> svc[t].status = "Init" \/ t = node.i
      BY <1>3, <1>5, <2>4 DEF InitMoves, Moved
    <3>2. \/ node.pc = "no" /\ node'.pc = "logger" /\ node'.i = node.i
          \/ node.pc # "no" /\ node'.pc = "no" /\ node'.i = node.i + 1
          \/ node.pc # "no" /\ node'.pc # "no" /\ node'.i = node.i
      <4>1. node.pc \in InitPcs \cup {"no"}
        BY <1>1, <1>5 DEF NodeInv, Whereabouts
      <4>2. node.pc \in InitPcs /\ node.pc # "OnInit" => NextInit # "no"
        BY InitOrder
      <4> QED
        BY <1>5, <2>4, <4>1, <4>2 DEF InitMoves
    <3>3. svc'[t].status = "Init" <=> t < node'.i \/ (t = node'.i /\ node'.pc # "no")
      BY <1>2, <1>3, <2>1, <3>1, <3>2
    <3> QED
      BY <2>2, <2>4, <3>3 DEF ServiceSound, Serving, Unwound
  <2> QED
    BY <1>5, <2>3, <2>4 DEF InitMoves
<1> QED
  BY <1>1, <1>4, <1>5

\* Service.Start goes through the services in order; a failure turns to the rollback.
LEMMA ServiceStepByStart ==
    ASSUME NodeInv, ServiceStart, NEW t \in Services \ overlapped'
    PROVE  ServiceSound(t)'
<1>1. /\ node.at = "start" /\ UNCHANGED <<stops, overlapped>> /\ node.i \in Services /\ StartMoves(svc[node.i])
      /\ ServiceSound(t) /\ svc[t].status \in Statuses
  BY ServiceStartMoves DEF NodeInv, NodeTypeOK, SvcRecord
<1>2. t \in Int /\ node.i \in Int /\ NumServices \in Nat /\ t <= NumServices
  BY <1>1, NodeLifeAssumption DEF Services
<1>3. node'.at \in {"start", "rollback", "up"} /\ ~Unwound' /\ (Serving' <=> node'.at = "up")
  <2>1. node'.at \in {"start", "rollback", "up"}
    BY <1>1 DEF StartMoves
  <2> QED
    BY <2>1 DEF Unwound, Serving
<1>4. CASE t # node.i
  <2>1. svc'[t] = svc[t]
    BY <1>1, <1>4 DEF StartMoves, Moved
  <2>2. \/ node'.at = "start" /\ node'.i = node.i
        \/ node'.at = "start" /\ node'.i = node.i + 1 /\ node'.pc = "no"
        \/ node'.at = "rollback" /\ node'.i = node.i - 1
        \/ node'.at = "up" /\ node.i = NumServices
    BY <1>1 DEF StartMoves
  <2>3. (t < node.i => Ended(t)) /\ (t > node.i => svc[t].status = "Init" /\ svc[t].listed = "no")
    BY <1>1 DEF ServiceSound
  <2>4. svc[t].status = "Closed" => svc[t].released /\ svc[t].own = {} /\ svc[t].listed = "no"
    BY <1>1 DEF ServiceSound
  <2>5. CASE t < node.i
    <3>1. Ended(t)' /\ svc'[t].status \notin {"Unknown", "Init", "Starting"}
      BY <2>1, <2>3, <2>5 DEF Ended
    <3>2. /\ node'.at = "start" => node'.i \in Int /\ t < node'.i
          /\ node'.at = "rollback" => node'.i \in Int /\ t <= node'.i
      BY <1>2, <2>2, <2>5
    <3> QED
      BY <1>2, <1>3, <2>1, <2>4, <3>1, <3>2 DEF ServiceSound
  <2>6. CASE t > node.i
    <3>1. svc'[t].status = "Init" /\ svc'[t].listed = "no" /\ Over(t)'
      BY <2>1, <2>3, <2>6 DEF Over
    <3>2. CASE node'.at = "start"
      <4>1. node'.i \in Int /\ t >= node'.i /\ (t = node'.i => node'.pc = "no")
        BY <1>2, <2>2, <2>6, <3>2
      <4>2. t = node'.i => StatusAt(t)'
        BY <3>1, <4>1 DEF StatusAt
      <4> QED
        BY <1>2, <1>3, <3>1, <3>2, <4>1, <4>2 DEF ServiceSound
    <3>3. CASE node'.at = "rollback"
      <4>1. node'.i \in Int /\ t > node'.i
        BY <1>2, <2>2, <2>6, <3>3
      <4> QED
        BY <1>2, <1>3, <3>1, <3>3, <4>1 DEF ServiceSound
    <3>4. node'.at # "up"
      BY <1>2, <2>2, <2>6
    <3> QED
      BY <1>3, <3>2, <3>3, <3>4
  <2> QED
    BY <1>2, <1>4, <2>5, <2>6
<1>5. CASE t = node.i
  <2>1. /\ StatusAt(t) /\ node.pc \in StartPcs
        /\ svc[t].status \in {"Unknown", "Init", "Starting"} => svc[t].listed = "no"
    BY <1>1, <1>2, <1>5 DEF ServiceSound, NodeInv, Whereabouts
  <2>2. node.pc = "no" => svc[t].status = "Init"
    BY <2>1 DEF StatusAt
  <2>3. node.pc \in {"mailbox", "OnStart", "loadRunning", "storeRunning"} =>
          svc[t].status = "Starting" /\ svc[t].listed = "no"
    BY <2>1 DEF StatusAt
  <2>4. node.pc \in {"list", "OnStarted", "unlist", "loadReady", "storeReady"} => svc[t].status = "Running"
    BY <2>1 DEF StatusAt
  <2>5. node.pc = "ready" => svc[t].status = "Ready"
    BY <2>1 DEF StatusAt
  <2>6. node.pc = "release" => svc[t].status \in {"Starting", "Running"} /\ svc[t].listed = "no"
    BY <2>1 DEF StatusAt
  <2>7. CASE node.pc \in {"no", "mailbox", "OnStart", "loadRunning", "storeRunning"}
    <3>1. /\ node'.at = "start" /\ node'.i = t /\ svc'[t].listed = "no"
          /\ \/ node'.pc \in {"mailbox", "OnStart", "loadRunning", "storeRunning", "release"}
                /\ svc'[t].status = "Starting"
             \/ node'.pc = "list" /\ svc'[t].status = "Running"
      BY <1>1, <1>5, <2>1, <2>2, <2>3, <2>7 DEF StartMoves, Moved
    <3>2. StatusAt(t)'
      BY <3>1 DEF StatusAt
    <3> QED
      BY <1>2, <1>3, <3>1, <3>2 DEF ServiceSound
  <2>8. CASE node.pc \in {"list", "OnStarted", "unlist", "loadReady", "storeReady"}
    <3>1. /\ node'.at = "start" /\ node'.i = t
          /\ \/ node'.pc \in {"OnStarted", "unlist", "loadReady", "storeReady"} /\ svc'[t].status = "Running"
             \/ node'.pc = "ready" /\ svc'[t].status = "Ready"
             \/ node'.pc = "release" /\ svc'[t].status = "Running" /\ svc'[t].listed = "no"
      BY <1>1, <1>5, <2>4, <2>8 DEF StartMoves, Moved
    <3>2. StatusAt(t)'
      BY <3>1 DEF StatusAt
    <3> QED
      BY <1>2, <1>3, <3>1, <3>2 DEF ServiceSound
  <2>9. CASE node.pc = "ready"
    <3>1. /\ svc'[t].status = "Ready"
          /\ \/ node'.at = "up" \/ (node'.at = "start" /\ node'.i = t + 1 /\ node'.pc = "no")
      BY <1>1, <1>5, <2>5, <2>9 DEF StartMoves, Moved
    <3> QED
      BY <1>2, <1>3, <3>1 DEF ServiceSound, Ended
  <2>10. CASE node.pc = "release"
    <3>1. /\ svc'[t].status = "Closed" /\ svc'[t].listed = "no" /\ svc'[t].own = {} /\ svc'[t].released
          /\ node'.at = "rollback" /\ node'.i = t - 1
      BY <1>1, <1>5, <2>6, <2>10 DEF StartMoves, Moved
    <3> QED
      BY <1>2, <1>3, <3>1 DEF ServiceSound, Over
  <2> QED
    BY <2>1, <2>7, <2>8, <2>9, <2>10 DEF StartPcs
<1> QED
  BY <1>4, <1>5

\* Every step keeps every service as far as the node says.
LEMMA ServicesStep ==
    ASSUME NodeInv, NodeNext
    PROVE  \A t \in Services \ overlapped' : ServiceSound(t)'
<1>0. NodeTypeOK /\ Whereabouts /\ ComponentsKept /\ CallsKept
  BY DEF NodeInv
<1>1. CASE NodeStart \/ StepDone \/ StepFails \/ Rollback \/ Undo \/ NodeStop \/ StopStep \/ StopAll
        \/ NodeStopped
  <2> SUFFICES ASSUME NEW t \in Services \ overlapped' PROVE ServiceSound(t)'
    OBVIOUS
  <2>1. UNCHANGED <<svc, overlapped>> /\ NodeQuiet /\ ServiceSound(t)
    BY <1>0, <1>1, NodeQuietMoves DEF NodeInv
  <2>2. t \in Int /\ NumServices \in Nat \ {0} /\ 1 <= t /\ t <= NumServices
    BY NodeLifeAssumption DEF Services
  <2>3. /\ svc[t].status = "Closed" => svc[t].released /\ svc[t].own = {} /\ svc[t].listed = "no"
        /\ svc[t].status \in {"Unknown", "Init", "Starting"} => svc[t].listed = "no"
        /\ node.at \in {"new", "steps"} => svc[t].status = "Unknown"
        /\ Serving => Ended(t)
        /\ Unwound => Over(t)
    BY <2>1 DEF ServiceSound
  <2>4. CASE node.at \in {"new", "steps", "undo"}
    BY <2>1, <2>2, <2>3, <2>4 DEF NodeQuiet, ServiceSound, Over, Unwound, Serving
  <2>5. CASE node.at = "up"
    <3>1. node'.at = "stop" /\ "services" \in Recorded'
      BY <1>0, <2>1, <2>5 DEF NodeQuiet, ComponentsKept
    <3> QED
      BY <2>1, <2>3, <2>5, <3>1 DEF ServiceSound, Ended, Unwound, Serving
  <2>6. CASE node.at = "stop"
    BY <2>1, <2>2, <2>3, <2>6 DEF NodeQuiet, ServiceSound, Ended, Over, Unwound, Serving
  <2>7. CASE node.at \in {"rollback", "stopAll"}
    <3>1. (t <= node.i => Ended(t)) /\ (t > node.i => Over(t) \/ (Calling("node") /\ stops["node"].of = t))
      BY <2>1, <2>7 DEF ServiceSound
    <3>2. stops["node"] = NoCall => ~Calling("node")
      BY DEF NoCall, Calling
    <3>3. CASE node.i = 0
      <4>1. Over(t) /\ node'.at \in {"undo", "stop"} /\ ~Serving'
        BY <2>1, <2>2, <2>7, <3>1, <3>2, <3>3 DEF NodeQuiet, Serving, Services
      <4> QED
        BY <2>1, <2>3, <4>1 DEF ServiceSound, Over
    <3>4. CASE node.i # 0
      <4>1. /\ node'.at = node.at /\ node'.i = node.i - 1 /\ node.i \in Services /\ stops["node"] = NoCall
            /\ Calling("node")' /\ stops'["node"].of = node.i
        BY <2>1, <2>7, <3>4 DEF NodeQuiet, Calling
      <4>2. node.i \in Int /\ ~Serving' /\ ~Unwound'
        BY <2>7, <4>1 DEF Services, Serving, Unwound
      <4> QED
        BY <2>1, <2>2, <2>3, <2>7, <3>1, <3>2, <4>1, <4>2 DEF ServiceSound, Over, Ended
    <3> QED
      BY <3>3, <3>4
  <2> QED
    BY <2>1, <2>4, <2>5, <2>6, <2>7 DEF NodeQuiet
<1>2. ASSUME NEW s \in Services, UserStop(s) \/ PostToService(s) \/ RunJob(s)
      PROVE  \A t \in Services \ overlapped' : ServiceSound(t)'
  <2> SUFFICES ASSUME NEW t \in Services \ overlapped' PROVE ServiceSound(t)'
    OBVIOUS
  <2>1. UNCHANGED <<node, svc, cleanups>> /\ overlapped \subseteq overlapped' /\ stops'["node"] = stops["node"]
    BY <1>0, <1>2 DEF UserStop, PostToService, RunJob, Call, Callers, NodeTypeOK
  <2>2. Recorded' = Recorded
    BY <2>1 DEF Recorded
  <2>3. ServiceSound(t)
    BY <2>1 DEF NodeInv
  <2> QED
    BY <2>1, <2>2, <2>3 DEF ServiceSound, Ended, Over, Serving, Unwound, Calling, StatusAt
<1> QED
  BY <1>1, <1>2, ServiceStepByStop, ServiceStepByInit, ServiceStepByStart DEF NodeNext

\* A service has nothing of its own before it has a mailbox, but while it makes them.
LEMMA HoldingsStep ==
    ASSUME NodeInv, NodeNext
    PROVE  MailboxMade' /\ \A t \in Services : InitHolds(t)'
<1>0. /\ NodeTypeOK /\ Whereabouts /\ ComponentsKept /\ CallsKept
      /\ MailboxMade /\ \A t \in Services : InitHolds(t)
  BY DEF NodeInv
<1>1. CASE NodeStart \/ StepDone \/ StepFails \/ Rollback \/ Undo \/ NodeStop \/ StopStep \/ StopAll
        \/ NodeStopped
  <2>1. svc' = svc /\ NodeQuiet
    BY <1>0, <1>1, NodeQuietMoves
  <2>2. node.at # "init" /\ (node'.at = "init" => node'.pc = "no")
    BY <2>1 DEF NodeQuiet
  <2> QED
    BY <1>0, <2>1, <2>2 DEF InitHolds, MailboxMade
<1>2. ASSUME NEW s \in Services, UserStop(s) \/ PostToService(s) \/ RunJob(s)
      PROVE  MailboxMade' /\ \A t \in Services : InitHolds(t)'
  <2>1. UNCHANGED <<node, svc>>
    BY <1>2 DEF UserStop, PostToService, RunJob
  <2> QED
    BY <1>0, <2>1 DEF InitHolds, MailboxMade
<1>3. ASSUME NEW c \in Callers, ServiceStop(c) PROVE MailboxMade' /\ \A t \in Services : InitHolds(t)'
  <2>1. stops[c].of \in Services /\ node' = node /\ CallMoves(c, stops[c].of, svc[stops[c].of])
    BY <1>0, <1>3, StopMoves
  <2>2. \A t \in Services : /\ svc'[t].mailbox = "no" <=> svc[t].mailbox = "no"
                            /\ svc'[t].own # {} => svc[t].own # {}
    BY <2>1 DEF CallMoves, Moved
  <2>3. node.at = "init" /\ node.pc \in {"tasks", "pid", "rpc", "visibility", "OnInit"} => node.i \in Services
    BY <1>0 DEF Whereabouts
  <2> QED
    BY <1>0, <2>1, <2>2, <2>3 DEF InitHolds, MailboxMade
<1>4. CASE ServiceStart
  <2>1. node.at = "start" /\ node.i \in Services /\ StartMoves(svc[node.i])
    BY <1>0, <1>4, ServiceStartMoves
  <2>2. \A t \in Services : svc'[t].mailbox = "no" /\ svc'[t].own # {} => svc[t].mailbox = "no" /\ svc[t].own # {}
    BY <2>1 DEF StartMoves, Moved
  <2>3. node'.at # "init"
    BY <2>1 DEF StartMoves
  <2> QED
    BY <1>0, <2>1, <2>2, <2>3 DEF InitHolds, MailboxMade
<1>5. CASE InitService
  <2>1. /\ node.at = "init"
        /\ \/ node.i = NumServices + 1 /\ node.pc = "no" /\ svc' = svc
              /\ node' = [at |-> "start", i |-> 1, pc |-> "no"]
           \/ node.i \in Services /\ InitMoves(svc[node.i])
    BY <1>0, <1>5, InitServiceMoves
  <2>2. CASE node.pc = "no" /\ svc' = svc /\ node' = [at |-> "start", i |-> 1, pc |-> "no"]
    BY <1>0, <2>2 DEF InitHolds, MailboxMade
  <2>3. CASE node.i \in Services /\ InitMoves(svc[node.i])
    <3>1. \A t \in Services \ {node.i} : svc'[t] = svc[t]
      BY <2>3 DEF InitMoves, Moved
    <3>2. \A t \in Services \ {node.i} : ~(svc[t].mailbox = "no" /\ svc[t].own # {})
      BY <1>0 DEF InitHolds
    <3>3. node.pc \in InitPcs \cup {"no"}
      BY <1>0, <2>1, <2>3 DEF Whereabouts
    <3>4. CASE node'.at = "undo"
      <4>1. svc'[node.i].own = {}
        BY <2>3, <3>4 DEF InitMoves, Moved
      <4> QED
        BY <3>1, <3>2, <3>4, <4>1 DEF InitHolds, MailboxMade
    <3>5. CASE node.pc = "no"
      <4>1. node'.pc = "logger" /\ svc'[node.i].mailbox = svc[node.i].mailbox /\ svc'[node.i].own = svc[node.i].own
        BY <2>3, <3>5 DEF InitMoves, Moved
      <4>2. ~(svc[node.i].mailbox = "no" /\ svc[node.i].own # {})
        BY <1>0, <2>3, <3>5 DEF InitHolds
      <4> QED
        BY <3>1, <3>2, <4>1, <4>2 DEF InitHolds, MailboxMade
    <3>6. CASE node.pc = "OnInit" /\ node'.at = "init"
      <4>1. node'.pc = "no" /\ svc' = svc
        BY <2>3, <3>6 DEF InitMoves, Makes
      <4>2. svc[node.i].mailbox # "no"
        BY <1>0, <2>1, <3>6 DEF MailboxMade
      <4> QED
        BY <3>1, <3>2, <4>1, <4>2 DEF InitHolds, MailboxMade
    <3>7. CASE node.pc \in InitPcs /\ node.pc # "OnInit" /\ node'.at = "init"
      <4>1. node'.pc = NextInit /\ node'.i = node.i
        BY <2>3, <3>7 DEF InitMoves, InitPcs
      <4>2. NextInit \in {"logger", "timers", "mailbox"} => node.pc \in {"logger", "timers"}
        BY <3>7, InitOrder
      <4>3. CASE node.pc \in {"logger", "timers"}
        <5>1. NextInit \in {"logger", "timers", "mailbox"}
          BY <3>7, <4>3, InitOrder
        <5> QED
          BY <2>1, <3>1, <3>2, <3>7, <4>1, <5>1 DEF InitHolds, MailboxMade
      <4>4. CASE node.pc \notin {"logger", "timers"}
        <5>1. svc'[node.i].mailbox # "no"
          <6>1. node.pc # "mailbox" => svc[node.i].mailbox # "no"
            BY <1>0, <2>1, <3>7, <4>4 DEF MailboxMade, InitPcs
          <6>2. svc'[node.i].mailbox = svc[node.i].mailbox \/ (node.pc = "mailbox" /\ svc'[node.i].mailbox = "made")
            BY <2>3, <3>7 DEF InitMoves, Moved, InitPcs
          <6>3. node.pc = "mailbox" => svc'[node.i].mailbox = "made"
            BY <2>3, <3>7 DEF InitMoves, Moved, Makes
          <6> QED
            BY <6>1, <6>2, <6>3
        <5> QED
          BY <2>1, <3>1, <3>2, <3>7, <4>1, <5>1 DEF InitHolds, MailboxMade
      <4> QED
        BY <4>3, <4>4
    <3> QED
      BY <2>3, <3>3, <3>4, <3>5, <3>6, <3>7 DEF InitMoves
  <2> QED
    BY <2>1, <2>2, <2>3
<1> QED
  BY <1>1, <1>2, <1>3, <1>4, <1>5 DEF NodeNext

\* The invariant holds at the start.
LEMMA NodeInvInit == ASSUME NodeInit PROVE NodeInv
<1> USE NodeLifeAssumption DEF NodeInit
<1>1. Recorded = {} /\ Len(cleanups) = 0 /\ 1..Len(cleanups) = {}
  BY DEF Recorded
<1>2. NodeTypeOK
  <2>1. node \in NodeRecord
    BY DEF NodeRecord, Phases, StartPcs
  <2>2. [status |-> "Unknown", requested |-> FALSE, mailbox |-> "no", own |-> {}, released |-> FALSE,
         listed |-> "no"] \in SvcRecord
    BY DEF SvcRecord, Statuses, Mailboxes
  <2>3. svc \in [Services -> SvcRecord]
    BY <2>2
  <2>4. NoCall \in CallRecord /\ NoCall.at = "no"
    BY DEF NoCall, CallRecord
  <2> QED
    BY <2>1, <2>3, <2>4 DEF NodeTypeOK
<1>3. node.at = "new" /\ \A c \in Callers : ~Calling(c) /\ ~Past(c)
  BY DEF NoCall, Calling, Past, PastRequest
<1>4. Whereabouts /\ MailboxMade
  BY <1>3 DEF Whereabouts, MailboxMade
<1>5. ComponentsKept
  BY <1>1, <1>3 DEF ComponentsKept, NoRepeats, Serving
<1>6. CallsKept /\ \A c \in Callers : CallSound(c)
  BY <1>3 DEF CallsKept, CallSound, Callers
<1>7. \A s \in Services : ServiceSound(s) /\ InitHolds(s)
  BY <1>3 DEF ServiceSound, InitHolds, Over, Unwound, Serving
<1> QED
  BY <1>2, <1>4, <1>5, <1>6, <1>7 DEF NodeInv

\* Every step keeps the invariant.
LEMMA NodeInvStep == ASSUME NodeInv, [NodeNext]_nodeVars PROVE NodeInv'
<1>1. CASE NodeNext
  <2>1. (NodeTypeOK /\ Whereabouts)' /\ ComponentsKept'
    BY <1>1, NodeTypesStep, ComponentsStep DEF NodeInv, ComponentsKept
  <2> QED
    BY <1>1, <2>1, CallsStep, ServicesStep, HoldingsStep DEF NodeInv
<1>2. CASE UNCHANGED nodeVars
  <2>1. UNCHANGED <<node, svc, stops, cleanups, overlapped, up, leaked>>
    BY <1>2 DEF nodeVars
  <2>2. (NodeTypeOK /\ Whereabouts /\ MailboxMade)' /\ Recorded' = Recorded
    BY <2>1 DEF NodeInv, NodeTypeOK, Whereabouts, MailboxMade, Recorded
  <2>3. (ComponentsKept /\ CallsKept)'
    BY <2>1, <2>2 DEF NodeInv, ComponentsKept, CallsKept, NoRepeats, Serving, Calling, Past
  <2>4. \A c \in Callers : CallSound(c)'
    BY <2>1 DEF NodeInv, CallSound, Calling, Ended
  <2>5. \A s \in Services : InitHolds(s)'
    BY <2>1 DEF NodeInv, InitHolds
  <2>6. ASSUME NEW s \in Services \ overlapped' PROVE ServiceSound(s)'
    <3>1. ServiceSound(s)
      BY <2>1 DEF NodeInv
    <3> QED
      BY <2>1, <2>2, <3>1 DEF ServiceSound, Ended, Over, Serving, Unwound, Calling, StatusAt
  <2> QED
    BY <2>2, <2>3, <2>4, <2>5, <2>6 DEF NodeInv
<1> QED
  BY <1>1, <1>2

\* The invariant implies the property.
LEMMA NodeInvTeardown == ASSUME NodeInv PROVE TeardownSound
<1>1. TeardownComplete
  <2> SUFFICES ASSUME node.at \in {"failed", "stopped"} PROVE TeardownComplete
    BY DEF TeardownComplete
  <2>1. up = leaked
    BY DEF NodeInv, ComponentsKept
  <2>2. \A s \in Services \ overlapped : Over(s) /\ ServiceSound(s)
    BY DEF NodeInv, ServiceSound, Unwound
  <2>3. \A s \in Services : svc[s].mailbox = "no" => svc[s].own = {}
    BY DEF NodeInv, InitHolds
  <2> QED
    BY <2>1, <2>2, <2>3 DEF TeardownComplete, Over, ServiceSound
<1>2. TeardownOrdered
  <2> SUFFICES ASSUME NEW s \in Services \ overlapped, svc[s].status \in {"Starting", "Running", "Ready", "Closing"}
               PROVE  Needed \subseteq up
    BY DEF TeardownOrdered
  <2>1. ServiceSound(s) /\ ~Over(s)
    BY DEF NodeInv, Over
  <2>2. node.at \in Phases
    BY DEF NodeInv, NodeTypeOK, NodeRecord
  <2>3. node.at \in {"start", "rollback", "stopAll"} \/ Serving
    <3>1. node.at \notin {"new", "steps", "init"} /\ ~Unwound
      BY <2>1 DEF ServiceSound
    <3> QED
      BY <2>2, <3>1 DEF Unwound, Serving, Phases
  <2> QED
    BY <2>3 DEF NodeInv, ComponentsKept
<1> QED
  BY <1>1, <1>2 DEF TeardownSound

\* The invariant of Node.Start, Node.Stop, Service.Init, Service.Start and Service.Stop.
THEOREM NodeInvariant == NodeSpec => []NodeInv
BY NodeInvInit, NodeInvStep, PTL DEF NodeSpec

\* However the start of a node fails, and whenever it or other code stops a service, everything
\* that was brought up is taken down, services before what they use, but for a service whose Stop
\* overlapped its Start or another Stop (Node.Start, Node.Stop, ServiceManager.Start, Service.Stop).
THEOREM TeardownSoundHolds == NodeSpec => []TeardownSound
BY NodeInvariant, NodeInvTeardown, PTL

(***************************************************************************)
(* The tree of modules.  A release takes the least set of ids that is      *)
(* closed under children; that the index stays the tree needs in addition  *)
(* what is known of modules still in OnInit and of the ids given so far.   *)
(***************************************************************************)
ModTypeOK ==
    /\ idOf \in [Mods -> Nat] /\ parentOf \in [Mods -> Holders \cup {NoParent}]
    /\ idSeed \in Nat /\ initing \in Seq(Mods) /\ broken \in BOOLEAN
    /\ DOMAIN childrenOf = Holders
    /\ contains \in [DOMAIN contains -> Mods]
    /\ subscribed \subseteq Mods
\* Ids are given once: those in use are known, a module without an id has no parent, and a module
\* under its parent is in the index under the same id.
IdsUsed ==
    /\ DOMAIN contains \subseteq usedIds
    /\ \A o \in Holders : DOMAIN childrenOf[o] \subseteq usedIds
    /\ \A m \in Mods : idOf[m] = 0 => parentOf[m] = NoParent
    /\ \A m \in Mods : Attached(m) => idOf[m] \in DOMAIN contains /\ contains[idOf[m]] = m
    /\ 0 \notin usedIds
\* What TreeExact says of one id of the index.
ContainedSound(i) ==
    LET m == contains[i] IN
    /\ idOf[m] = i /\ Attached(m)
    /\ parentOf[m] \in {Root} \cup Range(contains) \cup Range(initing)
\* A module in OnInit has an id of its own, under which it is nowhere yet, and its parent is the
\* service, a module of the index or one whose OnInit runs around its own.
InitingSound(k) ==
    LET m == initing[k] IN
    /\ idOf[m] \in usedIds /\ idOf[m] \notin DOMAIN contains
    /\ \A o \in Holders : idOf[m] \notin DOMAIN childrenOf[o]
    /\ parentOf[m] \in {Root} \cup Range(contains) \cup {initing[j] : j \in 1..(k - 1)}
    /\ \A j \in 1..(k - 1) : initing[j] # m /\ idOf[initing[j]] # idOf[m]
\* Nothing is claimed once an id was given twice or a failed OnInit left modules behind.
TreeInv ==
    /\ IdsUsed
    /\ \A i \in DOMAIN contains : ContainedSound(i)
    /\ \A k \in DOMAIN initing : InitingSound(k)
    /\ subscribed \subseteq Range(contains) \cup Range(initing)
ModInv == ModTypeOK /\ (~broken => TreeInv) /\ reply # "misfit"

\* A sequence without its last element.
LEMMA FrontFacts ==
    ASSUME NEW X, NEW s \in Seq(X), s # <<>>
    PROVE  /\ Front(s) \in Seq(X) /\ Len(Front(s)) = Len(s) - 1 /\ Len(s) \in Nat \ {0}
           /\ \A k \in 1..(Len(s) - 1) : Front(s)[k] = s[k]
           /\ Last(s) = s[Len(s)] /\ Last(s) \in X
           /\ Range(s) = Range(Front(s)) \cup {Last(s)}
<1>1. /\ Front(s) \in Seq(X) /\ Len(Front(s)) = Len(s) - 1 /\ Len(s) \in Nat \ {0}
      /\ \A k \in 1..(Len(s) - 1) : Front(s)[k] = s[k]
  <2> DEFINE n == Len(s) - 1
  <2>1. Len(s) \in Nat \ {0} /\ \A k \in 1..Len(s) : s[k] \in X
    OBVIOUS
  <2>2. n \in Nat /\ 1 \in Int /\ n \in Int /\ \A k \in 1..n : s[k] \in X
    BY <2>1
  <2>3. Front(s) = SubSeq(s, 1, n)
    BY DEF Front
  <2> HIDE DEF n
  <2>4. /\ SubSeq(s, 1, n) \in Seq(X) /\ Len(SubSeq(s, 1, n)) = IF 1 <= n THEN n - 1 + 1 ELSE 0
        /\ \A k \in 1..(n - 1 + 1) : SubSeq(s, 1, n)[k] = s[1 + k - 1]
    BY <2>2, SubSeqProperties
  <2>5. /\ SubSeq(s, 1, n) \in Seq(X) /\ Len(SubSeq(s, 1, n)) = n
        /\ \A k \in 1..n : SubSeq(s, 1, n)[k] = s[k]
    BY <2>2, <2>4
  <2>6. QED
    BY <2>1, <2>3, <2>5 DEF n
<1>2. Last(s) = s[Len(s)] /\ Last(s) \in X
  BY <1>1 DEF Last
<1>3. Range(s) = Range(Front(s)) \cup {Last(s)}
  <2>1. DOMAIN s = 1..Len(s) /\ DOMAIN Front(s) = 1..(Len(s) - 1)
    BY <1>1
  <2> HIDE DEF Front
  <2>2. QED
    BY <1>1, <1>2, <2>1 DEF Range
<1>4. QED
  BY <1>1, <1>2, <1>3

\* What is below a module is released with it.
LEMMA SubtreeClosed ==
    ASSUME NEW i
    PROVE  /\ SubtreeIds(i) \subseteq DOMAIN contains
           /\ i \in DOMAIN contains => i \in SubtreeIds(i)
           /\ \A j \in SubtreeIds(i) :
                \A k \in DOMAIN childrenOf[contains[j]] \cap DOMAIN contains : k \in SubtreeIds(i)
BY DEF SubtreeIds

\* Only the service is there at first.
LEMMA ModInitially == ModInit => ModInv
<1> SUFFICES ASSUME ModInit PROVE ModInv
  OBVIOUS
<1>1. ModTypeOK
  <2>1. /\ idOf \in [Mods -> Nat] /\ parentOf \in [Mods -> Holders \cup {NoParent}]
        /\ idSeed \in Nat /\ DOMAIN childrenOf = Holders
    BY DEF ModInit
  <2>2. contains \in [DOMAIN contains -> Mods] /\ initing \in Seq(Mods)
    BY DEF ModInit
  <2>3. broken \in BOOLEAN /\ subscribed \subseteq Mods
    BY DEF ModInit
  <2>4. QED
    BY <2>1, <2>2, <2>3 DEF ModTypeOK
<1>2. DOMAIN contains = {} /\ DOMAIN initing = {} /\ \A o \in Holders : DOMAIN childrenOf[o] = {}
  BY DEF ModInit
<1>3. \A m \in Mods : ~Attached(m)
  BY DEF ModInit, Attached
<1>4. IdsUsed
  BY <1>2, <1>3 DEF ModInit, IdsUsed
<1>5. subscribed = {} /\ reply # "misfit"
  BY DEF ModInit
<1>6. QED
  BY <1>1, <1>2, <1>4, <1>5 DEF ModInv, TreeInv

\* A step that leaves the tree as it is, with the modules that are in OnInit.
LEMMA TreeSame ==
    ASSUME TreeInv, UNCHANGED <<parentOf, childrenOf, contains, initing, usedIds>>,
           \A m \in Mods : idOf'[m] = idOf[m] \/ (parentOf[m] = NoParent /\ idOf'[m] # 0),
           \A i \in DOMAIN contains : contains[i] \in Mods, initing \in Seq(Mods),
           \A k \in DOMAIN initing : idOf'[initing[k]] = idOf[initing[k]],
           subscribed' \subseteq subscribed \cup Range(initing)
    PROVE  TreeInv'
<1>1. \A m \in Mods : Attached(m)' => Attached(m) /\ idOf'[m] = idOf[m]
  BY DEF Attached
<1>2. IdsUsed'
  BY <1>1 DEF TreeInv, IdsUsed
<1>3. \A i \in DOMAIN contains : ContainedSound(i)'
  BY DEF TreeInv, ContainedSound, Attached
<1>4. \A k \in DOMAIN initing : InitingSound(k)'
  <2> TAKE k \in DOMAIN initing
  <2>1. InitingSound(k) /\ k \in 1..Len(initing) /\ Len(initing) \in Nat
    BY DEF TreeInv
  <2>2. \A j \in 1..(k - 1) : j \in DOMAIN initing
    BY <2>1
  <2>3. QED
    BY <2>1, <2>2 DEF InitingSound
<1>5. QED
  BY <1>2, <1>3, <1>4 DEF TreeInv

\* SetModuleID touches a module that has neither id nor parent.
LEMMA SetIdKeeps ==
    ASSUME ModInv, NEW m \in Mods, NEW i \in ManualIds, SetModuleID(m, i)
    PROVE  ModInv'
<1>1. i \in Nat \ {0}
  BY ModulesAssumption
<1>2. ModTypeOK' /\ reply' # "misfit"
  BY <1>1 DEF ModInv, ModTypeOK, SetModuleID
<1>3. ASSUME ~broken' PROVE TreeInv'
  <2>1. TreeInv /\ ModTypeOK
    BY <1>3 DEF ModInv, SetModuleID
  <2>2. DOMAIN initing = {}
    BY DEF SetModuleID
  <2>3. \A n \in Mods : idOf'[n] = idOf[n] \/ (parentOf[n] = NoParent /\ idOf'[n] # 0)
    BY <1>1, <2>1 DEF SetModuleID, TreeInv, IdsUsed, ModTypeOK
  <2>4. QED
    BY <2>1, <2>2, <2>3, TreeSame DEF SetModuleID, ModTypeOK
<1>4. QED
  BY <1>2, <1>3 DEF ModInv

\* The module that runs is the service, one in the index, or the one in OnInit.
LEMMA RunningKnown ==
    ASSUME ModTypeOK, TreeInv, NEW p \in Running
    PROVE  p \in {Root} \cup Range(contains) \cup Range(initing)
<1>1. CASE initing = <<>>
  <2>1. p = Root \/ (p \in Mods /\ Attached(p))
    BY <1>1 DEF Running
  <2>2. QED
    BY <2>1 DEF TreeInv, IdsUsed, Range
<1>2. CASE initing # <<>>
  BY <1>2, FrontFacts DEF Running, ModTypeOK
<1>3. QED
  BY <1>1, <1>2

\* A sequence with one element more.
LEMMA AppendRange ==
    ASSUME NEW X, NEW s \in Seq(X), NEW x \in X
    PROVE  Range(Append(s, x)) = Range(s) \cup {x}
<1>1. /\ DOMAIN Append(s, x) = 1..(Len(s) + 1) /\ DOMAIN s = 1..Len(s) /\ Len(s) \in Nat
      /\ Append(s, x)[Len(s) + 1] = x /\ \A j \in 1..Len(s) : Append(s, x)[j] = s[j]
  OBVIOUS
<1>2. QED
  BY <1>1 DEF Range

\* AddModule gives an id nobody had, or the history says so, and puts the module behind its parent.
LEMMA AddKeepsTree ==
    ASSUME ModInv, NEW p \in Holders, NEW m \in Mods, AddModule(p, m)
    PROVE  ModInv'
<1> DEFINE i == IF idOf[m] = 0 THEN idSeed + 1 ELSE idOf[m]
<1>1. ModTypeOK /\ reply' # "misfit" /\ UNCHANGED <<childrenOf, contains, subscribed>>
  BY DEF ModInv, AddModule
<1>2. i \in Nat \ {0} /\ idOf' = [idOf EXCEPT ![m] = i] /\ idSeed' \in Nat
  BY <1>1 DEF ModTypeOK, AddModule
<1>3. p \in Running /\ ~Attached(m) /\ m \notin Range(initing) /\ (idOf[m] # 0 => i = idOf[m])
  BY DEF AddModule
<1>0. IF i \in DOMAIN childrenOf[p]
      THEN UNCHANGED <<parentOf, initing, usedIds, broken>>
      ELSE /\ parentOf' = [parentOf EXCEPT ![m] = p]
           /\ initing' = Append(initing, m) \/ initing' = initing
           /\ usedIds' = usedIds \cup {i}
           /\ broken' = (broken \/ i \in usedIds)
  BY DEF AddModule
<1> HIDE DEF i
<1>4. ModTypeOK'
  <2>1. idOf' \in [Mods -> Nat]
    BY <1>1, <1>2 DEF ModTypeOK
  <2>2. parentOf' \in [Mods -> Holders \cup {NoParent}]
    <3>1. parentOf' = parentOf \/ parentOf' = [parentOf EXCEPT ![m] = p]
      BY <1>0
    <3>2. parentOf \in [Mods -> Holders \cup {NoParent}]
      BY <1>1 DEF ModTypeOK
    <3>3. QED
      BY <3>1, <3>2
  <2>3. initing' \in Seq(Mods)
    <3>1. initing' = Append(initing, m) \/ initing' = initing
      BY <1>0
    <3>2. initing \in Seq(Mods) /\ Append(initing, m) \in Seq(Mods)
      BY <1>1 DEF ModTypeOK
    <3>3. QED
      BY <3>1, <3>2
  <2>4. broken' \in BOOLEAN
    BY <1>1, <1>0 DEF ModTypeOK
  <2>5. QED
    BY <1>1, <1>2, <2>1, <2>2, <2>3, <2>4 DEF ModTypeOK
<1>5. ASSUME ~broken' PROVE TreeInv'
  <2>1. TreeInv
    BY <1>5, <1>0 DEF ModInv
  <2>2. \A n \in Mods \ {m} : idOf'[n] = idOf[n]
    BY <1>1, <1>2 DEF ModTypeOK
  <2>3. \A k \in DOMAIN initing : initing[k] \in Mods \ {m}
    BY <1>1, <1>3 DEF ModTypeOK, Range
  <2>4. \A j \in DOMAIN contains : contains[j] \in Mods \ {m}
    BY <1>1, <1>3, <2>1 DEF ModTypeOK, TreeInv, ContainedSound
  <2>5. CASE i \in DOMAIN childrenOf[p]
    <3>1. idOf'[m] = idOf[m] \/ (parentOf[m] = NoParent /\ idOf'[m] # 0)
      BY <1>1, <1>2, <1>3, <2>1 DEF ModTypeOK, TreeInv, IdsUsed
    <3>2. \A n \in Mods : idOf'[n] = idOf[n] \/ (parentOf[n] = NoParent /\ idOf'[n] # 0)
      BY <2>2, <3>1
    <3>3. QED
      BY <1>1, <1>0, <2>1, <2>2, <2>3, <2>4, <2>5, <3>2, TreeSame DEF ModTypeOK
  <2>6. CASE i \notin DOMAIN childrenOf[p]
    <3>1. /\ i \notin usedIds /\ usedIds' = usedIds \cup {i} /\ parentOf' = [parentOf EXCEPT ![m] = p]
          /\ idOf'[m] = i /\ parentOf'[m] = p
          /\ \A n \in Mods \ {m} : parentOf'[n] = parentOf[n]
          /\ p \in {Root} \cup Range(contains) \cup Range(initing)
      BY <1>1, <1>2, <1>3, <1>5, <1>0, <2>1, <2>6, RunningKnown DEF ModTypeOK
    <3>2. i \notin DOMAIN contains /\ \A o \in Holders : i \notin DOMAIN childrenOf[o]
      BY <2>1, <3>1 DEF TreeInv, IdsUsed
    <3>3. ~Attached(m)' /\ \A n \in Mods \ {m} : Attached(n)' <=> Attached(n)
      BY <1>1, <2>2, <3>1, <3>2 DEF Attached
    <3>4. IdsUsed'
      BY <1>1, <1>2, <2>1, <2>2, <3>1, <3>2, <3>3 DEF TreeInv, IdsUsed
    <3>5. Range(initing) \subseteq Range(initing')
      <4>1. initing' = Append(initing, m) \/ initing' = initing
        BY <1>0
      <4>2. initing \in Seq(Mods) /\ Range(Append(initing, m)) = Range(initing) \cup {m}
        BY <1>1, AppendRange DEF ModTypeOK
      <4>3. QED
        BY <4>1, <4>2
    <3>6. \A j \in DOMAIN contains : ContainedSound(j)'
      BY <1>1, <2>1, <2>2, <2>4, <3>1, <3>3, <3>5 DEF TreeInv, ContainedSound
    <3>7. \A k \in DOMAIN initing : InitingSound(k) /\ k \in 1..Len(initing) /\ Len(initing) \in Nat
      BY <1>1, <2>1 DEF TreeInv, ModTypeOK
    <3>8. ASSUME NEW k \in DOMAIN initing, \A j \in 1..k : initing'[j] = initing[j] PROVE InitingSound(k)'
      <4>1. \A j \in 1..k : j \in DOMAIN initing
        BY <1>1, <3>7 DEF ModTypeOK
      <4>2. initing'[k] = initing[k] /\ initing[k] \in Mods \ {m} /\ idOf[initing[k]] # i
        BY <2>3, <3>1, <3>7, <3>8 DEF InitingSound
      <4>3. {initing'[j] : j \in 1..(k - 1)} = {initing[j] : j \in 1..(k - 1)}
        BY <3>7, <3>8
      <4>4. \A j \in 1..(k - 1) : initing'[j] = initing[j] /\ initing[j] \in Mods \ {m}
        BY <2>3, <3>7, <3>8, <4>1
      <4>5. parentOf'[initing[k]] \in {Root} \cup Range(contains') \cup {initing'[j] : j \in 1..(k - 1)}
        BY <1>1, <3>1, <3>7, <4>2, <4>3 DEF InitingSound
      <4>6. /\ idOf'[initing[k]] \in usedIds' /\ idOf'[initing[k]] \notin DOMAIN contains'
            /\ \A o \in Holders : idOf'[initing[k]] \notin DOMAIN childrenOf'[o]
        BY <1>1, <2>2, <3>1, <3>7, <4>2 DEF InitingSound
      <4>7. \A j \in 1..(k - 1) : initing'[j] # initing[k] /\ idOf'[initing'[j]] # idOf'[initing[k]]
        BY <2>2, <3>7, <4>2, <4>4 DEF InitingSound
      <4>8. QED
        BY <4>2, <4>5, <4>6, <4>7 DEF InitingSound
    <3>9. CASE initing' = initing
      <4>1. \A k \in DOMAIN initing' : InitingSound(k)'
        BY <3>8, <3>9
      <4>2. QED
        BY <1>1, <2>1, <3>4, <3>5, <3>6, <4>1 DEF TreeInv
    <3>10. CASE initing' = Append(initing, m)
      <4>1. /\ DOMAIN initing' = 1..(Len(initing) + 1) /\ Len(initing) \in Nat /\ DOMAIN initing = 1..Len(initing)
            /\ initing'[Len(initing) + 1] = m /\ \A j \in 1..Len(initing) : initing'[j] = initing[j]
        BY <1>1, <3>10 DEF ModTypeOK
      <4>2. \A k \in DOMAIN initing : InitingSound(k)'
        BY <3>8, <4>1
      <4>3. ASSUME NEW k \in Nat, k = Len(initing) + 1 PROVE InitingSound(k)'
        <5>1. Range(initing) = {initing'[j] : j \in 1..Len(initing)}
          BY <4>1 DEF Range
        <5>2. \A j \in 1..Len(initing) : initing'[j] # m /\ idOf'[initing'[j]] # i
          BY <2>2, <2>3, <3>1, <3>7, <4>1 DEF InitingSound
        <5>3. k - 1 = Len(initing) /\ initing'[k] = m
          BY <4>1, <4>3
        <5>4. /\ idOf'[m] \in usedIds' /\ idOf'[m] \notin DOMAIN contains'
              /\ \A o \in Holders : idOf'[m] \notin DOMAIN childrenOf'[o]
              /\ parentOf'[m] \in {Root} \cup Range(contains') \cup {initing'[j] : j \in 1..Len(initing)}
          BY <1>1, <3>1, <3>2, <5>1
        <5>5. QED
          BY <3>1, <5>2, <5>3, <5>4 DEF InitingSound
      <4>4. \A k \in DOMAIN initing' : InitingSound(k)'
        BY <4>1, <4>2, <4>3
      <4>5. QED
        BY <1>1, <2>1, <3>4, <3>5, <3>6, <4>4 DEF TreeInv
    <3>11. QED
      BY <1>0, <2>6, <3>9, <3>10
  <2>7. QED
    BY <2>5, <2>6
<1>6. QED
  BY <1>1, <1>4, <1>5 DEF ModInv

\* OnInit returns: the module enters the index, or goes and had nothing below it.
LEMMA ReturnKeeps ==
    ASSUME ModInv, NEW ok \in BOOLEAN, InitReturns(ok)
    PROVE  ModInv'
<1> DEFINE m == Last(initing)
           i == idOf[m]
           p == parentOf[m]
           n == Len(initing)
<1>1. /\ ModTypeOK /\ reply' # "misfit" /\ initing # <<>>
      /\ UNCHANGED <<idOf, parentOf, idSeed, subscribed, usedIds>> /\ initing' = Front(initing)
  BY DEF ModInv, InitReturns
<1>2. /\ initing' \in Seq(Mods) /\ n \in Nat \ {0} /\ DOMAIN initing = 1..n /\ DOMAIN initing' = 1..(n - 1)
      /\ (\A k \in 1..(n - 1) : initing'[k] = initing[k]) /\ m = initing[n] /\ m \in Mods
      /\ Range(initing) = Range(initing') \cup {m}
  <2>1. initing \in Seq(Mods)
    BY <1>1 DEF ModTypeOK
  <2>2. DOMAIN initing = 1..Len(initing) /\ DOMAIN Front(initing) = 1..Len(Front(initing))
    BY <1>1, <2>1, FrontFacts
  <2>3. QED
    BY <1>1, <2>1, <2>2, FrontFacts
<1> HIDE DEF m, n
<1>3. i \in Nat /\ p \in Holders \cup {NoParent}
  BY <1>1, <1>2 DEF ModTypeOK
<1>4. CASE ok
  <2>1. /\ childrenOf' = [childrenOf EXCEPT ![p] = Put(@, i, m)] /\ contains' = Put(contains, i, m)
        /\ broken' = broken
    BY <1>4 DEF InitReturns, m
  <2>2. /\ DOMAIN contains' = DOMAIN contains \cup {i} /\ contains'[i] = m
        /\ (\A j \in DOMAIN contains \ {i} : contains'[j] = contains[j]) /\ contains' \in [DOMAIN contains' -> Mods]
    BY <1>1, <1>2, <2>1 DEF Put, ModTypeOK
  <2>3. ModTypeOK'
    BY <1>1, <1>2, <2>1, <2>2 DEF ModTypeOK
  <2>4. ASSUME ~broken PROVE TreeInv'
    <3>1. TreeInv /\ InitingSound(n)
      BY <1>2, <2>4 DEF ModInv, TreeInv
    <3>2. /\ i \in usedIds /\ i \notin DOMAIN contains /\ \A o \in Holders : i \notin DOMAIN childrenOf[o]
          /\ p \in {Root} \cup Range(contains) \cup {initing[j] : j \in 1..(n - 1)}
          /\ \A j \in 1..(n - 1) : initing[j] # m /\ idOf[initing[j]] # i
      BY <1>2, <3>1 DEF InitingSound
    <3>3. p \in Holders /\ i # 0 /\ p # NoParent
      <4>1. \A j \in 1..(n - 1) : initing[j] \in Mods
        BY <1>1, <1>2 DEF ModTypeOK
      <4>2. p \in Holders
        BY <1>1, <3>2, <4>1 DEF Holders, ModTypeOK, Range
      <4>3. p # NoParent
        BY <4>2, ModulesAssumption DEF Holders, Root, NoParent
      <4>4. QED
        BY <3>1, <3>2, <4>2, <4>3 DEF TreeInv, IdsUsed
    <3>4. /\ DOMAIN childrenOf'[p] = DOMAIN childrenOf[p] \cup {i} /\ childrenOf'[p][i] = m
          /\ \A j \in DOMAIN childrenOf[p] : childrenOf'[p][j] = childrenOf[p][j]
          /\ \A o \in Holders \ {p} : childrenOf'[o] = childrenOf[o]
      BY <1>1, <2>1, <3>2, <3>3 DEF Put, ModTypeOK
    <3>5. \A o \in Holders : /\ DOMAIN childrenOf[o] \subseteq DOMAIN childrenOf'[o]
                             /\ DOMAIN childrenOf'[o] \subseteq DOMAIN childrenOf[o] \cup {i}
                             /\ \A j \in DOMAIN childrenOf[o] : childrenOf'[o][j] = childrenOf[o][j]
      BY <3>4
    <3>6. ASSUME NEW x \in Mods, x = m PROVE Attached(x)'
      BY <1>1, <3>3, <3>4, <3>6 DEF Attached
    <3>7. ASSUME NEW x \in Mods \ {m} PROVE Attached(x)' <=> Attached(x)
      <4>1. parentOf[x] \in Holders \cup {NoParent}
        BY <1>1 DEF ModTypeOK
      <4>2. CASE parentOf[x] = NoParent
        BY <1>1, <4>2 DEF Attached
      <4>3. CASE parentOf[x] = p
        BY <1>1, <3>2, <3>4, <4>3 DEF Attached
      <4>4. CASE parentOf[x] \in Holders \ {p}
        BY <1>1, <3>4, <4>4 DEF Attached
      <4>5. QED
        BY <4>1, <4>2, <4>3, <4>4
    <3>8. IdsUsed'
      <4>1. DOMAIN contains' \subseteq usedIds' /\ 0 \notin usedIds'
        BY <1>1, <2>2, <3>1, <3>2 DEF TreeInv, IdsUsed
      <4>2. \A o \in Holders : DOMAIN childrenOf'[o] \subseteq usedIds'
        BY <1>1, <3>1, <3>2, <3>5 DEF TreeInv, IdsUsed
      <4>3. \A x \in Mods : idOf'[x] = 0 => parentOf'[x] = NoParent
        BY <1>1, <3>1 DEF TreeInv, IdsUsed
      <4>4. \A x \in Mods : Attached(x)' => idOf'[x] \in DOMAIN contains' /\ contains'[idOf'[x]] = x
        BY <1>1, <2>2, <3>1, <3>2, <3>7 DEF TreeInv, IdsUsed
      <4>5. QED
        BY <4>1, <4>2, <4>3, <4>4 DEF IdsUsed
    <3>9. Range(contains') = Range(contains) \cup {m}
      BY <2>2, <3>2 DEF Range
    <3>10. \A j \in DOMAIN contains' : ContainedSound(j)'
      <4>1. ASSUME NEW j \in DOMAIN contains', j = i PROVE ContainedSound(j)'
        <5>1. {initing[k] : k \in 1..(n - 1)} = Range(initing')
          BY <1>2 DEF Range
        <5>2. p \in {Root} \cup Range(contains') \cup Range(initing')
          BY <3>2, <3>9, <5>1
        <5>3. QED
          BY <1>1, <1>2, <2>2, <3>6, <4>1, <5>2 DEF ContainedSound
      <4>2. ASSUME NEW j \in DOMAIN contains PROVE ContainedSound(j)'
        <5>1. ContainedSound(j) /\ contains[j] \in Mods /\ contains'[j] = contains[j] /\ j # i
          BY <1>1, <2>2, <3>1, <3>2 DEF TreeInv, ModTypeOK
        <5>2. contains[j] # m
          BY <5>1 DEF ContainedSound
        <5>3. parentOf[contains[j]] \in {Root} \cup Range(contains') \cup Range(initing')
          BY <1>2, <3>9, <5>1 DEF ContainedSound
        <5>4. QED
          BY <1>1, <3>7, <5>1, <5>2, <5>3 DEF ContainedSound
      <4>3. QED
        BY <1>1, <2>2, <4>1, <4>2
    <3>11. \A k \in DOMAIN initing' : InitingSound(k)'
      <4> TAKE k \in DOMAIN initing'
      <4>1. /\ k \in 1..(n - 1) /\ k \in DOMAIN initing /\ InitingSound(k)
            /\ initing'[k] = initing[k] /\ initing[k] \in Mods
        BY <1>1, <1>2, <3>1 DEF TreeInv, ModTypeOK
      <4>2. /\ {initing'[j] : j \in 1..(k - 1)} = {initing[j] : j \in 1..(k - 1)}
            /\ \A j \in 1..(k - 1) : initing'[j] = initing[j]
        BY <1>2, <4>1
      <4>3. idOf[initing[k]] # i
        BY <3>2, <4>1
      <4>4. \A o \in Holders : idOf[initing[k]] \notin DOMAIN childrenOf'[o]
        BY <3>5, <4>1, <4>3 DEF InitingSound
      <4>5. QED
        BY <1>1, <2>2, <3>9, <4>1, <4>2, <4>3, <4>4 DEF InitingSound
    <3>12. subscribed' \subseteq Range(contains') \cup Range(initing')
      BY <1>1, <1>2, <3>1, <3>9 DEF TreeInv
    <3>13. QED
      BY <3>8, <3>10, <3>11, <3>12 DEF TreeInv
  <2>5. QED
    BY <1>1, <2>1, <2>3, <2>4 DEF ModInv
<1>5. CASE ~ok
  <2>1. /\ UNCHANGED <<childrenOf, contains>> /\ broken' = (broken \/ childrenOf[m] # <<>> \/ m \in subscribed)
    BY <1>5 DEF InitReturns, m
  <2>2. ModTypeOK'
    BY <1>1, <1>2, <2>1 DEF ModTypeOK
  <2>3. ASSUME ~broken' PROVE TreeInv'
    <3>1. TreeInv /\ DOMAIN childrenOf[m] = {} /\ m \notin subscribed
      <4>1. ~broken /\ childrenOf[m] = <<>> /\ m \notin subscribed
        BY <2>1, <2>3
      <4>2. QED
        BY <4>1 DEF ModInv
    <3>2. \A x \in Mods : Attached(x)' <=> Attached(x)
      BY <1>1, <2>1 DEF Attached
    <3>3. IdsUsed'
      BY <1>1, <2>1, <3>1, <3>2 DEF TreeInv, IdsUsed
    <3>4. \A j \in DOMAIN contains' : ContainedSound(j)'
      <4> SUFFICES ASSUME NEW j \in DOMAIN contains PROVE ContainedSound(j)'
        BY <2>1
      <4>1. ContainedSound(j) /\ contains[j] \in Mods
        BY <1>1, <3>1 DEF TreeInv, ModTypeOK
      <4>2. parentOf[contains[j]] # m
        BY <3>1, <4>1 DEF ContainedSound, Attached
      <4>3. QED
        BY <1>1, <1>2, <2>1, <3>2, <4>1, <4>2 DEF ContainedSound
    <3>5. \A k \in DOMAIN initing' : InitingSound(k)'
      <4> TAKE k \in DOMAIN initing'
      <4>1. k \in 1..(n - 1) /\ k \in DOMAIN initing /\ InitingSound(k) /\ initing'[k] = initing[k]
        BY <1>1, <1>2, <3>1 DEF TreeInv
      <4>2. /\ {initing'[j] : j \in 1..(k - 1)} = {initing[j] : j \in 1..(k - 1)}
            /\ \A j \in 1..(k - 1) : initing'[j] = initing[j]
        BY <1>2, <4>1
      <4>3. QED
        BY <1>1, <2>1, <4>1, <4>2 DEF InitingSound
    <3>6. subscribed' \subseteq Range(contains') \cup Range(initing')
      BY <1>1, <1>2, <2>1, <3>1 DEF TreeInv
    <3>7. QED
      BY <3>3, <3>4, <3>5, <3>6 DEF TreeInv
  <2>4. QED
    BY <1>1, <2>2, <2>3 DEF ModInv
<1>6. QED
  BY <1>4, <1>5

\* A release takes a set of ids that is closed under children.
LEMMA ReleaseKeepsTree ==
    ASSUME ModInv, NEW p \in Holders, NEW ids \in SUBSET DOMAIN contains, Release(p, ids), initing = <<>>,
           \A j \in ids : \A k \in DOMAIN childrenOf[contains[j]] \cap DOMAIN contains : k \in ids
    PROVE  ModInv'
<1> DEFINE gone == {contains[i] : i \in ids}
           left(o) == IF o = p THEN Drop(childrenOf[o], ids) ELSE childrenOf[o]
<1>1. /\ ModTypeOK /\ reply' # "misfit" /\ UNCHANGED <<idSeed, initing, usedIds, broken>>
      /\ childrenOf' = [o \in Holders |-> IF o \in gone THEN <<>> ELSE left(o)]
      /\ contains' = Drop(contains, ids) /\ subscribed' = subscribed \ gone
      /\ idOf' = [m \in Mods |-> IF m \in gone THEN 0 ELSE idOf[m]]
      /\ parentOf' = [m \in Mods |-> IF m \in gone THEN NoParent ELSE parentOf[m]]
  BY DEF ModInv, Release
<1>2. /\ DOMAIN contains' = DOMAIN contains \ ids /\ \A i \in DOMAIN contains \ ids : contains'[i] = contains[i]
      /\ contains' \in [DOMAIN contains' -> Mods]
  BY <1>1 DEF ModTypeOK, Drop, Restrict
<1>3. \A o \in Holders : /\ DOMAIN childrenOf'[o] \subseteq DOMAIN childrenOf[o]
                         /\ \A i \in DOMAIN childrenOf'[o] : childrenOf'[o][i] = childrenOf[o][i]
                         /\ o \notin gone => \A i \in DOMAIN childrenOf[o] \ ids : i \in DOMAIN childrenOf'[o]
  <2> TAKE o \in Holders
  <2>1. CASE o \in gone
    BY <1>1, <2>1
  <2>2. CASE o \notin gone
    BY <1>1, <2>2 DEF Drop, Restrict
  <2>3. QED
    BY <2>1, <2>2
<1>4. gone \subseteq Mods
  BY <1>1 DEF ModTypeOK
<1> HIDE DEF gone, left
<1>5. ModTypeOK'
  <2>1. idOf' \in [Mods -> Nat] /\ parentOf' \in [Mods -> Holders \cup {NoParent}]
    BY <1>1 DEF ModTypeOK
  <2>2. QED
    BY <1>1, <1>2, <2>1 DEF ModTypeOK
<1>6. ASSUME ~broken' PROVE TreeInv'
  <2>1. TreeInv /\ DOMAIN initing = {}
    BY <1>1, <1>6 DEF ModInv
  <2>2. ASSUME NEW m \in Mods, Attached(m)' PROVE m \notin gone /\ Attached(m) /\ idOf'[m] = idOf[m]
    <3>1. m \notin gone
      BY <1>1, <2>2 DEF Attached
    <3>2. idOf'[m] = idOf[m] /\ parentOf'[m] = parentOf[m] /\ parentOf[m] \in Holders
      BY <1>1, <2>2, <3>1 DEF ModTypeOK, Attached
    <3>3. QED
      BY <1>3, <2>2, <3>1, <3>2 DEF Attached
  <2>3. IdsUsed'
    <3>1. DOMAIN contains' \subseteq usedIds' /\ 0 \notin usedIds'
      BY <1>1, <1>2, <2>1 DEF TreeInv, IdsUsed
    <3>2. \A o \in Holders : DOMAIN childrenOf'[o] \subseteq usedIds'
      BY <1>1, <1>3, <2>1 DEF TreeInv, IdsUsed
    <3>3. \A m \in Mods : idOf'[m] = 0 => parentOf'[m] = NoParent
      BY <1>1, <2>1 DEF TreeInv, IdsUsed
    <3>4. ASSUME NEW m \in Mods, Attached(m)' PROVE idOf'[m] \in DOMAIN contains' /\ contains'[idOf'[m]] = m
      <4>1. m \notin gone /\ Attached(m) /\ idOf'[m] = idOf[m]
        BY <2>2, <3>4
      <4>2. idOf[m] \in DOMAIN contains /\ contains[idOf[m]] = m
        BY <2>1, <4>1 DEF TreeInv, IdsUsed
      <4>3. idOf[m] \notin ids
        BY <4>1, <4>2 DEF gone
      <4>4. QED
        BY <1>2, <4>1, <4>2, <4>3
    <3>5. QED
      BY <3>1, <3>2, <3>3, <3>4 DEF IdsUsed
  <2>4. ASSUME NEW i \in DOMAIN contains \ ids
        PROVE  contains[i] \notin gone
    <3>1. ContainedSound(i) /\ \A j \in ids : ContainedSound(j)
      BY <2>1 DEF TreeInv
    <3>2. QED
      BY <3>1 DEF gone, ContainedSound
  <2>5. ASSUME NEW i \in DOMAIN contains' PROVE ContainedSound(i)'
    <3> SUFFICES ASSUME NEW m, m = contains[i], NEW o, o = parentOf[m] PROVE ContainedSound(i)'
      OBVIOUS
    <3>1. /\ i \in DOMAIN contains \ ids /\ m \in Mods /\ m \notin gone /\ contains'[i] = m
          /\ idOf'[m] = idOf[m] /\ parentOf'[m] = o
      BY <1>1, <1>2, <2>4 DEF ModTypeOK
    <3>2. idOf[m] = i /\ Attached(m) /\ o \in {Root} \cup Range(contains)
      BY <1>1, <2>1, <3>1 DEF TreeInv, ContainedSound, Range
    <3>3. o \in Holders /\ i \in DOMAIN childrenOf[o] /\ childrenOf[o][i] = m /\ o # NoParent
      BY <1>1, <3>1, <3>2 DEF Attached, ModTypeOK
    <3>4. o \notin gone
      BY <3>1, <3>3 DEF gone
    <3>5. i \in DOMAIN childrenOf'[o] /\ childrenOf'[o][i] = m
      BY <1>3, <3>1, <3>3, <3>4
    <3>6. Attached(m)'
      BY <3>1, <3>2, <3>3, <3>5 DEF Attached
    <3>7. o \in {Root} \cup Range(contains')
      <4>1. SUFFICES ASSUME o \in Range(contains) PROVE o \in Range(contains')
        BY <3>2
      <4>2. PICK j \in DOMAIN contains : contains[j] = o
        BY <4>1 DEF Range
      <4>3. j \notin ids
        BY <3>4, <4>2 DEF gone
      <4>4. QED
        BY <1>2, <4>2, <4>3 DEF Range
    <3>8. QED
      BY <3>1, <3>2, <3>6, <3>7 DEF ContainedSound
  <2>6. subscribed' \subseteq Range(contains')
    <3> SUFFICES ASSUME NEW m \in subscribed, m \notin gone PROVE m \in Range(contains')
      BY <1>1
    <3>1. PICK j \in DOMAIN contains : contains[j] = m
      BY <2>1 DEF TreeInv, Range
    <3>2. j \notin ids
      BY <3>1 DEF gone
    <3>3. QED
      BY <1>2, <3>1, <3>2 DEF Range
  <2>7. QED
    BY <1>1, <2>1, <2>3, <2>5, <2>6 DEF TreeInv
<1>7. QED
  BY <1>1, <1>5, <1>6 DEF ModInv

\* A call that passes the checks of its method fits it.
LEMMA AcceptedFits ==
    ASSUME NEW f, NEW r \in Requests, Accepts(f, r)
    PROVE  Fits(f, r)
BY DEF Requests, Accepts, Fits, Supplied

\* Every step of the module tree.
LEMMA ModNextKeeps ==
    ASSUME ModInv, [ModNext]_modVars
    PROVE  ModInv'
<1>1. ASSUME NEW m \in Mods, NEW i \in ManualIds, SetModuleID(m, i) PROVE ModInv'
  BY <1>1, SetIdKeeps
<1>2. ASSUME NEW p \in Holders, NEW m \in Mods, AddModule(p, m) PROVE ModInv'
  BY <1>2, AddKeepsTree
<1>3. ASSUME InitSubscribes PROVE ModInv'
  <2>1. ModTypeOK /\ Last(initing) \in Mods /\ Last(initing) \in Range(initing)
    BY <1>3, FrontFacts DEF InitSubscribes, ModInv, ModTypeOK
  <2>2. ModTypeOK' /\ reply' # "misfit"
    BY <1>3, <2>1 DEF InitSubscribes, ModInv, ModTypeOK
  <2>3. ASSUME ~broken' PROVE TreeInv'
    BY <1>3, <2>1, <2>3, TreeSame DEF InitSubscribes, ModInv, ModTypeOK
  <2>4. QED
    BY <2>2, <2>3 DEF ModInv
<1>4. ASSUME NEW ok \in BOOLEAN, InitReturns(ok) PROVE ModInv'
  BY <1>4, ReturnKeeps
<1>5. ASSUME NEW p \in Holders, NEW i \in DOMAIN contains, ReleaseModule(p, i) PROVE ModInv'
  <2>1. Release(p, SubtreeIds(i)) /\ initing = <<>>
    BY <1>5 DEF ReleaseModule
  <2>2. QED
    BY <2>1, SubtreeClosed, ReleaseKeepsTree
<1>6. ASSUME ReleaseAllChildModule PROVE ModInv'
  <2> DEFINE all == UNION {SubtreeIds(i) : i \in DOMAIN childrenOf[Root]}
  <2>1. Release(Root, all) /\ initing = <<>> /\ Root \in Holders
    BY <1>6 DEF ReleaseAllChildModule, Holders
  <2>2. /\ all \subseteq DOMAIN contains
        /\ \A j \in all : \A k \in DOMAIN childrenOf[contains[j]] \cap DOMAIN contains : k \in all
    BY SubtreeClosed
  <2> HIDE DEF all
  <2>3. QED
    BY <2>1, <2>2, ReleaseKeepsTree
<1>7. ASSUME SwitchRW \/ UNCHANGED modVars PROVE ModInv'
  <2>1. UNCHANGED <<idOf, parentOf, childrenOf, contains, idSeed, initing, subscribed, reply, usedIds, broken>>
    BY <1>7 DEF SwitchRW, modVars
  <2>2. QED
    BY <2>1 DEF ModInv, ModTypeOK, TreeInv, IdsUsed, ContainedSound, InitingSound, Attached
<1>8. ASSUME HandleRequest PROVE ModInv'
  <2>1. UNCHANGED <<idOf, parentOf, childrenOf, contains, idSeed, initing, subscribed, usedIds, broken>>
    BY <1>8 DEF HandleRequest
  <2>2. PICK n \in AllNames, r \in Requests : reply' \in Outcomes(n, r)
    BY <1>8 DEF HandleRequest
  <2>3. reply' # "misfit"
    BY <2>2, AcceptedFits DEF Outcomes
  <2>4. QED
    BY <2>1, <2>3 DEF ModInv, ModTypeOK, TreeInv, IdsUsed, ContainedSound, InitingSound, Attached
<1>9. QED
  BY <1>1, <1>2, <1>3, <1>4, <1>5, <1>6, <1>7, <1>8 DEF ModNext

\* However modules are added from one another's OnInit and released by whoever holds them, the index
\* of the service stays the tree, and a call that is let through fits its method.
THEOREM TreeExactHolds == ModSpec => []TreeExact
<1>1. ModInv => TreeExact
  BY DEF ModInv, TreeInv, ContainedSound, TreeExact
<1>2. ModInv /\ [ModNext]_modVars => ModInv'
  BY ModNextKeeps
<1>3. QED
  BY <1>1, <1>2, ModInitially, PTL DEF ModSpec

(***************************************************************************)
(* The middlewares of the mailboxes.  Their inductive invariant says, for  *)
(* every section of every Start and Stop, which owners are registered,     *)
(* that Sentinel has been loaded with just their rules, and for every job  *)
(* under way that the entry in its context is the last one it opened.      *)
(***************************************************************************)
\* The three sorts of rules, each a critical section of OnStart (after the library's
\* initialisation) and of OnStop.
StageOf(s) == CASE s = "flow" -> 1 [] s = "breaker" -> 2 [] s = "system" -> 3
AllSorts == Sorts \cup {"system"}
Lives == {"new", "starting", "on", "stopping", "off"}

MwTypeOK ==
    /\ mwLife \in [Boxes -> [at : Lives, i : Nat, k : Nat]]
    /\ inited \in {"no", "ok", "failed"}
    /\ ruleOwners \in [AllSorts -> SUBSET Owners]
    /\ counts \in [Boxes -> [Keys -> Nat]] /\ counted \in [Boxes -> [Keys -> Nat]]
    /\ reported \in [Boxes -> [Keys -> Nat]] /\ totalKeys \in [Boxes -> Nat]
    /\ slot \in [Msgs -> Nat]
    /\ open \subseteq Msgs \X Nat /\ traced \subseteq Msgs \X Nat
    /\ DOMAIN walk = Msgs /\ \A j \in Msgs : walk[j].executed \in Nat /\ (walk[j].at = "new" => walk[j].executed = 0)

\* Where chain.Start and chain.Stop of a mailbox can be.
LifeSound(b) ==
    /\ mwLife[b].at \in {"starting", "stopping"} => mwLife[b].k \in 1..5
    /\ mwLife[b].at = "starting" => mwLife[b].i >= 1
    /\ mwLife[b].at = "stopping" => mwLife[b].i <= Len(ChainOf[b])

\* chain.Start has left section n of owner o behind; the rules of a sort are registered from that
\* section of OnStart on, until that section of OnStop.
PastStart(o, n) ==
    LET l == mwLife[o[1]] IN
    l.at = "starting" /\ (l.i > o[2] \/ (l.i = o[2] /\ l.k > n))
Registered(o, s) ==
    LET l == mwLife[o[1]] IN
    \/ l.at = "on" \/ PastStart(o, StageOf(s) + 1)
    \/ l.at = "stopping" /\ (l.i > o[2] \/ (l.i = o[2] /\ l.k <= StageOf(s)))

\* The registries hold the owners that should be in, and Sentinel what the registries say.
OwnersExact ==
    \A s \in AllSorts, o \in Owners :
        o \in ruleOwners[s] <=> Registered(o, s) /\ inited = "ok" /\ HasRules(s, Mw(o))
InitedFirst ==
    \A o \in Owners : mwLife[o[1]].at \in {"on", "stopping", "off"} \/ PastStart(o, 1) => inited # "no"
LoadedExact ==
    /\ loaded = [s \in Sorts |-> [r \in Resources |-> Merged(s, ruleOwners[s], r)]]
    /\ loadedSys = UNION {Mw(o).system : o \in ruleOwners["system"]}

\* An open entry is of a Sentinel that saw the job; the slot of a job under way has the last one.
EntrySound(e) ==
    LET j == e[1] IN
    /\ e[2] \in SentinelsIn(j)
    /\ walk[j].at \in {"walk", "queued", "rejected"} => slot[j] \in SentinelsIn(j) /\ slot[j] >= e[2]
    /\ walk[j].at \notin {"walk", "queued", "rejected"} => \E i \in SentinelsIn(j) : i > e[2]

RulesInv == (\A b \in Boxes : LifeSound(b)) /\ InitedFirst /\ OwnersExact /\ LoadedExact
JobsInv == (\A e \in open : EntrySound(e)) /\ \A e \in traced : walk[e[1]].at = "failed"
MwInv == MwTypeOK /\ RulesInv /\ JobsInv /\ StatsConserved

\* A chain is finite, and its owners are the Sentinels in it.
LEMMA ChainLength == ASSUME NEW b \in Boxes PROVE Len(ChainOf[b]) \in Nat
<1> DEFINE c == ConfOf[b]
           breaker == NewSentinelMiddleware(ServiceOf[b],
                        <<[opt |-> "rule", scope |-> "service", field |-> "breaker", rule |-> "count"]>>)
           own == [i \in 1..Len(CustomOf[b]) |-> Custom(b, CustomOf[b][i])]
           X == {[kind |-> "stats"], breaker, [kind |-> "limit", skip |-> c.skipUrgent]}
                  \cup {Custom(b, CustomOf[b][i]) : i \in 1..Len(CustomOf[b])}
           s1 == IF c.stats THEN <<[kind |-> "stats"]>> ELSE <<>>
           s2 == IF c.breaker THEN <<breaker>> ELSE <<>>
           s3 == IF c.limit THEN <<[kind |-> "limit", skip |-> c.skipUrgent]>> ELSE <<>>
<1>1. ChainOf[b] = (s1 \o s2 \o s3) \o own
  BY DEF ChainOf, ConfigMiddlewares
<1>2. s1 \in Seq(X) /\ s2 \in Seq(X) /\ s3 \in Seq(X)
  <2>1. [kind |-> "stats"] \in X /\ breaker \in X /\ [kind |-> "limit", skip |-> c.skipUrgent] \in X
    OBVIOUS
  <2>2. ASSUME NEW x \in X PROVE <<x>> \in Seq(X) /\ <<>> \in Seq(X)
    <3> HIDE DEF X
    <3>1. QED
      OBVIOUS
  <2> HIDE DEF breaker, X
  <2>3. s1 \in Seq(X)
    BY <2>1, <2>2
  <2>4. s2 \in Seq(X)
    BY <2>1, <2>2
  <2>5. s3 \in Seq(X)
    BY <2>1, <2>2
  <2>6. QED
    BY <2>3, <2>4, <2>5
<1>3. own \in Seq(X)
  <2>1. Len(CustomOf[b]) \in Nat
    BY MiddlewareAssumption
  <2> HIDE DEF breaker
  <2>2. QED
    BY <2>1
<1> HIDE DEF X, s1, s2, s3, own
<1>4. QED
  BY <1>1, <1>2, <1>3

LEMMA OwnerFacts ==
    ASSUME NEW o \in Owners
    PROVE  /\ o = <<o[1], o[2]>> /\ o[1] \in Boxes /\ o[2] \in 1..Len(ChainOf[o[1]])
           /\ Mw(o) = ChainOf[o[1]][o[2]] /\ Mw(o).kind = "sentinel" /\ o[2] \in Nat
<1>1. PICK b \in Boxes : o \in {b} \X {i \in 1..Len(ChainOf[b]) : ChainOf[b][i].kind = "sentinel"}
  BY DEF Owners
<1>2. o[1] = b /\ o[2] \in 1..Len(ChainOf[b]) /\ ChainOf[b][o[2]].kind = "sentinel" /\ o = <<o[1], o[2]>>
  BY <1>1
<1>3. o[2] \in Nat
  BY <1>2, ChainLength
<1>4. QED
  BY <1>2, <1>3 DEF Mw

LEMMA OwnerAt ==
    ASSUME NEW b \in Boxes, NEW i \in 1..Len(ChainOf[b]), ChainOf[b][i].kind = "sentinel"
    PROVE  <<b, i>> \in Owners /\ Mw(<<b, i>>) = ChainOf[b][i]
<1>1. <<b, i>> \in {b} \X {j \in 1..Len(ChainOf[b]) : ChainOf[b][j].kind = "sentinel"}
  OBVIOUS
<1>2. QED
  BY <1>1 DEF Owners, Mw

\* An owner without rules for a resource makes no difference to it.
LEMMA MergedSame ==
    ASSUME NEW s, NEW o, NEW r, NEW S, RulesOf(s, o, r) = {}
    PROVE  Merged(s, S \cup {o}, r) = Merged(s, S, r) /\ Merged(s, S \ {o}, r) = Merged(s, S, r)
<1>1. {o} \X RulesOf(s, o, r) = {}
  OBVIOUS
<1>2. QED
  BY <1>1 DEF Merged

\* The section in hand, of a sentinel.
LEMMA SectionFacts ==
    ASSUME MwTypeOK, NEW b \in Boxes, LifeSound(b), NEW s \in AllSorts \cup {"init"}, AtSection(b, s)
    PROVE  LET l == mwLife[b] IN
           /\ <<b, l.i>> \in Owners /\ l.i \in Nat
           /\ l.at = "starting" => l.k = IF s = "init" THEN 1 ELSE StageOf(s) + 1
           /\ l.at = "stopping" => s # "init" /\ l.k = StageOf(s)
           /\ l.at \in {"starting", "stopping"}
<1> DEFINE l == mwLife[b]
           m == ChainOf[b][l.i]
<1>1. /\ l.at \in {"starting", "stopping"} /\ l.i \in 1..Len(ChainOf[b]) /\ l.i \in Nat /\ l.k \in 1..5
      /\ l.k <= Len(Sections(b)) /\ Sections(b)[l.k] = s
      /\ Sections(b) = IF l.at = "starting" THEN StartSections(m) ELSE StopSections(m)
  BY DEF MwTypeOK, LifeSound, AtSection, InChain, Sections
<1>2. s \in {"init", "flow", "breaker", "system"}
  BY DEF AllSorts, Sorts
<1> HIDE DEF m
<1>3. m.kind = "sentinel"
  <2>1. CASE m.kind = "stats"
    <3>1. Sections(b) = <<"stats">>
      BY <1>1, <2>1 DEF StartSections, StopSections
    <3>2. QED
      BY <1>1, <1>2, <3>1
  <2>2. CASE m.kind \notin {"stats", "sentinel"}
    <3>1. Sections(b) = <<>>
      BY <1>1, <2>2 DEF StartSections, StopSections
    <3>2. QED
      BY <1>1, <1>2, <3>1
  <2>3. QED
    BY <2>1, <2>2
<1>4. CASE l.at = "starting"
  <2>1. Sections(b) = <<"init", "flow", "breaker", "system">>
    BY <1>1, <1>3, <1>4 DEF StartSections
  <2>2. l.k \in 1..4
    BY <1>1, <2>1
  <2>3. l.k = IF s = "init" THEN 1 ELSE StageOf(s) + 1
    BY <1>1, <1>2, <2>1, <2>2 DEF StageOf
  <2>4. QED
    BY <1>1, <1>3, <1>4, <2>3, OwnerAt DEF m
<1>5. CASE l.at = "stopping"
  <2>1. Sections(b) = <<"flow", "breaker", "system">>
    BY <1>1, <1>3, <1>5 DEF StopSections
  <2>2. l.k \in 1..3
    BY <1>1, <2>1
  <2>3. s # "init" /\ l.k = StageOf(s)
    BY <1>1, <1>2, <2>1, <2>2 DEF StageOf
  <2>4. QED
    BY <1>1, <1>3, <1>5, <2>3, OwnerAt DEF m
<1>6. QED
  BY <1>1, <1>4, <1>5

\* The next middleware comes when the sections of this one are done.
LEMMA SectionsOver ==
    ASSUME MwTypeOK, NEW b \in Boxes, LifeSound(b), InChain(b), mwLife[b].k > Len(Sections(b)),
           ChainOf[b][mwLife[b].i].kind = "sentinel"
    PROVE  mwLife[b].k > (IF mwLife[b].at = "starting" THEN 4 ELSE 3)
<1>1. Sections(b) = IF mwLife[b].at = "starting" THEN <<"init", "flow", "breaker", "system">>
                    ELSE <<"flow", "breaker", "system">>
  BY DEF Sections, StartSections, StopSections
<1>2. mwLife[b].k \in Nat
  BY DEF MwTypeOK
<1>3. QED
  BY <1>1, <1>2

\* At the start nothing is registered, open or counted.
LEMMA MwInitially == ASSUME MwInit PROVE MwInv
<1>1. MwTypeOK
  BY DEF MwInit, MwTypeOK, AllSorts, Sorts, Lives
<1>2. \A b \in Boxes : mwLife[b].at = "new"
  BY DEF MwInit
<1>3. (\A b \in Boxes : LifeSound(b)) /\ InitedFirst /\ OwnersExact
  BY <1>2, OwnerFacts DEF LifeSound, InitedFirst, OwnersExact, PastStart, Registered, MwInit, AllSorts
<1>4. LoadedExact
  <2>1. \A s \in AllSorts : ruleOwners[s] = {}
    BY DEF MwInit, AllSorts
  <2>2. \A s, r : Merged(s, {}, r) = {}
    BY DEF Merged
  <2>3. loaded = [s \in Sorts |-> [r \in Resources |-> Merged(s, ruleOwners[s], r)]]
    BY <2>1, <2>2 DEF MwInit, AllSorts
  <2>4. QED
    BY <2>1, <2>3 DEF LoadedExact, MwInit, AllSorts
<1>5. open = {} /\ traced = {}
  BY DEF MwInit
<1>6. StatsConserved
  BY DEF MwInit, StatsConserved
<1>7. QED
  BY <1>1, <1>3, <1>4, <1>5, <1>6 DEF MwInv, RulesInv, JobsInv

\* What Sentinel and its registries hold.
RegistryVars == <<inited, ruleOwners, loaded, loadedSys>>

\* A step that moves one mailbox in its chain and registers nothing.
LEMMA MoveKeeps ==
    ASSUME MwTypeOK, RulesInv, UNCHANGED RegistryVars, NEW b \in Boxes,
           NEW at \in Lives, NEW i \in Nat, NEW k \in Nat,
           mwLife' = [mwLife EXCEPT ![b] = [at |-> at, i |-> i, k |-> k]], LifeSound(b)',
           \A o \in Owners, s \in AllSorts :
               o[1] = b /\ HasRules(s, Mw(o)) /\ inited = "ok" => (Registered(o, s)' <=> Registered(o, s)),
           \A o \in Owners : o[1] = b /\ (at \in {"on", "stopping", "off"} \/ PastStart(o, 1)')
                               => mwLife[b].at \in {"on", "stopping", "off"} \/ PastStart(o, 1) \/ inited # "no"
    PROVE  RulesInv' /\ mwLife' \in [Boxes -> [at : Lives, i : Nat, k : Nat]]
<1>1. /\ mwLife' \in [Boxes -> [at : Lives, i : Nat, k : Nat]]
      /\ mwLife'[b] = [at |-> at, i |-> i, k |-> k] /\ \A c \in Boxes \ {b} : mwLife'[c] = mwLife[c]
  BY DEF MwTypeOK
<1>2. \A c \in Boxes : LifeSound(c)'
  BY <1>1 DEF RulesInv, LifeSound
<1>3. InitedFirst'
  <2> SUFFICES ASSUME NEW o \in Owners, mwLife'[o[1]].at \in {"on", "stopping", "off"} \/ PastStart(o, 1)'
               PROVE  inited' # "no"
    BY DEF InitedFirst
  <2>1. o[1] \in Boxes
    BY OwnerFacts
  <2>2. CASE o[1] = b
    BY <1>1, <2>2 DEF RulesInv, InitedFirst, RegistryVars
  <2>3. CASE o[1] # b
    BY <1>1, <2>1, <2>3 DEF RulesInv, InitedFirst, PastStart, RegistryVars
  <2>4. QED
    BY <2>2, <2>3
<1>4. OwnersExact'
  <2> SUFFICES ASSUME NEW s \in AllSorts, NEW o \in Owners
               PROVE  o \in ruleOwners'[s] <=> Registered(o, s)' /\ inited' = "ok" /\ HasRules(s, Mw(o))
    BY DEF OwnersExact
  <2>1. o[1] \in Boxes /\ (o \in ruleOwners[s] <=> Registered(o, s) /\ inited = "ok" /\ HasRules(s, Mw(o)))
    BY OwnerFacts DEF RulesInv, OwnersExact
  <2>2. CASE o[1] = b
    BY <2>1, <2>2 DEF RegistryVars
  <2>3. CASE o[1] # b
    BY <1>1, <2>1, <2>3 DEF Registered, PastStart, RegistryVars
  <2>4. QED
    BY <2>2, <2>3
<1>5. LoadedExact'
  BY DEF RulesInv, LoadedExact, RegistryVars
<1>6. QED
  BY <1>1, <1>2, <1>3, <1>4, <1>5 DEF RulesInv

LEMMA StageRange == \A s \in AllSorts : StageOf(s) \in 1..3
BY DEF AllSorts, Sorts, StageOf

\* The updates of a mailbox's place in its chain.
LEMMA LifeUpdates ==
    ASSUME NEW x \in [at : Lives, i : Nat, k : Nat], NEW n \in Nat
    PROVE  /\ [x EXCEPT !.i = n, !.k = 1] = [at |-> x.at, i |-> n, k |-> 1]
           /\ [x EXCEPT !.k = n] = [at |-> x.at, i |-> x.i, k |-> n]
<1>1. [x EXCEPT !.k = n] = [at |-> x.at, i |-> x.i, k |-> n]
  OBVIOUS
<1>2. [x EXCEPT !.i = n, !.k = 1] = [at |-> x.at, i |-> n, k |-> 1]
  <2> DEFINE y == [x EXCEPT !.i = n]
  <2>1. y \in [at : Lives, i : Nat, k : Nat] /\ y.at = x.at /\ y.i = n
    OBVIOUS
  <2>2. [x EXCEPT !.i = n, !.k = 1] = [y EXCEPT !.k = 1]
    OBVIOUS
  <2> HIDE DEF y
  <2>3. [y EXCEPT !.k = 1] = [at |-> y.at, i |-> y.i, k |-> 1]
    BY <2>1
  <2>4. QED
    BY <2>1, <2>2, <2>3
<1>3. QED
  BY <1>1, <1>2

\* chain.Start and chain.Stop begin: no owner's registration changes.
LEMMA BeginKeeps ==
    ASSUME MwTypeOK, RulesInv, NEW b \in Boxes, BeginLife(b)
    PROVE  RulesInv' /\ mwLife' \in [Boxes -> [at : Lives, i : Nat, k : Nat]]
<1>0. Len(ChainOf[b]) \in Nat /\ UNCHANGED RegistryVars
  BY ChainLength DEF BeginLife, RegistryVars
<1>1. CASE mwLife[b].at = "new" /\ mwLife' = [mwLife EXCEPT ![b] = [at |-> "starting", i |-> 1, k |-> 1]]
  <2>1. mwLife'[b] = [at |-> "starting", i |-> 1, k |-> 1]
    BY <1>1 DEF MwTypeOK
  <2>2. LifeSound(b)'
    BY <2>1 DEF LifeSound
  <2>3. ASSUME NEW o \in Owners, o[1] = b
        PROVE  /\ ~PastStart(o, 1)' /\ ~PastStart(o, 1)
               /\ \A s \in AllSorts : ~Registered(o, s)' /\ ~Registered(o, s)
    BY <1>1, <2>1, <2>3, OwnerFacts, StageRange DEF PastStart, Registered
  <2>4. QED
    BY <1>0, <1>1, <2>2, <2>3, MoveKeeps DEF Lives
<1>2. CASE mwLife[b].at = "on" /\ mwLife' = [mwLife EXCEPT ![b] = [at |-> "stopping", i |-> Len(ChainOf[b]), k |-> 1]]
  <2>1. mwLife'[b] = [at |-> "stopping", i |-> Len(ChainOf[b]), k |-> 1]
    BY <1>2 DEF MwTypeOK
  <2>2. LifeSound(b)'
    BY <1>0, <2>1 DEF LifeSound
  <2>3. ASSUME NEW o \in Owners, o[1] = b, NEW s \in AllSorts PROVE Registered(o, s)' /\ Registered(o, s)
    <3>1. o[2] \in 1..Len(ChainOf[b]) /\ StageOf(s) \in 1..3
      BY <2>3, OwnerFacts, StageRange
    <3>2. QED
      BY <1>0, <1>2, <2>1, <2>3, <3>1 DEF Registered
  <2>4. QED
    BY <1>0, <1>2, <2>2, <2>3, MoveKeeps DEF Lives
<1>3. QED
  BY <1>1, <1>2 DEF BeginLife

\* The next middleware: the sections of the one before are over.
LEMMA NextKeeps ==
    ASSUME MwTypeOK, RulesInv, NEW b \in Boxes, NextMiddleware(b)
    PROVE  RulesInv' /\ mwLife' \in [Boxes -> [at : Lives, i : Nat, k : Nat]]
<1> DEFINE l == mwLife[b]
           n == IF l.at = "starting" THEN l.i + 1 ELSE l.i - 1
<1>0. /\ Len(ChainOf[b]) \in Nat /\ UNCHANGED RegistryVars
      /\ l.at \in {"starting", "stopping"} /\ l.i \in 1..Len(ChainOf[b]) /\ l.i \in Nat /\ l.k \in Nat
      /\ l.k > Len(Sections(b)) /\ InChain(b) /\ LifeSound(b)
  BY ChainLength DEF NextMiddleware, RegistryVars, InChain, MwTypeOK, RulesInv
<1>1. mwLife' = [mwLife EXCEPT ![b] = [at |-> l.at, i |-> n, k |-> 1]]
  <2>1. mwLife[b] \in [at : Lives, i : Nat, k : Nat]
    BY DEF MwTypeOK
  <2>2. [mwLife[b] EXCEPT !.i = n, !.k = 1] = [at |-> l.at, i |-> n, k |-> 1]
    <3>1. n \in Nat
      BY <1>0
    <3> HIDE DEF n
    <3>2. QED
      BY <2>1, <3>1, LifeUpdates
  <2>3. QED
    BY <2>2 DEF NextMiddleware
<1>2. n \in Nat /\ (l.at = "starting" => n = l.i + 1) /\ (l.at = "stopping" => n = l.i - 1)
  BY <1>0
<1>3. mwLife'[b] = [at |-> l.at, i |-> n, k |-> 1]
  BY <1>1 DEF MwTypeOK
<1> HIDE DEF n
<1>4. LifeSound(b)'
  BY <1>0, <1>2, <1>3 DEF LifeSound
<1>5. ASSUME NEW o \in Owners, o[1] = b
      PROVE  /\ PastStart(o, 1)' => PastStart(o, 1)
             /\ \A s \in AllSorts : Registered(o, s)' <=> Registered(o, s)
  <2>1. o[2] \in 1..Len(ChainOf[b]) /\ ChainOf[b][o[2]].kind = "sentinel"
    BY <1>5, OwnerFacts
  <2>2. o[2] = l.i => l.k > (IF l.at = "starting" THEN 4 ELSE 3)
    BY <1>0, <2>1, SectionsOver
  <2>3. CASE l.at = "starting"
    <3>1. ASSUME NEW m \in 1..4 PROVE PastStart(o, m)' <=> PastStart(o, m)
      <4>1. n = l.i + 1 /\ l.i \in Nat /\ l.k \in Nat /\ o[2] \in Nat
        BY <1>0, <1>2, <2>1, <2>3
      <4>2. PastStart(o, m) <=> l.i > o[2] \/ (l.i = o[2] /\ l.k > m)
        BY <1>5, <2>3 DEF PastStart
      <4>3. PastStart(o, m)' <=> n > o[2] \/ (n = o[2] /\ 1 > m)
        BY <1>3, <1>5, <2>3 DEF PastStart
      <4>4. o[2] = l.i => l.k > m
        BY <2>2, <2>3, <4>1
      <4> HIDE DEF l
      <4>5. QED
        BY <4>1, <4>2, <4>3, <4>4
    <3>2. \A s \in AllSorts : StageOf(s) + 1 \in 1..4
      BY StageRange
    <3>3. QED
      BY <1>3, <1>5, <2>3, <3>1, <3>2 DEF Registered
  <2>4. CASE l.at = "stopping"
    <3>1. ASSUME NEW s \in AllSorts PROVE Registered(o, s)' <=> Registered(o, s)
      BY <1>0, <1>2, <1>3, <1>5, <2>1, <2>2, <2>4, StageRange DEF Registered, PastStart
    <3>2. QED
      BY <1>3, <1>5, <2>4, <3>1 DEF PastStart
  <2>5. QED
    BY <1>0, <2>3, <2>4
<1>6. QED
  <2>1. l.at \in Lives
    BY <1>0 DEF Lives
  <2>2. \A o \in Owners : o[1] = b /\ (l.at \in {"on", "stopping", "off"} \/ PastStart(o, 1)')
                            => mwLife[b].at \in {"on", "stopping", "off"} \/ PastStart(o, 1) \/ inited # "no"
    BY <1>5
  <2>3. QED
    BY <1>0, <1>1, <1>2, <1>4, <1>5, <2>1, <2>2, MoveKeeps

\* The end of the chain: a started mailbox has every owner in, a stopped one has none.
LEMMA EndKeeps ==
    ASSUME MwTypeOK, RulesInv, NEW b \in Boxes, EndLife(b)
    PROVE  RulesInv' /\ mwLife' \in [Boxes -> [at : Lives, i : Nat, k : Nat]]
<1> DEFINE l == mwLife[b]
           n == IF l.at = "starting" THEN "on" ELSE "off"
<1>0. /\ Len(ChainOf[b]) \in Nat /\ UNCHANGED RegistryVars
      /\ l.at \in {"starting", "stopping"} /\ l.i \notin 1..Len(ChainOf[b]) /\ l.i \in Nat /\ l.k \in Nat
      /\ LifeSound(b)
  BY ChainLength DEF EndLife, RegistryVars, InChain, MwTypeOK, RulesInv
<1>1. mwLife' = [mwLife EXCEPT ![b] = [at |-> n, i |-> l.i, k |-> l.k]]
  <2>1. mwLife[b] \in [at : Lives, i : Nat, k : Nat]
    BY DEF MwTypeOK
  <2>2. [mwLife[b] EXCEPT !.at = n] = [at |-> n, i |-> l.i, k |-> l.k]
    <3> HIDE DEF n
    <3>1. QED
      BY <2>1
  <2>3. QED
    BY <2>2 DEF EndLife
<1>2. n \in {"on", "off"} /\ (l.at = "starting" <=> n = "on")
  BY <1>0
<1>3. mwLife'[b] = [at |-> n, i |-> l.i, k |-> l.k]
  BY <1>1 DEF MwTypeOK
<1> HIDE DEF n
<1>4. LifeSound(b)'
  BY <1>2, <1>3 DEF LifeSound
<1>5. ASSUME NEW o \in Owners, o[1] = b
      PROVE  /\ l.at = "stopping" \/ PastStart(o, 1)
             /\ \A s \in AllSorts : Registered(o, s)' <=> Registered(o, s)
  <2>1. o[2] \in 1..Len(ChainOf[b])
    BY <1>5, OwnerFacts
  <2>2. CASE l.at = "starting"
    <3>1. l.i > o[2]
      BY <1>0, <2>1, <2>2 DEF LifeSound
    <3>2. QED
      BY <1>2, <1>3, <1>5, <2>2, <3>1 DEF PastStart, Registered
  <2>3. CASE l.at = "stopping"
    <3>1. l.i < o[2]
      BY <1>0, <2>1, <2>3 DEF LifeSound
    <3>2. QED
      BY <1>0, <1>2, <1>3, <1>5, <2>1, <2>3, <3>1 DEF PastStart, Registered
  <2>4. QED
    BY <1>0, <2>2, <2>3
<1>6. QED
  <2>1. n \in Lives
    BY <1>2 DEF Lives
  <2>2. \A o \in Owners : o[1] = b => mwLife[b].at \in {"on", "stopping", "off"} \/ PastStart(o, 1)
    BY <1>5
  <2>3. QED
    BY <1>0, <1>1, <1>4, <1>5, <2>1, <2>2, MoveKeeps

\* A section is over: the mailbox goes to the next one.
LEMMA DoneFacts ==
    ASSUME MwTypeOK, NEW b \in Boxes, NEW s \in AllSorts \cup {"init", "stats"},
           AtSection(b, s), LifeSound(b), SectionDone(b)
    PROVE  LET l == mwLife[b] IN
           /\ mwLife' = [mwLife EXCEPT ![b] = [at |-> l.at, i |-> l.i, k |-> l.k + 1]]
           /\ mwLife'[b] = [at |-> l.at, i |-> l.i, k |-> l.k + 1] /\ \A c \in Boxes \ {b} : mwLife'[c] = mwLife[c]
           /\ l.at \in {"starting", "stopping"} /\ l.i \in 1..Len(ChainOf[b]) /\ l.i \in Nat /\ l.k \in 1..4
           /\ LifeSound(b)'
<1> DEFINE l == mwLife[b]
<1>1. l \in [at : Lives, i : Nat, k : Nat]
  BY DEF MwTypeOK
<1>2. mwLife' = [mwLife EXCEPT ![b] = [at |-> l.at, i |-> l.i, k |-> l.k + 1]]
  <2>1. mwLife' = [mwLife EXCEPT ![b] = [mwLife[b] EXCEPT !.k = mwLife[b].k + 1]]
    BY DEF SectionDone
  <2>2. l.k + 1 \in Nat
    BY <1>1
  <2>3. \A n \in Nat : [l EXCEPT !.k = n] = [at |-> l.at, i |-> l.i, k |-> n]
    <3> HIDE DEF l
    <3>1. QED
      BY <1>1
  <2>4. [l EXCEPT !.k = l.k + 1] = [at |-> l.at, i |-> l.i, k |-> l.k + 1]
    BY <2>2, <2>3
  <2>5. QED
    BY <2>1, <2>4
<1>3. mwLife'[b] = [at |-> l.at, i |-> l.i, k |-> l.k + 1] /\ \A c \in Boxes \ {b} : mwLife'[c] = mwLife[c]
  BY <1>2 DEF MwTypeOK
<1>4. /\ l.at \in {"starting", "stopping"} /\ l.i \in 1..Len(ChainOf[b]) /\ l.i \in Nat /\ l.k \in 1..5
      /\ l.k <= Len(Sections(b))
  BY <1>1 DEF AtSection, InChain, LifeSound
<1>5. Len(Sections(b)) <= 4
  <2> DEFINE m == ChainOf[b][l.i]
  <2>1. Sections(b) = IF l.at = "starting" THEN StartSections(m) ELSE StopSections(m)
    BY DEF Sections
  <2> HIDE DEF m
  <2>2. CASE m.kind = "sentinel"
    BY <2>1, <2>2 DEF StartSections, StopSections
  <2>3. CASE m.kind = "stats"
    BY <2>1, <2>3 DEF StartSections, StopSections
  <2>4. CASE m.kind \notin {"sentinel", "stats"}
    BY <2>1, <2>4 DEF StartSections, StopSections
  <2>5. QED
    BY <2>2, <2>3, <2>4
<1>6. l.k \in 1..4
  <2> DEFINE n == Len(Sections(b))
  <2>1. n \in Nat
    <3> DEFINE m == ChainOf[b][l.i]
    <3>1. Sections(b) = IF l.at = "starting" THEN StartSections(m) ELSE StopSections(m)
      BY DEF Sections
    <3> HIDE DEF m
    <3>2. QED
      BY <3>1 DEF StartSections, StopSections
  <2> HIDE DEF n
  <2>2. QED
    BY <1>4, <1>5, <2>1 DEF n
<1>7. LifeSound(b)'
  BY <1>3, <1>4, <1>6 DEF LifeSound
<1>8. QED
  BY <1>2, <1>3, <1>4, <1>6, <1>7

\* The statistics have no rules.
LEMMA StatsKeepsRules ==
    ASSUME MwTypeOK, RulesInv, NEW b \in Boxes, StatsSection(b)
    PROVE  RulesInv' /\ mwLife' \in [Boxes -> [at : Lives, i : Nat, k : Nat]]
<1> DEFINE l == mwLife[b]
<1>1. AtSection(b, "stats") /\ SectionDone(b) /\ UNCHANGED RegistryVars /\ LifeSound(b)
  BY DEF StatsSection, RegistryVars, RulesInv
<1>2. /\ mwLife' = [mwLife EXCEPT ![b] = [at |-> l.at, i |-> l.i, k |-> l.k + 1]]
      /\ mwLife'[b] = [at |-> l.at, i |-> l.i, k |-> l.k + 1]
      /\ l.at \in {"starting", "stopping"} /\ l.i \in 1..Len(ChainOf[b]) /\ l.i \in Nat /\ l.k \in 1..4
      /\ LifeSound(b)'
  BY <1>1, DoneFacts
<1>3. ChainOf[b][l.i].kind # "sentinel"
  <2>1. SUFFICES ASSUME ChainOf[b][l.i].kind = "sentinel" PROVE FALSE
    OBVIOUS
  <2>2. Sections(b) \in {<<"init", "flow", "breaker", "system">>, <<"flow", "breaker", "system">>}
    BY <2>1 DEF Sections, StartSections, StopSections
  <2>3. Sections(b)[l.k] = "stats" /\ l.k <= Len(Sections(b))
    BY <1>1 DEF AtSection
  <2>4. CASE Sections(b) = <<"init", "flow", "breaker", "system">>
    BY <1>2, <2>3, <2>4
  <2>5. CASE Sections(b) = <<"flow", "breaker", "system">>
    BY <1>2, <2>3, <2>5
  <2>6. QED
    BY <2>2, <2>4, <2>5
<1>4. ASSUME NEW o \in Owners, o[1] = b
      PROVE  /\ PastStart(o, 1)' <=> PastStart(o, 1)
             /\ \A s \in AllSorts : Registered(o, s)' <=> Registered(o, s)
  <2>1. o[2] # l.i
    BY <1>3, <1>4, OwnerFacts
  <2>2. QED
    BY <1>2, <1>4, <2>1 DEF PastStart, Registered
<1>5. l.at \in Lives /\ l.k + 1 \in Nat
  BY <1>2 DEF Lives
<1>6. \A o \in Owners : o[1] = b /\ (l.at \in {"on", "stopping", "off"} \/ PastStart(o, 1)')
                            => mwLife[b].at \in {"on", "stopping", "off"} \/ PastStart(o, 1) \/ inited # "no"
  BY <1>4
<1>7. QED
  BY <1>1, <1>2, <1>4, <1>5, <1>6, MoveKeeps

\* The owner of the section in hand, and the other owners.
LEMMA OwnerMoves ==
    ASSUME MwTypeOK, NEW b \in Boxes, NEW s \in AllSorts \cup {"init"}, AtSection(b, s), LifeSound(b), SectionDone(b),
           NEW o \in Owners
    PROVE  LET me == <<b, mwLife[b].i>> IN
           /\ o # me => /\ PastStart(o, 1)' <=> PastStart(o, 1)
                        /\ \A r \in AllSorts : Registered(o, r)' <=> Registered(o, r)
           /\ o = me => /\ (mwLife[b].at = "starting" => PastStart(o, 1)')
                        /\ (mwLife[b].at = "starting" /\ s # "init" => PastStart(o, 1))
                        /\ \A r \in AllSorts \ {s} : Registered(o, r)' <=> Registered(o, r)
                        /\ s \in AllSorts /\ mwLife[b].at = "starting" => Registered(o, s)' /\ ~Registered(o, s)
                        /\ s \in AllSorts /\ mwLife[b].at = "stopping" => ~Registered(o, s)' /\ Registered(o, s)
<1> DEFINE l == mwLife[b]
           me == <<b, l.i>>
<1>1. /\ mwLife'[b] = [at |-> l.at, i |-> l.i, k |-> l.k + 1] /\ \A c \in Boxes \ {b} : mwLife'[c] = mwLife[c]
      /\ l.at \in {"starting", "stopping"} /\ l.i \in 1..Len(ChainOf[b]) /\ l.i \in Nat /\ l.k \in 1..4
  BY DoneFacts
<1>2. /\ l.at = "starting" => l.k = IF s = "init" THEN 1 ELSE StageOf(s) + 1
      /\ l.at = "stopping" => s # "init" /\ l.k = StageOf(s)
  BY SectionFacts
<1>3. o = <<o[1], o[2]>> /\ o[1] \in Boxes /\ o[2] \in Nat
  BY OwnerFacts
<1>4. ASSUME o # me
      PROVE  /\ PastStart(o, 1)' <=> PastStart(o, 1)
             /\ \A r \in AllSorts : Registered(o, r)' <=> Registered(o, r)
  <2>1. CASE o[1] # b
    BY <1>1, <1>3, <2>1 DEF PastStart, Registered
  <2>2. CASE o[1] = b
    <3>1. o[2] # l.i
      BY <1>3, <1>4, <2>2
    <3>2. QED
      BY <1>1, <1>3, <2>2, <3>1 DEF PastStart, Registered
  <2>3. QED
    BY <2>1, <2>2
<1>5. ASSUME o = me, l.at = "starting"
      PROVE  /\ PastStart(o, 1)' /\ (s # "init" => PastStart(o, 1))
             /\ \A r \in AllSorts : StageOf(r) + 1 # l.k => (Registered(o, r)' <=> Registered(o, r))
             /\ s \in AllSorts => Registered(o, s)' /\ ~Registered(o, s)
  <2>1. o[1] = b /\ o[2] = l.i
    BY <1>5
  <2>2. \A r \in AllSorts : StageOf(r) \in 1..3
    BY StageRange
  <2>3. PastStart(o, 1)' /\ (s # "init" => PastStart(o, 1))
    BY <1>1, <1>2, <1>5, <2>1, <2>2 DEF PastStart
  <2>4. \A r \in AllSorts : Registered(o, r)' <=> l.k + 1 > StageOf(r) + 1
    BY <1>1, <1>5, <2>1, <2>2 DEF Registered, PastStart
  <2>5. \A r \in AllSorts : Registered(o, r) <=> l.k > StageOf(r) + 1
    BY <1>1, <1>5, <2>1, <2>2 DEF Registered, PastStart
  <2>6. s \in AllSorts => l.k = StageOf(s) + 1
    BY <1>2, <1>5 DEF AllSorts, Sorts
  <2>7. QED
    BY <1>1, <2>2, <2>3, <2>4, <2>5, <2>6
<1>6. ASSUME o = me, l.at = "stopping"
      PROVE  /\ \A r \in AllSorts : StageOf(r) # l.k => (Registered(o, r)' <=> Registered(o, r))
             /\ s \in AllSorts => ~Registered(o, s)' /\ Registered(o, s)
  <2>1. o[1] = b /\ o[2] = l.i
    BY <1>6
  <2>2. \A r \in AllSorts : StageOf(r) \in 1..3
    BY StageRange
  <2>4. \A r \in AllSorts : Registered(o, r)' <=> l.k + 1 <= StageOf(r)
    BY <1>1, <1>6, <2>1, <2>2 DEF Registered, PastStart
  <2>5. \A r \in AllSorts : Registered(o, r) <=> l.k <= StageOf(r)
    BY <1>1, <1>6, <2>1, <2>2 DEF Registered, PastStart
  <2>7. QED
    BY <1>1, <1>2, <1>6, <2>2, <2>4, <2>5
<1>7. ASSUME o = me, NEW r \in AllSorts \ {s} PROVE Registered(o, r)' <=> Registered(o, r)
  <2>1. s \in AllSorts => StageOf(r) # StageOf(s)
    BY DEF AllSorts, Sorts, StageOf
  <2>2. StageOf(r) \in 1..3 /\ (s \in AllSorts => StageOf(s) \in 1..3)
    BY StageRange
  <2>3. CASE l.at = "starting"
    <3>1. StageOf(r) + 1 # l.k
      BY <1>2, <2>1, <2>2, <2>3
    <3>2. QED
      BY <1>5, <1>7, <2>3, <3>1
  <2>4. CASE l.at = "stopping"
    <3>1. StageOf(r) # l.k
      BY <1>2, <2>1, <2>2, <2>4
    <3>2. QED
      BY <1>6, <1>7, <2>4, <3>1
  <2>5. QED
    BY <1>1, <2>3, <2>4
<1>8. QED
  BY <1>4, <1>5, <1>6, <1>7

\* The first section of OnStart: the initialisation has been tried.
LEMMA InitOnceKeeps ==
    ASSUME MwTypeOK, RulesInv, NEW b \in Boxes, InitOnce(b)
    PROVE  RulesInv' /\ mwLife' \in [Boxes -> [at : Lives, i : Nat, k : Nat]] /\ inited' \in {"no", "ok", "failed"}
<1> DEFINE l == mwLife[b]
<1>1. /\ AtSection(b, "init") /\ SectionDone(b) /\ LifeSound(b) /\ UNCHANGED <<ruleOwners, loaded, loadedSys>>
      /\ inited' \in {"ok", "failed"} /\ (inited = "no" \/ inited' = inited)
  BY DEF InitOnce, RulesInv, MwTypeOK
<1>2. /\ mwLife' = [mwLife EXCEPT ![b] = [at |-> l.at, i |-> l.i, k |-> l.k + 1]]
      /\ \A c \in Boxes \ {b} : mwLife'[c] = mwLife[c]
      /\ l.at \in {"starting", "stopping"} /\ l.i \in Nat /\ l.k \in 1..4 /\ LifeSound(b)'
  BY <1>1, DoneFacts
<1>3. mwLife' \in [Boxes -> [at : Lives, i : Nat, k : Nat]]
  BY <1>2 DEF MwTypeOK, Lives
<1>4. \A c \in Boxes : LifeSound(c)'
  BY <1>2 DEF RulesInv, LifeSound
<1>5. OwnersExact'
  <2> SUFFICES ASSUME NEW s \in AllSorts, NEW o \in Owners
               PROVE  o \in ruleOwners'[s] <=> Registered(o, s)' /\ inited' = "ok" /\ HasRules(s, Mw(o))
    BY DEF OwnersExact
  <2>1. o \in ruleOwners[s] <=> Registered(o, s) /\ inited = "ok" /\ HasRules(s, Mw(o))
    BY DEF RulesInv, OwnersExact
  <2>2. s # "init"
    BY DEF AllSorts, Sorts
  <2>3. Registered(o, s)' <=> Registered(o, s)
    BY <1>1, <2>2, OwnerMoves
  <2>4. inited = "no" => ~Registered(o, s)
    <3> SUFFICES ASSUME inited = "no", Registered(o, s) PROVE FALSE
      OBVIOUS
    <3>1. mwLife[o[1]].at \notin {"on", "stopping", "off"} /\ ~PastStart(o, 1)
      BY DEF RulesInv, InitedFirst
    <3>2. PastStart(o, StageOf(s) + 1)
      BY <3>1 DEF Registered
    <3>3. StageOf(s) + 1 > 1 /\ StageOf(s) \in 1..3 /\ mwLife[o[1]].k \in Nat
      BY StageRange, OwnerFacts DEF MwTypeOK
    <3>4. QED
      BY <3>1, <3>2, <3>3 DEF PastStart
  <2>5. QED
    BY <1>1, <2>1, <2>3, <2>4
<1>6. InitedFirst' /\ LoadedExact'
  BY <1>1 DEF InitedFirst, LoadedExact, RulesInv
<1>7. QED
  BY <1>1, <1>3, <1>4, <1>5, <1>6 DEF RulesInv

\* What registering or removing an owner does to what Sentinel has.
LEMMA ReloadExact ==
    ASSUME MwTypeOK, LoadedExact, NEW s \in AllSorts, NEW o \in Owners, LoadSection(s, o) \/ UnloadSection(s, o)
    PROVE  /\ LoadedExact' /\ ruleOwners' \in [AllSorts -> SUBSET Owners]
           /\ \A r \in AllSorts \ {s} : ruleOwners'[r] = ruleOwners[r]
           /\ LoadSection(s, o) => ruleOwners'[s] = ruleOwners[s] \cup {o}
           /\ UnloadSection(s, o) => ruleOwners'[s] = ruleOwners[s] \ {o}
<1>1. /\ ruleOwners' = [ruleOwners EXCEPT ![s] = ruleOwners'[s]]
      /\ LoadSection(s, o) => ruleOwners'[s] = ruleOwners[s] \cup {o}
      /\ UnloadSection(s, o) => ruleOwners'[s] = ruleOwners[s] \ {o}
  BY DEF LoadSection, UnloadSection, MwTypeOK
<1>2. /\ ruleOwners' \in [AllSorts -> SUBSET Owners] /\ \A r \in AllSorts \ {s} : ruleOwners'[r] = ruleOwners[r]
  BY <1>1 DEF MwTypeOK
<1>3. CASE s = "system"
  <2>1. loadedSys' = UNION {Mw(p).system : p \in ruleOwners'["system"]} /\ UNCHANGED loaded
    BY <1>3 DEF LoadSection, UnloadSection, ReloadSystem
  <2>2. \A r \in Sorts : ruleOwners'[r] = ruleOwners[r]
    BY <1>2, <1>3 DEF AllSorts, Sorts
  <2>3. QED
    BY <1>1, <1>2, <2>1, <2>2 DEF LoadedExact
<1>4. CASE s # "system"
  <2>1. s \in Sorts /\ UNCHANGED loadedSys
    BY <1>4 DEF LoadSection, UnloadSection, AllSorts
  <2>2. ASSUME NEW rs, Reload(s, ruleOwners'[s], rs), \A r \in Resources \ rs : RulesOf(s, o, r) = {}
        PROVE  loaded' = [t \in Sorts |-> [r \in Resources |-> Merged(t, ruleOwners'[t], r)]]
    <3> DEFINE new == [r \in Resources |-> IF r \in rs THEN Merged(s, ruleOwners'[s], r) ELSE loaded[s][r]]
    <3>1. loaded' = [loaded EXCEPT ![s] = new]
      BY <2>2 DEF Reload
    <3>2. loaded = [t \in Sorts |-> [r \in Resources |-> Merged(t, ruleOwners[t], r)]]
      BY DEF LoadedExact
    <3>3. new = [r \in Resources |-> Merged(s, ruleOwners'[s], r)]
      <4>1. ASSUME NEW r \in Resources, r \notin rs PROVE loaded[s][r] = Merged(s, ruleOwners'[s], r)
        <5>1. RulesOf(s, o, r) = {} /\ loaded[s][r] = Merged(s, ruleOwners[s], r)
          BY <2>1, <2>2, <3>2, <4>1
        <5>2. QED
          BY <1>1, <5>1, MergedSame
      <4>2. QED
        BY <4>1
    <3> HIDE DEF new
    <3>4. \A t \in Sorts \ {s} : t \in AllSorts \ {s}
      BY DEF AllSorts
    <3>5. loaded' = [t \in Sorts |-> IF t = s THEN new ELSE loaded[t]]
      BY <2>1, <3>1, <3>2
    <3>6. \A t \in Sorts \ {s} : loaded[t] = [r \in Resources |-> Merged(t, ruleOwners'[t], r)]
      BY <1>2, <3>2, <3>4
    <3>7. QED
      BY <3>3, <3>5, <3>6
  <2>3. \A r : r \notin effectiveRuleResources(Mw(o)) => RulesOf(s, o, r) = {}
    BY DEF RulesOf
  <2>4. loaded' = [t \in Sorts |-> [r \in Resources |-> Merged(t, ruleOwners'[t], r)]]
    <3>1. CASE LoadSection(s, o)
      <4> DEFINE rs == {r \in effectiveRuleResources(Mw(o)) : RulesOf(s, o, r) # {}}
      <4>1. Reload(s, ruleOwners'[s], rs)
        BY <1>4, <3>1 DEF LoadSection
      <4>2. QED
        BY <2>2, <2>3, <4>1
    <3>2. CASE UnloadSection(s, o)
      <4>1. Reload(s, ruleOwners'[s], effectiveRuleResources(Mw(o)))
        BY <1>4, <3>2 DEF UnloadSection
      <4>2. QED
        BY <2>2, <2>3, <4>1
    <3>3. QED
      BY <3>1, <3>2
  <2>5. ruleOwners'["system"] = ruleOwners["system"]
    BY <1>2, <1>4 DEF AllSorts
  <2>6. QED
    BY <1>1, <1>2, <2>1, <2>4, <2>5 DEF LoadedExact
<1>5. QED
  BY <1>3, <1>4

\* A section that registers or removes its owner.
LEMMA RuleSectionKeeps ==
    ASSUME MwTypeOK, RulesInv, NEW b \in Boxes, NEW s \in AllSorts, RuleSection(b, s)
    PROVE  /\ RulesInv' /\ mwLife' \in [Boxes -> [at : Lives, i : Nat, k : Nat]]
           /\ ruleOwners' \in [AllSorts -> SUBSET Owners]
<1> DEFINE l == mwLife[b]
           me == <<b, l.i>>
           work == HasRules(s, Mw(me)) /\ (l.at = "starting" => inited = "ok")
<1>1. AtSection(b, s) /\ SectionDone(b) /\ LifeSound(b) /\ UNCHANGED inited
  BY DEF RuleSection, RulesInv
<1>2. /\ mwLife' = [mwLife EXCEPT ![b] = [at |-> l.at, i |-> l.i, k |-> l.k + 1]]
      /\ (\A c \in Boxes \ {b} : mwLife'[c] = mwLife[c])
      /\ l.at \in {"starting", "stopping"} /\ l.i \in Nat /\ l.k \in 1..4 /\ LifeSound(b)'
  BY <1>1, DoneFacts
<1>3. me \in Owners
  BY <1>1, SectionFacts
<1>4. mwLife' \in [Boxes -> [at : Lives, i : Nat, k : Nat]]
  BY <1>2 DEF MwTypeOK, Lives
<1>5. \A c \in Boxes : LifeSound(c)'
  BY <1>2 DEF RulesInv, LifeSound
<1>6. /\ LoadedExact' /\ ruleOwners' \in [AllSorts -> SUBSET Owners]
      /\ \A r \in AllSorts \ {s} : ruleOwners'[r] = ruleOwners[r]
      /\ work /\ l.at = "starting" => ruleOwners'[s] = ruleOwners[s] \cup {me}
      /\ work /\ l.at = "stopping" => ruleOwners'[s] = ruleOwners[s] \ {me}
      /\ ~work => ruleOwners' = ruleOwners
  <2>1. CASE work /\ l.at = "starting" /\ LoadSection(s, me)
    BY <1>3, <2>1, ReloadExact DEF RulesInv
  <2>2. CASE work /\ l.at = "stopping" /\ UnloadSection(s, me)
    BY <1>3, <2>2, ReloadExact DEF RulesInv
  <2>3. CASE ~work /\ UNCHANGED <<ruleOwners, loaded, loadedSys>>
    BY <2>3 DEF RulesInv, LoadedExact, MwTypeOK
  <2>4. QED
    BY <2>1, <2>2, <2>3 DEF RuleSection
<1> HIDE DEF me, work
<1>7. OwnersExact'
  <2> SUFFICES ASSUME NEW r \in AllSorts, NEW o \in Owners
               PROVE  o \in ruleOwners'[r] <=> Registered(o, r)' /\ inited' = "ok" /\ HasRules(r, Mw(o))
    BY DEF OwnersExact
  <2>1. o \in ruleOwners[r] <=> Registered(o, r) /\ inited = "ok" /\ HasRules(r, Mw(o))
    BY DEF RulesInv, OwnersExact
  <2>2. CASE o # me \/ r # s
    <3>1. Registered(o, r)' <=> Registered(o, r)
      BY <1>1, <2>2, OwnerMoves DEF me
    <3>2. o \in ruleOwners'[r] <=> o \in ruleOwners[r]
      BY <1>2, <1>6, <2>2
    <3>3. QED
      BY <1>1, <2>1, <3>1, <3>2
  <2>3. CASE o = me /\ r = s
    <3>1. /\ l.at = "starting" => Registered(o, s)' /\ ~Registered(o, s)
          /\ l.at = "stopping" => ~Registered(o, s)' /\ Registered(o, s)
      BY <1>1, <2>3, OwnerMoves DEF me
    <3>2. work <=> HasRules(s, Mw(o)) /\ (l.at = "starting" => inited = "ok")
      BY <2>3 DEF work
    <3>3. QED
      BY <1>1, <1>2, <1>6, <2>1, <2>3, <3>1, <3>2
  <2>4. QED
    BY <2>2, <2>3
<1>8. InitedFirst'
  <2> SUFFICES ASSUME NEW o \in Owners, mwLife'[o[1]].at \in {"on", "stopping", "off"} \/ PastStart(o, 1)'
               PROVE  inited # "no"
    BY <1>1 DEF InitedFirst
  <2>1. s # "init"
    BY DEF AllSorts, Sorts
  <2>2. CASE o = me
    <3>1. l.at = "starting" => PastStart(o, 1)
      BY <1>1, <2>1, <2>2, OwnerMoves DEF me
    <3>2. o[1] = b
      BY <2>2 DEF me
    <3>3. QED
      BY <1>2, <3>1, <3>2 DEF RulesInv, InitedFirst
  <2>3. CASE o # me
    <3>1. PastStart(o, 1)' <=> PastStart(o, 1)
      BY <1>1, <2>3, OwnerMoves DEF me
    <3>2. mwLife'[o[1]].at = mwLife[o[1]].at
      BY <1>2, OwnerFacts DEF MwTypeOK
    <3>3. QED
      BY <3>1, <3>2 DEF RulesInv, InitedFirst
  <2>4. QED
    BY <2>2, <2>3
<1>9. QED
  BY <1>4, <1>5, <1>6, <1>7, <1>8 DEF RulesInv

\* What the jobs of the next state look like.
WalkTypes ==
    /\ slot \in [Msgs -> Nat] /\ open \subseteq Msgs \X Nat /\ traced \subseteq Msgs \X Nat
    /\ DOMAIN walk = Msgs
    /\ \A j \in Msgs : walk[j].executed \in Nat /\ (walk[j].at = "new" => walk[j].executed = 0)

\* A job goes on to the next middleware, or its walk ends.
LEMMA WalkOn ==
    ASSUME MwTypeOK, NEW j \in Msgs, Reached(j), Continue(j) \/ EndWalk(j, "queued") \/ EndWalk(j, "rejected")
    PROVE  /\ DOMAIN walk' = Msgs /\ walk'[j].executed = walk[j].executed + 1
           /\ walk'[j].at \in {"walk", "queued", "rejected"} /\ walk[j].at \in {"new", "walk"}
           /\ \A c \in Msgs \ {j} : walk'[c] = walk[c]
BY DEF MwTypeOK, Reached, Continue, EndWalk

\* Receiving: a Sentinel that lets the job pass opens an entry and puts it into the slot.
LEMMA ReceiveKeeps ==
    ASSUME MwTypeOK, JobsInv, NEW j \in Msgs, Reached(j),
           Continue(j) \/ EndWalk(j, "queued") \/ EndWalk(j, "rejected"), UNCHANGED traced,
           \/ UNCHANGED <<slot, open>>
           \/ /\ MwAt(j).kind = "sentinel" /\ slot' = [slot EXCEPT ![j] = walk[j].executed + 1]
              /\ open' = open \cup {<<j, walk[j].executed + 1>>}
    PROVE  JobsInv' /\ WalkTypes'
<1> DEFINE n == walk[j].executed
<1>1. /\ DOMAIN walk' = Msgs /\ walk'[j].executed = n + 1 /\ n \in Nat
      /\ walk'[j].at \in {"walk", "queued", "rejected"} /\ walk[j].at \in {"new", "walk"}
      /\ (walk[j].at = "new" => n = 0)
      /\ \A c \in Msgs \ {j} : walk'[c] = walk[c]
  BY WalkOn DEF MwTypeOK
<1> HIDE DEF n
<1>2. \A c \in Msgs \ {j} : SentinelsIn(c)' = SentinelsIn(c)
  BY <1>1 DEF SentinelsIn
<1>3. SentinelsIn(j) \subseteq SentinelsIn(j)' /\ (MwAt(j).kind = "sentinel" => n + 1 \in SentinelsIn(j)')
      /\ SentinelsIn(j) \subseteq 1..n
  BY <1>1 DEF SentinelsIn, MwAt, n
<1>4. WalkTypes'
  <2>1. slot' \in [Msgs -> Nat] /\ open' \subseteq Msgs \X Nat
    BY <1>1 DEF MwTypeOK, n
  <2>2. QED
    BY <1>1, <2>1 DEF WalkTypes, MwTypeOK
<1>5. ASSUME NEW e \in open' PROVE EntrySound(e)'
  <2>1. e \in Msgs \X Nat /\ e = <<e[1], e[2]>> /\ e[1] \in Msgs /\ e[2] \in Nat
    BY <1>4 DEF WalkTypes
  <2>2. CASE e[1] # j
    <3>1. e \in open /\ slot'[e[1]] = slot[e[1]]
      BY <2>1, <2>2 DEF MwTypeOK
    <3>2. EntrySound(e)
      BY <3>1 DEF JobsInv
    <3>3. SentinelsIn(e[1])' = SentinelsIn(e[1]) /\ walk'[e[1]] = walk[e[1]]
      BY <1>1, <1>2, <2>1, <2>2
    <3>4. QED
      BY <3>1, <3>2, <3>3 DEF EntrySound
  <2>3. CASE e[1] = j /\ e \in open
    <3>1. EntrySound(e)
      BY <2>3 DEF JobsInv
    <3>2. e[2] \in SentinelsIn(j) /\ e[2] \in 1..n
      BY <1>3, <2>3, <3>1 DEF EntrySound
    <3>3. walk[j].at = "walk"
      BY <1>1, <3>2
    <3>4. slot[j] \in SentinelsIn(j) /\ slot[j] >= e[2]
      BY <2>3, <3>1, <3>3 DEF EntrySound
    <3>5. slot'[j] \in SentinelsIn(j)' /\ slot'[j] >= e[2]
      <4>1. CASE slot' = slot
        BY <1>3, <3>4, <4>1
      <4>2. CASE MwAt(j).kind = "sentinel" /\ slot' = [slot EXCEPT ![j] = n + 1]
        BY <1>1, <1>3, <3>2, <4>2 DEF MwTypeOK
      <4>3. QED
        BY <4>1, <4>2 DEF n
    <3>6. QED
      BY <1>1, <1>3, <2>3, <3>2, <3>5 DEF EntrySound
  <2>4. CASE e[1] = j /\ e \notin open
    <3>1. MwAt(j).kind = "sentinel" /\ slot' = [slot EXCEPT ![j] = n + 1] /\ e = <<j, n + 1>>
      BY <2>4 DEF n
    <3>2. slot'[j] = n + 1 /\ e[2] = n + 1 /\ n + 1 \in SentinelsIn(j)'
      BY <1>3, <3>1 DEF MwTypeOK
    <3>3. QED
      BY <1>1, <2>4, <3>2 DEF EntrySound
  <2>5. QED
    BY <2>2, <2>3, <2>4
<1>6. ASSUME NEW e \in traced PROVE walk'[e[1]].at = "failed"
  <2>1. e[1] \in Msgs /\ walk[e[1]].at = "failed"
    BY DEF JobsInv, MwTypeOK
  <2>2. QED
    BY <1>1, <2>1
<1>7. QED
  BY <1>4, <1>5, <1>6 DEF JobsInv

\* A job that ends takes the entry in its slot with it; one that stays open was overwritten.
LEMMA EndJobKeeps ==
    ASSUME MwTypeOK, JobsInv, NEW j \in Msgs, walk[j].at \in {"queued", "rejected"},
           NEW failed \in BOOLEAN, EndJob(j, failed)
    PROVE  JobsInv' /\ WalkTypes'
<1>1. /\ open' = open \ ExitEntry(j) /\ traced' = (IF failed THEN traced \cup (open \cap ExitEntry(j)) ELSE traced)
      /\ slot' = [slot EXCEPT ![j] = 0]
      /\ walk' = [walk EXCEPT ![j].at = IF failed THEN "failed" ELSE "done"]
  BY DEF EndJob
<1>2. /\ DOMAIN walk' = Msgs /\ walk'[j].executed = walk[j].executed
      /\ walk'[j].at = (IF failed THEN "failed" ELSE "done")
      /\ \A c \in Msgs \ {j} : walk'[c] = walk[c]
  BY <1>1 DEF MwTypeOK
<1>3. \A c \in Msgs : SentinelsIn(c)' = SentinelsIn(c)
  BY <1>2 DEF SentinelsIn
<1>4. WalkTypes'
  <2>1. slot' \in [Msgs -> Nat] /\ open' \subseteq Msgs \X Nat /\ traced' \subseteq Msgs \X Nat
    BY <1>1 DEF MwTypeOK
  <2>2. QED
    BY <1>2, <2>1 DEF WalkTypes, MwTypeOK
<1>5. ASSUME NEW e \in open' PROVE EntrySound(e)'
  <2>1. e \in open /\ e = <<e[1], e[2]>> /\ e[1] \in Msgs /\ e[2] \in Nat
    BY <1>1 DEF MwTypeOK
  <2>2. EntrySound(e)
    BY <2>1 DEF JobsInv
  <2>3. CASE e[1] # j
    BY <1>1, <1>2, <1>3, <2>1, <2>2, <2>3 DEF EntrySound, MwTypeOK
  <2>4. CASE e[1] = j
    <3>1. slot[j] \in SentinelsIn(j) /\ slot[j] >= e[2] /\ e[2] \in SentinelsIn(j)
      BY <2>2, <2>4 DEF EntrySound
    <3>2. slot[j] \in Nat /\ slot[j] # 0
      BY <3>1 DEF SentinelsIn, MwTypeOK
    <3>3. ExitEntry(j) = {<<j, slot[j]>>}
      BY <3>1, <3>2 DEF ExitEntry
    <3>4. e[2] # slot[j]
      BY <1>1, <2>1, <2>4, <3>3
    <3>5. slot[j] > e[2]
      BY <2>1, <3>1, <3>2, <3>4
    <3>6. QED
      BY <1>2, <1>3, <2>4, <3>1, <3>5 DEF EntrySound
  <2>5. QED
    BY <2>3, <2>4
<1>6. ASSUME NEW e \in traced' PROVE walk'[e[1]].at = "failed"
  <2>1. CASE e \in traced
    <3>1. e[1] \in Msgs /\ walk[e[1]].at = "failed"
      BY <2>1 DEF JobsInv, MwTypeOK
    <3>2. QED
      BY <1>2, <3>1
  <2>2. CASE e \notin traced
    <3>1. failed /\ e \in ExitEntry(j)
      BY <1>1, <2>2
    <3>2. e[1] = j
      BY <3>1 DEF ExitEntry
    <3>3. QED
      BY <1>2, <3>1, <3>2
  <2>3. QED
    BY <2>1, <2>2
<1>7. QED
  BY <1>4, <1>5, <1>6 DEF JobsInv

\* What the statistics of the next state look like.
StatTypes ==
    /\ counts \in [Boxes -> [Keys -> Nat]] /\ counted \in [Boxes -> [Keys -> Nat]]
    /\ reported \in [Boxes -> [Keys -> Nat]] /\ totalKeys \in [Boxes -> Nat]

\* What is counted goes into its shard, what is collected into a report.
LEMMA CountKeeps ==
    ASSUME MwTypeOK, StatsConserved, NEW j \in Msgs, StatsOnReceive(j)
    PROVE  StatsConserved' /\ StatTypes'
<1> DEFINE b == BoxOf[j]
           k == KeyOf[j]
<1>1. b \in Boxes /\ k \in Keys
  BY MiddlewareAssumption DEF Keys
<1>2. UNCHANGED reported
  BY DEF StatsOnReceive
<1> HIDE DEF b, k
<1>3. CASE UNCHANGED <<counts, totalKeys, counted>>
  BY <1>2, <1>3 DEF StatsConserved, StatTypes, MwTypeOK
<1>4. CASE /\ counts' = [counts EXCEPT ![b][k] = @ + 1] /\ counted' = [counted EXCEPT ![b][k] = @ + 1]
           /\ totalKeys' = [totalKeys EXCEPT ![b] = IF counts[b][k] > 0 THEN @ ELSE @ + 1]
  <2>1. counts' \in [Boxes -> [Keys -> Nat]] /\ counted' \in [Boxes -> [Keys -> Nat]]
    BY <1>1, <1>4 DEF MwTypeOK
  <2>2. totalKeys' \in [Boxes -> Nat]
    BY <1>1, <1>4 DEF MwTypeOK
  <2>3. ASSUME NEW c \in Boxes, NEW l \in Keys PROVE counted'[c][l] = reported'[c][l] + counts'[c][l]
    <3>1. /\ counted[c][l] = reported[c][l] + counts[c][l]
          /\ counted[c][l] \in Nat /\ reported[c][l] \in Nat /\ counts[c][l] \in Nat
      BY DEF StatsConserved, MwTypeOK
    <3>2. CASE c = b /\ l = k
      <4>1. counts'[c][l] = counts[c][l] + 1 /\ counted'[c][l] = counted[c][l] + 1
        BY <1>1, <1>4, <3>2 DEF MwTypeOK
      <4>2. QED
        BY <1>2, <3>1, <4>1
    <3>3. CASE ~(c = b /\ l = k)
      <4>1. counts'[c][l] = counts[c][l] /\ counted'[c][l] = counted[c][l]
        BY <1>1, <1>4, <3>3 DEF MwTypeOK
      <4>2. QED
        BY <1>2, <3>1, <4>1
    <3>4. QED
      BY <3>2, <3>3
  <2>4. QED
    BY <1>2, <2>1, <2>2, <2>3 DEF StatsConserved, StatTypes, MwTypeOK
<1>5. QED
  BY <1>3, <1>4 DEF StatsOnReceive, b, k

LEMMA CollectKeeps ==
    ASSUME MwTypeOK, StatsConserved, NEW b \in Boxes, ReportCollect(b)
    PROVE  StatsConserved' /\ StatTypes'
<1> DEFINE S == InShard(reporter[b].shard)
           rep == [k \in Keys |-> reported[b][k] + IF k \in S THEN counts[b][k] ELSE 0]
           cnt == [k \in Keys |-> IF k \in S THEN 0 ELSE counts[b][k]]
<1>1. /\ reported' = [reported EXCEPT ![b] = rep] /\ counts' = [counts EXCEPT ![b] = cnt]
      /\ UNCHANGED <<counted, totalKeys>>
  BY DEF ReportCollect
<1> HIDE DEF S
<1>2. rep \in [Keys -> Nat] /\ cnt \in [Keys -> Nat]
  BY DEF MwTypeOK
<1>3. \A k \in Keys : counted[b][k] = rep[k] + cnt[k]
  <2> TAKE k \in Keys
  <2>1. counted[b][k] = reported[b][k] + counts[b][k] /\ reported[b][k] \in Nat /\ counts[b][k] \in Nat
    BY DEF StatsConserved, MwTypeOK
  <2>2. QED
    BY <2>1
<1> HIDE DEF rep, cnt
<1>4. StatTypes'
  BY <1>1, <1>2 DEF StatTypes, MwTypeOK
<1>5. StatsConserved'
  BY <1>1, <1>3 DEF StatsConserved, MwTypeOK
<1>6. QED
  BY <1>4, <1>5

\* One step of a mailbox's life, of the statistics or of a job.
LEMMA MwNextKeeps ==
    ASSUME MwInv, [MwNext]_mwVars
    PROVE  MwInv'
<1> USE DEF MwInv
<1>1. ASSUME UNCHANGED ruleVars PROVE RulesInv' /\ mwLife' = mwLife /\ inited' = inited /\ ruleOwners' = ruleOwners
  BY <1>1 DEF ruleVars, RulesInv, LifeSound, InitedFirst, PastStart, OwnersExact, Registered, LoadedExact
<1>2. ASSUME UNCHANGED jobVars PROVE JobsInv' /\ WalkTypes'
  BY <1>2 DEF jobVars, JobsInv, EntrySound, SentinelsIn, WalkTypes, MwTypeOK
<1>3. ASSUME UNCHANGED <<counts, totalKeys, reported, counted>> PROVE StatsConserved' /\ StatTypes'
  BY <1>3 DEF StatsConserved, StatTypes, MwTypeOK
<1>4. ASSUME RulesInv', JobsInv', WalkTypes', StatsConserved', StatTypes',
             mwLife' \in [Boxes -> [at : Lives, i : Nat, k : Nat]], inited' \in {"no", "ok", "failed"},
             ruleOwners' \in [AllSorts -> SUBSET Owners]
      PROVE  MwInv'
  BY <1>4 DEF MwTypeOK, WalkTypes, StatTypes
<1>5. ASSUME NEW b \in Boxes, BeginLife(b) \/ NextMiddleware(b) \/ EndLife(b) PROVE MwInv'
  <2>1. RulesInv' /\ mwLife' \in [Boxes -> [at : Lives, i : Nat, k : Nat]]
    BY <1>5, BeginKeeps, NextKeeps, EndKeeps
  <2>2. UNCHANGED <<jobVars, statVars, inited, ruleOwners>>
    BY <1>5 DEF BeginLife, NextMiddleware, EndLife
  <2>3. QED
    BY <1>2, <1>3, <1>4, <2>1, <2>2 DEF statVars, MwTypeOK
<1>6. ASSUME NEW b \in Boxes, InitOnce(b) PROVE MwInv'
  <2>1. UNCHANGED <<jobVars, statVars, ruleOwners>>
    BY <1>6 DEF InitOnce
  <2>2. QED
    BY <1>2, <1>3, <1>4, <1>6, <2>1, InitOnceKeeps DEF statVars, MwTypeOK
<1>7. ASSUME NEW b \in Boxes, NEW s \in AllSorts, RuleSection(b, s) PROVE MwInv'
  <2>1. UNCHANGED <<jobVars, statVars, inited>>
    BY <1>7 DEF RuleSection
  <2>2. QED
    BY <1>2, <1>3, <1>4, <1>7, <2>1, RuleSectionKeeps DEF statVars, MwTypeOK
<1>8. ASSUME NEW b \in Boxes, StatsSection(b) PROVE MwInv'
  <2>1. UNCHANGED <<jobVars, counts, totalKeys, reported, counted, inited, ruleOwners>>
    BY <1>8 DEF StatsSection
  <2>2. QED
    BY <1>2, <1>3, <1>4, <1>8, <2>1, StatsKeepsRules DEF MwTypeOK
<1>9. ASSUME NEW b \in Boxes, ReportBegin(b) \/ ReportCollect(b) \/ ReportEnd(b) PROVE MwInv'
  <2>1. UNCHANGED <<ruleVars, jobVars>>
    BY <1>9 DEF ReportBegin, ReportCollect, ReportEnd
  <2>2. StatsConserved' /\ StatTypes'
    <3>1. CASE ReportBegin(b)
      BY <1>3, <3>1 DEF ReportBegin
    <3>2. CASE ReportCollect(b)
      BY <3>2, CollectKeeps
    <3>3. CASE ReportEnd(b)
      <4>1. totalKeys' \in [Boxes -> Nat] /\ UNCHANGED <<counts, reported, counted>>
        BY <3>3 DEF ReportEnd, MwTypeOK
      <4>2. QED
        BY <4>1 DEF StatsConserved, StatTypes, MwTypeOK
    <3>4. QED
      BY <1>9, <3>1, <3>2, <3>3
  <2>3. QED
    BY <1>1, <1>2, <1>4, <2>1, <2>2 DEF MwTypeOK
<1>10. ASSUME NEW j \in Msgs,
              StatsOnReceive(j) \/ LimitOnReceive(j) \/ SentinelOnReceive(j) \/ UserOnReceive(j)
       PROVE  MwInv'
  <2>1. UNCHANGED ruleVars
    BY <1>10 DEF StatsOnReceive, LimitOnReceive, SentinelOnReceive, UserOnReceive
  <2>2. StatsConserved' /\ StatTypes'
    <3>1. CASE StatsOnReceive(j)
      BY <3>1, CountKeeps
    <3>2. CASE LimitOnReceive(j) \/ SentinelOnReceive(j) \/ UserOnReceive(j)
      BY <1>3, <3>2 DEF LimitOnReceive, SentinelOnReceive, UserOnReceive, statVars
    <3>3. QED
      BY <1>10, <3>1, <3>2
  <2>3. JobsInv' /\ WalkTypes'
    <3>1. Reached(j) /\ UNCHANGED traced
      BY <1>10 DEF StatsOnReceive, LimitOnReceive, SentinelOnReceive, UserOnReceive
    <3>2. Continue(j) \/ EndWalk(j, "queued") \/ EndWalk(j, "rejected")
      BY <1>10 DEF StatsOnReceive, LimitOnReceive, SentinelOnReceive, UserOnReceive
    <3>3. \/ UNCHANGED <<slot, open>>
          \/ /\ MwAt(j).kind = "sentinel" /\ slot' = [slot EXCEPT ![j] = walk[j].executed + 1]
             /\ open' = open \cup {<<j, walk[j].executed + 1>>}
      BY <1>10 DEF StatsOnReceive, LimitOnReceive, SentinelOnReceive, UserOnReceive
    <3>4. QED
      BY <3>1, <3>2, <3>3, ReceiveKeeps
  <2>4. QED
    BY <1>1, <1>4, <2>1, <2>2, <2>3 DEF MwTypeOK
<1>11. ASSUME NEW j \in Msgs, ExecuteOnComplete(j) \/ CompleteRejected(j) \/ ExecuteFrameworkCleanup(j) PROVE MwInv'
  <2>1. PICK failed \in BOOLEAN : EndJob(j, failed) /\ walk[j].at \in {"queued", "rejected"}
    BY <1>11 DEF ExecuteOnComplete, CompleteRejected, ExecuteFrameworkCleanup
  <2>2. UNCHANGED <<ruleVars, statVars>>
    BY <2>1 DEF EndJob
  <2>3. QED
    BY <1>1, <1>3, <1>4, <2>1, <2>2, EndJobKeeps DEF statVars, MwTypeOK
<1>12. CASE UNCHANGED mwVars
  <2>1. UNCHANGED <<ruleVars, jobVars, statVars>>
    BY <1>12 DEF mwVars
  <2>2. QED
    BY <1>1, <1>2, <1>3, <1>4, <2>1 DEF statVars, MwTypeOK
<1>13. QED
  BY <1>5, <1>6, <1>7, <1>8, <1>9, <1>10, <1>11, <1>12 DEF MwNext, AllSorts

\* A resource has the rules of the owners that are registered, and no others.
LEMMA RulesAreExact == ASSUME MwInv PROVE RulesExact
<1> SUFFICES ASSUME NEW o \in Owners, NEW s \in Sorts, NEW r \in Resources
             PROVE  LET mine == {p \in loaded[s][r] : p[1] = o} IN
                    /\ mwLife[o[1]].at \in {"new", "off"} \/ inited # "ok" => mine = {}
                    /\ mwLife[o[1]].at = "on" /\ inited = "ok" => mine = {o} \X RulesOf(s, o, r)
                    /\ mwLife[o[1]].at = "on" /\ inited = "ok" => Mw(o).system \subseteq loadedSys
  BY DEF RulesExact
<1> DEFINE mine == {p \in loaded[s][r] : p[1] = o}
<1>1. s \in AllSorts /\ "system" \in AllSorts
  BY DEF AllSorts
<1>2. \A t \in AllSorts : o \in ruleOwners[t] <=> Registered(o, t) /\ inited = "ok" /\ HasRules(t, Mw(o))
  BY DEF MwInv, RulesInv, OwnersExact
<1>3. mine = IF o \in ruleOwners[s] THEN {o} \X RulesOf(s, o, r) ELSE {}
  <2>1. loaded[s][r] = UNION {{p} \X RulesOf(s, p, r) : p \in ruleOwners[s]}
    BY DEF MwInv, RulesInv, LoadedExact, Merged
  <2>2. QED
    BY <2>1
<1> HIDE DEF mine
<1>4. ~HasRules(s, Mw(o)) => RulesOf(s, o, r) = {}
  <2>1. s \in {"flow", "breaker"}
    BY DEF Sorts
  <2>2. CASE s = "flow"
    BY <2>2 DEF HasRules, RulesOf, FlowRulesFor
  <2>3. CASE s = "breaker"
    BY <2>3 DEF HasRules, RulesOf, BreakerRulesFor
  <2>4. QED
    BY <2>1, <2>2, <2>3
<1>5. mwLife[o[1]].at \in {"new", "off"} => ~Registered(o, s)
  BY DEF Registered, PastStart
<1>6. ASSUME mwLife[o[1]].at = "on", inited = "ok"
      PROVE  mine = {o} \X RulesOf(s, o, r) /\ Mw(o).system \subseteq loadedSys
  <2>1. \A t \in AllSorts : o \in ruleOwners[t] <=> HasRules(t, Mw(o))
    BY <1>2, <1>6 DEF Registered
  <2>2. mine = {o} \X RulesOf(s, o, r)
    BY <1>1, <1>3, <1>4, <2>1
  <2>3. Mw(o).system \subseteq loadedSys
    <3>1. CASE Mw(o).system = {}
      BY <3>1
    <3>2. CASE Mw(o).system # {}
      <4>1. HasRules("system", Mw(o))
        BY <3>2 DEF HasRules
      <4>2. QED
        BY <1>1, <2>1, <4>1 DEF MwInv, RulesInv, LoadedExact
    <3>3. QED
      BY <3>1, <3>2
  <2>4. QED
    BY <2>2, <2>3
<1>7. QED
  BY <1>1, <1>2, <1>3, <1>5, <1>6 DEF mine

\* Whatever chains the mailboxes of a process have, and however their starts, stops and messages
\* interleave: Sentinel has the rules of the mailboxes that run, entries are closed when their job
\* ends, and the statistics lose nothing (MiddlewareChain, SentinelMiddleware, DispatchKeyStats).
THEOREM MiddlewareSoundHolds == MwSpec => []MiddlewareSound
<1>1. MwInv => MiddlewareSound
  <2> SUFFICES ASSUME MwInv PROVE MiddlewareSound
    OBVIOUS
  <2>1. EntriesBalanced
    BY DEF MwInv, JobsInv, EntrySound, EntriesBalanced
  <2>2. QED
    BY <2>1, RulesAreExact DEF MwInv, MiddlewareSound
<1>2. MwInv /\ [MwNext]_mwVars => MwInv'
  BY MwNextKeeps
<1>3. QED
  BY <1>1, <1>2, MwInitially, PTL DEF MwSpec
=============================================================================
