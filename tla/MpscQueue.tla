------------------------------ MODULE MpscQueue ------------------------------
(***************************************************************************)
(* The unbounded queue of a worker (engine/pkg/utils/mpsc/deque.go): a     *)
(* linked list with a stub.  A producer swaps itself into head and links   *)
(* its predecessor to itself in a second step; the one consumer follows    *)
(* the links from tail, and gives the node it leaves behind back to a      *)
(* sync.Pool the producers allocate from.  Every load, store and swap on   *)
(* a shared pointer is a step.                                             *)
(***************************************************************************)
EXTENDS Integers, Sequences, SequencesExt

CONSTANTS
    Producers,      \* goroutines that push
    PushesEach,     \* bound: how often each one does
    Nodes, Stub, NoNode,
    BatchSizes      \* the sizes BatchPop is called with

ASSUME MpscAssumption ==
    Stub \in Nodes /\ NoNode \notin Nodes /\ PushesEach \in Nat /\ BatchSizes \subseteq Nat

VARIABLES
    succ,      \* next of a node
    val,       \* val of a node
    qhead, qtail,
    spare,     \* the nodes in the pool, or not allocated yet
    qlen,      \* the length counter
    ppc, pnode, pprev, pushes,  \* a producer: its step, its node, the node before it
    cpc, left, cnode,           \* the consumer: its step, the pops left of its call
    order, out                  \* history: the values in the order of the swaps, and as popped

listVars == <<succ, val, qhead, qtail, spare, qlen>>
prodVars == <<ppc, pnode, pprev, pushes>>
consVars == <<cpc, left, cnode>>
mpscVars == <<listVars, prodVars, consVars, order, out>>

NoValue == <<>>

MpscInit ==
    /\ succ = [n \in Nodes |-> NoNode] /\ val = [n \in Nodes |-> NoValue]
    /\ qhead = Stub /\ qtail = Stub
    /\ spare = Nodes \ {Stub} /\ qlen = 0
    /\ ppc = [p \in Producers |-> "idle"] /\ pushes = [p \in Producers |-> 0]
    /\ pnode = [p \in Producers |-> NoNode] /\ pprev = [p \in Producers |-> NoNode]
    /\ cpc = "idle" /\ left = 0 /\ cnode = NoNode
    /\ order = <<>> /\ out = <<>>

(***************************************************************************)
(* Push.                                                                   *)
(***************************************************************************)
PushAlloc(p) ==
    /\ ppc[p] = "idle" /\ pushes[p] < PushesEach
    /\ \E n \in spare :
        /\ spare' = spare \ {n}
        /\ pnode' = [pnode EXCEPT ![p] = n]
        /\ succ' = [succ EXCEPT ![n] = NoNode]
        /\ val' = [val EXCEPT ![n] = <<p, pushes[p] + 1>>]
    /\ pushes' = [pushes EXCEPT ![p] = @ + 1]
    /\ ppc' = [ppc EXCEPT ![p] = "swap"]
    /\ UNCHANGED <<qhead, qtail, qlen, pprev, consVars, order, out>>

PushSwap(p) ==
    /\ ppc[p] = "swap"
    /\ qhead' = pnode[p]
    /\ pprev' = [pprev EXCEPT ![p] = qhead]
    /\ order' = Append(order, <<p, pushes[p]>>)
    /\ ppc' = [ppc EXCEPT ![p] = "link"]
    /\ UNCHANGED <<succ, val, qtail, spare, qlen, pnode, pushes, consVars, out>>

PushLink(p) ==
    /\ ppc[p] = "link"
    /\ succ' = [succ EXCEPT ![pprev[p]] = pnode[p]]
    /\ ppc' = [ppc EXCEPT ![p] = "count"]
    /\ UNCHANGED <<val, qhead, qtail, spare, qlen, pnode, pprev, pushes, consVars, order, out>>

PushCount(p) ==
    /\ ppc[p] = "count"
    /\ qlen' = qlen + 1
    /\ ppc' = [ppc EXCEPT ![p] = "idle"]
    /\ UNCHANGED <<succ, val, qhead, qtail, spare, pnode, pprev, pushes, consVars, order, out>>

(***************************************************************************)
(* Pop and BatchPop: a BatchPop asks for no more than the counter says,    *)
(* which lags behind the list in both directions.                          *)
(***************************************************************************)
CallPop ==
    /\ cpc = "idle"
    /\ cpc' = "load" /\ left' = 1
    /\ UNCHANGED <<listVars, prodVars, cnode, order, out>>

CallBatchPop(n) ==
    /\ cpc = "idle"
    /\ left' = IF n > qlen THEN qlen ELSE n
    /\ cpc' = IF left' > 0 THEN "load" ELSE "idle"
    /\ UNCHANGED <<listVars, prodVars, cnode, order, out>>

PopEmpty ==
    /\ cpc = "load" /\ succ[qtail] = NoNode
    /\ cpc' = "idle" /\ left' = 0
    /\ UNCHANGED <<listVars, prodVars, cnode, order, out>>

PopAdvance ==
    /\ cpc = "load" /\ succ[qtail] # NoNode
    /\ qtail' = succ[qtail]
    /\ cnode' = qtail
    /\ out' = Append(out, val[succ[qtail]])
    /\ cpc' = "clear"
    /\ UNCHANGED <<succ, val, qhead, spare, qlen, prodVars, left, order>>

PopClear ==
    /\ cpc = "clear"
    /\ val' = [val EXCEPT ![cnode] = NoValue]
    /\ succ' = [succ EXCEPT ![cnode] = NoNode]
    /\ cpc' = "put"
    /\ UNCHANGED <<qhead, qtail, spare, qlen, prodVars, left, cnode, order, out>>

\* Mutant: the node that was reached goes back to the pool, not the one left behind.
PopPutFront ==
    /\ cpc = "put"
    /\ spare' = spare \cup {qtail}
    /\ cpc' = "count"
    /\ UNCHANGED <<succ, val, qhead, qtail, qlen, prodVars, left, cnode, order, out>>

PopPut ==
    /\ cpc = "put"
    /\ spare' = spare \cup {cnode}
    /\ cpc' = "count"
    /\ UNCHANGED <<succ, val, qhead, qtail, qlen, prodVars, left, cnode, order, out>>

PopCount ==
    /\ cpc = "count"
    /\ qlen' = qlen - 1
    /\ left' = left - 1
    /\ cpc' = IF left > 1 THEN "load" ELSE "idle"
    /\ UNCHANGED <<succ, val, qhead, qtail, spare, prodVars, cnode, order, out>>

Pushing(p) == PushAlloc(p) \/ PushSwap(p) \/ PushLink(p) \/ PushCount(p)
Popping == PopEmpty \/ PopAdvance \/ PopClear \/ PopPut \/ PopCount

MpscNext ==
    \/ \E p \in Producers : Pushing(p)
    \/ CallPop \/ (\E n \in BatchSizes : CallBatchPop(n)) \/ Popping

\* A producer inside Push goes on; the worker keeps asking its queue.
MpscFairness ==
    /\ \A p \in Producers : WF_mpscVars(Pushing(p))
    /\ WF_mpscVars(CallPop) /\ WF_mpscVars(Popping)

MpscSpec == MpscInit /\ [][MpscNext]_mpscVars /\ MpscFairness

(***************************************************************************)
(* Properties.                                                             *)
(***************************************************************************)
\* What the consumer pops is what was pushed, once, in the order in which the producers swapped
\* themselves in, although the list is cut wherever a producer has not linked its node yet and
\* nodes are used again at once (Push, Pop, BatchPop).
PopsInOrder == IsPrefix(out, order)

\* In the end everything has been popped.
EverythingPopped == <>[](out = order)
=============================================================================
