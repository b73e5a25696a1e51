------------------------------ MODULE JobQueue ------------------------------
(***************************************************************************)
(* What a worker's queue promises the rest of the mailbox: bounded FIFO    *)
(* lanes, filled by any number of producers until the worker closes, and   *)
(* only emptied afterwards.                                                *)
(***************************************************************************)
EXTENDS Naturals, Sequences

CONSTANTS Jobs, Lanes, Capacity

VARIABLES lane,   \* the jobs of each lane, oldest first
          open    \* whether jobs are still admitted

Init == lane = [l \in Lanes |-> <<>>] /\ open = TRUE

Admit(l, j) ==
    /\ open
    /\ Len(lane[l]) < Capacity[l]
    /\ lane' = [lane EXCEPT ![l] = Append(@, j)]
    /\ UNCHANGED open

Take(l) ==
    /\ lane[l] # <<>>
    /\ lane' = [lane EXCEPT ![l] = Tail(@)]
    /\ UNCHANGED open

Close ==
    /\ open' = FALSE
    /\ UNCHANGED lane

Next ==
    \/ \E l \in Lanes : Take(l) \/ \E j \in Jobs : Admit(l, j)
    \/ Close

Spec == Init /\ [][Next]_<<lane, open>>
=============================================================================
