---------------------------- MODULE MCWorkerPool ----------------------------
EXTENDS WorkerPool

CONSTANTS k1, k2

\* k1 moves to the second and to the third worker when they are added; k2
\* moves only to the third.
MCJumps == [k \in Keys |-> IF k = k1 THEN {0, 1, 2} ELSE {0, 2}]
=============================================================================
