----------------------------- MODULE MCRWWorker -----------------------------
EXTENDS RWWorker

CONSTANTS w1, w2, r1, r2, x1, x2

MCReadJobs == {r1, r2} \cap Jobs
MCWorkerOf == [j \in Jobs |-> IF j = x2 THEN w2 ELSE w1]
=============================================================================
