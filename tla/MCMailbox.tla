------------------------------ MODULE MCMailbox ------------------------------
EXTENDS Mailbox

CONSTANTS s1, u1, u2, u3, h1, m1, m2

\* A job of system priority and jobs of user priority.
MCPriority == [j \in Jobs |-> IF j = s1 THEN PrioritySys
                              ELSE IF j = h1 THEN PriorityHigh
                              ELSE IF j = u3 THEN 9 ELSE PriorityNormal]
MCNoChain == <<>>
MCChain == <<m1, m2>>
MCRegistered == {PrioritySys, PriorityUrgent, PriorityHigh, PriorityNormal}

\* The jobs with the same priority are interchangeable.
NormalJobs == Permutations({u1, u2})

\* Suspend and Remove are called while the worker is parked or at a job, since neither touches
\* the worker, and undone before it goes on.
Explore ==
    /\ suspended => stop = "none" /\ chain = InitialChain
    /\ suspended \/ chain # InitialChain => cpc \in {"exec", "park", "drainExec"}
=============================================================================
