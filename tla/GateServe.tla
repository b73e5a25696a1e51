-------------------------------- MODULE GateServe --------------------------------
(***************************************************************************)
(* The supervisor of a gate: it serves the gate's protocol adapter, starts *)
(* it again after a failure as the RestartPolicy says, and OnRelease waits *)
(* for it. The adapter is an IProtocolAdapter: ListenAndServe serves until *)
(* it fails, or until a Shutdown that finds it serving.                    *)
(***************************************************************************)
EXTENDS Naturals

CONSTANTS
    RestartPolicies, \* a set of [enable, max]: RestartPolicy.Enable and MaxRestart
    MaxServeFaults   \* bound: failures of ListenAndServe

VARIABLES
    policy,      \* restartPolicy
    serve,       \* superviseServe: "call", "serving", "backoff", "done", "panic" (the process is gone)
    restarts,    \* restartCount
    lastErr,     \* lastErr: the type of the error it holds, or "none"
    release,     \* OnRelease: "no", "cancelled" (the context), "wait" (for serveDone), "done"
    unheard,     \* history: Shutdown did not find the adapter serving
    serveFaults

serveVars == <<policy, serve, restarts, lastErr, release, unheard, serveFaults>>

\* What ListenAndServe fails with: a net.OpError or an error of another type, as a recovered panic
\* is, which is temporary.
ServeErrors ==
    [kind : {"closed", "permanent", "temporary"}, type : {"op"}] \cup [kind : {"temporary"}, type : {"other"}]

ServeInit ==
    /\ policy \in RestartPolicies
    /\ serve = "call" /\ restarts = 0 /\ lastErr = "none" /\ release = "no" /\ unheard = FALSE /\ serveFaults = 0

ServeBegins ==
    /\ serve = "call" /\ serve' = "serving" /\ UNCHANGED <<policy, restarts, lastErr, release, unheard, serveFaults>>

\* What superviseServe does with an error; MaxRestart 0 sets no bound.
Stored(error) == release = "no" /\ error.kind # "closed"
Restarts(error) == Stored(error) /\ error.kind = "temporary" /\ policy.enable
NextServe(error) ==
    IF Restarts(error) /\ (policy.max > 0 => restarts + 1 <= policy.max) THEN "backoff" ELSE "done"

\* lastErr is an atomic.Value: a Store of another concrete type than its first one panics.
StorePanics(error) == Stored(error) /\ lastErr \notin {"none", error.type}

ServeFails(error) ==
    /\ serve \in {"call", "serving"} /\ serveFaults < MaxServeFaults /\ serveFaults' = serveFaults + 1
    /\ \/ StorePanics(error) /\ serve' = "panic" /\ UNCHANGED <<restarts, lastErr>>
       \/ /\ ~StorePanics(error) /\ serve' = NextServe(error)
          /\ lastErr' = IF Stored(error) THEN error.type ELSE lastErr
          /\ restarts' = IF Restarts(error) /\ policy.max > 0 THEN restarts + 1 ELSE restarts
    /\ UNCHANGED <<policy, release, unheard>>

\* The select between the timer and the context takes either when both are ready.
BackoffOver ==
    /\ serve = "backoff" /\ serve' = "call" /\ UNCHANGED <<policy, restarts, lastErr, release, unheard, serveFaults>>
BackoffCancelled ==
    /\ serve = "backoff" /\ release # "no" /\ serve' = "done"
    /\ UNCHANGED <<policy, restarts, lastErr, release, unheard, serveFaults>>

\* OnRelease: cancel, Shutdown, and the wait for serveDone
OnRelease ==
    /\ release = "no" /\ release' = "cancelled"
    /\ UNCHANGED <<policy, serve, restarts, lastErr, unheard, serveFaults>>

\* ListenAndServe returns if it was serving, and superviseServe with it.
Shutdown ==
    /\ serve' = IF serve = "serving" THEN "done" ELSE serve
    /\ unheard' = (serve \in {"call", "backoff"})

ReleaseShuts ==
    /\ release = "cancelled" /\ release' = "wait" /\ Shutdown
    /\ UNCHANGED <<policy, restarts, lastErr, serveFaults>>

ReleaseReturns ==
    /\ release = "wait" /\ serve = "done" /\ release' = "done"
    /\ UNCHANGED <<policy, serve, restarts, lastErr, unheard, serveFaults>>

ServeNext ==
    /\ serve # "panic"
    /\ \/ ServeBegins \/ (\E error \in ServeErrors : ServeFails(error))
       \/ BackoffOver \/ BackoffCancelled \/ OnRelease \/ ReleaseShuts \/ ReleaseReturns

\* The goroutine goes on and a timer fires.
ServeFairness ==
    /\ WF_serveVars(ServeBegins \/ BackoffOver \/ BackoffCancelled)
    /\ WF_serveVars(serve # "panic" /\ (ReleaseShuts \/ ReleaseReturns))
ServeSpec == ServeInit /\ [][ServeNext]_serveVars /\ ServeFairness

\* OnRelease returns if its Shutdown found the adapter serving or the supervisor already ended. (A
\* Shutdown between two calls of ListenAndServe is not heard: the next call serves, and OnRelease
\* waits for it for ever; an error of a second type ends the process.) And a policy with a bound is kept: at most MaxRestart restarts
\* (superviseServe, OnRelease).
GateReleases ==
    /\ <>[](release \in {"no", "done"} \/ unheard \/ serve = "panic")
    /\ []((policy.max > 0 /\ serve \in {"call", "serving", "backoff"}) => restarts <= policy.max)
=============================================================================
