------------------------------ MODULE Breaker -------------------------------
(***************************************************************************)
(* The circuit breaker services guard their calls with                     *)
(* (engine/pkg/utils/circuitbreaker/breaker.go): Allow before a call,      *)
(* RecordSuccess or RecordFailure after it.                                *)
(*                                                                         *)
(* The state and the counters are separate atomics. mu orders the state    *)
(* changes among themselves, but Allow and Record read the state without   *)
(* it and act on it in a later step; transitionTo stores the state first   *)
(* and resets the counters one by one.                                     *)
(***************************************************************************)
EXTENDS Naturals, Sequences, SequencesExt

CONSTANTS
    Guarded,        \* the goroutines whose calls the breaker guards
    Threshold,      \* failures in a row that open it
    HalfOpenMax,    \* calls it lets through half open
    MaxFailures     \* bound on the failing calls

VARIABLES
    cbState,        \* CircuitBreaker.state
    failures, successes,
    halfOpenCount,  \* counted up to HalfOpenMax + 1: more says nothing new
    cooled,         \* Timeout has passed since lastFailureTime
    cbMu,           \* who holds mu
    cbAt,           \* where a goroutine is
    seenState,           \* the state it has read
    goal,           \* the state it changes to
    resets,         \* the counters transitionTo has still to reset
    failed          \* history: the failed calls

cbVars == <<cbState, failures, successes, halfOpenCount, cooled, cbMu, cbAt, seenState, goal, resets, failed>>
counters == <<failures, successes, halfOpenCount>>

Free == "free"

CbInit ==
    /\ cbState = "closed"
    /\ failures = 0 /\ successes = 0 /\ halfOpenCount = 0
    /\ cooled = FALSE /\ cbMu = Free
    /\ cbAt = [g \in Guarded |-> "ready"]
    /\ seenState = [g \in Guarded |-> "closed"]
    /\ goal = [g \in Guarded |-> "closed"]
    /\ resets = <<>>
    /\ failed = 0

Go(g, place) == cbAt' = [cbAt EXCEPT ![g] = place]

\* RecoveryTimeout passes.
Cool ==
    /\ ~cooled /\ failed > 0
    /\ cooled' = TRUE
    /\ UNCHANGED <<cbState, counters, cbMu, cbAt, seenState, goal, resets, failed>>

\* Mutant: probes only while the timeout has not passed.
ElapsedNot == ~cooled

Elapsed == cooled

\* Allow loads the state, and the time of the last failure when it is open.
Allow(g) ==
    /\ cbAt[g] = "ready"
    /\ seenState' = [seenState EXCEPT ![g] = cbState]
    /\ goal' = [goal EXCEPT ![g] = "half-open"]
    /\ Go(g, CASE cbState = "closed" -> "call"
               [] cbState = "open" -> IF Elapsed THEN "change" ELSE "ready"
               [] OTHER -> "count")
    /\ UNCHANGED <<cbState, counters, cooled, cbMu, resets, failed>>

\* Half open: halfOpenCount.Add(1), and the call goes ahead if it is one of the first.
CountProbe(g) ==
    /\ cbAt[g] = "count"
    /\ halfOpenCount' = IF halfOpenCount > HalfOpenMax THEN halfOpenCount ELSE halfOpenCount + 1
    /\ Go(g, IF halfOpenCount < HalfOpenMax THEN "call" ELSE "ready")
    /\ UNCHANGED <<cbState, failures, successes, cooled, cbMu, seenState, goal, resets, failed>>

\* The goroutine that has opened the breaker half stores itself as the first probe.
FirstProbe(g) ==
    /\ cbAt[g] = "first"
    /\ halfOpenCount' = 1
    /\ Go(g, "call")
    /\ UNCHANGED <<cbState, failures, successes, cooled, cbMu, seenState, goal, resets, failed>>

\* The guarded call; RecordFailure stores the time before it looks at the state.
Call(g) ==
    /\ cbAt[g] = "call"
    /\ \/ Go(g, "succeeded") /\ UNCHANGED <<cooled, failed>>
       \/ /\ failed < MaxFailures
          /\ failed' = failed + 1 /\ cooled' = FALSE
          /\ Go(g, "failed")
    /\ UNCHANGED <<cbState, counters, cbMu, seenState, goal, resets>>

\* RecordSuccess and RecordFailure load the state.
LoadState(g) ==
    /\ cbAt[g] \in {"succeeded", "failed"}
    /\ seenState' = [seenState EXCEPT ![g] = cbState]
    /\ Go(g, IF cbState = "open" THEN "ready"
             ELSE IF cbAt[g] = "succeeded" THEN "success" ELSE "failure")
    /\ UNCHANGED <<cbState, counters, cooled, cbMu, goal, resets, failed>>

Enough(n) == n >= HalfOpenMax

RecordSuccess(g) ==
    /\ cbAt[g] = "success"
    /\ goal' = [goal EXCEPT ![g] = "closed"]
    /\ IF seenState[g] = "closed"
       THEN failures' = 0 /\ UNCHANGED successes /\ Go(g, "ready")
       ELSE /\ successes' = IF successes <= HalfOpenMax THEN successes + 1 ELSE successes
            /\ Go(g, IF Enough(successes + 1) THEN "change" ELSE "ready")
            /\ UNCHANGED failures
    /\ UNCHANGED <<cbState, halfOpenCount, cooled, cbMu, seenState, resets, failed>>

RecordFailure(g) ==
    /\ cbAt[g] = "failure"
    /\ goal' = [goal EXCEPT ![g] = "open"]
    /\ IF seenState[g] = "closed"
       THEN /\ failures' = IF failures < Threshold THEN failures + 1 ELSE failures
            /\ Go(g, IF failures + 1 >= Threshold THEN "change" ELSE "ready")
       ELSE UNCHANGED failures /\ Go(g, "change")
    /\ UNCHANGED <<cbState, successes, halfOpenCount, cooled, cbMu, seenState, resets, failed>>

\* What a goroutine does after transitionTo.
After(g) == IF goal[g] = "half-open" THEN "first" ELSE "ready"

CountersReset(state) == IF state = "closed" THEN <<"failures", "successes", "half">> ELSE <<"successes", "half">>

\* transitionTo takes mu and stores the state, unless it is there already.
TransitionTo(g) ==
    /\ cbAt[g] = "change" /\ cbMu = Free
    /\ IF cbState = goal[g]
       THEN Go(g, After(g)) /\ UNCHANGED <<cbState, cbMu, resets>>
       ELSE /\ cbState' = goal[g] /\ cbMu' = g
            /\ resets' = CountersReset(goal[g])
            /\ Go(g, "reset")
    /\ UNCHANGED <<counters, cooled, seenState, goal, failed>>

ResetCounter(g) ==
    /\ cbAt[g] = "reset"
    /\ failures' = IF Head(resets) = "failures" THEN 0 ELSE failures
    /\ successes' = IF Head(resets) = "successes" THEN 0 ELSE successes
    /\ halfOpenCount' = IF Head(resets) = "half" THEN 0 ELSE halfOpenCount
    /\ resets' = Tail(resets)
    /\ IF Len(resets) = 1 THEN Go(g, After(g)) /\ cbMu' = Free ELSE UNCHANGED <<cbAt, cbMu>>
    /\ UNCHANGED <<cbState, cooled, seenState, goal, failed>>

Guard(g) ==
    \/ Allow(g) \/ CountProbe(g) \/ FirstProbe(g) \/ Call(g) \/ LoadState(g)
    \/ RecordSuccess(g) \/ RecordFailure(g) \/ TransitionTo(g) \/ ResetCounter(g)

CbNext == Cool \/ \E g \in Guarded : Guard(g)

\* Calls keep coming, every admitted call is recorded, and time passes.
CbFairness == WF_cbVars(Cool) /\ \A g \in Guarded : WF_cbVars(Guard(g))

CbSpec == CbInit /\ [][CbNext]_cbVars /\ CbFairness

\* Once no call fails any more, the breaker closes and stays closed, whatever state the
\* unlocked reads of the goroutines have left it in.
BreakerRecovers == <>[](cbState = "closed")
=============================================================================
