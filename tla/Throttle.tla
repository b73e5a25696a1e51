------------------------------ MODULE Throttle ------------------------------
(***************************************************************************)
(* The limiters of the event bus (event/throttle.go): ThrottleManager      *)
(* creates one for an event type on first use, a token bucket or a sliding *)
(* window as the category of the type says (event/category.go), and Reset  *)
(* forgets it. Callers run concurrently; a caller may still hold a limiter *)
(* that a Reset has dropped.                                               *)
(*                                                                         *)
(* Time is counted in units of 1/Second s.                                 *)
(***************************************************************************)
EXTENDS Integers, Sequences, FiniteSets, FiniteSetsExt

CONSTANTS
    Waiters,      \* goroutines that publish events of the type
    Second,       \* units of time in a second
    MaxFrequency, \* of the type's classification
    MaxClock,     \* bound: the time that passes
    MaxResets     \* bound: calls of Reset

ASSUME ThrottleAssumption ==
    Second \in Nat \ {0} /\ MaxFrequency \in Nat \ {0} /\ MaxClock \in Nat /\ MaxResets \in Nat

VARIABLES
    category,  \* the category of the type
    now,
    limiter,   \* ThrottleManager.limiters: a limiter created so far, or 0
    limiters,  \* the limiters created so far: [tokens, lastRefill, windows, epoch]
    caller,    \* a call of Allow, AllowN or Reserve: [at, lim]
    resets,
    grants     \* history: the events let through, by the number of resets before their limiter was made

throttleVars == <<category, now, limiter, limiters, caller, resets, grants>>

\* GetOrCreateLimiter: the capacity of a token bucket.
Capacity == IF category = "critical" THEN 2 * MaxFrequency ELSE MaxFrequency

ThrottleInit ==
    /\ category \in {"critical", "metrics", "other"} /\ now = 0
    /\ limiter = 0 /\ limiters = <<>> /\ caller = [c \in Waiters |-> [at |-> "idle", lim |-> 0]]
    /\ resets = 0 /\ grants = [r \in 0..MaxResets |-> <<>>]

NewLimiter == [tokens |-> Capacity, lastRefill |-> now, windows |-> [s \in {} |-> 0], epoch |-> resets]

\* GetOrCreateLimiter: a look under the read lock, and another under the write lock.
Lookup(c) ==
    /\ caller[c].at = "idle"
    /\ caller' = [caller EXCEPT ![c] = IF limiter = 0 THEN [at |-> "create", lim |-> 0]
                                       ELSE [at |-> "allow", lim |-> limiter]]
    /\ UNCHANGED <<category, now, limiter, limiters, resets, grants>>

\* Mutant: the second look is left out.
CreateUnchecked(c) ==
    /\ caller[c].at = "create"
    /\ limiters' = Append(limiters, NewLimiter) /\ limiter' = Len(limiters) + 1
    /\ caller' = [caller EXCEPT ![c] = [at |-> "allow", lim |-> limiter']]
    /\ UNCHANGED <<category, now, resets, grants>>

CreateLimiter(c) ==
    /\ caller[c].at = "create"
    /\ IF limiter # 0 THEN UNCHANGED <<limiter, limiters>>
       ELSE limiters' = Append(limiters, NewLimiter) /\ limiter' = Len(limiters) + 1
    /\ caller' = [caller EXCEPT ![c] = [at |-> "allow", lim |-> limiter']]
    /\ UNCHANGED <<category, now, resets, grants>>

\* refill: whole tokens for the time since the last call, the rest of the time is forgotten.
Refilled(l) ==
    IF now = l.lastRefill THEN l
    ELSE [l EXCEPT !.tokens = Min({Capacity, @ + ((now - l.lastRefill) * MaxFrequency) \div Second}),
                   !.lastRefill = now]

\* cleanup: the windows of whole seconds that begin before the second one window ago.
CleanedUp(l) ==
    LET kept == {s \in DOMAIN l.windows : s >= (now - Second) \div Second}
    IN  [l EXCEPT !.windows = [s \in kept |-> l.windows[s]]]
CurrentCount(l) == SumFunction(l.windows)
Counted(l, n) ==
    LET s == now \div Second
    IN  [l EXCEPT !.windows = [x \in DOMAIN @ \cup {s} |-> (IF x \in DOMAIN @ THEN @[x] ELSE 0) + (IF x = s THEN n ELSE 0)]]

Answered(c, l, n) ==
    /\ limiters' = [limiters EXCEPT ![caller[c].lim] = l]
    /\ grants' = [grants EXCEPT ![l.epoch] = @ \o [i \in 1..n |-> now]]
    /\ caller' = [caller EXCEPT ![c] = [at |-> "idle", lim |-> 0]]
    /\ UNCHANGED <<category, now, limiter, resets>>

\* TokenBucketLimiter.AllowN, and Reserve with n = 1.
AllowToken(c, n) ==
    /\ caller[c].at = "allow" /\ category # "metrics"
    /\ LET l == Refilled(limiters[caller[c].lim])
       IN  IF l.tokens >= n THEN Answered(c, [l EXCEPT !.tokens = @ - n], n) ELSE Answered(c, l, 0)

\* SlidingWindowLimiter.AllowN and Reserve.
AllowWindow(c, n) ==
    /\ caller[c].at = "allow" /\ category = "metrics"
    /\ LET l == CleanedUp(limiters[caller[c].lim])
       IN  IF CurrentCount(l) + n <= MaxFrequency THEN Answered(c, Counted(l, n), n) ELSE Answered(c, l, 0)

Reset ==
    /\ resets < MaxResets /\ limiter # 0 /\ resets' = resets + 1 /\ limiter' = 0
    /\ UNCHANGED <<category, now, limiters, caller, grants>>
TimePasses ==
    /\ now < MaxClock /\ now' = now + 1 /\ UNCHANGED <<category, limiter, limiters, caller, resets, grants>>

ThrottleNext ==
    \/ \E c \in Waiters : Lookup(c) \/ CreateLimiter(c)
    \/ \E c \in Waiters, n \in {1, 2} : AllowToken(c, n) \/ AllowWindow(c, n)
    \/ Reset \/ TimePasses

ThrottleSpec == ThrottleInit /\ [][ThrottleNext]_throttleVars

\* Between two resets no span of time sees more events let through than the category allows,
\* however the callers race to make the limiter and to use it: at most MaxFrequency in a
\* second for a sliding window, and for a token bucket its capacity and what was refilled
\* (throttle.go AllowN, refill, cleanup, GetOrCreateLimiter).
NeverOverRate ==
    \A r \in 0..MaxResets : \A i, j \in 1..Len(grants[r]) : i <= j =>
        LET span == grants[r][j] - grants[r][i]
        IN  IF category = "metrics" THEN span <= Second => j - i + 1 <= MaxFrequency
            ELSE j - i + 1 <= Capacity + (span * MaxFrequency) \div Second
=============================================================================
