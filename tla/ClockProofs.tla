----------------------------- MODULE ClockProofs ----------------------------
(***************************************************************************)
(* Theorems about what a service does by the clock: about its timers       *)
(* (TimingWheel), for any timers, clock and wheel, and about the limiters  *)
(* of the events it publishes (Throttle), for any callers, rate and clock. *)
(***************************************************************************)
EXTENDS TimingWheel, Throttle, SequenceTheorems, TLAPS

(***************************************************************************)
(* The timing wheel and its scheduler.  The inductive invariant says where *)
(* a timer that goes on is: in a bucket that the delay queue, the poller   *)
(* or the loop knows of, or with a goroutine or in the channel from which  *)
(* it is run or rearmed; that the scheduler holds just the timers that go  *)
(* on, and the wheel, or its Stop, those of them that were added; and that *)
(* no level is ahead of the time.                                          *)
(***************************************************************************)
\* The registration has put the timer into the wheel, or run it.
Entered(t) == reg[t] \in {"check", "done"}
LevelsInv ==
    /\ 0 <= levelNow[1] /\ levelNow[1] <= Now
    /\ levelNow[2] = -1 \/ levelNow[2] <= levelNow[1]
RegInv == \A t \in Timers : IF reg[t] = "new" THEN active[t] /\ t \notin shard ELSE active[t] <=> t \in shard
OwnInv ==
    /\ owned \subseteq shard
    /\ \A t \in shard : reg[t] # "add" =>
          CASE twStop = "no" -> t \in owned [] twStop = "cancel" -> t \in victims [] OTHER -> FALSE
ChanKnown == \A i \in 1..Len(chan) : Entered(chan[i])
KnownInv ==
    /\ \A b \in Buckets : \A t \in bkt[b] : Entered(t)
    /\ \A r \in run : Entered(r.t)
    /\ ChanKnown
CoverInv ==
    \A b \in Buckets :
        IF bexp[b] = -1 THEN bkt[b] = {}
        ELSE /\ bexp[b] \in Nat
             /\ twStop = "no" => \/ <<b, bexp[b]>> \in delayQueue
                                 \/ (poll.item = b \/ hand = b) /\ bexp[b] <= Now
PollInv == poll.item = None <=> poll.at # "send"
RunsInv == \A r \in run : r.due < r.at + Tick /\ (r.stage = "loop" => r.by # "offset")
InWheel(t) == \E b \in Buckets : t \in bkt[b]
InHands(t) ==
    \/ \E r \in run : r.t = t /\ (r.by # "offset" \/ Oneshot(t))
    \/ Oneshot(t) /\ \E i \in 1..Len(chan) : chan[i] = t
KeptInv ==
    twStop = "no" => \A t \in Timers : active[t] /\ Entered(t) => t \in dropped \/ InWheel(t) \/ InHands(t)
WheelInv ==
    /\ WheelTypeOK /\ LevelsInv /\ RegInv /\ OwnInv /\ KnownInv
    /\ CoverInv /\ PollInv /\ RunsInv /\ KeptInv

\* Arithmetic of the levels: Truncate rounds down to a multiple, and coarser multiples are finer ones.
LEMMA TruncateBounds ==
    ASSUME NEW x \in Int, NEW m \in Nat \ {0}
    PROVE  /\ Truncate(x, m) \in Int /\ Truncate(x, m) <= x /\ Truncate(x, m) > x - m
           /\ x >= 0 => Truncate(x, m) \in Nat
BY DEF Truncate

LEMMA DivMod == ASSUME NEW x \in Int, NEW m \in Nat \ {0} PROVE x = m * (x \div m) + (x % m)
OBVIOUS
LEMMA FactorLess ==
    ASSUME NEW m \in Nat \ {0}, NEW a \in Int, NEW b \in Int
    PROVE  (m * a < m * b => a < b) /\ (a <= b => m * a <= m * b)
OBVIOUS
LEMMA Products ==
    ASSUME NEW a \in Int, NEW b \in Int, NEW c \in Int
    PROVE  (a * b) * c = a * (b * c) /\ a * (b + 1) = a * b + a /\ a * b \in Int
OBVIOUS
LEMMA TickFacts ==
    /\ Tick \in Nat \ {0} /\ Size \in Nat \ {0} /\ Tick * Size \in Nat \ {0}
    /\ TickOf(1) = Tick /\ TickOf(2) = Tick * Size
BY WheelAssumption DEF TickOf

LEMMA TruncateNested ==
    ASSUME NEW x \in Int, NEW y \in Int, y <= x
    PROVE  Truncate(y, Tick * Size) <= Truncate(x, Tick)
<1> DEFINE d == x \div Tick
           q == y \div (Tick * Size)
<1>0. Tick \in Nat \ {0} /\ Size \in Nat \ {0} /\ Tick * Size \in Nat \ {0} /\ d \in Int /\ q \in Int
  BY TickFacts
<1>1. Truncate(x, Tick) = Tick * d /\ x < Tick * (d + 1)
  <2>1. x = Tick * d + (x % Tick) /\ x % Tick \in 0..(Tick - 1)
    BY <1>0, DivMod
  <2> HIDE DEF d
  <2>2. Tick * (d + 1) = Tick * d + Tick
    BY <1>0, Products
  <2>3. Tick * d \in Int /\ x % Tick \in Int
    BY <1>0, <2>1
  <2>4. QED
    BY <1>0, <2>1, <2>2, <2>3 DEF Truncate
<1>2. Truncate(y, Tick * Size) = Tick * (Size * q) /\ Tick * (Size * q) <= y
  <2>1. y = (Tick * Size) * q + (y % (Tick * Size)) /\ y % (Tick * Size) \in 0..(Tick * Size - 1)
    <3> DEFINE m == Tick * Size
    <3>1. m \in Nat \ {0}
      BY <1>0
    <3> HIDE DEF m
    <3>2. y = m * (y \div m) + (y % m) /\ y % m \in 0..(m - 1)
      BY <3>1, DivMod
    <3>3. QED
      BY <3>2 DEF m
  <2> HIDE DEF q
  <2>2. (Tick * Size) * q = Tick * (Size * q)
    BY <1>0, Products
  <2>3. Tick * (Size * q) \in Int
    BY <1>0
  <2>4. QED
    BY <1>0, <2>1, <2>2, <2>3 DEF Truncate
<1> HIDE DEF d, q
<1>3. Size * q < d + 1
  BY <1>0, <1>1, <1>2, FactorLess
<1>4. QED
  BY <1>0, <1>1, <1>2, <1>3, FactorLess

\* Where addInternal puts a timer: a bucket, or nowhere because it is due within a tick.
LEMMA PlaceFacts ==
    ASSUME NEW c \in [WheelLevels -> Int], c[2] = -1 \/ c[2] <= c[1], NEW x \in Nat
    PROVE  /\ Place(c, x) \in Buckets \cup {None}
           /\ Place(c, x) = None => x < c[1] + Tick
<1>1. c[1] \in Int /\ c[2] \in Int
  BY DEF WheelLevels
<1>2. ASSUME NEW l \in WheelLevels PROVE Index(l, x) \in Buckets
  <2>1. TickOf(l) \in Nat \ {0} /\ Size \in Nat \ {0}
    BY TickFacts DEF WheelLevels
  <2>2. (x \div TickOf(l)) % Size \in 0..(Size - 1)
    BY <2>1
  <2>3. QED
    BY <2>2 DEF Index, Buckets
<1>3. CurOf(c, 2) \in Int /\ CurOf(c, 2) <= c[1]
  BY <1>1, TickFacts, TruncateBounds DEF CurOf
<1>4. None \notin Buckets
  BY DEF None, Buckets, WheelLevels
<1>5. QED
  BY <1>1, <1>2, <1>3, <1>4, TickFacts DEF Place, WheelLevels

(***************************************************************************)
(* addInternal for several timers.                                         *)
(***************************************************************************)
\* What is known of a bucket with expiration v before addInternal puts timers into the wheel.
BucketKnown(b, v, holds, offered, busy, time, runs) ==
    IF v = -1 THEN holds = {}
    ELSE v \in Nat /\ (runs => <<b, v>> \in offered \/ (busy /\ v <= time))

LEMMA NewExpFacts ==
    ASSUME NEW c \in [WheelLevels -> Int], NEW ts \in SUBSET Timers, NEW x \in [Timers -> Nat],
           NEW e \in [Buckets -> Int], NEW b \in Buckets
    PROVE  /\ InBucket(c, ts, x, b) \subseteq ts
           /\ InBucket(c, ts, x, b) = {} => NewExp(c, ts, x, e, b) = e[b]
           /\ InBucket(c, ts, x, b) # {} => NewExp(c, ts, x, e, b) \in Nat
<1>1. InBucket(c, ts, x, b) \subseteq ts
  BY DEF InBucket
<1>2. ASSUME InBucket(c, ts, x, b) # {} PROVE NewExp(c, ts, x, e, b) \in Nat
  <2> DEFINE t == CHOOSE u \in InBucket(c, ts, x, b) : TRUE
             m == TickOf(b[1])
             v == x[t]
  <2>1. t \in Timers
    BY <1>1, <1>2
  <2>2. NewExp(c, ts, x, e, b) = Truncate(v, m)
    BY <1>2 DEF NewExp
  <2>3. v \in Nat
    BY <2>1
  <2>4. m \in Nat \ {0}
    <3>1. b[1] \in {1, 2}
      BY DEF Buckets, WheelLevels
    <3>2. QED
      BY <3>1, TickFacts
  <2> HIDE DEF t, m, v
  <2>5. Truncate(v, m) \in Nat
    BY <2>3, <2>4, TruncateBounds
  <2>6. QED
    BY <2>2, <2>5
<1>3. QED
  BY <1>1, <1>2 DEF NewExp

\* Every timer is in a bucket afterwards or ready, and the delay queue, the poller or the loop knows of every
\* bucket in use.
LEMMA AddAllKeeps ==
    ASSUME WheelTypeOK, NEW c \in [WheelLevels -> Int], c[2] = -1 \/ c[2] <= c[1],
           NEW ts \in SUBSET Timers, NEW x \in [Timers -> Nat],
           NEW k \in [Buckets -> SUBSET Timers], NEW e \in [Buckets -> Int],
           AddAll(c, ts, x, k, e),
           Now' \in Int, 0 <= c[1], c[1] <= Now',
           \A b \in Buckets :
               BucketKnown(b, e[b], k[b], delayQueue, poll.item = b \/ hand' = b, Now', twStop' = "no")
    PROVE  /\ LevelsInv' /\ CoverInv'
           /\ \A t \in ts : t \in Ready(c, ts, x) \/ InWheel(t)'
           /\ \A t \in Ready(c, ts, x) : x[t] < Now' + Tick
           /\ \A b \in Buckets : k[b] \subseteq bkt'[b] /\ bkt'[b] \subseteq k[b] \cup ts
           /\ bkt' \in [Buckets -> SUBSET Timers] /\ bexp' \in [Buckets -> Int]
           /\ delayQueue' \subseteq Buckets \X Nat /\ levelNow' \in [WheelLevels -> Int]
           /\ sleeping' \in BOOLEAN /\ wake' \in BOOLEAN /\ poll' = poll
<1> DEFINE ne == [b \in Buckets |-> NewExp(c, ts, x, e, b)]
           offered == {<<b, ne[b]>> : b \in {d \in Buckets : ne[d] # e[d]}}
           rouse == Rouses(offered)
           lv == IF \E t \in ts : Place(c, x[t]) # None /\ Place(c, x[t])[1] = 2
                 THEN [c EXCEPT ![2] = CurOf(c, 2)] ELSE c
<1>1. /\ bkt' = [b \in Buckets |-> k[b] \cup InBucket(c, ts, x, b)] /\ bexp' = ne
      /\ delayQueue' = delayQueue \cup offered /\ levelNow' = lv
      /\ sleeping' = (sleeping /\ ~rouse) /\ wake' = (wake \/ rouse) /\ poll' = poll
  BY DEF AddAll
<1>2. ASSUME NEW b \in Buckets
      PROVE  /\ InBucket(c, ts, x, b) \subseteq ts
             /\ InBucket(c, ts, x, b) = {} => NewExp(c, ts, x, e, b) = e[b]
             /\ InBucket(c, ts, x, b) # {} => NewExp(c, ts, x, e, b) \in Nat
  BY NewExpFacts
<1>3. ne \in [Buckets -> Int] /\ \A b \in Buckets : ne[b] = NewExp(c, ts, x, e, b)
  BY <1>2
<1> HIDE DEF ne
<1>4. \A b \in Buckets : ne[b] # e[b] => ne[b] \in Nat
  BY <1>2, <1>3
<1>5. offered \subseteq Buckets \X Nat /\ \A b \in Buckets : ne[b] # e[b] => <<b, ne[b]>> \in offered
  BY <1>4
<1> HIDE DEF offered
<1>6. lv \in [WheelLevels -> Int] /\ lv[1] = c[1] /\ (lv[2] = -1 \/ lv[2] <= c[1])
  <2>1. c[1] \in Int /\ c[2] \in Int
    BY DEF WheelLevels
  <2>2. CurOf(c, 2) \in Int /\ CurOf(c, 2) <= c[1]
    BY <2>1, TickFacts, TruncateBounds DEF CurOf
  <2>3. QED
    BY <2>1, <2>2 DEF WheelLevels
<1> HIDE DEF lv
<1>7. bkt' \in [Buckets -> SUBSET Timers] /\ \A b \in Buckets : bkt'[b] = k[b] \cup InBucket(c, ts, x, b)
  BY <1>1, <1>2
<1>8. sleeping' \in BOOLEAN /\ wake' \in BOOLEAN
  <2>1. rouse \in BOOLEAN
    BY DEF Rouses, WheelTypeOK
  <2> HIDE DEF rouse
  <2>2. QED
    BY <1>1, <2>1
<1>9. delayQueue \subseteq delayQueue' /\ delayQueue' \subseteq Buckets \X Nat
  BY <1>1, <1>5 DEF WheelTypeOK
<1>10. levelNow' \in [WheelLevels -> Int] /\ LevelsInv'
  BY <1>1, <1>6 DEF LevelsInv
<1>11. CoverInv'
  <2> SUFFICES ASSUME NEW b \in Buckets
               PROVE  IF bexp'[b] = -1 THEN bkt'[b] = {}
                      ELSE /\ bexp'[b] \in Nat
                           /\ twStop' = "no" => \/ <<b, bexp'[b]>> \in delayQueue'
                                                \/ (poll'.item = b \/ hand' = b) /\ bexp'[b] <= Now'
    BY DEF CoverInv
  <2>1. bexp'[b] = ne[b] /\ bkt'[b] = k[b] \cup InBucket(c, ts, x, b) /\ ne[b] = NewExp(c, ts, x, e, b)
    BY <1>1, <1>3, <1>7
  <2>2. CASE ne[b] # e[b]
    <3>1. ne[b] \in Nat /\ <<b, ne[b]>> \in delayQueue'
      BY <1>1, <1>4, <1>5, <2>2
    <3>2. QED
      BY <2>1, <3>1
  <2>3. CASE ne[b] = e[b]
    <3>1. BucketKnown(b, e[b], k[b], delayQueue, poll.item = b \/ hand' = b, Now', twStop' = "no")
      OBVIOUS
    <3>2. CASE e[b] = -1
      <4>1. InBucket(c, ts, x, b) = {}
        <5>1. InBucket(c, ts, x, b) # {} => NewExp(c, ts, x, e, b) \in Nat
          BY <1>2
        <5>2. NewExp(c, ts, x, e, b) = -1
          BY <2>1, <2>3, <3>2
        <5>3. QED
          BY <5>1, <5>2
      <4>2. QED
        BY <2>1, <2>3, <3>1, <3>2, <4>1 DEF BucketKnown
    <3>3. CASE e[b] # -1
      BY <1>1, <1>9, <2>1, <2>3, <3>1, <3>3 DEF BucketKnown
    <3>4. QED
      BY <3>2, <3>3
  <2>4. QED
    BY <2>2, <2>3
<1>12. ASSUME NEW t \in ts PROVE t \in Ready(c, ts, x) \/ InWheel(t)'
  <2> DEFINE b == Place(c, x[t])
  <2>1. b \in Buckets \cup {None}
    <3>1. x[t] \in Nat
      OBVIOUS
    <3>2. QED
      BY <3>1, PlaceFacts
  <2>2. CASE b = None
    BY <2>2 DEF Ready
  <2>3. CASE b \in Buckets
    <3>1. t \in InBucket(c, ts, x, b)
      BY DEF InBucket
    <3> HIDE DEF b
    <3>2. t \in bkt'[b]
      BY <1>7, <2>3, <3>1
    <3>3. QED
      BY <2>3, <3>2 DEF InWheel
  <2>4. QED
    BY <2>1, <2>2, <2>3
<1>13. ASSUME NEW t \in Ready(c, ts, x) PROVE x[t] < Now' + Tick
  <2>1. x[t] \in Nat /\ Place(c, x[t]) = None
    BY DEF Ready
  <2>2. x[t] < c[1] + Tick
    BY <2>1, PlaceFacts
  <2>3. c[1] \in Int /\ Tick \in Int
    BY TickFacts DEF WheelLevels
  <2>4. QED
    BY <2>1, <2>2, <2>3
<1>14. \A b \in Buckets : k[b] \subseteq bkt'[b] /\ bkt'[b] \subseteq k[b] \cup ts
  BY <1>2, <1>7
<1>15. bexp' \in [Buckets -> Int] /\ poll' = poll
  BY <1>1, <1>3
<1>16. QED
  BY <1>7, <1>8, <1>9, <1>10, <1>11, <1>12, <1>13, <1>14, <1>15

(***************************************************************************)
(* Cancelled timers.                                                       *)
(***************************************************************************)
RunSet == [t : Timers, by : {"reg", "loop", "offset"}, stage : {"run", "loop"}, due : Nat, at : Nat]

LEMMA NothingStops ==
    ASSUME WheelTypeOK, UNCHANGED <<bkt, shard, owned, active>>
    PROVE  StoppedTimers({}) /\ Unlink({})
<1>1. shard \ {} = shard /\ owned \ {} = owned
  OBVIOUS
<1>2. active = [t \in Timers |-> active[t] /\ t \notin {}]
  <2>1. \A t \in Timers : active[t] = (active[t] /\ t \notin {})
    BY DEF WheelTypeOK
  <2>2. active \in [Timers -> BOOLEAN]
    BY DEF WheelTypeOK
  <2>3. QED
    BY <2>1, <2>2
<1>3. bkt = [b \in Buckets |-> bkt[b] \ {}]
  <2>1. \A b \in Buckets : bkt[b] = bkt[b] \ {}
    OBVIOUS
  <2>2. bkt \in [Buckets -> SUBSET Timers]
    BY DEF WheelTypeOK
  <2>3. QED
    BY <2>1, <2>2
<1>4. QED
  BY <1>1, <1>2, <1>3 DEF StoppedTimers, Unlink

LEMMA Stopped ==
    ASSUME WheelTypeOK, NEW S \in SUBSET shard, StoppedTimers(S), Unlink(S)
    PROVE  /\ shard' = shard \ S /\ owned' = owned \ S
           /\ active' \in [Timers -> BOOLEAN] /\ \A t \in Timers : active'[t] = (active[t] /\ t \notin S)
           /\ bkt' \in [Buckets -> SUBSET Timers] /\ \A b \in Buckets : bkt'[b] = bkt[b] \ S
BY DEF WheelTypeOK, StoppedTimers, Unlink

\* A step of the scheduler or of the callbacks that puts nothing into the wheel keeps the invariant when no timer
\* that goes on is lost from the goroutines and the channel.
LEMMA StillKept ==
    ASSUME WheelInv, NEW S \in SUBSET shard, StoppedTimers(S), Unlink(S),
           UNCHANGED <<clock, offset, levelNow, bexp, delayQueue, pollVars, hand, twStop, victims, rest>>,
           run' \subseteq RunSet, reg' \in [Timers -> {"new", "add", "check", "done"}], exp' \in [Timers -> Nat],
           chan' \in Seq(Timers), Len(chan') <= ChanSize, sdStop' \in BOOLEAN,
           \A t \in Timers : reg[t] = "new" <=> reg'[t] = "new",
           \A t \in Timers : Entered(t) => Entered(t)',
           \A r \in run' : Entered(r.t)' /\ r.due < r.at + Tick /\ (r.stage = "loop" => r.by # "offset"),
           ChanKnown',
           \A t \in shard \ S : reg'[t] # "add" => reg[t] # "add",
           \A t \in Timers : twStop = "no" /\ active[t] /\ t \notin S /\ Entered(t)'
                               => Entered(t) /\ (InHands(t) => InHands(t)')
    PROVE  WheelInv'
<1>1. /\ shard' = shard \ S /\ owned' = owned \ S
      /\ active' \in [Timers -> BOOLEAN] /\ \A t \in Timers : active'[t] = (active[t] /\ t \notin S)
      /\ bkt' \in [Buckets -> SUBSET Timers] /\ \A b \in Buckets : bkt'[b] = bkt[b] \ S
  BY Stopped DEF WheelInv
<1>2. WheelTypeOK'
  BY <1>1 DEF WheelInv, WheelTypeOK, pollVars, rest, RunSet
<1>3. LevelsInv'
  BY DEF WheelInv, LevelsInv, Now
<1>4. RegInv'
  <2>1. S \subseteq Timers
    BY DEF WheelInv, WheelTypeOK
  <2>2. QED
    BY <1>1, <2>1 DEF WheelInv, RegInv
<1>5. OwnInv'
  BY <1>1 DEF WheelInv, OwnInv
<1>6. KnownInv'
  <2>1. \A b \in Buckets : \A t \in bkt'[b] : t \in Timers /\ Entered(t)'
    BY <1>1 DEF WheelInv, KnownInv, WheelTypeOK
  <2>2. QED
    BY <2>1 DEF KnownInv
<1>7. CoverInv'
  BY <1>1 DEF WheelInv, CoverInv, Now, pollVars
<1>8. PollInv'
  BY DEF WheelInv, PollInv, pollVars
<1>9. RunsInv'
  BY DEF RunsInv
<1>10. KeptInv'
  <2> SUFFICES ASSUME twStop = "no", NEW t \in Timers, active'[t], Entered(t)'
               PROVE  t \in dropped \/ InWheel(t)' \/ InHands(t)'
    BY DEF KeptInv, rest
  <2>1. active[t] /\ t \notin S
    BY <1>1
  <2>2. t \in dropped \/ InWheel(t) \/ InHands(t)
    BY <2>1 DEF WheelInv, KeptInv
  <2>3. InWheel(t) => InWheel(t)'
    BY <1>1, <2>1 DEF InWheel
  <2>4. QED
    BY <2>1, <2>2, <2>3
<1>11. QED
  BY <1>2, <1>3, <1>4, <1>5, <1>6, <1>7, <1>8, <1>9, <1>10 DEF WheelInv

\* CancelTimers, or nothing: the timers it stops are among those the scheduler holds.
LEMMA CancelStops ==
    ASSUME WheelTypeOK, NEW ts, CancelTimers(ts)
    PROVE  ts \cap shard \in SUBSET shard /\ StoppedTimers(ts \cap shard) /\ Unlink(ts \cap shard)
BY DEF CancelTimers

LEMMA RegisterCheckKeeps ==
    ASSUME WheelInv, NEW t \in Timers, RegisterCheck(t)
    PROVE  WheelInv'
<1>1. PICK S \in SUBSET shard : StoppedTimers(S) /\ Unlink(S) /\ (twClosed => S = {t} \cap shard)
  <2>1. CASE twClosed
    BY <2>1, CancelStops DEF WheelInv, RegisterCheck
  <2>2. CASE ~twClosed
    BY <2>2, NothingStops DEF WheelInv, RegisterCheck
  <2>3. QED
    BY <2>1, <2>2
<1>2. /\ reg[t] = "check" /\ reg' = [reg EXCEPT ![t] = "done"]
      /\ UNCHANGED <<clock, offset, levelNow, bexp, delayQueue, pollVars, hand, run, exp, chan, stopVars, rest>>
  BY DEF RegisterCheck
<1>3. /\ reg' \in [Timers -> {"new", "add", "check", "done"}] /\ reg'[t] = "done"
      /\ \A u \in Timers : u # t => reg'[u] = reg[u]
  BY <1>2 DEF WheelInv, WheelTypeOK
<1>4. \A u \in Timers :
          (Entered(u) <=> Entered(u)') /\ (reg[u] = "new" <=> reg'[u] = "new") /\ (reg[u] = "add" <=> reg'[u] = "add")
  BY <1>2, <1>3 DEF Entered
<1>5. \A u \in Timers : InHands(u) => InHands(u)'
  BY <1>2 DEF InHands
<1>6. \A r \in run' : Entered(r.t)' /\ r.due < r.at + Tick /\ (r.stage = "loop" => r.by # "offset")
  BY <1>2, <1>4 DEF WheelInv, WheelTypeOK, KnownInv, RunsInv
<1>7. ChanKnown'
  <2>1. \A i \in 1..Len(chan) : chan[i] \in Timers /\ Entered(chan[i])
    BY DEF WheelInv, WheelTypeOK, KnownInv, ChanKnown
  <2>2. QED
    BY <1>2, <1>4, <2>1 DEF ChanKnown
<1>8. /\ run' \subseteq RunSet /\ exp' \in [Timers -> Nat] /\ chan' \in Seq(Timers) /\ Len(chan') <= ChanSize
      /\ sdStop' \in BOOLEAN /\ shard \subseteq Timers
  BY <1>2 DEF WheelInv, WheelTypeOK, RunSet, stopVars
<1>9. UNCHANGED <<clock, offset, levelNow, bexp, delayQueue, pollVars, hand, twStop, victims, rest>>
  BY <1>2 DEF stopVars
<1>10. QED
  BY <1>1, <1>3, <1>4, <1>5, <1>6, <1>7, <1>8, <1>9, StillKept

LEMMA CancelTimerKeeps ==
    ASSUME WheelInv, NEW t \in Timers, CancelTimer(t)
    PROVE  WheelInv'
<1>1. PICK S \in SUBSET shard : StoppedTimers(S) /\ Unlink(S)
  BY CancelStops DEF WheelInv, CancelTimer
<1>2. UNCHANGED <<clock, offset, levelNow, bexp, delayQueue, pollVars, hand, run, reg, exp, chan, stopVars, rest>>
  BY DEF CancelTimer
<1>3. \A u \in Timers : Entered(u) <=> Entered(u)'
  BY <1>2 DEF Entered
<1>4. \A u \in Timers : InHands(u) => InHands(u)'
  BY <1>2 DEF InHands
<1>5. \A r \in run' : Entered(r.t)' /\ r.due < r.at + Tick /\ (r.stage = "loop" => r.by # "offset")
  BY <1>2, <1>3 DEF WheelInv, WheelTypeOK, KnownInv, RunsInv
<1>6. ChanKnown'
  <2>1. \A i \in 1..Len(chan) : chan[i] \in Timers /\ Entered(chan[i])
    BY DEF WheelInv, WheelTypeOK, KnownInv, ChanKnown
  <2>2. QED
    BY <1>2, <1>3, <2>1 DEF ChanKnown
<1>7. /\ run' \subseteq RunSet /\ exp' \in [Timers -> Nat] /\ chan' \in Seq(Timers) /\ Len(chan') <= ChanSize
      /\ reg' \in [Timers -> {"new", "add", "check", "done"}] /\ sdStop' \in BOOLEAN
  BY <1>2 DEF WheelInv, WheelTypeOK, RunSet, stopVars
<1>8. UNCHANGED <<clock, offset, levelNow, bexp, delayQueue, pollVars, hand, twStop, victims, rest>> /\ reg' = reg
  BY <1>2 DEF stopVars
<1>9. QED
  BY <1>1, <1>3, <1>4, <1>5, <1>6, <1>7, <1>8, StillKept

\* What a step that leaves the registrations and the expirations alone has to show.
LEMMA CallbackKept ==
    ASSUME WheelInv, NEW S \in SUBSET shard, StoppedTimers(S), Unlink(S),
           UNCHANGED <<clock, offset, levelNow, bexp, delayQueue, pollVars, hand, reg, exp, twStop,
                       victims, rest>>,
           run' \subseteq RunSet, chan' \in Seq(Timers), Len(chan') <= ChanSize, sdStop' \in BOOLEAN,
           \A r \in run' : Entered(r.t) /\ r.due < r.at + Tick /\ (r.stage = "loop" => r.by # "offset"),
           \A i \in 1..Len(chan') : Entered(chan'[i]),
           \A t \in Timers : twStop = "no" /\ active[t] /\ t \in shard /\ t \notin S /\ InHands(t) => InHands(t)'
    PROVE  WheelInv'
<1>1. \A t \in Timers : Entered(t) <=> Entered(t)'
  BY DEF Entered
<1>2. \A r \in run' : Entered(r.t)' /\ r.due < r.at + Tick /\ (r.stage = "loop" => r.by # "offset")
  BY <1>1 DEF RunSet
<1>3. ChanKnown'
  <2>1. \A i \in 1..Len(chan') : chan'[i] \in Timers /\ Entered(chan'[i])
    OBVIOUS
  <2>2. QED
    BY <2>1 DEF ChanKnown, Entered
<1>4. \A t \in Timers : Entered(t) /\ active[t] => t \in shard
  BY DEF WheelInv, RegInv, Entered
<1>5. /\ reg' \in [Timers -> {"new", "add", "check", "done"}] /\ exp' \in [Timers -> Nat]
      /\ \A t \in Timers : reg[t] = "new" <=> reg'[t] = "new"
      /\ \A t \in shard \ S : reg'[t] # "add" => reg[t] # "add"
  BY DEF WheelInv, WheelTypeOK
<1>6. \A t \in Timers :
          twStop = "no" /\ active[t] /\ t \notin S /\ Entered(t)' => Entered(t) /\ (InHands(t) => InHands(t)')
  BY <1>1, <1>4
<1>7. QED
  BY <1>1, <1>2, <1>3, <1>5, <1>6, StillKept

LEMMA DoKeeps ==
    ASSUME WheelInv, Do
    PROVE  WheelInv'
<1> DEFINE t == Head(chan)
<1>1. /\ chan # <<>> /\ chan' = Tail(chan)
      /\ UNCHANGED <<clock, offset, levelNow, bexp, delayQueue, pollVars, hand, run, reg, exp, stopVars, rest>>
  BY DEF Do
<1>2. chan \in Seq(Timers) /\ Len(chan) <= ChanSize /\ ChanSize \in Nat
  BY WheelAssumption DEF WheelInv, WheelTypeOK
<1>3. /\ t \in Timers /\ t = chan[1] /\ chan' \in Seq(Timers) /\ Len(chan') = Len(chan) - 1
      /\ \A i \in 1..Len(chan') : i + 1 \in 1..Len(chan) /\ chan'[i] = chan[i + 1]
      /\ \A i \in 2..Len(chan) : i - 1 \in 1..Len(chan') /\ chan'[i - 1] = chan[i]
  BY <1>1, <1>2
<1>4. PICK S \in SUBSET shard : StoppedTimers(S) /\ Unlink(S) /\ (active[t] /\ Oneshot(t) => S = {t} \cap shard)
  <2>1. CASE active[t] /\ Oneshot(t)
    <3>1. CancelTimers({t})
      BY <2>1 DEF Do
    <3>2. QED
      BY <3>1, CancelStops DEF WheelInv
  <2>2. CASE ~(active[t] /\ Oneshot(t))
    <3>1. UNCHANGED <<bkt, shard, owned, active>>
      BY <2>2 DEF Do
    <3>2. QED
      BY <2>2, <3>1, NothingStops DEF WheelInv
  <2>3. QED
    BY <2>1, <2>2
<1> HIDE DEF t
<1>5. \A r \in run' : Entered(r.t) /\ r.due < r.at + Tick /\ (r.stage = "loop" => r.by # "offset")
  BY <1>1 DEF WheelInv, KnownInv, RunsInv
<1>6. \A i \in 1..Len(chan') : Entered(chan'[i])
  BY <1>3 DEF WheelInv, KnownInv, ChanKnown
<1>7. ASSUME NEW u \in Timers, active[u], u \in shard, u \notin S, InHands(u) PROVE InHands(u)'
  <2>1. CASE \E r \in run : r.t = u /\ (r.by # "offset" \/ Oneshot(u))
    BY <1>1, <2>1 DEF InHands
  <2>2. CASE Oneshot(u) /\ \E i \in 1..Len(chan) : chan[i] = u
    <3>1. PICK i \in 1..Len(chan) : chan[i] = u
      BY <2>2
    <3>2. i # 1
      BY <1>3, <1>4, <1>7, <2>2, <3>1
    <3>3. i \in 2..Len(chan)
      BY <1>2, <3>2
    <3>4. i - 1 \in 1..Len(chan') /\ chan'[i - 1] = u
      BY <1>3, <3>1, <3>3
    <3>5. QED
      BY <2>2, <3>4 DEF InHands
  <2>3. QED
    BY <1>7, <2>1, <2>2 DEF InHands
<1>8. run' \subseteq RunSet /\ sdStop' \in BOOLEAN /\ Len(chan') <= ChanSize
  BY <1>1, <1>2, <1>3 DEF WheelInv, WheelTypeOK, RunSet, stopVars
<1>9. UNCHANGED <<clock, offset, levelNow, bexp, delayQueue, pollVars, hand, reg, exp, twStop, victims, rest>>
  BY <1>1 DEF stopVars
<1>10. QED
  BY <1>3, <1>4, <1>5, <1>6, <1>7, <1>8, <1>9, CallbackKept

LEMMA SchedulerStopKeeps ==
    ASSUME WheelInv, SchedulerStop
    PROVE  WheelInv'
<1>1. /\ CancelTimers(shard) /\ chan' = <<>> /\ sdStop' = TRUE
      /\ UNCHANGED <<clock, offset, levelNow, bexp, delayQueue, pollVars, hand, run, reg, exp, twStop,
                     victims, rest>>
  BY DEF SchedulerStop
<1>2. StoppedTimers(shard) /\ Unlink(shard)
  <2>1. shard \cap shard = shard
    OBVIOUS
  <2>2. QED
    BY <1>1, <2>1 DEF CancelTimers
<1>3. \A r \in run' : Entered(r.t) /\ r.due < r.at + Tick /\ (r.stage = "loop" => r.by # "offset")
  BY <1>1 DEF WheelInv, KnownInv, RunsInv
<1>4. chan' \in Seq(Timers) /\ Len(chan') = 0 /\ 0 <= ChanSize
  BY <1>1, WheelAssumption
<1>5. run' \subseteq RunSet /\ sdStop' \in BOOLEAN
  BY <1>1 DEF WheelInv, WheelTypeOK, RunSet
<1>6. \A i \in 1..Len(chan') : Entered(chan'[i])
  BY <1>4
<1>7. QED
  BY <1>1, <1>2, <1>3, <1>4, <1>5, <1>6, CallbackKept

LEMMA RunTimerKeeps ==
    ASSUME WheelInv, NEW r \in run, RunTimer(r)
    PROVE  WheelInv'
<1>1. /\ r.stage = "run"
      /\ \A q \in run : Entered(q.t) /\ q.due < q.at + Tick /\ (q.stage = "loop" => q.by # "offset")
      /\ r \in RunSet /\ run \subseteq RunSet /\ chan \in Seq(Timers) /\ Len(chan) <= ChanSize /\ ChanSize \in Nat
      /\ \A i \in 1..Len(chan) : Entered(chan[i])
  BY WheelAssumption DEF WheelInv, WheelTypeOK, RunSet, RunTimer, KnownInv, ChanKnown, RunsInv
<1>2. UNCHANGED <<clock, offset, levelNow, bexp, delayQueue, pollVars, hand, reg, exp, twStop, victims,
                  rest>> /\ sdStop' \in BOOLEAN
  BY DEF RunTimer, stopVars, WheelInv, WheelTypeOK
<1>3. \A q \in After(r) : /\ q \in RunSet /\ q.t = r.t /\ q.due = r.due /\ q.at = r.at /\ q.by = r.by /\ q.stage = "loop"
                          /\ r.by # "offset"
  BY <1>1 DEF After, RunSet
<1>4. After(r) = {} => Oneshot(r.t) \/ r.by = "offset"
  BY DEF After
<1>5. Entered(r.t) /\ r.t \in Timers
  BY <1>1 DEF RunSet
<1> HIDE DEF After
<1>6. ASSUME ~active[r.t] \/ (r.by # "reg" /\ twClosed), run' = run \ {r}, chan' = chan,
             IF r.by = "offset" /\ twClosed THEN CancelTimers({r.t}) ELSE UNCHANGED <<bkt, shard, owned, active>>
      PROVE  WheelInv'
  <2>1. PICK S \in SUBSET shard : StoppedTimers(S) /\ Unlink(S)
    BY <1>6, CancelStops, NothingStops DEF WheelInv
  <2>2. \A u \in Timers : twStop = "no" /\ active[u] /\ u \in shard /\ u \notin S /\ InHands(u) => InHands(u)'
    BY <1>1, <1>6 DEF InHands, twClosed
  <2>3. /\ run' \subseteq RunSet
        /\ \A q \in run' : Entered(q.t) /\ q.due < q.at + Tick /\ (q.stage = "loop" => q.by # "offset")
        /\ chan' \in Seq(Timers) /\ Len(chan') <= ChanSize /\ \A i \in 1..Len(chan') : Entered(chan'[i])
    BY <1>1, <1>6
  <2>4. QED
    BY <1>2, <2>1, <2>2, <2>3, CallbackKept
<1>7. ASSUME active[r.t], run' = (run \ {r}) \cup After(r), NEW S \in SUBSET shard, StoppedTimers(S), Unlink(S),
             \/ chan' = chan /\ (Oneshot(r.t) => r.t \in S)
             \/ chan' = Append(chan, r.t) /\ CanPost
      PROVE  WheelInv'
  <2>1. /\ chan' \in Seq(Timers) /\ Len(chan') <= ChanSize
        /\ \A i \in 1..Len(chan) : i \in 1..Len(chan') /\ chan'[i] = chan[i]
        /\ \A i \in 1..Len(chan') : Entered(chan'[i])
    <3>1. CASE chan' = chan
      BY <1>1, <3>1
    <3>2. CASE chan' = Append(chan, r.t) /\ CanPost
      <4>1. Len(chan) < ChanSize /\ Len(chan) \in Nat
        BY <1>1, <3>2 DEF CanPost
      <4>2. /\ chan' \in Seq(Timers) /\ Len(chan') = Len(chan) + 1 /\ chan'[Len(chan) + 1] = r.t
            /\ \A i \in 1..Len(chan) : chan'[i] = chan[i]
        BY <1>1, <1>5, <3>2
      <4>3. \A i \in 1..Len(chan') : i \in 1..Len(chan) \/ i = Len(chan) + 1
        BY <4>1, <4>2
      <4>4. \A i \in 1..Len(chan') : Entered(chan'[i])
        BY <1>1, <1>5, <4>2, <4>3
      <4>5. QED
        BY <1>1, <4>1, <4>2, <4>4
    <3>3. QED
      BY <1>7, <3>1, <3>2
  <2>2. /\ run' \subseteq RunSet
        /\ \A q \in run' : Entered(q.t) /\ q.due < q.at + Tick /\ (q.stage = "loop" => q.by # "offset")
    BY <1>1, <1>3, <1>7
  <2>3. ASSUME NEW u \in Timers, u \notin S, InHands(u) PROVE InHands(u)'
    <3>1. CASE \E q \in run : q.t = u /\ (q.by # "offset" \/ Oneshot(u))
      <4>1. PICK q \in run : q.t = u /\ (q.by # "offset" \/ Oneshot(u))
        BY <3>1
      <4>2. CASE q # r
        BY <1>7, <4>1, <4>2 DEF InHands
      <4>3. CASE q = r /\ After(r) # {}
        BY <1>3, <1>7, <4>1, <4>3 DEF InHands
      <4>4. CASE q = r /\ After(r) = {}
        <5>1. u = r.t /\ Oneshot(u)
          BY <1>4, <4>1, <4>4
        <5>2. chan' = Append(chan, u)
          BY <1>7, <2>3, <5>1
        <5>3. Len(chan') \in 1..Len(chan') /\ chan'[Len(chan')] = u
          BY <1>1, <5>2
        <5>4. QED
          BY <5>1, <5>3 DEF InHands
      <4>5. QED
        BY <4>2, <4>3, <4>4
    <3>2. CASE Oneshot(u) /\ \E i \in 1..Len(chan) : chan[i] = u
      BY <2>1, <3>2 DEF InHands
    <3>3. QED
      BY <2>3, <3>1, <3>2 DEF InHands
  <2>4. QED
    BY <1>2, <1>7, <2>1, <2>2, <2>3, CallbackKept
<1>8. ASSUME active[r.t], run' = (run \ {r}) \cup After(r), chan' = chan,
             IF Oneshot(r.t) THEN CancelTimers({r.t}) ELSE UNCHANGED <<bkt, shard, owned, active>>
      PROVE  WheelInv'
  <2>1. r.t \in shard
    BY <1>5, <1>8 DEF WheelInv, RegInv, Entered
  <2>2. CASE Oneshot(r.t)
    BY <1>7, <1>8, <2>1, <2>2, CancelStops DEF WheelInv
  <2>3. CASE ~Oneshot(r.t)
    BY <1>7, <1>8, <2>3, NothingStops DEF WheelInv
  <2>4. QED
    BY <2>2, <2>3
<1>9. ASSUME active[r.t], run' = (run \ {r}) \cup After(r), chan' = Append(chan, r.t), CanPost,
             UNCHANGED <<bkt, shard, owned, active>>
      PROVE  WheelInv'
  BY <1>7, <1>9, NothingStops DEF WheelInv
<1>10. QED
  BY <1>6, <1>8, <1>9 DEF RunTimer

(***************************************************************************)
(* Timers that enter the wheel.                                            *)
(***************************************************************************)
LEMMA NowNat == ASSUME WheelInv PROVE Now \in Nat /\ clock \in Nat
BY WheelAssumption DEF WheelInv, WheelTypeOK, LevelsInv, WheelLevels, Now

\* What AddAll may assume of the buckets, while the wheel is where it is.
LEMMA BucketsKnown ==
    ASSUME WheelInv, NEW b \in Buckets
    PROVE  BucketKnown(b, bexp[b], bkt[b], delayQueue, poll.item = b \/ hand = b, Now, twStop = "no")
BY DEF WheelInv, CoverInv, BucketKnown

\* A timer that is put into the wheel, or is due at once.
LEMMA AddKept ==
    ASSUME WheelInv, NEW t \in Timers, NEW by \in {"reg", "loop"}, ~twClosed, active[t], reg[t] # "new",
           exp' \in [Timers -> Nat], owned' = owned \cup {t}, AddAll(levelNow, {t}, exp', bkt, bexp),
           run' = {r \in run : ~(r.t = t /\ r.by = by)}
                   \cup {ToRun(u, by, exp'[u], Now) : u \in Ready(levelNow, {t}, exp')},
           UNCHANGED <<shard, active, clock, offset, hand, chan, stopVars, rest>>,
           reg' \in [Timers -> {"new", "add", "check", "done"}], reg'[t] \in {"check", "done"},
           \A u \in Timers \ {t} : reg'[u] = reg[u]
    PROVE  WheelInv'
<1>0. PICK x : x = exp'
  OBVIOUS
<1>1. /\ WheelTypeOK /\ levelNow \in [WheelLevels -> Int] /\ (levelNow[2] = -1 \/ levelNow[2] <= levelNow[1])
      /\ {t} \in SUBSET Timers /\ x \in [Timers -> Nat] /\ bkt \in [Buckets -> SUBSET Timers]
      /\ bexp \in [Buckets -> Int] /\ AddAll(levelNow, {t}, x, bkt, bexp)
      /\ 0 <= levelNow[1] /\ levelNow[1] <= Now
  BY <1>0 DEF WheelInv, WheelTypeOK, LevelsInv
<1>2. Now' = Now /\ Now \in Int /\ hand' = hand /\ twStop' = twStop /\ twStop = "no" /\ Now \in Nat
  BY NowNat DEF Now, stopVars, twClosed
<1>3. \A b \in Buckets :
          BucketKnown(b, bexp[b], bkt[b], delayQueue, poll.item = b \/ hand' = b, Now', twStop' = "no")
  BY <1>2, BucketsKnown
<1>4. /\ LevelsInv' /\ CoverInv'
      /\ \A u \in {t} : u \in Ready(levelNow, {t}, x) \/ InWheel(u)'
      /\ \A u \in Ready(levelNow, {t}, x) : x[u] < Now' + Tick
      /\ \A b \in Buckets : bkt[b] \subseteq bkt'[b] /\ bkt'[b] \subseteq bkt[b] \cup {t}
      /\ bkt' \in [Buckets -> SUBSET Timers] /\ bexp' \in [Buckets -> Int]
      /\ delayQueue' \subseteq Buckets \X Nat /\ levelNow' \in [WheelLevels -> Int]
      /\ sleeping' \in BOOLEAN /\ wake' \in BOOLEAN /\ poll' = poll
  BY <1>1, <1>2, <1>3, AddAllKeeps
<1>5. Ready(levelNow, {t}, x) \subseteq {t}
  BY DEF Ready
<1>6. \A r \in run' : r \in run \/ (t \in Ready(levelNow, {t}, x) /\ r = ToRun(t, by, x[t], Now))
  BY <1>0, <1>5
<1>7. WheelTypeOK'
  <2>1. \A r \in run' : r \in RunSet
    <3>1. \A r \in run : r \in RunSet
      BY <1>1 DEF WheelTypeOK, RunSet
    <3>2. ToRun(t, by, x[t], Now) \in RunSet
      <4>1. x[t] \in Nat /\ by \in {"reg", "loop", "offset"}
        BY <1>1
      <4>2. QED
        BY <1>2, <4>1 DEF RunSet, ToRun
    <3>3. QED
      BY <1>6, <3>1, <3>2
  <2>2. run' \subseteq [t : Timers, by : {"reg", "loop", "offset"}, stage : {"run", "loop"}, due : Nat, at : Nat]
    BY <2>1 DEF RunSet
  <2>3. QED
    BY <1>1, <1>4, <2>2 DEF WheelTypeOK, stopVars, rest
<1>8. RegInv'
  BY DEF WheelInv, RegInv
<1>9. t \in shard
  BY DEF WheelInv, RegInv
<1>10. OwnInv'
  BY <1>2, <1>9 DEF WheelInv, OwnInv, WheelTypeOK
<1>11. \A u \in Timers : Entered(u) => Entered(u)'
  BY DEF Entered
<1>12. Entered(t)'
  BY DEF Entered
<1>13. KnownInv'
  <2>1. \A b \in Buckets : \A u \in bkt'[b] : Entered(u)'
    BY <1>1, <1>4, <1>11, <1>12 DEF WheelInv, KnownInv
  <2>2. \A r \in run' : Entered(r.t)'
    <3>1. \A r \in run : Entered(r.t)'
      BY <1>1, <1>11 DEF WheelInv, KnownInv, WheelTypeOK
    <3>2. ToRun(t, by, x[t], Now).t = t
      BY DEF ToRun
    <3>3. QED
      BY <1>6, <1>12, <3>1, <3>2
  <2>3. ChanKnown'
    <3>1. \A i \in 1..Len(chan) : chan[i] \in Timers /\ Entered(chan[i])
      BY <1>1 DEF WheelInv, WheelTypeOK, KnownInv, ChanKnown
    <3>2. QED
      BY <1>11, <3>1 DEF ChanKnown
  <2>4. QED
    BY <2>1, <2>2, <2>3 DEF KnownInv
<1>14. PollInv'
  BY <1>4 DEF WheelInv, PollInv
<1>15. RunsInv'
  <2>1. ASSUME NEW r \in run' PROVE r.due < r.at + Tick /\ (r.stage = "loop" => r.by # "offset")
    <3>1. CASE r \in run
      BY <3>1 DEF WheelInv, RunsInv
    <3>2. CASE t \in Ready(levelNow, {t}, x) /\ r = ToRun(t, by, x[t], Now)
      BY <1>2, <1>4, <3>2 DEF ToRun
    <3>3. QED
      BY <1>6, <3>1, <3>2
  <2>2. QED
    BY <2>1 DEF RunsInv
<1>16. KeptInv'
  <2> SUFFICES ASSUME NEW u \in Timers, active[u], Entered(u)'
               PROVE  u \in dropped \/ InWheel(u)' \/ InHands(u)'
    BY DEF KeptInv, rest
  <2>1. CASE u = t
    <3>1. CASE t \in Ready(levelNow, {t}, x)
      <4>1. ToRun(t, by, x[t], Now) \in run'
        BY <1>0, <3>1
      <4>2. QED
        BY <2>1, <4>1 DEF InHands, ToRun
    <3>2. QED
      BY <1>4, <2>1, <3>1
  <2>2. CASE u # t
    <3>1. Entered(u)
      BY <2>2 DEF Entered
    <3>2. u \in dropped \/ InWheel(u) \/ InHands(u)
      BY <1>2, <3>1 DEF WheelInv, KeptInv
    <3>3. InWheel(u) => InWheel(u)'
      BY <1>4 DEF InWheel
    <3>4. InHands(u) => InHands(u)'
      BY <2>2 DEF InHands
    <3>5. QED
      BY <3>2, <3>3, <3>4
  <2>3. QED
    BY <2>1, <2>2
<1>17. QED
  BY <1>4, <1>7, <1>8, <1>10, <1>13, <1>14, <1>15, <1>16 DEF WheelInv

LEMMA RegisterAddKeeps ==
    ASSUME WheelInv, NEW t \in Timers, RegisterAdd(t)
    PROVE  WheelInv'
<1>1. /\ reg[t] = "add" /\ exp' = exp /\ reg' = [reg EXCEPT ![t] = "check"] /\ AddOrRun(t, "reg")
      /\ UNCHANGED <<clock, offset, hand, chan, stopVars, rest>>
  BY DEF RegisterAdd
<1>2. /\ reg' \in [Timers -> {"new", "add", "check", "done"}] /\ reg'[t] = "check"
      /\ \A u \in Timers \ {t} : reg'[u] = reg[u]
  BY <1>1 DEF WheelInv, WheelTypeOK
<1>3. exp' \in [Timers -> Nat] /\ chan' \in Seq(Timers) /\ Len(chan') <= ChanSize /\ sdStop' \in BOOLEAN
  BY <1>1 DEF WheelInv, WheelTypeOK, stopVars
<1>4. ASSUME NEW S \in SUBSET shard, StoppedTimers(S), Unlink(S), run' = {r \in run : ~(r.t = t /\ r.by = "reg")},
             UNCHANGED <<levelNow, bexp, delayQueue, pollVars>>, twStop # "no" \/ ~active[t], t \notin shard \ S
      PROVE  WheelInv'
  <2>1. \A u \in Timers : (reg[u] = "new" <=> reg'[u] = "new") /\ (Entered(u) => Entered(u)')
    BY <1>1, <1>2 DEF Entered
  <2>2. /\ run' \subseteq RunSet
        /\ \A r \in run' : Entered(r.t)' /\ r.due < r.at + Tick /\ (r.stage = "loop" => r.by # "offset")
    BY <1>4, <2>1 DEF WheelInv, WheelTypeOK, KnownInv, RunsInv, RunSet
  <2>3. ChanKnown'
    <3>1. \A i \in 1..Len(chan) : chan[i] \in Timers /\ Entered(chan[i])
      BY DEF WheelInv, WheelTypeOK, KnownInv, ChanKnown
    <3>2. QED
      BY <1>1, <2>1, <3>1 DEF ChanKnown
  <2>4. \A u \in shard \ S : reg'[u] # "add" => reg[u] # "add"
    BY <1>2, <1>4 DEF WheelInv, WheelTypeOK
  <2>5. ASSUME NEW u \in Timers, twStop = "no", active[u], u \notin S, Entered(u)'
        PROVE  Entered(u) /\ (InHands(u) => InHands(u)')
    <3>1. u # t
      BY <1>4, <2>5
    <3>2. QED
      BY <1>1, <1>2, <1>4, <2>5, <3>1 DEF Entered, InHands
  <2>6. UNCHANGED <<clock, offset, levelNow, bexp, delayQueue, pollVars, hand, twStop, victims, rest>>
    BY <1>1, <1>4 DEF stopVars
  <2>7. QED
    BY <1>2, <1>3, <1>4, <2>1, <2>2, <2>3, <2>4, <2>5, <2>6, StillKept
<1>5. CASE twClosed /\ CancelTimers({t}) /\ UNCHANGED <<levelNow, bexp, delayQueue, pollVars>>
           /\ run' = {r \in run : ~(r.t = t /\ r.by = "reg")}
  <2>1. t \notin shard \ ({t} \cap shard)
    OBVIOUS
  <2>2. QED
    BY <1>4, <1>5, <2>1, CancelStops DEF WheelInv, twClosed
<1>6. CASE ~twClosed /\ ~active[t] /\ UNCHANGED <<levelNow, bkt, bexp, delayQueue, pollVars, shard, owned, active>>
           /\ run' = {r \in run : ~(r.t = t /\ r.by = "reg")}
  <2>1. t \notin shard
    BY <1>1, <1>6 DEF WheelInv, RegInv
  <2>2. QED
    BY <1>4, <1>6, <2>1, NothingStops DEF WheelInv
<1>7. CASE /\ ~twClosed /\ active[t] /\ owned' = owned \cup {t} /\ AddAll(levelNow, {t}, exp', bkt, bexp)
           /\ run' = {r \in run : ~(r.t = t /\ r.by = "reg")}
                     \cup {ToRun(u, "reg", exp'[u], Now) : u \in Ready(levelNow, {t}, exp')}
           /\ UNCHANGED <<shard, active>>
  BY <1>1, <1>2, <1>3, <1>7, AddKept
<1>8. QED
  BY <1>1, <1>5, <1>6, <1>7 DEF AddOrRun

LEMMA RearmKeeps ==
    ASSUME WheelInv, NEW r \in run, Rearm(r)
    PROVE  WheelInv'
<1>1. /\ r.stage = "loop" /\ r \in RunSet /\ UNCHANGED <<clock, offset, hand, reg, chan, stopVars, rest>>
      /\ Entered(r.t) /\ r.t \in Timers /\ r.by \in {"reg", "loop"}
  BY DEF WheelInv, WheelTypeOK, RunSet, Rearm, KnownInv, RunsInv
<1>2. chan' \in Seq(Timers) /\ Len(chan') <= ChanSize /\ sdStop' \in BOOLEAN
  BY <1>1 DEF WheelInv, WheelTypeOK, stopVars
<1>3. ASSUME NEW S \in SUBSET shard, StoppedTimers(S), Unlink(S), run' = run \ {r}, exp' = exp,
             UNCHANGED <<levelNow, bexp, delayQueue, pollVars>>, twStop # "no" \/ r.t \notin shard \ S
      PROVE  WheelInv'
  <2>1. /\ run' \subseteq RunSet
        /\ \A q \in run' : Entered(q.t) /\ q.due < q.at + Tick /\ (q.stage = "loop" => q.by # "offset")
    BY <1>3 DEF WheelInv, WheelTypeOK, KnownInv, RunsInv, RunSet
  <2>2. \A i \in 1..Len(chan') : Entered(chan'[i])
    BY <1>1 DEF WheelInv, KnownInv, ChanKnown
  <2>3. ASSUME NEW u \in Timers, twStop = "no", u \in shard, u \notin S, InHands(u) PROVE InHands(u)'
    <3>1. u # r.t
      BY <1>3, <2>3
    <3>2. QED
      BY <1>1, <1>3, <2>3, <3>1 DEF InHands
  <2>4. UNCHANGED <<clock, offset, levelNow, bexp, delayQueue, pollVars, hand, reg, exp, twStop, victims, rest>>
    BY <1>1, <1>3 DEF stopVars
  <2>5. QED
    BY <1>2, <1>3, <2>1, <2>2, <2>3, <2>4, CallbackKept
<1>4. CASE CancelTimers({r.t}) /\ run' = run \ {r} /\ UNCHANGED <<levelNow, bexp, delayQueue, pollVars, exp>>
  <2>1. r.t \notin shard \ ({r.t} \cap shard)
    OBVIOUS
  <2>2. QED
    BY <1>3, <1>4, <2>1, CancelStops DEF WheelInv
<1>5. CASE /\ ~active[r.t] /\ run' = run \ {r}
           /\ UNCHANGED <<levelNow, bkt, bexp, delayQueue, pollVars, shard, owned, active, exp>>
  <2>1. r.t \notin shard
    BY <1>1, <1>5 DEF WheelInv, RegInv, Entered
  <2>2. QED
    BY <1>3, <1>5, <2>1, NothingStops DEF WheelInv
<1>6. CASE ~twClosed /\ active[r.t] /\ exp' = [exp EXCEPT ![r.t] = NextExp(r.t)] /\ AddOrRun(r.t, r.by)
  <2>1. exp' \in [Timers -> Nat]
    <3>1. NextExp(r.t) \in Nat
      <4>1. exp[r.t] \in Nat /\ Period[r.t] \in Nat
        BY <1>1, WheelAssumption DEF WheelInv, WheelTypeOK
      <4>2. QED
        BY <4>1, NowNat DEF NextExp
    <3>2. QED
      BY <1>6, <3>1 DEF WheelInv, WheelTypeOK
  <2>2. /\ owned' = owned \cup {r.t} /\ AddAll(levelNow, {r.t}, exp', bkt, bexp) /\ UNCHANGED <<shard, active>>
        /\ run' = {q \in run : ~(q.t = r.t /\ q.by = r.by)}
                  \cup {ToRun(u, r.by, exp'[u], Now) : u \in Ready(levelNow, {r.t}, exp')}
    BY <1>6 DEF AddOrRun
  <2>3. /\ reg' \in [Timers -> {"new", "add", "check", "done"}] /\ reg'[r.t] \in {"check", "done"} /\ reg[r.t] # "new"
        /\ \A u \in Timers \ {r.t} : reg'[u] = reg[u]
    BY <1>1 DEF WheelInv, WheelTypeOK, Entered
  <2>4. QED
    BY <1>1, <1>6, <2>1, <2>2, <2>3, AddKept
<1>7. QED
  BY <1>4, <1>5, <1>6 DEF Rearm

LEMMA AdvancedFacts ==
    ASSUME WheelInv, NEW x \in Nat, x <= Now
    PROVE  LET c == Advanced(x) IN
           c \in [WheelLevels -> Int] /\ (c[2] = -1 \/ c[2] <= c[1]) /\ 0 <= c[1] /\ c[1] <= Now
<1> DEFINE lv == levelNow
           m == TickOf(2)
           y == Truncate(x, Tick)
<1>1. /\ lv \in [WheelLevels -> Int] /\ 0 <= lv[1] /\ lv[1] <= Now /\ (lv[2] = -1 \/ lv[2] <= lv[1])
      /\ lv[1] \in Int /\ lv[2] \in Int
  BY DEF WheelInv, WheelTypeOK, LevelsInv, WheelLevels
<1>2. m \in Nat \ {0} /\ Tick \in Nat \ {0}
  BY TickFacts
<1>3. y \in Int /\ y <= x /\ y > x - Tick
  <2> DEFINE n == Tick
  <2>1. n \in Nat \ {0} /\ x \in Int /\ y = Truncate(x, n)
    BY <1>2
  <2> HIDE DEF n, y
  <2>2. y \in Int /\ y <= x /\ y > x - n
    BY <2>1, TruncateBounds
  <2>3. QED
    BY <2>2 DEF n
<1>4. Advanced(x) = IF x >= lv[1] + Tick
                    THEN [lv EXCEPT ![1] = y, ![2] = IF lv[2] # -1 /\ y >= lv[2] + m THEN Truncate(y, m) ELSE lv[2]]
                    ELSE lv
  BY DEF Advanced
<1> HIDE DEF lv, m, y
<1>5. Truncate(y, m) \in Int /\ Truncate(y, m) <= y
  BY <1>2, <1>3, TruncateBounds
<1>6. CASE x >= lv[1] + Tick
  <2> DEFINE z == IF lv[2] # -1 /\ y >= lv[2] + m THEN Truncate(y, m) ELSE lv[2]
  <2>1. z \in Int /\ (z = -1 \/ z <= y)
    BY <1>1, <1>2, <1>3, <1>5, <1>6
  <2>2. Advanced(x) = [lv EXCEPT ![1] = y, ![2] = z]
    BY <1>4, <1>6
  <2> HIDE DEF z
  <2>3. Advanced(x) \in [WheelLevels -> Int] /\ Advanced(x)[1] = y /\ Advanced(x)[2] = z
    BY <1>1, <1>3, <2>1, <2>2 DEF WheelLevels
  <2>4. Now \in Int
    BY NowNat
  <2>5. QED
    BY <1>1, <1>2, <1>3, <1>6, <2>1, <2>3, <2>4
<1>7. CASE ~(x >= lv[1] + Tick)
  BY <1>1, <1>4, <1>7
<1>8. QED
  BY <1>6, <1>7

LEMMA FlushBucketKeeps ==
    ASSUME WheelInv, FlushBucket
    PROVE  WheelInv'
<1>1. /\ hand # None /\ hand \in Buckets /\ hand' = None
      /\ UNCHANGED <<clock, offset, reg, exp, active, shard, owned, chan, stopVars, rest>>
  BY DEF FlushBucket, WheelInv, WheelTypeOK
<1>2. Now' = Now /\ Now \in Nat /\ None \notin Buckets
  BY <1>1, NowNat DEF Now, None, Buckets, WheelLevels
<1>3. WheelTypeOK /\ exp \in [Timers -> Nat] /\ bkt \in [Buckets -> SUBSET Timers] /\ bexp \in [Buckets -> Int]
  BY DEF WheelInv, WheelTypeOK
<1>4. \A u \in Timers : Entered(u) <=> Entered(u)'
  BY <1>1 DEF Entered
<1>5. RegInv' /\ OwnInv'
  BY <1>1 DEF WheelInv, RegInv, OwnInv, stopVars
<1>6. ChanKnown'
  <2>1. \A i \in 1..Len(chan) : chan[i] \in Timers /\ Entered(chan[i])
    BY DEF WheelInv, WheelTypeOK, KnownInv, ChanKnown
  <2>2. QED
    BY <1>1, <1>4, <2>1 DEF ChanKnown
<1>7. CASE ~twClosed /\ bexp[hand] >= 0 /\ bexp[hand] <= Now
  <2> DEFINE c == Advanced(bexp[hand])
             ts == {t \in bkt[hand] : active[t]}
             k == [bkt EXCEPT ![hand] = {}]
             e == [bexp EXCEPT ![hand] = -1]
  <2>1. /\ AddAll(c, ts, exp, k, e)
        /\ run' = run \cup {ToRun(t, "loop", exp[t], Now) : t \in Ready(c, ts, exp)}
    BY <1>7 DEF FlushBucket
  <2>2. bexp[hand] \in Nat
    BY <1>1, <1>3, <1>7
  <2>3. c \in [WheelLevels -> Int] /\ (c[2] = -1 \/ c[2] <= c[1]) /\ 0 <= c[1] /\ c[1] <= Now
    BY <1>7, <2>2, AdvancedFacts
  <2>4. ts \in SUBSET Timers /\ k \in [Buckets -> SUBSET Timers] /\ e \in [Buckets -> Int]
    BY <1>1, <1>3
  <2>5. \A b \in Buckets : /\ b = hand => k[b] = {} /\ e[b] = -1
                           /\ b # hand => k[b] = bkt[b] /\ e[b] = bexp[b]
    BY <1>1, <1>3
  <2>6. \A t \in ts : t \in bkt[hand] /\ t \in Timers
    BY <1>1, <1>3
  <2>7. \A t \in bkt[hand] : active[t] => t \in ts
    OBVIOUS
  <2> HIDE DEF c, ts, k, e
  <2>8. ASSUME NEW b \in Buckets
        PROVE  BucketKnown(b, e[b], k[b], delayQueue, poll.item = b \/ hand' = b, Now', twStop' = "no")
    <3>1. BucketKnown(b, bexp[b], bkt[b], delayQueue, poll.item = b \/ hand = b, Now, twStop = "no")
      BY BucketsKnown
    <3>2. twStop' = twStop
      BY <1>1 DEF stopVars
    <3>3. QED
      BY <1>1, <1>2, <2>5, <3>1, <3>2 DEF BucketKnown
  <2>9. Now' \in Int /\ c[1] <= Now'
    BY <1>2, <2>3
  <2>10. /\ LevelsInv' /\ CoverInv'
         /\ \A t \in ts : t \in Ready(c, ts, exp) \/ InWheel(t)'
         /\ \A t \in Ready(c, ts, exp) : exp[t] < Now' + Tick
         /\ \A b \in Buckets : k[b] \subseteq bkt'[b] /\ bkt'[b] \subseteq k[b] \cup ts
         /\ bkt' \in [Buckets -> SUBSET Timers] /\ bexp' \in [Buckets -> Int]
         /\ delayQueue' \subseteq Buckets \X Nat /\ levelNow' \in [WheelLevels -> Int]
         /\ sleeping' \in BOOLEAN /\ wake' \in BOOLEAN /\ poll' = poll
    BY <1>3, <2>1, <2>3, <2>4, <2>8, <2>9, AddAllKeeps
  <2>11. Ready(c, ts, exp) \subseteq ts
    BY DEF Ready
  <2>12. \A r \in run' : r \in run \/ \E t \in Ready(c, ts, exp) : r = ToRun(t, "loop", exp[t], Now)
    BY <2>1
  <2>13. WheelTypeOK'
    <3>1. \A r \in run' : r \in RunSet
      <4>1. \A r \in run : r \in RunSet
        BY <1>3 DEF WheelTypeOK, RunSet
      <4>2. ASSUME NEW t \in Ready(c, ts, exp) PROVE ToRun(t, "loop", exp[t], Now) \in RunSet
        <5>1. t \in Timers /\ exp[t] \in Nat
          BY <1>3, <2>6, <2>11
        <5>2. QED
          BY <1>2, <5>1 DEF RunSet, ToRun
      <4>3. QED
        BY <2>12, <4>1, <4>2
    <3>2. run' \subseteq [t : Timers, by : {"reg", "loop", "offset"}, stage : {"run", "loop"}, due : Nat, at : Nat]
      BY <3>1 DEF RunSet
    <3>3. QED
      BY <1>1, <1>3, <2>10, <3>2 DEF WheelTypeOK, stopVars, rest
  <2>14. KnownInv'
    <3>1. \A b \in Buckets : \A u \in bkt'[b] : Entered(u)'
      <4>1. \A b \in Buckets : \A u \in bkt[b] : u \in Timers /\ Entered(u)
        BY <1>3 DEF WheelInv, KnownInv
      <4>2. \A b \in Buckets : \A u \in bkt'[b] : u \in bkt[b] \/ u \in bkt[hand]
        BY <2>5, <2>6, <2>10
      <4>3. QED
        BY <1>1, <1>4, <4>1, <4>2
    <3>2. \A r \in run' : Entered(r.t)'
      <4>1. \A r \in run : r.t \in Timers /\ Entered(r.t)
        BY <1>3 DEF WheelInv, KnownInv, WheelTypeOK
      <4>2. \A t \in Ready(c, ts, exp) : t \in Timers /\ Entered(t) /\ ToRun(t, "loop", exp[t], Now).t = t
        BY <1>1, <2>6, <2>11 DEF WheelInv, KnownInv, ToRun
      <4>3. QED
        BY <1>4, <2>12, <4>1, <4>2
    <3>3. QED
      BY <1>6, <3>1, <3>2 DEF KnownInv
  <2>15. PollInv'
    BY <2>10 DEF WheelInv, PollInv
  <2>16. RunsInv'
    <3>1. ASSUME NEW r \in run' PROVE r.due < r.at + Tick /\ (r.stage = "loop" => r.by # "offset")
      <4>1. CASE r \in run
        BY <4>1 DEF WheelInv, RunsInv
      <4>2. ASSUME NEW t \in Ready(c, ts, exp), r = ToRun(t, "loop", exp[t], Now)
            PROVE  r.due < r.at + Tick /\ (r.stage = "loop" => r.by # "offset")
        BY <1>2, <2>10, <4>2 DEF ToRun
      <4>3. QED
        BY <2>12, <4>1, <4>2
    <3>2. QED
      BY <3>1 DEF RunsInv
  <2>17. KeptInv'
    <3> SUFFICES ASSUME NEW u \in Timers, active[u], Entered(u)
                 PROVE  u \in dropped \/ InWheel(u)' \/ InHands(u)'
      BY <1>1, <1>4 DEF KeptInv, rest
    <3>1. u \in dropped \/ InWheel(u) \/ InHands(u)
      BY <1>7 DEF WheelInv, KeptInv, twClosed
    <3>2. CASE InHands(u)
      BY <1>1, <2>1, <3>2 DEF InHands
    <3>3. CASE InWheel(u)
      <4>1. PICK b \in Buckets : u \in bkt[b]
        BY <3>3 DEF InWheel
      <4>2. CASE b # hand
        BY <2>5, <2>10, <4>1, <4>2 DEF InWheel
      <4>3. CASE b = hand /\ u \notin Ready(c, ts, exp)
        BY <2>7, <2>10, <4>1, <4>3
      <4>4. CASE u \in Ready(c, ts, exp)
        <5>1. ToRun(u, "loop", exp[u], Now) \in run'
          BY <2>1, <4>4
        <5>2. QED
          BY <5>1 DEF InHands, ToRun
      <4>5. QED
        BY <4>2, <4>3, <4>4
    <3>4. QED
      BY <3>1, <3>2, <3>3
  <2>18. QED
    BY <1>5, <2>10, <2>13, <2>14, <2>15, <2>16, <2>17 DEF WheelInv
<1>8. CASE ~(~twClosed /\ bexp[hand] >= 0 /\ bexp[hand] <= Now)
  <2>1. UNCHANGED <<levelNow, bkt, bexp, delayQueue, pollVars, run>>
    BY <1>8 DEF FlushBucket
  <2>2. WheelTypeOK'
    BY <1>1, <1>3, <2>1 DEF WheelTypeOK, pollVars, stopVars, rest
  <2>3. CoverInv'
    <3>1. ASSUME NEW b \in Buckets
          PROVE  BucketKnown(b, bexp[b], bkt[b], delayQueue, poll.item = b \/ None = b, Now, twStop = "no")
      <4>1. BucketKnown(b, bexp[b], bkt[b], delayQueue, poll.item = b \/ hand = b, Now, twStop = "no")
        BY BucketsKnown
      <4>2. bexp[b] \in Int
        BY <1>3
      <4>3. QED
        BY <1>2, <1>8, <4>1, <4>2 DEF BucketKnown, twClosed
    <3>2. QED
      BY <1>1, <1>2, <2>1, <3>1 DEF CoverInv, BucketKnown, pollVars, stopVars
  <2>4. LevelsInv' /\ PollInv' /\ RunsInv'
    BY <1>2, <2>1 DEF WheelInv, LevelsInv, PollInv, RunsInv, pollVars
  <2>5. KnownInv'
    <3>1. \A b \in Buckets : \A u \in bkt[b] : u \in Timers /\ Entered(u)
      BY <1>3 DEF WheelInv, KnownInv
    <3>2. \A r \in run : r.t \in Timers /\ Entered(r.t)
      BY <1>3 DEF WheelInv, KnownInv, WheelTypeOK
    <3>3. QED
      BY <1>4, <1>6, <2>1, <3>1, <3>2 DEF KnownInv
  <2>6. KeptInv'
    BY <1>1, <1>4, <2>1 DEF WheelInv, KeptInv, InWheel, InHands, stopVars, rest
  <2>7. QED
    BY <1>5, <2>2, <2>3, <2>4, <2>5, <2>6 DEF WheelInv
<1>9. QED
  BY <1>7, <1>8

LEMMA SetTimeOffsetKeeps ==
    ASSUME WheelInv, NEW o \in Offsets, SetTimeOffset(o)
    PROVE  WheelInv'
<1> DEFINE delta == o - offset
           new == levelNow[1] + delta
           c == [l \in WheelLevels |-> IF levelNow[l] = -1 THEN -1 ELSE Truncate(levelNow[l] + delta, TickOf(l))]
           all == {t \in UNION {bkt[b] : b \in Buckets} : active[t]}
           crossed == {t \in all : delta > 0 /\ new >= exp[t]}
           x == [t \in Timers |-> IF t \in crossed /\ ~Oneshot(t) THEN new + Period[t] ELSE exp[t]]
           back == (all \ crossed) \cup {t \in crossed : ~Oneshot(t)}
           k == [b \in Buckets |-> {}]
           e == [b \in Buckets |-> -1]
           late == crossed \cup Ready(c, all \ crossed, x)
<1>1. /\ ~twClosed /\ c[1] >= 0 /\ offset' = o /\ exp' = x /\ AddAll(c, back, x, k, e)
      /\ run' = run \cup {ToRun(t, "offset", exp[t], clock + o) : t \in late}
      /\ dropped' = dropped \cup {t \in Ready(c, back, x) : ~Oneshot(t)}
      /\ UNCHANGED <<clock, hand, reg, active, shard, owned, chan, stopVars, async>>
  BY DEF SetTimeOffset
<1>2. WheelTypeOK /\ exp \in [Timers -> Nat] /\ bkt \in [Buckets -> SUBSET Timers] /\ run \subseteq RunSet
  BY DEF WheelInv, WheelTypeOK, RunSet
<1>3. /\ levelNow \in [WheelLevels -> Int] /\ levelNow[1] \in Int /\ levelNow[2] \in Int /\ 0 <= levelNow[1]
      /\ levelNow[1] <= Now /\ (levelNow[2] = -1 \/ levelNow[2] <= levelNow[1])
      /\ offset \in Int /\ o \in Int /\ clock \in Nat /\ Now = clock + offset
  BY NowNat, WheelAssumption DEF WheelInv, WheelTypeOK, LevelsInv, WheelLevels, Now
<1>4. Now' = clock + o /\ delta \in Int /\ new \in Int /\ new <= Now' /\ Now' \in Int
  BY <1>1, <1>3 DEF Now
<1>5. c \in [WheelLevels -> Int] /\ (c[2] = -1 \/ c[2] <= c[1]) /\ c[1] <= new
  <2> DEFINE y1 == levelNow[1] + delta
             y2 == levelNow[2] + delta
             m == Tick * Size
             n == Tick
             t1 == Truncate(y1, n)
             t2 == Truncate(y2, m)
  <2>1. n \in Nat \ {0} /\ m \in Nat \ {0} /\ y1 \in Int /\ y2 \in Int /\ y1 = new
    BY <1>3, <1>4, TickFacts
  <2>2. c = [l \in WheelLevels |-> IF levelNow[l] = -1 THEN -1 ELSE IF l = 1 THEN t1 ELSE t2]
    <3>1. TickOf(1) = n /\ TickOf(2) = m
      BY TickFacts
    <3>2. ASSUME NEW l \in WheelLevels
          PROVE  (IF levelNow[l] = -1 THEN -1 ELSE Truncate(levelNow[l] + delta, TickOf(l)))
                    = IF levelNow[l] = -1 THEN -1 ELSE IF l = 1 THEN t1 ELSE t2
      <4>1. CASE l = 1
        BY <3>1, <4>1
      <4>2. CASE l = 2
        BY <3>1, <4>2
      <4>3. QED
        BY <4>1, <4>2 DEF WheelLevels
    <3>3. QED
      BY <3>2
  <2>3. levelNow[2] # -1 => t2 <= t1
    <3>1. levelNow[2] # -1 => y2 <= y1
      BY <1>3, <1>4
    <3> HIDE DEF y1, y2
    <3>2. QED
      BY <2>1, <3>1, TruncateNested
  <2> HIDE DEF y1, y2, m, n
  <2>4. t1 \in Int /\ t1 <= y1 /\ t2 \in Int
    BY <2>1, TruncateBounds
  <2> HIDE DEF t1, t2, c, delta, new
  <2>5. c \in [WheelLevels -> Int] /\ c[1] = t1 /\ c[2] = IF levelNow[2] = -1 THEN -1 ELSE t2
    <3>1. levelNow[1] # -1
      BY <1>3
    <3>2. QED
      BY <2>2, <2>4, <3>1 DEF WheelLevels
  <2>6. QED
    BY <2>1, <2>3, <2>4, <2>5
<1>6. all \subseteq Timers /\ crossed \subseteq all /\ back \subseteq all /\ \A t \in all : \E b \in Buckets : t \in bkt[b]
  BY <1>2
<1>7. x \in [Timers -> Nat] /\ \A t \in all \ crossed : x[t] = exp[t]
  <2>1. \A t \in Timers : (t \in crossed => t \in all) /\ Period[t] \in Nat /\ exp[t] \in Nat
    BY <1>2, WheelAssumption
  <2>2. new \in Nat
    <3> HIDE DEF new, c
    <3>1. c[1] \in Int
      BY <1>5 DEF WheelLevels
    <3>2. QED
      BY <1>1, <1>4, <1>5, <3>1
  <2>3. \A t \in Timers : x[t] = IF t \in crossed /\ ~Oneshot(t) THEN new + Period[t] ELSE exp[t]
    OBVIOUS
  <2> HIDE DEF new, crossed
  <2>4. ASSUME NEW t \in Timers PROVE (IF t \in crossed /\ ~Oneshot(t) THEN new + Period[t] ELSE exp[t]) \in Nat
    BY <2>1, <2>2
  <2>5. QED
    BY <1>6, <2>3, <2>4
<1>8. \A t \in crossed : t \in all /\ exp[t] <= new
  BY <1>2, <1>4
<1>9. \A t \in all : (Oneshot(t) /\ t \in crossed) \/ t \in back
  OBVIOUS
<1>10. \A t \in back : Oneshot(t) => t \in all \ crossed
  OBVIOUS
<1>11. late = crossed \cup Ready(c, all \ crossed, x)
  OBVIOUS
<1>12. k \in [Buckets -> SUBSET Timers] /\ e \in [Buckets -> Int] /\ \A b \in Buckets : k[b] = {} /\ e[b] = -1
  OBVIOUS
<1>13. all \ crossed \subseteq back /\ \A t \in Timers : active[t] /\ InWheel(t) => t \in all
  BY DEF InWheel
<1> HIDE DEF delta, new, c, all, crossed, x, back, k, e, late
<1>14. \A b \in Buckets : BucketKnown(b, e[b], k[b], delayQueue, poll.item = b \/ hand' = b, Now', twStop' = "no")
  BY <1>12 DEF BucketKnown
<1>15. c[1] \in Int /\ 0 <= c[1] /\ c[1] <= Now' /\ Now' \in Nat
  <2>1. c[1] \in Int
    BY <1>5 DEF WheelLevels
  <2>2. QED
    BY <1>1, <1>4, <1>5, <2>1
<1>16. back \in SUBSET Timers
  BY <1>6
<1>17. /\ LevelsInv' /\ CoverInv'
       /\ \A t \in back : t \in Ready(c, back, x) \/ InWheel(t)'
       /\ \A t \in Ready(c, back, x) : x[t] < Now' + Tick
       /\ \A b \in Buckets : k[b] \subseteq bkt'[b] /\ bkt'[b] \subseteq k[b] \cup back
       /\ bkt' \in [Buckets -> SUBSET Timers] /\ bexp' \in [Buckets -> Int]
       /\ delayQueue' \subseteq Buckets \X Nat /\ levelNow' \in [WheelLevels -> Int]
       /\ sleeping' \in BOOLEAN /\ wake' \in BOOLEAN /\ poll' = poll
  BY <1>1, <1>2, <1>4, <1>5, <1>7, <1>12, <1>14, <1>15, <1>16, AddAllKeeps
<1>18. \A t \in Ready(c, all \ crossed, x) : t \in all \ crossed /\ t \in Ready(c, back, x)
  BY <1>13 DEF Ready
<1>19. \A t \in late : t \in all /\ t \in Timers /\ exp[t] \in Nat /\ exp[t] < Now' + Tick
  <2>1. ASSUME NEW t \in crossed PROVE t \in all /\ exp[t] < Now' + Tick
    <3>1. exp[t] \in Nat
      BY <1>2, <1>6, <2>1
    <3>2. QED
      BY <1>4, <1>8, <3>1, TickFacts
  <2>2. ASSUME NEW t \in Ready(c, all \ crossed, x) PROVE t \in all /\ exp[t] < Now' + Tick
    BY <1>7, <1>17, <1>18
  <2>3. QED
    BY <1>2, <1>6, <1>11, <2>1, <2>2
<1>20. \A r \in run' : r \in run \/ \E t \in late : r = ToRun(t, "offset", exp[t], Now')
  BY <1>1, <1>4
<1>21. \A t \in all : Entered(t)
  BY <1>6 DEF WheelInv, KnownInv
<1>22. \A t \in Timers : Entered(t) <=> Entered(t)'
  BY <1>1 DEF Entered
<1>23. WheelTypeOK'
  <2>1. \A r \in run' : r \in RunSet
    <3>1. ASSUME NEW t \in late PROVE ToRun(t, "offset", exp[t], Now') \in RunSet
      BY <1>15, <1>19 DEF RunSet, ToRun
    <3>2. QED
      BY <1>2, <1>20, <3>1
  <2>2. run' \subseteq [t : Timers, by : {"reg", "loop", "offset"}, stage : {"run", "loop"}, due : Nat, at : Nat]
    BY <2>1 DEF RunSet
  <2>3. exp' \in [Timers -> Nat] /\ dropped' \subseteq Timers
    <3>1. Ready(c, back, x) \subseteq Timers
      BY <1>16 DEF Ready
    <3>2. QED
      BY <1>1, <1>2, <1>7, <3>1 DEF WheelTypeOK
  <2>4. offset' \in Int
    BY <1>1, <1>3
  <2>5. QED
    BY <1>1, <1>2, <1>17, <2>2, <2>3, <2>4 DEF WheelTypeOK, stopVars
<1>24. RegInv' /\ OwnInv'
  BY <1>1 DEF WheelInv, RegInv, OwnInv, stopVars
<1>25. KnownInv'
  <2>1. \A b \in Buckets : \A u \in bkt'[b] : Entered(u)'
    <3>1. \A b \in Buckets : \A u \in bkt'[b] : u \in back
      BY <1>12, <1>17
    <3>2. QED
      BY <1>6, <1>21, <1>22, <3>1
  <2>2. \A r \in run' : Entered(r.t)'
    <3>1. \A r \in run : r.t \in Timers /\ Entered(r.t)
      BY <1>2 DEF WheelInv, KnownInv, RunSet
    <3>2. \A t \in late : t \in Timers /\ Entered(t) /\ ToRun(t, "offset", exp[t], Now').t = t
      BY <1>19, <1>21 DEF ToRun
    <3>3. QED
      BY <1>20, <1>22, <3>1, <3>2
  <2>3. ChanKnown'
    <3>1. \A i \in 1..Len(chan) : chan[i] \in Timers /\ Entered(chan[i])
      BY <1>2 DEF WheelInv, WheelTypeOK, KnownInv, ChanKnown
    <3>2. QED
      BY <1>1, <1>22, <3>1 DEF ChanKnown
  <2>4. QED
    BY <2>1, <2>2, <2>3 DEF KnownInv
<1>26. PollInv'
  BY <1>17 DEF WheelInv, PollInv
<1>27. RunsInv'
  <2>1. ASSUME NEW r \in run' PROVE r.due < r.at + Tick /\ (r.stage = "loop" => r.by # "offset")
    <3>1. CASE r \in run
      BY <3>1 DEF WheelInv, RunsInv
    <3>2. ASSUME NEW t \in late, r = ToRun(t, "offset", exp[t], Now')
          PROVE  r.due < r.at + Tick /\ (r.stage = "loop" => r.by # "offset")
      BY <1>19, <3>2 DEF ToRun
    <3>3. QED
      BY <1>20, <3>1, <3>2
  <2>2. QED
    BY <2>1 DEF RunsInv
<1>28. KeptInv'
  <2> SUFFICES ASSUME NEW u \in Timers, active[u], Entered(u)
               PROVE  u \in dropped' \/ InWheel(u)' \/ InHands(u)'
    BY <1>1, <1>22 DEF KeptInv
  <2>1. u \in dropped \/ InWheel(u) \/ InHands(u)
    BY <1>1 DEF WheelInv, KeptInv, twClosed
  <2>2. CASE InHands(u)
    BY <1>1, <2>2 DEF InHands
  <2>3. ASSUME u \in late, Oneshot(u) PROVE InHands(u)'
    <3>1. ToRun(u, "offset", exp[u], clock + o) \in run' /\ ToRun(u, "offset", exp[u], clock + o).t = u
      BY <1>1, <2>3 DEF ToRun
    <3>2. QED
      BY <2>3, <3>1 DEF InHands
  <2>4. CASE InWheel(u)
    <3>1. u \in all
      BY <1>13, <2>4
    <3>2. CASE Oneshot(u) /\ u \in crossed
      BY <1>11, <2>3, <3>2
    <3>3. CASE u \in back /\ u \notin Ready(c, back, x)
      BY <1>17, <3>3
    <3>4. CASE u \in Ready(c, back, x) /\ ~Oneshot(u)
      BY <1>1, <3>4
    <3>5. CASE u \in back /\ u \in Ready(c, back, x) /\ Oneshot(u)
      <4>1. u \in Ready(c, all \ crossed, x)
        BY <1>10, <3>5 DEF Ready
      <4>2. QED
        BY <1>11, <2>3, <3>5, <4>1
    <3>6. QED
      BY <1>9, <3>1, <3>2, <3>3, <3>4, <3>5
  <2>5. QED
    BY <1>1, <2>1, <2>2, <2>4
<1>29. QED
  BY <1>17, <1>23, <1>24, <1>25, <1>26, <1>27, <1>28 DEF WheelInv

(***************************************************************************)
(* The clock, the poller and the registration.                             *)
(***************************************************************************)
\* Most of the invariant is about what these steps leave alone.
LEMMA TimersAlone ==
    ASSUME WheelInv, WheelTypeOK', UNCHANGED <<bkt, run, reg, active, shard, owned, chan, twStop, victims, rest>>,
           LevelsInv', CoverInv', PollInv'
    PROVE  WheelInv'
<1>1. RegInv' /\ OwnInv' /\ RunsInv'
  BY DEF WheelInv, RegInv, OwnInv, RunsInv
<1>2. KnownInv'
  <2>1. \A t \in Timers : Entered(t) <=> Entered(t)'
    BY DEF Entered
  <2>2. /\ \A b \in Buckets : \A t \in bkt[b] : t \in Timers /\ Entered(t)
        /\ \A r \in run : r.t \in Timers /\ Entered(r.t)
        /\ \A i \in 1..Len(chan) : chan[i] \in Timers /\ Entered(chan[i])
    BY DEF WheelInv, KnownInv, ChanKnown, WheelTypeOK
  <2>3. QED
    BY <2>1, <2>2 DEF KnownInv, ChanKnown
<1>3. KeptInv'
  BY DEF WheelInv, KeptInv, InWheel, InHands, Entered, rest
<1>4. QED
  BY <1>1, <1>2, <1>3 DEF WheelInv

LEMMA AdvanceKeeps == ASSUME WheelInv, Advance PROVE WheelInv'
<1>1. PICK i \in Instants : clock < i /\ clock' = i
  BY DEF Advance
<1>2. UNCHANGED <<offset, levelNow, bkt, bexp, delayQueue, pollVars, hand, run, reg, exp, active, shard,
                  owned, chan, stopVars, rest>>
  BY DEF Advance
<1>3. WheelTypeOK'
  BY <1>1, <1>2 DEF WheelInv, WheelTypeOK, pollVars, stopVars, rest
<1>4. Now \in Int /\ Now' \in Int /\ Now <= Now' /\ clock' \in Nat
  BY <1>1, <1>2, NowNat, WheelAssumption DEF WheelInv, WheelTypeOK, Now
<1>5. LevelsInv' /\ PollInv'
  <2>1. levelNow[1] \in Int
    BY DEF WheelInv, WheelTypeOK, WheelLevels
  <2>2. QED
    BY <1>2, <1>4, <2>1 DEF WheelInv, LevelsInv, PollInv, pollVars
<1>6. CoverInv'
  <2>1. ASSUME NEW b \in Buckets
        PROVE  BucketKnown(b, bexp[b], bkt[b], delayQueue, poll.item = b \/ hand = b, Now', twStop = "no")
    BY <1>4, BucketsKnown DEF BucketKnown
  <2>2. QED
    BY <1>2, <2>1 DEF CoverInv, BucketKnown, pollVars, stopVars
<1>7. UNCHANGED <<bkt, run, reg, active, shard, owned, chan, twStop, victims, rest>>
  BY <1>2 DEF stopVars
<1>8. QED
  BY <1>3, <1>5, <1>6, <1>7, TimersAlone

LEMMA PollTakeKeeps == ASSUME WheelInv, PollTake PROVE WheelInv'
<1>1. /\ poll.at = "check"
      /\ UNCHANGED <<clock, offset, levelNow, bkt, bexp, sleeping, wake, hand, run, reg, exp, active,
                     shard, owned, chan, stopVars, rest>>
  BY DEF PollTake
<1>2. PICK p \in delayQueue : /\ p[2] <= Now /\ delayQueue' = delayQueue \ {p}
                              /\ poll' = [at |-> "send", until |-> -1, item |-> p[1]]
  BY DEF PollTake, Earliest
<1>3. p[1] \in Buckets /\ p = <<p[1], p[2]>>
  BY <1>2 DEF WheelInv, WheelTypeOK
<1>4. None \notin Buckets
  BY DEF None, Buckets, WheelLevels
<1>5. poll.item = None
  BY <1>1 DEF WheelInv, PollInv
<1>6. WheelTypeOK'
  <2>1. delayQueue' \subseteq Buckets \X Nat
    BY <1>2 DEF WheelInv, WheelTypeOK
  <2>2. poll' \in [at : {"check", "sleep", "send"}, until : Int, item : Buckets \cup {None}]
    BY <1>2, <1>3
  <2>3. QED
    BY <1>1, <2>1, <2>2 DEF WheelInv, WheelTypeOK, stopVars, rest
<1>7. LevelsInv' /\ PollInv'
  BY <1>1, <1>2, <1>3, <1>4 DEF WheelInv, LevelsInv, PollInv, Now
<1>8. CoverInv'
  <2>1. ASSUME NEW b \in Buckets
        PROVE  BucketKnown(b, bexp[b], bkt[b], delayQueue', poll'.item = b \/ hand = b, Now, twStop = "no")
    <3>1. BucketKnown(b, bexp[b], bkt[b], delayQueue, poll.item = b \/ hand = b, Now, twStop = "no")
      BY BucketsKnown
    <3>2. poll.item # b
      BY <1>4, <1>5
    <3>3. CASE <<b, bexp[b]>> = p
      <4>1. p[1] = b /\ p[2] = bexp[b]
        BY <3>3
      <4>2. poll'.item = b /\ bexp[b] <= Now
        BY <1>2, <4>1
      <4>3. QED
        BY <3>1, <4>2 DEF BucketKnown
    <3>4. CASE <<b, bexp[b]>> # p
      BY <1>2, <3>1, <3>2, <3>4 DEF BucketKnown
    <3>5. QED
      BY <3>3, <3>4
  <2>2. Now' = Now /\ twStop' = twStop
    BY <1>1 DEF Now, stopVars
  <2>3. QED
    BY <1>1, <2>1, <2>2 DEF CoverInv, BucketKnown
<1>9. UNCHANGED <<bkt, run, reg, active, shard, owned, chan, twStop, victims, rest>>
  BY <1>1 DEF stopVars
<1>10. QED
  BY <1>6, <1>7, <1>8, <1>9, TimersAlone

LEMMA PollSleepKeeps == ASSUME WheelInv, PollSleep PROVE WheelInv'
<1>1. /\ poll.at = "check" /\ sleeping' = TRUE
      /\ poll' = [at |-> "sleep", item |-> None,
                  until |-> IF Earliest = {} THEN -1 ELSE clock + (CHOOSE p \in Earliest : TRUE)[2] - Now]
      /\ UNCHANGED <<clock, offset, levelNow, bkt, bexp, delayQueue, wake, hand, run, reg, exp, active,
                     shard, owned, chan, stopVars, rest>>
  BY DEF PollSleep
<1>2. poll.item = None
  BY <1>1 DEF WheelInv, PollInv
<1>3. WheelTypeOK'
  <2> DEFINE p == CHOOSE q \in Earliest : TRUE
             until == IF Earliest = {} THEN -1 ELSE clock + p[2] - Now
  <2>1. Earliest # {} => p \in delayQueue
    BY DEF Earliest
  <2>2. Earliest # {} => p[2] \in Nat
    BY <2>1 DEF WheelInv, WheelTypeOK
  <2> HIDE DEF p
  <2>3. until \in Int
    BY <2>2, NowNat
  <2>4. poll' = [at |-> "sleep", item |-> None, until |-> until]
    BY <1>1 DEF p
  <2> HIDE DEF until
  <2>5. poll' \in [at : {"check", "sleep", "send"}, until : Int, item : Buckets \cup {None}]
    BY <2>3, <2>4
  <2>6. QED
    BY <1>1, <2>5 DEF WheelInv, WheelTypeOK, stopVars, rest
<1>4. poll'.item = None /\ poll'.at = "sleep"
  BY <1>1
<1>5. LevelsInv' /\ PollInv'
  BY <1>1, <1>4 DEF WheelInv, LevelsInv, PollInv, Now
<1>6. CoverInv'
  BY <1>1, <1>2, <1>4 DEF WheelInv, CoverInv, Now, stopVars
<1>7. UNCHANGED <<bkt, run, reg, active, shard, owned, chan, twStop, victims, rest>>
  BY <1>1 DEF stopVars
<1>8. QED
  BY <1>3, <1>5, <1>6, <1>7, TimersAlone

LEMMA PollWakeKeeps == ASSUME WheelInv, PollWake PROVE WheelInv'
<1>1. /\ poll.at = "sleep" /\ poll' = [poll EXCEPT !.at = "check"]
      /\ UNCHANGED <<clock, offset, levelNow, bkt, bexp, delayQueue, hand, run, reg, exp, active, shard,
                     owned, chan, stopVars, rest>>
      /\ sleeping' \in BOOLEAN /\ wake' \in BOOLEAN
  BY DEF PollWake, WheelInv, WheelTypeOK
<1>2. /\ poll \in [at : {"check", "sleep", "send"}, until : Int, item : Buckets \cup {None}]
      /\ poll.item = None
  BY <1>1 DEF WheelInv, WheelTypeOK, PollInv
<1>3. /\ poll' \in [at : {"check", "sleep", "send"}, until : Int, item : Buckets \cup {None}]
      /\ poll'.item = None /\ poll'.at = "check"
  BY <1>1, <1>2
<1>4. WheelTypeOK'
  BY <1>1, <1>3 DEF WheelInv, WheelTypeOK, stopVars, rest
<1>5. LevelsInv' /\ PollInv'
  BY <1>1, <1>3 DEF WheelInv, LevelsInv, PollInv, Now
<1>6. CoverInv'
  BY <1>1, <1>2, <1>3 DEF WheelInv, CoverInv, Now, stopVars
<1>7. UNCHANGED <<bkt, run, reg, active, shard, owned, chan, twStop, victims, rest>>
  BY <1>1 DEF stopVars
<1>8. QED
  BY <1>4, <1>5, <1>6, <1>7, TimersAlone

LEMMA PollSendKeeps == ASSUME WheelInv, PollSend PROVE WheelInv'
<1>1. /\ poll.at = "send" /\ hand = None /\ hand' = poll.item
      /\ poll' = [at |-> "check", until |-> -1, item |-> None]
      /\ UNCHANGED <<clock, offset, levelNow, bkt, bexp, delayQueue, sleeping, wake, run, reg, exp, active,
                     shard, owned, chan, stopVars, rest>>
  BY DEF PollSend, LoopBusy
<1>2. None \notin Buckets
  BY DEF None, Buckets, WheelLevels
<1>3. WheelTypeOK'
  <2>1. poll' \in [at : {"check", "sleep", "send"}, until : Int, item : Buckets \cup {None}]
    BY <1>1
  <2>2. hand' \in Buckets \cup {None}
    BY <1>1 DEF WheelInv, WheelTypeOK
  <2>3. QED
    BY <1>1, <2>1, <2>2 DEF WheelInv, WheelTypeOK, stopVars, rest
<1>4. LevelsInv' /\ PollInv'
  BY <1>1 DEF WheelInv, LevelsInv, PollInv, Now
<1>5. CoverInv'
  <2>1. ASSUME NEW b \in Buckets
        PROVE  BucketKnown(b, bexp[b], bkt[b], delayQueue, hand' = b, Now, twStop = "no")
    BY <1>1, <1>2, BucketsKnown DEF BucketKnown
  <2>2. Now' = Now /\ twStop' = twStop
    BY <1>1 DEF Now, stopVars
  <2>3. QED
    BY <1>1, <2>1, <2>2 DEF CoverInv, BucketKnown
<1>6. UNCHANGED <<bkt, run, reg, active, shard, owned, chan, twStop, victims, rest>>
  BY <1>1 DEF stopVars
<1>7. QED
  BY <1>3, <1>4, <1>5, <1>6, TimersAlone

LEMMA RegisterKeeps ==
    ASSUME WheelInv, NEW t \in Timers, Register(t)
    PROVE  WheelInv'
<1>1. /\ reg[t] = "new"
      /\ UNCHANGED <<clock, offset, levelNow, bkt, bexp, delayQueue, pollVars, hand, run, owned, chan,
                     stopVars, rest>>
  BY DEF Register
<1>2. \/ /\ shard' = shard \cup {t} /\ reg' = [reg EXCEPT ![t] = "add"] /\ active' = active
         /\ exp' = [exp EXCEPT ![t] = Now + IF Oneshot(t) THEN Delay[t] ELSE Period[t]]
      \/ active' = [active EXCEPT ![t] = FALSE] /\ reg' = [reg EXCEPT ![t] = "done"] /\ shard' = shard /\ exp' = exp
  BY DEF Register
<1>3. active[t] /\ t \notin shard
  BY <1>1 DEF WheelInv, RegInv
<1>4. /\ reg' \in [Timers -> {"new", "add", "check", "done"}] /\ reg'[t] \in {"add", "done"}
      /\ \A u \in Timers \ {t} : reg'[u] = reg[u]
      /\ active' \in [Timers -> BOOLEAN] /\ \A u \in Timers \ {t} : active'[u] = active[u]
      /\ shard' \subseteq Timers
      /\ reg'[t] = "add" => active'[t] /\ shard' = shard \cup {t}
      /\ reg'[t] = "done" => ~active'[t] /\ shard' = shard
  BY <1>2, <1>3 DEF WheelInv, WheelTypeOK
<1>5. exp' \in [Timers -> Nat]
  <2> DEFINE d == IF Oneshot(t) THEN Delay[t] ELSE Period[t]
  <2>1. d \in Nat
    BY WheelAssumption
  <2>2. exp' = exp \/ exp' = [exp EXCEPT ![t] = Now + d]
    BY <1>2
  <2>3. exp \in [Timers -> Nat]
    BY DEF WheelInv, WheelTypeOK
  <2> HIDE DEF d
  <2>4. Now + d \in Nat
    BY <2>1, NowNat
  <2>5. QED
    BY <2>2, <2>3, <2>4
<1>6. WheelTypeOK'
  BY <1>1, <1>4, <1>5 DEF WheelInv, WheelTypeOK, pollVars, stopVars, rest
<1>7. LevelsInv' /\ CoverInv' /\ PollInv' /\ RunsInv'
  BY <1>1 DEF WheelInv, LevelsInv, CoverInv, PollInv, RunsInv, Now, pollVars, stopVars
<1>8. RegInv'
  BY <1>3, <1>4 DEF WheelInv, RegInv
<1>9. OwnInv'
  <2>1. owned' \subseteq shard'
    BY <1>1, <1>4 DEF WheelInv, OwnInv
  <2>2. \A u \in shard' : u = t \/ (u # t /\ u \in shard /\ reg'[u] = reg[u])
    BY <1>4 DEF WheelInv, WheelTypeOK
  <2>3. t \in shard' => reg'[t] = "add"
    BY <1>3, <1>4
  <2>4. QED
    BY <1>1, <2>1, <2>2, <2>3 DEF WheelInv, OwnInv, stopVars
<1>10. \A u \in Timers : Entered(u) => Entered(u)'
  BY <1>1, <1>4 DEF Entered
<1>11. KnownInv'
  <2>1. /\ \A b \in Buckets : \A u \in bkt[b] : u \in Timers /\ Entered(u)
        /\ \A r \in run : r.t \in Timers /\ Entered(r.t)
        /\ \A i \in 1..Len(chan) : chan[i] \in Timers /\ Entered(chan[i])
    BY DEF WheelInv, KnownInv, ChanKnown, WheelTypeOK
  <2>2. QED
    BY <1>1, <1>10, <2>1 DEF KnownInv, ChanKnown
<1>12. KeptInv'
  <2> SUFFICES ASSUME twStop = "no", NEW u \in Timers, active'[u], Entered(u)'
               PROVE  u \in dropped \/ InWheel(u)' \/ InHands(u)'
    BY <1>1 DEF KeptInv, stopVars, rest
  <2>1. u # t
    BY <1>4 DEF Entered
  <2>2. active[u] /\ Entered(u)
    BY <1>4, <2>1 DEF Entered
  <2>3. u \in dropped \/ InWheel(u) \/ InHands(u)
    BY <2>2 DEF WheelInv, KeptInv
  <2>4. QED
    BY <1>1, <2>3 DEF InWheel, InHands
<1>13. QED
  BY <1>6, <1>7, <1>8, <1>9, <1>11, <1>12 DEF WheelInv

(***************************************************************************)
(* The Stop of the wheel.                                                  *)
(***************************************************************************)
LEMMA KnownStays ==
    ASSUME WheelInv, WheelTypeOK', UNCHANGED <<run, reg, chan>>, \A b \in Buckets : bkt'[b] \subseteq bkt[b]
    PROVE  KnownInv' /\ RunsInv'
<1>1. /\ \A b \in Buckets : \A u \in bkt[b] : u \in Timers /\ Entered(u)
      /\ \A r \in run : r.t \in Timers /\ Entered(r.t)
      /\ \A i \in 1..Len(chan) : chan[i] \in Timers /\ Entered(chan[i])
  BY DEF WheelInv, KnownInv, ChanKnown, WheelTypeOK
<1>2. \A t \in Timers : Entered(t) <=> Entered(t)'
  BY DEF Entered
<1>3. \A b \in Buckets : \A u \in bkt'[b] : Entered(u)'
  BY <1>1, <1>2
<1>4. QED
  BY <1>1, <1>2, <1>3 DEF WheelInv, KnownInv, ChanKnown, RunsInv

LEMMA WheelStopKeeps == ASSUME WheelInv, WheelStop PROVE WheelInv'
<1>1. /\ twStop = "no" /\ twStop' = "cancel" /\ victims' = owned /\ owned' = {}
      /\ bkt' = [b \in Buckets |-> {}] /\ bexp' = [b \in Buckets |-> -1]
      /\ UNCHANGED <<clock, offset, levelNow, delayQueue, pollVars, hand, run, reg, exp, active, shard,
                     chan, sdStop, rest>>
  BY DEF WheelStop
<1>2. /\ bkt' \in [Buckets -> SUBSET Timers] /\ \A b \in Buckets : bkt'[b] = {}
      /\ bexp' \in [Buckets -> Int] /\ \A b \in Buckets : bexp'[b] = -1
  BY <1>1
<1>3. WheelTypeOK'
  BY <1>1, <1>2 DEF WheelInv, WheelTypeOK, pollVars, rest
<1>4. LevelsInv' /\ RegInv' /\ PollInv' /\ KeptInv'
  BY <1>1 DEF WheelInv, LevelsInv, RegInv, PollInv, KeptInv, Now, pollVars
<1>5. OwnInv'
  BY <1>1 DEF WheelInv, OwnInv
<1>6. CoverInv'
  BY <1>2 DEF CoverInv
<1>7. KnownInv' /\ RunsInv'
  BY <1>1, <1>2, <1>3, KnownStays
<1>8. QED
  BY <1>3, <1>4, <1>5, <1>6, <1>7 DEF WheelInv

LEMMA WheelCancelKeeps == ASSUME WheelInv, WheelCancel PROVE WheelInv'
<1> DEFINE S == victims \cap shard
<1>1. /\ twStop = "cancel" /\ twStop' = "wait" /\ victims' = {}
      /\ UNCHANGED <<clock, offset, levelNow, bexp, delayQueue, pollVars, hand, run, reg, exp, chan, sdStop, rest>>
  BY DEF WheelCancel
<1>2. S \in SUBSET shard /\ StoppedTimers(S) /\ Unlink(S)
  BY CancelStops DEF WheelInv, WheelCancel
<1>3. /\ shard' = shard \ S /\ owned' = owned \ S
      /\ active' \in [Timers -> BOOLEAN] /\ \A t \in Timers : active'[t] = (active[t] /\ t \notin S)
      /\ bkt' \in [Buckets -> SUBSET Timers] /\ \A b \in Buckets : bkt'[b] = bkt[b] \ S
  BY <1>2, Stopped DEF WheelInv
<1>4. WheelTypeOK'
  BY <1>1, <1>3 DEF WheelInv, WheelTypeOK, pollVars, rest
<1>5. LevelsInv' /\ PollInv' /\ KeptInv'
  BY <1>1 DEF WheelInv, LevelsInv, PollInv, KeptInv, Now, pollVars
<1>6. RegInv'
  <2>1. S \subseteq Timers
    BY DEF WheelInv, WheelTypeOK
  <2>2. QED
    BY <1>1, <1>3, <2>1 DEF WheelInv, RegInv
<1>7. OwnInv'
  <2>1. \A t \in shard' : reg[t] = "add"
    <3>1. \A t \in shard : reg[t] # "add" => t \in victims
      BY <1>1 DEF WheelInv, OwnInv
    <3>2. QED
      BY <1>3, <3>1
  <2>2. owned' \subseteq shard'
    BY <1>3 DEF WheelInv, OwnInv
  <2>3. QED
    BY <1>1, <2>1, <2>2 DEF OwnInv
<1>8. CoverInv'
  BY <1>1, <1>3 DEF WheelInv, CoverInv, pollVars
<1>9. KnownInv' /\ RunsInv'
  BY <1>1, <1>3, <1>4, KnownStays
<1>10. QED
  BY <1>4, <1>5, <1>6, <1>7, <1>8, <1>9 DEF WheelInv

LEMMA WheelStoppedKeeps == ASSUME WheelInv, WheelStopped PROVE WheelInv'
<1>1. /\ twStop = "wait" /\ twStop' = "stopped" /\ delayQueue' = {}
      /\ UNCHANGED <<clock, offset, levelNow, bkt, bexp, pollVars, hand, run, reg, exp, active, shard,
                     owned, chan, sdStop, victims, rest>>
  BY DEF WheelStopped
<1>2. WheelTypeOK'
  BY <1>1 DEF WheelInv, WheelTypeOK, pollVars, rest
<1>3. LevelsInv' /\ RegInv' /\ PollInv' /\ KeptInv'
  BY <1>1 DEF WheelInv, LevelsInv, RegInv, PollInv, KeptInv, Now, pollVars
<1>4. OwnInv'
  BY <1>1 DEF WheelInv, OwnInv
<1>5. CoverInv'
  BY <1>1 DEF WheelInv, CoverInv, pollVars
<1>6. KnownInv' /\ RunsInv'
  BY <1>1, <1>2, KnownStays
<1>7. QED
  BY <1>2, <1>3, <1>4, <1>5, <1>6 DEF WheelInv

LEMMA WheelInitially == ASSUME WheelInit PROVE WheelInv
<1>1. /\ clock = 0 /\ offset = 0 /\ levelNow = [l \in WheelLevels |-> IF l = 1 THEN 0 ELSE -1]
      /\ bkt = [b \in Buckets |-> {}] /\ bexp = [b \in Buckets |-> -1] /\ delayQueue = {}
      /\ poll = [at |-> "check", until |-> -1, item |-> None] /\ sleeping = FALSE /\ wake = FALSE
      /\ hand = None /\ run = {} /\ reg = [t \in Timers |-> "new"]
      /\ exp = [t \in Timers |-> 0] /\ active = [t \in Timers |-> TRUE]
      /\ shard = {} /\ owned = {} /\ chan = <<>>
      /\ twStop = "no" /\ sdStop = FALSE /\ victims = {} /\ dropped = {} /\ async \in AsyncChoices
  BY DEF WheelInit
<1>2. levelNow \in [WheelLevels -> Int] /\ levelNow[1] = 0 /\ levelNow[2] = -1 /\ Now = 0
  BY <1>1 DEF WheelLevels, Now
<1>3. chan \in Seq(Timers) /\ Len(chan) = 0 /\ ChanSize \in Nat /\ clock \in Instants /\ async \subseteq Timers
  BY <1>1, WheelAssumption
<1>4. poll \in [at : {"check", "sleep", "send"}, until : Int, item : Buckets \cup {None}]
  BY <1>1
<1>5. WheelTypeOK
  <2>1. bkt \in [Buckets -> SUBSET Timers] /\ bexp \in [Buckets -> Int] /\ delayQueue \subseteq Buckets \X Nat
    BY <1>1
  <2>2. /\ reg \in [Timers -> {"new", "add", "check", "done"}] /\ exp \in [Timers -> Nat]
        /\ active \in [Timers -> BOOLEAN]
    BY <1>1
  <2>3. run \subseteq [t : Timers, by : {"reg", "loop", "offset"}, stage : {"run", "loop"}, due : Nat, at : Nat]
    BY <1>1
  <2>4. offset \in Int /\ hand \in Buckets \cup {None}
    BY <1>1
  <2>5. /\ shard \subseteq Timers /\ owned \subseteq Timers /\ victims \subseteq Timers /\ dropped \subseteq Timers
        /\ twStop \in {"no", "cancel", "wait", "stopped"}
    BY <1>1, Zenon
  <2>6. sleeping \in BOOLEAN /\ wake \in BOOLEAN /\ sdStop \in BOOLEAN
    <3>1. sleeping = FALSE /\ wake = FALSE /\ sdStop = FALSE
      BY <1>1, Zenon
    <3>2. QED
      BY <3>1, Zenon
  <2>7. Len(chan) <= ChanSize
    BY <1>3
  <2>8. QED
    BY <1>2, <1>3, <1>4, <2>1, <2>2, <2>3, <2>4, <2>5, <2>6, <2>7 DEF WheelTypeOK
<1>6. LevelsInv /\ RegInv /\ OwnInv /\ CoverInv /\ PollInv /\ RunsInv
  BY <1>1, <1>2 DEF LevelsInv, RegInv, OwnInv, CoverInv, PollInv, RunsInv
<1>7. KnownInv /\ KeptInv
  BY <1>1, <1>3 DEF KnownInv, ChanKnown, KeptInv, Entered
<1>8. QED
  BY <1>5, <1>6, <1>7 DEF WheelInv

LEMMA WheelNextKeeps == ASSUME WheelInv, [WheelNext]_wheelVars PROVE WheelInv'
<1>1. CASE UNCHANGED wheelVars
  <2>1. /\ UNCHANGED <<clock, offset, levelNow, bkt, bexp, delayQueue, poll, sleeping, wake, hand, run,
                       reg, exp, active>>
        /\ UNCHANGED <<shard, owned, chan, twStop, sdStop, victims, async, dropped>>
    BY <1>1 DEF wheelVars
  <2>2. WheelTypeOK' /\ LevelsInv' /\ CoverInv' /\ PollInv'
    BY <2>1 DEF WheelInv, WheelTypeOK, LevelsInv, CoverInv, PollInv, Now
  <2>3. QED
    BY <2>1, <2>2, TimersAlone DEF rest
<1>2. ASSUME NEW t \in Timers, Register(t) \/ RegisterAdd(t) \/ RegisterCheck(t) \/ CancelTimer(t) PROVE WheelInv'
  BY <1>2, RegisterKeeps, RegisterAddKeeps, RegisterCheckKeeps, CancelTimerKeeps
<1>3. ASSUME Machinery PROVE WheelInv'
  <2>1. ASSUME NEW r \in run, RunTimer(r) \/ Rearm(r) PROVE WheelInv'
    BY <2>1, RunTimerKeeps, RearmKeeps
  <2>2. QED
    BY <1>3, <2>1, PollTakeKeeps, PollSleepKeeps, PollWakeKeeps, PollSendKeeps, FlushBucketKeeps DEF Machinery
<1>4. ASSUME NEW o \in Offsets, SetTimeOffset(o) PROVE WheelInv'
  BY <1>4, SetTimeOffsetKeeps
<1>5. CASE WheelNext
  BY <1>2, <1>3, <1>4, <1>5, AdvanceKeeps, DoKeeps, SchedulerStopKeeps, WheelStopKeeps, WheelCancelKeeps,
     WheelStoppedKeeps DEF WheelNext
<1>6. QED
  BY <1>1, <1>5

\* What the invariant is for.
LEMMA WheelInvSound == ASSUME WheelInv PROVE TimersSound
<1>1. WheelTypeOK
  BY DEF WheelInv
<1>2. NotEarly
  BY DEF WheelInv, RunsInv, NotEarly
<1>3. TimerKept
  <2> SUFFICES ASSUME NEW t \in Timers, reg[t] = "done", active[t], ~twClosed PROVE Held(t) \/ t \in dropped
    BY DEF TimerKept
  <2>1. t \in dropped \/ InWheel(t) \/ InHands(t)
    BY DEF WheelInv, KeptInv, Entered, twClosed
  <2>2. CASE InWheel(t)
    <3>1. PICK b \in Buckets : t \in bkt[b]
      BY <2>2 DEF InWheel
    <3>2. Covered(b)
      BY <3>1 DEF WheelInv, CoverInv, Covered, twClosed
    <3>3. QED
      BY <3>1, <3>2 DEF Held
  <2>3. CASE InHands(t)
    <3>1. DOMAIN chan = 1..Len(chan)
      BY <1>1 DEF WheelTypeOK
    <3>2. QED
      BY <2>3, <3>1 DEF InHands, Held
  <2>4. QED
    BY <2>1, <2>2, <2>3
<1>4. StopCancelsAll
  <2> SUFFICES ASSUME twStop = "stopped", \A t \in Timers : reg[t] \in {"new", "done"}
               PROVE  shard = {} /\ owned = {} /\ \A t \in Timers : reg[t] = "done" => ~active[t]
    BY DEF StopCancelsAll
  <2>1. shard = {}
    <3>1. \A t \in shard : t \in Timers /\ reg[t] # "add"
      BY <1>1 DEF WheelTypeOK
    <3>2. QED
      BY <3>1 DEF WheelInv, OwnInv
  <2>2. QED
    BY <2>1 DEF WheelInv, OwnInv, RegInv
<1>5. QED
  BY <1>1, <1>2, <1>3, <1>4 DEF TimersSound

\* However timers are registered, run, rearmed, cancelled, shifted in time and stopped: none runs early, none that
\* goes on is lost, and Stop leaves none.
THEOREM TimersSoundHolds == WheelSpec => []TimersSound
<1>1. WheelInv /\ [WheelNext]_wheelVars => WheelInv'
  BY WheelNextKeeps
<1>2. WheelInv => TimersSound
  BY WheelInvSound
<1>3. WheelInit => WheelInv
  BY WheelInitially
<1>4. QED
  BY <1>1, <1>2, <1>3, PTL DEF WheelSpec

(***************************************************************************)
(* The limiters of published events.  The inductive invariant says that an *)
(* epoch between two resets has one limiter, that the tokens a bucket has  *)
(* left and the events it let through since any of them stay within its    *)
(* capacity and what was refilled meanwhile, and that the windows of two   *)
(* successive seconds account for every event from the first of them on.   *)
(***************************************************************************)
\* A sum over the windows of at most two seconds.  SumFunction is a fold; over two indices the
\* function its recursion defines exists, and is unfolded.
AnyOf(s) == CHOOSE x \in s : TRUE
SumStep(w, h, s) == IF s = {} THEN 0 ELSE w[AnyOf(s)] + h[s \ {AnyOf(s)}]
SumIter(w, S) == CHOOSE h : h = [s \in SUBSET S |-> SumStep(w, h, s)]
LEMMA SumIsIter == ASSUME NEW w PROVE SumFunction(w) = SumIter(w, DOMAIN w)[DOMAIN w]
BY DEF SumFunction, SumFunctionOnSet, FoldFunctionOnSet, MapThenFoldSet, SumIter, SumStep, AnyOf

LEMMA IterUnfolds ==
  ASSUME NEW a, NEW b, NEW S, S \subseteq {a, b}, NEW w \in [S -> Int]
  PROVE  \A s \in SUBSET S : SumIter(w, S)[s] = SumStep(w, SumIter(w, S), s)
<1> DEFINE G(h) == [s \in SUBSET S |-> SumStep(w, h, s)]
           k == G(G(G([s \in SUBSET S |-> 0])))
<1>1. \A s \in SUBSET S : s # {} => AnyOf(s) \in s
  BY DEF AnyOf
<1>2. k = G(k)
  <2>1. ASSUME NEW s \in SUBSET S, s # {} PROVE s \ {AnyOf(s)} \in SUBSET S
    OBVIOUS
  <2>2. ASSUME NEW s \in SUBSET S, NEW h, NEW g, h[s \ {AnyOf(s)}] = g[s \ {AnyOf(s)}]
        PROVE SumStep(w, h, s) = SumStep(w, g, s)
    BY <2>2 DEF SumStep
  <2> DEFINE z == [s \in SUBSET S |-> 0]
  <2>3. G(z)[{}] = 0 /\ \A h : G(h)[{}] = 0
    BY DEF SumStep
  <2>4. ASSUME NEW s \in SUBSET S, NEW h, NEW g, s # {} => s \ {AnyOf(s)} = {}
        PROVE G(G(h))[s] = G(G(g))[s]
    <3>1. G(h)[{}] = 0 /\ G(g)[{}] = 0
      BY <2>3
    <3> HIDE DEF G
    <3>2. SumStep(w, G(h), s) = SumStep(w, G(g), s)
      BY <2>4, <3>1 DEF SumStep
    <3>3. QED
      BY <3>2 DEF G
  <2>5. ASSUME NEW s \in SUBSET S PROVE G(G(G(z)))[s] = G(k)[s]
    <3> DEFINE r == s \ {AnyOf(s)}
    <3>1. CASE s = {}
      BY <3>1, <2>3
    <3>2. CASE s # {}
      <4>1. r \in SUBSET S /\ (r # {} => r \ {AnyOf(r)} = {})
        BY <1>1, <3>2
      <4>2. G(G(z))[r] = G(G(G(z)))[r]
        BY <2>4, <4>1
      <4>3. SumStep(w, G(G(z)), s) = SumStep(w, G(G(G(z))), s)
        BY <2>2, <4>2
      <4>4. QED
        BY <4>3
    <3>3. QED
      BY <3>1, <3>2
  <2>6. QED
    BY <2>5
<1>3. \E h : h = G(h)
  <2> HIDE DEF k, G
  <2> QED
    BY <1>2
<1>4. SumIter(w, S) = G(SumIter(w, S))
  BY <1>3 DEF SumIter
<1> HIDE DEF k
<1>5. QED
  BY <1>4


PairSum(w, S, a, b) == (IF a \in S THEN w[a] ELSE 0) + (IF b \in S THEN w[b] ELSE 0)
LEMMA SumOfTwo ==
  ASSUME NEW a, NEW b, a # b, NEW S \in SUBSET {a, b}, NEW w \in [S -> Int]
  PROVE  SumFunction(w) = PairSum(w, S, a, b)
<1> SUFFICES SumFunction(w) = (IF a \in S THEN w[a] ELSE 0) + (IF b \in S THEN w[b] ELSE 0)
  BY DEF PairSum
<1>0. \A s \in SUBSET S : SumIter(w, S)[s] = SumStep(w, SumIter(w, S), s)
  BY IterUnfolds
<1> DEFINE I == SumIter(w, S)
<1>1. \A s \in SUBSET S : I[s] = SumStep(w, I, s)
  BY <1>0
<1>2. SumFunction(w) = I[S]
  BY SumIsIter
<1> HIDE DEF I
<1>3. I[{}] = 0
  BY <1>1 DEF SumStep
<1>4. ASSUME NEW x \in S PROVE I[{x}] = w[x]
  <2>1. AnyOf({x}) = x
    BY DEF AnyOf
  <2>2. I[{x}] = w[x] + I[{}]
    BY <1>1, <2>1 DEF SumStep
  <2>3. QED
    BY <1>3, <2>2
<1>5. CASE S = {a, b}
  <2>1. AnyOf(S) = a \/ AnyOf(S) = b
    BY <1>5 DEF AnyOf
  <2>2. I[S] = w[AnyOf(S)] + I[S \ {AnyOf(S)}]
    BY <1>1, <1>5 DEF SumStep
  <2>3. I[{a}] = w[a] /\ I[{b}] = w[b] /\ w[a] \in Int /\ w[b] \in Int
    BY <1>4, <1>5
  <2>4. CASE AnyOf(S) = a
    <3>1. S \ {a} = {b}
      BY <1>5
    <3>2. SumFunction(w) = w[a] + w[b]
      BY <1>2, <2>2, <2>3, <2>4, <3>1
    <3>3. QED
      BY <1>5, <3>2
  <2>5. CASE AnyOf(S) = b
    <3>1. S \ {b} = {a}
      BY <1>5
    <3>2. SumFunction(w) = w[b] + w[a]
      BY <1>2, <2>2, <2>3, <2>5, <3>1
    <3>3. QED
      BY <1>5, <2>3, <3>2
  <2>6. QED
    BY <2>1, <2>4, <2>5
<1>6. CASE S # {a, b}
  <2>1. S = {} \/ S = {a} \/ S = {b}
    BY <1>6
  <2>2. CASE S = {}
    BY <1>2, <1>3, <2>2
  <2>3. CASE S = {a}
    <3>1. SumFunction(w) = w[a] /\ w[a] \in Int
      BY <1>2, <1>4, <2>3
    <3>2. QED
      BY <2>3, <3>1
  <2>4. CASE S = {b}
    <3>1. SumFunction(w) = w[b] /\ w[b] \in Int
      BY <1>2, <1>4, <2>4
    <3>2. QED
      BY <2>4, <3>1
  <2>5. QED
    BY <2>1, <2>2, <2>3, <2>4
<1>7. QED
  BY <1>5, <1>6

Limiters == [tokens : Nat, lastRefill : Nat, windows : UNION {[D -> Nat] : D \in SUBSET Nat}, epoch : 0..MaxResets]
ThrTypeOK ==
    /\ category \in {"critical", "metrics", "other"} /\ now \in Nat
    /\ limiters \in Seq(Limiters) /\ limiter \in 0..Len(limiters)
    /\ resets \in 0..MaxResets
    /\ grants \in [0..MaxResets -> Seq(Nat)]
    /\ \A c \in Waiters : caller[c].at = "allow" => caller[c].lim \in 1..Len(limiters)
    /\ DOMAIN caller = Waiters
EpochInv ==
    /\ \A k, m \in 1..Len(limiters) : limiters[k].epoch = limiters[m].epoch => k = m
    /\ \A k \in 1..Len(limiters) : limiters[k].epoch <= resets /\ (limiter = 0 => limiters[k].epoch < resets)
    /\ \A r \in 0..MaxResets : (\A k \in 1..Len(limiters) : limiters[k].epoch # r) => grants[r] = <<>>
InWindow(l, s) == IF s \in DOMAIN l.windows THEN l.windows[s] ELSE 0
TokensSound(l, g) ==
    /\ l.tokens <= Capacity /\ l.lastRefill <= now
    /\ \A i \in 1..Len(g) :
          /\ g[i] <= l.lastRefill
          /\ Len(g) - i + 1 + l.tokens <= Capacity + ((l.lastRefill - g[i]) * MaxFrequency) \div Second
Sec == now \div Second
WindowsSound(l, g) ==
    /\ DOMAIN l.windows \subseteq 0..Sec
    /\ \A i \in 1..Len(g) :
          /\ g[i] <= now
          /\ g[i] \div Second >= Sec - 1 =>
                Len(g) - i + 1 <= InWindow(l, g[i] \div Second) + InWindow(l, g[i] \div Second + 1)
LimiterSound(l, g) == IF category = "metrics" THEN WindowsSound(l, g) ELSE TokensSound(l, g)
LimitersInv == \A k \in 1..Len(limiters) : LimiterSound(limiters[k], grants[limiters[k].epoch])
WithinRate(g) ==
    \A i, j \in 1..Len(g) : i <= j =>
        LET span == g[j] - g[i]
        IN  IF category = "metrics" THEN span <= Second => j - i + 1 <= MaxFrequency
            ELSE j - i + 1 <= Capacity + (span * MaxFrequency) \div Second
ThrInv ==
    /\ ThrTypeOK /\ EpochInv /\ LimitersInv
    /\ \A r \in 0..MaxResets : WithinRate(grants[r])

\* Arithmetic of whole seconds and of whole tokens.
LEMMA WholeParts ==
    ASSUME NEW x \in Int, NEW m \in Nat \ {0}
    PROVE  x \div m \in Int /\ m * (x \div m) <= x /\ x < m * (x \div m) + m
OBVIOUS
LEMMA LeastWhole ==
    ASSUME NEW m \in Nat \ {0}, NEW x \in Int, NEW y \in Int, m * x < m * y
    PROVE  x < y
OBVIOUS
LEMMA Distributes ==
    ASSUME NEW m \in Int, NEW x \in Int, NEW y \in Int
    PROVE  m * (x + y) = m * x + m * y /\ (x + y) * m = x * m + y * m /\ m * x \in Int /\ x * m \in Int
OBVIOUS

LEMMA WholesAdd ==
    ASSUME NEW m \in Nat \ {0}, NEW x \in Int, NEW y \in Int
    PROVE  x \div m + y \div m <= (x + y) \div m
<1> DEFINE p == x \div m
           q == y \div m
           r == (x + y) \div m
<1>1. p \in Int /\ q \in Int /\ r \in Int /\ m * p <= x /\ m * q <= y /\ x + y < m * r + m
  BY WholeParts
<1> HIDE DEF p, q, r
<1>2. m * (p + q) = m * p + m * q /\ m * (r + 1) = m * r + m * 1
  BY <1>1, Distributes
<1>3. m * p \in Int /\ m * q \in Int /\ m * r \in Int /\ m * 1 = m
  BY <1>1, Distributes
<1>4. m * (p + q) < m * (r + 1)
  BY <1>1, <1>2, <1>3
<1>5. p + q < r + 1
  BY <1>1, <1>4, LeastWhole
<1>6. QED
  BY <1>1, <1>5 DEF p, q, r

LEMMA WholesGrow ==
    ASSUME NEW m \in Nat \ {0}, NEW x \in Int, NEW y \in Int, x <= y
    PROVE  x \div m <= y \div m
<1> DEFINE p == x \div m
           r == y \div m
<1>1. p \in Int /\ r \in Int /\ m * p <= x /\ y < m * r + m
  BY WholeParts
<1> HIDE DEF p, r
<1>2. m * (r + 1) = m * r + m * 1 /\ m * p \in Int /\ m * r \in Int /\ m * 1 = m
  BY <1>1, Distributes
<1>3. m * p < m * (r + 1)
  BY <1>1, <1>2
<1>4. p < r + 1
  BY <1>1, <1>3, LeastWhole
<1>5. QED
  BY <1>1, <1>4 DEF p, r

LEMMA NextWhole == ASSUME NEW m \in Nat \ {0}, NEW x \in Nat PROVE (x + 1) \div m <= x \div m + 1
<1> DEFINE p == x \div m
           r == (x + 1) \div m
<1>1. p \in Int /\ r \in Int /\ x < m * p + m /\ m * r <= x + 1 /\ m * p <= x
  BY WholeParts
<1> HIDE DEF p, r
<1>2. m * (p + 2) = m * p + m * 2 /\ m * p \in Int /\ m * r \in Int /\ m * 2 = m + m
  BY <1>1, Distributes
<1>3. m * r < m * (p + 2)
  BY <1>1, <1>2
<1>4. r < p + 2
  BY <1>1, <1>3, LeastWhole
<1>5. QED
  BY <1>1, <1>4 DEF p, r

LEMMA WholeBefore ==
    ASSUME NEW m \in Nat \ {0}, NEW x \in Int
    PROVE  (x - m) \div m = x \div m - 1
<1> DEFINE p == x \div m
           r == (x - m) \div m
<1>1. p \in Int /\ r \in Int /\ m * p <= x /\ x < m * p + m /\ m * r <= x - m /\ x - m < m * r + m
  BY WholeParts
<1> HIDE DEF p, r
<1>2. m * (p + 1) = m * p + m * 1 /\ m * (r + 1) = m * r + m * 1 /\ m * (r + 2) = m * r + m * 2
  BY <1>1, Distributes
<1>3. m * p \in Int /\ m * r \in Int /\ m * 1 = m /\ m * 2 = m + m
  BY <1>1, Distributes
<1>4. m * (r + 1) < m * (p + 1) /\ m * p < m * (r + 2)
  BY <1>1, <1>2, <1>3
<1>5. r + 1 < p + 1 /\ p < r + 2
  BY <1>1, <1>4, LeastWhole
<1>6. QED
  BY <1>1, <1>5 DEF p, r

LEMMA ThrConstants ==
    ASSUME ThrTypeOK
    PROVE  /\ Second \in Nat \ {0} /\ MaxFrequency \in Nat \ {0} /\ Capacity \in Nat \ {0}
           /\ now \in Nat /\ Sec \in Nat
<1>1. Sec \in Nat
  <2> DEFINE q == now \div Second
  <2>1. Second \in Nat \ {0} /\ now \in Nat /\ q \in Int /\ now < Second * q + Second
    BY ThrottleAssumption, WholeParts DEF ThrTypeOK
  <2> HIDE DEF q
  <2>2. Second * (q + 1) = Second * q + Second /\ Second * 0 = 0 /\ Second * q \in Int
    BY <2>1, Distributes
  <2>3. Second * 0 < Second * (q + 1)
    BY <2>1, <2>2
  <2>4. 0 < q + 1
    BY <2>1, <2>3, LeastWhole
  <2>5. QED
    BY <2>1, <2>4 DEF q, Sec
<1>2. QED
  BY <1>1, ThrottleAssumption DEF ThrTypeOK, Capacity

LEMMA LimiterFacts ==
    ASSUME ThrTypeOK, NEW k \in 1..Len(limiters)
    PROVE  LET l == limiters[k] IN
           /\ l \in Limiters /\ l.epoch \in 0..MaxResets /\ l.tokens \in Nat /\ l.lastRefill \in Nat
           /\ DOMAIN l.windows \subseteq Nat /\ l.windows \in [DOMAIN l.windows -> Nat]
           /\ grants[l.epoch] \in Seq(Nat)
<1> DEFINE l == limiters[k]
<1>1. l \in Limiters
  BY DEF ThrTypeOK
<1> HIDE DEF l
<1>2. l.epoch \in 0..MaxResets /\ l.tokens \in Nat /\ l.lastRefill \in Nat
  BY <1>1 DEF Limiters
<1>3. \E D \in SUBSET Nat : l.windows \in [D -> Nat]
  BY <1>1 DEF Limiters
<1>4. DOMAIN l.windows \subseteq Nat /\ l.windows \in [DOMAIN l.windows -> Nat]
  BY <1>3
<1>5. grants[l.epoch] \in Seq(Nat)
  BY <1>2 DEF ThrTypeOK
<1>6. QED
  BY <1>1, <1>2, <1>4, <1>5 DEF l

LEMMA ThrInitially == ThrottleInit => ThrInv
<1> SUFFICES ASSUME ThrottleInit PROVE ThrInv
  OBVIOUS
<1>1. limiters = <<>> /\ Len(limiters) = 0 /\ \A r \in 0..MaxResets : grants[r] = <<>> /\ Len(grants[r]) = 0
  BY DEF ThrottleInit
<1>2. ThrTypeOK
  BY <1>1, ThrottleAssumption DEF ThrottleInit, ThrTypeOK
<1>3. QED
  BY <1>1, <1>2 DEF ThrInv, EpochInv, LimitersInv, WithinRate

\* The limiters, their history and the clock's second say all of the invariant but the types.
LEMMA TimePassesKeeps == ASSUME ThrInv, TimePasses PROVE ThrInv'
<1>1. ThrTypeOK'
  BY DEF ThrInv, ThrTypeOK, TimePasses
<1>2. EpochInv'
  BY DEF ThrInv, EpochInv, TimePasses
<1>3. Capacity' = Capacity
  BY DEF TimePasses, Capacity
<1>4. (\A r \in 0..MaxResets : WithinRate(grants[r]))'
  BY <1>3 DEF ThrInv, WithinRate, TimePasses
<1>5. ASSUME NEW k \in 1..Len(limiters) PROVE LimiterSound(limiters[k], grants[limiters[k].epoch])'
  <2> DEFINE l == limiters[k]
             g == grants[l.epoch]
             q == Sec
             p == (now + 1) \div Second
  <2>1. /\ q \in Nat /\ p \in Nat /\ p <= q + 1 /\ q <= p /\ now \in Nat /\ now' = now + 1
        /\ Second \in Nat \ {0}
    <3>1. q \in Nat /\ now \in Nat /\ now' = now + 1 /\ Second \in Nat \ {0}
      BY ThrConstants DEF ThrInv, TimePasses
    <3>2. p <= q + 1 /\ q <= p /\ p \in Int
      BY <3>1, NextWhole, WholesGrow, WholeParts DEF Sec
    <3>3. QED
      BY <3>1, <3>2
  <2>2. LimiterSound(l, g) /\ l.lastRefill \in Nat /\ g \in Seq(Nat)
    BY LimiterFacts DEF ThrInv, LimitersInv
  <2>3. UNCHANGED <<category, limiters, grants>>
    BY DEF TimePasses
  <2>4. CASE category # "metrics"
    <3>1. TokensSound(l, g)
      BY <2>2, <2>4 DEF LimiterSound
    <3>2. l.lastRefill \in Nat
      BY <2>2
    <3> HIDE DEF l, g, q, p
    <3>3. l.lastRefill <= now + 1
      BY <2>1, <3>1, <3>2 DEF TokensSound
    <3>4. TokensSound(l, g)'
      BY <1>3, <2>1, <2>3, <3>1, <3>3 DEF TokensSound, l, g
    <3>5. QED
      BY <2>3, <2>4, <3>4 DEF LimiterSound, l, g
  <2>5. CASE category = "metrics"
    <3>1. WindowsSound(l, g)
      BY <2>2, <2>5 DEF LimiterSound
    <3>2. DOMAIN l.windows \subseteq 0..q
      BY <3>1 DEF WindowsSound
    <3>3. ASSUME NEW i \in 1..Len(g)
          PROVE  /\ g[i] <= now + 1
                 /\ g[i] \div Second >= p - 1 =>
                       Len(g) - i + 1 <= InWindow(l, g[i] \div Second) + InWindow(l, g[i] \div Second + 1)
      <4>1. /\ g[i] <= now
            /\ g[i] \div Second >= q - 1 =>
                  Len(g) - i + 1 <= InWindow(l, g[i] \div Second) + InWindow(l, g[i] \div Second + 1)
        BY <3>1 DEF WindowsSound
      <4>2. g[i] \in Nat /\ g[i] \div Second \in Int
        <5>1. g[i] \in Nat
          BY <2>2, ElementOfSeq
        <5> HIDE DEF l, g, q, p
        <5>2. QED
          BY <2>1, <5>1, WholeParts
      <4> HIDE DEF l, g, q, p
      <4>3. QED
        BY <2>1, <4>1, <4>2
    <3> HIDE DEF l, g
    <3>4. DOMAIN l.windows \subseteq 0..p
      <4> HIDE DEF q, p
      <4> QED
        BY <2>1, <3>2
    <3>5. l' = l /\ g' = g /\ Sec' = p /\ now' = now + 1
      BY <2>1, <2>3 DEF l, g, Sec
    <3>6. WindowsSound(l, g)'
      BY <3>3, <3>4, <3>5 DEF WindowsSound, InWindow
    <3>7. QED
      BY <2>3, <2>5, <3>6 DEF LimiterSound, l, g
  <2>6. QED
    BY <2>4, <2>5
<1>6. Len(limiters)' = Len(limiters)
  BY DEF TimePasses
<1>7. QED
  BY <1>1, <1>2, <1>4, <1>5, <1>6 DEF ThrInv, LimitersInv

\* What leaves clock, category, limiters and history alone keeps what is said of them.
LEMMA QuietKeeps ==
    ASSUME ThrInv, UNCHANGED <<category, now, limiters, grants>>
    PROVE  /\ LimitersInv' /\ (\A r \in 0..MaxResets : WithinRate(grants[r]))'
<1>1. Capacity' = Capacity
  BY DEF Capacity
<1>2. (\A r \in 0..MaxResets : WithinRate(grants[r]))'
  BY <1>1 DEF ThrInv, WithinRate
<1>3. LimitersInv'
  <2>1. ASSUME NEW k \in 1..Len(limiters) PROVE LimiterSound(limiters[k], grants[limiters[k].epoch])'
    <3>1. LimiterSound(limiters[k], grants[limiters[k].epoch])
      BY DEF ThrInv, LimitersInv
    <3>2. TokensSound(limiters[k], grants[limiters[k].epoch]) =>
              TokensSound(limiters[k], grants[limiters[k].epoch])'
      BY <1>1 DEF TokensSound
    <3>3. WindowsSound(limiters[k], grants[limiters[k].epoch]) =>
              WindowsSound(limiters[k], grants[limiters[k].epoch])'
      BY DEF WindowsSound, InWindow, Sec
    <3>4. CASE category = "metrics"
      BY <3>1, <3>3, <3>4 DEF LimiterSound
    <3>5. CASE category # "metrics"
      BY <3>1, <3>2, <3>5 DEF LimiterSound
    <3>6. QED
      BY <3>4, <3>5
  <2>2. Len(limiters') = Len(limiters)
    OBVIOUS
  <2>3. QED
    BY <2>1, <2>2 DEF LimitersInv
<1>4. QED
  BY <1>2, <1>3

LEMMA LookupKeeps == ASSUME ThrInv, NEW c \in Waiters, Lookup(c) PROVE ThrInv'
<1>1. LimitersInv' /\ (\A r \in 0..MaxResets : WithinRate(grants[r]))'
  BY QuietKeeps DEF Lookup
<1>2. ThrTypeOK'
  BY DEF ThrInv, ThrTypeOK, Lookup
<1>3. EpochInv'
  BY DEF ThrInv, EpochInv, Lookup
<1>4. QED
  BY <1>1, <1>2, <1>3 DEF ThrInv

LEMMA ResetKeeps == ASSUME ThrInv, Reset PROVE ThrInv'
<1>1. LimitersInv' /\ (\A r \in 0..MaxResets : WithinRate(grants[r]))'
  BY QuietKeeps DEF Reset
<1>2. ThrTypeOK'
  BY ThrottleAssumption DEF ThrInv, ThrTypeOK, Reset
<1>3. EpochInv'
  <2>1. \A k \in 1..Len(limiters) : limiters[k].epoch \in Nat
    BY LimiterFacts DEF ThrInv
  <2>2. resets \in Nat /\ resets' = resets + 1 /\ UNCHANGED <<limiters, grants>>
    BY DEF ThrInv, ThrTypeOK, Reset
  <2>3. QED
    BY <2>1, <2>2 DEF ThrInv, EpochInv
<1>4. QED
  BY <1>1, <1>2, <1>3 DEF ThrInv

LEMMA CreateKeeps == ASSUME ThrInv, NEW c \in Waiters, CreateLimiter(c) PROVE ThrInv'
<1>1. CASE limiter # 0
  <2>1. UNCHANGED <<category, now, limiter, limiters, resets, grants>>
    BY <1>1 DEF CreateLimiter
  <2>2. LimitersInv' /\ (\A r \in 0..MaxResets : WithinRate(grants[r]))'
    BY <2>1, QuietKeeps
  <2>3. EpochInv'
    BY <2>1 DEF ThrInv, EpochInv
  <2>4. ThrTypeOK'
    BY <1>1, <2>1 DEF ThrInv, ThrTypeOK, CreateLimiter
  <2>5. QED
    BY <2>2, <2>3, <2>4 DEF ThrInv
<1>2. CASE limiter = 0
  <2> DEFINE n == Len(limiters)
             new == NewLimiter
  <2>1. /\ limiters' = Append(limiters, new) /\ limiter' = n + 1 /\ n \in Nat
        /\ UNCHANGED <<category, now, resets, grants>>
        /\ caller' = [caller EXCEPT ![c] = [at |-> "allow", lim |-> limiter']]
    BY <1>2 DEF CreateLimiter, ThrInv, ThrTypeOK
  <2>2. /\ new \in Limiters /\ new.epoch = resets /\ new.tokens = Capacity /\ new.lastRefill = now
        /\ DOMAIN new.windows = {}
    <3>1. [s \in {} |-> 0] \in [{} -> Nat]
      OBVIOUS
    <3>2. [s \in {} |-> 0] \in UNION {[D -> Nat] : D \in SUBSET Nat}
      BY <3>1
    <3>3. QED
      BY <3>2, ThrConstants DEF NewLimiter, Limiters, ThrInv, ThrTypeOK
  <2> HIDE DEF new
  <2>3. /\ limiters' \in Seq(Limiters) /\ Len(limiters') = n + 1 /\ limiters'[n + 1] = new
        /\ \A k \in 1..n : limiters'[k] = limiters[k]
    BY <2>1, <2>2 DEF ThrInv, ThrTypeOK
  <2> HIDE DEF n
  <2>4. ThrTypeOK'
    BY <2>1, <2>3 DEF ThrInv, ThrTypeOK, n
  <2>5. \A k \in 1..n : limiters[k].epoch < resets /\ limiters[k].epoch \in Nat /\ resets \in Nat
    BY <1>2, LimiterFacts DEF ThrInv, EpochInv, n, ThrTypeOK
  <2>6. grants[resets] = <<>>
    BY <2>5 DEF ThrInv, EpochInv, n, ThrTypeOK
  <2>7. EpochInv'
    <3>1. \A k \in 1..(n + 1) : k \in 1..n \/ k = n + 1
      BY <2>1
    <3>2. \A k, m \in 1..Len(limiters)' : limiters'[k].epoch = limiters'[m].epoch => k = m
      BY <2>2, <2>3, <2>5, <3>1 DEF ThrInv, EpochInv, n
    <3>3. \A k \in 1..Len(limiters)' : limiters'[k].epoch <= resets' /\ limiter' # 0
      <4>1. resets \in Nat /\ resets' = resets /\ limiter' # 0
        BY <2>1 DEF ThrInv, ThrTypeOK
      <4>2. \A k \in 1..(n + 1) : limiters'[k].epoch <= resets
        BY <2>2, <2>3, <2>5, <3>1, <4>1
      <4>3. QED
        BY <2>3, <4>1, <4>2
    <3>4. ASSUME NEW r \in 0..MaxResets, \A k \in 1..Len(limiters)' : limiters'[k].epoch # r
          PROVE  grants'[r] = <<>>
      <4>1. \A k \in 1..n : limiters[k].epoch # r
        BY <2>1, <2>3, <3>4
      <4>2. QED
        BY <2>1, <4>1 DEF ThrInv, EpochInv, n
    <3>5. QED
      BY <3>2, <3>3, <3>4 DEF EpochInv
  <2>8. Capacity' = Capacity
    BY <2>1 DEF Capacity
  <2>9. (\A r \in 0..MaxResets : WithinRate(grants[r]))'
    BY <2>1, <2>8 DEF ThrInv, WithinRate
  <2>10. ASSUME NEW k \in 1..(n + 1) PROVE LimiterSound(limiters[k], grants[limiters[k].epoch])'
    <3>1. CASE k = n + 1
      <4>1. Len(grants[resets]) = 0 /\ grants' = grants /\ now' = now /\ limiters'[k] = new /\ now \in Nat
        BY <2>1, <2>3, <2>6, <3>1 DEF ThrInv, ThrTypeOK
      <4>2. Capacity <= Capacity /\ now <= now
        BY <4>1, ThrConstants DEF ThrInv
      <4>3. TokensSound(limiters[k], grants[limiters[k].epoch])'
        BY <2>1, <2>2, <2>8, <4>1, <4>2 DEF TokensSound
      <4>4. WindowsSound(limiters[k], grants[limiters[k].epoch])'
        BY <2>1, <2>2, <4>1 DEF WindowsSound
      <4>5. QED
        BY <4>3, <4>4 DEF LimiterSound
    <3>2. CASE k \in 1..n
      <4>1. LimiterSound(limiters[k], grants[limiters[k].epoch])
        BY <3>2 DEF ThrInv, LimitersInv, n
      <4>2. limiters'[k] = limiters[k] /\ UNCHANGED <<category, now, grants>>
        BY <2>1, <2>3, <3>2
      <4>3. TokensSound(limiters[k], grants[limiters[k].epoch]) =>
                TokensSound(limiters[k], grants[limiters[k].epoch])'
        BY <2>8, <4>2 DEF TokensSound
      <4>4. WindowsSound(limiters[k], grants[limiters[k].epoch]) =>
                WindowsSound(limiters[k], grants[limiters[k].epoch])'
        BY <4>2 DEF WindowsSound, InWindow, Sec
      <4>5. CASE category = "metrics"
        BY <4>1, <4>2, <4>4, <4>5 DEF LimiterSound
      <4>6. CASE category # "metrics"
        BY <4>1, <4>2, <4>3, <4>6 DEF LimiterSound
      <4>7. QED
        BY <4>5, <4>6
    <3>3. n \in Nat
      BY <2>1
    <3>4. k = n + 1 \/ k \in 1..n
      BY <3>3
    <3>5. QED
      BY <3>1, <3>2, <3>4
  <2>11. LimitersInv'
    BY <2>3, <2>10 DEF LimitersInv
  <2>12. QED
    BY <2>4, <2>7, <2>9, <2>11 DEF ThrInv
<1>3. QED
  BY <1>1, <1>2

LEMMA FunctionsAreSeqs ==
    ASSUME NEW S, NEW n \in Nat, NEW f \in [1..n -> S]
    PROVE  f \in Seq(S) /\ Len(f) = n
<1>1. f \in Seq(S)
  BY SeqDef
<1>2. QED
  BY <1>1, LenProperties

\* An answer: the limiter l takes the place of the caller's, n events are let through.
LEMMA AnsweredKeeps ==
    ASSUME ThrInv, NEW c \in Waiters, NEW n \in Nat, NEW l \in Limiters, Answered(c, l, n),
           caller[c].at = "allow", l.epoch = limiters[caller[c].lim].epoch,
           NEW g, g = grants[l.epoch] \o [i \in 1..n |-> now],
           LimiterSound(l, g), WithinRate(g)
    PROVE  ThrInv'
<1> DEFINE k == caller[c].lim
           r == l.epoch
<1>1. /\ k \in 1..Len(limiters) /\ limiters' = [limiters EXCEPT ![k] = l] /\ r \in 0..MaxResets
      /\ grants' = [grants EXCEPT ![r] = @ \o [i \in 1..n |-> now]]
      /\ UNCHANGED <<category, now, limiter, resets>>
      /\ caller' = [caller EXCEPT ![c] = [at |-> "idle", lim |-> 0]]
  BY DEF Answered, ThrInv, ThrTypeOK, Limiters
<1> HIDE DEF k
<1>2. grants' = [grants EXCEPT ![r] = g] /\ grants \in [0..MaxResets -> Seq(Nat)]
  BY <1>1 DEF ThrInv, ThrTypeOK
<1>3. g \in Seq(Nat)
  <2>1. now \in Nat /\ grants[r] \in Seq(Nat)
    BY <1>1 DEF ThrInv, ThrTypeOK
  <2>2. [i \in 1..n |-> now] \in Seq(Nat)
    <3>1. [i \in 1..n |-> now] \in [1..n -> Nat]
      BY <2>1
    <3>2. QED
      BY <3>1, FunctionsAreSeqs
  <2>3. QED
    BY <2>1, <2>2, ConcatProperties
<1>4. /\ limiters' \in Seq(Limiters) /\ Len(limiters') = Len(limiters) /\ limiters'[k] = l
      /\ \A m \in 1..Len(limiters) : m # k => limiters'[m] = limiters[m]
  <2>1. limiters \in Seq(Limiters) /\ l \in Limiters /\ k \in 1..Len(limiters)
    BY <1>1 DEF ThrInv, ThrTypeOK
  <2> DEFINE s == [limiters EXCEPT ![k] = l]
  <2>2. s \in Seq(Limiters) /\ Len(s) = Len(limiters)
    <3>1. Len(limiters) \in Nat /\ limiters \in [1..Len(limiters) -> Limiters]
      BY <2>1, LenProperties
    <3>2. s \in [1..Len(limiters) -> Limiters]
      BY <2>1, <3>1
    <3> HIDE DEF s
    <3>3. QED
      BY <3>1, <3>2, FunctionsAreSeqs
  <2>3. \A m \in 1..Len(limiters) : s[m] = IF m = k THEN l ELSE limiters[m]
    BY <2>1, LenProperties
  <2>4. QED
    BY <1>1, <2>2, <2>3
<1>5. ThrTypeOK'
  BY <1>1, <1>2, <1>3, <1>4 DEF ThrInv, ThrTypeOK
<1>6. l.epoch = limiters[k].epoch
  BY DEF k
<1>7. \A m \in 1..Len(limiters) : limiters'[m].epoch = limiters[m].epoch
  BY <1>4, <1>6
<1>8. EpochInv'
  <2>1. \A x \in 0..MaxResets : x # r => grants'[x] = grants[x]
    BY <1>2
  <2>2. QED
    BY <1>1, <1>4, <1>6, <1>7, <2>1 DEF ThrInv, EpochInv
<1>9. Capacity' = Capacity
  BY <1>1 DEF Capacity
<1>10. \A x \in 0..MaxResets : WithinRate(grants'[x])
  BY <1>2 DEF ThrInv
<1>11. (\A x \in 0..MaxResets : WithinRate(grants[x]))'
  <2>1. category' = category
    BY <1>1
  <2>2. QED
    BY <1>9, <1>10, <2>1 DEF WithinRate
<1>12. ASSUME NEW m \in 1..Len(limiters) PROVE LimiterSound(limiters[m], grants[limiters[m].epoch])'
  <2>1. category' = category /\ now' = now
    BY <1>1
  <2>2. LimiterSound(limiters'[m], grants'[limiters'[m].epoch])
    <3>1. CASE m = k
      <4>1. limiters'[m] = l /\ grants'[l.epoch] = g
        BY <1>1, <1>2, <1>4, <3>1
      <4>2. QED
        BY <4>1
    <3>2. CASE m # k
      <4>1. limiters[m].epoch # r /\ limiters[m].epoch \in 0..MaxResets
        BY <1>1, <1>6, <3>2, LimiterFacts DEF ThrInv, EpochInv
      <4>2. grants'[limiters[m].epoch] = grants[limiters[m].epoch]
        BY <1>2, <4>1
      <4>3. QED
        BY <1>4, <3>2, <4>2 DEF ThrInv, LimitersInv
    <3>3. QED
      BY <3>1, <3>2
  <2>3. QED
    BY <1>9, <2>1, <2>2 DEF LimiterSound, TokensSound, WindowsSound, InWindow, Sec
<1>13. QED
  BY <1>4, <1>5, <1>8, <1>11, <1>12 DEF ThrInv, LimitersInv

\* What is let through now adds to the history of a limiter.
LEMMA Lengthened ==
    ASSUME NEW g \in Seq(Nat), NEW n \in Nat, NEW t \in Nat, NEW h, h = g \o [i \in 1..n |-> t]
    PROVE  /\ Len(h) = Len(g) + n /\ Len(g) \in Nat
           /\ \A i \in 1..Len(h) : h[i] = IF i <= Len(g) THEN g[i] ELSE t
           /\ \A i \in 1..Len(g) : g[i] \in Nat
<1> DEFINE e == [i \in 1..n |-> t]
<1>1. e \in Seq(Nat) /\ Len(e) = n
  <2>1. e \in [1..n -> Nat]
    OBVIOUS
  <2>2. QED
    BY <2>1, FunctionsAreSeqs
<1>2. \A i \in 1..n : e[i] = t
  OBVIOUS
<1> HIDE DEF e
<1>3. /\ Len(h) = Len(g) + n /\ Len(g) \in Nat
      /\ \A i \in 1..(Len(g) + n) : h[i] = IF i <= Len(g) THEN g[i] ELSE e[i - Len(g)]
  BY <1>1, ConcatProperties, LenProperties DEF e
<1>4. \A i \in 1..Len(g) : g[i] \in Nat
  BY ElementOfSeq
<1>5. QED
  BY <1>2, <1>3, <1>4

LEMMA MinOfTwo == ASSUME NEW x \in Int, NEW y \in Int PROVE Min({x, y}) = IF x <= y THEN x ELSE y
BY DEF Min

\* A bucket after refill, and after the tokens of n events were taken.
LEMMA RefillSound ==
    ASSUME ThrTypeOK, NEW l \in Limiters, NEW g \in Seq(Nat), TokensSound(l, g)
    PROVE  /\ Refilled(l) \in Limiters /\ Refilled(l).epoch = l.epoch /\ Refilled(l).lastRefill = now
           /\ TokensSound(Refilled(l), g)
<1>1. /\ Second \in Nat \ {0} /\ MaxFrequency \in Nat \ {0} /\ Capacity \in Nat \ {0} /\ now \in Nat
      /\ l.tokens \in Nat /\ l.lastRefill \in Nat /\ l.lastRefill <= now /\ l.tokens <= Capacity
  BY ThrConstants DEF TokensSound, Limiters
<1>2. CASE now = l.lastRefill
  BY <1>1, <1>2 DEF Refilled
<1>3. CASE now # l.lastRefill
  <2> DEFINE a == ((now - l.lastRefill) * MaxFrequency) \div Second
             t == Min({Capacity, l.tokens + a})
  <2>1. a \in Nat
    <3> DEFINE m == (now - l.lastRefill) * MaxFrequency
    <3>1. m \in Nat
      BY <1>1
    <3> HIDE DEF m
    <3>2. m \div Second \in Nat
      <4> DEFINE p == m \div Second
      <4>1. p \in Int /\ m < Second * p + Second
        BY <1>1, <3>1, WholeParts
      <4> HIDE DEF p
      <4>2. /\ Second * (p + 1) = Second * p + Second * 1 /\ Second * p \in Int
            /\ Second * 1 = Second /\ Second * 0 = 0
        BY <1>1, <4>1, Distributes
      <4>3. Second * 0 < Second * (p + 1)
        BY <1>1, <3>1, <4>1, <4>2
      <4>4. 0 < p + 1
        BY <1>1, <4>1, <4>3, LeastWhole
      <4>5. QED
        BY <4>1, <4>4 DEF p
    <3>3. QED
      BY <3>2 DEF m
  <2>2. Refilled(l) = [l EXCEPT !.tokens = t, !.lastRefill = now]
    BY <1>3 DEF Refilled
  <2>3. t \in Nat /\ t <= Capacity /\ t <= l.tokens + a
    <3> HIDE DEF a
    <3>1. t = IF Capacity <= l.tokens + a THEN Capacity ELSE l.tokens + a
      BY <1>1, <2>1, MinOfTwo
    <3> HIDE DEF t
    <3>2. QED
      BY <1>1, <2>1, <3>1
  <2> HIDE DEF t
  <2>4. /\ Refilled(l) \in Limiters /\ Refilled(l).epoch = l.epoch
        /\ Refilled(l).lastRefill = now /\ Refilled(l).tokens = t
    BY <1>1, <2>2, <2>3 DEF Limiters
  <2>5. ASSUME NEW i \in 1..Len(g)
        PROVE  g[i] <= now /\ Len(g) - i + 1 + t <= Capacity + ((now - g[i]) * MaxFrequency) \div Second
    <3> DEFINE u == l.lastRefill - g[i]
               v == now - l.lastRefill
               b == (u * MaxFrequency) \div Second
    <3>1. g[i] \in Nat /\ Len(g) \in Nat /\ i \in Int
      BY ElementOfSeq, LenProperties
    <3>2. g[i] <= l.lastRefill /\ Len(g) - i + 1 + l.tokens <= Capacity + b
      BY DEF TokensSound
    <3>3. u \in Int /\ v \in Int /\ u + v = now - g[i]
      <4>1. now \in Int /\ l.lastRefill \in Int /\ g[i] \in Int
        BY <1>1, <3>1
      <4>2. QED
        BY <4>1
    <3> HIDE DEF u, v
    <3>4. /\ (u + v) * MaxFrequency = u * MaxFrequency + v * MaxFrequency
          /\ u * MaxFrequency \in Int /\ v * MaxFrequency \in Int
      BY <1>1, <3>3, Distributes
    <3>5. a = (v * MaxFrequency) \div Second
      BY DEF v
    <3>6. b + a <= ((u + v) * MaxFrequency) \div Second
      BY <1>1, <3>4, <3>5, WholesAdd
    <3>7. b \in Int /\ ((u + v) * MaxFrequency) \div Second \in Int
      BY <1>1, <3>4, WholeParts
    <3> HIDE DEF a, b
    <3>8. Len(g) - i + 1 + t <= Capacity + b + a
      <4> DEFINE x == l.tokens
      <4>1. Len(g) - i + 1 + x <= Capacity + b /\ t <= x + a /\ x \in Nat
        BY <1>1, <2>3, <3>2
      <4> HIDE DEF x
      <4>2. QED
        BY <1>1, <2>1, <2>3, <3>1, <3>7, <4>1
    <3>9. Len(g) - i + 1 + t <= Capacity + ((u + v) * MaxFrequency) \div Second
      <4> DEFINE w == ((u + v) * MaxFrequency) \div Second
      <4>1. w \in Int /\ b + a <= w
        BY <3>6, <3>7
      <4> HIDE DEF w
      <4>2. Len(g) - i + 1 + t <= Capacity + w
        BY <1>1, <2>1, <2>3, <3>1, <3>7, <3>8, <4>1
      <4>3. QED
        BY <4>2 DEF w
    <3>10. g[i] <= now
      BY <1>1, <3>1, <3>2
    <3>11. QED
      BY <3>3, <3>9, <3>10
  <2>6. QED
    BY <1>1, <2>3, <2>4, <2>5 DEF TokensSound
<1>4. QED
  BY <1>2, <1>3

LEMMA AllowTokenKeeps ==
    ASSUME ThrInv, NEW c \in Waiters, NEW n \in {1, 2}, AllowToken(c, n)
    PROVE  ThrInv'
<1> DEFINE k == caller[c].lim
           old == limiters[k]
           l == Refilled(old)
           g == grants[old.epoch]
<1>1. k \in 1..Len(limiters) /\ caller[c].at = "allow" /\ category # "metrics" /\ ThrTypeOK
  BY DEF AllowToken, ThrInv, ThrTypeOK
<1>2. old \in Limiters /\ g \in Seq(Nat) /\ old.epoch \in 0..MaxResets /\ TokensSound(old, g) /\ WithinRate(g)
  BY <1>1, LimiterFacts DEF ThrInv, LimitersInv, LimiterSound
<1>3. l \in Limiters /\ l.epoch = old.epoch /\ l.lastRefill = now /\ TokensSound(l, g)
  BY <1>1, <1>2, RefillSound
<1>4. IF l.tokens >= n THEN Answered(c, [l EXCEPT !.tokens = @ - n], n) ELSE Answered(c, l, 0)
  BY DEF AllowToken
<1>5. /\ Second \in Nat \ {0} /\ MaxFrequency \in Nat \ {0} /\ Capacity \in Nat \ {0} /\ now \in Nat
      /\ l.tokens \in Nat /\ l.tokens <= Capacity
  BY <1>1, <1>3, ThrConstants DEF TokensSound, Limiters
<1> HIDE DEF l, old, k, g
<1>6. ASSUME NEW m \in Nat, m <= l.tokens,
             NEW new \in Limiters, new = [l EXCEPT !.tokens = l.tokens - m],
             NEW h, h = g \o [i \in 1..m |-> now]
      PROVE  TokensSound(new, h) /\ WithinRate(h)
  <2>1. /\ Len(h) = Len(g) + m /\ Len(g) \in Nat
        /\ \A i \in 1..Len(h) : h[i] = IF i <= Len(g) THEN g[i] ELSE now
        /\ \A i \in 1..Len(g) : g[i] \in Nat
    <3>1. h = g \o [i \in 1..m |-> now] /\ g \in Seq(Nat) /\ now \in Nat /\ m \in Nat
      BY <1>2, <1>5, <1>6
    <3>2. QED
      BY <3>1, Lengthened
  <2>2. new.tokens = l.tokens - m /\ new.lastRefill = now
    BY <1>3, <1>6 DEF Limiters
  <2>3. ASSUME NEW i \in 1..Len(h)
        PROVE  /\ h[i] \in Nat /\ h[i] <= now
               /\ Len(h) - i + 1 + (l.tokens - m) <= Capacity + ((now - h[i]) * MaxFrequency) \div Second
    <3>1. CASE i <= Len(g)
      <4>1. i \in 1..Len(g) /\ h[i] = g[i] /\ g[i] \in Nat
        BY <2>1, <3>1
      <4> DEFINE b == ((now - g[i]) * MaxFrequency) \div Second
      <4>2. g[i] <= now /\ Len(g) - i + 1 + l.tokens <= Capacity + b
        BY <1>3, <4>1 DEF TokensSound
      <4>3. (now - g[i]) * MaxFrequency \in Int
        <5>1. now - g[i] \in Int /\ MaxFrequency \in Int
          BY <1>5, <4>1
        <5>2. QED
          BY <5>1
      <4>4. b \in Int
        BY <1>5, <4>3, WholeParts
      <4> HIDE DEF b
      <4> DEFINE x == l.tokens
      <4>5. x \in Nat /\ m \in Nat /\ Len(h) = Len(g) + m /\ Len(g) \in Nat /\ Capacity \in Nat
        BY <1>5, <1>6, <2>1
      <4>6. Len(g) - i + 1 + x <= Capacity + b
        BY <4>2
      <4> HIDE DEF x
      <4>7. Len(h) - i + 1 + (x - m) <= Capacity + b
        BY <4>1, <4>4, <4>5, <4>6
      <4>8. QED
        BY <1>5, <4>1, <4>2, <4>7 DEF b, x
    <3>2. CASE ~(i <= Len(g))
      <4>1. h[i] = now /\ Len(h) - i + 1 <= m /\ Len(h) - i + 1 \in Int
        BY <2>1, <3>2
      <4>2. ((now - h[i]) * MaxFrequency) \div Second = 0
        <5>1. (now - h[i]) * MaxFrequency = 0
          BY <1>5, <4>1
        <5>2. 0 \div Second = 0
          BY <1>5
        <5>3. QED
          BY <5>1, <5>2
      <4> DEFINE x == l.tokens
                 y == Len(h) - i + 1
      <4>3. x \in Nat /\ x <= Capacity /\ y \in Int /\ y <= m /\ Capacity \in Nat
        BY <1>5, <4>1
      <4> HIDE DEF x, y
      <4>4. y + (x - m) <= Capacity + 0
        BY <1>6, <4>3
      <4>5. h[i] \in Nat /\ h[i] <= now
        BY <1>5, <4>1
      <4>6. QED
        BY <4>2, <4>4, <4>5 DEF x, y
    <3>3. QED
      BY <3>1, <3>2
  <2>4. TokensSound(new, h)
    <3>1. l.tokens - m <= Capacity /\ now <= now
      BY <1>5, <1>6
    <3>2. QED
      BY <2>2, <2>3, <3>1 DEF TokensSound
  <2>5. ASSUME NEW i \in 1..Len(h), NEW j \in 1..Len(h), i <= j
        PROVE  j - i + 1 <= Capacity + ((h[j] - h[i]) * MaxFrequency) \div Second
    <3>1. CASE j <= Len(g)
      <4>1. i \in 1..Len(g) /\ j \in 1..Len(g) /\ h[i] = g[i] /\ h[j] = g[j]
        BY <2>1, <2>5, <3>1
      <4>2. j - i + 1 <= Capacity + ((g[j] - g[i]) * MaxFrequency) \div Second
        BY <1>1, <1>2, <2>5, <4>1 DEF WithinRate
      <4>3. QED
        BY <4>1, <4>2
    <3>2. CASE ~(j <= Len(g))
      <4>1. h[j] = now
        BY <2>1, <3>2
      <4> DEFINE b == ((now - h[i]) * MaxFrequency) \div Second
      <4>2. (now - h[i]) * MaxFrequency \in Int
        <5>1. now - h[i] \in Int /\ MaxFrequency \in Int
          BY <1>5, <2>3
        <5>2. QED
          BY <5>1
      <4>3. b \in Int /\ Len(h) - i + 1 + (l.tokens - m) <= Capacity + b
        BY <1>5, <2>3, <4>2, WholeParts
      <4> HIDE DEF b
      <4> DEFINE x == l.tokens - m
      <4>4. x \in Nat /\ Len(h) - i + 1 + x <= Capacity + b /\ Len(h) \in Nat /\ Capacity \in Nat
        <5>1. x \in Nat
          BY <1>5, <1>6
        <5>2. Len(h) \in Nat /\ Capacity \in Nat
          BY <1>5, <1>6, <2>1
        <5>3. QED
          BY <4>3, <5>1, <5>2
      <4> HIDE DEF x
      <4>5. j - i + 1 <= Capacity + b
        BY <4>3, <4>4
      <4>6. QED
        BY <4>1, <4>5 DEF b
    <3>3. QED
      BY <3>1, <3>2
  <2>6. QED
    BY <1>1, <2>4, <2>5 DEF WithinRate
<1>7. CASE l.tokens >= n
  <2> DEFINE new == [l EXCEPT !.tokens = l.tokens - n]
             h == g \o [i \in 1..n |-> now]
  <2>1. new \in Limiters /\ new.epoch = old.epoch /\ Answered(c, new, n) /\ n \in Nat /\ n <= l.tokens
    BY <1>3, <1>4, <1>5, <1>7 DEF Limiters
  <2>2. TokensSound(new, h) /\ WithinRate(h)
    BY <1>6, <2>1
  <2>3. LimiterSound(new, h)
    BY <1>1, <2>2 DEF LimiterSound
  <2>4. new.epoch = limiters[caller[c].lim].epoch /\ h = grants[new.epoch] \o [i \in 1..n |-> now]
    BY <2>1 DEF old, k, g
  <2> HIDE DEF new, h
  <2>5. QED
    BY <1>1, <2>1, <2>2, <2>3, <2>4, AnsweredKeeps
<1>8. CASE ~(l.tokens >= n)
  <2> DEFINE h == g \o [i \in 1..0 |-> now]
  <2>1. Answered(c, l, 0)
    BY <1>4, <1>8
  <2>2. l = [l EXCEPT !.tokens = l.tokens - 0] /\ 0 <= l.tokens
    BY <1>3, <1>5 DEF Limiters
  <2>3. TokensSound(l, h) /\ WithinRate(h)
    BY <1>3, <1>6, <2>2
  <2>4. LimiterSound(l, h)
    BY <1>1, <2>3 DEF LimiterSound
  <2>5. l.epoch = limiters[caller[c].lim].epoch /\ h = grants[l.epoch] \o [i \in 1..0 |-> now]
    BY <1>3 DEF old, k, g
  <2> HIDE DEF h
  <2>6. QED
    BY <1>1, <1>3, <2>1, <2>3, <2>4, <2>5, AnsweredKeeps
<1>9. QED
  BY <1>7, <1>8

\* A sliding window after cleanup: what is left are the windows of this second and the one before.
LEMMA CleanUpSound ==
    ASSUME ThrTypeOK, NEW l \in Limiters, NEW g \in Seq(Nat), WindowsSound(l, g)
    PROVE  LET w == CleanedUp(l) IN
           /\ w \in Limiters /\ w.epoch = l.epoch /\ DOMAIN w.windows \subseteq {Sec - 1, Sec} \cap Nat
           /\ InWindow(w, Sec - 1) = InWindow(l, Sec - 1) /\ InWindow(w, Sec) = InWindow(l, Sec)
           /\ InWindow(w, Sec - 1) \in Nat /\ InWindow(w, Sec) \in Nat /\ InWindow(l, Sec + 1) = 0
           /\ CurrentCount(w) = InWindow(w, Sec - 1) + InWindow(w, Sec)
<1> DEFINE w == CleanedUp(l)
           kept == {s \in DOMAIN l.windows : s >= (now - Second) \div Second}
           f == [s \in kept |-> l.windows[s]]
<1>1. Second \in Nat \ {0} /\ Sec \in Nat /\ now \in Nat
  BY ThrConstants
<1>2. (now - Second) \div Second = Sec - 1
  <2>1. Second \in Nat \ {0} /\ now \in Int
    BY <1>1
  <2>2. (now - Second) \div Second = now \div Second - 1
    BY <2>1, WholeBefore
  <2>3. QED
    BY <2>2 DEF Sec
<1>3. DOMAIN l.windows \subseteq 0..Sec
  BY DEF WindowsSound
<1>4. \E D \in SUBSET Nat : l.windows \in [D -> Nat]
  BY DEF Limiters
<1>5. l.windows \in [DOMAIN l.windows -> Nat]
  BY <1>4
<1>6. kept = {s \in DOMAIN l.windows : s >= Sec - 1}
  BY <1>2
<1> HIDE DEF kept
<1>7. kept \subseteq {Sec - 1, Sec} \cap Nat
  BY <1>1, <1>3, <1>6
<1>8. \A s \in DOMAIN l.windows : l.windows[s] \in Nat
  BY <1>5
<1>9. kept \subseteq DOMAIN l.windows
  BY <1>6
<1>10. f \in [kept -> Nat] /\ DOMAIN f = kept /\ \A s \in kept : f[s] = l.windows[s]
  BY <1>8, <1>9
<1>11. w = [l EXCEPT !.windows = f]
  BY DEF CleanedUp, kept
<1> HIDE DEF f, w
<1>12. f \in UNION {[D -> Nat] : D \in SUBSET Nat}
  BY <1>7, <1>10
<1>13. w \in Limiters /\ w.epoch = l.epoch /\ w.windows = f
  BY <1>11, <1>12 DEF Limiters
<1>14. \A s \in {Sec - 1, Sec} : s \in DOMAIN l.windows <=> s \in kept
  BY <1>1, <1>6
<1>15. InWindow(w, Sec - 1) = InWindow(l, Sec - 1) /\ InWindow(w, Sec) = InWindow(l, Sec)
  BY <1>10, <1>13, <1>14 DEF InWindow
<1>16. InWindow(w, Sec - 1) \in Nat /\ InWindow(w, Sec) \in Nat
  BY <1>10, <1>13 DEF InWindow
<1>17. InWindow(l, Sec + 1) = 0
  BY <1>1, <1>3 DEF InWindow
<1>18. CurrentCount(w) = InWindow(w, Sec - 1) + InWindow(w, Sec)
  <2>1. Sec - 1 # Sec /\ kept \subseteq {Sec - 1, Sec} /\ f \in [kept -> Int]
    BY <1>1, <1>7, <1>10
  <2>2. SumFunction(f) = (IF Sec - 1 \in kept THEN f[Sec - 1] ELSE 0) + (IF Sec \in kept THEN f[Sec] ELSE 0)
    <3> DEFINE a == Sec - 1
    <3>1. a # Sec /\ kept \in SUBSET {a, Sec} /\ f \in [kept -> Int]
      BY <2>1
    <3> HIDE DEF a
    <3>2. SumFunction(f) = PairSum(f, kept, a, Sec)
      BY <3>1, SumOfTwo
    <3>3. QED
      BY <3>2 DEF a, PairSum
  <2>3. QED
    BY <1>10, <1>13, <2>2 DEF CurrentCount, InWindow
<1>19. QED
  BY <1>7, <1>10, <1>13, <1>15, <1>16, <1>17, <1>18 DEF w

LEMMA CountedSound ==
    ASSUME Sec \in Nat, NEW l \in Limiters, NEW n \in Nat,
           DOMAIN l.windows \subseteq {Sec - 1, Sec} \cap Nat,
           InWindow(l, Sec - 1) \in Nat, InWindow(l, Sec) \in Nat
    PROVE  LET w == Counted(l, n) IN
           /\ w \in Limiters /\ w.epoch = l.epoch /\ DOMAIN w.windows \subseteq {Sec - 1, Sec} \cap Nat
           /\ InWindow(w, Sec - 1) = InWindow(l, Sec - 1) /\ InWindow(w, Sec) = InWindow(l, Sec) + n
<1> DEFINE w == Counted(l, n)
           D == DOMAIN l.windows \cup {Sec}
           f == [x \in D |-> (IF x \in DOMAIN l.windows THEN l.windows[x] ELSE 0) + (IF x = Sec THEN n ELSE 0)]
<1>1. w = [l EXCEPT !.windows = f]
  BY DEF Counted, Sec
<1>2. \A x \in D : f[x] = InWindow(l, x) + (IF x = Sec THEN n ELSE 0)
  BY DEF InWindow
<1>3. \A x \in D : x = Sec - 1 \/ x = Sec
  OBVIOUS
<1>4. D \subseteq {Sec - 1, Sec} \cap Nat /\ DOMAIN f = D
  OBVIOUS
<1>5. ASSUME NEW x \in D PROVE f[x] \in Nat
  <2>1. f[x] = InWindow(l, x) + (IF x = Sec THEN n ELSE 0)
    BY <1>2
  <2> HIDE DEF f
  <2>2. InWindow(l, x) \in Nat
    BY <1>3
  <2>3. QED
    BY <2>1, <2>2
<1>6. f \in [D -> Nat]
  BY <1>5
<1>7. Sec \in D /\ (Sec - 1 \in D <=> Sec - 1 \in DOMAIN l.windows)
  OBVIOUS
<1> HIDE DEF f, w, D
<1>8. f \in UNION {[E -> Nat] : E \in SUBSET Nat}
  BY <1>4, <1>6
<1>9. w \in Limiters /\ w.epoch = l.epoch /\ w.windows = f
  BY <1>1, <1>8 DEF Limiters
<1>10. InWindow(w, Sec) = InWindow(l, Sec) + n
  BY <1>2, <1>4, <1>7, <1>9 DEF InWindow
<1>11. InWindow(w, Sec - 1) = InWindow(l, Sec - 1)
  <2>1. CASE Sec - 1 \in D
    <3>1. f[Sec - 1] = InWindow(l, Sec - 1) + 0
      BY <1>2, <2>1
    <3>2. QED
      BY <1>4, <1>9, <2>1, <3>1 DEF InWindow
  <2>2. CASE Sec - 1 \notin D
    BY <1>4, <1>7, <1>9, <2>2 DEF InWindow
  <2>3. QED
    BY <2>1, <2>2
<1>12. QED
  BY <1>4, <1>9, <1>10, <1>11 DEF w

\* Events let through now, by a window that has counted them.
Lengthens(h, g, m) ==
    /\ Len(h) = Len(g) + m /\ Len(g) \in Nat
    /\ \A i \in 1..Len(h) : h[i] = IF i <= Len(g) THEN g[i] ELSE now
    /\ \A i \in 1..Len(g) : g[i] \in Nat
CountsMore(w, l, m) ==
    /\ DOMAIN w.windows \subseteq {Sec - 1, Sec} \cap Nat /\ InWindow(l, Sec + 1) = 0
    /\ InWindow(l, Sec - 1) \in Nat /\ InWindow(l, Sec) \in Nat
    /\ InWindow(w, Sec - 1) = InWindow(l, Sec - 1)
    /\ InWindow(w, Sec) = InWindow(l, Sec) + m
    /\ m # 0 => InWindow(l, Sec - 1) + InWindow(l, Sec) + m <= MaxFrequency
LEMMA WindowCounts ==
    ASSUME ThrTypeOK, category = "metrics", NEW l, NEW w, NEW g, NEW h, NEW m \in Nat,
           WindowsSound(l, g), WithinRate(g), CountsMore(w, l, m), Lengthens(h, g, m)
    PROVE  WindowsSound(w, h) /\ WithinRate(h)
<1> DEFINE a == InWindow(l, Sec - 1)
           b == InWindow(l, Sec)
<1>1. /\ Second \in Nat \ {0} /\ MaxFrequency \in Nat \ {0} /\ now \in Nat /\ Sec \in Nat
      /\ a \in Nat /\ b \in Nat /\ (m # 0 => a + b + m <= MaxFrequency)
  BY ThrConstants DEF CountsMore
<1>2. /\ Len(h) = Len(g) + m /\ Len(g) \in Nat
      /\ \A i \in 1..Len(h) : h[i] = IF i <= Len(g) THEN g[i] ELSE now
      /\ \A i \in 1..Len(g) : g[i] \in Nat
  BY DEF Lengthens
<1>3. /\ InWindow(w, Sec - 1) = a /\ InWindow(w, Sec) = b + m /\ InWindow(w, Sec + 1) = 0
      /\ DOMAIN w.windows \subseteq 0..Sec
  <2>1. DOMAIN w.windows \subseteq {Sec - 1, Sec} \cap Nat
    BY DEF CountsMore
  <2>2. Sec + 1 \notin DOMAIN w.windows /\ DOMAIN w.windows \subseteq 0..Sec
    BY <1>1, <2>1
  <2>3. QED
    BY <2>2 DEF CountsMore, InWindow
<1> HIDE DEF a, b
<1>4. ASSUME NEW i \in 1..Len(g)
      PROVE  LET q == g[i] \div Second IN
             /\ g[i] \in Nat /\ g[i] <= now /\ q \in Int /\ q <= Sec
             /\ q >= Sec - 1 => Len(g) - i + 1 <= IF q = Sec THEN b ELSE a + b
  <2> DEFINE q == g[i] \div Second
  <2>1. g[i] \in Nat /\ g[i] <= now
    BY <1>2 DEF WindowsSound
  <2>2. q \in Int /\ q <= Sec
    <3>1. q \in Int
      BY <1>1, <2>1, WholeParts
    <3>2. g[i] \div Second <= now \div Second
      BY <1>1, <2>1, WholesGrow
    <3>3. QED
      BY <3>1, <3>2 DEF Sec
  <2>3. q >= Sec - 1 => Len(g) - i + 1 <= InWindow(l, q) + InWindow(l, q + 1)
    BY DEF WindowsSound
  <2> HIDE DEF q
  <2>4. CASE q = Sec
    <3>1. InWindow(l, q) = b /\ InWindow(l, q + 1) = 0
      BY <2>4 DEF b, CountsMore
    <3>2. QED
      BY <1>1, <2>1, <2>2, <2>3, <2>4, <3>1 DEF q
  <2>5. CASE q = Sec - 1
    <3>1. q + 1 = Sec
      BY <1>1, <2>5
    <3>2. InWindow(l, q) = a /\ InWindow(l, q + 1) = b
      BY <2>5, <3>1 DEF a, b
    <3>3. q # Sec
      BY <3>1, <2>2
    <3>4. QED
      BY <1>1, <2>1, <2>2, <2>3, <3>2, <3>3 DEF q
  <2>6. CASE q # Sec /\ q # Sec - 1
    <3>1. ~(q >= Sec - 1)
      BY <1>1, <2>2, <2>6
    <3>2. QED
      BY <2>1, <2>2, <3>1 DEF q
  <2>7. QED
    BY <2>4, <2>5, <2>6
<1>5. ASSUME NEW i \in 1..Len(h)
      PROVE  LET q == h[i] \div Second IN
             /\ h[i] \in Nat /\ h[i] <= now /\ q \in Int
             /\ q >= Sec - 1 => (q = Sec - 1 \/ q = Sec) /\ Len(h) - i + 1 <= IF q = Sec THEN b + m ELSE a + b + m
  <2>1. CASE i <= Len(g)
    <3> DEFINE q == g[i] \div Second
    <3>1. i \in 1..Len(g) /\ h[i] = g[i]
      BY <1>2, <2>1
    <3>2. /\ g[i] \in Nat /\ g[i] <= now /\ q \in Int /\ q <= Sec
          /\ q >= Sec - 1 => Len(g) - i + 1 <= IF q = Sec THEN b ELSE a + b
      BY <1>4, <3>1
    <3> HIDE DEF q
    <3>3. q >= Sec - 1 => (q = Sec - 1 \/ q = Sec) /\ Len(h) - i + 1 <= IF q = Sec THEN b + m ELSE a + b + m
      BY <1>1, <1>2, <3>1, <3>2
    <3>4. QED
      BY <3>1, <3>2, <3>3 DEF q
  <2>2. CASE ~(i <= Len(g))
    <3>1. h[i] = now /\ Len(h) - i + 1 <= m
      BY <1>2, <2>2
    <3>2. Len(h) - i + 1 <= b + m
      BY <1>1, <1>2, <3>1
    <3>3. h[i] \div Second = Sec
      BY <3>1 DEF Sec
    <3>4. now <= now /\ Sec \in Int
      BY <1>1
    <3>5. QED
      BY <1>1, <3>1, <3>2, <3>3, <3>4
  <2>3. QED
    BY <2>1, <2>2
<1>6. WindowsSound(w, h)
  <2>1. DOMAIN w.windows \subseteq 0..Sec
    BY <1>3
  <2>2. ASSUME NEW i \in 1..Len(h), h[i] \div Second >= Sec - 1
        PROVE  Len(h) - i + 1 <= InWindow(w, h[i] \div Second) + InWindow(w, h[i] \div Second + 1)
    <3> DEFINE q == h[i] \div Second
    <3>1. (q = Sec - 1 \/ q = Sec) /\ q \in Int /\ Len(h) - i + 1 <= IF q = Sec THEN b + m ELSE a + b + m
      BY <1>5, <2>2
    <3> HIDE DEF q
    <3>2. Len(h) - i + 1 <= InWindow(w, q) + InWindow(w, q + 1)
      <4>1. CASE q = Sec
        <5>1. InWindow(w, q) = b + m /\ InWindow(w, q + 1) = 0
          BY <1>3, <4>1
        <5>2. QED
          BY <1>1, <3>1, <4>1, <5>1
      <4>2. CASE q = Sec - 1
        <5>1. q + 1 = Sec /\ q # Sec
          BY <1>1, <4>2
        <5>2. InWindow(w, q) = a /\ InWindow(w, q + 1) = b + m
          BY <1>3, <4>2, <5>1
        <5>3. QED
          BY <1>1, <3>1, <5>1, <5>2
      <4>3. QED
        BY <3>1, <4>1, <4>2
    <3>3. QED
      BY <3>2 DEF q
  <2>3. \A i \in 1..Len(h) : h[i] <= now
    BY <1>5
  <2>4. QED
    BY <2>1, <2>2, <2>3 DEF WindowsSound
<1>7. WithinRate(h)
  <2> SUFFICES ASSUME NEW i \in 1..Len(h), NEW j \in 1..Len(h), i <= j, h[j] - h[i] <= Second
               PROVE  j - i + 1 <= MaxFrequency
    BY DEF WithinRate
  <2>1. CASE j <= Len(g)
    <3>1. i \in 1..Len(g) /\ j \in 1..Len(g) /\ h[i] = g[i] /\ h[j] = g[j]
      BY <1>2, <2>1
    <3>2. QED
      BY <3>1 DEF WithinRate
  <2>2. CASE ~(j <= Len(g))
    <3>1. h[j] = now /\ m # 0
      BY <1>2, <2>2
    <3> DEFINE q == h[i] \div Second
    <3>2. /\ h[i] \in Nat /\ q \in Int
          /\ q >= Sec - 1 => (q = Sec - 1 \/ q = Sec) /\ Len(h) - i + 1 <= IF q = Sec THEN b + m ELSE a + b + m
      BY <1>5
    <3>3. now - Second <= h[i] /\ now - Second \in Int
      BY <1>1, <3>1, <3>2
    <3>4. (now - Second) \div Second <= q
      <4>1. (now - Second) \div Second <= h[i] \div Second
        <5> DEFINE x == now - Second
                   y == h[i]
        <5>1. x \in Int /\ y \in Int /\ x <= y /\ Second \in Nat \ {0}
          BY <1>1, <3>2, <3>3
        <5> HIDE DEF x, y
        <5>2. x \div Second <= y \div Second
          BY <5>1, WholesGrow
        <5>3. QED
          BY <5>2 DEF x, y
      <4>2. QED
        BY <4>1
    <3>5. (now - Second) \div Second = Sec - 1
      <4>1. now \in Int /\ Second \in Nat \ {0}
        BY <1>1
      <4>2. (now - Second) \div Second = now \div Second - 1
        BY <4>1, WholeBefore
      <4>3. QED
        BY <4>2 DEF Sec
    <3> HIDE DEF q
    <3>6. q >= Sec - 1
      BY <3>2, <3>4, <3>5
    <3>7. Len(h) - i + 1 <= a + b + m
      BY <1>1, <1>2, <3>2, <3>6
    <3>8. QED
      BY <1>1, <1>2, <3>1, <3>7
  <2>3. QED
    BY <2>1, <2>2
<1>8. QED
  BY <1>6, <1>7

LEMMA AllowWindowKeeps ==
    ASSUME ThrInv, NEW c \in Waiters, NEW n \in {1, 2}, AllowWindow(c, n)
    PROVE  ThrInv'
<1> DEFINE old == limiters[caller[c].lim]
           l == CleanedUp(old)
           w == Counted(l, n)
           g == grants[old.epoch]
<1>1. /\ caller[c].lim \in 1..Len(limiters) /\ caller[c].at = "allow" /\ category = "metrics" /\ ThrTypeOK
      /\ Sec \in Nat /\ now \in Nat /\ n \in Nat /\ MaxFrequency \in Nat
  BY ThrConstants DEF AllowWindow, ThrInv, ThrTypeOK
<1>2. old \in Limiters /\ g \in Seq(Nat) /\ old.epoch \in 0..MaxResets /\ WindowsSound(old, g) /\ WithinRate(g)
  BY <1>1, LimiterFacts DEF ThrInv, LimitersInv, LimiterSound
<1>3. IF CurrentCount(l) + n <= MaxFrequency THEN Answered(c, w, n) ELSE Answered(c, l, 0)
  BY DEF AllowWindow
<1> HIDE DEF old, l, w, g
<1>4. /\ l \in Limiters /\ l.epoch = old.epoch /\ DOMAIN l.windows \subseteq {Sec - 1, Sec} \cap Nat
      /\ InWindow(l, Sec - 1) = InWindow(old, Sec - 1) /\ InWindow(l, Sec) = InWindow(old, Sec)
      /\ InWindow(l, Sec - 1) \in Nat /\ InWindow(l, Sec) \in Nat /\ InWindow(old, Sec + 1) = 0
      /\ CurrentCount(l) = InWindow(l, Sec - 1) + InWindow(l, Sec)
  BY <1>1, <1>2, CleanUpSound DEF l
<1>5. CASE CurrentCount(l) + n <= MaxFrequency
  <2>1. /\ w \in Limiters /\ w.epoch = l.epoch /\ DOMAIN w.windows \subseteq {Sec - 1, Sec} \cap Nat
        /\ InWindow(w, Sec - 1) = InWindow(l, Sec - 1) /\ InWindow(w, Sec) = InWindow(l, Sec) + n
    BY <1>1, <1>4, CountedSound DEF w
  <2> DEFINE h == g \o [i \in 1..n |-> now]
  <2>2. WindowsSound(w, h) /\ WithinRate(h)
    <3>1. CountsMore(w, old, n)
      BY <1>4, <1>5, <2>1 DEF CountsMore
    <3>2. Lengthens(h, g, n)
      BY <1>1, <1>2, Lengthened DEF Lengthens
    <3>3. QED
      BY <1>1, <1>2, <3>1, <3>2, WindowCounts
  <2>3. LimiterSound(w, h)
    BY <1>1, <2>2 DEF LimiterSound
  <2>4. Answered(c, w, n)
    BY <1>3, <1>5
  <2>5. w.epoch = limiters[caller[c].lim].epoch /\ h = grants[w.epoch] \o [i \in 1..n |-> now]
    BY <1>4, <2>1 DEF old, g
  <2> HIDE DEF h
  <2>6. QED
    BY <1>1, <2>1, <2>2, <2>3, <2>4, <2>5, AnsweredKeeps
<1>6. CASE ~(CurrentCount(l) + n <= MaxFrequency)
  <2> DEFINE h == g \o [i \in 1..0 |-> now]
  <2>1. WindowsSound(l, h) /\ WithinRate(h)
    <3>1. CountsMore(l, old, 0)
      BY <1>4 DEF CountsMore
    <3>2. Lengthens(h, g, 0)
      BY <1>1, <1>2, Lengthened DEF Lengthens
    <3>3. QED
      BY <1>1, <1>2, <3>1, <3>2, WindowCounts
  <2>2. LimiterSound(l, h)
    BY <1>1, <2>1 DEF LimiterSound
  <2>3. Answered(c, l, 0)
    BY <1>3, <1>6
  <2>4. l.epoch = limiters[caller[c].lim].epoch /\ h = grants[l.epoch] \o [i \in 1..0 |-> now]
    BY <1>4 DEF old, g
  <2> HIDE DEF h
  <2>5. QED
    BY <1>1, <1>4, <2>1, <2>2, <2>3, <2>4, AnsweredKeeps
<1>7. QED
  BY <1>5, <1>6

LEMMA ThrNextKeeps == ThrInv /\ [ThrottleNext]_throttleVars => ThrInv'
<1> SUFFICES ASSUME ThrInv, [ThrottleNext]_throttleVars PROVE ThrInv'
  OBVIOUS
<1>1. ASSUME NEW c \in Waiters, Lookup(c) \/ CreateLimiter(c) PROVE ThrInv'
  BY <1>1, LookupKeeps, CreateKeeps
<1>2. ASSUME NEW c \in Waiters, NEW n \in {1, 2}, AllowToken(c, n) \/ AllowWindow(c, n) PROVE ThrInv'
  BY <1>2, AllowTokenKeeps, AllowWindowKeeps
<1>3. CASE Reset
  BY <1>3, ResetKeeps
<1>4. CASE TimePasses
  BY <1>4, TimePassesKeeps
<1>5. CASE UNCHANGED throttleVars
  <2>1. LimitersInv' /\ (\A r \in 0..MaxResets : WithinRate(grants[r]))'
    BY <1>5, QuietKeeps DEF throttleVars
  <2>2. ThrTypeOK' /\ EpochInv'
    BY <1>5 DEF ThrInv, ThrTypeOK, EpochInv, throttleVars
  <2>3. QED
    BY <2>1, <2>2 DEF ThrInv
<1>6. QED
  BY <1>1, <1>2, <1>3, <1>4, <1>5 DEF ThrottleNext

\* Whatever the rate, the callers that race to make and to use a limiter, the resets and the
\* clock: no span of time sees more events let through between two resets than the category of
\* the type allows (ThrottleManager, TokenBucketLimiter.AllowN, SlidingWindowLimiter.AllowN).
THEOREM NeverOverRateHolds == ThrottleSpec => []NeverOverRate
<1>1. ThrInv => NeverOverRate
  BY DEF ThrInv, NeverOverRate, WithinRate
<1>2. QED
  BY <1>1, ThrInitially, ThrNextKeeps, PTL DEF ThrottleSpec
=============================================================================
