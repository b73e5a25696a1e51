---------------------------- MODULE TimingWheel ----------------------------
(***************************************************************************)
(* The hierarchical timing wheel and the job scheduler on top of it        *)
(* (utils/timingwheel): buckets of two levels, the delay queue that wakes  *)
(* its poller when a bucket is due, the loop that moves the wheel forward, *)
(* one-shot and periodic timers, cancellation, the time offset, and the    *)
(* two Stops.                                                              *)
(*                                                                         *)
(* Time is in milliseconds from the start of the wheel.                    *)
(***************************************************************************)
EXTENDS Integers, Sequences, FiniteSets

CONSTANTS
    Timers,       \* timer ids, genTimerId never hands one out twice
    Delay,        \* the delay a timer is registered with
    Period,       \* Timer.interval, 0 for a one-shot timer
    AsyncChoices, \* the sets of timers that may be registered with an Async variant
    Tick, Size,   \* the tick of the lowest level and the buckets of a level
    ChanSize,     \* capacity of the scheduler's callback channel
    Offsets,      \* the offsets SetTimeOffset may be given
    Instants,     \* bound: the values the real time takes, the last one after every expiration
    MaxExp,       \* bound: no timer is armed beyond it
    MayStop       \* bound: whether the wheel and the scheduler are stopped

ASSUME WheelAssumption ==
    /\ Tick \in Nat \ {0} /\ Size \in Nat \ {0, 1} /\ ChanSize \in Nat \ {0}
    /\ Delay \in [Timers -> Nat] /\ Period \in [Timers -> Nat] /\ AsyncChoices \subseteq SUBSET Timers
    /\ Offsets \subseteq Int /\ Instants \subseteq Nat /\ 0 \in Instants /\ MayStop \in BOOLEAN
    \* Two levels are enough for every expiration.
    /\ MaxExp \in Nat /\ MaxExp < Tick * Size * Size /\ \E i \in Instants : i > MaxExp + Tick * Size

VARIABLES
    clock, offset,  \* the real time and timeOffsetNs
    levelNow,       \* currentTime of a level; the overflow level starts at -1, not created
    bkt, bexp,      \* the timers and the expiration of a bucket
    delayQueue,     \* the delay queue: entries <<bucket, priority>>
    poll,           \* the poller: [at, until, item]
    sleeping, wake, \* DelayQueue.sleeping, and the token in wakeupC
    hand,           \* the bucket the loop of Start has received, or None
    run,            \* timers runTimer is being called for: [t, by, stage, due, at]
    reg,            \* where the registration of a timer is
    exp,            \* Timer.expiration
    active,         \* ~Timer.cancel
    shard,          \* the timers the scheduler holds
    owned,          \* TimingWheel.timers
    chan,           \* the scheduler's callback channel
    twStop, sdStop, \* where TimingWheel.Stop and jobScheduler.Stop are
    victims,        \* the timers TimingWheel.Stop is going to cancel
    async,          \* timers whose task runs in a goroutine of its own
    dropped         \* history: periodic timers SetTimeOffset ran without arming them again

wheelVars ==
    <<clock, offset, levelNow, bkt, bexp, delayQueue, poll, sleeping, wake, hand, run, reg, exp, active,
      shard, owned, chan, twStop, sdStop, victims, async, dropped>>
pollVars == <<poll, sleeping, wake>>
stopVars == <<twStop, sdStop, victims>>
rest == <<async, dropped>>

WheelLevels == 1..2
Buckets == WheelLevels \X (0..(Size - 1))
None == <<0, 0>>
TickOf(l) == IF l = 1 THEN Tick ELSE Tick * Size
Truncate(x, m) == x - (x % m)
Now == clock + offset
twClosed == twStop # "no"
sdClosed == sdStop
Oneshot(t) == Period[t] = 0

\* addInternal: the bucket an expiration goes to from level l, or None when it is due.
Index(l, x) == <<l, (x \div TickOf(l)) % Size>>
CurOf(c, l) == IF c[l] = -1 THEN Truncate(c[1], TickOf(l)) ELSE c[l]

Place(c, x) ==
    IF x < c[1] + Tick THEN None
    ELSE IF x < c[1] + Tick * Size THEN Index(1, x)
    ELSE IF x < CurOf(c, 2) + TickOf(2) THEN None
    ELSE Index(2, x)

\* Mutant: an offered bucket does not wake the poller.
RousesNever(offered) == FALSE
\* Offer wakes the poller only when the new entry is the earliest.
Rouses(offered) == sleeping /\ \E o \in offered : \A p \in delayQueue : o[2] < p[2]

\* addInternal for the timers ts with expirations x: they join their buckets, and a
\* bucket whose expiration changes is offered to the delay queue.  Its levelNow is c.
InBucket(c, ts, x, b) == {t \in ts : Place(c, x[t]) = b}
NewExp(c, ts, x, e, b) ==
    IF InBucket(c, ts, x, b) = {} THEN e[b]
    ELSE LET t == CHOOSE u \in InBucket(c, ts, x, b) : TRUE IN Truncate(x[t], TickOf(b[1]))
AddAll(c, ts, x, k, e) ==
    LET ne == [b \in Buckets |-> NewExp(c, ts, x, e, b)]
        offered == {<<b, ne[b]>> : b \in {d \in Buckets : ne[d] # e[d]}}
        rouse == Rouses(offered)
    IN  /\ bkt' = [b \in Buckets |-> k[b] \cup InBucket(c, ts, x, b)]
        /\ bexp' = ne
        /\ delayQueue' = delayQueue \cup offered
        /\ levelNow' = IF \E t \in ts : Place(c, x[t]) # None /\ Place(c, x[t])[1] = 2
                  THEN [c EXCEPT ![2] = CurOf(c, 2)] ELSE c
        /\ sleeping' = (sleeping /\ ~rouse) /\ wake' = (wake \/ rouse) /\ UNCHANGED poll

Ready(c, ts, x) == {t \in ts : Place(c, x[t]) = None}
ToRun(t, by, due, at) == [t |-> t, by |-> by, stage |-> "run", due |-> due, at |-> at]

WheelInit ==
    /\ clock = 0 /\ offset = 0 /\ levelNow = [l \in WheelLevels |-> IF l = 1 THEN 0 ELSE -1]
    /\ bkt = [b \in Buckets |-> {}] /\ bexp = [b \in Buckets |-> -1] /\ delayQueue = {}
    /\ poll = [at |-> "check", until |-> -1, item |-> None] /\ sleeping = FALSE /\ wake = FALSE
    /\ hand = None /\ run = {} /\ reg = [t \in Timers |-> "new"]
    /\ exp = [t \in Timers |-> 0] /\ active = [t \in Timers |-> TRUE]
    /\ shard = {} /\ owned = {} /\ chan = <<>>
    /\ twStop = "no" /\ sdStop = FALSE /\ victims = {} /\ dropped = {}
    /\ async \in AsyncChoices

\* Cancel of the timers ts: remove from the shard, Timer.stop, remove from timers.
StoppedTimers(ts) ==
    /\ shard' = shard \ ts /\ owned' = owned \ ts
    /\ active' = [t \in Timers |-> active[t] /\ t \notin ts]
Unlink(ts) == bkt' = [b \in Buckets |-> bkt[b] \ ts]
CancelTimers(ts) == StoppedTimers(ts \cap shard) /\ Unlink(ts \cap shard)

-----------------------------------------------------------------------------
(* Registration: AfterFunc, TickerFunc, CronFunc and the Async variants.   *)

\* register: the scheduler knows the timer before the wheel does.
Register(t) ==
    /\ reg[t] = "new"
    /\ \/ /\ ~sdClosed /\ ~twClosed
          /\ shard' = shard \cup {t} /\ Now + Delay[t] + Period[t] <= MaxExp
          /\ exp' = [exp EXCEPT ![t] = Now + IF Oneshot(t) THEN Delay[t] ELSE Period[t]]
          /\ reg' = [reg EXCEPT ![t] = "add"] /\ UNCHANGED active
       \/ /\ sdClosed \/ twClosed
          /\ active' = [active EXCEPT ![t] = FALSE]
          /\ reg' = [reg EXCEPT ![t] = "done"] /\ UNCHANGED <<shard, exp>>
    /\ UNCHANGED <<clock, offset, levelNow, bkt, bexp, delayQueue, pollVars, hand, run, owned, chan, stopVars, rest>>

\* addOrRun under operationMu: the timer is put into the wheel, or is due at once.
AddOrRun(t, by) ==
    \/ /\ twClosed /\ CancelTimers({t})
       /\ UNCHANGED <<levelNow, bexp, delayQueue, pollVars>>
       /\ run' = {r \in run : ~(r.t = t /\ r.by = by)}
    \/ /\ ~twClosed /\ ~active[t]
       /\ UNCHANGED <<levelNow, bkt, bexp, delayQueue, pollVars, shard, owned, active>>
       /\ run' = {r \in run : ~(r.t = t /\ r.by = by)}
    \/ /\ ~twClosed /\ active[t]
       /\ owned' = owned \cup {t}
       /\ AddAll(levelNow, {t}, exp', bkt, bexp)
       /\ run' = {r \in run : ~(r.t = t /\ r.by = by)}
                 \cup {ToRun(u, by, exp'[u], Now) : u \in Ready(levelNow, {t}, exp')}
       /\ UNCHANGED <<shard, active>>

RegisterAdd(t) ==
    /\ reg[t] = "add" /\ exp' = exp
    /\ AddOrRun(t, "reg")
    /\ reg' = [reg EXCEPT ![t] = "check"]
    /\ UNCHANGED <<clock, offset, hand, chan, stopVars, rest>>

\* register looks once more whether the wheel was closed meanwhile.
RegisterCheck(t) ==
    /\ reg[t] = "check" /\ \A r \in run : ~(r.t = t /\ r.by = "reg")
    /\ IF twClosed THEN CancelTimers({t}) ELSE UNCHANGED <<shard, owned, active, bkt>>
    /\ reg' = [reg EXCEPT ![t] = "done"]
    /\ UNCHANGED <<clock, offset, levelNow, bexp, delayQueue, pollVars, hand, run, exp, chan, stopVars, rest>>

CancelTimer(t) ==
    /\ reg[t] = "done" /\ t \in shard
    /\ CancelTimers({t})
    /\ UNCHANGED <<clock, offset, levelNow, bexp, delayQueue, pollVars, hand, run, reg, exp, chan, stopVars, rest>>

-----------------------------------------------------------------------------
(* The delay queue and the loop of Start.                                  *)

Advance ==
    /\ ~twClosed  \* no one reads the time of a closed wheel
    /\ \E i \in Instants : clock < i /\ (\A j \in Instants : clock < j => i <= j) /\ clock' = i
    /\ UNCHANGED <<offset, levelNow, bkt, bexp, delayQueue, pollVars, hand, run, reg, exp, active, shard, owned, chan, stopVars, rest>>

\* Poll takes the earliest entry that is due, or goes to sleep.
Earliest == {p \in delayQueue : \A q \in delayQueue : p[2] <= q[2]}
PollTake ==
    /\ poll.at = "check" /\ ~twClosed
    /\ \E p \in Earliest :
        /\ p[2] <= Now
        /\ delayQueue' = delayQueue \ {p}
        /\ poll' = [at |-> "send", until |-> -1, item |-> p[1]]
    /\ UNCHANGED <<clock, offset, levelNow, bkt, bexp, sleeping, wake, hand, run, reg, exp, active, shard, owned, chan, stopVars, rest>>

PollSleep ==
    /\ poll.at = "check" /\ ~twClosed
    /\ \A p \in Earliest : p[2] > Now
    /\ poll' = [at |-> "sleep", item |-> None,
                until |-> IF Earliest = {} THEN -1 ELSE clock + (CHOOSE p \in Earliest : TRUE)[2] - Now]
    /\ sleeping' = TRUE
    /\ UNCHANGED <<clock, offset, levelNow, bkt, bexp, delayQueue, wake, hand, run, reg, exp, active, shard, owned, chan, stopVars, rest>>

\* wakeupC, or the delay timer.
PollWake ==
    /\ poll.at = "sleep" /\ ~twClosed
    /\ \/ wake /\ wake' = FALSE /\ UNCHANGED sleeping
       \/ /\ poll.until # -1 /\ clock >= poll.until
          /\ sleeping' = FALSE /\ UNCHANGED wake
    /\ poll' = [poll EXCEPT !.at = "check"]
    /\ UNCHANGED <<clock, offset, levelNow, bkt, bexp, delayQueue, hand, run, reg, exp, active, shard, owned, chan, stopVars, rest>>

LoopBusy == hand # None \/ \E r \in run : r.by = "loop"

PollSend ==
    /\ poll.at = "send" /\ ~LoopBusy /\ ~twClosed
    /\ hand' = poll.item
    /\ poll' = [at |-> "check", until |-> -1, item |-> None]
    /\ UNCHANGED <<clock, offset, levelNow, bkt, bexp, delayQueue, sleeping, wake, run, reg, exp, active, shard, owned, chan, stopVars, rest>>

\* advanceClock of both levels.
Advanced(x) ==
    IF x >= levelNow[1] + Tick
    THEN LET c == Truncate(x, Tick) IN
         [levelNow EXCEPT ![1] = c,
                     ![2] = IF @ # -1 /\ c >= @ + TickOf(2) THEN Truncate(c, TickOf(2)) ELSE @]
    ELSE levelNow

\* The loop: if the bucket is due, the clock of the wheel advances and the timers of the
\* bucket are put into the wheel again or are due.
FlushBucket ==
    /\ hand # None
    /\ IF ~twClosed /\ bexp[hand] >= 0 /\ bexp[hand] <= Now
       THEN LET ts == {t \in bkt[hand] : active[t]} IN
            /\ AddAll(Advanced(bexp[hand]), ts, exp, [bkt EXCEPT ![hand] = {}], [bexp EXCEPT ![hand] = -1])
            /\ run' = run \cup {ToRun(t, "loop", exp[t], Now) : t \in Ready(Advanced(bexp[hand]), ts, exp)}
       ELSE UNCHANGED <<levelNow, bkt, bexp, delayQueue, pollVars, run>>
    /\ hand' = None
    /\ UNCHANGED <<clock, offset, reg, exp, active, shard, owned, chan, stopVars, rest>>

\* runTimer: an inactive timer is left alone; the task goes to a goroutine or into the
\* callback channel; a one-shot timer that finds it full or closed is cancelled.
CanPost == ~sdClosed /\ Len(chan) < ChanSize

\* Mutant: a periodic timer is rescheduled by the loop alone.
AfterLoopOnly(r) == IF Oneshot(r.t) \/ r.by # "loop" THEN {} ELSE {[r EXCEPT !.stage = "loop"]}

After(r) == IF Oneshot(r.t) \/ r.by = "offset" THEN {} ELSE {[r EXCEPT !.stage = "loop"]}
RunTimer(r) ==
    /\ r.stage = "run"
    /\ \/ /\ ~active[r.t] \/ (r.by # "reg" /\ twClosed)
          /\ run' = run \ {r}
          /\ IF r.by = "offset" /\ twClosed THEN CancelTimers({r.t}) ELSE UNCHANGED <<bkt, shard, owned, active>>
          /\ UNCHANGED chan
       \/ /\ active[r.t] /\ (r.by # "reg" => ~twClosed)
          /\ run' = (run \ {r}) \cup After(r)
          /\ \/ /\ r.t \in async
                /\ IF Oneshot(r.t) THEN CancelTimers({r.t}) ELSE UNCHANGED <<bkt, shard, owned, active>>
                /\ UNCHANGED chan
             \/ /\ r.t \notin async /\ CanPost
                /\ chan' = Append(chan, r.t)
                /\ UNCHANGED <<bkt, shard, owned, active>>
             \/ /\ r.t \notin async /\ ~CanPost
                /\ IF Oneshot(r.t) THEN CancelTimers({r.t}) ELSE UNCHANGED <<bkt, shard, owned, active>>
                /\ UNCHANGED chan
    /\ UNCHANGED <<clock, offset, levelNow, bexp, delayQueue, pollVars, hand, reg, exp, stopVars, rest>>

\* Timer.loop: the next expiration, counted from now if it is already behind.
NextExp(t) == IF exp[t] + Period[t] > Now THEN exp[t] + Period[t] ELSE Now + Period[t]
Rearm(r) ==
    /\ r.stage = "loop"
    /\ \/ /\ twClosed /\ CancelTimers({r.t}) /\ run' = run \ {r}
          /\ UNCHANGED <<levelNow, bexp, delayQueue, pollVars, exp>>
       \/ /\ ~twClosed /\ ~active[r.t] /\ run' = run \ {r}
          /\ UNCHANGED <<levelNow, bkt, bexp, delayQueue, pollVars, shard, owned, active, exp>>
       \/ /\ ~twClosed /\ active[r.t] /\ NextExp(r.t) <= MaxExp
          /\ exp' = [exp EXCEPT ![r.t] = NextExp(r.t)]
          /\ AddOrRun(r.t, r.by)
       \* bound: the timer is cancelled at the end of the modelled time
       \/ /\ ~twClosed /\ active[r.t] /\ NextExp(r.t) > MaxExp
          /\ CancelTimers({r.t}) /\ run' = run \ {r}
          /\ UNCHANGED <<levelNow, bexp, delayQueue, pollVars, exp>>
    /\ UNCHANGED <<clock, offset, hand, reg, chan, stopVars, rest>>

\* The consumer of the channel: Timer.Do, after which a one-shot timer is cancelled.
Do ==
    /\ chan # <<>>
    /\ chan' = Tail(chan)
    /\ LET t == Head(chan) IN
       IF active[t] /\ Oneshot(t) THEN CancelTimers({t}) ELSE UNCHANGED <<bkt, shard, owned, active>>
    /\ UNCHANGED <<clock, offset, levelNow, bexp, delayQueue, pollVars, hand, run, reg, exp, stopVars, rest>>

-----------------------------------------------------------------------------
(* SetTimeOffset: every timer in a bucket is collected, the wheel is moved *)
(* by the difference, and the timers are run or put back.                  *)
SetTimeOffset(o) ==
    /\ ~twClosed /\ o # offset /\ \A r \in run : r.by # "offset"
    /\ LET delta == o - offset
           new == levelNow[1] + delta
           c == [l \in WheelLevels |-> IF levelNow[l] = -1 THEN -1 ELSE Truncate(levelNow[l] + delta, TickOf(l))]
           all == {t \in UNION {bkt[b] : b \in Buckets} : active[t]}
           crossed == {t \in all : delta > 0 /\ new >= exp[t]}
           x == [t \in Timers |-> IF t \in crossed /\ ~Oneshot(t) THEN new + Period[t] ELSE exp[t]]
           back == (all \ crossed) \cup {t \in crossed : ~Oneshot(t)}
       IN  /\ c[1] >= 0 /\ \A t \in Timers : x[t] <= MaxExp
           /\ offset' = o /\ exp' = x
           /\ AddAll(c, back, x, [b \in Buckets |-> {}], [b \in Buckets |-> -1])
           /\ run' = run \cup {ToRun(t, "offset", exp[t], clock + o) : t \in crossed \cup Ready(c, all \ crossed, x)}
           /\ dropped' = dropped \cup {t \in Ready(c, back, x) : ~Oneshot(t)}
    /\ UNCHANGED <<clock, hand, reg, active, shard, owned, chan, stopVars, async>>

-----------------------------------------------------------------------------
(* The two Stops.                                                          *)

\* jobScheduler.Stop waits for registrations in progress (addMu), stops its timers,
\* closes the channel and drains it.
SchedulerStop ==
    /\ MayStop /\ ~sdStop /\ sdStop' = TRUE
    /\ \A t \in Timers : reg[t] \in {"new", "done"}
    /\ CancelTimers(shard) /\ chan' = <<>>
    /\ UNCHANGED <<clock, offset, levelNow, bexp, delayQueue, pollVars, hand, run, reg, exp, twStop, victims, rest>>

\* TimingWheel.Stop: closed and the buckets cleared under operationMu, ...
WheelStop ==
    /\ MayStop /\ twStop = "no" /\ twStop' = "cancel"
    /\ victims' = owned /\ owned' = {}
    /\ bkt' = [b \in Buckets |-> {}] /\ bexp' = [b \in Buckets |-> -1]
    /\ UNCHANGED <<clock, offset, levelNow, delayQueue, pollVars, hand, run, reg, exp, active, shard, chan, sdStop, rest>>

\* ... every timer cancelled, ...
WheelCancel ==
    /\ twStop = "cancel" /\ twStop' = "wait"
    /\ CancelTimers(victims) /\ victims' = {}
    /\ UNCHANGED <<clock, offset, levelNow, bexp, delayQueue, pollVars, hand, run, reg, exp, chan, sdStop, rest>>

\* ... and the poller and the loop awaited.
WheelStopped ==
    /\ twStop = "wait" /\ ~LoopBusy
    /\ twStop' = "stopped" /\ delayQueue' = {}
    /\ UNCHANGED <<clock, offset, levelNow, bkt, bexp, pollVars, hand, run, reg, exp, active, shard, owned, chan, sdStop, victims, rest>>

-----------------------------------------------------------------------------
Machinery ==
    \/ PollTake \/ PollSleep \/ PollWake \/ PollSend \/ FlushBucket
    \/ \E r \in run : RunTimer(r) \/ Rearm(r)

WheelNext ==
    \/ \E t \in Timers : Register(t) \/ RegisterAdd(t) \/ RegisterCheck(t) \/ CancelTimer(t)
    \/ Advance \/ Machinery \/ Do
    \/ \E o \in Offsets : SetTimeOffset(o)
    \/ SchedulerStop \/ WheelStop \/ WheelCancel \/ WheelStopped

\* Time passes and the goroutines of the wheel run; nothing is assumed of the consumer of
\* the callback channel.
WheelFairness ==
    /\ WF_wheelVars(Advance) /\ WF_wheelVars(PollTake) /\ WF_wheelVars(PollSleep) /\ WF_wheelVars(PollWake)
    /\ WF_wheelVars(PollSend) /\ WF_wheelVars(FlushBucket)
    /\ \A t \in Timers : WF_wheelVars(\E r \in run : r.t = t /\ (RunTimer(r) \/ Rearm(r)))

WheelSpec == WheelInit /\ [][WheelNext]_wheelVars /\ WheelFairness

-----------------------------------------------------------------------------
WheelTypeOK ==
    /\ clock \in Instants /\ offset \in Int
    /\ levelNow \in [WheelLevels -> Int] /\ bkt \in [Buckets -> SUBSET Timers] /\ bexp \in [Buckets -> Int]
    /\ delayQueue \subseteq Buckets \X Nat
    /\ poll \in [at : {"check", "sleep", "send"}, until : Int, item : Buckets \cup {None}]
    /\ sleeping \in BOOLEAN /\ wake \in BOOLEAN /\ hand \in Buckets \cup {None}
    /\ run \subseteq [t : Timers, by : {"reg", "loop", "offset"}, stage : {"run", "loop"}, due : Nat, at : Nat]
    /\ reg \in [Timers -> {"new", "add", "check", "done"}]
    /\ exp \in [Timers -> Nat] /\ active \in [Timers -> BOOLEAN]
    /\ shard \subseteq Timers /\ owned \subseteq Timers /\ victims \subseteq Timers /\ dropped \subseteq Timers /\ async \subseteq Timers
    /\ chan \in Seq(Timers) /\ Len(chan) <= ChanSize
    /\ twStop \in {"no", "cancel", "wait", "stopped"} /\ sdStop \in BOOLEAN

\* No timer is run more than a tick before it expires, through whatever levels of the
\* wheel, reinsertions and changes of the offset it went.
NotEarly == \A r \in run : r.due < r.at + Tick

\* A bucket that holds timers has an entry in the delay queue for its expiration, or is
\* on its way from the queue to the loop.
Covered(b) == <<b, bexp[b]>> \in delayQueue \/ poll.item = b \/ hand = b
Held(t) ==
    \/ \E b \in Buckets : t \in bkt[b] /\ Covered(b)
    \/ \E r \in run : r.t = t
    \/ \E i \in DOMAIN chan : chan[i] = t

\* A registered timer that was not cancelled is held somewhere from which it will run: in
\* a bucket the delay queue knows of, with the goroutine that runs it, or, once only, in
\* the channel.  The exception are the periodic timers SetTimeOffset ran with
\* runTimer(timer, false) although it had not put them back: they never run again.
TimerKept ==
    \A t \in Timers : reg[t] = "done" /\ active[t] /\ ~twClosed => Held(t) \/ t \in dropped

\* After Stop of the wheel and the end of what ran beside it, every timer is cancelled and
\* neither the wheel nor the scheduler holds one.
StopCancelsAll ==
    twStop = "stopped" /\ run = {} /\ (\A t \in Timers : reg[t] \in {"new", "done"}) =>
        /\ shard = {} /\ owned = {}
        /\ \A t \in Timers : reg[t] = "done" => ~active[t]

\* No timer is run early, none is lost between the wheel, the delay queue and
\* the scheduler, and Stop cancels every one of them (TimingWheel, DelayQueue,
\* jobScheduler).
TimersSound == WheelTypeOK /\ NotEarly /\ TimerKept /\ StopCancelsAll

\* A timer in the wheel whose time has come is taken out of it.  Timers are armed finitely often, so
\* "eventually none is due" says it of each of them.
Due(t) == exp[t] <= Now /\ \E b \in Buckets : t \in bkt[b]
DueTimersFire == <>[](twClosed \/ \A t \in Timers : ~Due(t))
=============================================================================
