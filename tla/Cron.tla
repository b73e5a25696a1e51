-------------------------------- MODULE Cron --------------------------------
(***************************************************************************)
(* Cron timers (timingwheel/cron.go, spec.go, constantdelay.go, and the    *)
(* loop of ScheduleFunc in timingwheel.go): the fields of a specification  *)
(* are parsed into sets of values, Next looks for the activation after a   *)
(* given instant field by field, and a timer is armed for it again and     *)
(* again, from the activation it served or, when that is over already,     *)
(* from the clock.                                                         *)
(*                                                                         *)
(* The calendar is a parameter: minutes, hours, days, months and years are *)
(* made as short as the cases need.  Instants are half seconds, so that a  *)
(* clock between two seconds occurs; locations have no daylight saving.    *)
(***************************************************************************)
EXTENDS Integers, Sequences, FiniteSets, FiniteSetsExt

CONSTANTS
    SecondsIn, MinutesIn, HoursIn, WeekDays,  \* the length of a minute, an hour, a day, a week
    MonthDays,     \* the days of each month
    LeapMonth, LeapEvery,  \* the month that has a day more every so many years
    Years,         \* the years of the calendar
    YearLimit,     \* how many years Next searches (5)
    Texts,         \* the specifications a timer is given
    CronInstants,  \* when it is given one, in half seconds
    ClockJumps     \* how far the clock may move at once, in half seconds

VARIABLES
    text,       \* the specification of the timer
    wallClock,  \* the clock of the wheel, in half seconds
    base,       \* the instant the expiration was computed from
    due         \* the expiration in seconds, Never when the timer is not armed

cronVars == <<text, wallClock, base, due>>

Never == -1

(***************************************************************************)
(* The parser.  A range is a star or low-high, low alone when high is      *)
(* Absent, and a step, Absent when there is no slash.                      *)
(***************************************************************************)
Absent == -1
Fields == {"second", "minute", "hour", "dom", "month", "dow"}
Bounds(f) ==
    CASE f = "second" -> 0..(SecondsIn - 1)
      [] f = "minute" -> 0..(MinutesIn - 1)
      [] f = "hour"   -> 0..(HoursIn - 1)
      [] f = "dom"    -> 1..Max({MonthDays[m] + 1 : m \in DOMAIN MonthDays})
      [] f = "month"  -> DOMAIN MonthDays
      [] f = "dow"    -> 0..(WeekDays - 1)

Star == [star |-> TRUE, low |-> 0, high |-> Absent, step |-> Absent]
At(n) == [Star EXCEPT !.star = FALSE, !.low = n]

RangeLow(r, f) == IF r.star THEN Min(Bounds(f)) ELSE r.low
\* "N/step" runs to the maximum of the field.
RangeHigh(r, f) ==
    IF r.star \/ (r.high = Absent /\ r.step # Absent) THEN Max(Bounds(f))
    ELSE IF r.high = Absent THEN r.low ELSE r.high

RangeValid(r, f) ==
    /\ RangeLow(r, f) >= Min(Bounds(f)) /\ RangeHigh(r, f) <= Max(Bounds(f))
    /\ RangeLow(r, f) <= RangeHigh(r, f)
    /\ r.step # 0

getRange(r, f) ==
    LET step == IF r.step = Absent THEN 1 ELSE r.step
    IN  {v \in RangeLow(r, f)..RangeHigh(r, f) : (v - RangeLow(r, f)) % step = 0}

\* The star bit survives a step of one only.
StarBit(r) == r.star /\ r.step \in {Absent, 1}

getField(ranges, f) ==
    [bits |-> UNION {getRange(r, f) : r \in ranges}, star |-> \E r \in ranges : StarBit(r)]

\* The default of a field that is left out; only the day of the week may be.
normalizeFields(t) == [f \in Fields |-> IF f \in DOMAIN t THEN t[f] ELSE {Star}]

descriptor(name) ==
    LET starred == [yearly |-> {"dow"}, monthly |-> {"dow", "month"}, weekly |-> {"dom", "month"},
                    daily |-> {"dom", "month", "dow"}, hourly |-> {"hour", "dom", "month", "dow"}]
    IN  [f \in Fields |-> {IF f \in starred[name] THEN Star ELSE At(Min(Bounds(f)))}]

FieldsOf(t) == IF t.kind = "named" THEN descriptor(t.name) ELSE normalizeFields(t.fields)

Parses(t) ==
    \/ t.kind = "every"
    \/ \A f \in Fields : \A r \in FieldsOf(t)[f] : RangeValid(r, f)

Schedule(t) == [f \in Fields |-> getField(FieldsOf(t)[f], f)]

(***************************************************************************)
(* The calendar: days are counted from the first day of year 1.            *)
(***************************************************************************)
DaysIn(y, m) == MonthDays[m] + (IF m = LeapMonth /\ y % LeapEvery = 0 THEN 1 ELSE 0)
YearDays(y) == MapThenSumSet(LAMBDA m : DaysIn(y, m), DOMAIN MonthDays)
MonthStart(y, m) ==
    MapThenSumSet(YearDays, 1..(y - 1)) + MapThenSumSet(LAMBDA k : DaysIn(y, k), 1..(m - 1))

Months == {<<y, m>> : y \in 1..Years, m \in DOMAIN MonthDays}
Starts == [ym \in Months |-> MonthStart(ym[1], ym[2])]
Days == 0..(MonthStart(Years + 1, 1) - 1)
DateOf == [n \in Days |->
             LET ym == CHOOSE p \in Months : Starts[p] <= n /\ n < Starts[p] + DaysIn(p[1], p[2])
             IN  [year |-> ym[1], month |-> ym[2], day |-> n - Starts[ym] + 1]]

HourLen == SecondsIn * MinutesIn
DayLen == HourLen * HoursIn
Date(t) == DateOf[t \div DayLen]
HourOf(t) == (t \div HourLen) % HoursIn
MinuteOf(t) == (t \div SecondsIn) % MinutesIn
SecondOf(t) == t % SecondsIn
Weekday(t) == (t \div DayLen) % WeekDays

(***************************************************************************)
(* SpecSchedule.Next: each loop adds to the first field that does not      *)
(* match, cutting the smaller ones off the first time, and starts over.    *)
(***************************************************************************)
dayMatches(s, t) ==
    LET dom == Date(t).day \in s["dom"].bits
        dow == Weekday(t) \in s["dow"].bits
    IN  IF s["dom"].star \/ s["dow"].star THEN dom /\ dow ELSE dom \/ dow

\* Mutant: the smaller fields are not reset when a larger one moves.
CutKeeps(t, unit, added) == t

Cut(t, unit, added) == IF added THEN t ELSE t - (t % unit)

FirstOfMonth(t, added) ==
    IF added THEN t ELSE Starts[<<Date(t).year, Date(t).month>>] * DayLen

RECURSIVE Search(_, _, _, _)
Search(s, t, added, limit) ==
    CASE Date(t).year > limit -> Never
      [] Date(t).year <= limit /\ Date(t).month \notin s["month"].bits ->
           Search(s, FirstOfMonth(t, added) + DaysIn(Date(t).year, Date(t).month) * DayLen, TRUE, limit)
      [] OTHER ->
           IF ~dayMatches(s, t) THEN Search(s, Cut(t, DayLen, added) + DayLen, TRUE, limit)
           ELSE IF HourOf(t) \notin s["hour"].bits THEN Search(s, Cut(t, HourLen, added) + HourLen, TRUE, limit)
           ELSE IF MinuteOf(t) \notin s["minute"].bits THEN Search(s, Cut(t, SecondsIn, added) + SecondsIn, TRUE, limit)
           ELSE IF SecondOf(t) \notin s["second"].bits THEN Search(s, t + 1, TRUE, limit)
           ELSE t

SpecNext(s, at) ==
    LET t == at \div 2 + 1 IN Search(s, t, FALSE, Date(t).year + YearLimit)

\* ConstantDelaySchedule: at least a second, cut to whole seconds.
EveryNext(delay, at) == at \div 2 + Max({1, delay \div 2})

TimerNext(t, at) ==
    IF ~Parses(t) THEN Never
    ELSE IF t.kind = "every" THEN EveryNext(t.delay, at) ELSE SpecNext(Schedule(t), at)

(***************************************************************************)
(* The timer.                                                              *)
(***************************************************************************)
\* ScheduleFunc; a timer without a next activation is refused.
CronInit ==
    /\ text \in Texts /\ wallClock \in CronInstants
    /\ base = wallClock
    /\ due = TimerNext(text, wallClock)

ClockMoves ==
    /\ due # Never
    /\ \E d \in ClockJumps : wallClock' = wallClock + d
    /\ wallClock' <= Max(CronInstants)
    /\ UNCHANGED <<text, base, due>>

\* The loop function of a timer that expired.
CronRearm ==
    LET next == TimerNext(text, due * 2) IN
    /\ due # Never /\ due * 2 <= wallClock
    /\ base' = IF next # Never /\ next * 2 <= wallClock THEN wallClock ELSE due * 2
    /\ due' = IF next # Never /\ next * 2 <= wallClock THEN TimerNext(text, wallClock) ELSE next
    /\ UNCHANGED <<text, wallClock>>

CronNext == ClockMoves \/ CronRearm

CronSpec == CronInit /\ [][CronNext]_cronVars

(***************************************************************************)
(* Properties.                                                             *)
(***************************************************************************)
Matches(s, t) ==
    /\ Date(t).month \in s["month"].bits /\ dayMatches(s, t)
    /\ HourOf(t) \in s["hour"].bits /\ MinuteOf(t) \in s["minute"].bits /\ SecondOf(t) \in s["second"].bits

\* The timer is armed for the first instant after the one it was computed
\* from that the specification describes, in the years Next searches, and is
\* not armed only when there is none: the field-by-field search of
\* SpecSchedule.Next neither skips an activation nor invents one.
CronExact ==
    text.kind # "every" /\ Parses(text) =>
        LET from == base \div 2 + 1
            last == Starts[<<Date(from).year + YearLimit + 1, 1>>] * DayLen - 1
            s    == Schedule(text)
        IN  /\ \A t \in from..(IF due = Never THEN last ELSE due - 1) : ~Matches(s, t)
            /\ due # Never => due >= from /\ due <= last /\ Matches(s, due)
=============================================================================
