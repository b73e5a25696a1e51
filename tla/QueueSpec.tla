----------------------------- MODULE QueueSpec -----------------------------
(***************************************************************************)
(* What a mailbox configuration makes of a worker pool (worker_pool.go,    *)
(* scheduler.go, strategy.go, strategy_factory.go, scaler.go): fixConf     *)
(* fills the defaults into a copy of the template, normalizeQueueSpec      *)
(* refuses what the bounded backend cannot hold, with its arithmetic       *)
(* checked against the machine word, and the autoscaler then moves the     *)
(* number of workers, each of which allocates its own queues.              *)
(*                                                                         *)
(* The word is Bits wide instead of 64 and the byte sizes are scaled down  *)
(* with it.  Growth and shrink factors are percentages.                    *)
(***************************************************************************)
EXTENDS Integers, FiniteSets, FiniteSetsExt, Functions

CONSTANTS
    PoolNames,        \* the services that build a pool
    Templates,        \* the mailbox configurations they are given
    Unset,            \* a nil pointer in a configuration
    Bits,             \* width of uint64
    SlotBytes,        \* sizeof(IMailboxJob)
    FixedBytes,       \* sizeof(boundedmpsc.Queue)
    DefaultCapacity,  \* config.DefaultMailboxQueueCapacity
    DefaultBudget,    \* config.DefaultMailboxQueueStorageBytes
    NumCPU,           \* runtime.NumCPU()
    JobLens,          \* the queue lengths a strategy may read
    Priorities,       \* the priorities a configuration may list
    Strategies,       \* the load strategies it may ask for
    BuildStrategy(_, _), ScalesUp(_, _), ScalesDown(_, _, _) \* what a strategy does: LoadStrategy

(***************************************************************************)
(* MailboxConf and what it contains, before fixConf; D are the priorities  *)
(* of its levels.                                                          *)
(***************************************************************************)
IdlerConfs == [cond : BOOLEAN, base : Int, max : Int, retries : Int, idle : Int]
ScalingConfs == [growth : Int, shrink : Int, min : Int, max : Int, cool : Int, strategy : Strategies]
MailboxConfs(D) ==
    [backend : STRING, mode : STRING, dual : {Unset} \cup [{"system", "user"} -> Nat],
     levels : {Unset} \cup [D -> Nat], budget : Nat, initial : Int,
     auto : BOOLEAN, idler : {Unset} \cup IdlerConfs, scaling : {Unset} \cup ScalingConfs,
     rw : BOOLEAN, reads : Int, stop : Int, readPool : Int]

ASSUME QueueSpecAssumption ==
    /\ \A t \in Templates : \E D \in SUBSET Priorities : t \in MailboxConfs(D)
    /\ IsFiniteSet(Priorities) /\ Priorities \subseteq Int
    /\ SlotBytes \in Nat /\ FixedBytes \in Nat /\ DefaultCapacity \in Nat /\ DefaultBudget \in Nat

VARIABLES
    stage,    \* of a pool: none, refused, created, running
    conf,     \* its effective configuration
    size,     \* its number of workers
    scaling,  \* its autoscaler: off, starting, ready, cooling, panicked
    shape     \* the strategy the autoscaler was built with

specVars == <<stage, conf, size, scaling, shape>>

SystemPriorities == -3..-1
DefaultPriorities == -3..2

(***************************************************************************)
(* fixConf, on a copy of the template (cloneMailboxConfForFix).            *)
(***************************************************************************)
Positive(v, default) == IF v <= 0 THEN default ELSE v
NonEmpty(s, default) == IF s = "" THEN default ELSE s

FixIdler(i) ==
    LET j == IF i = Unset THEN [cond |-> TRUE, base |-> 0, max |-> 0, retries |-> 0, idle |-> 0] ELSE i
    IN  [cond |-> j.cond, base |-> Positive(j.base, 1), max |-> Positive(j.max, 16),
         retries |-> Positive(j.retries, 3), idle |-> Positive(j.idle, 1000)]

FixScaling(s) ==
    IF s = Unset THEN Unset
    ELSE LET least == Max({s.min, 1})
         IN  [s EXCEPT !.growth = Positive(@, 50),
                       !.shrink = IF @ <= 0 \/ @ > 50 THEN 25 ELSE @,
                       !.min = least,
                       !.max = Max({@, least})]

\* A single worker never separates reads from writes.
FixRW(c, initial) ==
    LET on    == c.rw /\ initial > 1
        reads == IF on THEN Positive(c.reads, Min({NumCPU * 4, 64})) ELSE 0
    IN  [on |-> on, reads |-> reads,
         stop |-> IF on THEN Positive(c.stop, 10) ELSE IF c.rw THEN 0 ELSE c.stop,
         readPool |-> IF on THEN Positive(c.readPool, reads) ELSE c.readPool]

FixConf(c) ==
    LET initial == Positive(c.initial, 1)
        rw      == FixRW(c, initial)
    IN  [c EXCEPT !.backend = NonEmpty(@, "bounded"), !.mode = NonEmpty(@, "dual"),
                  !.initial = initial, !.idler = FixIdler(@), !.scaling = FixScaling(@),
                  !.rw = rw.on, !.reads = rw.reads, !.stop = rw.stop, !.readPool = rw.readPool]

(***************************************************************************)
(* normalizeQueueSpec.                                                     *)
(***************************************************************************)
Overflow == -1
MaxWord == 2^Bits - 1
MaxInt == 2^(Bits - 1) - 1

CheckedAdd(a, b) == IF Overflow \in {a, b} \/ b > MaxWord - a THEN Overflow ELSE a + b
CheckedMul(a, b) ==
    IF Overflow \in {a, b} \/ (a # 0 /\ b > MaxWord \div a) THEN Overflow ELSE a * b

\* The levels of the priority mode; an entry without a configuration is a zero one.
Levels(c) == IF c.levels = Unset \/ DOMAIN c.levels = {}
               THEN [p \in DefaultPriorities |-> 0] ELSE c.levels

\* The unbounded backend reads an unknown mode as dual.
Mode(c) == IF c.backend = "unbounded" /\ c.mode # "priority" THEN "dual" ELSE c.mode

\* The physical queues of one worker and their capacities.
Capacities(c) ==
    LET given == IF Mode(c) = "priority" THEN Levels(c)
                 ELSE IF c.dual = Unset THEN [q \in {"system", "user"} |-> 0] ELSE c.dual
    IN  [q \in DOMAIN given |-> IF given[q] = 0 THEN DefaultCapacity ELSE given[q]]

PowerOfTwo(n) == \E e \in 1..(Bits - 1) : n = 2^e

QueueLayout(n) ==
    LET array == CheckedMul(n, SlotBytes)
    IN  IF array > MaxInt THEN Overflow ELSE CheckedAdd(FixedBytes, array)

\* The bytes of one worker; the slots are added up, and checked, as well.
WorkerLayout(caps) ==
    LET layouts == [q \in DOMAIN caps |-> QueueLayout(caps[q])]
    IN  IF FoldFunction(CheckedAdd, 0, caps) = Overflow THEN Overflow
        ELSE FoldFunction(CheckedAdd, 0, layouts)

\* Mutant: the budget is checked for the initial workers only.
BudgetWorkersInitial(c) == c.initial

BudgetWorkers(c) == IF c.auto THEN c.scaling.max ELSE c.initial

Budget(c) == IF c.budget = 0 THEN DefaultBudget ELSE c.budget

ModeAccepted(c) ==
    \/ c.mode = "dual"
    \/ /\ c.mode = "priority"
       /\ SystemPriorities \subseteq DOMAIN Levels(c)
       /\ Max(DOMAIN Levels(c)) >= 0

ScalingAccepted(c) ==
    c.auto => c.scaling # Unset /\ c.scaling.max >= c.initial /\ c.scaling.cool > 0

StorageAccepted(c) ==
    LET caps  == Capacities(c)
        total == CheckedMul(WorkerLayout(caps), BudgetWorkers(c))
    IN  /\ \A q \in DOMAIN caps : PowerOfTwo(caps[q])
        /\ total # Overflow /\ total <= Budget(c)

NormalizeAccepts(c) ==
    \/ c.backend = "unbounded"
    \/ c.backend = "bounded" /\ ModeAccepted(c) /\ ScalingAccepted(c) /\ StorageAccepted(c)

(***************************************************************************)
(* The life of a pool.                                                     *)
(***************************************************************************)
QueueConfInit ==
    /\ stage = [p \in PoolNames |-> "none"]
    /\ conf = [p \in PoolNames |-> Unset]
    /\ size = [p \in PoolNames |-> 0]
    /\ scaling = [p \in PoolNames |-> "off"]
    /\ shape = [p \in PoolNames |-> Unset]

NewWorkerPool(p, t) ==
    /\ stage[p] = "none"
    /\ conf' = [conf EXCEPT ![p] = FixConf(t)]
    /\ stage' = [stage EXCEPT ![p] = IF NormalizeAccepts(FixConf(t)) THEN "created" ELSE "refused"]
    /\ UNCHANGED <<size, scaling, shape>>

StartPool(p) ==
    /\ stage[p] = "created"
    /\ stage' = [stage EXCEPT ![p] = "running"]
    /\ size' = [size EXCEPT ![p] = conf[p].initial]
    /\ scaling' = [scaling EXCEPT ![p] = IF conf[p].auto THEN "starting" ELSE "off"]
    /\ UNCHANGED <<conf, shape>>

\* Without a strategy, or with a cool-down that is no interval, NewTicker panics.
StartScaler(p) ==
    LET s == conf[p].scaling IN
    /\ scaling[p] = "starting"
    /\ scaling' = [scaling EXCEPT ![p] =
                      IF s = Unset THEN "panicked"
                      ELSE IF ~BuildStrategy(s.strategy, 0) THEN "off"
                      ELSE IF s.cool <= 0 THEN "panicked" ELSE "ready"]
    /\ shape' = [shape EXCEPT ![p] = IF s = Unset THEN Unset ELSE s.strategy]
    /\ UNCHANGED <<stage, conf, size>>

Bounded(n, s) == Min({Max({n, s.min}), s.max})

\* ShouldResize and resizeWorkers: every evaluation starts a cool-down.
Evaluate(p, lens) ==
    LET s == conf[p].scaling
        n == size[p]
    IN  /\ scaling[p] = "ready"
        /\ scaling' = [scaling EXCEPT ![p] = "cooling"]
        /\ size' = [size EXCEPT ![p] =
               IF ScalesUp(shape[p], lens) THEN Bounded(n + ((n * s.growth + 99) \div 100), s)
               ELSE IF ScalesDown(shape[p], lens, s.min)
                      THEN Bounded(n - ((n * s.shrink) \div 100), s) ELSE n]
        /\ UNCHANGED <<stage, conf, shape>>

CoolDownEnds(p) ==
    /\ scaling[p] = "cooling"
    /\ scaling' = [scaling EXCEPT ![p] = "ready"]
    /\ UNCHANGED <<stage, conf, size, shape>>

QueueConfNext ==
    \E p \in PoolNames :
        \/ \E t \in Templates : NewWorkerPool(p, t)
        \/ StartPool(p)
        \/ StartScaler(p)
        \/ \E lens \in [1..size[p] -> JobLens] : Evaluate(p, lens)
        \/ CoolDownEnds(p)

QueueConfSpec == QueueConfInit /\ [][QueueConfNext]_specVars

(***************************************************************************)
(* Properties.                                                             *)
(***************************************************************************)
\* The queues of all the workers of a bounded pool fit the storage budget of
\* its configuration, computed without a word size, at every number of
\* workers the autoscaler ever reaches: normalizeQueueSpec budgets for the
\* workers resizeWorkers may later start, and its word never wraps.
StorageWithinBudget ==
    \A p \in PoolNames :
        stage[p] = "running" /\ conf[p].backend = "bounded" =>
            LET caps == Capacities(conf[p])
            IN  size[p] * FoldFunction(LAMBDA n, b : b + FixedBytes + n * SlotBytes, 0, caps)
                    <= Budget(conf[p])

=============================================================================
