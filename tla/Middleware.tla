----------------------------- MODULE Middleware -----------------------------
(***************************************************************************)
(* The middlewares of the mailboxes of one process: the chain              *)
(* (middleware_chain.go) with the middlewares the factory puts into it     *)
(* (middleware_factory.go): dispatch key statistics, the Sentinel circuit  *)
(* breaker and the rate limiter, followed by the service's own.            *)
(*                                                                         *)
(* Sentinel keeps one set of rules per resource for the whole process;     *)
(* every Sentinel middleware registers its rules under its own owner name  *)
(* and reloads a resource from all owners (sentinel_middleware.go).  The   *)
(* flow, breaker and system rules are handled in a critical section each.  *)
(* Sentinel's own decisions, the token bucket and the clock are external.  *)
(***************************************************************************)
EXTENDS Integers, Sequences, FiniteSets, SequencesExt

CONSTANTS
    Boxes,       \* the mailboxes; each has a middleware chain
    ServiceOf,   \* the service name a mailbox is created for
    ConfOf,      \* its MiddlewareConf: which middlewares are enabled
    CustomOf,    \* the service's own middlewares, see Custom below
    Msgs,        \* the jobs posted
    BoxOf, TypeOf, KeyOf, UrgentMsgs,   \* where to, which type, which dispatcherKey, which are urgent
    JobTypes,    \* the built-in job types
    Shards, ShardOfKey, MaxKeys,        \* the statistics' shards (1..Shards) and their cap
    MaxReports   \* bound: ticks of the statistics' ticker

ASSUME MiddlewareAssumption ==
    /\ \A b \in Boxes : Len(CustomOf[b]) \in Nat
    /\ BoxOf \in [Msgs -> Boxes] /\ Shards \in Nat /\ MaxKeys \in Nat /\ MaxReports \in Nat

(***************************************************************************)
(* NewSentinelMiddleware: the options are applied one after the other.  An *)
(* option is a record; a rule is a name, its numbers are left out.         *)
(***************************************************************************)
TypeResource(s, t) == <<s, t>>
ServiceResource(s) == <<s>>
TypeResources(s) == {TypeResource(s, t) : t \in JobTypes}

EmptyMw(s) ==
    [kind |-> "sentinel", service |-> s, flow |-> {}, breaker |-> {}, flowBy |-> {}, breakerBy |-> {},
     system |-> {}, resources |-> {}, byType |-> FALSE, typed |-> FALSE, skip |-> FALSE]

\* addFlowRulesForResource, addCircuitBreakerRulesForResource
AddRuleForResource(m, field, r, rule) ==
    [m EXCEPT !.resources = @ \cup {r}, ![field] = @ \cup {<<r, rule>>}]

ByResource(field) == IF field = "flow" THEN "flowBy" ELSE "breakerBy"

\* WithFlowRule ... WithJobTypeErrorCountRule: a rule of the service, of a
\* resource, or of a job type, which also turns the job type mode on.
WithRule(m, o) ==
    CASE o.scope = "service"  -> [m EXCEPT ![o.field] = @ \cup {o.rule}]
      [] o.scope = "resource" -> AddRuleForResource(m, ByResource(o.field), o.at, o.rule)
      [] o.scope = "type"     -> [AddRuleForResource(m, ByResource(o.field), TypeResource(m.service, o.at), o.rule)
                                    EXCEPT !.byType = TRUE]

WithSystemRule(m, o) == [m EXCEPT !.system = @ \cup {o.rule}]

\* WithSentinelSkipFunc, WithSentinelRuleResources, WithResourceFunc
WithFunc(m, o) ==
    CASE o.opt = "skip"      -> [m EXCEPT !.skip = TRUE]
      [] o.opt = "resources" -> [m EXCEPT !.resources = @ \cup o.at]
      [] o.opt = "typed"     -> [m EXCEPT !.typed = TRUE]

ApplyOption(m, o) ==
    CASE o.opt = "rule"   -> WithRule(m, o)
      [] o.opt = "system" -> WithSystemRule(m, o)
      [] OTHER            -> WithFunc(m, o)

NewSentinelMiddleware(s, opts) ==
    LET m == FoldLeft(ApplyOption, EmptyMw(s), opts) IN
    IF m.byType /\ ~m.typed
      THEN [m EXCEPT !.resources = @ \cup TypeResources(s), !.typed = TRUE]
      ELSE m

\* NewSentinelMiddlewareWithJobType
NewSentinelMiddlewareWithJobType(s, opts) ==
    NewSentinelMiddleware(s, opts \o <<[opt |-> "resources", at |-> TypeResources(s)], [opt |-> "typed"]>>)

\* NewSimpleSentinelMiddleware: the thresholds that are set become rules.
NewSimpleSentinelMiddleware(s, qps, ratio) ==
    NewSentinelMiddleware(s,
        (IF qps THEN <<[opt |-> "rule", scope |-> "service", field |-> "flow", rule |-> "qps"]>> ELSE <<>>) \o
        (IF ratio THEN <<[opt |-> "rule", scope |-> "service", field |-> "breaker", rule |-> "ratio"]>> ELSE <<>>))

effectiveRuleResources(m) ==
    {ServiceResource(m.service)} \cup m.resources \cup {p[1] : p \in m.flowBy \cup m.breakerBy}

\* flowRulesForResource, circuitBreakerRulesForResource: the general rules
\* and the resource's own, as copies that name the resource.
FlowRulesFor(m, r) == m.flow \cup {p[2] : p \in {q \in m.flowBy : q[1] = r}}
BreakerRulesFor(m, r) == m.breaker \cup {p[2] : p \in {q \in m.breakerBy : q[1] = r}}

(***************************************************************************)
(* CreateMiddlewaresFromConfig and MergeMiddlewares.                       *)
(***************************************************************************)
ConfigMiddlewares(b) ==
    LET c == ConfOf[b] IN
    (IF c.stats THEN <<[kind |-> "stats"]>> ELSE <<>>) \o
    (IF c.breaker
       THEN <<NewSentinelMiddleware(ServiceOf[b],
                <<[opt |-> "rule", scope |-> "service", field |-> "breaker", rule |-> "count"]>>)>>
       ELSE <<>>) \o
    (IF c.limit THEN <<[kind |-> "limit", skip |-> c.skipUrgent]>> ELSE <<>>)

\* The service's own middleware: a Sentinel of the given kind, or one that
\* may do anything a middleware may.
Custom(b, c) ==
    CASE c.make = "new"    -> NewSentinelMiddleware(ServiceOf[b], c.opts)
      [] c.make = "typed"  -> NewSentinelMiddlewareWithJobType(ServiceOf[b], c.opts)
      [] c.make = "simple" -> NewSimpleSentinelMiddleware(ServiceOf[b], TRUE, TRUE)
      [] c.make = "user"   -> [kind |-> "user"]

ChainOf == [b \in Boxes |-> ConfigMiddlewares(b) \o [i \in 1..Len(CustomOf[b]) |-> Custom(b, CustomOf[b][i])]]

\* The owners, by mailbox and place in the chain.
Owners == UNION {{b} \X {i \in 1..Len(ChainOf[b]) : ChainOf[b][i].kind = "sentinel"} : b \in Boxes}
Mw(o) == ChainOf[o[1]][o[2]]
Resources == UNION {effectiveRuleResources(Mw(o)) : o \in Owners} \cup
             UNION {TypeResources(ServiceOf[b]) : b \in Boxes}
Sorts == {"flow", "breaker"}

VARIABLES
    mwLife,      \* per mailbox: where chain.Start or chain.Stop is, middleware i and its section k
    inited,      \* sentinelInitOnce and its result
    ruleOwners,  \* sentinelFlowRules, sentinelBreakerRules, sentinelSystemRules: who is in
    loaded,      \* the rules Sentinel has, per sort and resource; owner and rule
    loadedSys,   \* the system rules Sentinel has
    walk,        \* per job: where it is; executed is the length of the chain's prefix that saw it
    slot,        \* the context's value under sentinelEntryKey: the middleware that set it, or 0
    open,        \* Sentinel entries taken and not exited, by job and place
    traced,      \* entries an error was reported for
    counts,      \* per mailbox and key: the statistics
    totalKeys, reporter, reports,
    counted, reported  \* history: how often a key was counted and reported

ruleVars == <<mwLife, inited, ruleOwners, loaded, loadedSys>>
jobVars == <<walk, slot, open, traced>>
statVars == <<counts, totalKeys, reporter, reports, reported, counted>>
mwVars == <<ruleVars, jobVars, statVars>>

Keys == {KeyOf[j] : j \in Msgs}

\* What OnStart and OnStop of a middleware do to state others see, section by section.
StartSections(m) ==
    CASE m.kind = "sentinel" -> <<"init", "flow", "breaker", "system">>
      [] m.kind = "stats"    -> <<"stats">>
      [] OTHER               -> <<>>

StopSections(m) ==
    CASE m.kind = "sentinel" -> <<"flow", "breaker", "system">>
      [] m.kind = "stats"    -> <<"stats">>
      [] OTHER               -> <<>>

InChain(b) == mwLife[b].at \in {"starting", "stopping"} /\ mwLife[b].i \in 1..Len(ChainOf[b])
Sections(b) ==
    LET m == ChainOf[b][mwLife[b].i] IN
    IF mwLife[b].at = "starting" THEN StartSections(m) ELSE StopSections(m)
AtSection(b, s) == InChain(b) /\ mwLife[b].k <= Len(Sections(b)) /\ Sections(b)[mwLife[b].k] = s

MwInit ==
    /\ mwLife = [b \in Boxes |-> [at |-> "new", i |-> 0, k |-> 0]]
    /\ inited = "no"
    /\ ruleOwners = [s \in Sorts \cup {"system"} |-> {}]
    /\ loaded = [s \in Sorts |-> [r \in Resources |-> {}]]
    /\ loadedSys = {}
    /\ walk = [j \in Msgs |-> [at |-> "new", executed |-> 0]]
    /\ slot = [j \in Msgs |-> 0]
    /\ open = {} /\ traced = {}
    /\ counts = [b \in Boxes |-> [k \in Keys |-> 0]]
    /\ totalKeys = [b \in Boxes |-> 0]
    /\ reporter = [b \in Boxes |-> [at |-> "no", shard |-> 0]]
    /\ reports = 0
    /\ reported = [b \in Boxes |-> [k \in Keys |-> 0]] /\ counted = [b \in Boxes |-> [k \in Keys |-> 0]]

(***************************************************************************)
(* The rules.  RulesOf: what an owner registers for a resource; an owner   *)
(* without rules of a sort is left out of its registry.                    *)
(***************************************************************************)
RulesOf(s, o, r) ==
    IF r \notin effectiveRuleResources(Mw(o)) THEN {}
    ELSE IF s = "flow" THEN FlowRulesFor(Mw(o), r) ELSE BreakerRulesFor(Mw(o), r)

HasRules(s, m) ==
    CASE s = "flow"    -> m.flow # {} \/ m.flowBy # {}
      [] s = "breaker" -> m.breaker # {} \/ m.breakerBy # {}
      [] s = "system"  -> m.system # {}

\* reloadSentinelFlowRulesLocked, reloadSentinelBreakerRulesLocked: all
\* owners' rules of the resource, or none.
Merged(s, owners, r) == UNION {{o} \X RulesOf(s, o, r) : o \in owners}

Reload(s, owners, rs) ==
    loaded' = [loaded EXCEPT ![s] = [r \in Resources |-> IF r \in rs THEN Merged(s, owners, r) ELSE @[r]]]

\* reloadSentinelSystemRulesLocked: equal rules of two owners are loaded once.
ReloadSystem(owners) == loadedSys' = UNION {Mw(o).system : o \in owners}

\* A section of OnStart: registers the owner and reloads what it has rules for.
LoadSection(s, o) ==
    /\ inited = "ok" /\ HasRules(s, Mw(o))
    /\ ruleOwners' = [ruleOwners EXCEPT ![s] = @ \cup {o}]
    /\ IF s = "system"
         THEN ReloadSystem(ruleOwners'[s]) /\ UNCHANGED loaded
         ELSE /\ Reload(s, ruleOwners'[s], {r \in effectiveRuleResources(Mw(o)) : RulesOf(s, o, r) # {}})
              /\ UNCHANGED loadedSys

\* Mutant: OnStop clears the resources it had rules for.
UnloadClears(s, o) ==
    /\ HasRules(s, Mw(o))
    /\ ruleOwners' = [ruleOwners EXCEPT ![s] = @ \ {o}]
    /\ IF s = "system"
         THEN ReloadSystem(ruleOwners'[s]) /\ UNCHANGED loaded
         ELSE Reload(s, {}, effectiveRuleResources(Mw(o))) /\ UNCHANGED loadedSys

\* A section of OnStop: only this owner is removed.
UnloadSection(s, o) ==
    /\ HasRules(s, Mw(o))
    /\ ruleOwners' = [ruleOwners EXCEPT ![s] = @ \ {o}]
    /\ IF s = "system"
         THEN ReloadSystem(ruleOwners'[s]) /\ UNCHANGED loaded
         ELSE Reload(s, ruleOwners'[s], effectiveRuleResources(Mw(o))) /\ UNCHANGED loadedSys

\* Start takes the middlewares in their order, Stop in the reverse one.
BeginLife(b) ==
    /\ \/ /\ mwLife[b].at = "new"
          /\ mwLife' = [mwLife EXCEPT ![b] = [at |-> "starting", i |-> 1, k |-> 1]]
       \/ /\ mwLife[b].at = "on"
          /\ mwLife' = [mwLife EXCEPT ![b] = [at |-> "stopping", i |-> Len(ChainOf[b]), k |-> 1]]
    /\ UNCHANGED <<inited, ruleOwners, loaded, loadedSys, jobVars, statVars>>

NextMiddleware(b) ==
    /\ InChain(b) /\ mwLife[b].k > Len(Sections(b))
    /\ mwLife' = [mwLife EXCEPT ![b].i = IF mwLife[b].at = "starting" THEN @ + 1 ELSE @ - 1, ![b].k = 1]
    /\ UNCHANGED <<inited, ruleOwners, loaded, loadedSys, jobVars, statVars>>

EndLife(b) ==
    /\ mwLife[b].at \in {"starting", "stopping"} /\ ~InChain(b)
    /\ mwLife' = [mwLife EXCEPT ![b].at = IF @ = "starting" THEN "on" ELSE "off"]
    /\ UNCHANGED <<inited, ruleOwners, loaded, loadedSys, jobVars, statVars>>

SectionDone(b) == mwLife' = [mwLife EXCEPT ![b].k = @ + 1]

\* sentinelInitOnce: the first OnStart initialises the library, and may fail.
InitOnce(b) ==
    /\ AtSection(b, "init")
    /\ inited' \in IF inited = "no" THEN {"ok", "failed"} ELSE {inited}
    /\ SectionDone(b)
    /\ UNCHANGED <<ruleOwners, loaded, loadedSys, jobVars, statVars>>

RuleSection(b, s) ==
    /\ AtSection(b, s)
    /\ LET o == <<b, mwLife[b].i>>
           work == HasRules(s, Mw(o)) /\ (mwLife[b].at = "starting" => inited = "ok") IN
       \/ work /\ mwLife[b].at = "starting" /\ LoadSection(s, o)
       \/ work /\ mwLife[b].at = "stopping" /\ UnloadSection(s, o)
       \/ ~work /\ UNCHANGED <<ruleOwners, loaded, loadedSys>>
    /\ SectionDone(b)
    /\ UNCHANGED <<inited, jobVars, statVars>>

(***************************************************************************)
(* The statistics: OnReceive counts a key under its shard's lock; the      *)
(* ticker's goroutine collects and clears the shards one by one and then   *)
(* sets the number of keys to 0.                                           *)
(***************************************************************************)
\* OnStart launches the goroutine; OnStop closes stopCh and waits for it.
StatsSection(b) ==
    /\ AtSection(b, "stats")
    /\ \/ /\ mwLife[b].at = "starting"
          /\ reporter' = [reporter EXCEPT ![b].at = "wait"]
       \/ /\ mwLife[b].at = "stopping" /\ reporter[b].at = "done"
          /\ UNCHANGED reporter
    /\ SectionDone(b)
    /\ UNCHANGED <<inited, ruleOwners, loaded, loadedSys, jobVars, counts, totalKeys, reports, reported, counted>>

StopAsked(b) == mwLife[b].at = "stopping" /\ AtSection(b, "stats")

\* The ticker's case and the stopCh case of the goroutine's select.
ReportBegin(b) ==
    /\ reporter[b].at = "wait"
    /\ \/ reports < MaxReports /\ reports' = reports + 1 /\ reporter' = [reporter EXCEPT ![b] = [at |-> "tick", shard |-> 1]]
       \/ StopAsked(b) /\ reporter' = [reporter EXCEPT ![b] = [at |-> "last", shard |-> 1]] /\ UNCHANGED reports
    /\ UNCHANGED <<ruleVars, jobVars, counts, totalKeys, reported, counted>>

InShard(i) == {k \in Keys : ShardOfKey[k] = i}

ReportCollect(b) ==
    /\ reporter[b].at \in {"tick", "last"} /\ reporter[b].shard <= Shards
    /\ LET i == reporter[b].shard IN
       /\ reported' = [reported EXCEPT ![b] = [k \in Keys |-> @[k] + IF k \in InShard(i) THEN counts[b][k] ELSE 0]]
       /\ counts' = [counts EXCEPT ![b] = [k \in Keys |-> IF k \in InShard(i) THEN 0 ELSE @[k]]]
       /\ reporter' = [reporter EXCEPT ![b].shard = @ + 1]
    /\ UNCHANGED <<ruleVars, jobVars, totalKeys, reports, counted>>

ReportEnd(b) ==
    /\ reporter[b].at \in {"tick", "last"} /\ reporter[b].shard = Shards + 1
    /\ totalKeys' = [totalKeys EXCEPT ![b] = 0]
    /\ reporter' = [reporter EXCEPT ![b].at = IF @ = "last" THEN "done" ELSE "wait"]
    /\ UNCHANGED <<ruleVars, jobVars, counts, reports, reported, counted>>

(***************************************************************************)
(* ExecuteOnReceive: the middlewares see the job one after the other.      *)
(***************************************************************************)
Reached(j) == Len(ChainOf[BoxOf[j]]) > walk[j].executed /\ walk[j].at \in {"new", "walk"}
MwAt(j) == ChainOf[BoxOf[j]][walk[j].executed + 1]

\* The middleware says Continue: the next one, or the queue.
Continue(j) ==
    walk' = [walk EXCEPT ![j] =
        [at |-> IF @.executed + 1 = Len(ChainOf[BoxOf[j]]) THEN "queued" ELSE "walk", executed |-> @.executed + 1]]

\* Reject or a panic, and Skip, count the middleware as executed.
EndWalk(j, at) == walk' = [walk EXCEPT ![j] = [at |-> at, executed |-> @.executed + 1]]

StatsOnReceive(j) ==
    LET b == BoxOf[j]
        k == KeyOf[j] IN
    /\ Reached(j) /\ MwAt(j).kind = "stats"
    /\ \/ /\ counts[b][k] > 0 \/ totalKeys[b] < MaxKeys
          /\ counts' = [counts EXCEPT ![b][k] = @ + 1]
          /\ totalKeys' = [totalKeys EXCEPT ![b] = IF counts[b][k] > 0 THEN @ ELSE @ + 1]
          /\ counted' = [counted EXCEPT ![b][k] = @ + 1]
       \/ /\ counts[b][k] = 0 /\ totalKeys[b] >= MaxKeys
          /\ UNCHANGED <<counts, totalKeys, counted>>
    /\ Continue(j)
    /\ UNCHANGED <<ruleVars, slot, open, traced, reporter, reports, reported>>

\* The token bucket is external: it may have a token or not.
LimitOnReceive(j) ==
    /\ Reached(j) /\ MwAt(j).kind = "limit"
    /\ \/ Continue(j)
       \/ ~(MwAt(j).skip /\ j \in UrgentMsgs) /\ EndWalk(j, "rejected")
    /\ UNCHANGED <<ruleVars, slot, open, traced, statVars>>

\* DefaultSentinelSkipFunc
Skips(m, j) == m.skip /\ j \in UrgentMsgs

ResourceOf(m, j) == IF m.typed THEN TypeResource(m.service, TypeOf[j]) ELSE ServiceResource(m.service)

\* sentinel.Entry: a resource is blocked only by rules that are loaded.
MayBlock(r) == loadedSys # {} \/ \E s \in Sorts : r \in Resources /\ loaded[s][r] # {}

SentinelOnReceive(j) ==
    LET m == MwAt(j)
        i == walk[j].executed + 1 IN
    /\ Reached(j) /\ m.kind = "sentinel"
    /\ \/ Skips(m, j) /\ Continue(j) /\ UNCHANGED <<slot, open>>
       \/ /\ ~Skips(m, j)
          /\ slot' = [slot EXCEPT ![j] = i]
          /\ open' = open \cup {<<j, i>>}
          /\ Continue(j)
       \/ /\ ~Skips(m, j) /\ MayBlock(ResourceOf(m, j))
          /\ EndWalk(j, "rejected") /\ UNCHANGED <<slot, open>>
    /\ UNCHANGED <<ruleVars, traced, statVars>>

UserOnReceive(j) ==
    /\ Reached(j) /\ MwAt(j).kind = "user"
    /\ Continue(j) \/ EndWalk(j, "rejected") \/ EndWalk(j, "queued")
    /\ UNCHANGED <<ruleVars, slot, open, traced, statVars>>

(***************************************************************************)
(* ExecuteOnComplete and ExecuteFrameworkCleanup walk the executed prefix  *)
(* backwards; a panic of one is recovered. Both exit the Sentinel entry    *)
(* found in the context, and Exit does nothing the second time.            *)
(***************************************************************************)
SentinelsIn(j) == {i \in 1..walk[j].executed : ChainOf[BoxOf[j]][i].kind = "sentinel"}

\* exitEntry of every Sentinel middleware of the prefix: the entry in the slot.
ExitEntry(j) == IF SentinelsIn(j) = {} \/ slot[j] = 0 THEN {} ELSE {<<j, slot[j]>>}

EndJob(j, failed) ==
    /\ open' = open \ ExitEntry(j)
    /\ traced' = IF failed THEN traced \cup (open \cap ExitEntry(j)) ELSE traced
    \* the context is reset and goes back to the pool
    /\ slot' = [slot EXCEPT ![j] = 0]
    /\ walk' = [walk EXCEPT ![j].at = IF failed THEN "failed" ELSE "done"]
    /\ UNCHANGED <<ruleVars, statVars>>

\* After the handler, with an error, a panic, or neither.
ExecuteOnComplete(j) == walk[j].at = "queued" /\ \E failed \in BOOLEAN : EndJob(j, failed)

\* PostJob completes a rejected job itself.
CompleteRejected(j) == walk[j].at = "rejected" /\ EndJob(j, TRUE)

\* A worker that could not be stopped drains: only the framework's resources are released.
ExecuteFrameworkCleanup(j) == walk[j].at = "queued" /\ EndJob(j, TRUE)

MwNext ==
    \/ \E b \in Boxes :
         \/ BeginLife(b) \/ NextMiddleware(b) \/ EndLife(b) \/ InitOnce(b) \/ StatsSection(b)
         \/ \E s \in Sorts \cup {"system"} : RuleSection(b, s)
         \/ ReportBegin(b) \/ ReportCollect(b) \/ ReportEnd(b)
    \/ \E j \in Msgs :
         \/ StatsOnReceive(j) \/ LimitOnReceive(j) \/ SentinelOnReceive(j) \/ UserOnReceive(j)
         \/ ExecuteOnComplete(j) \/ CompleteRejected(j) \/ ExecuteFrameworkCleanup(j)

MwSpec == MwInit /\ [][MwNext]_mwVars

(***************************************************************************)
(* Properties.                                                             *)
(***************************************************************************)
\* Mailboxes that share a resource do not take each other's rules away (the comment at
\* sentinel_middleware.go:38-41): what Sentinel has for a resource are the rules of the
\* mailboxes whose Start is over and whose Stop has not begun, all of them, and nothing of a
\* mailbox that has stopped or that never started; none when the library failed to start.
RulesExact ==
    \A o \in Owners, s \in Sorts, r \in Resources :
        LET mine == {p \in loaded[s][r] : p[1] = o} IN
        /\ mwLife[o[1]].at \in {"new", "off"} \/ inited # "ok" => mine = {}
        /\ mwLife[o[1]].at = "on" /\ inited = "ok" => mine = {o} \X RulesOf(s, o, r)
        /\ mwLife[o[1]].at = "on" /\ inited = "ok" => Mw(o).system \subseteq loadedSys

\* A Sentinel entry is exited on every way a job can end: by the handler, by a rejection of a
\* later middleware, by the unsafe drain; a job that is over holds none, and Sentinel has been
\* told of the error exactly when there was one. (An entry that is never exited counts as a
\* request in flight for ever.) The exception are entries of a chain with several Sentinel
\* middlewares, which share sentinelEntryKey: a later one overwrites the entry of the earlier.
EntriesBalanced ==
    /\ \A e \in open : \/ walk[e[1]].at \in {"walk", "queued", "rejected"}
                       \/ \E i \in SentinelsIn(e[1]) : i > e[2]
    /\ \A e \in traced : walk[e[1]].at = "failed"

\* The statistics lose nothing: what was counted of a key has been reported or is still in its
\* shard, however receiving, collecting shard by shard and stopping interleave.
StatsConserved ==
    \A b \in Boxes, k \in Keys : counted[b][k] = reported[b][k] + counts[b][k]

\* Sentinel holds the rules of the middlewares that run and no others, although mailboxes of one
\* service share them; every entry a message opens is closed once; and the key statistics lose and
\* invent no message (SentinelMiddleware, DispatchKeyStats).
MiddlewareSound == RulesExact /\ EntriesBalanced /\ StatsConserved
=============================================================================
