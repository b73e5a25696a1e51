-------------------------------- MODULE Authz --------------------------------
(***************************************************************************)
(* The authorisation of calls: the Authorizer's roles and bindings, and    *)
(* the PolicyWatcher that loads a policy snapshot from etcd when the node  *)
(* starts and applies every later one a watch delivers.                    *)
(*                                                                         *)
(* etcd is external: it stores the snapshot, delivers in order what        *)
(* changes under the watched prefix after a watch began (the snapshot, and *)
(* any other key), and may break a watch. Strings are sequences of         *)
(* tokens, so that prefixes and surrounding spaces keep their meaning.     *)
(***************************************************************************)
EXTENDS Naturals, Sequences, FiniteSets, SequencesExt

CONSTANTS
    Snapshots,       \* names of the values of <prefix>/snapshot, Garbled among them
    RolesOf,         \* a snapshot's roles: a function from names to sequences of permissions
    BindingsOf,      \* a snapshot's bindings: a set of [types, roles]
    Garbled,         \* a value json.Unmarshal refuses
    ServiceTypes, Targets, \* callers' types; targets: service.method
    FailOpen,        \* PolicyWatcherConfig.FailOpen
    LoadTimeout,     \* InitialLoadTimeout > 0
    MaxEdits,        \* bound: changes of keys under the prefix
    MaxLocal,        \* bound: calls of AddRole, RemoveRole, BindRole, UnbindRole
    MaxBreaks        \* bound: loads and watches etcd fails

ASSUME AuthzAssumption == Garbled \in Snapshots /\ FailOpen \in BOOLEAN /\ LoadTimeout \in BOOLEAN

VARIABLES
    roles,        \* Authorizer.roles: a function from names to permissions
    bindings,     \* Authorizer.bindings: a service type's roles
    stored,       \* the snapshot in etcd, or Absent
    start,        \* Start: "load", "apply", "watch", "setup" (Start returned, the node goes on), "up", "failed"
    loaded,       \* the snapshot Load read
    ctxDone,      \* w.ctx is cancelled
    wch,          \* the watch: "none", "open", "closed"
    events,       \* the changes between etcd and watchLoop, in order: [own (of the snapshot's key), value]
    stopping,     \* Stop: "no", "wait", "done"
    unseen,       \* history: a change between Load and Watch
    touched,      \* history: roles or bindings changed by hand since the last snapshot
    foreign,      \* history: the policy in force is the value of another key under the prefix
    edits, locals, breaks

policyVars == <<roles, bindings, touched>>
watchVars == <<start, loaded, ctxDone, wch, events, stopping>>
authzVars == <<policyVars, watchVars, stored, unseen, foreign, edits, locals, breaks>>

Absent == "absent"
Star == "*"
Blank == " "

(***************************************************************************)
(* Permissions.                                                            *)
(***************************************************************************)
TrimLeft(p) == IF p # <<>> /\ Head(p) = Blank THEN Tail(p) ELSE p
TrimRight(p) == IF p # <<>> /\ Last(p) = Blank THEN Front(p) ELSE p
TrimSpace(p) == TrimLeft(TrimRight(p))

\* A dot, and not in the first place
validatePermission(p) ==
    LET perm == TrimSpace(p)
    IN  perm # <<>> /\ (perm = <<Star>> \/ \E i \in 2..Len(perm) : perm[i] = "." /\ \A j \in 1..(i - 1) : perm[j] # ".")

Validate(roleTable, bound) ==
    /\ \A name \in DOMAIN roleTable : \A i \in DOMAIN roleTable[name] : validatePermission(roleTable[name][i])
    /\ \A b \in bound : b.types # {} /\ b.roles # {} /\ b.roles \subseteq DOMAIN roleTable

\* Normalize: trimmed, without the empty ones; an order without repetitions is a set.
Normalize(perms) == {TrimSpace(perms[i]) : i \in DOMAIN perms} \ {<<>>}

matchPermission(pattern, resource) ==
    \/ pattern = <<Star>>
    \/ Last(pattern) = Star /\ IsPrefix(Front(pattern), resource)
    \/ pattern = resource

Authorize(type, resource) ==
    \E name \in bindings[type] \intersect DOMAIN roles : \E p \in roles[name] : matchPermission(p, resource)

\* What the Authorizer grants while it is enabled
Granted == {g \in ServiceTypes \X Targets : Authorize(g[1], g[2])}

(***************************************************************************)
(* The Authorizer. Every operation holds its lock.                         *)
(***************************************************************************)
ApplySnapshot(s) ==
    IF Validate(RolesOf[s], BindingsOf[s])
    THEN /\ roles' = [n \in DOMAIN RolesOf[s] |-> Normalize(RolesOf[s][n])]
         /\ bindings' = [t \in ServiceTypes |-> UNION {b.roles : b \in {c \in BindingsOf[s] : t \in c.types}}]
         /\ touched' = FALSE
    ELSE UNCHANGED policyVars

LocalEdit ==
    /\ locals < MaxLocal /\ locals' = locals + 1 /\ touched' = TRUE
    /\ UNCHANGED <<watchVars, stored, unseen, foreign, edits, breaks>>

RoleNames == UNION {DOMAIN RolesOf[s] : s \in Snapshots}
Permissions == UNION {UNION {ToSet(RolesOf[s][n]) : n \in DOMAIN RolesOf[s]} : s \in Snapshots}

\* AddRole keeps a permission as it is given.
AddRole(name, p) ==
    /\ LocalEdit /\ UNCHANGED bindings
    /\ roles' = [n \in DOMAIN roles \union {name} |-> IF n = name THEN {p} ELSE roles[n]]

RemoveRole(name) ==
    /\ LocalEdit /\ UNCHANGED bindings /\ roles' = [n \in DOMAIN roles \ {name} |-> roles[n]]

BindRole(name, type) ==
    /\ LocalEdit /\ UNCHANGED roles /\ bindings' = [bindings EXCEPT ![type] = @ \union {name}]

UnbindRole(name, type) ==
    /\ LocalEdit /\ UNCHANGED roles /\ bindings' = [bindings EXCEPT ![type] = @ \ {name}]

AuthzInit ==
    /\ roles = << >> /\ bindings = [t \in ServiceTypes |-> {}] /\ touched = FALSE
    /\ stored \in Snapshots \union {Absent}
    /\ start = "load" /\ loaded = Absent /\ ctxDone = FALSE /\ wch = "none" /\ events = <<>> /\ stopping = "no"
    /\ unseen = FALSE /\ foreign = FALSE /\ edits = 0 /\ locals = 0 /\ breaks = 0

(***************************************************************************)
(* PolicyWatcher.                                                          *)
(***************************************************************************)
\* EtcdPolicyStore.Load: an error, an absent key and a garbled value are errors; they end a start
\* that is not fail-open.
LoadFails(failed) == failed \/ stored \in {Absent, Garbled}
Load(failed) ==
    /\ start = "load" /\ (failed => breaks < MaxBreaks) /\ breaks' = breaks + (IF failed THEN 1 ELSE 0)
    /\ loaded' = stored
    /\ start' = IF ~LoadFails(failed) THEN "apply" ELSE IF FailOpen THEN "watch" ELSE "failed"
    /\ UNCHANGED <<policyVars, ctxDone, wch, events, stopping, stored, unseen, foreign, edits, locals>>

Apply ==
    /\ start = "apply" /\ ApplySnapshot(loaded)
    /\ start' = IF Validate(RolesOf[loaded], BindingsOf[loaded]) \/ FailOpen THEN "watch" ELSE "failed"
    /\ UNCHANGED <<loaded, ctxDone, wch, events, stopping, stored, unseen, foreign, edits, locals, breaks>>

\* Watch delivers what changes from now on; the goroutine of watchLoop starts.
Watch ==
    /\ start = "watch" /\ start' = "setup" /\ wch' = "open"
    /\ UNCHANGED <<policyVars, loaded, ctxDone, events, stopping, stored, unseen, foreign, edits, locals, breaks>>

\* The function that called Start returns; with an InitialLoadTimeout, its deferred cancel ends the
\* context the watch runs in.
SetupReturns ==
    /\ start = "setup" /\ start' = "up" /\ ctxDone' = (ctxDone \/ LoadTimeout)
    /\ UNCHANGED <<policyVars, loaded, wch, events, stopping, stored, unseen, foreign, edits, locals, breaks>>

\* convertEvent and handleEvent: what is deleted, garbled or invalid leaves the policy as it is; any
\* other value is the policy, whichever key under the prefix it is the value of.
Usable(e) == e.value \notin {Absent, Garbled}
Follow(e) ==
    IF Usable(e) /\ Validate(RolesOf[e.value], BindingsOf[e.value])
    THEN ApplySnapshot(e.value) /\ foreign' = ~e.own
    ELSE UNCHANGED <<policyVars, foreign>>

\* Mutant: watchLoop returns after an event it cannot use.
HandleEventReturns ==
    /\ wch = "open" /\ events # <<>>
    /\ wch' = (IF Usable(Head(events)) THEN wch ELSE "closed")
    /\ events' = (IF Usable(Head(events)) THEN Tail(events) ELSE <<>>)
    /\ Follow(Head(events))
    /\ UNCHANGED <<start, loaded, ctxDone, stopping, stored, unseen, edits, locals, breaks>>

\* watchLoop and the goroutine before it may take an event although the context is done.
HandleEvent ==
    /\ wch = "open" /\ events # <<>> /\ events' = Tail(events) /\ Follow(Head(events))
    /\ UNCHANGED <<start, loaded, ctxDone, wch, stopping, stored, unseen, edits, locals, breaks>>

\* The context is done: the goroutines return.
WatchEnds ==
    /\ wch = "open" /\ ctxDone /\ wch' = "closed" /\ events' = <<>>
    /\ UNCHANGED <<policyVars, start, loaded, ctxDone, stopping, stored, unseen, foreign, edits, locals, breaks>>

\* resp.Err: the adapter closes its channel, and nothing watches again.
WatchBreaks ==
    /\ wch = "open" /\ breaks < MaxBreaks /\ breaks' = breaks + 1
    /\ wch' = "closed" /\ unseen' = TRUE
    /\ UNCHANGED <<policyVars, start, loaded, ctxDone, events, stopping, stored, foreign, edits, locals>>

StopWatch ==
    /\ start = "up" /\ stopping = "no" /\ stopping' = "wait" /\ ctxDone' = TRUE
    /\ UNCHANGED <<policyVars, start, loaded, wch, events, stored, unseen, foreign, edits, locals, breaks>>

StopReturns ==
    /\ stopping = "wait" /\ wch # "open" /\ stopping' = "done"
    /\ UNCHANGED <<policyVars, start, loaded, ctxDone, wch, events, stored, unseen, foreign, edits, locals, breaks>>

\* The watch is one of every key with the prefix.
Deliver(e) == events' = IF wch = "open" THEN Append(events, e) ELSE events

\* Somebody writes or deletes the snapshot. External.
Edit(s) ==
    /\ edits < MaxEdits /\ s # stored /\ edits' = edits + 1 /\ stored' = s
    /\ Deliver([own |-> TRUE, value |-> s])
    /\ unseen' = (unseen \/ start \in {"apply", "watch"})
    /\ UNCHANGED <<policyVars, foreign, start, loaded, ctxDone, wch, stopping, locals, breaks>>

\* Somebody writes or deletes another key under the prefix, while the watch is open. External.
EditOther(s) ==
    /\ edits < MaxEdits /\ wch = "open" /\ edits' = edits + 1
    /\ Deliver([own |-> FALSE, value |-> s])
    /\ UNCHANGED <<policyVars, foreign, unseen, start, loaded, ctxDone, wch, stopping, stored, locals, breaks>>

WatchStep == Apply \/ Watch \/ SetupReturns \/ HandleEvent \/ WatchEnds \/ StopReturns \/ \E f \in BOOLEAN : Load(f)

AuthzNext ==
    \/ WatchStep \/ WatchBreaks \/ StopWatch
    \/ \E s \in Snapshots \union {Absent} : Edit(s) \/ EditOther(s)
    \/ \E n \in RoleNames :
          \/ RemoveRole(n) \/ \E p \in Permissions : AddRole(n, p)
          \/ \E t \in ServiceTypes : BindRole(n, t) \/ UnbindRole(n, t)

\* The goroutine of Start and the ones of the watch go on.
AuthzFairness == WF_authzVars(WatchStep)
AuthzSpec == AuthzInit /\ [][AuthzNext]_authzVars /\ AuthzFairness

(***************************************************************************)
(* Properties.                                                             *)
(***************************************************************************)
\* What a snapshot means: a caller of a bound type may call what a permission of the binding's
\* roles covers.
Meaning(s) ==
    {g \in ServiceTypes \X Targets :
        \E b \in BindingsOf[s] : g[1] \in b.types /\
            \E n \in b.roles : \E i \in DOMAIN RolesOf[s][n] : matchPermission(TrimSpace(RolesOf[s][n][i]), g[2])}
Valid == {s \in Snapshots \ {Garbled} : Validate(RolesOf[s], BindingsOf[s])}

\* A node that started fail-closed enforces a policy: some valid snapshot, whole, with nothing of
\* another one, unless its roles were edited by hand (Start, ApplySnapshot, handleEvent).
FailClosed ==
    (~FailOpen /\ start \in {"watch", "setup", "up"} /\ ~touched) => \E s \in Valid : Granted = Meaning(s)

\* "持续 watch 更新": while the node is up and not stopping, a valid snapshot that stays in etcd is
\* in the end the policy in force, unless the change fell between Load and Watch, etcd broke the
\* watch, the roles were edited by hand, or the policy in force is another key's (Start, watchLoop,
\* handleEvent, ApplySnapshot). Edits are finitely many, so the one that stays is the last one.
PolicyConverges ==
    <>[](start = "up" => \/ unseen \/ touched \/ foreign \/ stopping # "no"
                         \/ \A s \in Valid : stored = s => Granted = Meaning(s))
=============================================================================
