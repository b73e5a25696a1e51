----------------------------- MODULE ModuleTree -----------------------------
(***************************************************************************)
(* The modules of a service and the methods they serve                     *)
(* (engine/pkg/core/module.go, core/rpc/handler.go, core/rpc/prefix.go).   *)
(*                                                                         *)
(* Root is the service. A module is added under a parent, which registers  *)
(* its exported methods in the one method table of the service and then    *)
(* calls OnInit, where the module may add modules of its own; it is        *)
(* released with everything below it. All of this runs on the goroutine of *)
(* the service, so an action is a whole call, except that what OnInit does *)
(* lies between two of them.                                               *)
(*                                                                         *)
(* A method name is a sequence of words: the prefix index compares         *)
(* prefixes up to an upper-case letter, that is, word by word.             *)
(***************************************************************************)
EXTENDS Naturals, Sequences, FiniteSets, TLC, SequencesExt, Functions

CONSTANTS
    Mods,           \* module objects
    MethodsOf,      \* [Mods \cup {Root} -> Seq of [name, fixed, variadic, legal]], as reflection lists them
    Declared,       \* [Mods \cup {Root} -> set of names], IReadOnlyDeclarer.ReadOnlyMethods
    ManualIds,      \* the ids SetModuleID may be called with
    MaxAdds         \* bound on the modules added

\* SetModuleID(0) of a module without an id changes nothing.
ASSUME ModulesAssumption ==
    /\ {"service", "none"} \cap Mods = {}
    /\ ManualIds \subseteq Nat \ {0} /\ MaxAdds \in Nat

VARIABLES
    idOf,           \* Module.moduleId, 0 for none
    parentOf,       \* Module.parent
    childrenOf,     \* Module.children: id -> module
    contains,       \* rootContains of the service: id -> module
    idSeed,         \* moduleIdSeed of the service
    methodTable,    \* MethodMgr.methods: name -> owner of the closure and readOnly
    ownMethods,     \* Handler.methods of a module
    initing,        \* the modules whose OnInit runs, outermost first
    subscribed,     \* the modules whose event handler is known to the processor
    rwActive,       \* what isRWEnabled answers
    reply,          \* how the last request was answered
    usedIds,        \* history: the ids given to a module
    broken,         \* history: an id was used twice, or a failed OnInit left modules behind
    adds            \* history: the calls of AddModule

modVars == <<idOf, parentOf, childrenOf, contains, idSeed, methodTable, ownMethods, initing,
             subscribed, rwActive, reply, usedIds, broken, adds>>

Root == "service"
NoParent == "none"
Holders == Mods \cup {Root}

Put(f, k, v) == [x \in DOMAIN f \cup {k} |-> IF x = k THEN v ELSE f[x]]
Drop(f, ks) == Restrict(f, DOMAIN f \ ks)

(***************************************************************************)
(* Registration.                                                           *)
(***************************************************************************)
PlainPrefixes == {<<"Api">>, <<"API">>, <<"Rpc">>, <<"RPC">>}
ReadOnlyPrefixes == {<<"Api", "Ro">>, <<"API", "Ro">>, <<"Rpc", "Ro">>, <<"RPC", "Ro">>}

Has(prefixes, name) == \E p \in prefixes : IsPrefix(p, name)

\* suitableMethods looks at the read-only prefixes first; other methods are not served.
IsReadOnly(name) == Has(ReadOnlyPrefixes, name)
Served(name) == IsReadOnly(name) \/ Has(PlainPrefixes, name)

\* registerMethod stops at the first method with an illegal signature; what it registered
\* before stays in the table.
RegisteredBy(o) ==
    LET ms == MethodsOf[o]
        bad == {k \in DOMAIN ms : Served(ms[k].name) /\ ~ms[k].legal}
        upto == IF bad = {} THEN Len(ms) ELSE (CHOOSE k \in bad : \A l \in bad : k <= l) - 1
    IN  [names |-> {ms[k].name : k \in {l \in 1..upto : Served(ms[l].name)}}, ok |-> bad = {}]

\* AddMethodFunc overwrites the entry of a name; MarkReadOnly marks it, for a read-only
\* prefix and, once all are registered, for the names the module declares.
TableWith(o) ==
    LET r == RegisteredBy(o)
        added == [n \in r.names |-> [owner |-> o, ro |-> IsReadOnly(n)]] @@ methodTable
    IN  [n \in DOMAIN added |->
            IF r.ok /\ n \in Declared[o] THEN [added[n] EXCEPT !.ro = TRUE] ELSE added[n]]

RemoveMethods(names) == IF rwActive THEN methodTable ELSE Drop(methodTable, names)

(***************************************************************************)
(* The tree.                                                               *)
(***************************************************************************)
ModInit ==
    /\ idOf = [m \in Mods |-> 0]
    /\ parentOf = [m \in Mods |-> NoParent]
    /\ childrenOf = [o \in Holders |-> <<>>]
    /\ contains = <<>>
    /\ idSeed = 0
    \* The service registers its own methods when it is initialised.
    /\ methodTable = [n \in RegisteredBy(Root).names |->
                        [owner |-> Root, ro |-> IsReadOnly(n) \/ n \in Declared[Root]]]
    /\ ownMethods = [o \in Holders |-> IF o = Root THEN RegisteredBy(Root).names ELSE {}]
    /\ initing = <<>>
    /\ subscribed = {}
    /\ rwActive \in BOOLEAN
    /\ reply = "none"
    /\ usedIds = {} /\ broken = FALSE /\ adds = 0

Attached(m) ==
    /\ parentOf[m] # NoParent /\ idOf[m] \in DOMAIN childrenOf[parentOf[m]]
    /\ childrenOf[parentOf[m]][idOf[m]] = m
\* The code that runs: the OnInit of a module being added, or any module at rest.
Running == IF initing = <<>> THEN {Root} \cup {m \in Mods : Attached(m)} ELSE {Last(initing)}

\* SetModuleID before the module is added.
SetModuleID(m, i) ==
    /\ initing = <<>> /\ idOf[m] = 0
    /\ idOf' = [idOf EXCEPT ![m] = i]
    /\ UNCHANGED <<parentOf, childrenOf, contains, idSeed, methodTable, ownMethods, initing,
                   subscribed, rwActive, reply, usedIds, broken, adds>>

\* AddModule up to the call of OnInit. Only the parent's own children are looked at for a
\* module with the same id. A failed registration leaves the id and the parent set.
AddModule(p, m) ==
    /\ p \in Running /\ ~Attached(m) /\ m \notin Range(initing) /\ adds < MaxAdds
    /\ adds' = adds + 1
    /\ LET i == IF idOf[m] = 0 THEN idSeed + 1 ELSE idOf[m] IN
        /\ idOf' = [idOf EXCEPT ![m] = i]
        /\ idSeed' = IF idOf[m] = 0 THEN idSeed + 1 ELSE idSeed
        /\ IF i \in DOMAIN childrenOf[p]
           THEN UNCHANGED <<parentOf, methodTable, ownMethods, initing, usedIds, broken>>
           ELSE /\ parentOf' = [parentOf EXCEPT ![m] = p]
                /\ methodTable' = TableWith(m)
                /\ IF RegisteredBy(m).ok
                   THEN /\ initing' = Append(initing, m)
                        /\ ownMethods' = [ownMethods EXCEPT ![m] = RegisteredBy(m).names]
                   ELSE UNCHANGED <<initing, ownMethods>>
                /\ usedIds' = usedIds \cup {i}
                /\ broken' = (broken \/ i \in usedIds)
    /\ UNCHANGED <<childrenOf, contains, subscribed, rwActive, reply>>

\* OnInit registers event callbacks through the module's handler.
InitSubscribes ==
    /\ initing # <<>> /\ Last(initing) \notin subscribed
    /\ subscribed' = subscribed \cup {Last(initing)}
    /\ UNCHANGED <<idOf, parentOf, childrenOf, contains, idSeed, methodTable, ownMethods,
                   initing, rwActive, reply, usedIds, broken, adds>>

\* OnInit returns: the module enters its parent's children and the index of the service, or
\* is dropped as it is, with its methods, callbacks and modules.
InitReturns(ok) ==
    /\ initing # <<>>
    /\ LET m == Last(initing) IN
        /\ IF ok
           THEN /\ childrenOf' = [childrenOf EXCEPT ![parentOf[m]] = Put(@, idOf[m], m)]
                /\ contains' = Put(contains, idOf[m], m)
                /\ UNCHANGED broken
           ELSE /\ broken' = (broken \/ childrenOf[m] # <<>> \/ m \in subscribed)
                /\ UNCHANGED <<childrenOf, contains>>
        /\ initing' = Front(initing)
    /\ UNCHANGED <<idOf, parentOf, idSeed, methodTable, ownMethods, subscribed, rwActive, reply,
                   usedIds, adds>>

\* Mutant: only the module itself is released, not what is below it.
SubtreeIdsAlone(i) == {i} \cap DOMAIN contains

\* The ids ReleaseModule comes to, which looks every id up in the index of the service: the
\* least set with i and the ids of the children of its modules.
SubtreeIds(i) ==
    LET Below(S) == UNION {DOMAIN childrenOf[contains[j]] : j \in S} IN
    {j \in DOMAIN contains :
        \A S \in SUBSET DOMAIN contains : ({i} \cup Below(S)) \cap DOMAIN contains \subseteq S => j \in S}

\* p releases the ids, every one of them as a call on p itself: OnRelease, Destroy of the event
\* handler, out of p's children and of the index, then the methods of p leave the table.
Release(p, ids) ==
    LET gone == {contains[i] : i \in ids}
        left(o) == IF o = p THEN Drop(childrenOf[o], ids) ELSE childrenOf[o] IN
    /\ childrenOf' = [o \in Holders |-> IF o \in gone THEN <<>> ELSE left(o)]
    /\ contains' = Drop(contains, ids)
    /\ methodTable' = RemoveMethods(ownMethods[p])
    /\ subscribed' = subscribed \ gone
    /\ idOf' = [m \in Mods |-> IF m \in gone THEN 0 ELSE idOf[m]]
    /\ parentOf' = [m \in Mods |-> IF m \in gone THEN NoParent ELSE parentOf[m]]
    /\ ownMethods' = [o \in Holders |-> IF o \in gone THEN {} ELSE ownMethods[o]]
    /\ UNCHANGED <<idSeed, initing, rwActive, reply, usedIds, broken, adds>>

\* A module that releases one of its ancestors would be reset half way: nobody does.
ReleaseModule(p, i) ==
    /\ initing = <<>> /\ p \in Running
    /\ i \in DOMAIN contains
    /\ p \in {contains[j] : j \in SubtreeIds(i)} => p = contains[i]
    /\ Release(p, SubtreeIds(i))

\* The service goes down.
ReleaseAllChildModule ==
    /\ initing = <<>>
    /\ DOMAIN childrenOf[Root] # {}
    /\ Release(Root, UNION {SubtreeIds(i) : i \in DOMAIN childrenOf[Root]})

\* RW mode is switched while the service runs.
SwitchRW ==
    /\ rwActive' = ~rwActive
    /\ UNCHANGED <<idOf, parentOf, childrenOf, contains, idSeed, methodTable, ownMethods, initing,
                   subscribed, reply, usedIds, broken, adds>>

(***************************************************************************)
(* Requests.                                                               *)
(***************************************************************************)
\* A request carries nothing, one value, or a list of n values.
Requests == {[kind |-> "nil"], [kind |-> "one"]} \cup {[kind |-> "list", n |-> n] : n \in 0..2}
Supplied(r) == CASE r.kind = "nil" -> 0 [] r.kind = "one" -> 1 [] OTHER -> r.n

\* The closure of compileCallFunc: the checks before reflection calls the method. fixed counts
\* the parameters without receiver, context and variadic one.
Accepts(f, r) ==
    IF f.variadic
    THEN CASE r.kind = "nil" -> f.fixed = 0
           [] r.kind = "list" -> r.n >= f.fixed
           [] OTHER -> f.fixed = 0
    ELSE CASE r.kind = "nil" -> f.fixed = 0
           [] r.kind = "list" -> r.n = f.fixed
           [] OTHER -> f.fixed = 1

\* What reflection needs; it panics otherwise.
Fits(f, r) == IF f.variadic THEN Supplied(r) >= f.fixed ELSE Supplied(r) = f.fixed

Signature(o, name) == SelectSeq(MethodsOf[o], LAMBDA f : f.name = name)[1]

AllNames == UNION {{MethodsOf[o][k].name : k \in DOMAIN MethodsOf[o]} : o \in Holders}

\* What a request of a method may be answered: the caller may not use it, the table does not have
\* it, the checks refuse it, or reflection calls it, which panics when it does not fit.
Outcomes(name, r) ==
    LET f == Signature(methodTable[name].owner, name) IN
    {"denied"} \cup
        CASE name \notin DOMAIN methodTable -> {"unknown"}
          [] name \in DOMAIN methodTable /\ ~Accepts(f, r) -> {"mismatch"}
          [] name \in DOMAIN methodTable /\ Accepts(f, r) /\ ~Fits(f, r) -> {"misfit"}
          [] OTHER -> {"response", "error", "panic"}

\* HandleRequest answers every request once, a panic of the method included.
HandleRequest ==
    /\ initing = <<>>
    /\ reply' \in UNION {Outcomes(n, r) : n \in AllNames, r \in Requests}
    /\ UNCHANGED <<idOf, parentOf, childrenOf, contains, idSeed, methodTable, ownMethods, initing,
                   subscribed, rwActive, usedIds, broken, adds>>

ModNext ==
    \/ \E m \in Mods : \E i \in ManualIds : SetModuleID(m, i)
    \/ \E p \in Holders : \E m \in Mods : AddModule(p, m)
    \/ InitSubscribes
    \/ \E ok \in BOOLEAN : InitReturns(ok)
    \/ \E p \in Holders : \E i \in DOMAIN contains : ReleaseModule(p, i)
    \/ ReleaseAllChildModule
    \/ SwitchRW \/ HandleRequest

ModSpec == ModInit /\ [][ModNext]_modVars

(***************************************************************************)
(* Properties.                                                             *)
(***************************************************************************)
\* While no id is used twice and no failing OnInit has left something behind, the index of the
\* service is the tree: every module in it stands under its id, its parent is the service, a
\* module in the index or one still in OnInit, and every module with live event callbacks is
\* in it or in OnInit. So a release takes everything below the module with it, whoever calls
\* it (AddModule and ReleaseModule, module.go). And a request that passes the checks of its
\* method fits the method (compileCallFunc, core/rpc/handler.go).
TreeExact ==
    /\ ~broken =>
        /\ \A i \in DOMAIN contains :
            LET m == contains[i] IN
            /\ idOf[m] = i /\ Attached(m)
            /\ parentOf[m] \in {Root} \cup Range(contains) \cup Range(initing)
        /\ subscribed \subseteq Range(contains) \cup Range(initing)
    /\ reply # "misfit"

\* What module.go:175 says of ReleaseModule: the methods of a released module leave the
\* method table, those of the service do not.
ServiceApiKept == ownMethods[Root] \subseteq DOMAIN methodTable
=============================================================================
