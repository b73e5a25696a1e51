---------------------------- MODULE LoadStrategy ----------------------------
(***************************************************************************)
(* The load strategies of the autoscaler (strategy.go,                     *)
(* strategy_factory.go).  A strategy is a max_load leaf or a composite of  *)
(* at most MaxStrategyDepth levels; buildStrategyRecur refuses the others. *)
(* QueueSpec takes the three recursive operators as parameters.            *)
(***************************************************************************)
EXTENDS Integers, FiniteSets

CONSTANT MaxStrategyDepth \* maxStrategyDepth

RECURSIVE Builds(_, _)
Builds(s, depth) ==
    /\ depth <= MaxStrategyDepth
    /\ s.name \in {"", "max_load", "composite"}
    /\ \A sub \in s.subs : Builds(sub, depth + 1)

Overloaded(s, lens) == \E w \in DOMAIN lens : lens[w] > s.maxLoad

Idling(s, lens, least) ==
    LET n == Cardinality(DOMAIN lens)
    IN  /\ n > least
        /\ Cardinality({w \in DOMAIN lens : lens[w] = 0}) > (n * s.idle) \div 100

RECURSIVE ShouldScaleUp(_, _)
ShouldScaleUp(s, lens) ==
    IF s.name # "composite" THEN Overloaded(s, lens)
    ELSE IF s.all THEN \A sub \in s.subs : ShouldScaleUp(sub, lens)
                  ELSE \E sub \in s.subs : ShouldScaleUp(sub, lens)

RECURSIVE ShouldScaleDown(_, _, _)
ShouldScaleDown(s, lens, least) ==
    IF s.name # "composite" THEN Idling(s, lens, least)
    ELSE IF s.all THEN \A sub \in s.subs : ShouldScaleDown(sub, lens, least)
                  ELSE \E sub \in s.subs : ShouldScaleDown(sub, lens, least)

=============================================================================
