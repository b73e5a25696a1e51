---------------------------- MODULE MCModuleTree ----------------------------
EXTENDS ModuleTree

\* The methods of the service and of three modules, some of them of the same name.
Method(words, fixed, variadic, legal) ==
    [name |-> words, fixed |-> fixed, variadic |-> variadic, legal |-> legal]
MCMethodsOf ==
    [o \in Holders |->
        CASE o = Root -> <<Method(<<"Api", "Ping">>, 0, TRUE, TRUE), Method(<<"Rpc", "Get">>, 1, FALSE, TRUE)>>
          [] o = "a" -> <<Method(<<"On", "Init">>, 0, FALSE, FALSE), Method(<<"Rpc", "Ro", "Get">>, 1, TRUE, TRUE)>>
          [] o = "b" -> <<Method(<<"Rpc", "Get">>, 0, FALSE, TRUE), Method(<<"Rpc", "Route">>, 2, FALSE, TRUE)>>
          [] OTHER -> <<Method(<<"Rpc", "Get">>, 0, FALSE, TRUE), Method(<<"Rpc", "Set">>, 2, FALSE, FALSE)>>]
MCDeclared == [o \in Holders |-> IF o = "b" THEN {<<"Rpc", "Get">>} ELSE {}]

\* Nothing is claimed of a tree after an id was given twice, and a call ends what is followed.
ModuleExplore == reply = "none" /\ ~broken
=============================================================================
