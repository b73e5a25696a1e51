------------------------------ MODULE MCAuthz -------------------------------
EXTENDS Authz

\* Permissions as the sequences their parsing works on.
Get == <<"data", ".", "get">>
Put == <<"data", ".", "put">>
MCTargets == {Get, Put}
MCRolesOf ==
    [wide |-> [r |-> <<<<"data", ".", "*">>>>, q |-> <<<<"*">>>>],
     narrow |-> [r |-> <<<<" ", "data", ".", "get">>, Get>>],
     bad |-> [r |-> <<<<"data">>>>],
     garbled |-> << >>]
MCBindingsOf ==
    [wide |-> {[types |-> {"game"}, roles |-> {"r"}], [types |-> {"game", "gate"}, roles |-> {"q"}]},
     narrow |-> {[types |-> {"game"}, roles |-> {"r"}]},
     bad |-> {}, garbled |-> {}]

PolicyExplore == edits + locals + breaks <= 3
=============================================================================
