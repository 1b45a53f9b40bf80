------------------------- MODULE MCPatternAlignment -------------------------
(***************************************************************************)
(* A pattern of two sections: the first has a path of its own beside a     *)
(* shared one, the second has no path yet.                                 *)
(***************************************************************************)
EXTENDS PatternAlignment

CONSTANTS a, b

MCSaved == <<[kind |-> "override", points |-> <<a>>, revision |-> 1],
             [kind |-> "missing", points |-> <<>>, revision |-> 0]>>
MCShared == <<<<b>>, <<>>>>
MCRouted == <<<<b>>, <<a>>>>
MCLegs == {<<>>, <<b>>}
MCImported == <<<<a, b>>, <<>>>>

=============================================================================
