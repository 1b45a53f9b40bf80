------------------------------ MODULE MCStopMap ------------------------------
(***************************************************************************)
(* A street with a stop, a bay and a stop to be created; a route with two  *)
(* directions and one more route.                                          *)
(***************************************************************************)
EXTENDS StopMap, TLC

CONSTANTS curb, bay, new

MCAt == (curb :> 0) @@ (bay :> 1) @@ (new :> None)
MCKind == (curb :> "served") @@ (bay :> "bay") @@ (new :> "unserved")
MCLines == <<[route |-> "12", from |-> 0, to |-> 1, serves |-> {curb}],
             [route |-> "12", from |-> 1, to |-> 0, serves |-> {curb}],
             [route |-> "20", from |-> 1, to |-> 1, serves |-> {bay}]>>

=============================================================================
