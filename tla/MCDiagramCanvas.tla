-------------------------- MODULE MCDiagramCanvas --------------------------
(***************************************************************************)
(* A level with two points, within reach of one another, and one with one. *)
(***************************************************************************)
EXTENDS DiagramCanvas, TLC

CONSTANTS gate, stairs, track, hall, platform

MCLevelOf == (gate :> hall) @@ (stairs :> hall) @@ (track :> platform)
MCAt == (gate :> 0) @@ (stairs :> 1) @@ (track :> 0)

=============================================================================
