--------------------------- MODULE MCMapAlignment ---------------------------
(***************************************************************************)
(* A level that is aligned and has anchors, and one that is neither.       *)
(***************************************************************************)
EXTENDS MapAlignment

CONSTANTS platform, mezzanine, here, there

MCSaved == [l \in Levels |-> IF l = platform THEN here ELSE NoPlace]
MCInferred == [l \in Levels |-> there]
MCAnchored == {platform}

=============================================================================
