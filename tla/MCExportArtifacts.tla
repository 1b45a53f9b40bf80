------------------------- MODULE MCExportArtifacts -------------------------
(* Small instances of ExportArtifacts for TLC.                             *)
EXTENDS ExportArtifacts, TLC

CONSTANTS d1, d2, p1, p2

\* The pinners are publications under one consent: the later replaces the pin.
MCOwnerOf == [p \in Pinners |-> "publication"]

Symmetry == Permutations(Downloaders) \cup Permutations(Pinners)
=============================================================================
