--------------------------- MODULE MCFeedPublisher ---------------------------
(* Small instances of FeedPublisher for TLC.                               *)
EXTENDS FeedPublisher, TLC

CONSTANTS w1, w2

Symmetry == Permutations(Workers)
=============================================================================
