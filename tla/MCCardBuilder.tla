--------------------------- MODULE MCCardBuilder ----------------------------
(* Instances of CardBuilder for TLC.                                       *)
EXTENDS CardBuilder, TLC

Symmetry == Permutations(Threads) \cup Permutations(Cards)

=============================================================================
