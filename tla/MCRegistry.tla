----------------------------- MODULE MCRegistry -----------------------------
(* Instances of Registry for TLC.                                          *)
EXTENDS Registry, TLC

Symmetry == Permutations(Threads) \cup Permutations(Names) \cup Permutations(Ids)

=============================================================================
