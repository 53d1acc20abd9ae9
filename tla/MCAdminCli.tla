----------------------------- MODULE MCAdminCli -----------------------------
(* Instances of AdminCli for TLC: the names differ in case only.           *)
EXTENDS AdminCli, TLC

MCFolded == [n \in Names |-> "f"]

Symmetry == Permutations(Names) \cup Permutations(Ids)

=============================================================================
