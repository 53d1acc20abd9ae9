----------------------------- MODULE MCDispatch -----------------------------
(* Instances of Dispatch for TLC.                                          *)
EXTENDS Dispatch, TLC

Symmetry == Permutations(Threads) \cup Permutations(HubIds)
            \cup Permutations(Remotes) \cup Permutations(Convs)

=============================================================================
