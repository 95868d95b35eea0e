------------------------------ MODULE MCStacks ------------------------------
(* Instances of Stacks for TLC. *)
EXTENDS Stacks, TLC

Symmetry == Permutations(Threads) \cup Permutations(Coroutines)
=============================================================================
