----------------------------- MODULE MCTkQueue ------------------------------
(* Instances of TkQueue for TLC. *)
EXTENDS TkQueue, TLC

Symmetry == Permutations(Elts) \cup Permutations(Thieves)
=============================================================================
