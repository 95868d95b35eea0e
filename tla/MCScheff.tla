------------------------------ MODULE MCScheff ------------------------------
(* Instances of Scheff for TLC. *)
EXTENDS Scheff, TLC

Symmetry == Permutations(Tasks)
=============================================================================
