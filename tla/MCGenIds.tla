------------------------------ MODULE MCGenIds ------------------------------
(* Instances of GenIds for TLC. *)
EXTENDS GenIds, TLC

\* malloc may return any free address: the cells are interchangeable.
Symmetry == Permutations(Cells)
=============================================================================
