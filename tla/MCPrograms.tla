----------------------------- MODULE MCPrograms -----------------------------
(* Instances of Programs for TLC. *)
EXTENDS Programs

OnePage == [root |-> 3]
ThreeCreatures == <<0, 1, 2>>
\* No element, one, one twice, and enough for three turns of the search.
SmallArrays == {<<>>, <<1>>, <<1, 1>>, <<0, 1, 3>>, <<1, 1, 2, 4, 5>>}
ThreeThreads == <<2, 0, 1>>
=============================================================================
