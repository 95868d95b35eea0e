------------------------------- MODULE MCSeff -------------------------------
(* Instances of Seff for TLC. *)
EXTENDS SeffImplements, TLC

\* Every set of effects, and HANDLES_ALL as seff_resume_handling_all passes it.
LibrarySets == {HANDLES(S) : S \in SUBSET Effects} \cup {HANDLES_ALL("seff.c")}

\* Every set of effects.
ArraySets == {HANDLES(S) : S \in SUBSET Effects}

Symmetry == Permutations(Threads) \cup Permutations(Coroutines)
                \cup Permutations(Effects)
=============================================================================
