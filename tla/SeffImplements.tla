--------------------------- MODULE SeffImplements ---------------------------
(***************************************************************************)
(* Seff implements EffectHandlers.  The chains are read off the runtime's   *)
(* own pointers: a thread's chain is the parent_coroutine path that starts  *)
(* at _seff_current_coroutine, and the continuation of k is the path from   *)
(* the current_coroutine saved in its resume point up to k.                *)
(***************************************************************************)
EXTENDS Seff, Sequences, FiniteSets

\* There are finitely many addresses.
ASSUME AddressesAssumption == IsFiniteSet(Coroutines)

\* The path from c up to k, outermost first; NULL stands for no coroutine.
\* A path longer than the number of coroutines has a cycle and is cut there.
PathUp(c, k) ==
    LET up[n \in 0..Cardinality(Coroutines)] ==
            IF n = 0 THEN c
            ELSE IF up[n - 1] \in {Null, Junk, k} THEN Null
            ELSE parent_coroutine[up[n - 1]]
        len == Cardinality({n \in DOMAIN up : up[n] # Null})
    IN  [i \in 1..len |-> up[len - i]]

chainOf   == [t \in Threads |-> PathUp(current_coroutine[t], Null)]
contOf    == [k \in Coroutines |->
                IF home[k] = k THEN PathUp(resume_point[k].current_coroutine, k) ELSE <<>>]
handledBy == [k \in Coroutines |->
                {e \in Effects : seff_find_effect_in(e, handled_effects[k])}]
pendingOf == [t \in Threads |-> [op |-> locate[t].op, eff |-> locate[t].eff]]

Abstract == INSTANCE EffectHandlers WITH
    chain <- chainOf, cont <- contOf, handled <- handledBy, pending <- pendingOf

\* Every step of the runtime is a step of the abstract effect handlers, or one
\* they do not see: the pointer chains of parent_coroutine and the contexts
\* swapped by asm/seff.S always spell the chains and continuations promised.
ImplementsEffectHandlers == Abstract!Spec
=============================================================================
