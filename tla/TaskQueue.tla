----------------------------- MODULE TaskQueue ------------------------------
(***************************************************************************)
(* What the models of the three task queues have in common: the threads that *)
(* call them, the elements, and the bounds.                                  *)
(***************************************************************************)
EXTENDS CircularArray, Sequences

CONSTANTS
    Thieves, Owner,
    Elts,       \* the elements the owner may put in, each a different pointer
    log_size,   \* the argument of tl_queue_init, tk_queue_init and cl_queue_init
    MaxTail,    \* bound: pushes
    None, EMPTY

ASSUME ThreadsAssumption == Owner \notin Thieves
ASSUME EltsAssumption == {None, EMPTY, Junk} \cap Elts = {} /\ None # EMPTY
ASSUME BoundsAssumption == log_size \in Nat /\ 2 ^ log_size \in Nat \ {0} /\ MaxTail \in Nat

Threads == Thieves \cup {Owner}
=============================================================================
