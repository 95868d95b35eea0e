--------------------------- MODULE EffectHandlers ---------------------------
(***************************************************************************)
(* What the runtime promises its clients, without stacks, pointers or       *)
(* context switches: shallow effect handlers over one-shot continuations.   *)
(*                                                                         *)
(* A thread runs a chain of coroutines, the outermost first.  Performing an *)
(* effect cuts the chain at the innermost coroutine resumed with a set that *)
(* handles it, and that coroutine keeps the cut part as its continuation;   *)
(* resuming it puts the continuation at the end of the resumer's chain,     *)
(* on whichever thread that is.  Throwing cuts the chain in the same place  *)
(* and keeps nothing.                                                      *)
(***************************************************************************)
EXTENDS Sequences, Integers

CONSTANTS Threads, Coroutines, Effects, Return

VARIABLES
    chain,      \* [Threads -> Seq(Coroutines)]
    cont,       \* [Coroutines -> Seq(Coroutines)], empty when there is none to resume
    handled,    \* [Coroutines -> SUBSET Effects], the set of the last resume
    pending     \* [Threads -> ...] the operation the thread waits to be handled
absVars == <<chain, cont, handled, pending>>

None == [op |-> "idle", eff |-> Return]

Init ==
    /\ chain = [t \in Threads |-> <<>>]
    /\ cont = [k \in Coroutines |-> <<>>]
    /\ handled = [k \in Coroutines |-> {}]
    /\ pending = [t \in Threads |-> None]

\* The coroutines some chain or some continuation holds.
InUse == {k \in Coroutines :
            \/ \E t \in Threads : \E i \in 1..Len(chain[t]) : chain[t][i] = k
            \/ \E j \in Coroutines : \E i \in 1..Len(cont[j]) : cont[j][i] = k}

New(k) ==
    /\ k \notin InUse
    /\ cont' = [cont EXCEPT ![k] = <<k>>]
    /\ handled' = [handled EXCEPT ![k] = {}]
    /\ UNCHANGED <<chain, pending>>

\* Releasing a coroutine drops its continuation, if it has one.
Delete(k) ==
    /\ k \notin InUse \/ cont[k] # <<>>
    /\ cont' = [cont EXCEPT ![k] = <<>>]
    /\ handled' = [handled EXCEPT ![k] = {}]
    /\ UNCHANGED <<chain, pending>>

Resume(t, k, S) ==
    /\ pending[t] = None
    /\ cont[k] # <<>>
    /\ chain' = [chain EXCEPT ![t] = @ \o cont[k]]
    /\ cont' = [cont EXCEPT ![k] = <<>>]
    /\ handled' = [handled EXCEPT ![k] = S]
    /\ UNCHANGED pending

\* The chain is cut before its i-th coroutine, which keeps the rest, or not.
CutAndKeep(t, i) ==
    /\ chain' = [chain EXCEPT ![t] = SubSeq(@, 1, i - 1)]
    /\ cont' = [cont EXCEPT ![chain[t][i]] = SubSeq(chain[t], i, Len(chain[t]))]
CutAndDrop(t, i) ==
    /\ chain' = [chain EXCEPT ![t] = SubSeq(@, 1, i - 1)]
    /\ UNCHANGED cont

\* A coroutine named by the client is yielded to, or exited.
YieldTo(t, i) == pending[t] = None /\ CutAndKeep(t, i) /\ UNCHANGED <<handled, pending>>
ExitTo(t, i)  == pending[t] = None /\ CutAndDrop(t, i) /\ UNCHANGED <<handled, pending>>

\* The start function of the innermost coroutine returns.
ReturnFrom(t) == chain[t] # <<>> /\ ExitTo(t, Len(chain[t]))

Request(t, op, eff) ==
    /\ pending[t] = None
    /\ pending' = [pending EXCEPT ![t] = [op |-> op, eff |-> eff]]
    /\ UNCHANGED <<chain, cont, handled>>

Handles(k, eff) == eff = Return \/ eff \in handled[k]

\* The pending operation is handled by the innermost handler, its i-th coroutine.
Handle(t, i) ==
    /\ pending[t] # None
    /\ Handles(chain[t][i], pending[t].eff)
    /\ \A j \in i + 1 .. Len(chain[t]) : ~Handles(chain[t][j], pending[t].eff)
    /\ IF pending[t].op = "perform" THEN CutAndKeep(t, i) ELSE CutAndDrop(t, i)
    /\ pending' = [pending EXCEPT ![t] = None]
    /\ UNCHANGED handled

\* There is no handler: the default handler answers in place, or the process ends.
Default(t) ==
    /\ pending[t] # None
    /\ \A j \in 1..Len(chain[t]) : ~Handles(chain[t][j], pending[t].eff)
    /\ pending' = [pending EXCEPT ![t] = None]
    /\ UNCHANGED <<chain, cont, handled>>

Next ==
    \/ \E k \in Coroutines : New(k) \/ Delete(k)
    \/ \E t \in Threads :
         \/ \E k \in Coroutines, S \in SUBSET Effects : Resume(t, k, S)
         \/ \E i \in 1..Len(chain[t]) : YieldTo(t, i) \/ ExitTo(t, i) \/ Handle(t, i)
         \/ ReturnFrom(t)
         \/ \E op \in {"perform", "throw"}, eff \in Effects \cup {Return} : Request(t, op, eff)
         \/ Default(t)

Spec == Init /\ [][Next]_absVars
=============================================================================
