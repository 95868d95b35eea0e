----------------------------- MODULE WorkQueue ------------------------------
(***************************************************************************)
(* What the scheduler relies on in a task queue: one owner puts tasks in, a  *)
(* task comes out once, to the owner or to a thief, the oldest first, and    *)
(* EMPTY is answered only when the queue is empty.  The owner's one-task     *)
(* priority slot is served before the queue and is out of the thieves' reach.*)
(***************************************************************************)
EXTENDS Sequences

CONSTANTS Threads, Owner, Elts, None, EMPTY

VARIABLES
    items,  \* Seq(Elts), the oldest first
    slot,   \* the owner's priority slot
    offer,  \* the element the owner is putting in
    hand    \* [Threads -> Elts \cup {None, EMPTY}] what a thread has got out
queueVars == <<items, slot, offer, hand>>

Init ==
    /\ items = <<>>
    /\ slot = None
    /\ offer = None
    /\ hand = [t \in Threads |-> None]

Hold(t, e) == hand' = [hand EXCEPT ![t] = e]

\* The owner, outside any other call, offers an element nobody else has.
Offer(e) ==
    /\ offer = None
    /\ hand[Owner] = None
    /\ slot # e
    /\ \A i \in DOMAIN items : items[i] # e
    /\ \A t \in Threads : hand[t] # e
    /\ offer' = e
    /\ UNCHANGED <<items, slot, hand>>

Put ==
    /\ offer # None
    /\ items' = Append(items, offer)
    /\ offer' = None
    /\ UNCHANGED <<slot, hand>>

\* The element in the slot makes way for the new one and is put in the queue.
Exchange ==
    /\ offer # None
    /\ slot' = offer
    /\ offer' = slot
    /\ UNCHANGED <<items, hand>>

TakeSlot ==
    /\ hand[Owner] = None
    /\ offer = None
    /\ slot # None
    /\ Hold(Owner, slot)
    /\ slot' = None
    /\ UNCHANGED <<items, offer>>

Take(t) ==
    /\ hand[t] = None
    /\ t = Owner => slot = None /\ offer = None
    /\ items # <<>>
    /\ Hold(t, Head(items))
    /\ items' = Tail(items)
    /\ UNCHANGED <<slot, offer>>

FindEmpty(t) ==
    /\ hand[t] = None
    /\ t = Owner => slot = None /\ offer = None
    /\ items = <<>>
    /\ Hold(t, EMPTY)
    /\ UNCHANGED <<items, slot, offer>>

\* The caller has its answer.
Done(t) == hand[t] # None /\ Hold(t, None) /\ UNCHANGED <<items, slot, offer>>

Next ==
    \/ \E e \in Elts : Offer(e)
    \/ Put \/ Exchange \/ TakeSlot
    \/ \E t \in Threads : Take(t) \/ FindEmpty(t) \/ Done(t)

Spec == Init /\ [][Next]_queueVars
=============================================================================
