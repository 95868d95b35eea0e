----------------------------- MODULE WorkDeque ------------------------------
(***************************************************************************)
(* What the Chase-Lev queue promises: the owner puts elements in at one end  *)
(* and takes them out there, the newest first; thieves take the oldest at    *)
(* the other end; an element comes out once.  The owner's EMPTY means what   *)
(* it says, while a thief may be turned away without reason.                *)
(***************************************************************************)
EXTENDS Sequences, Integers

CONSTANTS Thieves, Owner, Elts, None, EMPTY, ABORT

VARIABLES
    items,  \* Seq(Elts), the oldest first
    offer,  \* the element the owner is putting in
    hand    \* [Threads -> Elts \cup {None, EMPTY, ABORT}] what a thread has got out
dequeVars == <<items, offer, hand>>

Threads == Thieves \cup {Owner}

Init ==
    /\ items = <<>>
    /\ offer = None
    /\ hand = [t \in Threads |-> None]

Hold(t, e) == hand' = [hand EXCEPT ![t] = e]

\* The owner, outside any other call, offers an element nobody else has.
Offer(e) ==
    /\ offer = None
    /\ hand[Owner] = None
    /\ \A i \in DOMAIN items : items[i] # e
    /\ \A t \in Threads : hand[t] # e
    /\ offer' = e
    /\ UNCHANGED <<items, hand>>

Put ==
    /\ offer # None
    /\ items' = Append(items, offer)
    /\ offer' = None
    /\ UNCHANGED hand

Pop ==
    /\ offer = None
    /\ hand[Owner] = None
    /\ IF items = <<>>
         THEN Hold(Owner, EMPTY) /\ UNCHANGED items
         ELSE /\ Hold(Owner, items[Len(items)])
              /\ items' = SubSeq(items, 1, Len(items) - 1)
    /\ UNCHANGED offer

Steal(t) ==
    /\ hand[t] = None
    /\ items # <<>>
    /\ Hold(t, Head(items))
    /\ items' = Tail(items)
    /\ UNCHANGED offer

TurnAway(t) ==
    /\ hand[t] = None
    /\ Hold(t, EMPTY) \/ Hold(t, ABORT)
    /\ UNCHANGED <<items, offer>>

\* The caller has its answer.
Done(t) == hand[t] # None /\ Hold(t, None) /\ UNCHANGED <<items, offer>>

Next ==
    \/ \E e \in Elts : Offer(e)
    \/ Put \/ Pop
    \/ \E t \in Thieves : Steal(t) \/ TurnAway(t)
    \/ \E t \in Threads : Done(t)

Spec == Init /\ [][Next]_dequeVars
=============================================================================
