------------------------------ MODULE TlQueue -------------------------------
(***************************************************************************)
(* The locked task queue of src/utils/tl_queue.c, the one the scheduler is   *)
(* built with, over the growing ring of src/utils/circular_array.h.  The     *)
(* owner pushes and pops, thieves steal; a step is one access to the queue's *)
(* fields or to the array.                                                  *)
(***************************************************************************)
EXTENDS TaskQueue

VARIABLES
    locked, head, tail, buffer, array,   \* the fields of tl_queue_t
    memory,     \* [arrays -> ring] the arrays malloc'ed so far
    freed,      \* the arrays freed
    pc,         \* [Threads -> ...] the next step of a thread
    arg,        \* what the owner is putting in
    local       \* [Threads -> ...] a thread's copies of array, head and tail, and its result

fields == <<locked, head, tail, buffer, array>>
vars == <<fields, memory, freed, pc, arg, local>>

NoLocals == [arr |-> 0, head |-> 0, tail |-> 0, elt |-> None]

\* tl_queue_init
Init ==
    /\ locked = FALSE
    /\ head = 0
    /\ tail = 0
    /\ buffer = None
    /\ array = 0
    /\ memory = [a \in {0} |-> circular_array_new(log_size)]
    /\ freed = {}
    /\ pc = [t \in Threads |-> "idle"]
    /\ arg = None
    /\ local = [t \in Threads |-> NoLocals]

Goto(t, l) == pc' = [pc EXCEPT ![t] = l]

-----------------------------------------------------------------------------
(* The calls *)

\* The elements somebody outside the queue holds are free to be put in.
Outside(e) ==
    /\ buffer # e /\ arg # e
    /\ \A t \in Threads : local[t].elt # e
    /\ \A n \in head .. tail - 1 : CA_GET(memory[array], n) # e

CallPush(e) ==
    /\ pc[Owner] = "idle"
    /\ Outside(e)
    /\ tail < MaxTail
    /\ arg' = e
    /\ Goto(Owner, "push_lock")
    /\ UNCHANGED <<fields, memory, freed, local>>

CallPriorityPush(e) ==
    /\ pc[Owner] = "idle"
    /\ Outside(e)
    /\ tail < MaxTail
    /\ arg' = e
    /\ Goto(Owner, "exchange")
    /\ UNCHANGED <<fields, memory, freed, local>>

\* tl_queue_priority_push: the slot is exchanged, and what it held is pushed.
Exchange ==
    /\ pc[Owner] = "exchange"
    /\ buffer' = arg
    /\ arg' = buffer
    /\ Goto(Owner, IF buffer = None THEN "idle" ELSE "push_lock")
    /\ UNCHANGED <<locked, head, tail, array, memory, freed, local>>

\* tl_queue_pop: the slot is looked at first.
CallPop ==
    /\ pc[Owner] = "idle"
    /\ IF buffer # None
         THEN /\ local' = [local EXCEPT ![Owner].elt = buffer]
              /\ buffer' = None
              /\ Goto(Owner, "return")
         ELSE /\ Goto(Owner, "take_lock")
              /\ UNCHANGED <<buffer, local>>
    /\ UNCHANGED <<locked, head, tail, array, memory, freed, arg>>

\* tl_queue_steal
CallSteal(t) ==
    /\ t \in Thieves
    /\ pc[t] = "idle"
    /\ Goto(t, "take_lock")
    /\ UNCHANGED <<fields, memory, freed, arg, local>>

-----------------------------------------------------------------------------
(* The lock *)

\* Mutant: the exchange's answer is not looked at.
AcquireBlindly(t, next) ==
    /\ locked' = TRUE
    /\ Goto(t, next)

\* ACQUIRE_LOCK spins until the exchange answers false.
ACQUIRE_LOCK(t, next) ==
    /\ ~locked
    /\ locked' = TRUE
    /\ Goto(t, next)

PushLock ==
    /\ pc[Owner] = "push_lock"
    /\ ACQUIRE_LOCK(Owner, "push_load")
    /\ UNCHANGED <<head, tail, buffer, array, memory, freed, arg, local>>

TakeLock(t) ==
    /\ pc[t] = "take_lock"
    /\ ACQUIRE_LOCK(t, "take_load")
    /\ UNCHANGED <<head, tail, buffer, array, memory, freed, arg, local>>

\* Mutant: the push returns with the lock held.
ReleaseForgotten(t) ==
    /\ pc[t] \in {"push_unlock", "take_unlock"}
    /\ locked' = (locked /\ t = Owner)
    /\ Goto(t, IF pc[t] = "push_unlock" THEN "idle" ELSE "return")
    /\ local' = IF pc[t] = "push_unlock" THEN [local EXCEPT ![t] = NoLocals] ELSE local
    /\ UNCHANGED <<head, tail, buffer, array, memory, freed, arg>>

RELEASE_LOCK(t) ==
    /\ pc[t] \in {"push_unlock", "take_unlock"}
    /\ locked' = FALSE
    /\ Goto(t, IF pc[t] = "push_unlock" THEN "idle" ELSE "return")
    /\ local' = IF pc[t] = "push_unlock" THEN [local EXCEPT ![t] = NoLocals] ELSE local
    /\ UNCHANGED <<head, tail, buffer, array, memory, freed, arg>>

-----------------------------------------------------------------------------
(* tl_queue_push, with the lock *)

Load(t) == local' = [local EXCEPT ![t] = [@ EXCEPT !.arr = array, !.head = head, !.tail = tail]]

\* The ring has no free place.
Full(l) == l.tail - l.head > Size(memory[l.arr]) - 1

PushLoad ==
    /\ pc[Owner] = "push_load"
    /\ Load(Owner)
    /\ Goto(Owner, IF Full([arr |-> array, head |-> head, tail |-> tail])
                   THEN "resize" ELSE "push_store")
    /\ UNCHANGED <<fields, memory, freed, arg>>

Resize ==
    /\ pc[Owner] = "resize"
    /\ LET l == local[Owner] IN
       memory' = Allocated(memory, l.arr + 1, circular_array_resize(memory[l.arr], l.tail, l.head))
    /\ Goto(Owner, "replace")
    /\ UNCHANGED <<fields, freed, arg, local>>

\* free(self->array) and the new array in its place.
Replace ==
    /\ pc[Owner] = "replace"
    /\ freed' = freed \cup {array}
    /\ array' = array + 1
    /\ local' = [local EXCEPT ![Owner].arr = array + 1]
    /\ Goto(Owner, "push_store")
    /\ UNCHANGED <<locked, head, tail, buffer, memory, arg>>

PushStore ==
    /\ pc[Owner] = "push_store"
    /\ memory' = [memory EXCEPT ![local[Owner].arr] = CA_SET(@, local[Owner].tail, arg)]
    /\ Goto(Owner, "push_tail")
    /\ UNCHANGED <<fields, freed, arg, local>>

PushTail ==
    /\ pc[Owner] = "push_tail"
    /\ tail' = local[Owner].tail + 1
    /\ arg' = None
    /\ Goto(Owner, "push_unlock")
    /\ UNCHANGED <<locked, head, buffer, array, memory, freed, local>>

-----------------------------------------------------------------------------
(* tl_queue_pop and tl_queue_steal, with the lock *)

TakeLoad(t) ==
    /\ pc[t] = "take_load"
    /\ IF head = tail
         THEN /\ local' = [local EXCEPT ![t].elt = EMPTY]
              /\ Goto(t, "take_unlock")
         ELSE /\ Load(t)
              /\ Goto(t, "take_read")
    /\ UNCHANGED <<fields, memory, freed, arg>>

TakeRead(t) ==
    /\ pc[t] = "take_read"
    /\ local' = [local EXCEPT ![t].elt = CA_GET(memory[local[t].arr], local[t].head)]
    /\ Goto(t, "take_head")
    /\ UNCHANGED <<fields, memory, freed, arg>>

TakeHead(t) ==
    /\ pc[t] = "take_head"
    /\ head' = local[t].head + 1
    /\ Goto(t, "take_unlock")
    /\ UNCHANGED <<locked, tail, buffer, array, memory, freed, arg, local>>

\* pop and steal return.
Return(t) ==
    /\ pc[t] = "return"
    /\ local' = [local EXCEPT ![t] = NoLocals]
    /\ Goto(t, "idle")
    /\ UNCHANGED <<fields, memory, freed, arg>>

-----------------------------------------------------------------------------
PushStep == Exchange \/ PushLock \/ PushLoad \/ Resize \/ Replace \/ PushStore \/ PushTail
TakeStep(t) == TakeLock(t) \/ TakeLoad(t) \/ TakeRead(t) \/ TakeHead(t) \/ Return(t)
Step(t) == (t = Owner /\ PushStep) \/ TakeStep(t) \/ RELEASE_LOCK(t)

Next ==
    \/ \E e \in Elts : CallPush(e) \/ CallPriorityPush(e)
    \/ CallPop
    \/ \E t \in Threads : CallSteal(t) \/ Step(t)

Spec == Init /\ [][Next]_vars

\* Every thread in a call keeps executing; the spin lock is not fair, so a
\* thread may still find it taken every time it looks.
FairSpec == Spec /\ \A t \in Threads : WF_vars(Step(t))

-----------------------------------------------------------------------------
(* Properties *)

\* A thread that is about to read or write an array uses the queue's own, not
\* one that a resize has freed since it loaded the pointer.
NoUseAfterFree ==
    \A t \in Threads :
        pc[t] \in {"resize", "push_store", "take_read"} => local[t].arr \notin freed

\* The queue described by its fields: what is between head and tail.
Items == [i \in 1 .. tail - head |-> CA_GET(memory[array], head + i - 1)]

\* An element being taken leaves the queue when head moves past it.
Hand(t) == IF pc[t] = "take_head" THEN None ELSE local[t].elt

Abstract == INSTANCE WorkQueue WITH
    items <- Items, slot <- buffer, offer <- arg, hand <- [t \in Threads |-> Hand(t)]

\* The queue the fields and the ring describe behaves as one atomic queue,
\* through growth, wrap-around and concurrent steals.
ImplementsWorkQueue == Abstract!Spec

\* The lock is never held for ever.
LockReleased == locked ~> ~locked
=============================================================================
