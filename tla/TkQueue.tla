------------------------------ MODULE TkQueue -------------------------------
(***************************************************************************)
(* The lock-free task queue of src/utils/tk_queue.c over the growing ring of *)
(* src/utils/circular_array.h: the owner pushes at the tail, the owner and   *)
(* the thieves take from the head by compare-and-exchange.  A step is one    *)
(* access to what other threads write; memory is sequentially consistent.    *)
(***************************************************************************)
EXTENDS TaskQueue

CONSTANTS
    MaxQueued,  \* bound: elements in the ring at a time
    StealsDuringGrowth \* bound: FALSE keeps steals out of the pushes that grow

VARIABLES
    head, tail, buffer, array,  \* the fields of tk_queue_t
    memory,     \* [arrays -> ring] the arrays malloc'ed so far, none is freed
    pc,         \* [Threads -> ...] the next step of a thread
    arg,        \* what the owner is putting in
    local       \* [Threads -> ...] a thread's copies of array and head, and its result

fields == <<head, tail, buffer, array>>
vars == <<fields, memory, pc, arg, local>>

NoLocals == [arr |-> 0, head |-> 0, elt |-> None]

\* tk_queue_init
Init ==
    /\ head = 0
    /\ tail = 0
    /\ buffer = None
    /\ array = 0
    /\ memory = [a \in {0} |-> circular_array_new(log_size)]
    /\ pc = [t \in Threads |-> "idle"]
    /\ arg = None
    /\ local = [t \in Threads |-> NoLocals]

Goto(t, l) == pc' = [pc EXCEPT ![t] = l]

\* What a thread has taken out; before its exchange succeeds it has nothing.
Hand(t) == IF pc[t] = "return" THEN local[t].elt ELSE None

-----------------------------------------------------------------------------
(* The calls *)

\* The elements somebody outside the queue holds are free to be put in.
Outside(e) ==
    /\ buffer # e /\ arg # e
    /\ \A t \in Threads : Hand(t) # e
    /\ \A n \in head .. tail - 1 : CA_GET(memory[array], n) # e

\* Bound: a push that may grow the array does not meet a steal.
NoFreePlace == tail - head >= Size(memory[array])
PushAllowed ==
    /\ tail - head < MaxQueued /\ tail < MaxTail
    /\ StealsDuringGrowth \/ ~NoFreePlace \/ \A t \in Thieves : pc[t] = "idle"
StealAllowed ==
    StealsDuringGrowth \/ ~NoFreePlace \/ pc[Owner] \notin {"exchange", "push", "push_grow"}

CallPush(e) ==
    /\ pc[Owner] = "idle"
    /\ Outside(e)
    /\ PushAllowed
    /\ arg' = e
    /\ Goto(Owner, "push")
    /\ UNCHANGED <<fields, memory, local>>

CallPriorityPush(e) ==
    /\ pc[Owner] = "idle"
    /\ Outside(e)
    /\ PushAllowed
    /\ arg' = e
    /\ Goto(Owner, "exchange")
    /\ UNCHANGED <<fields, memory, local>>

\* tk_queue_priority_push: the slot is exchanged, and what it held is pushed.
Exchange ==
    /\ pc[Owner] = "exchange"
    /\ buffer' = arg
    /\ arg' = buffer
    /\ Goto(Owner, IF buffer = None THEN "idle" ELSE "push")
    /\ UNCHANGED <<head, tail, array, memory, local>>

\* tk_queue_pop: the slot is looked at first.
CallPop ==
    /\ pc[Owner] = "idle"
    /\ IF buffer # None
         THEN /\ local' = [local EXCEPT ![Owner].elt = buffer]
              /\ buffer' = None
              /\ Goto(Owner, "return")
         ELSE /\ Goto(Owner, "take_array")
              /\ UNCHANGED <<buffer, local>>
    /\ UNCHANGED <<head, tail, array, memory, arg>>

\* tk_queue_steal
CallSteal(t) ==
    /\ t \in Thieves
    /\ pc[t] = "idle"
    /\ StealAllowed
    /\ Goto(t, "take_array")
    /\ UNCHANGED <<fields, memory, arg, local>>

-----------------------------------------------------------------------------
(* tk_queue_push: array and tail are written by the owner alone *)

\* The ring has no free place, as far as the head the owner has read says.
Full(h) == tail - h > Size(memory[array]) - 1

PushHead ==
    /\ pc[Owner] = "push"
    /\ local' = [local EXCEPT ![Owner].head = head]
    /\ Goto(Owner, IF Full(head) THEN "push_grow" ELSE "push_store")
    /\ UNCHANGED <<fields, memory, arg>>

\* The old array is neither freed nor written again.
PushGrow ==
    /\ pc[Owner] = "push_grow"
    /\ memory' = Allocated(memory, array + 1,
                    circular_array_resize(memory[array], tail, local[Owner].head))
    /\ array' = array + 1
    /\ Goto(Owner, "push_store")
    /\ UNCHANGED <<head, tail, buffer, arg, local>>

PushStore ==
    /\ pc[Owner] = "push_store"
    /\ memory' = [memory EXCEPT ![array] = CA_SET(@, tail, arg)]
    /\ Goto(Owner, "push_tail")
    /\ UNCHANGED <<fields, arg, local>>

PushTail ==
    /\ pc[Owner] = "push_tail"
    /\ tail' = tail + 1
    /\ arg' = None
    /\ local' = [local EXCEPT ![Owner] = NoLocals]
    /\ Goto(Owner, "idle")
    /\ UNCHANGED <<head, buffer, array, memory>>

-----------------------------------------------------------------------------
(* tk_queue_pop and tk_queue_steal: the array is loaded once, before the loop *)

TakeArray(t) ==
    /\ pc[t] = "take_array"
    /\ local' = [local EXCEPT ![t].arr = array]
    /\ Goto(t, "take_head")
    /\ UNCHANGED <<fields, memory, arg>>

TakeHead(t) ==
    /\ pc[t] = "take_head"
    /\ local' = [local EXCEPT ![t].head = head]
    /\ Goto(t, "take_tail")
    /\ UNCHANGED <<fields, memory, arg>>

TakeTail(t) ==
    /\ pc[t] = "take_tail"
    /\ IF local[t].head = tail
         THEN /\ local' = [local EXCEPT ![t].elt = EMPTY]
              /\ Goto(t, "return")
         ELSE /\ Goto(t, "take_read")
              /\ UNCHANGED local
    /\ UNCHANGED <<fields, memory, arg>>

TakeRead(t) ==
    /\ pc[t] = "take_read"
    /\ local' = [local EXCEPT ![t].elt = CA_GET(memory[local[t].arr], local[t].head)]
    /\ Goto(t, "take_exchange")
    /\ UNCHANGED <<fields, memory, arg>>

\* Mutant: the head is stored, not compared and exchanged.
TakeBlindly(t) ==
    /\ pc[t] = "take_exchange"
    /\ head' = local[t].head + 1
    /\ Goto(t, "return")
    /\ UNCHANGED <<tail, buffer, array, memory, arg, local>>

TakeExchange(t) ==
    /\ pc[t] = "take_exchange"
    /\ IF head = local[t].head
         THEN head' = head + 1 /\ Goto(t, "return")
         ELSE UNCHANGED head /\ Goto(t, "take_head")
    /\ UNCHANGED <<tail, buffer, array, memory, arg, local>>

\* pop and steal return.
Return(t) ==
    /\ pc[t] = "return"
    /\ local' = [local EXCEPT ![t] = NoLocals]
    /\ Goto(t, "idle")
    /\ UNCHANGED <<fields, memory, arg>>

-----------------------------------------------------------------------------
PushStep == Exchange \/ PushHead \/ PushGrow \/ PushStore \/ PushTail
TakeStep(t) ==
    TakeArray(t) \/ TakeHead(t) \/ TakeTail(t) \/ TakeRead(t) \/ TakeExchange(t) \/ Return(t)

Next ==
    \/ \E e \in Elts : CallPush(e) \/ CallPriorityPush(e)
    \/ CallPop \/ PushStep
    \/ \E t \in Threads : CallSteal(t) \/ TakeStep(t)

Spec == Init /\ [][Next]_vars

-----------------------------------------------------------------------------
(* Properties *)

\* The queue described by its fields: what is between head and tail.
Items == [i \in 1 .. tail - head |-> CA_GET(memory[array], head + i - 1)]

Abstract == INSTANCE WorkQueue WITH
    items <- Items, slot <- buffer, offer <- arg, hand <- [t \in Threads |-> Hand(t)]

\* The queue behaves as one atomic queue, whoever takes from it at the same
\* time ("Can be call by anyone", src/utils/tk_queue.h): each element comes out
\* once, the oldest first, and EMPTY is answered only of an empty queue.
ImplementsWorkQueue == Abstract!Spec
=============================================================================
