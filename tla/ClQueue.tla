------------------------------ MODULE ClQueue -------------------------------
(***************************************************************************)
(* The Chase-Lev task queue of src/utils/cl_queue.c over the growing ring of *)
(* src/utils/circular_array.h, on a machine with total store order (x86):    *)
(* what the owner stores waits in its store buffer, which it reads through   *)
(* itself and which other threads see emptied one store after another.  A    *)
(* fence or a compare-and-exchange waits until the buffer is empty.         *)
(*                                                                         *)
(* bottom, array and the ring are stored by the owner alone, so its buffer   *)
(* is kept as the sequence of what these were: the others see the first,     *)
(* the owner the last.                                                      *)
(***************************************************************************)
EXTENDS TaskQueue

CONSTANTS
    MaxBuffer,  \* bound: stores waiting in the owner's buffer
    ABORT

VARIABLES
    top,        \* the field of cl_queue_t that thieves write too
    writes,     \* Seq([bottom, array, memory]) what the owner has stored, see above
    pc,         \* [Threads -> ...] the next step of a thread
    arg,        \* what the owner is putting in
    local,      \* [Threads -> ...] a thread's copies of top and array, and its result
    pushes      \* the pushes begun

vars == <<top, writes, pc, arg, local, pushes>>

Mine == writes[Len(writes)]
Visible == Head(writes)
Drained == Len(writes) = 1

Store(new) == Len(writes) =< MaxBuffer /\ writes' = Append(writes, new)

NoLocals == [top |-> 0, arr |-> 0, elt |-> None]

\* cl_queue_init
Init ==
    /\ top = 0
    /\ writes = << [bottom |-> 0, array |-> 0,
                    memory |-> [a \in {0} |-> circular_array_new(log_size)]] >>
    /\ pc = [t \in Threads |-> "idle"]
    /\ arg = None
    /\ local = [t \in Threads |-> NoLocals]
    /\ pushes = 0

Goto(t, l) == pc' = [pc EXCEPT ![t] = l]

\* The oldest store reaches memory.
Flush ==
    /\ ~Drained
    /\ writes' = Tail(writes)
    /\ UNCHANGED <<top, pc, arg, local, pushes>>

\* bottom as it is outside a pop, which lowers it before it knows what it gets.
Bottom == IF pc[Owner] \in {"pop_top", "pop_exchange", "pop_restore"}
            THEN Mine.bottom + 1 ELSE Mine.bottom

\* The elements in the queue, the oldest first.
Items == [i \in 1 .. Bottom - top |-> CA_GET(Mine.memory[Mine.array], top + i - 1)]

\* What a thread has got out; before its exchange succeeds it has nothing.
Hand(t) == IF pc[t] \in {"return", "pop_restore"} THEN local[t].elt ELSE None

-----------------------------------------------------------------------------
(* cl_queue_push; cl_queue_priority_push is the same *)

CallPush(e) ==
    /\ pc[Owner] = "idle"
    /\ pushes < MaxTail
    /\ \A t \in Threads : Hand(t) # e
    /\ \A i \in DOMAIN Items : Items[i] # e
    /\ arg' = e
    /\ pushes' = pushes + 1
    /\ Goto(Owner, "push")
    /\ UNCHANGED <<top, writes, local>>

\* The ring has no free place, as far as the top the owner has read says.
Full(arr, b, t) == b - t > Size(arr) - 1

PushTop ==
    /\ pc[Owner] = "push"
    /\ local' = [local EXCEPT ![Owner].top = top]
    /\ Goto(Owner, IF Full(Mine.memory[Mine.array], Mine.bottom, top)
                   THEN "push_grow" ELSE "push_store")
    /\ UNCHANGED <<top, writes, arg, pushes>>

\* The old array is neither freed nor written again.
PushGrow ==
    /\ pc[Owner] = "push_grow"
    /\ LET arr == circular_array_resize(Mine.memory[Mine.array], Mine.bottom, local[Owner].top)
       IN  Store([Mine EXCEPT !.memory = Allocated(@, Mine.array + 1, arr), !.array = @ + 1])
    /\ Goto(Owner, "push_store")
    /\ UNCHANGED <<top, arg, local, pushes>>

PushStore ==
    /\ pc[Owner] = "push_store"
    /\ Store([Mine EXCEPT !.memory[Mine.array] = CA_SET(@, Mine.bottom, arg)])
    /\ Goto(Owner, "push_bottom")
    /\ UNCHANGED <<top, arg, local, pushes>>

PushBottom ==
    /\ pc[Owner] = "push_bottom"
    /\ Store([Mine EXCEPT !.bottom = @ + 1])
    /\ arg' = None
    /\ local' = [local EXCEPT ![Owner] = NoLocals]
    /\ Goto(Owner, "idle")
    /\ UNCHANGED <<top, pushes>>

-----------------------------------------------------------------------------
(* cl_queue_pop *)

PopBottom ==
    /\ pc[Owner] = "idle"
    /\ Store([Mine EXCEPT !.bottom = @ - 1])
    /\ Goto(Owner, "pop_top")
    /\ UNCHANGED <<top, arg, local, pushes>>

\* Mutant: the fence between the store of bottom and the load of top is missing.
NoFence == TRUE

\* atomic_thread_fence(memory_order_seq_cst)
Fenced == Drained

\* The newest element is the owner's if there are more; the last one is raced
\* for; if there is none, bottom is put back.
PopTop ==
    /\ pc[Owner] = "pop_top"
    /\ Fenced
    /\ LET elt == IF top =< Mine.bottom
                    THEN CA_GET(Mine.memory[Mine.array], Mine.bottom) ELSE EMPTY
       IN  local' = [local EXCEPT ![Owner] = [@ EXCEPT !.top = top, !.elt = elt]]
    /\ Goto(Owner, IF top < Mine.bottom THEN "return"
                   ELSE IF top = Mine.bottom THEN "pop_exchange" ELSE "pop_restore")
    /\ UNCHANGED <<top, writes, arg, pushes>>

PopExchange ==
    /\ pc[Owner] = "pop_exchange"
    /\ Drained
    /\ IF top = local[Owner].top
         THEN top' = top + 1 /\ UNCHANGED local
         ELSE local' = [local EXCEPT ![Owner].elt = EMPTY] /\ UNCHANGED top
    /\ Goto(Owner, "pop_restore")
    /\ UNCHANGED <<writes, arg, pushes>>

PopRestore ==
    /\ pc[Owner] = "pop_restore"
    /\ Store([Mine EXCEPT !.bottom = @ + 1])
    /\ Goto(Owner, "return")
    /\ UNCHANGED <<top, arg, local, pushes>>

-----------------------------------------------------------------------------
(* cl_queue_steal *)

StealTop(t) ==
    /\ t \in Thieves
    /\ pc[t] = "idle"
    /\ local' = [local EXCEPT ![t].top = top]
    /\ Goto(t, "steal_bottom")
    /\ UNCHANGED <<top, writes, arg, pushes>>

\* Mutant: the last element is never stolen.
LeavesOne(top0, bottom) == top0 + 1 < bottom

NonEmpty(top0, bottom) == top0 < bottom

StealBottom(t) ==
    /\ pc[t] = "steal_bottom"
    /\ IF NonEmpty(local[t].top, Visible.bottom)
         THEN Goto(t, "steal_array") /\ UNCHANGED local
         ELSE Goto(t, "return") /\ local' = [local EXCEPT ![t].elt = EMPTY]
    /\ UNCHANGED <<top, writes, arg, pushes>>

StealArray(t) ==
    /\ pc[t] = "steal_array"
    /\ local' = [local EXCEPT ![t].arr = Visible.array]
    /\ Goto(t, "steal_read")
    /\ UNCHANGED <<top, writes, arg, pushes>>

StealRead(t) ==
    /\ pc[t] = "steal_read"
    /\ local' = [local EXCEPT ![t].elt = CA_GET(Visible.memory[local[t].arr], local[t].top)]
    /\ Goto(t, "steal_exchange")
    /\ UNCHANGED <<top, writes, arg, pushes>>

StealExchange(t) ==
    /\ pc[t] = "steal_exchange"
    /\ IF top = local[t].top
         THEN top' = top + 1 /\ UNCHANGED local
         ELSE local' = [local EXCEPT ![t].elt = ABORT] /\ UNCHANGED top
    /\ Goto(t, "return")
    /\ UNCHANGED <<writes, arg, pushes>>

\* pop and steal return.
Return(t) ==
    /\ pc[t] = "return"
    /\ local' = [local EXCEPT ![t] = NoLocals]
    /\ Goto(t, "idle")
    /\ UNCHANGED <<top, writes, arg, pushes>>

-----------------------------------------------------------------------------
PushStep == PushTop \/ PushGrow \/ PushStore \/ PushBottom
PopStep == PopTop \/ PopExchange \/ PopRestore
StealStep(t) ==
    StealTop(t) \/ StealBottom(t) \/ StealArray(t) \/ StealRead(t) \/ StealExchange(t)

Next ==
    \/ \E e \in Elts : CallPush(e)
    \/ PushStep \/ PopBottom \/ PopStep \/ Flush
    \/ \E t \in Threads : StealStep(t) \/ Return(t)

Spec == Init /\ [][Next]_vars

\* Stores reach memory, calls that have begun go on, and thieves look again and
\* again, as idle workers do.
FairSpec ==
    /\ Spec
    /\ WF_vars(Flush) /\ WF_vars(PushStep \/ PopStep)
    /\ \A t \in Threads : WF_vars(StealStep(t) \/ Return(t))

-----------------------------------------------------------------------------
(* Properties *)

Abstract == INSTANCE WorkDeque WITH
    items <- Items, offer <- arg, hand <- [t \in Threads |-> Hand(t)]

\* The queue is a deque out of which every element comes once, at the one end or
\* the other, whatever the owner's store buffer holds back, and although a thief
\* may read from an array that has been replaced.
ImplementsWorkDeque == Abstract!Spec

\* What is in the queue is taken by somebody: thieves who keep looking do not
\* abort for ever, nor leave anything behind.
AllTaken == Items # <<>> ~> Items = <<>>
=============================================================================
