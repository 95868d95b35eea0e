------------------------------- MODULE Stacks -------------------------------
(***************************************************************************)
(* Segmented stacks (src/src/mem/seff_mem_segmented.{c,S}), the switches of  *)
(* %fs:0x70, the limit that function prologues compare %rsp with, by the     *)
(* entry points of asm/seff.S, and the system call wrappers of seff.h.       *)
(*                                                                         *)
(* Addresses in a segment are offsets from the first byte after its header:  *)
(* the header's padding is -128 .. -1, the canary -136 .. -129, and size,    *)
(* next and prev lie below.  malloc answers multiples of 16, and so does     *)
(* sizeof(seff_stack_segment_t), so an offset is aligned as its address is.  *)
(***************************************************************************)
EXTENDS Integers, Sequences, SequencesExt, FiniteSets, FiniteSetsExt

CONSTANTS
    Threads, Coroutines,
    FrameSizes,             \* %r10 in a prologue: the bytes a function asks for
    ParamSizes,             \* %r11: bytes of parameters on the stack
    default_frame_size, min_segment_size, syscall_segment_size,
    RedZone,                \* bytes a leaf function uses below %rsp
    MaxSegments, MaxDepth,  \* bounds: segments; frames of a coroutine
    NULL

ASSUME SizesAssumption ==
    /\ FrameSizes \cup ParamSizes \cup {RedZone} \subseteq Nat
    /\ {default_frame_size, min_segment_size, syscall_segment_size} \subseteq Nat
ASSUME BoundsAssumption == MaxSegments \in Nat /\ MaxDepth \in Nat

Segments == 1 .. MaxSegments
Header == [prev : Segments \cup {NULL}, next : Segments \cup {NULL}, size : Nat]
StackTop == [seg : Segments \cup {NULL}, off : Int]
ASSUME NullAssumption == NULL \notin Coroutines \cup Nat \cup Header \cup StackTop

Padding == 128
Aligned(address) == address - (address % 16)

VARIABLES
    heap,          \* [Segments -> header or NULL] the segments malloc'ed
    frame_ptr,     \* [Coroutines -> segment or NULL], NULL before new and after delete
    frames,        \* [Coroutines -> Seq(frame)] the calls in progress on a stack
    saved,         \* [Coroutines -> [stack_top, current]] the resume_point
    parent,        \* [Coroutines -> coroutine or NULL] parent_coroutine
    inside,        \* [Coroutines -> BOOLEAN] resumed and neither yielded nor finished
    current,       \* [Threads -> coroutine or NULL] _seff_current_coroutine
    limit,         \* [Threads -> [seg, off] or NULL for zero] %fs:0x70
    system_stack,  \* [Threads -> 0 .. 1] _seff_system_stack
    main_sp,       \* [Threads -> 0 .. 1] how deep the thread's own stack is
    paused_top,    \* [Threads -> limit] _seff_paused_coroutine_stack_top
    wrapped        \* [Threads -> Seq({"switched", "direct"})] wrapped calls in progress

stack == <<heap, frame_ptr, frames>>
links == <<saved, parent, inside>>
regs == <<current, limit, system_stack>>
calls == <<main_sp, paused_top, wrapped>>
vars == <<stack, links, regs, calls>>

\* seff_mem_thread_init, for every thread.
Init ==
    /\ heap = [s \in Segments |-> NULL]
    /\ frame_ptr = [k \in Coroutines |-> NULL]
    /\ frames = [k \in Coroutines |-> <<>>]
    /\ saved = [k \in Coroutines |-> [stack_top |-> NULL, current |-> NULL]]
    /\ parent = [k \in Coroutines |-> NULL]
    /\ inside = [k \in Coroutines |-> FALSE]
    /\ current = [t \in Threads |-> NULL]
    /\ limit = [t \in Threads |-> NULL]
    /\ system_stack = [t \in Threads |-> 0]
    /\ main_sp = [t \in Threads |-> 0]
    /\ paused_top = [t \in Threads |-> NULL]
    /\ wrapped = [t \in Threads |-> <<>>]

-----------------------------------------------------------------------------
(* Segments *)

FreeSegments == {s \in Segments : heap[s] = NULL}
Allocated == Segments \ FreeSegments
HasRoom == FreeSegments # {}
NewSegment == Min(FreeSegments)

init_segment(s, size) == [heap EXCEPT ![s] = [prev |-> NULL, next |-> NULL, size |-> size]]

LINK(h, first, second) == [h EXCEPT ![first].next = second, ![second].prev = first]

\* Mutant: the segment after the new one is not linked to it.
LinkFrontOnly(h, first, second, third) == LINK(h, first, second)
LinkBetween(h, first, second, third) == LINK(LINK(h, second, third), first, second)

\* Mutant: the parameters are left out when a segment is reused.
SuitsFrame(s, frame_size, param_size) == heap[s].size >= frame_size
Suits(s, frame_size, param_size) == heap[s].size >= frame_size + param_size

\* The segment a new frame gets and the heap with it in its place.
seff_mem_allocate_frame(cur, frame_size, param_size) ==
    LET size == Max({frame_size + param_size, min_segment_size})
        next == heap[cur].next
        grown == init_segment(NewSegment, size)
    IN  IF next = NULL
          THEN [seg |-> NewSegment, heap |-> LINK(grown, cur, NewSegment)]
        ELSE IF ~Suits(next, frame_size, param_size)
          THEN [seg |-> NewSegment, heap |-> LinkBetween(grown, cur, NewSegment, next)]
        ELSE [seg |-> next, heap |-> heap]

Backward[s \in Allocated] == IF heap[s].prev = NULL THEN s ELSE Backward[heap[s].prev]
Forward[s \in Allocated] ==
    {s} \cup IF heap[s].next = NULL THEN {} ELSE Forward[heap[s].next]

\* seff_coroutine_release: back to the first segment, then all of them.
Released(k) == Forward[Backward[frame_ptr[k]]]

seff_coroutine_init_sized(k) ==
    LET size == default_frame_size + 16
    IN  /\ frame_ptr[k] = NULL
        /\ HasRoom
        /\ heap' = init_segment(NewSegment, size)
        /\ frame_ptr' = [frame_ptr EXCEPT ![k] = NewSegment]
        /\ frames' = [frames EXCEPT ![k] = <<[sp |-> Aligned(size) - 8, more |-> FALSE]>>]
        /\ saved' = [saved EXCEPT ![k] =
               [stack_top |-> [seg |-> NewSegment, off |-> 0], current |-> k]]
        /\ UNCHANGED <<parent, inside, regs, calls>>

\* The coroutines from j along parent_coroutine, up to k or the end.
Path(j, k) ==
    LET Up[i \in Coroutines] ==
            {i} \cup IF i = k \/ parent[i] = NULL THEN {} ELSE Up[parent[i]]
    IN  IF j = NULL THEN {} ELSE Up[j]
Running == UNION {Path(current[t], NULL) : t \in Threads}
\* The coroutines captured together with k, k among them.
Captured(k) == IF saved[k].current = NULL THEN {} ELSE Path(saved[k].current, k)

\* A client deletes what is neither running nor captured inside another one.
seff_coroutine_delete(k) ==
    /\ frame_ptr[k] # NULL
    /\ k \notin Running
    /\ \A j \in Coroutines \ {k} : k \notin Captured(j)
    /\ heap' = [s \in Segments |-> IF s \in Released(k) THEN NULL ELSE heap[s]]
    /\ frame_ptr' = [frame_ptr EXCEPT ![k] = NULL]
    /\ frames' = [frames EXCEPT ![k] = <<>>]
    /\ saved' = [saved EXCEPT ![k] = [stack_top |-> NULL, current |-> NULL]]
    /\ parent' = [parent EXCEPT ![k] = NULL]
    /\ inside' = [inside EXCEPT ![k] = FALSE]
    /\ UNCHANGED <<regs, calls>>

-----------------------------------------------------------------------------
(* Calls and returns on a coroutine's stack *)

OnCoroutine(t) == current[t] # NULL /\ wrapped[t] = <<>>
Rsp(k) == Last(frames[k]).sp

\* __morestack: the frame goes to the next segment, and the limit with it.
MorestackAt(t, k, frame_size, param_size, used) ==
    LET got == seff_mem_allocate_frame(frame_ptr[k], frame_size, param_size)
        announced == got.heap[got.seg].size - param_size
        new_stack == Aligned(announced)
        next == heap[frame_ptr[k]].next
    IN  /\ HasRoom \/ (next # NULL /\ Suits(next, frame_size, param_size))
        /\ heap' = got.heap
        /\ frame_ptr' = [frame_ptr EXCEPT ![k] = got.seg]
        /\ frames' = [frames EXCEPT ![k] =
               Append(@, [sp |-> new_stack - 8 - used, more |-> TRUE])]
        /\ limit' = [limit EXCEPT ![t] = [seg |-> got.seg, off |-> new_stack - announced]]

\* A prologue; one that goes through __morestack_non_split asks for more room.
Call(t, frame_size, param_size, non_split) ==
    LET k == current[t]
        sp == Rsp(k) - 8
        wanted == frame_size + IF non_split THEN syscall_segment_size ELSE 0
    IN  /\ OnCoroutine(t)
        /\ Len(frames[k]) < MaxDepth
        /\ IF sp - wanted >= limit[t].off
             THEN /\ frames' = [frames EXCEPT ![k] =
                         Append(@, [sp |-> sp - frame_size, more |-> FALSE])]
                  /\ UNCHANGED <<heap, frame_ptr, limit>>
             ELSE MorestackAt(t, k, wanted, param_size, frame_size)
        /\ UNCHANGED <<links, current, system_stack, calls>>

seff_mem_release_frame(t, k) ==
    /\ frame_ptr' = [frame_ptr EXCEPT ![k] = heap[@].prev]
    /\ limit' = [limit EXCEPT ![t] = [seg |-> heap[frame_ptr[k]].prev, off |-> 0]]

\* A function returns, through the end of __morestack if it was entered there.
Return(t) ==
    LET k == current[t]
    IN  /\ OnCoroutine(t)
        /\ Len(frames[k]) > 1
        /\ IF Last(frames[k]).more
             THEN seff_mem_release_frame(t, k)
             ELSE UNCHANGED <<frame_ptr, limit>>
        /\ frames' = [frames EXCEPT ![k] = Front(@)]
        /\ UNCHANGED <<heap, links, current, system_stack, calls>>

-----------------------------------------------------------------------------
(* Switches *)

\* Mutant: the system stack is noted when the continuation holds no other coroutine.
NotesLeafResume(t, k) == saved[k].current = k
NotesSystemStack(t, k) == current[t] = NULL

\* seff_resume_unwrapped
seff_resume(t, k) ==
    /\ wrapped[t] = <<>>
    /\ frame_ptr[k] # NULL
    /\ ~inside[k] /\ saved[k].current # NULL
    /\ saved' = [saved EXCEPT ![k] = [stack_top |-> limit[t], current |-> NULL]]
    /\ limit' = [limit EXCEPT ![t] = saved[k].stack_top]
    /\ parent' = [parent EXCEPT ![k] = current[t]]
    /\ current' = [current EXCEPT ![t] = saved[k].current]
    /\ inside' = [inside EXCEPT ![k] = TRUE]
    /\ system_stack' = IF NotesSystemStack(t, k)
                         THEN [system_stack EXCEPT ![t] = main_sp[t]]
                         ELSE system_stack
    /\ UNCHANGED <<stack, calls>>

\* Capture the coroutines from the running one up to k.
seff_yield(t, k) ==
    /\ OnCoroutine(t)
    /\ k \in Path(current[t], NULL)
    /\ saved' = [saved EXCEPT ![k] = [stack_top |-> limit[t], current |-> current[t]]]
    /\ limit' = [limit EXCEPT ![t] = saved[k].stack_top]
    /\ current' = [current EXCEPT ![t] = parent[k]]
    /\ inside' = [inside EXCEPT ![k] = FALSE]
    /\ UNCHANGED <<stack, parent, system_stack, calls>>

\* The frames stay where they are, at any depth, of k and of the coroutines
\* between it and the running one, which are abandoned.
seff_exit(t, k) ==
    /\ OnCoroutine(t)
    /\ k \in Path(current[t], NULL)
    /\ limit' = [limit EXCEPT ![t] = saved[k].stack_top]
    /\ current' = [current EXCEPT ![t] = parent[k]]
    /\ inside' = [inside EXCEPT ![k] = FALSE]
    /\ UNCHANGED <<stack, saved, parent, system_stack, calls>>

\* The thread's own stack grows and shrinks while no coroutine runs on it.
MainCall(t) ==
    /\ current[t] = NULL /\ wrapped[t] = <<>>
    /\ main_sp' = [main_sp EXCEPT ![t] = 1 - @]
    /\ UNCHANGED <<stack, links, regs, paused_top, wrapped>>

\* A wrapped call made while the limit is zero goes straight to the function.
MAKE_SYSCALL_WRAPPER(t) ==
    /\ Len(wrapped[t]) < 2
    /\ IF limit[t] = NULL
         THEN /\ wrapped' = [wrapped EXCEPT ![t] = Append(@, "direct")]
              /\ UNCHANGED <<paused_top, limit>>
         ELSE /\ wrapped' = [wrapped EXCEPT ![t] = Append(@, "switched")]
              /\ paused_top' = [paused_top EXCEPT ![t] = limit[t]]
              /\ limit' = [limit EXCEPT ![t] = NULL]
    /\ UNCHANGED <<stack, links, current, system_stack, main_sp>>

\* Mutant: every wrapped call puts the limit back.
AlwaysRestores(t) == TRUE
RestoresLimit(t) == Last(wrapped[t]) = "switched"

WrapperReturns(t) ==
    /\ wrapped[t] # <<>>
    /\ wrapped' = [wrapped EXCEPT ![t] = Front(@)]
    /\ IF RestoresLimit(t)
         THEN /\ limit' = [limit EXCEPT ![t] = paused_top[t]]
              /\ paused_top' = [paused_top EXCEPT ![t] = NULL]   \* dead from here on
         ELSE UNCHANGED <<limit, paused_top>>
    /\ UNCHANGED <<stack, links, current, system_stack, main_sp>>

Next ==
    \/ \E k \in Coroutines : seff_coroutine_init_sized(k) \/ seff_coroutine_delete(k)
    \/ \E t \in Threads, f \in FrameSizes, p \in ParamSizes, b \in BOOLEAN : Call(t, f, p, b)
    \/ \E t \in Threads, k \in Coroutines :
          seff_resume(t, k) \/ seff_yield(t, k) \/ seff_exit(t, k)
    \/ \E t \in Threads : Return(t) \/ MainCall(t)
                          \/ MAKE_SYSCALL_WRAPPER(t) \/ WrapperReturns(t)

Spec == Init /\ [][Next]_vars

-----------------------------------------------------------------------------
(* Properties *)

Alive == {k \in Coroutines : frame_ptr[k] # NULL}

\* How many segments are before s on its list.
Before[s \in Allocated] == IF heap[s].prev = NULL THEN 0 ELSE 1 + Before[heap[s].prev]

\* Each segment allocated is on the list of exactly one coroutine, which has
\* one segment before frame_ptr for every call that went through __morestack:
\* inserting, reusing and releasing neither lose nor share memory, whatever the
\* depth a coroutine is left or deleted at.
OwnedOnce ==
    /\ Allocated = UNION {Released(k) : k \in Alive}
    /\ \A j, k \in Alive : j # k => Released(j) \cap Released(k) = {}
    /\ \A s \in Allocated : heap[s].next # NULL => heap[heap[s].next].prev = s
    /\ \A k \in Alive :
           Before[frame_ptr[k]] = Cardinality({i \in DOMAIN frames[k] : frames[k][i].more})

\* The limit a prologue compares %rsp with belongs to the stack %rsp is on: the
\* last segment of the running coroutine, or none on a system stack, in a
\* wrapped call included; and what a coroutine has saved is the limit of where it
\* will be resumed, or of its resumer while it runs, on whatever thread.
LimitOf(k, top) ==
    IF k = NULL THEN top = NULL
    ELSE /\ top # NULL
         /\ top.seg = frame_ptr[k]
         /\ top.off \in -15 .. 0
LimitMatchesStack ==
    /\ \A t \in Threads :
          LimitOf(IF "switched" \in ToSet(wrapped[t]) THEN NULL ELSE current[t], limit[t])
    /\ \A k \in Running : LimitOf(parent[k], saved[k].stack_top)
    /\ \A k \in Coroutines : saved[k].current # NULL =>
          LimitOf(saved[k].current, saved[k].stack_top)

\* A function's frame, the red zone below it and the two words __morestack
\* pushes end in the padding of the segment's header, which is there "to allow
\* __morestack to run and to host the red zone".
RedZoneFits ==
    \A k \in Alive : \A i \in DOMAIN frames[k] : frames[k][i].sp - Max({16, RedZone}) >= -Padding

\* In a coroutine, the stack that __morestack and the wrappers borrow begins
\* where the thread's own code is suspended, however deep the chain and wherever
\* it was captured.
SystemStackIsFree ==
    \A t \in Threads : current[t] # NULL => system_stack[t] = main_sp[t]
=============================================================================
