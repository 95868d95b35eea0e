----------------------------- MODULE TaskQueues -----------------------------
(***************************************************************************)
(* The task queue of a worker as scheduler/scheff.h configures it: one of    *)
(* three implementations, chosen when the scheduler is compiled by the macro *)
(* QUEUE.  The variables of the two not chosen keep their initial values.    *)
(***************************************************************************)
EXTENDS TaskQueue

CONSTANTS
    MaxQueued, MaxBuffer, ABORT \* of TkQueue and ClQueue

ASSUME TaskQueuesAssumption ==
    /\ MaxQueued \in Nat /\ MaxBuffer \in Nat \ {0}
    /\ ABORT \notin Elts \cup {None, Junk}

VARIABLES
    impl,   \* QUEUE, as the letters that GLUE puts before the operations
    l_locked, l_head, l_tail, l_buffer, l_array, l_memory, l_freed, l_pc, l_arg, l_local,
    k_head, k_tail, k_buffer, k_array, k_memory, k_pc, k_arg, k_local,
    c_top, c_writes, c_pc, c_arg, c_local, c_pushes

tl == INSTANCE TlQueue WITH
    locked <- l_locked, head <- l_head, tail <- l_tail, buffer <- l_buffer,
    array <- l_array, memory <- l_memory, freed <- l_freed, pc <- l_pc, arg <- l_arg,
    local <- l_local
tk == INSTANCE TkQueue WITH
    head <- k_head, tail <- k_tail, buffer <- k_buffer, array <- k_array,
    memory <- k_memory, pc <- k_pc, arg <- k_arg, local <- k_local,
    StealsDuringGrowth <- FALSE
cl == INSTANCE ClQueue WITH
    top <- c_top, writes <- c_writes, pc <- c_pc, arg <- c_arg, local <- c_local,
    pushes <- c_pushes

tlVars == <<l_locked, l_head, l_tail, l_buffer, l_array, l_memory, l_freed, l_pc, l_arg, l_local>>
tkVars == <<k_head, k_tail, k_buffer, k_array, k_memory, k_pc, k_arg, k_local>>
clVars == <<c_top, c_writes, c_pc, c_arg, c_local, c_pushes>>
vars == <<impl, tlVars, tkVars, clVars>>

Init == impl \in {"tl", "tk", "cl"} /\ tl!Init /\ tk!Init /\ cl!Init

Tl(step) == impl = "tl" /\ step /\ UNCHANGED <<impl, tkVars, clVars>>
Tk(step) == impl = "tk" /\ step /\ UNCHANGED <<impl, tlVars, clVars>>
Cl(step) == impl = "cl" /\ step /\ UNCHANGED <<impl, tlVars, tkVars>>

Next == Tl(tl!Next) \/ Tk(tk!Next) \/ Cl(cl!Next)

Spec == Init /\ [][Next]_vars

\* Calls that have begun go on, stores reach memory, and thieves of the Chase-Lev
\* queue look again and again, as idle workers do.
FairSpec ==
    /\ Spec
    /\ \A t \in Threads : WF_vars(Tl(tl!Step(t)))
    /\ WF_vars(Cl(cl!Flush)) /\ WF_vars(Cl(cl!PushStep \/ cl!PopStep))
    /\ \A t \in Threads : WF_vars(Cl(cl!StealStep(t) \/ cl!Return(t)))

-----------------------------------------------------------------------------
(* What the run checks of each queue; the modules say what it means *)

\* tl_queue.c: no thread reads or writes an array that a resize has freed.
NoUseAfterFree == tl!NoUseAfterFree

\* tl_queue.c and tk_queue.c behave as one atomic queue.
ImplementsWorkQueue == tl!ImplementsWorkQueue /\ tk!ImplementsWorkQueue

\* cl_queue.c is a deque out of which every element comes once.
ImplementsWorkDeque == cl!ImplementsWorkDeque

\* tl_queue.c gives its lock back on every path.
LockReleased == tl!LockReleased

\* cl_queue.c: what is in the queue is taken by somebody.
AllTaken == cl!AllTaken
=============================================================================
