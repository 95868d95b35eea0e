------------------------------- MODULE Skynet -------------------------------
(***************************************************************************)
(* What the four task-based programs of src/bench/skynet_bench share: a tree  *)
(* of tasks in which each inner node forks its children, waits for each and   *)
(* adds up their answers; workers with a queue each; and the promises, which  *)
(* live in the stack frame of the parent and die with its coroutine.         *)
(***************************************************************************)
EXTENDS Integers, Sequences, SequencesExt, FiniteSets

CONSTANTS
    NWorkers,
    BRANCHING_FACTOR,
    last_layer    \* BRANCHING_FACTOR ^ (depth - 1): the first leaf

ASSUME NAssumption == NWorkers \in Nat \ {0} /\ BRANCHING_FACTOR \in Nat \ {0, 1}

Workers == 0 .. NWorkers - 1

\* Layer i of the tree is the B^i nodes from B^i on.
Parent(n) == n \div BRANCHING_FACTOR
Nodes ==
    LET Layers[b \in 1 .. last_layer] ==
            (b .. 2 * b - 1) \cup IF b = 1 THEN {} ELSE Layers[b \div BRANCHING_FACTOR]
    IN  Layers[last_layer]
Leaf(n) == n >= last_layer

NoTask == 0
Garbage == -1   \* what an uninitialised result holds: no answer
EmptyPromise == [locked |-> FALSE, ready |-> FALSE, result |-> Garbage, waiter |-> NoTask]

VARIABLES
    queue,      \* [Workers -> Seq(Nodes)] task_queue, its head first
    slot,       \* [Workers -> Nodes or NoTask] its priority slot
    remaining,  \* remaining_tasks
    pc,         \* [Workers -> ...] where a worker is
    cur,        \* [Workers -> Nodes or NoTask] current_task
    local,      \* [Workers -> Nat] a local variable: i of the stealing loop, or `awaited`
    alive,      \* SUBSET Nodes: tasks whose coroutine is not deleted
    at,         \* [Nodes -> Nat] how many children a node forked and waited for
    sum,        \* [Nodes -> Nat]
    promise     \* [Nodes -> cell] the promise a node fulfils

workers == <<pc, cur, local>>
queues == <<queue, slot>>
nodes == <<alive, at, sum>>
skynet_vars == <<queues, remaining, workers, nodes, promise>>

\* The root is scheduled on the first worker before any of them runs.
SkynetInit ==
    /\ queue = [w \in Workers |-> IF w = 0 THEN <<1>> ELSE <<>>]
    /\ slot = [w \in Workers |-> NoTask]
    /\ remaining = 1
    /\ pc = [w \in Workers |-> "pop"]
    /\ cur = [w \in Workers |-> NoTask]
    /\ local = [w \in Workers |-> 1]
    /\ alive = {1}
    /\ at = [n \in Nodes |-> 0]
    /\ sum = [n \in Nodes |-> 0]
    /\ promise = [n \in Nodes |-> EmptyPromise]

Goto(w, l) == pc' = [pc EXCEPT ![w] = l]
Leave(w) == Goto(w, "pop") /\ cur' = [cur EXCEPT ![w] = NoTask] /\ UNCHANGED local

-----------------------------------------------------------------------------
(* Queues: a step each, as WorkQueue and WorkDeque promise *)

Push(w, n) == queue' = [queue EXCEPT ![w] = Append(@, n)] /\ UNCHANGED slot

\* The newcomer takes the slot, which thieves cannot reach; what was there is pushed.
PriorityPush(w, n) ==
    /\ slot' = [slot EXCEPT ![w] = n]
    /\ queue' = IF slot[w] = NoTask THEN queue ELSE [queue EXCEPT ![w] = Append(@, slot[w])]

Enqueue(w, n, priority) == IF priority THEN PriorityPush(w, n) ELSE Push(w, n)

Took(w, n) == cur' = [cur EXCEPT ![w] = n] /\ Goto(w, "resume") /\ UNCHANGED local

PopOldest(w) ==
    IF slot[w] # NoTask
      THEN Took(w, slot[w]) /\ slot' = [slot EXCEPT ![w] = NoTask] /\ UNCHANGED queue
    ELSE /\ queue[w] # <<>>
         /\ Took(w, Head(queue[w]))
         /\ queue' = [queue EXCEPT ![w] = Tail(@)]
         /\ UNCHANGED slot

PopNewest(w) ==
    /\ queue[w] # <<>>
    /\ Took(w, Last(queue[w]))
    /\ queue' = [queue EXCEPT ![w] = Front(@)]
    /\ UNCHANGED slot

Idle(w) == queue[w] = <<>> /\ slot[w] = NoTask

-----------------------------------------------------------------------------
(* try_get_task and the end of a worker *)

\* From a Chase-Lev queue the newest task is popped, and a steal may abort.
try_get_task(w, chase_lev) ==
    LET victim == (w + local[w]) % NWorkers
    IN  /\ \/ /\ pc[w] = "pop"
              /\ IF Idle(w)
                   THEN /\ Goto(w, IF NWorkers = 1 THEN "check" ELSE "steal")
                        /\ local' = [local EXCEPT ![w] = 1]
                        /\ UNCHANGED <<queues, cur>>
                   ELSE IF chase_lev THEN PopNewest(w) ELSE PopOldest(w)
           \/ /\ pc[w] = "steal"
              /\ \/ /\ queue[victim] # <<>>
                    /\ Took(w, Head(queue[victim]))
                    /\ queue' = [queue EXCEPT ![victim] = Tail(@)]
                    /\ UNCHANGED slot
                 \/ /\ chase_lev \/ queue[victim] = <<>>
                    /\ Goto(w, IF local[w] + 1 = NWorkers THEN "check" ELSE "steal")
                    /\ local' = [local EXCEPT ![w] = @ + 1]
                    /\ UNCHANGED <<queues, cur>>
        /\ UNCHANGED <<remaining, nodes, promise>>

\* With nothing found, a worker leaves when no task remains.
CheckRemaining(w) ==
    /\ pc[w] = "check"
    /\ Goto(w, IF remaining = 0 THEN "exited" ELSE "pop")
    /\ UNCHANGED <<queues, remaining, cur, local, nodes, promise>>

\* seff_coroutine_delete, free, and one task less.
Finalize(w) ==
    /\ alive' = alive \ {cur[w]}
    /\ remaining' = remaining - 1
    /\ Leave(w)

\* SPINLOCK's release is a store of its own, after the block.
Unlock(w, n, next) ==
    /\ promise' = [promise EXCEPT ![n].locked = FALSE]
    /\ Goto(w, next)

-----------------------------------------------------------------------------
(* skynet: the children are forked, then waited for in order *)

Forks(n) == ~Leaf(n) /\ at[n] < BRANCHING_FACTOR
Waits(n) == ~Leaf(n) /\ at[n] \in BRANCHING_FACTOR .. 2 * BRANCHING_FACTOR - 1
Child(n) == n * BRANCHING_FACTOR + (at[n] % BRANCHING_FACTOR)

Answer(n) == IF Leaf(n) THEN n - last_layer ELSE sum[n]

-----------------------------------------------------------------------------
(* Properties of all the programs *)

Expected == (last_layer * (last_layer - 1)) \div 2

\* A promise is only used while the frame it lives in is there: the parent that
\* waits for it is the one whose end frees it.
InUse(w, n) == n # 1 => Parent(n) \in alive

\* The counter never runs behind the tasks there are, and a worker leaves only
\* when there are none.
RemainingCovers ==
    /\ remaining >= Cardinality(alive)
    /\ \A w \in Workers : pc[w] = "exited" => alive = {}

\* A task is in one place at most: a queue, a slot or a worker's hands.
HeldOnce ==
    \A n \in Nodes :
        LET Places == {<<"queue", w, i>> : w \in Workers, i \in 1 .. Cardinality(Nodes)}
        IN  Cardinality({p \in Places : p[3] \in DOMAIN queue[p[2]] /\ queue[p[2]][p[3]] = n})
            + Cardinality({w \in Workers : slot[w] = n})
            + Cardinality({w \in Workers : cur[w] = n /\ pc[w] \in {"resume", "requeue"}}) <= 1

\* The root's answer is the sum of the leaves' answers.
TotalIsRight == promise[1].ready => promise[1].result = Expected
=============================================================================
