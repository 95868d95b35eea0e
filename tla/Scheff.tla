------------------------------- MODULE Scheff -------------------------------
(***************************************************************************)
(* The multi-threaded task scheduler of src/scheduler/scheff.c: workers      *)
(* with a queue each, stealing from one another, run tasks until none is     *)
(* left.  A step of a worker is what it does up to its next access to state  *)
(* other workers see; one queue operation is one step, as TlQueue shows.     *)
(*                                                                         *)
(* Tasks are arbitrary clients: each time one is resumed it returns or       *)
(* performs one of the scheduler's effects.  Their contract is that a waker  *)
(* is published by must_sleep exactly when it answers true, and is used once.*)
(***************************************************************************)
EXTENDS Integers, Sequences, FiniteSets

CONSTANTS
    n_workers,  \* the argument of scheff_init
    Tasks,      \* addresses of task_t
    MaxRequests,\* bound: effects performed by all tasks together
    None        \* no task: EMPTY, NULL

ASSUME WorkersAssumption == n_workers \in Nat \ {0}
ASSUME TasksAssumption == None \notin Tasks
ASSUME BoundAssumption == MaxRequests \in Nat

Workers == 0 .. n_workers - 1

VARIABLES
    queue,          \* [Workers -> Seq(Tasks)] the shared part of task_queue
    buffer,         \* [Workers -> Tasks \cup {None}] its private priority slot
    remaining_tasks,
    state,          \* [Tasks -> ...] coroutine.state, "FREE" while not allocated
    poll_condition, \* [Tasks -> BOOLEAN] a poll condition is set
    wakers,         \* the wakers must_sleep has published and nobody has taken
    pc,             \* [Workers -> ...] where a worker is in its loop
    current_task,   \* [Workers -> Tasks \cup {None}]
    victim,         \* [Workers -> Nat] i of scheff_try_get_task
    new_task,       \* [Workers -> Tasks \cup {None}] a forked task not yet queued
    payload,        \* [Workers -> ...] wakers and resume of a wake in progress
    main,           \* the thread that sets up and calls scheff_run
    requests        \* how many effects have been performed, for the bound

sched == <<queue, buffer>>
tasks == <<state, poll_condition>>
worker == <<current_task, victim, new_task, payload>>
vars == <<sched, remaining_tasks, tasks, wakers, pc, worker, main, requests>>

NoPayload == [wakers |-> {}, resume |-> FALSE]

\* scheff_init
Init ==
    /\ queue = [w \in Workers |-> <<>>]
    /\ buffer = [w \in Workers |-> None]
    /\ remaining_tasks = 0
    /\ state = [t \in Tasks |-> "FREE"]
    /\ poll_condition = [t \in Tasks |-> FALSE]
    /\ wakers = {}
    /\ pc = [w \in Workers |-> "off"]
    /\ current_task = [w \in Workers |-> None]
    /\ victim = [w \in Workers |-> 0]
    /\ new_task = [w \in Workers |-> None]
    /\ payload = [w \in Workers |-> NoPayload]
    /\ main = "setup"
    /\ requests = 0

-----------------------------------------------------------------------------
(* The queue operations, atomic *)

ENQUEUE(w, t) ==
    /\ queue' = [queue EXCEPT ![w] = Append(@, t)]
    /\ UNCHANGED buffer

\* Mutant: the task in the slot is overwritten.
EnqueuePriorityForgets(w, t) ==
    /\ buffer' = [buffer EXCEPT ![w] = t]
    /\ UNCHANGED queue

\* The slot holds one task; the one it held goes to the queue.
ENQUEUE_PRIORITY(w, t) ==
    /\ buffer' = [buffer EXCEPT ![w] = t]
    /\ queue' = IF buffer[w] = None THEN queue
                ELSE [queue EXCEPT ![w] = Append(@, buffer[w])]

\* Mutant: the queue is served last in, first out.
TakeLast(w, v) ==
    /\ queue[v] # <<>>
    /\ current_task' = [current_task EXCEPT ![w] = queue[v][Len(queue[v])]]
    /\ queue' = [queue EXCEPT ![v] = SubSeq(@, 1, Len(@) - 1)]
    /\ UNCHANGED buffer

\* The oldest task of v's queue becomes the current task of w.
Take(w, v) ==
    /\ queue[v] # <<>>
    /\ current_task' = [current_task EXCEPT ![w] = Head(queue[v])]
    /\ queue' = [queue EXCEPT ![v] = Tail(@)]
    /\ UNCHANGED buffer

-----------------------------------------------------------------------------
(* scheff_schedule and scheff_run, in the thread that becomes worker 0 *)

\* The addresses malloc may return, those of freed tasks among them.
Fresh == {t \in Tasks : state[t] = "FREE"}

\* A task struct is allocated and its coroutine initialised.
Allocate(t) ==
    /\ t \in Fresh
    /\ state' = [state EXCEPT ![t] = "PAUSED"]
    /\ poll_condition' = [poll_condition EXCEPT ![t] = FALSE]

scheff_schedule(t) ==
    /\ main = "setup"
    /\ Allocate(t)
    /\ remaining_tasks' = remaining_tasks + 1
    /\ ENQUEUE(0, t)
    /\ UNCHANGED <<wakers, pc, worker, main, requests>>

\* scheff_run: pthread_create for workers 1, 2, ...; then the caller becomes
\* worker 0.
scheff_run ==
    /\ main = "setup"
    /\ main' = "starting"
    /\ UNCHANGED <<sched, remaining_tasks, tasks, wakers, pc, worker, requests>>

StartWorker(w) ==
    /\ main = "starting"
    /\ pc[w] = "off"
    /\ w # 0
    /\ \A v \in 1 .. w - 1 : pc[v] # "off"
    /\ pc' = [pc EXCEPT ![w] = "get"]
    /\ UNCHANGED <<sched, remaining_tasks, tasks, wakers, worker, main, requests>>

BecomeWorker ==
    /\ main = "starting"
    /\ \A v \in Workers \ {0} : pc[v] # "off"
    /\ main' = "worker"
    /\ pc' = [pc EXCEPT ![0] = "get"]
    /\ UNCHANGED <<sched, remaining_tasks, tasks, wakers, worker, requests>>

\* Worker 0 has left its loop and joins the others.
JoinWorkers ==
    /\ main = "worker"
    /\ \A w \in Workers : pc[w] = "exit"
    /\ main' = "returned"
    /\ UNCHANGED <<sched, remaining_tasks, tasks, wakers, pc, worker, requests>>

-----------------------------------------------------------------------------
(* scheff_try_get_task *)

Goto(w, l) == pc' = [pc EXCEPT ![w] = l]

PopBuffer(w) ==
    /\ pc[w] = "get"
    /\ buffer[w] # None
    /\ current_task' = [current_task EXCEPT ![w] = buffer[w]]
    /\ buffer' = [buffer EXCEPT ![w] = None]
    /\ Goto(w, "check")
    /\ UNCHANGED <<queue, remaining_tasks, tasks, wakers, victim, new_task, payload, main, requests>>

PopQueue(w) ==
    /\ pc[w] = "get"
    /\ buffer[w] = None
    /\ Take(w, w)
    /\ Goto(w, "check")
    /\ UNCHANGED <<remaining_tasks, tasks, wakers, victim, new_task, payload, main, requests>>

PopEmpty(w) ==
    /\ pc[w] = "get"
    /\ buffer[w] = None
    /\ queue[w] = <<>>
    /\ victim' = [victim EXCEPT ![w] = 1]
    /\ Goto(w, "steal")
    /\ UNCHANGED <<sched, remaining_tasks, tasks, wakers, current_task, new_task, payload, main, requests>>

Victim(w) == (w + victim[w]) % n_workers

Steal(w) ==
    /\ pc[w] = "steal"
    /\ victim[w] < n_workers
    /\ Take(w, Victim(w))
    /\ Goto(w, "check")
    /\ UNCHANGED <<remaining_tasks, tasks, wakers, victim, new_task, payload, main, requests>>

StealEmpty(w) ==
    /\ pc[w] = "steal"
    /\ victim[w] < n_workers
    /\ queue[Victim(w)] = <<>>
    /\ victim' = [victim EXCEPT ![w] = @ + 1]
    /\ UNCHANGED <<sched, remaining_tasks, tasks, wakers, pc, current_task, new_task, payload, main, requests>>

\* Mutant: a worker that finds nothing to do stops.
NoTaskStops(w) ==
    /\ pc[w] = "steal"
    /\ victim[w] >= n_workers
    /\ Goto(w, "exit")
    /\ UNCHANGED <<sched, remaining_tasks, tasks, wakers, worker, main, requests>>

\* No task was found: the worker leaves its loop if none remains.
NoTask(w) ==
    /\ pc[w] = "steal"
    /\ victim[w] >= n_workers
    /\ Goto(w, IF remaining_tasks = 0 THEN "exit" ELSE "get")
    /\ UNCHANGED <<sched, remaining_tasks, tasks, wakers, worker, main, requests>>

-----------------------------------------------------------------------------
(* The body of scheff_worker_thread *)

\* The current task goes back to the worker's own queue, which ends the turn.
PutBack(w) ==
    /\ ENQUEUE(w, current_task[w])
    /\ current_task' = [current_task EXCEPT ![w] = None]
    /\ Goto(w, "get")
    /\ UNCHANGED <<victim, new_task, payload>>

\* The poll condition is evaluated and does not hold.
NotReady(w) ==
    /\ pc[w] = "check"
    /\ state[current_task[w]] = "PAUSED"
    /\ poll_condition[current_task[w]]
    /\ PutBack(w)
    /\ UNCHANGED <<remaining_tasks, tasks, wakers, main, requests>>

\* There is none, or it holds: the task is resumed.  A finished coroutine that
\* comes out of a queue is fatal: exit(-1).
Resume(w) ==
    /\ pc[w] = "check"
    /\ IF state[current_task[w]] = "PAUSED"
         THEN /\ poll_condition' = [poll_condition EXCEPT ![current_task[w]] = FALSE]
              /\ Goto(w, "run")
         ELSE /\ Goto(w, "fatal")
              /\ UNCHANGED poll_condition
    /\ UNCHANGED <<sched, remaining_tasks, state, wakers, worker, main, requests>>

\* The resumed task performs an effect, within the bound.
Performs(w) ==
    /\ pc[w] = "run"
    /\ requests < MaxRequests
    /\ requests' = requests + 1

Return(w) ==
    /\ pc[w] = "run"
    /\ state' = [state EXCEPT ![current_task[w]] = "FINISHED"]
    /\ Goto(w, "finalize")
    /\ UNCHANGED <<sched, remaining_tasks, poll_condition, wakers, worker, main, requests>>

\* FINALIZE: the task is released and freed, then the counter goes down.
Finalize(w) ==
    /\ pc[w] = "finalize"
    /\ state' = [state EXCEPT ![current_task[w]] = "FREE"]
    /\ current_task' = [current_task EXCEPT ![w] = None]
    /\ Goto(w, "finalized")
    /\ UNCHANGED <<sched, remaining_tasks, poll_condition, wakers, victim, new_task,
                   payload, main, requests>>

Finalized(w) ==
    /\ pc[w] = "finalized"
    /\ remaining_tasks' = remaining_tasks - 1
    /\ Goto(w, "get")
    /\ UNCHANGED <<sched, tasks, wakers, worker, main, requests>>

\* Bound: there is an address left for every fork in progress.
CanFork == Cardinality({v \in Workers : pc[v] = "fork"}) < Cardinality(Fresh)

\* Mutant: the forked task is not counted.
ForkUncounted(w) ==
    /\ Performs(w)
    /\ CanFork
    /\ UNCHANGED remaining_tasks
    /\ Goto(w, "fork")
    /\ UNCHANGED <<sched, tasks, wakers, worker, main>>

\* fork: counted first, then created; the parent is queued, then the child.
Fork(w) ==
    /\ Performs(w)
    /\ CanFork
    /\ remaining_tasks' = remaining_tasks + 1
    /\ Goto(w, "fork")
    /\ UNCHANGED <<sched, tasks, wakers, worker, main>>

ForkParent(w, t) ==
    /\ pc[w] = "fork"
    /\ Allocate(t)
    /\ new_task' = [new_task EXCEPT ![w] = t]
    /\ ENQUEUE(w, current_task[w])
    /\ current_task' = [current_task EXCEPT ![w] = None]
    /\ Goto(w, "fork_child")
    /\ UNCHANGED <<remaining_tasks, wakers, victim, payload, main, requests>>

ForkChild(w) ==
    /\ pc[w] = "fork_child"
    /\ ENQUEUE_PRIORITY(w, new_task[w])
    /\ new_task' = [new_task EXCEPT ![w] = None]
    /\ Goto(w, "get")
    /\ UNCHANGED <<remaining_tasks, tasks, wakers, current_task, victim, payload, main, requests>>

Poll(w) ==
    /\ Performs(w)
    /\ poll_condition' = [poll_condition EXCEPT ![current_task[w]] = TRUE]
    /\ PutBack(w)
    /\ UNCHANGED <<remaining_tasks, state, wakers, main>>

\* Mutant: the waker is published and the task queued all the same.
SleepAnyway(w) ==
    /\ Performs(w)
    /\ wakers' = wakers \cup {current_task[w]}
    /\ PutBack(w)
    /\ UNCHANGED <<remaining_tasks, tasks, main>>

\* sleep: must_sleep publishes the waker and answers true, after which any
\* worker may wake the task; or it answers false, and the task is queued.
SleepPublished(w) ==
    /\ Performs(w)
    /\ wakers' = wakers \cup {current_task[w]}
    /\ current_task' = [current_task EXCEPT ![w] = None]
    /\ Goto(w, "get")
    /\ UNCHANGED <<sched, remaining_tasks, tasks, victim, new_task, payload, main>>

SleepDeclined(w) ==
    /\ Performs(w)
    /\ PutBack(w)
    /\ UNCHANGED <<remaining_tasks, tasks, wakers, main>>

\* wake, wake_all: the client has taken the wakers from where must_sleep put them.
Wake(w, woken, resume) ==
    /\ Performs(w)
    /\ woken \subseteq wakers
    /\ wakers' = wakers \ woken
    /\ payload' = [payload EXCEPT ![w] = [wakers |-> woken, resume |-> resume]]
    /\ Goto(w, "wake")
    /\ UNCHANGED <<sched, remaining_tasks, tasks, current_task, victim, new_task, main>>

WakeOne(w, t) ==
    /\ pc[w] = "wake"
    /\ t \in payload[w].wakers
    /\ ENQUEUE_PRIORITY(w, t)
    /\ payload' = [payload EXCEPT ![w] = [wakers |-> @.wakers \ {t}, resume |-> @.resume]]
    /\ UNCHANGED <<remaining_tasks, tasks, wakers, pc, current_task, victim, new_task, main, requests>>

WakeResume(w) ==
    /\ pc[w] = "wake"
    /\ payload[w].wakers = {}
    /\ payload[w].resume
    /\ PutBack(w)
    /\ UNCHANGED <<remaining_tasks, tasks, wakers, main, requests>>

\* Mutant: a waking task that need not be resumed is dropped, not finalized.
WakeFinalDrops(w) ==
    /\ pc[w] = "wake"
    /\ payload[w].wakers = {}
    /\ ~payload[w].resume
    /\ current_task' = [current_task EXCEPT ![w] = None]
    /\ Goto(w, "get")
    /\ UNCHANGED <<sched, remaining_tasks, tasks, wakers, victim, new_task, payload, main, requests>>

WakeFinal(w) ==
    /\ pc[w] = "wake"
    /\ payload[w].wakers = {}
    /\ ~payload[w].resume
    /\ Goto(w, "finalize")
    /\ UNCHANGED <<sched, remaining_tasks, tasks, wakers, worker, main, requests>>

-----------------------------------------------------------------------------
Dispatch(w) ==
    \/ PopBuffer(w) \/ PopQueue(w) \/ PopEmpty(w)
    \/ Steal(w) \/ StealEmpty(w) \/ NoTask(w)
    \/ NotReady(w) \/ Resume(w)

TaskStep(w) ==
    \/ Return(w) \/ Fork(w) \/ Poll(w) \/ SleepPublished(w) \/ SleepDeclined(w)
    \/ \E woken \in SUBSET wakers, resume \in BOOLEAN : Wake(w, woken, resume)

Serve(w) ==
    \/ Finalize(w) \/ Finalized(w)
    \/ \E t \in Tasks : ForkParent(w, t)
    \/ ForkChild(w)
    \/ \E t \in Tasks : WakeOne(w, t)
    \/ WakeResume(w) \/ WakeFinal(w)

WorkerStep(w) == Dispatch(w) \/ TaskStep(w) \/ Serve(w)

MainStep ==
    \/ \E t \in Tasks : scheff_schedule(t)
    \/ scheff_run
    \/ \E w \in Workers : StartWorker(w)
    \/ BecomeWorker
    \/ JoinWorkers

\* scheff_run has returned: nothing more happens (not a deadlock).
Terminated == main = "returned" /\ UNCHANGED vars

Next == MainStep \/ Terminated \/ \E w \in Workers : WorkerStep(w)

Spec == Init /\ [][Next]_vars

\* The operating system runs every thread; a task that has been resumed goes on
\* to perform its next effect or to return.
ThreadFairness ==
    /\ \A w \in Workers : WF_vars(WorkerStep(w)) /\ WF_vars(StartWorker(w))
    /\ WF_vars(BecomeWorker)
    /\ WF_vars(JoinWorkers)
FairSpec == Spec /\ ThreadFairness

-----------------------------------------------------------------------------
(* Properties *)

Labels == {"off", "get", "steal", "check", "run", "fork", "fork_child", "wake",
           "finalize", "finalized", "exit", "fatal"}
TypeOK ==
    /\ queue \in [Workers -> Seq(Tasks)]
    /\ buffer \in [Workers -> Tasks \cup {None}]
    /\ remaining_tasks \in Nat
    /\ state \in [Tasks -> {"FREE", "PAUSED", "FINISHED"}]
    /\ poll_condition \in [Tasks -> BOOLEAN]
    /\ wakers \subseteq Tasks
    /\ pc \in [Workers -> Labels]
    /\ current_task \in [Workers -> Tasks \cup {None}]
    /\ victim \in [Workers -> 0 .. n_workers]
    /\ new_task \in [Workers -> Tasks \cup {None}]
    /\ payload \in [Workers -> [wakers : SUBSET Tasks, resume : BOOLEAN]]
    /\ main \in {"setup", "starting", "worker", "returned"}
    /\ requests \in 0 .. MaxRequests

\* Where a task_t pointer is held.
Holders(t) ==
    (UNION {{<<"queue", w, i>> : i \in {j \in DOMAIN queue[w] : queue[w][j] = t}} : w \in Workers})
    \cup {<<"buffer", w>> : w \in {v \in Workers : buffer[v] = t}}
    \cup {<<"current", w>> : w \in {v \in Workers : current_task[v] = t}}
    \cup {<<"new", w>> : w \in {v \in Workers : new_task[v] = t}}
    \cup {<<"waking", w>> : w \in {v \in Workers : t \in payload[v].wakers}}
    \cup {<<"waker">> : u \in wakers \cap {t}}

\* Every task is in one place: in one slot of one queue, or with one worker, or
\* asleep with its waker published, and a freed one is nowhere.  So no task is
\* lost, none is run by two workers, and none is used after it was freed,
\* whatever is stolen, woken or forked while others do the same.
OnePlace ==
    \A t \in Tasks : Cardinality(Holders(t)) = IF state[t] = "FREE" THEN 0 ELSE 1

\* remaining_tasks counts the tasks that exist, those a fork has announced and
\* those whose FINALIZE has not come to its end: it is never too small, and
\* never stays too large.
RemainingCounts ==
    remaining_tasks = Cardinality({t \in Tasks : state[t] # "FREE"})
                    + Cardinality({w \in Workers : pc[w] \in {"fork", "finalized"}})

\* A worker leaves its loop only when there is no task left that could need it,
\* asleep and forked ones included; when scheff_run returns all have left.
ExitsWhenDone ==
    (\E w \in Workers : pc[w] = "exit") =>
        /\ \A t \in Tasks : state[t] = "FREE"
        /\ \A w \in Workers : queue[w] = <<>> /\ buffer[w] = None

\* "Fatal error -- resuming finished coroutine!" is never reached.
NeverResumesDead == \A w \in Workers : pc[w] # "fatal"

Queued(t) == \E w \in Workers : buffer[w] = t \/ \E i \in DOMAIN queue[w] : queue[w][i] = t

\* A queued task is taken by a worker, also while tasks whose poll condition
\* never holds circulate through the same queues, and although the priority
\* slot is served before the queue.
QueuedIsTaken ==
    \A t \in Tasks :
        Queued(t) /\ main # "setup" ~> \E w \in Workers : current_task[w] = t

\* scheff_run returns, unless from some time on there is always a task asleep
\* or one whose poll condition is still to come true.
RunReturns ==
    main # "setup" ~> \/ main = "returned"
                      \/ [](wakers # {})
                      \/ [](\E t \in Tasks : poll_condition[t])
=============================================================================
