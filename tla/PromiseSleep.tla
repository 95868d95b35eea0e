---------------------------- MODULE PromiseSleep ----------------------------
(***************************************************************************)
(* src/bench/skynet_bench/libseff_scheff_sleep.c: promises over the sleep and  *)
(* wake effects of the scheduler.  A promise's state is EMPTY_PROMISE (neither *)
(* ready nor with a waiter), a waker, or FULFILLED.                          *)
(***************************************************************************)
EXTENDS Skynet

\* Awaited(n): the child n waits for, or waited for last.
Awaited(n) == n * BRANCHING_FACTOR + ((at[n] - 1) % BRANCHING_FACTOR)

\* Up to the next access to shared state: fork, or lock a promise.  A task that
\* slept takes the result it was woken for, without looking at the state again.
skynet(w) ==
    LET n == cur[w]
        slept == pc[w] = "resume" /\ ~Leaf(n) /\ at[n] > BRANCHING_FACTOR
    IN  /\ pc[w] \in {"resume", "run"}
        /\ sum' = [sum EXCEPT ![n] = IF slept THEN @ + promise[Awaited(n)].result ELSE @]
        /\ Goto(w, IF Forks(n) THEN "fork" ELSE IF Waits(n) THEN "look" ELSE "fulfill")
        /\ UNCHANGED <<queues, remaining, cur, local, alive, at, promise>>

\* init_promise, and the scheduler's fork: the parent to the queue, then the child
\* to the slot, in one step since nobody else reaches the child in between.
Fork(w) ==
    LET n == cur[w]
    IN  /\ pc[w] = "fork"
        /\ promise' = [promise EXCEPT ![Child(n)] = EmptyPromise]
        /\ remaining' = remaining + 1
        /\ alive' = alive \cup {Child(n)}
        /\ at' = [at EXCEPT ![n] = @ + 1]
        /\ queue' = [queue EXCEPT ![w] =
               Append(@, n) \o IF slot[w] = NoTask THEN <<>> ELSE <<slot[w]>>]
        /\ slot' = [slot EXCEPT ![w] = Child(n)]
        /\ Leave(w)
        /\ UNCHANGED sum

\* fulfill, inside SPINLOCK: the state before is kept over the release.
Fulfill(w) ==
    LET n == cur[w]
    IN  /\ pc[w] = "fulfill"
        /\ ~promise[n].locked
        /\ local' = [local EXCEPT ![w] = promise[n].waiter]
        /\ promise' = [promise EXCEPT ![n] =
               [locked |-> TRUE, ready |-> TRUE, result |-> Answer(n), waiter |-> NoTask]]
        /\ Goto(w, "fulfilled")
        /\ UNCHANGED <<queues, remaining, cur, nodes>>

FulfillReleases(w) ==
    /\ pc[w] = "fulfilled"
    /\ Unlock(w, cur[w], "end")
    /\ UNCHANGED <<queues, remaining, cur, local, nodes>>

\* The scheduler's return, or its wake without resuming the waking task.
End(w) ==
    /\ pc[w] = "end"
    /\ IF local[w] # NoTask THEN PriorityPush(w, local[w]) ELSE UNCHANGED queues
    /\ alive' = alive \ {cur[w]}
    /\ remaining' = remaining - 1
    /\ Goto(w, "pop")
    /\ cur' = [cur EXCEPT ![w] = NoTask]
    /\ local' = [local EXCEPT ![w] = 1]
    /\ UNCHANGED <<at, sum, promise>>

\* await_promise, inside SPINLOCK: what it saw is kept over the release.
Look(w) ==
    LET n == cur[w]
    IN  /\ pc[w] = "look"
        /\ ~promise[Child(n)].locked
        /\ promise' = [promise EXCEPT ![Child(n)].locked = TRUE]
        /\ at' = [at EXCEPT ![n] = @ + 1]
        /\ Goto(w, IF promise[Child(n)].ready THEN "looked_ready" ELSE "looked_empty")
        /\ UNCHANGED <<queues, remaining, cur, local, alive, sum>>

LookReleases(w) ==
    LET n == cur[w]
    IN  /\ pc[w] \in {"looked_ready", "looked_empty"}
        /\ sum' = [sum EXCEPT ![n] =
               IF pc[w] = "looked_ready" THEN @ + promise[Awaited(n)].result ELSE @]
        /\ Unlock(w, Awaited(n), IF pc[w] = "looked_ready" THEN "run" ELSE "sleep")
        /\ UNCHANGED <<queues, remaining, cur, local, alive, at>>

\* Mutant: the waker is left without looking at the state again.
StillEmpty(p) == TRUE
IsEmpty(p) == ~promise[p].ready /\ promise[p].waiter = NoTask

\* must_sleep, which the worker runs once the task has stopped, inside SPINLOCK;
\* from then on the task may be woken, run and deleted by others.
must_sleep(w) ==
    LET p == Awaited(cur[w])
    IN  /\ pc[w] = "sleep"
        /\ ~promise[p].locked
        /\ promise' = [promise EXCEPT ![p].locked = TRUE,
                                      ![p].waiter = IF IsEmpty(p) THEN cur[w] ELSE @]
        /\ Goto(w, IF IsEmpty(p) THEN "sleeps" ELSE "stays")
        /\ local' = [local EXCEPT ![w] = p]
        /\ UNCHANGED <<queues, remaining, cur, nodes>>

\* Mutant: the task is queued whatever must_sleep answered.
QueuesSleepers(w) ==
    /\ pc[w] \in {"sleeps", "stays"}
    /\ Unlock(w, local[w], "requeue")
    /\ local' = [local EXCEPT ![w] = 1]
    /\ UNCHANGED <<queues, remaining, cur, nodes>>
MustSleepReleases(w) ==
    /\ pc[w] \in {"sleeps", "stays"}
    /\ promise' = [promise EXCEPT ![local[w]].locked = FALSE]
    /\ IF pc[w] = "stays" THEN Goto(w, "requeue") /\ UNCHANGED cur
       ELSE Goto(w, "pop") /\ cur' = [cur EXCEPT ![w] = NoTask]
    /\ local' = [local EXCEPT ![w] = 1]
    /\ UNCHANGED <<queues, remaining, nodes>>

Requeue(w) ==
    /\ pc[w] = "requeue"
    /\ Push(w, cur[w])
    /\ Leave(w)
    /\ UNCHANGED <<remaining, nodes, promise>>

worker_thread(w) ==
    \/ try_get_task(w, FALSE) \/ CheckRemaining(w)
    \/ skynet(w) \/ Fork(w)
    \/ Fulfill(w) \/ FulfillReleases(w) \/ End(w)
    \/ Look(w) \/ LookReleases(w)
    \/ must_sleep(w) \/ MustSleepReleases(w) \/ Requeue(w)

\* No lock is released in a frame that is gone, by the task that fulfils a
\* promise, by the one that looks, or by the worker that let it sleep.
LocksAreThere ==
    \A w \in Workers :
        /\ pc[w] = "fulfilled" => InUse(w, cur[w])
        /\ pc[w] \in {"looked_ready", "looked_empty"} => InUse(w, Awaited(cur[w]))
        /\ pc[w] \in {"sleeps", "stays"} => InUse(w, local[w])

\* A waker is left with a promise only while it is not fulfilled, so that nobody
\* sleeps on a promise that will not be fulfilled again.
NobodySleepsOn == \A n \in Nodes : promise[n].waiter # NoTask => ~promise[n].ready
=============================================================================
