----------------------------- MODULE AsyncAwait -----------------------------
(***************************************************************************)
(* The scheduler of src/bench/skynet_bench/libseff_async_tk.c and            *)
(* libseff_async.c: two effects, async and await, and futures under a spin    *)
(* lock.  The two programs differ in the queue they are built on and in       *)
(* whether new and woken tasks have priority.                                 *)
(***************************************************************************)
EXTENDS Skynet

\* current_task goes on up to its next effect or its end.  The future it waited
\* for, which must be READY, hands over its result and forgets it.
Resume(w) ==
    LET n == cur[w]
        waited == ~Leaf(n) /\ at[n] > BRANCHING_FACTOR
        awaited == n * BRANCHING_FACTOR + ((at[n] - 1) % BRANCHING_FACTOR)
    IN  /\ pc[w] = "resume"
        /\ IF waited
             THEN /\ sum' = [sum EXCEPT ![n] = @ + promise[awaited].result]
                  /\ promise' = [promise EXCEPT ![awaited].waiter = NoTask]
             ELSE UNCHANGED <<sum, promise>>
        /\ Goto(w, IF Forks(n) THEN "async" ELSE IF Waits(n) THEN "await" ELSE "return")
        /\ UNCHANGED <<queues, remaining, cur, local, alive, at>>

Async(w, priority) ==
    LET n == cur[w]
    IN  /\ pc[w] = "async"
        /\ remaining' = remaining + 1
        /\ promise' = [promise EXCEPT ![Child(n)] = EmptyPromise]
        /\ alive' = alive \cup {Child(n)}
        /\ at' = [at EXCEPT ![n] = @ + 1]
        /\ Enqueue(w, Child(n), priority)
        /\ Goto(w, "requeue")
        /\ UNCHANGED <<cur, local, sum>>

Requeue(w) ==
    /\ pc[w] = "requeue"
    /\ Push(w, cur[w])
    /\ Leave(w)
    /\ UNCHANGED <<remaining, nodes, promise>>

\* Inside SPINLOCK: queue the task at once, or leave it with the future.
Await(w, priority) ==
    LET n == cur[w]
        fut == Child(n)
    IN  /\ pc[w] = "await"
        /\ ~promise[fut].locked
        /\ at' = [at EXCEPT ![n] = @ + 1]
        /\ IF promise[fut].ready
             THEN /\ Enqueue(w, n, priority)
                  /\ promise' = [promise EXCEPT ![fut].locked = TRUE]
             ELSE /\ promise' = [promise EXCEPT ![fut].locked = TRUE, ![fut].waiter = n]
                  /\ UNCHANGED queues
        /\ Goto(w, "unlock_awaited")
        /\ local' = [local EXCEPT ![w] = fut]
        /\ UNCHANGED <<remaining, cur, alive, sum>>

AwaitReleases(w) ==
    /\ pc[w] = "unlock_awaited"
    /\ promise' = [promise EXCEPT ![local[w]].locked = FALSE]
    /\ Goto(w, "pop")
    /\ cur' = [cur EXCEPT ![w] = NoTask]
    /\ local' = [local EXCEPT ![w] = 1]
    /\ UNCHANGED <<queues, remaining, nodes>>

\* Inside SPINLOCK: fulfil the promise and queue its waiter.
Return(w, priority) ==
    LET n == cur[w]
        waiter == promise[n].waiter
    IN  /\ pc[w] = "return"
        /\ ~promise[n].locked
        /\ promise' = [promise EXCEPT ![n] =
               [@ EXCEPT !.locked = TRUE, !.ready = TRUE, !.result = Answer(n)]]
        /\ IF waiter # NoTask THEN Enqueue(w, waiter, priority) ELSE UNCHANGED queues
        /\ Goto(w, "unlock_promise")
        /\ UNCHANGED <<remaining, cur, local, nodes>>

ReturnReleases(w) ==
    /\ pc[w] = "unlock_promise"
    /\ Unlock(w, cur[w], "delete")
    /\ UNCHANGED <<queues, remaining, cur, local, nodes>>

Delete(w) ==
    /\ pc[w] = "delete"
    /\ Finalize(w)
    /\ UNCHANGED <<queues, at, sum, promise>>

\* What a worker does without the queue.
Common(w) ==
    \/ CheckRemaining(w) \/ Resume(w)
    \/ AwaitReleases(w) \/ ReturnReleases(w) \/ Delete(w)

\* The assertion in the worker's loop: a task that waited is resumed only when its
\* future is READY.
ResumedWhenReady ==
    \A w \in Workers : pc[w] = "resume" /\ ~Leaf(cur[w]) /\ at[cur[w]] > BRANCHING_FACTOR =>
        promise[cur[w] * BRANCHING_FACTOR + ((at[cur[w]] - 1) % BRANCHING_FACTOR)].ready

\* No worker releases the lock of a future whose frame is gone.
LocksAreThere ==
    \A w \in Workers :
        /\ pc[w] = "unlock_promise" => InUse(w, cur[w])
        /\ pc[w] = "unlock_awaited" => InUse(w, local[w])
=============================================================================
