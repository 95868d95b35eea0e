---------------------------- MODULE PromisePoll -----------------------------
(***************************************************************************)
(* src/bench/skynet_bench/libseff_scheff_poll.c: promises without a lock, a    *)
(* value and a flag, over the scheduler's poll effect.                        *)
(***************************************************************************)
EXTENDS Skynet

Polls(n) == ~Leaf(n) /\ at[n] > BRANCHING_FACTOR
Awaited(n) == n * BRANCHING_FACTOR + ((at[n] - 1) % BRANCHING_FACTOR)

lwp_ready(n) == promise[Awaited(n)].ready

\* A task whose condition is false goes back to the queue.
PollFails(w) ==
    /\ pc[w] = "resume" /\ Polls(cur[w]) /\ ~lwp_ready(cur[w])
    /\ Push(w, cur[w])
    /\ Leave(w)
    /\ UNCHANGED <<remaining, nodes, promise>>

\* skynet up to its next effect, or to lwp_fulfill.
skynet(w) ==
    LET n == cur[w]
    IN  /\ pc[w] = "resume"
        /\ Polls(n) => lwp_ready(n)
        /\ sum' = [sum EXCEPT ![n] = IF Polls(n) THEN @ + promise[Awaited(n)].result ELSE @]
        /\ Goto(w, IF Forks(n) THEN "fork" ELSE IF Waits(n) THEN "poll" ELSE "value")
        /\ UNCHANGED <<queues, remaining, cur, local, alive, at, promise>>

\* The parent to the queue, then the child to the slot, which only w reaches.
Fork(w) ==
    LET n == cur[w]
    IN  /\ pc[w] = "fork"
        /\ promise' = [promise EXCEPT ![Child(n)] = EmptyPromise]
        /\ remaining' = remaining + 1
        /\ alive' = alive \cup {Child(n)}
        /\ at' = [at EXCEPT ![n] = @ + 1]
        /\ queue' = [queue EXCEPT ![w] =
               Append(@, n) \o IF slot[w] = NoTask THEN <<>> ELSE <<slot[w]>>]
        /\ slot' = [slot EXCEPT ![w] = Child(n)]
        /\ Leave(w)
        /\ UNCHANGED sum

Poll(w) ==
    /\ pc[w] = "poll"
    /\ at' = [at EXCEPT ![cur[w]] = @ + 1]
    /\ Push(w, cur[w])
    /\ Leave(w)
    /\ UNCHANGED <<remaining, alive, sum, promise>>

\* lwp_fulfill: two stores, the value before the flag.
lwp_fulfill(w) ==
    /\ \/ /\ pc[w] = "value"
          /\ promise' = [promise EXCEPT ![cur[w]].result = Answer(cur[w])]
          /\ Goto(w, "ready")
       \/ /\ pc[w] = "ready"
          /\ promise' = [promise EXCEPT ![cur[w]].ready = TRUE]
          /\ Goto(w, "end")
    /\ UNCHANGED <<queues, remaining, cur, local, nodes>>

End(w) ==
    /\ pc[w] = "end"
    /\ Finalize(w)
    /\ UNCHANGED <<queues, at, sum, promise>>

worker_thread(w) ==
    \/ try_get_task(w, FALSE) \/ CheckRemaining(w)
    \/ skynet(w) \/ PollFails(w) \/ Fork(w) \/ Poll(w) \/ lwp_fulfill(w) \/ End(w)

\* A promise is written only while its frame is there: the store of the flag is
\* the last access, since the parent may be resumed and deleted from then on.
WritesAreThere == \A w \in Workers : pc[w] \in {"value", "ready"} => InUse(w, cur[w])
=============================================================================
