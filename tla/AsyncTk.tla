------------------------------ MODULE AsyncTk -------------------------------
(***************************************************************************)
(* src/bench/skynet_bench/libseff_async_tk.c: woken tasks go to the priority  *)
(* slot of the worker that wakes them, where thieves cannot reach them.       *)
(***************************************************************************)
EXTENDS AsyncAwait

\* Mutant: the waiter goes to the queue, before the lock is released.
WakesWithPush(w) == Return(w, FALSE)
CASE_RETURN(w) == Return(w, TRUE)
CASE_AWAIT(w) == Await(w, TRUE)
CASE_ASYNC(w) == Async(w, TRUE) \/ Requeue(w)

worker_thread(w) ==
    \/ try_get_task(w, FALSE)
    \/ Common(w)
    \/ CASE_RETURN(w) \/ CASE_AWAIT(w) \/ CASE_ASYNC(w)
=============================================================================
