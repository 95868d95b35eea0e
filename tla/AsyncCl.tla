------------------------------ MODULE AsyncCl -------------------------------
(***************************************************************************)
(* src/bench/skynet_bench/libseff_async.c: the Chase-Lev queue.  A worker     *)
(* pops the newest task, thieves take the oldest and may abort, and there is  *)
(* no priority slot.                                                        *)
(***************************************************************************)
EXTENDS AsyncAwait

CASE_RETURN(w) == Return(w, FALSE)
CASE_AWAIT(w) == Await(w, FALSE)
CASE_ASYNC(w) == Async(w, FALSE) \/ Requeue(w)

worker_thread(w) ==
    \/ try_get_task(w, TRUE)
    \/ Common(w)
    \/ CASE_RETURN(w) \/ CASE_AWAIT(w) \/ CASE_ASYNC(w)
=============================================================================
