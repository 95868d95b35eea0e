---------------------------- MODULE MCTaskQueues ----------------------------
(* Instances of TaskQueues for TLC. *)
EXTENDS TaskQueues
=============================================================================
