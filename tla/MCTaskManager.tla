---------------------------- MODULE MCTaskManager ----------------------------
(* TaskManager on three tasks: one more than the slots, so that the queue,  *)
(* the slots and the recovery of several tasks all come into play.          *)
EXTENDS TaskManager
=============================================================================
