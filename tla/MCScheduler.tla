----------------------------- MODULE MCScheduler -----------------------------
(* Scheduler with two schedules of either kind, two cron periods of time and *)
(* one end of the process.                                                   *)
EXTENDS Scheduler
=============================================================================
