---------------------------- MODULE MCSubagentRun ----------------------------
(* SubagentRun with a few good turns to spend between the failures.         *)
EXTENDS SubagentRun
=============================================================================
