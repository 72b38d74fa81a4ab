---------------------------- MODULE TaskContract ----------------------------
(***************************************************************************)
(* What delegating a task promises the session that delegated it, with no  *)
(* queue, no slots, no process and no log.  A task is absent, then open,   *)
(* then settled with exactly one outcome, and the parent session is told   *)
(* of that outcome at most once -- never of a cancellation, which the      *)
(* parent asked for itself.  TaskManager implements this contract.         *)
(***************************************************************************)

CONSTANT Tasks

VARIABLES
    outcome,  \* what became of each task
    told      \* whether its parent session was told

contractVars == <<outcome, told>>

\* The outcomes the parent hears of.
Reported == {"completed", "failed", "interrupted"}

ContractInit ==
    /\ outcome = [t \in Tasks |-> "absent"]
    /\ told = [t \in Tasks |-> FALSE]

Open(t) ==
    /\ outcome[t] = "absent"
    /\ outcome' = [outcome EXCEPT ![t] = "open"]
    /\ UNCHANGED told

\* One step can settle several tasks: a shutdown cancels all that run.
Decide(S) ==
    /\ \A t \in S : outcome[t] = "open"
    /\ \E o \in [S -> Reported \cup {"cancelled"}] :
          outcome' = [t \in Tasks |-> IF t \in S THEN o[t] ELSE outcome[t]]
    /\ UNCHANGED told

Tell(t) ==
    /\ outcome[t] \in Reported
    /\ ~told[t]
    /\ told' = [told EXCEPT ![t] = TRUE]
    /\ UNCHANGED outcome

ContractNext ==
    \/ \E t \in Tasks : Open(t) \/ Tell(t)
    \/ \E S \in SUBSET Tasks : Decide(S)

ContractSpec == ContractInit /\ [][ContractNext]_contractVars
=============================================================================
