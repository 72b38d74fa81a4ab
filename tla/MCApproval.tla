----------------------------- MODULE MCApproval -----------------------------
(* Approval with one call shown in two tabs, and another session to look at  *)
(* meanwhile.                                                                *)
EXTENDS Approval

CONSTANT s1

MCHome == [c \in Calls |-> s1]
=============================================================================
