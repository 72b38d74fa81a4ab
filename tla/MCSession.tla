------------------------------ MODULE MCSession ------------------------------
(* Session with two modes and messages of both kinds: enough for one that    *)
(* starts, one that waits behind it, and one that meets its turn.            *)
EXTENDS Session
=============================================================================
