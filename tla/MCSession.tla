------------------------------ MODULE MCSession ------------------------------
(* Session with a few handles and sessions.                                *)
EXTENDS Session
=============================================================================
