------------------------------ MODULE MCClient ------------------------------
(***************************************************************************)
(* Instance of ClientLifecycle for TLC: a batch of three requests, two at  *)
(* a time, and one request beside it.                                      *)
(***************************************************************************)
EXTENDS ClientLifecycle

CONSTANTS m1, m2, m3, o1
=============================================================================
