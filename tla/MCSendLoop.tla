----------------------------- MODULE MCSendLoop -----------------------------
(***************************************************************************)
(* Instance of SendHistory for TLC: two requests, one of which may be      *)
(* cancelled, and attempts enough to open the circuit, probe it and be     *)
(* answered.                                                               *)
(***************************************************************************)
EXTENDS SendHistory

CONSTANTS r1, r2
=============================================================================
