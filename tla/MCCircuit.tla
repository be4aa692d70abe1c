----------------------------- MODULE MCCircuit -----------------------------
(***************************************************************************)
(* Instance of CircuitHistory for TLC: three callers are enough for an     *)
(* ordinary request that reports late, a probe, and a second probe.        *)
(***************************************************************************)
EXTENDS CircuitHistory, TLC

CONSTANTS c1, c2, c3

MCCallers == {c1, c2, c3}

CallerSymmetry == Permutations(MCCallers)
=============================================================================
