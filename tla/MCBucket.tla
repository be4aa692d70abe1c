------------------------------ MODULE MCBucket ------------------------------
(***************************************************************************)
(* Instance of TokenBucket for TLC.  A burst of two tokens, a token worth  *)
(* two ticks so that a wait can be interrupted, and a pause longer than a  *)
(* token.                                                                  *)
(***************************************************************************)
EXTENDS TokenBucket, TLC

CONSTANTS
    t1, t2, t3,
    Horizon      \* bound: the clock stops here

TaskSymmetry == Permutations(Tasks)

HorizonNext ==
    \/ \E t \in Tasks : Acquire(t) \/ Wake(t)
    \/ Drain
    \/ \E s \in Pauses : Pause(s)
    \/ hist.now < Horizon /\ Tick

HorizonSpec == Init /\ [][HorizonNext]_vars
=============================================================================
