------------------------------ MODULE Backoff ------------------------------
(***************************************************************************)
(* How long RetryPolicy.wait_time (src/blitz/retry.py) says to wait, with  *)
(* the three strategies of src/blitz/utils.py, in ticks.  A wait may be    *)
(* random, so what is defined is the set of waits that are possible after  *)
(* failure number n, counted from 0.                                       *)
(***************************************************************************)
EXTENDS Integers

CONSTANTS
    Strategy,
    Base, Multiplier, Step,     \* base, multiplier, linear_step
    MinWait, MaxWait

ASSUME BackoffAssumption ==
    /\ Strategy \in {"exponential", "linear", "jitter"}
    /\ Base \in Nat /\ Multiplier \in Nat /\ Step \in Nat
    /\ MinWait \in Nat /\ MaxWait \in Nat

Capped(seconds) == IF seconds > MaxWait THEN MaxWait ELSE seconds

Exponential(n) == Capped(Base * Multiplier ^ n)

Linear(n) == Capped(Base + Step * n)

\* The raw wait; full jitter draws it uniformly from 0 to the exponential one.
RawWaits(n) ==
    {s \in 0 .. MaxWait : \/ Strategy = "exponential" /\ s = Exponential(n)
                          \/ Strategy = "linear" /\ s = Linear(n)
                          \/ Strategy = "jitter" /\ s <= Exponential(n)}

\* wait_time(n): the floor is applied last, and wins over the cap.
WaitTimes(n) == {IF s < MinWait THEN MinWait ELSE s : s \in RawWaits(n)}
=============================================================================
