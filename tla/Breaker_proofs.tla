--------------------------- MODULE Breaker_proofs ---------------------------
(***************************************************************************)
(* Lemmas about the methods of one breaker, for any thresholds.  They are  *)
(* used wherever a breaker is part of the state.                           *)
(***************************************************************************)
EXTENDS Breaker, TLAPS

(***************************************************************************)
(* What each method of the breaker does to a well-typed breaker.           *)
(***************************************************************************)
\* Zero is in the range of every counter.
LEMMA ZeroLemma ==
    /\ 0 \in 0 .. FailureThreshold - 1
    /\ 0 \in 0 .. SuccessThreshold - 1
    /\ 0 \in 0 .. RecoveryTimeout
  BY ThresholdAssumption

\* allow_request keeps the breaker well typed and, unless it was CLOSED, takes
\* the probe slot of a HALF_OPEN breaker (circuit.py:80-96).
LEMMA AllowLemma ==
    ASSUME NEW b \in BreakerType, CanAllow(b)
    PROVE  /\ AllowRequest(b) \in BreakerType
           /\ b.state = "CLOSED" => AllowRequest(b) = b
           /\ b.state # "CLOSED" =>
                 /\ AllowRequest(b).state = "HALF_OPEN"
                 /\ AllowRequest(b).probe = TRUE
                 /\ AllowRequest(b).failures = b.failures
                 /\ AllowRequest(b).successes =
                       IF b.state = "OPEN" THEN 0 ELSE b.successes
<1> USE ThresholdAssumption DEF BreakerType, CircuitState
<1>1. CASE b.state = "CLOSED"
  BY <1>1 DEF AllowRequest
<1>2. CASE b.state = "OPEN"
  <2>1. AllowRequest(b) = [b EXCEPT !.state = "HALF_OPEN", !.successes = 0, !.probe = TRUE]
    BY <1>2 DEF AllowRequest
  <2>2. [b EXCEPT !.state = "HALF_OPEN", !.successes = 0, !.probe = TRUE] \in BreakerType
    BY <1>2, ZeroLemma, Zenon
  <2> QED BY <1>2, <2>1, <2>2
<1>3. CASE b.state = "HALF_OPEN"
  <2>1. AllowRequest(b) = [b EXCEPT !.probe = TRUE]
    BY <1>3 DEF AllowRequest
  <2>2. [b EXCEPT !.probe = TRUE] \in BreakerType
    BY <1>3
  <2> QED BY <1>3, <2>1, <2>2
<1> QED BY <1>1, <1>2, <1>3

\* record_success frees the probe slot and changes only the counters, except
\* that it closes a HALF_OPEN breaker at the threshold (circuit.py:104-112).
LEMMA SuccessLemma ==
    ASSUME NEW b \in BreakerType
    PROVE  /\ RecordSuccess(b) \in BreakerType
           /\ RecordSuccess(b).probe = FALSE
           /\ b.state = "OPEN" => /\ RecordSuccess(b).state = "OPEN"
                                  /\ RecordSuccess(b).openFor = b.openFor
                                  /\ RecordSuccess(b).failures = b.failures
                                  /\ RecordSuccess(b).successes = b.successes
           /\ b.state = "CLOSED" => /\ RecordSuccess(b).state = "CLOSED"
                                    /\ RecordSuccess(b).failures = 0
                                    /\ RecordSuccess(b).successes = b.successes
           /\ b.state = "HALF_OPEN" =>
                 \/ /\ RecordSuccess(b).state = "CLOSED"
                    /\ RecordSuccess(b).failures = 0
                    /\ RecordSuccess(b).successes = 0
                    /\ b.successes + 1 >= SuccessThreshold
                 \/ /\ RecordSuccess(b).state = "HALF_OPEN"
                    /\ RecordSuccess(b).failures = b.failures
                    /\ RecordSuccess(b).successes = b.successes + 1
                    /\ b.successes + 1 < SuccessThreshold
<1> USE ThresholdAssumption DEF BreakerType, CircuitState
<1> DEFINE freed == [b EXCEPT !.probe = FALSE]
<1>f. /\ freed \in BreakerType
      /\ freed.probe = FALSE
      /\ freed.state = b.state
      /\ freed.failures = b.failures
      /\ freed.successes = b.successes
      /\ freed.openFor = b.openFor
  OBVIOUS
<1>r. RecordSuccess(b) = CountSuccess(freed)
  BY DEF RecordSuccess
<1> HIDE DEF freed
<1>1. CASE b.state = "CLOSED"
  <2>1. RecordSuccess(b) = [freed EXCEPT !.failures = 0]
    BY <1>1, <1>f, <1>r DEF CountSuccess
  <2>2. [freed EXCEPT !.failures = 0] \in BreakerType
    BY <1>1, <1>f
  <2> QED BY <1>1, <1>f, <2>1, <2>2
<1>2. CASE b.state = "OPEN"
  <2>1. RecordSuccess(b) = freed
    BY <1>2, <1>f, <1>r DEF CountSuccess
  <2>2. freed \in BreakerType
    BY <1>2, <1>f
  <2> QED BY <1>2, <1>f, <2>1, <2>2
<1>3. CASE b.state = "HALF_OPEN" /\ b.successes + 1 >= SuccessThreshold
  <2>1. RecordSuccess(b) =
           [freed EXCEPT !.state = "CLOSED", !.failures = 0, !.successes = 0]
    BY <1>3, <1>f, <1>r DEF CountSuccess, TransitionToClosed
  <2>2. [freed EXCEPT !.state = "CLOSED", !.failures = 0, !.successes = 0] \in BreakerType
    BY <1>f, ZeroLemma, Zenon
  <2> QED BY <1>3, <1>f, <2>1, <2>2
<1>4. CASE b.state = "HALF_OPEN" /\ ~(b.successes + 1 >= SuccessThreshold)
  <2>1. RecordSuccess(b) = [freed EXCEPT !.successes = @ + 1]
    BY <1>4, <1>f, <1>r DEF CountSuccess
  <2>2. [freed EXCEPT !.successes = @ + 1] \in BreakerType
    BY <1>4, <1>f
  <2> QED BY <1>4, <1>f, <2>1, <2>2
<1> QED BY <1>1, <1>2, <1>3, <1>4

\* record_failure frees the probe slot and leaves the breaker OPEN with a fresh
\* cool-down, or CLOSED below the threshold (circuit.py:120-131).
LEMMA FailureLemma ==
    ASSUME NEW b \in BreakerType
    PROVE  /\ RecordFailure(b) \in BreakerType
           /\ RecordFailure(b).probe = FALSE
           /\ \/ /\ RecordFailure(b).state = "OPEN"
                 /\ RecordFailure(b).openFor = 0
                 /\ \/ /\ RecordFailure(b).failures = 0
                       /\ RecordFailure(b).successes = 0
                    \/ /\ b.state = "OPEN"
                       /\ RecordFailure(b).failures = b.failures
                       /\ RecordFailure(b).successes = b.successes
                 /\ b.state = "CLOSED" => b.failures + 1 >= FailureThreshold
              \/ /\ b.state = "CLOSED"
                 /\ RecordFailure(b).state = "CLOSED"
                 /\ RecordFailure(b).failures = b.failures + 1
                 /\ RecordFailure(b).successes = b.successes
                 /\ b.failures + 1 < FailureThreshold
<1> USE ThresholdAssumption DEF BreakerType, CircuitState
<1> DEFINE freed == [b EXCEPT !.probe = FALSE]
           opened == [freed EXCEPT !.state = "OPEN", !.openFor = 0,
                                   !.failures = 0, !.successes = 0]
<1>f. /\ freed \in BreakerType
      /\ freed.probe = FALSE
      /\ freed.state = b.state
      /\ freed.failures = b.failures
      /\ freed.successes = b.successes
  OBVIOUS
<1>r. RecordFailure(b) = CountFailure(freed) /\ TransitionToOpen(freed) = opened
  BY DEF RecordFailure, TransitionToOpen
<1> HIDE DEF freed
<1>1. CASE b.state = "CLOSED" /\ b.failures + 1 >= FailureThreshold
  <2>1. RecordFailure(b) = opened
    BY <1>1, <1>f, <1>r DEF CountFailure
  <2>2. opened \in BreakerType
    BY <1>f, ZeroLemma, Zenon
  <2> QED BY <1>1, <1>f, <2>1, <2>2
<1>2. CASE b.state = "CLOSED" /\ ~(b.failures + 1 >= FailureThreshold)
  <2>1. RecordFailure(b) = [freed EXCEPT !.failures = @ + 1]
    BY <1>2, <1>f, <1>r DEF CountFailure
  <2>2. [freed EXCEPT !.failures = @ + 1] \in BreakerType
    BY <1>2, <1>f
  <2> QED BY <1>2, <1>f, <2>1, <2>2
<1>3. CASE b.state = "HALF_OPEN"
  <2>1. RecordFailure(b) = opened
    BY <1>3, <1>f, <1>r DEF CountFailure
  <2>2. opened \in BreakerType
    BY <1>f, ZeroLemma, Zenon
  <2> QED BY <1>3, <1>f, <2>1, <2>2
<1>4. CASE b.state = "OPEN"
  <2>1. RecordFailure(b) = [freed EXCEPT !.openFor = 0]
    BY <1>4, <1>f, <1>r DEF CountFailure
  <2>2. [freed EXCEPT !.openFor = 0] \in BreakerType
    BY <1>4, <1>f
  <2> QED BY <1>4, <1>f, <2>1, <2>2
<1> QED BY <1>1, <1>2, <1>3, <1>4

\* Time changes nothing but how long an OPEN breaker has been open.
LEMMA AgedLemma ==
    ASSUME NEW b \in BreakerType
    PROVE  /\ Aged(b) \in BreakerType
           /\ Aged(b).state = b.state
           /\ Aged(b).probe = b.probe
           /\ Aged(b).failures = b.failures
           /\ Aged(b).successes = b.successes
           /\ \/ Aged(b).openFor = b.openFor
              \/ Aged(b).openFor = b.openFor + 1 /\ b.openFor < RecoveryTimeout
  BY ThresholdAssumption DEF BreakerType, CircuitState, Aged, CooledDown

\* A new breaker is well typed, given positive thresholds (circuit.py:53-57).
LEMMA NewBreakerLemma == NewBreaker \in BreakerType
  BY ThresholdAssumption DEF NewBreaker, BreakerType, CircuitState
=============================================================================
