------------------------------ MODULE Breaker ------------------------------
(***************************************************************************)
(* The value of one CircuitBreaker object of src/blitz/circuit.py and what *)
(* each of its methods does to it.  No await is reached while the object's *)
(* asyncio.Lock is held, so every method runs as one step and is written   *)
(* here as an operator from the old value of the object to the new one.    *)
(*                                                                         *)
(* The monotonic clock is abstracted to what the code reads of it: openFor *)
(* is the time since _open_since, counted in ticks and saturating at       *)
(* RecoveryTimeout, because the only comparison made is "elapsed >=        *)
(* recovery_timeout".  It is read in OPEN only, so it advances in OPEN     *)
(* only.                                                                   *)
(***************************************************************************)
EXTENDS Integers

CONSTANTS
    FailureThreshold,    \* failure_threshold
    SuccessThreshold,    \* success_threshold
    RecoveryTimeout      \* recovery_timeout, in ticks; 0 means "probe at once"

ASSUME ThresholdAssumption ==
    /\ FailureThreshold \in Nat \ {0}
    /\ SuccessThreshold \in Nat \ {0}
    /\ RecoveryTimeout \in Nat

CircuitState == {"CLOSED", "OPEN", "HALF_OPEN"}

BreakerType ==
    [state     : CircuitState,
     failures  : 0 .. FailureThreshold - 1,
     successes : 0 .. SuccessThreshold - 1,
     openFor   : 0 .. RecoveryTimeout,
     probe     : BOOLEAN]

\* __init__
NewBreaker ==
    [state |-> "CLOSED", failures |-> 0, successes |-> 0,
     openFor |-> 0, probe |-> FALSE]

CooledDown(b) == b.openFor >= RecoveryTimeout

\* Mutant of CanAllow: the cool-down is never looked at.
CanAllowUntilOpen(b) ==
    \/ b.state = "CLOSED"
    \/ b.state = "HALF_OPEN" /\ ~b.probe

\* The answer of allow_request.
CanAllow(b) ==
    \/ b.state = "CLOSED"
    \/ b.state = "OPEN" /\ CooledDown(b)
    \/ b.state = "HALF_OPEN" /\ ~b.probe

\* The caller that allow_request lets through as a recovery probe.
AdmitsProbe(b) == b.state # "CLOSED"

\* The object after allow_request has answered True.
AllowRequest(b) ==
    CASE b.state = "CLOSED" -> b
      [] b.state = "OPEN" ->
            [b EXCEPT !.state = "HALF_OPEN", !.successes = 0, !.probe = TRUE]
      [] b.state = "HALF_OPEN" -> [b EXCEPT !.probe = TRUE]

\* _transition_to_open, _transition_to_closed
TransitionToOpen(b) ==
    [b EXCEPT !.state = "OPEN", !.openFor = 0, !.failures = 0, !.successes = 0]

TransitionToClosed(b) ==
    [b EXCEPT !.state = "CLOSED", !.failures = 0, !.successes = 0]

\* Mutant of CountSuccess: failures need not be consecutive.
CountSuccessOnly(b) ==
    IF b.state = "HALF_OPEN" /\ b.successes + 1 >= SuccessThreshold
    THEN TransitionToClosed(b)
    ELSE IF b.state = "HALF_OPEN" THEN [b EXCEPT !.successes = @ + 1] ELSE b

CountSuccess(b) ==
    CASE b.state = "HALF_OPEN" ->
            IF b.successes + 1 >= SuccessThreshold
            THEN TransitionToClosed(b)
            ELSE [b EXCEPT !.successes = @ + 1]
      [] b.state = "CLOSED" -> [b EXCEPT !.failures = 0]
      [] b.state = "OPEN" -> b

\* Mutant of CountFailure: the threshold is compared with > instead of >=.
CountFailureLate(b) ==
    CASE b.state = "CLOSED" ->
            IF b.failures + 1 > FailureThreshold
            THEN TransitionToOpen(b)
            ELSE [b EXCEPT !.failures = @ + 1]
      [] b.state = "HALF_OPEN" -> TransitionToOpen(b)
      [] b.state = "OPEN" -> [b EXCEPT !.openFor = 0]

\* Mutant of CountFailure: a failure of the recovery does not reopen.
CountFailureForgiving(b) ==
    CASE b.state = "CLOSED" ->
            IF b.failures + 1 >= FailureThreshold
            THEN TransitionToOpen(b)
            ELSE [b EXCEPT !.failures = @ + 1]
      [] b.state = "HALF_OPEN" -> b
      [] b.state = "OPEN" -> [b EXCEPT !.openFor = 0]

\* Mutant of CountFailure: a late failure does not restart the cool-down.
CountFailureOnce(b) ==
    CASE b.state = "CLOSED" ->
            IF b.failures + 1 >= FailureThreshold
            THEN TransitionToOpen(b)
            ELSE [b EXCEPT !.failures = @ + 1]
      [] b.state = "HALF_OPEN" -> TransitionToOpen(b)
      [] b.state = "OPEN" -> b

CountFailure(b) ==
    CASE b.state = "CLOSED" ->
            IF b.failures + 1 >= FailureThreshold
            THEN TransitionToOpen(b)
            ELSE [b EXCEPT !.failures = @ + 1]
      [] b.state = "HALF_OPEN" -> TransitionToOpen(b)
      [] b.state = "OPEN" -> [b EXCEPT !.openFor = 0]

\* Mutant of RecordSuccess: the probe slot is not given back.
RecordSuccessKeepingSlot(b) == CountSuccess(b)

RecordSuccess(b) == CountSuccess([b EXCEPT !.probe = FALSE])

\* Mutant of RecordFailure: the probe slot is not given back.
RecordFailureKeepingSlot(b) == CountFailure(b)

RecordFailure(b) == CountFailure([b EXCEPT !.probe = FALSE])

\* reset() also zeroes _open_since, which nothing reads before the next opening.
ResetBreaker(b) == NewBreaker

\* The monotonic clock advances by one tick.
Aged(b) ==
    IF b.state = "OPEN" /\ ~CooledDown(b)
    THEN [b EXCEPT !.openFor = @ + 1]
    ELSE b
=============================================================================
