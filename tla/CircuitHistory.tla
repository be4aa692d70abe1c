--------------------------- MODULE CircuitHistory ---------------------------
(***************************************************************************)
(* CircuitBreaker with a record of what was reported to it, kept beside    *)
(* the breaker and never read by it, so that its state changes can be held *)
(* against the reports that justify them.                                  *)
(***************************************************************************)
EXTENDS CircuitBreaker

VARIABLE hist   \* history variable, see HistType

hvars == <<cb, caller, hist>>

AtMost(bound, n) == IF n > bound THEN bound ELSE n

HistType ==
    [bad   : 0 .. FailureThreshold,   \* failures reported since the last success
     ok    : 0 .. SuccessThreshold,   \* successes reported since the last failure
     quiet : 0 .. RecoveryTimeout]    \* ticks since the last failure

NoReports == [bad |-> 0, ok |-> 0, quiet |-> 0]

HTypeOK == TypeOK /\ hist \in HistType

HInit ==
    /\ Init
    /\ hist = NoReports

\* What the record keeps of a success, of a failure and of the time.
AfterSuccess(h) == [h EXCEPT !.bad = 0, !.ok = AtMost(SuccessThreshold, @ + 1)]

AfterFailure(h) == [bad |-> AtMost(FailureThreshold, h.bad + 1), ok |-> 0, quiet |-> 0]

AfterTick(h) == [h EXCEPT !.quiet = AtMost(RecoveryTimeout, @ + 1)]

HAdmit(c) == Admit(c) /\ UNCHANGED hist

HSucceed(c) == Succeed(c) /\ hist' = AfterSuccess(hist)

HFail(c) == Fail(c) /\ hist' = AfterFailure(hist)

HAbandon(c) == Abandon(c) /\ UNCHANGED hist

HReset == Reset /\ UNCHANGED hist

HTick == Tick /\ hist' = AfterTick(hist)

HReport(c) == HSucceed(c) \/ HFail(c)

HNext ==
    \/ \E c \in Callers : HAdmit(c) \/ HReport(c)
    \/ HReset
    \/ HTick

HFairness ==
    /\ WF_hvars(HTick)
    /\ \A c \in Callers : WF_hvars(HReport(c))

HSpec == HInit /\ [][HNext]_hvars /\ HFairness

\* The breaker with callers that may also end without a report.
HLooseNext == HNext \/ \E c \in Callers : HAbandon(c)

HLooseSpec == HInit /\ [][HLooseNext]_hvars

(***************************************************************************)
(* Properties.                                                             *)
(***************************************************************************)
\* The counters of the breaker never run ahead of the reports they stand for,
\* and the cool-down never runs ahead of the time since the last failure.
CountersBacked ==
    /\ cb.state = "CLOSED" => cb.failures <= hist.bad /\ cb.successes = 0
    /\ cb.state = "HALF_OPEN" => cb.successes <= hist.ok /\ cb.failures = 0
    /\ cb.state = "OPEN" => /\ cb.openFor <= hist.quiet
                            /\ cb.failures = 0 /\ cb.successes = 0

\* A CLOSED circuit opens only when the last FailureThreshold reports were all
\* failures: "Consecutive failures before opening the circuit" (circuit.py:36).
TripsOnConsecutive ==
    [][cb.state = "CLOSED" /\ cb'.state = "OPEN" => hist'.bad = FailureThreshold]_hvars

\* A circuit that recovers by itself closes only when the last SuccessThreshold
\* reports were all successes: "Consecutive successes in HALF_OPEN before
\* closing" (circuit.py:38).  reset() is the other way to close it.
ClosesOnConsecutive ==
    [][cb.state # "CLOSED" /\ cb'.state = "CLOSED" =>
          HReset \/ hist'.ok = SuccessThreshold]_hvars

\* Once OPEN, the circuit lets nobody through until RecoveryTimeout has passed
\* since the last failure reported, the late ones included (circuit.py:85,
\* 129-131).
CooldownRespected ==
    [][cb.state = "OPEN" /\ cb'.state = "HALF_OPEN" => hist.quiet = RecoveryTimeout]_hvars
=============================================================================
