------------------------ MODULE CircuitHistory_proofs ------------------------
(***************************************************************************)
(* Proofs about CircuitBreaker and CircuitHistory, for any set of callers, *)
(* thresholds and recovery timeout.                                        *)
(*                                                                         *)
(* LooseInv is inductive whether or not the callers report: a report that  *)
(* never comes changes no counter.  The probe slot is another matter, and  *)
(* ProbeSlotHeld needs callers that keep the contract.  IInv adds it, and  *)
(* need not mention when a caller was admitted: every report clears the    *)
(* slot, so a slot that is taken was taken after the last report, and the  *)
(* prober that took it is still outstanding.                               *)
(***************************************************************************)
EXTENDS CircuitHistory, Breaker_proofs

LooseInv == HTypeOK /\ CountersBacked

IInv == LooseInv /\ ProbeSlotHeld

(***************************************************************************)
(* The invariant.                                                          *)
(***************************************************************************)
\* The invariant holds of a new breaker that nobody has called.
LEMMA InitIInv == HInit => IInv
  BY NewBreakerLemma, ThresholdAssumption
  DEF HInit, Init, IInv, LooseInv, HTypeOK, TypeOK, ProbeSlotHeld, CountersBacked,
      NewBreaker, NoReports, HistType, Role

\* Every call of the breaker, every caller that goes away and every tick preserves
\* the types and the backing of the counters.
LEMMA LooseStep == LooseInv /\ [HLooseNext]_hvars => LooseInv'
<1> SUFFICES ASSUME LooseInv, [HLooseNext]_hvars PROVE LooseInv'
  OBVIOUS
<1>t. cb \in BreakerType /\ caller \in [Callers -> Role] /\ hist \in HistType
  BY DEF LooseInv, HTypeOK, TypeOK
<1>b. /\ cb.state \in CircuitState /\ cb.openFor \in Nat
      /\ cb.failures \in Nat /\ cb.successes \in Nat
  BY <1>t DEF BreakerType
<1>h. hist.bad \in 0 .. FailureThreshold /\ hist.ok \in 0 .. SuccessThreshold
  BY <1>t DEF HistType
<1>1. ASSUME NEW c \in Callers, HAdmit(c) PROVE LooseInv'
  <2>1. /\ CanAllow(cb)
        /\ cb' = AllowRequest(cb)
        /\ caller' = [caller EXCEPT ![c] = IF AdmitsProbe(cb) THEN "probe" ELSE "plain"]
        /\ hist' = hist
    BY <1>1 DEF HAdmit, Admit
  <2>2. HTypeOK'
    BY <2>1, <1>t, AllowLemma DEF HTypeOK, TypeOK, Role
  <2>3. CountersBacked'
    <3>1. CASE cb.state = "CLOSED"
      BY <3>1, <2>1, <1>t, AllowLemma DEF LooseInv, CountersBacked
    <3>2. CASE cb.state # "CLOSED"
      <4>1. cb'.state = "HALF_OPEN" /\ cb'.failures = cb.failures
        BY <3>2, <2>1, <1>t, AllowLemma
      <4>2. cb'.successes = IF cb.state = "OPEN" THEN 0 ELSE cb.successes
        BY <3>2, <2>1, <1>t, AllowLemma
      <4>3. cb.failures = 0 /\ (cb.state = "HALF_OPEN" => cb.successes <= hist.ok)
        BY <3>2, <1>b DEF LooseInv, CountersBacked, CircuitState
      <4> QED
        BY <3>2, <2>1, <4>1, <4>2, <4>3, <1>b, <1>h, ThresholdAssumption
        DEF CountersBacked, CircuitState
    <3> QED BY <3>1, <3>2
  <2> QED BY <2>2, <2>3 DEF LooseInv
<1>2. ASSUME NEW c \in Callers, HSucceed(c) PROVE LooseInv'
  <2>1. /\ cb' = RecordSuccess(cb)
        /\ caller' = [caller EXCEPT ![c] = "idle"]
        /\ hist' = [hist EXCEPT !.bad = 0, !.ok = AtMost(SuccessThreshold, @ + 1)]
    BY <1>2 DEF HSucceed, Succeed, AfterSuccess
  <2>2. HTypeOK'
    <3>1. cb' \in BreakerType
      BY <2>1, <1>t, SuccessLemma
    <3>2. caller' \in [Callers -> Role]
      BY <2>1, <1>t DEF Role
    <3>3. /\ 0 \in 0 .. FailureThreshold
          /\ AtMost(SuccessThreshold, hist.ok + 1) \in 0 .. SuccessThreshold
      BY <1>h, ThresholdAssumption DEF AtMost
    <3>4. hist' \in HistType
      BY <2>1, <3>3, <1>t, Zenon DEF HistType
    <3> QED BY <3>1, <3>2, <3>4 DEF HTypeOK, TypeOK
  <2>3. CountersBacked'
    <3>1. hist'.bad = 0 /\ hist'.quiet = hist.quiet
          /\ hist'.ok = AtMost(SuccessThreshold, hist.ok + 1)
      BY <2>1, <1>t DEF HistType
    <3>2. CASE cb.state = "OPEN"
      BY <3>1, <3>2, <2>1, <1>t, SuccessLemma DEF LooseInv, CountersBacked
    <3>3. CASE cb.state = "CLOSED"
      <4>1. cb'.state = "CLOSED" /\ cb'.failures = 0 /\ cb'.successes = cb.successes
        BY <3>3, <2>1, <1>t, SuccessLemma
      <4>2. cb.successes = 0
        BY <3>3 DEF LooseInv, CountersBacked
      <4> QED BY <4>1, <4>2, <3>1 DEF CountersBacked
    <3>4. CASE cb.state = "HALF_OPEN"
      <4>1. cb.successes <= hist.ok /\ cb.failures = 0
        BY <3>4 DEF LooseInv, CountersBacked
      <4>s. \/ /\ cb'.state = "CLOSED"
               /\ cb'.failures = 0 /\ cb'.successes = 0
            \/ /\ cb'.state = "HALF_OPEN" /\ cb'.failures = cb.failures
               /\ cb'.successes = cb.successes + 1
               /\ cb.successes + 1 < SuccessThreshold
        <5>1. cb.state = "HALF_OPEN" =>
                 \/ /\ RecordSuccess(cb).state = "CLOSED"
                    /\ RecordSuccess(cb).failures = 0
                    /\ RecordSuccess(cb).successes = 0
                    /\ cb.successes + 1 >= SuccessThreshold
                 \/ /\ RecordSuccess(cb).state = "HALF_OPEN"
                    /\ RecordSuccess(cb).failures = cb.failures
                    /\ RecordSuccess(cb).successes = cb.successes + 1
                    /\ cb.successes + 1 < SuccessThreshold
          BY <1>t, SuccessLemma, Zenon
        <5> QED BY <3>4, <2>1, <5>1, Zenon
      <4>2. CASE cb'.state = "CLOSED"
        BY <4>2, <4>s, <3>1 DEF CountersBacked
      <4>3. CASE cb'.state # "CLOSED"
        BY <4>3, <4>s, <4>1, <3>1, <1>b, <1>h, ThresholdAssumption
        DEF CountersBacked, AtMost
      <4> QED BY <4>2, <4>3
    <3> QED BY <3>2, <3>3, <3>4, <1>b DEF CircuitState
  <2> QED BY <2>2, <2>3 DEF LooseInv
<1>3. ASSUME NEW c \in Callers, HFail(c) PROVE LooseInv'
  <2>1. /\ cb' = RecordFailure(cb)
        /\ caller' = [caller EXCEPT ![c] = "idle"]
        /\ hist' = [bad   |-> AtMost(FailureThreshold, hist.bad + 1),
                    ok    |-> 0,
                    quiet |-> 0]
    BY <1>3 DEF HFail, Fail, AfterFailure
  <2>2. HTypeOK'
    <3>1. cb' \in BreakerType
      BY <2>1, <1>t, FailureLemma
    <3>2. caller' \in [Callers -> Role]
      BY <2>1, <1>t DEF Role
    <3>3. AtMost(FailureThreshold, hist.bad + 1) \in 0 .. FailureThreshold
      BY <1>h, ThresholdAssumption DEF AtMost
    <3>4. hist' \in HistType
      BY <2>1, <3>3, ThresholdAssumption DEF HistType
    <3> QED BY <3>1, <3>2, <3>4 DEF HTypeOK, TypeOK
  <2>3. CountersBacked'
    <3>1. /\ hist'.bad = AtMost(FailureThreshold, hist.bad + 1)
          /\ hist'.ok = 0 /\ hist'.quiet = 0
      BY <2>1
    <3>2. CASE cb'.state = "OPEN"
      <4>1. cb'.openFor = 0 /\ cb'.failures = 0 /\ cb'.successes = 0
        BY <3>2, <2>1, <1>t, FailureLemma DEF LooseInv, CountersBacked
      <4> QED BY <4>1, <3>1, <3>2 DEF CountersBacked
    <3>3. CASE cb'.state # "OPEN"
      <4>1. /\ cb.state = "CLOSED" /\ cb'.state = "CLOSED"
            /\ cb'.failures = cb.failures + 1 /\ cb'.successes = cb.successes
            /\ cb.failures + 1 < FailureThreshold
        BY <3>3, <2>1, <1>t, FailureLemma
      <4>2. cb.failures <= hist.bad /\ cb.successes = 0
        BY <4>1 DEF LooseInv, CountersBacked
      <4> QED
        BY <4>1, <4>2, <3>1, <1>b, <1>h, ThresholdAssumption DEF CountersBacked, AtMost
    <3> QED BY <3>2, <3>3
  <2> QED BY <2>2, <2>3 DEF LooseInv
<1>4. CASE HReset
  <2>1. cb' = NewBreaker /\ UNCHANGED <<caller, hist>>
    BY <1>4 DEF HReset, Reset, ResetBreaker
  <2> QED
    BY <2>1, <1>t, NewBreakerLemma, ThresholdAssumption
    DEF LooseInv, HTypeOK, TypeOK, CountersBacked, NewBreaker, HistType
<1>5. CASE HTick
  <2>1. /\ cb' = Aged(cb)
        /\ caller' = caller
        /\ hist' = [hist EXCEPT !.quiet = AtMost(RecoveryTimeout, @ + 1)]
    BY <1>5 DEF HTick, Tick, AfterTick
  <2>2. HTypeOK'
    BY <2>1, <1>t, AgedLemma, ThresholdAssumption DEF HTypeOK, TypeOK, HistType, AtMost
  <2>3. CountersBacked'
    BY <2>1, <1>t, AgedLemma, ThresholdAssumption
    DEF LooseInv, CountersBacked, BreakerType, CircuitState, HistType, AtMost
  <2> QED BY <2>2, <2>3 DEF LooseInv
<1>6. ASSUME NEW c \in Callers, HAbandon(c) PROVE LooseInv'
  <2>1. cb' = cb /\ hist' = hist /\ caller' = [caller EXCEPT ![c] = "idle"]
    BY <1>6 DEF HAbandon, Abandon
  <2>2. caller' \in [Callers -> Role]
    BY <2>1, <1>t DEF Role
  <2> QED BY <2>1, <2>2 DEF LooseInv, HTypeOK, TypeOK, CountersBacked
<1>7. CASE UNCHANGED hvars
  BY <1>7 DEF hvars, LooseInv, HTypeOK, TypeOK, CountersBacked
<1> QED BY <1>1, <1>2, <1>3, <1>4, <1>5, <1>6, <1>7 DEF HLooseNext, HNext, HReport

\* With callers that report, no step leaves the probe slot taken by nobody.
LEMMA SlotStep == IInv /\ [HNext]_hvars => ProbeSlotHeld'
<1> SUFFICES ASSUME IInv, [HNext]_hvars PROVE ProbeSlotHeld'
  OBVIOUS
<1>t. cb \in BreakerType /\ caller \in [Callers -> Role] /\ ProbeSlotHeld
  BY DEF IInv, LooseInv, HTypeOK, TypeOK
<1>1. ASSUME NEW c \in Callers, HAdmit(c) PROVE ProbeSlotHeld'
  BY <1>1, <1>t, AllowLemma DEF HAdmit, Admit, ProbeSlotHeld, Probers, AdmitsProbe
<1>2. ASSUME NEW c \in Callers, HSucceed(c) \/ HFail(c) PROVE ProbeSlotHeld'
  <2>1. cb' = RecordSuccess(cb) \/ cb' = RecordFailure(cb)
    BY <1>2 DEF HSucceed, Succeed, HFail, Fail
  <2>2. RecordSuccess(cb).probe = FALSE
    BY <1>t, SuccessLemma
  <2>3. RecordFailure(cb).probe = FALSE
    BY <1>t, FailureLemma
  <2> QED BY <2>1, <2>2, <2>3 DEF ProbeSlotHeld
<1>3. CASE HReset
  BY <1>3 DEF HReset, Reset, ResetBreaker, NewBreaker, ProbeSlotHeld
<1>4. CASE HTick
  BY <1>4, <1>t, AgedLemma DEF HTick, Tick, ProbeSlotHeld, Probers
<1>5. CASE UNCHANGED hvars
  BY <1>5, <1>t DEF hvars, ProbeSlotHeld, Probers
<1> QED BY <1>1, <1>2, <1>3, <1>4, <1>5 DEF HNext, HReport

\* What LooseInv says of callers that may go away holds of callers that do not.
LEMMA NextIInv == IInv /\ [HNext]_hvars => IInv'
  BY LooseStep, SlotStep DEF IInv, HLooseNext

\* The types and the backing of the counters need no callers that keep the contract:
\* requests that end without a report (client.py:496-499) cannot break them.
THEOREM LooseInvariance == HLooseSpec => []LooseInv
<1>1. HInit => LooseInv
  BY InitIInv DEF IInv
<1> QED BY <1>1, LooseStep, PTL DEF HLooseSpec

\* IInv is an invariant of the breaker with its history.
THEOREM Invariance == HSpec => []IInv
  BY InitIInv, NextIInv, PTL DEF HSpec

\* Types, for every instance: the breaker's counters stay below the thresholds
\* and its cool-down clock below RecoveryTimeout.
THEOREM TypeCorrect == HSpec => []HTypeOK
  BY Invariance, PTL DEF IInv, LooseInv

\* The probe slot is taken only in HALF_OPEN and only while a probe that will
\* give it back is outstanding (circuit.py:57, 105, 121).
THEOREM SlotHeld == HSpec => []ProbeSlotHeld
  BY Invariance, PTL DEF IInv

\* The breaker's counters and clock never run ahead of what was reported.
THEOREM Backed == HSpec => []CountersBacked
  BY Invariance, PTL DEF IInv, LooseInv

(***************************************************************************)
(* The action properties, from the invariant.                              *)
(***************************************************************************)
\* A step from CLOSED to OPEN is a failure that is the FailureThreshold-th in a row.
LEMMA TripsStep ==
    LooseInv /\ HLooseNext /\ cb.state = "CLOSED" /\ cb'.state = "OPEN"
        => hist'.bad = FailureThreshold
<1> SUFFICES ASSUME LooseInv, HLooseNext, cb.state = "CLOSED", cb'.state = "OPEN"
             PROVE  hist'.bad = FailureThreshold
  OBVIOUS
<1>t. cb \in BreakerType /\ hist \in HistType
  BY DEF LooseInv, HTypeOK, TypeOK
<1>1. ASSUME NEW c \in Callers, HFail(c) PROVE hist'.bad = FailureThreshold
  <2>1. cb' = RecordFailure(cb) /\ hist'.bad = AtMost(FailureThreshold, hist.bad + 1)
    BY <1>1 DEF HFail, Fail, AfterFailure
  <2>2. cb.failures + 1 >= FailureThreshold
    BY <2>1, <1>t, FailureLemma
  <2>3. cb.failures <= hist.bad /\ cb.failures \in Nat /\ hist.bad \in Nat
        /\ hist.bad <= FailureThreshold
    BY <1>t, ThresholdAssumption DEF LooseInv, CountersBacked, BreakerType, HistType
  <2> QED BY <2>1, <2>2, <2>3, ThresholdAssumption DEF AtMost
<1>2. ASSUME NEW c \in Callers, HAdmit(c) \/ HSucceed(c) PROVE FALSE
  <2>1. cb' = cb \/ cb'.state = "CLOSED"
    BY <1>2, <1>t, AllowLemma, SuccessLemma DEF HAdmit, Admit, HSucceed, Succeed
  <2> QED BY <2>1
<1>3. ~HReset
  BY DEF HReset, Reset, ResetBreaker, NewBreaker
<1>4. ~HTick
  BY <1>t, AgedLemma DEF HTick, Tick
<1>5. ASSUME NEW c \in Callers, HAbandon(c) PROVE FALSE
  BY <1>5 DEF HAbandon, Abandon
<1> QED BY <1>1, <1>2, <1>3, <1>4, <1>5 DEF HLooseNext, HNext, HReport

\* The only step from CLOSED to OPEN is a failure that is the
\* FailureThreshold-th in a row (circuit.py:123-126).
THEOREM Trips == HSpec => TripsOnConsecutive
<1> DEFINE P == cb.state = "CLOSED" /\ cb'.state = "OPEN" => hist'.bad = FailureThreshold
<1>1. IInv /\ [HNext]_hvars => [P]_hvars
  BY TripsStep DEF IInv, HLooseNext
<1> QED BY <1>1, Invariance, PTL DEF HSpec, TripsOnConsecutive

\* The same whatever callers go away without a report: late and missing reports do
\* not open the circuit (circuit.py:123-126, client.py:496-499).
THEOREM LooseTrips == HLooseSpec => TripsOnConsecutive
<1> DEFINE P == cb.state = "CLOSED" /\ cb'.state = "OPEN" => hist'.bad = FailureThreshold
<1>1. LooseInv /\ [HLooseNext]_hvars => [P]_hvars
  BY TripsStep
<1> QED BY <1>1, LooseInvariance, PTL DEF HLooseSpec, TripsOnConsecutive

\* A step that closes the circuit is reset() or the SuccessThreshold-th success in a row.
LEMMA ClosesStep ==
    LooseInv /\ HLooseNext /\ cb.state # "CLOSED" /\ cb'.state = "CLOSED"
        => HReset \/ hist'.ok = SuccessThreshold
<1> SUFFICES ASSUME LooseInv, HLooseNext, cb.state # "CLOSED", cb'.state = "CLOSED", ~HReset
             PROVE  hist'.ok = SuccessThreshold
  OBVIOUS
<1>t. cb \in BreakerType /\ hist \in HistType
  BY DEF LooseInv, HTypeOK, TypeOK
<1>1. ASSUME NEW c \in Callers, HSucceed(c) PROVE hist'.ok = SuccessThreshold
  <2>1. cb' = RecordSuccess(cb) /\ hist'.ok = AtMost(SuccessThreshold, hist.ok + 1)
    BY <1>1, <1>t DEF HSucceed, Succeed, AfterSuccess, HistType
  <2>2. cb.state = "HALF_OPEN"
    BY <2>1, <1>t, SuccessLemma DEF BreakerType, CircuitState
  <2>3. cb.successes + 1 >= SuccessThreshold
    BY <2>1, <2>2, <1>t, SuccessLemma
  <2>4. cb.successes <= hist.ok /\ cb.successes \in Nat /\ hist.ok \in Nat
        /\ hist.ok <= SuccessThreshold
    BY <2>2, <1>t, ThresholdAssumption DEF LooseInv, CountersBacked, BreakerType, HistType
  <2> QED BY <2>1, <2>3, <2>4, ThresholdAssumption DEF AtMost
<1>2. ASSUME NEW c \in Callers, HAdmit(c) PROVE FALSE
  BY <1>2, <1>t, AllowLemma DEF HAdmit, Admit
<1>3. ASSUME NEW c \in Callers, HFail(c) PROVE FALSE
  BY <1>3, <1>t, FailureLemma DEF HFail, Fail
<1>4. ~HTick
  BY <1>t, AgedLemma DEF HTick, Tick
<1>5. ASSUME NEW c \in Callers, HAbandon(c) PROVE FALSE
  BY <1>5 DEF HAbandon, Abandon
<1> QED BY <1>1, <1>2, <1>3, <1>4, <1>5 DEF HLooseNext, HNext, HReport

\* The only steps that close the circuit are reset() and a success that is the
\* SuccessThreshold-th in a row (circuit.py:107-110).
THEOREM Closes == HSpec => ClosesOnConsecutive
<1> DEFINE P == cb.state # "CLOSED" /\ cb'.state = "CLOSED" =>
                   HReset \/ hist'.ok = SuccessThreshold
<1>1. IInv /\ [HNext]_hvars => [P]_hvars
  BY ClosesStep DEF IInv, HLooseNext
<1> QED BY <1>1, Invariance, PTL DEF HSpec, ClosesOnConsecutive

\* The same whatever callers go away without a report (circuit.py:107-110,
\* client.py:496-499).
THEOREM LooseCloses == HLooseSpec => ClosesOnConsecutive
<1> DEFINE P == cb.state # "CLOSED" /\ cb'.state = "CLOSED" =>
                   HReset \/ hist'.ok = SuccessThreshold
<1>1. LooseInv /\ [HLooseNext]_hvars => [P]_hvars
  BY ClosesStep
<1> QED BY <1>1, LooseInvariance, PTL DEF HLooseSpec, ClosesOnConsecutive

\* A step from OPEN to HALF_OPEN is an admission after a whole quiet RecoveryTimeout.
LEMMA CooldownStep ==
    LooseInv /\ HLooseNext /\ cb.state = "OPEN" /\ cb'.state = "HALF_OPEN"
        => hist.quiet = RecoveryTimeout
<1> SUFFICES ASSUME LooseInv, HLooseNext, cb.state = "OPEN", cb'.state = "HALF_OPEN"
             PROVE  hist.quiet = RecoveryTimeout
  OBVIOUS
<1>t. cb \in BreakerType /\ hist \in HistType
  BY DEF LooseInv, HTypeOK, TypeOK
<1>1. ASSUME NEW c \in Callers, HAdmit(c) PROVE hist.quiet = RecoveryTimeout
  <2>1. cb.openFor >= RecoveryTimeout
    BY <1>1 DEF HAdmit, Admit, CanAllow, CooledDown
  <2>2. cb.openFor <= hist.quiet /\ cb.openFor \in Nat
        /\ hist.quiet \in 0 .. RecoveryTimeout
    BY <1>t, ThresholdAssumption DEF LooseInv, CountersBacked, BreakerType, HistType
  <2> QED BY <2>1, <2>2, ThresholdAssumption
<1>2. ASSUME NEW c \in Callers, HSucceed(c) PROVE FALSE
  BY <1>2, <1>t, SuccessLemma DEF HSucceed, Succeed
<1>3. ASSUME NEW c \in Callers, HFail(c) PROVE FALSE
  BY <1>3, <1>t, FailureLemma DEF HFail, Fail
<1>4. ~HReset
  BY DEF HReset, Reset, ResetBreaker, NewBreaker
<1>5. ~HTick
  BY <1>t, AgedLemma DEF HTick, Tick
<1>6. ASSUME NEW c \in Callers, HAbandon(c) PROVE FALSE
  BY <1>6 DEF HAbandon, Abandon
<1> QED BY <1>1, <1>2, <1>3, <1>4, <1>5, <1>6 DEF HLooseNext, HNext, HReport

\* The only step that leaves OPEN for HALF_OPEN is an admission after a whole
\* RecoveryTimeout without a reported failure (circuit.py:85-89).
THEOREM Cooldown == HSpec => CooldownRespected
<1> DEFINE P == cb.state = "OPEN" /\ cb'.state = "HALF_OPEN" => hist.quiet = RecoveryTimeout
<1>1. IInv /\ [HNext]_hvars => [P]_hvars
  BY CooldownStep DEF IInv, HLooseNext
<1> QED BY <1>1, Invariance, PTL DEF HSpec, CooldownRespected

\* The same whatever callers go away without a report (circuit.py:85-89,
\* client.py:496-499).
THEOREM LooseCooldown == HLooseSpec => CooldownRespected
<1> DEFINE P == cb.state = "OPEN" /\ cb'.state = "HALF_OPEN" => hist.quiet = RecoveryTimeout
<1>1. LooseInv /\ [HLooseNext]_hvars => [P]_hvars
  BY CooldownStep
<1> QED BY <1>1, LooseInvariance, PTL DEF HLooseSpec, CooldownRespected
=============================================================================
