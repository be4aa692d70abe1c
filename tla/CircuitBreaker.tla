--------------------------- MODULE CircuitBreaker ---------------------------
(***************************************************************************)
(* One CircuitBreaker shared by concurrent callers (src/blitz/circuit.py). *)
(* A caller asks allow_request, is let through as an ordinary request      *)
(* (circuit CLOSED) or as a recovery probe (OPEN after the cool-down, or   *)
(* HALF_OPEN), and some time later reports record_success or               *)
(* record_failure.  Between the two anything may happen to the breaker, so *)
(* a report can reach a breaker in another state than the one that         *)
(* admitted the caller: the breaker does not know whose report it is.      *)
(*                                                                         *)
(* Spec is the contract the breaker was written for: whoever was let       *)
(* through reports.  Abandon is outside it: a caller that ends without     *)
(* reporting, which is what the client's send loop does to it              *)
(* (client.py:496-499).                                                    *)
(***************************************************************************)
EXTENDS Breaker

CONSTANT Callers

VARIABLES
    cb,        \* the breaker, a record of BreakerType
    caller     \* per caller: "idle", or what it was let through as

vars == <<cb, caller>>

Role == {"idle", "plain", "probe"}

TypeOK ==
    /\ cb \in BreakerType
    /\ caller \in [Callers -> Role]

Outstanding == {c \in Callers : caller[c] # "idle"}

Probers == {c \in Callers : caller[c] = "probe"}

Init ==
    /\ cb = NewBreaker
    /\ caller = [c \in Callers |-> "idle"]

\* allow_request answers True.  (False changes nothing.)
Admit(c) ==
    /\ caller[c] = "idle"
    /\ CanAllow(cb)
    /\ cb' = AllowRequest(cb)
    /\ caller' = [caller EXCEPT ![c] = IF AdmitsProbe(cb) THEN "probe" ELSE "plain"]

Succeed(c) ==
    /\ c \in Outstanding
    /\ cb' = RecordSuccess(cb)
    /\ caller' = [caller EXCEPT ![c] = "idle"]

Fail(c) ==
    /\ c \in Outstanding
    /\ cb' = RecordFailure(cb)
    /\ caller' = [caller EXCEPT ![c] = "idle"]

\* The caller ends and calls neither record_success nor record_failure.
Abandon(c) ==
    /\ c \in Outstanding
    /\ caller' = [caller EXCEPT ![c] = "idle"]
    /\ UNCHANGED cb

Reset ==
    /\ cb' = ResetBreaker(cb)
    /\ UNCHANGED caller

Tick ==
    /\ cb' = Aged(cb)
    /\ UNCHANGED caller

Report(c) == Succeed(c) \/ Fail(c)

Next ==
    \/ \E c \in Callers : Admit(c) \/ Report(c)
    \/ Reset
    \/ Tick

\* Time passes, and a caller that was let through is answered or times out.
Fairness ==
    /\ WF_vars(Tick)
    /\ \A c \in Callers : WF_vars(Report(c))

Spec == Init /\ [][Next]_vars /\ Fairness

(***************************************************************************)
(* Properties of the contract.                                             *)
(***************************************************************************)
\* The probe slot (_probe_in_flight, circuit.py:57) is never taken without a
\* probe outstanding that will give it back, whatever late reports of
\* ordinary requests and of earlier probes arrive in between.
ProbeSlotHeld == cb.probe => cb.state = "HALF_OPEN" /\ Probers # {}

\* A taken probe slot is given back (circuit.py:105, 121): the breaker does
\* not stay HALF_OPEN refusing everyone.
ProbeResolves == cb.probe ~> ~cb.probe

\* An OPEN breaker ends up letting a probe through, although each failure that
\* arrives late restarts the cool-down (circuit.py:85, 129-131).
CooldownEnds == cb.state = "OPEN" ~> CanAllow(cb)
=============================================================================
