---------------------------- MODULE SendHistory ----------------------------
(***************************************************************************)
(* SendLoop with the record of CircuitHistory beside it: what the loop has *)
(* reported to the breaker, and how long ago.  Nothing reads it.  With it  *)
(* the loop is held against CircuitHistory, reports included, and not only *)
(* against the breaker.                                                    *)
(***************************************************************************)
EXTENDS SendLoop

VARIABLE hist   \* history variable, see CircuitHistory

Circuit == INSTANCE CircuitHistory WITH Callers <- Requests, caller <- role

hvars == <<vars, hist>>

HInit == Init /\ hist = Circuit!NoReports

\* What the record keeps of an answer.
Noted(a) ==
    CASE a = "ok" -> Circuit!AfterSuccess(hist)
      [] a \in Errors -> Circuit!AfterFailure(hist)
      [] a \in Statuses \ {"ok"} -> hist

HRespond(r) ==
    \/ Raise(r) /\ hist' = Noted("limited")
    \/ \E a \in Answers : (Finish(r, a) \/ Retry(r, a)) /\ hist' = Noted(a)

HNext ==
    \/ \E r \in Requests :
          \/ (Attempt(r) \/ Acquire(r) \/ Dispatch(r) \/ Cancel(r)) /\ UNCHANGED hist
          \/ HRespond(r)
    \/ Elsewhere /\ UNCHANGED hist
    \/ Tick /\ hist' = Circuit!AfterTick(hist)

HSpec == HInit /\ [][HNext]_hvars /\ Fairness

\* The loop uses the breaker as CircuitHistory allows, report by report: one report
\* for each admission, or none at all, and what is recorded of it is what was
\* answered (client.py:463-499).
CircuitRefined == Circuit!HLooseSpec
=============================================================================
