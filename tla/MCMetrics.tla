----------------------------- MODULE MCMetrics -----------------------------
(***************************************************************************)
(* Instance of Metrics for TLC: two domains, a success and a failure after *)
(* a retry, three requests, and timestamps kept for two ticks.  The two    *)
(* domains are interchangeable, and no liveness is checked.                *)
(***************************************************************************)
EXTENDS Metrics, TLC

CONSTANTS d1, d2

Symmetry == Permutations({d1, d2})

MCOutcomes == {[success |-> TRUE, retries |-> 0], [success |-> FALSE, retries |-> 1]}
=============================================================================
