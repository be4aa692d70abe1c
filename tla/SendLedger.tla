----------------------------- MODULE SendLedger -----------------------------
(***************************************************************************)
(* SendLoop with the account of TokenBucket beside it: what the requests   *)
(* have taken from the bucket of their domain, for how long that bucket    *)
(* made each of them sleep, and its latest pause.  Nothing reads it.  With *)
(* it the loop is held against TokenBucket, whose guarantees are about     *)
(* that account, and time has a beginning from which calls are counted.    *)
(***************************************************************************)
EXTENDS SendLoop

VARIABLES
    nap,       \* per request: what is left of the sleep for the domain bucket alone
    ledger     \* history variable, TokenBucket!HistType

Limiter == INSTANCE TokenBucket
             WITH Cost <- DomainCost, Pauses <- DomainPauses, Tasks <- Requests,
                  bucket <- domain, sleep <- nap, hist <- ledger

lvars == <<vars, nap, ledger>>

LInit ==
    /\ Init
    /\ nap = [r \in Requests |-> Limiter!Awake]
    /\ ledger = [now |-> 0, spent |-> 0, borrowed |-> 0, slept |-> 0, pause |-> 0,
                 fresh |-> FALSE]

LAcquire(r) ==
    /\ Acquire(r)
    /\ nap' = [nap EXCEPT ![r] = IF Domain!WaitFor(domain) > 0 THEN Domain!WaitFor(domain)
                                 ELSE Limiter!Awake]
    /\ ledger' = [ledger EXCEPT
                    !.spent    = @ + DomainCost,
                    !.borrowed = @ + Domain!NotBelow(0, DomainCost
                                                          - Domain!NotBelow(0, domain.level)),
                    !.fresh    = FALSE]

\* Both sleeps are over.
LDispatch(r) ==
    /\ Dispatch(r)
    /\ nap' = [nap EXCEPT ![r] = Limiter!Awake]
    /\ UNCHANGED ledger

Pausing(seconds) ==
    /\ domain' = Domain!Paused(domain, seconds)
    /\ ledger' = [ledger EXCEPT !.pause = seconds, !.fresh = TRUE]

Draining ==
    /\ domain' = Domain!Drained(domain)
    /\ ledger' = [ledger EXCEPT !.fresh = FALSE]

\* The backpressure of an answer, as Backpressure has it.
Entered(r, a) ==
    \/ a = "limited" /\ \E after \in RetryAfters : IF after > 0 THEN Pausing(after) ELSE Draining
    \/ /\ a = "unavailable" /\ ShouldRetry(r, a)
       /\ \E s \in WaitTimes(attempt[r] - 1) : Pausing(s)
    \/ a # "limited" /\ ~(a = "unavailable" /\ ShouldRetry(r, a)) /\ UNCHANGED ledger

LRespond(r) ==
    /\ \/ Raise(r) /\ UNCHANGED ledger
       \/ \E a \in Answers : (Finish(r, a) \/ Retry(r, a)) /\ Entered(r, a)
    /\ UNCHANGED nap

LTick ==
    /\ Tick
    /\ nap' = [r \in Requests |-> IF nap[r] > 0 THEN nap[r] - 1 ELSE nap[r]]
    /\ ledger' = [ledger EXCEPT
                    !.now   = @ + 1,
                    !.slept = @ + Cardinality(Limiter!Waiting),
                    !.pause = Domain!NotBelow(0, @ - 1)]

\* A request that is cancelled in its sleep never goes ahead: to the bucket it is a task
\* that is not resumed when its sleep is over.
LNext ==
    \/ \E r \in Requests :
          \/ (Attempt(r) \/ Cancel(r)) /\ UNCHANGED <<nap, ledger>>
          \/ LAcquire(r) \/ LDispatch(r) \/ LRespond(r)
    \/ Elsewhere /\ UNCHANGED <<nap, ledger>>
    \/ LTick

LSpec == LInit /\ [][LNext]_lvars /\ Fairness

(***************************************************************************)
(* Properties.                                                             *)
(***************************************************************************)
\* The requests use the bucket of their domain as its tasks may: whoever has to wait
\* sleeps his time before he goes ahead, and a pause is one of DomainPauses
\* (client.py:464, 491-497, 549-555).
LimiterRefined == Limiter!Spec

Calls == {c \in Requests \X (1 .. MaxAttempts) : c[2] <= sent[c[1]]}

\* The backend of a domain is called no more often than its burst and its rate allow,
\* but for a tick's worth of tokens for each tick that a request sleeps in its limiter
\* (or would have, were it not cancelled): with k requests asleep at a time, k + 1 times
\* the rate.  Retries, pauses and cancellations do not add to it (ratelimit.py:65-75,
\* 166-181, client.py:464-467).
CallsWithinRate == DomainCost * Cardinality(Calls) <= Burst + ledger.now + ledger.slept

\* The first request to acquire after an answer has paused the domain waits out the
\* rest of the pause and for its own token, in its limiter sleep (ratelimit.py:92-101,
\* 184-204).
PauseWaitedOut ==
    [][\A r \in Requests : Acquire(r) /\ ledger.fresh /\ ledger.pause > 0
          => wait'[r] >= ledger.pause + DomainCost]_lvars
=============================================================================
