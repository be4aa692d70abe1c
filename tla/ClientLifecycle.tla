--------------------------- MODULE ClientLifecycle ---------------------------
(***************************************************************************)
(* A BlitzClient from first use to close(): start(), close(), and requests *)
(* that go on meanwhile, some of them in one batch() with a semaphore      *)
(* (src/blitz/client.py, src/blitz/pool.py).                               *)
(*                                                                         *)
(* What SendLoop says of a request is reduced to where it meets the pool:  *)
(* a request is paused in the limiter or the backoff, then asks the pool   *)
(* for a session, and is sent if that session is open.                     *)
(***************************************************************************)
EXTENDS ConnectionPool, FiniteSets

CONSTANTS
    Members,      \* the requests of the batch
    Others,       \* other requests, streams and warm-up probes
    Concurrency,  \* concurrency of the batch
    MaxAttempts   \* max_attempts

ASSUME ClientAssumption ==
    /\ Members \cap Others = {} /\ IsFiniteSet(Members)
    /\ Concurrency \in Nat \ {0} /\ MaxAttempts \in Nat \ {0}

VARIABLES
    started,      \* _started
    pool,         \* _pool
    working,      \* _worker_pool._running
    closer,       \* where the call of close() is; _closed unless "open"
    pc,           \* per request: the await it is suspended in
    attempts,     \* per request: calls of _dispatch
    batch,        \* where the call of batch() is
    free,         \* the value of the batch's semaphore
    reused        \* history: something was begun after close() was called

clientVars == <<started, pool, working>>
requestVars == <<pc, attempts>>
batchVars == <<batch, free>>
vars == <<clientVars, closer, requestVars, batchVars, reused>>

Requests == Members \cup Others

TypeOK ==
    /\ started \in BOOLEAN /\ pool \in PoolType /\ working \in BOOLEAN
    /\ closer \in {"open", "stopping", "settling", "finishing", "closed", "cancelled"}
    /\ pc \in [Requests -> {"idle", "queued", "paused", "sent", "done"}]
    /\ attempts \in [Requests -> 0 .. MaxAttempts]
    /\ batch \in {"idle", "running", "cancelling", "returned", "raised", "cancelled"}
    /\ free \in 0 .. Concurrency
    /\ reused \in BOOLEAN

Init ==
    /\ started = FALSE /\ pool = NewPool /\ working = FALSE
    /\ closer = "open"
    /\ pc = [r \in Requests |-> "idle"] /\ attempts = [r \in Requests |-> 0]
    /\ batch = "idle" /\ free = Concurrency
    /\ reused = FALSE

\* start(), which nothing in it suspends.  It does not ask whether the client
\* has been closed.
Start ==
    /\ started' = TRUE
    /\ working' = (working \/ ~started)
    /\ pool' = IF started THEN pool ELSE Initialized(pool)

\* Something is begun that calls start() first.
Begin == Start /\ reused' = (reused \/ closer # "open")

(***************************************************************************)
(* Requests.                                                               *)
(***************************************************************************)
\* A call of get(), post(), stream(), warmup() and so on
Enter(r) ==
    /\ r \in Others /\ pc[r] = "idle"
    /\ Begin
    /\ pc' = [pc EXCEPT ![r] = "paused"]
    /\ UNCHANGED <<closer, attempts, batchVars>>

\* The members of a cancelled batch have all been cancelled as well.
Unwinding == batch \in {"cancelling", "cancelled"}

Live(r) == r \in Members => ~Unwinding

Holding == {m \in Members : pc[m] \in {"paused", "sent"}}

\* Mutant of Release: the slot is not given back.
ReleaseNothing(r) == free' = free

\* The end of a request inside the semaphore
Release(r) == free' = IF r \in Members THEN free + 1 ELSE free

End(r) == pc' = [pc EXCEPT ![r] = "done"] /\ Release(r)

\* A member passes the semaphore.
Admit(m) ==
    /\ m \in Members /\ pc[m] = "queued" /\ Live(m) /\ free > 0
    /\ free' = free - 1
    /\ pc' = [pc EXCEPT ![m] = "paused"]
    /\ UNCHANGED <<clientVars, closer, attempts, batch, reused>>

\* Refused by the circuit breaker
Refused(r) ==
    /\ pc[r] = "paused" /\ Live(r)
    /\ End(r)
    /\ UNCHANGED <<clientVars, closer, attempts, batch, reused>>

\* Mutant of RetryOrEnd: one attempt more than max_attempts.
RetryOrEndLate(r, n) ==
    \/ n <= MaxAttempts /\ pc' = [pc EXCEPT ![r] = "paused"] /\ UNCHANGED free
    \/ End(r)

\* The attempt has failed for now, or was the last.
RetryOrEnd(r, n) ==
    \/ n < MaxAttempts /\ pc' = [pc EXCEPT ![r] = "paused"] /\ UNCHANGED free
    \/ End(r)

\* _dispatch() gets a session from the pool, and fails at once if it is closed.
Dispatch(r) ==
    /\ pc[r] = "paused" /\ Live(r)
    /\ pool' = Initialized(pool)
    /\ attempts' = [attempts EXCEPT ![r] = @ + 1]
    /\ \E backend \in Backends :
          IF Usable(pool', backend)
          THEN pc' = [pc EXCEPT ![r] = "sent"] /\ UNCHANGED free
          ELSE RetryOrEnd(r, attempts'[r])
    /\ UNCHANGED <<started, working, closer, batch, reused>>

\* The backend answers, or fails: because it was closed, or for any other reason.
Answered(r) ==
    /\ pc[r] = "sent" /\ Live(r)
    /\ RetryOrEnd(r, attempts[r])
    /\ UNCHANGED <<clientVars, closer, attempts, batch, reused>>

\* An exception escapes _send, and batch() raises it without waiting for the rest.
Raise(r) ==
    /\ pc[r] = "sent" /\ Live(r)
    /\ End(r)
    /\ batch' = IF r \in Members /\ batch = "running" THEN "raised" ELSE batch
    /\ UNCHANGED <<clientVars, closer, attempts, reused>>

\* Mutant of Cancelled: a member that waits for the semaphore gives a slot back.
CancelledReleasing(r) ==
    /\ r \in Others \/ Unwinding
    /\ pc[r] \in {"queued", "paused", "sent"} /\ End(r)
    /\ batch' = IF r \in Members THEN "cancelled" ELSE batch
    /\ UNCHANGED <<clientVars, closer, attempts, reused>>

\* A cancellation arrives: the caller's own, or that of the batch.  The first member
\* that has ended so ends batch(), which does not wait for the others.
Cancelled(r) ==
    /\ r \in Others \/ Unwinding
    /\ \/ pc[r] \in {"paused", "sent"} /\ End(r)
       \/ pc[r] = "queued" /\ pc' = [pc EXCEPT ![r] = "done"] /\ UNCHANGED free
    /\ batch' = IF r \in Members THEN "cancelled" ELSE batch
    /\ UNCHANGED <<clientVars, closer, attempts, reused>>

(***************************************************************************)
(* batch().                                                                *)
(***************************************************************************)
CallBatch ==
    /\ batch = "idle"
    /\ Begin
    /\ batch' = "running"
    /\ pc' = [r \in Requests |-> IF r \in Members THEN "queued" ELSE pc[r]]
    /\ UNCHANGED <<closer, attempts, free>>

\* The cancellation of batch() is passed on to the members that have not ended; if
\* all have, batch() itself is cancelled before it sees their results.
CancelBatch ==
    /\ batch = "running"
    /\ batch' = IF \A m \in Members : pc[m] = "done" THEN "cancelled" ELSE "cancelling"
    /\ UNCHANGED <<clientVars, closer, requestVars, free, reused>>

\* gather() has all results.
BatchReturns ==
    /\ batch = "running"
    /\ \A m \in Members : pc[m] = "done"
    /\ batch' = "returned"
    /\ UNCHANGED <<clientVars, closer, requestVars, free, reused>>

(***************************************************************************)
(* close().  A second call returns at once and changes nothing.            *)
(***************************************************************************)
\* Nothing is waited for if the client was never started.
CallClose ==
    /\ closer = "open"
    /\ working' = FALSE
    /\ IF started
       THEN closer' = "stopping" /\ UNCHANGED pool
       ELSE closer' = "closed" /\ pool' = Uninitialized(pool)
    /\ UNCHANGED <<started, requestVars, batchVars, reused>>

\* The worker pool has stopped; the aiohttp session is closed.
WorkersStopped ==
    /\ closer = "stopping"
    /\ closer' = "settling"
    /\ pool' = Without(pool, "aiohttp")
    /\ UNCHANGED <<started, working, requestVars, batchVars, reused>>

\* The pause for the connector is over; the httpx client is closed.
Settled ==
    /\ closer = "settling"
    /\ closer' = "finishing"
    /\ pool' = Without(pool, "httpx")
    /\ UNCHANGED <<started, working, requestVars, batchVars, reused>>

CloseReturns ==
    /\ closer = "finishing"
    /\ closer' = "closed"
    /\ pool' = Uninitialized(pool)
    /\ UNCHANGED <<started, working, requestVars, batchVars, reused>>

\* The caller of close() gives up, and _closed keeps anyone from trying again.
CancelClose ==
    /\ closer \in {"stopping", "settling", "finishing"}
    /\ closer' = "cancelled"
    /\ UNCHANGED <<clientVars, requestVars, batchVars, reused>>

RequestStep(r) ==
    Admit(r) \/ Refused(r) \/ Dispatch(r) \/ Answered(r) \/ Raise(r) \/ Cancelled(r)

Next ==
    \/ \E r \in Requests : Enter(r) \/ RequestStep(r)
    \/ CallBatch \/ CancelBatch \/ BatchReturns
    \/ CallClose \/ WorkersStopped \/ Settled \/ CloseReturns \/ CancelClose

\* A request that can go on does: every sleep ends, every backend answers.
Fairness ==
    /\ \A r \in Requests : WF_vars(RequestStep(r))
    /\ WF_vars(BatchReturns)

Spec == Init /\ [][Next]_vars /\ Fairness

(***************************************************************************)
(* Properties.                                                             *)
(***************************************************************************)
\* initialize() never drops a session that is still open, although requests
\* that outlive close() initialise the pool anew (pool.py:79-124, 168, 175).
NothingOrphaned == \A s \in pool.open : s[2] = pool.pair

\* A session that has been closed is handed out only while close() is under
\* way or after it was cancelled: before it and after it, a pool that claims to
\* be initialised has both its sessions (pool.py:152-160).
HandsOutOpen ==
    closer \in {"open", "closed"} /\ pool.initialized =>
        \A backend \in Backends : Usable(pool, backend)

\* Each slot of the semaphore is free or with one member that is under way,
\* however members end and also after batch() has raised or was cancelled, when
\* nobody waits for its members any more (client.py:340-346).
SlotsAccounted == batch # "idle" => free + Cardinality(Holding) = Concurrency

\* batch() ends, and so does every one of its requests, those too that a batch()
\* which has raised or was cancelled leaves behind, and whether or not the client is
\* closed meanwhile (client.py:335-347).
BatchEnds ==
    batch = "running" ~>
        /\ batch \in {"returned", "raised", "cancelled"}
        /\ \A m \in Members : pc[m] = "done"

\* "Drain in-flight requests, close sessions, and stop workers" (client.py:184):
\* once close() has returned no session is open, if nothing was begun after the
\* call of close().
ClosedStaysClosed == closer = "closed" /\ ~reused => pool.open = {}
=============================================================================
