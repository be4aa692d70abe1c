------------------------------ MODULE SendLoop ------------------------------
(***************************************************************************)
(* BlitzClient._send (src/blitz/client.py): concurrent requests to one     *)
(* domain go through the circuit breaker, the two-tier rate limiter, the   *)
(* backend and the retry loop.  Breaker and Bucket give the values of the  *)
(* shared objects.                                                         *)
(*                                                                         *)
(* A request is suspended only where the code awaits something that may    *)
(* wait: the two bucket acquires, their sleep, the backend, and the        *)
(* backoff.  Everything between two of these is one action.                *)
(*                                                                         *)
(*    Attempt   top of the loop: breaker check, then acquire is scheduled  *)
(*    Acquire   both bucket acquires, up to their sleep                    *)
(*    Dispatch  the sleep is over, the backend is called                   *)
(*    Finish    the backend has answered and the loop returns              *)
(*    Retry     the backend has answered and the loop goes to its backoff  *)
(*    Raise     a 429 whose Retry-After date cannot be built               *)
(*    Cancel    the caller's task is cancelled at one of the awaits        *)
(*                                                                         *)
(* Requests to other domains have buckets and breakers of their own and    *)
(* share the global bucket only: Elsewhere is what they do to it.          *)
(***************************************************************************)
EXTENDS Breaker, Backoff, FiniteSetsExt

CONSTANTS
    Requests,
    Cancellable,     \* the requests whose caller may cancel them
    MaxAttempts,     \* max_attempts of the retry policy
    GlobalCost,      \* a token of the global bucket, in ticks
    DomainCost,      \* a token of the domain bucket, in ticks
    Burst,           \* burst_multiplier, in ticks
    RetryAfters      \* Retry-After values in ticks, 0 when there is no header

ASSUME SendAssumption ==
    /\ IsFiniteSet(Requests) /\ Cancellable \subseteq Requests
    /\ MaxAttempts \in Nat \ {0}
    /\ GlobalCost \in Nat \ {0} /\ DomainCost \in Nat \ {0} /\ Burst \in Nat \ {0}
    /\ RetryAfters \subseteq Nat

VARIABLES
    cb,          \* the circuit breaker of the domain
    global,      \* the global token bucket
    domain,      \* the token bucket of the domain
    pc,          \* per request: where its coroutine is suspended
    attempt,     \* per request: the local variable attempt
    sent,        \* per request: how often the backend was called
    wait,        \* per request: ticks left of the sleep in limiter or backoff
    role,        \* per request: what the breaker let it through as
    answer,      \* per request: the last answer
    metrics      \* the counters of MetricsCollector

vars == <<cb, global, domain, pc, attempt, sent, wait, role, answer, metrics>>

Global == INSTANCE Bucket WITH Cost <- GlobalCost, Pauses <- {}
\* What the bucket of the domain may be paused for, by a 429 and by a 503.
DomainPauses == RetryAfters \cup UNION {WaitTimes(n) : n \in 0 .. MaxAttempts}

Domain == INSTANCE Bucket WITH Cost <- DomainCost, Pauses <- DomainPauses

(***************************************************************************)
(* What the backend answers, told apart as far as the loop tells it apart. *)
(* "refused" is every status that is neither 2xx nor retried; "ssl" and    *)
(* "network" are exceptions, turned into errors by _dispatch.              *)
(***************************************************************************)
Statuses == {"ok", "refused", "limited", "unavailable", "server_error"}

Errors == {"network", "ssl"}

Answers == Statuses \cup Errors

\* RetryPolicy.should_retry, without its bound on attempts
Retryable == {"limited", "unavailable", "server_error", "network"}

\* Mutant of ShouldRetry: one attempt too many.
ShouldRetryOnceMore(r, a) == attempt[r] <= MaxAttempts /\ a \in Retryable

ShouldRetry(r, a) == attempt[r] < MaxAttempts /\ a \in Retryable

Suspended == {"acquiring", "waiting", "flying", "backoff"}

Ended == {"done", "raised", "cancelled"}

TypeOK ==
    /\ cb \in BreakerType
    /\ global \in Global!BucketType /\ domain \in Domain!BucketType
    /\ pc \in [Requests -> {"idle"} \cup Suspended \cup Ended]
    /\ attempt \in [Requests -> 0 .. MaxAttempts]
    /\ sent \in [Requests -> 0 .. MaxAttempts]
    /\ wait \in [Requests -> Nat]
    /\ role \in [Requests -> {"idle", "plain", "probe"}]
    /\ answer \in [Requests -> Answers \cup {"none", "circuit_open"}]
    /\ metrics \in [requests : Nat, errors : Nat, retries : Nat]

Init ==
    /\ cb = NewBreaker
    /\ global = Global!NewBucket
    /\ domain = Domain!NewBucket
    /\ pc = [r \in Requests |-> "idle"]
    /\ attempt = [r \in Requests |-> 0]
    /\ sent = [r \in Requests |-> 0]
    /\ wait = [r \in Requests |-> 0]
    /\ role = [r \in Requests |-> "idle"]
    /\ answer = [r \in Requests |-> "none"]
    /\ metrics = [requests |-> 0, errors |-> 0, retries |-> 0]

\* metrics.record(domain, success, latency, retries)
Recorded(success, retries) ==
    [requests |-> metrics.requests + 1,
     errors   |-> metrics.errors + (IF success THEN 0 ELSE 1),
     retries  |-> metrics.retries + retries]

\* attempt += 1; the breaker lets the request through.
Admit(r) ==
    /\ CanAllow(cb)
    /\ cb' = AllowRequest(cb)
    /\ role' = [role EXCEPT ![r] = IF AdmitsProbe(cb) THEN "probe" ELSE "plain"]
    /\ pc' = [pc EXCEPT ![r] = "acquiring"]
    /\ UNCHANGED <<answer, metrics>>

\* Mutant of Reject: refusals are not counted.
RejectUncounted(r) ==
    /\ ~CanAllow(cb)
    /\ pc' = [pc EXCEPT ![r] = "done"]
    /\ answer' = [answer EXCEPT ![r] = "circuit_open"]
    /\ UNCHANGED <<cb, role, metrics>>

\* Mutant of Reject: a refusal is reported to the breaker as a failure.
RejectAsFailure(r) ==
    /\ ~CanAllow(cb)
    /\ cb' = RecordFailure(cb)
    /\ metrics' = Recorded(FALSE, attempt[r])
    /\ pc' = [pc EXCEPT ![r] = "done"]
    /\ answer' = [answer EXCEPT ![r] = "circuit_open"]
    /\ UNCHANGED role

\* attempt += 1; the breaker refuses, and BlitzCircuitOpenError is returned.
Reject(r) ==
    /\ ~CanAllow(cb)
    /\ metrics' = Recorded(FALSE, attempt[r])
    /\ pc' = [pc EXCEPT ![r] = "done"]
    /\ answer' = [answer EXCEPT ![r] = "circuit_open"]
    /\ UNCHANGED <<cb, role>>

\* Mutant of Attempt: an attempt is counted only once it is let through.
AttemptIfAllowed(r) ==
    /\ pc[r] \in {"idle", "backoff"} /\ wait[r] = 0
    /\ attempt' = [attempt EXCEPT ![r] = @ + (IF CanAllow(cb) THEN 1 ELSE 0)]
    /\ Admit(r) \/ Reject(r)
    /\ UNCHANGED <<global, domain, sent, wait>>

\* Mutant of Attempt: instead of failing fast, wait until the circuit lets it through.
AttemptOnceAllowed(r) ==
    /\ pc[r] \in {"idle", "backoff"} /\ wait[r] = 0
    /\ attempt' = [attempt EXCEPT ![r] = @ + 1]
    /\ Admit(r)
    /\ UNCHANGED <<global, domain, sent, wait>>

Attempt(r) ==
    /\ pc[r] \in {"idle", "backoff"} /\ wait[r] = 0
    /\ attempt' = [attempt EXCEPT ![r] = @ + 1]
    /\ Admit(r) \/ Reject(r)
    /\ UNCHANGED <<global, domain, sent, wait>>

\* Mutant of Acquire: one acquire after the other, instead of both at once.
AcquireInTurn(r) ==
    /\ pc[r] = "acquiring"
    /\ global' = Global!Acquired(global)
    /\ domain' = Domain!Acquired(domain)
    /\ wait' = [wait EXCEPT ![r] = Global!WaitFor(global) + Domain!WaitFor(domain)]
    /\ pc' = [pc EXCEPT ![r] = "waiting"]
    /\ UNCHANGED <<cb, attempt, sent, role, answer, metrics>>

\* RateLimiter.acquire: both acquires run back to back and sleep concurrently.
Acquire(r) ==
    /\ pc[r] = "acquiring"
    /\ global' = Global!Acquired(global)
    /\ domain' = Domain!Acquired(domain)
    /\ wait' = [wait EXCEPT ![r] =
                   Domain!NotBelow(Global!WaitFor(global), Domain!WaitFor(domain))]
    /\ pc' = [pc EXCEPT ![r] = "waiting"]
    /\ UNCHANGED <<cb, attempt, sent, role, answer, metrics>>

Dispatch(r) ==
    /\ pc[r] = "waiting" /\ wait[r] = 0
    /\ pc' = [pc EXCEPT ![r] = "flying"]
    /\ sent' = [sent EXCEPT ![r] = @ + 1]
    /\ UNCHANGED <<cb, global, domain, attempt, wait, role, answer, metrics>>

\* The breaker hears of a 2xx and of an exception, and of nothing else.
Reported(a) ==
    CASE a = "ok" -> RecordSuccess(cb)
      [] a \in Errors -> RecordFailure(cb)
      [] a \in Statuses \ {"ok"} -> cb

\* RateLimiter.handle_429 with the parsed Retry-After
Handled429(after) ==
    IF after > 0 THEN Domain!Paused(domain, after) ELSE Domain!Drained(domain)

\* Backpressure on the domain bucket by request r.  A 503 pauses it only when it is
\* retried, for a wait of its own: not the one the request then sleeps for.
Backpressure(r, a, retried) ==
    \/ a = "limited" /\ \E after \in RetryAfters : domain' = Handled429(after)
    \/ /\ a = "unavailable" /\ retried
       /\ \E s \in WaitTimes(attempt[r] - 1) : domain' = Domain!Paused(domain, s)
    \/ a # "limited" /\ ~(a = "unavailable" /\ retried) /\ UNCHANGED domain

\* What every answer does before the loop decides to go on or not.
Answered(r, a) ==
    /\ pc[r] = "flying"
    /\ cb' = Reported(a)
    /\ role' = [role EXCEPT ![r] = "idle"]
    /\ answer' = [answer EXCEPT ![r] = a]
    /\ UNCHANGED <<global, attempt, sent>>

Finish(r, a) ==
    /\ Answered(r, a)
    /\ ~ShouldRetry(r, a)
    /\ metrics' = Recorded(a = "ok", attempt[r] - 1)
    /\ Backpressure(r, a, FALSE)
    /\ pc' = [pc EXCEPT ![r] = "done"]
    /\ UNCHANGED wait

Retry(r, a) ==
    /\ Answered(r, a)
    /\ ShouldRetry(r, a)
    /\ Backpressure(r, a, TRUE)
    /\ pc' = [pc EXCEPT ![r] = "backoff"]
    /\ \E s \in WaitTimes(attempt[r] - 1) : wait' = [wait EXCEPT ![r] = s]
    /\ UNCHANGED metrics

\* parse_retry_after raises ValueError on a well-formed date that does not exist
\* (day 99).  On the last attempt the metrics have been recorded by then.
Raise(r) ==
    /\ Answered(r, "limited")
    /\ metrics' = IF ShouldRetry(r, "limited") THEN metrics
                  ELSE Recorded(FALSE, attempt[r] - 1)
    /\ pc' = [pc EXCEPT ![r] = "raised"]
    /\ UNCHANGED <<domain, wait>>

\* CancelledError is not an Exception: nothing in _send or _dispatch catches it.
Cancel(r) ==
    /\ r \in Cancellable /\ pc[r] \in Suspended
    /\ pc' = [pc EXCEPT ![r] = "cancelled"]
    /\ role' = [role EXCEPT ![r] = "idle"]
    /\ wait' = [wait EXCEPT ![r] = 0]
    /\ UNCHANGED <<cb, global, domain, attempt, sent, answer, metrics>>

\* A request to another domain takes a token of the global bucket.
Elsewhere ==
    /\ global' = Global!Acquired(global)
    /\ UNCHANGED <<cb, domain, pc, attempt, sent, wait, role, answer, metrics>>

Tick ==
    /\ cb' = Aged(cb)
    /\ global' = Global!Refilled(global)
    /\ domain' = Domain!Refilled(domain)
    /\ wait' = [r \in Requests |-> Domain!NotBelow(0, wait[r] - 1)]
    /\ UNCHANGED <<pc, attempt, sent, role, answer, metrics>>

Respond(r) == Raise(r) \/ \E a \in Answers : Finish(r, a) \/ Retry(r, a)

Next ==
    \/ \E r \in Requests : Attempt(r) \/ Acquire(r) \/ Dispatch(r) \/ Respond(r) \/ Cancel(r)
    \/ Elsewhere
    \/ Tick

\* The event loop resumes every coroutine that can run, a dispatched request is
\* answered or times out (ClientTimeout), and time passes.
Fairness ==
    /\ WF_vars(Tick)
    /\ \A r \in Requests :
          /\ WF_vars(pc[r] = "backoff" /\ Attempt(r))
          /\ WF_vars(Acquire(r)) /\ WF_vars(Dispatch(r)) /\ WF_vars(Respond(r))

Spec == Init /\ [][Next]_vars /\ Fairness

(***************************************************************************)
(* Properties.                                                             *)
(***************************************************************************)
\* Attempts and calls of the backend agree: they differ by one exactly while an
\* attempt has not reached the backend, which holds for ever of an attempt the
\* breaker refused or a cancellation cut short (client.py:461-486).
AttemptsAccounted ==
    \A r \in Requests :
        /\ pc[r] \in {"idle", "flying", "backoff", "raised"} => sent[r] = attempt[r]
        /\ pc[r] \in {"acquiring", "waiting"} => sent[r] = attempt[r] - 1
        /\ pc[r] = "done" =>
              sent[r] = attempt[r] - (IF answer[r] = "circuit_open" THEN 1 ELSE 0)
        /\ role[r] # "idle" <=> pc[r] \in {"acquiring", "waiting", "flying"}

\* The requests that metrics.record has seen: those that returned, and those
\* that raised after their last attempt.
Counted ==
    {r \in Requests : \/ pc[r] = "done"
                      \/ pc[r] = "raised" /\ attempt[r] = MaxAttempts}

\* Their retries: every attempt of theirs but one.
CountedRetries == {p \in Counted \X (1 .. MaxAttempts) : p[2] < attempt[p[1]]}

\* Every request that returns is counted once, as an error unless it was
\* answered 2xx, and a cancelled one never is (client.py:475, 511).
MetricsExact ==
    /\ metrics.requests = Cardinality(Counted)
    /\ metrics.errors = Cardinality({r \in Counted : answer[r] # "ok"})
    /\ metrics.retries = Cardinality(CountedRetries)

\* No sleep is longer than the longer of one global token and one domain token plus
\* one pause, nor than the policy's waits: neither the other domains nor backpressure
\* heaped up by several answers add to it (ratelimit.py:166-181, retry.py:137-162).
BoundedSleep ==
    \A r \in Requests :
        /\ pc[r] = "waiting" =>
              \/ wait[r] <= GlobalCost
              \/ \E s \in DomainPauses \cup {0} : wait[r] <= DomainCost + s
        /\ pc[r] = "backoff" => wait[r] <= MinWait \/ wait[r] <= MaxWait

\* A request that was started returns, raises or is cancelled, whatever the
\* breaker, the limiter and the backend do (client.py:460-555).
RequestsEnd == \A r \in Requests : pc[r] # "idle" ~> pc[r] \in Ended

\* "only one probe is allowed at a time; all other concurrent callers will see the
\* circuit as OPEN until the probe resolves" (circuit.py:72-74): the slot is taken
\* exactly while one request is the probe, and free while none is.
ProbeExclusive ==
    cb.probe <=> Cardinality({r \in Requests : role[r] = "probe"}) = 1
=============================================================================
