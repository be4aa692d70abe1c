--------------------------- MODULE SendLoop_proofs ---------------------------
(***************************************************************************)
(* Proofs about SendLoop, for any finite set of requests, any limits and   *)
(* any durations: its types, its count of attempts, the length of its      *)
(* sleeps, and that it uses the breaker as CircuitHistory!HLooseSpec       *)
(* allows, so that what is proved there of the breaker holds of it here.   *)
(*                                                                         *)
(* TypeOK and AttemptsAccounted need each other - an attempt stays below   *)
(* MaxAttempts because the retry decision compared it, and the calls of    *)
(* the backend stay below it because they follow the attempts - and both   *)
(* need AttemptsLeft, which remembers that comparison across the backoff.  *)
(* BoundedSleep needs LevelsBounded: the global bucket is never in         *)
(* deficit, and the deficit of the domain bucket is never more than one    *)
(* pause.                                                                  *)
(*                                                                         *)
(* The same is done with TokenBucket and the account of SendLedger: the    *)
(* loop implements it, its theorems become theorems of the loop, and       *)
(* CallsPaid carries the bound on tokens over to the calls of the backend. *)
(***************************************************************************)
EXTENDS SendHistory, SendLedger, Breaker_proofs, FiniteSetTheorems

AttemptsLeft ==
    \A r \in Requests :
        /\ pc[r] = "idle" => attempt[r] = 0
        /\ pc[r] # "idle" => attempt[r] >= 1
        /\ pc[r] = "backoff" => attempt[r] < MaxAttempts

IInv == TypeOK /\ AttemptsAccounted /\ AttemptsLeft

\* No bucket is further in deficit than one pause puts it.
LevelsBounded ==
    /\ global.level >= 0
    /\ \E s \in DomainPauses \cup {0} : domain.level >= -s

(***************************************************************************)
(* The waits of the retry policy and the two buckets.                      *)
(***************************************************************************)
\* Every wait of the policy is a natural number that neither the floor nor the cap
\* falls short of (retry.py:162).
LEMMA WaitTimesLemma ==
    ASSUME NEW n, NEW s \in WaitTimes(n)
    PROVE  s \in Nat /\ (s <= MinWait \/ s <= MaxWait)
<1>1. PICK t \in 0 .. MaxWait : s = IF t < MinWait THEN MinWait ELSE t
  BY DEF WaitTimes, RawWaits
<1> QED BY <1>1, BackoffAssumption

\* Every pause of the domain bucket is a natural number.
LEMMA DomainPausesLemma ==
    ASSUME NEW s \in DomainPauses
    PROVE  s \in Nat
  BY SendAssumption, WaitTimesLemma DEF DomainPauses

\* Every operation on the global bucket keeps it a bucket.
LEMMA GlobalLemma ==
    ASSUME NEW b \in Global!BucketType
    PROVE  /\ Global!Acquired(b) \in Global!BucketType
           /\ Global!Refilled(b) \in Global!BucketType
           /\ Global!WaitFor(b) \in Nat
  BY SendAssumption
  DEF Global!BucketType, Global!Acquired, Global!Refilled, Global!WaitFor,
      Global!NotBelow, Global!UpTo

\* Every operation on the domain bucket keeps it a bucket (ratelimit.py:65-102).
LEMMA DomainLemma ==
    ASSUME NEW b \in Domain!BucketType
    PROVE  /\ Domain!Acquired(b) \in Domain!BucketType
           /\ Domain!Refilled(b) \in Domain!BucketType
           /\ Domain!Drained(b) \in Domain!BucketType
           /\ \A s \in DomainPauses : Domain!Paused(b, s) \in Domain!BucketType
           /\ Domain!WaitFor(b) \in Nat
  BY SendAssumption, DomainPausesLemma
  DEF Domain!BucketType, Domain!Acquired, Domain!Refilled, Domain!Drained,
      Domain!Paused, Domain!WaitFor, Domain!NotBelow, Domain!UpTo

\* Backpressure empties the domain bucket, pauses it, or leaves it alone
\* (ratelimit.py:193-207).
LEMMA BackpressureCases ==
    ASSUME TypeOK, NEW r \in Requests, NEW a, NEW retried \in BOOLEAN,
           attempt[r] >= 1, Backpressure(r, a, retried)
    PROVE  \/ domain' = domain
           \/ domain' = Domain!Drained(domain)
           \/ \E s \in DomainPauses : domain' = Domain!Paused(domain, s)
<1>1. CASE a = "limited" /\ \E after \in RetryAfters : domain' = Handled429(after)
  <2>1. PICK after \in RetryAfters : domain' = Handled429(after)
    BY <1>1
  <2>2. after \in DomainPauses
    BY DEF DomainPauses
  <2> QED BY <2>1, <2>2 DEF Handled429
<1>2. CASE \E s \in WaitTimes(attempt[r] - 1) : domain' = Domain!Paused(domain, s)
  <2>1. PICK s \in WaitTimes(attempt[r] - 1) : domain' = Domain!Paused(domain, s)
    BY <1>2
  <2>2. attempt[r] - 1 \in 0 .. MaxAttempts
    BY SendAssumption DEF TypeOK
  <2>3. s \in DomainPauses
    BY <2>2 DEF DomainPauses
  <2> QED BY <2>1, <2>3
<1> QED BY <1>1, <1>2 DEF Backpressure

\* Backpressure keeps the domain bucket a bucket (ratelimit.py:193-207).
LEMMA BackpressureLemma ==
    ASSUME TypeOK, NEW r \in Requests, NEW a, NEW retried \in BOOLEAN,
           attempt[r] >= 1, Backpressure(r, a, retried)
    PROVE  domain' \in Domain!BucketType
<1>1. domain \in Domain!BucketType
  BY DEF TypeOK
<1> QED BY <1>1, BackpressureCases, DomainLemma

\* What an answer does to the breaker leaves it a breaker (client.py:494-499).
LEMMA ReportedLemma ==
    ASSUME cb \in BreakerType, NEW a \in Answers
    PROVE  Reported(a) \in BreakerType
<1>1. RecordSuccess(cb) \in BreakerType /\ RecordFailure(cb) \in BreakerType
  BY SuccessLemma, FailureLemma
<1> QED BY <1>1 DEF Reported, Answers, Statuses, Errors

\* The counters of the metrics stay natural numbers.
LEMMA RecordedLemma ==
    ASSUME metrics \in [requests : Nat, errors : Nat, retries : Nat],
           NEW success \in BOOLEAN, NEW n \in Nat
    PROVE  Recorded(success, n) \in [requests : Nat, errors : Nat, retries : Nat]
  BY DEF Recorded

(***************************************************************************)
(* The invariant.                                                          *)
(***************************************************************************)
\* The invariant holds before any request is sent.
LEMMA InitIInv == Init => IInv
<1> SUFFICES ASSUME Init PROVE IInv
  OBVIOUS
<1> USE SendAssumption DEF Init
<1>1. Global!NewBucket \in Global!BucketType /\ Domain!NewBucket \in Domain!BucketType
  BY DEF Global!NewBucket, Global!BucketType, Domain!NewBucket, Domain!BucketType
<1>2. TypeOK
  BY <1>1, NewBreakerLemma DEF TypeOK
<1>3. AttemptsAccounted /\ AttemptsLeft
  BY DEF AttemptsAccounted, AttemptsLeft
<1> QED BY <1>2, <1>3 DEF IInv

\* Every step of a request, and every tick, preserves the invariant.
LEMMA NextIInv == IInv /\ [Next]_vars => IInv'
<1> SUFFICES ASSUME IInv, [Next]_vars PROVE IInv'
  OBVIOUS
<1> USE SendAssumption
<1>t. TypeOK /\ AttemptsAccounted /\ AttemptsLeft
  BY DEF IInv
<1>1. ASSUME NEW r \in Requests, Attempt(r), Admit(r) PROVE IInv'
  <2>1. attempt[r] < MaxAttempts /\ sent[r] = attempt[r]
    BY <1>t, <1>1 DEF Attempt, AttemptsAccounted, AttemptsLeft
  <2>2. cb' \in BreakerType
    BY <1>t, <1>1, AllowLemma DEF Admit, TypeOK
  <2>3. attempt' \in [Requests -> 0 .. MaxAttempts]
    BY <1>t, <1>1, <2>1 DEF Attempt, TypeOK
  <2>4. TypeOK'
    BY <1>t, <1>1, <2>2, <2>3 DEF Attempt, Admit, TypeOK, Suspended
  <2>5. AttemptsAccounted' /\ AttemptsLeft'
    BY <1>t, <1>1, <2>1 DEF Attempt, Admit, TypeOK, AttemptsAccounted, AttemptsLeft
  <2> QED BY <2>4, <2>5 DEF IInv
<1>2. ASSUME NEW r \in Requests, Attempt(r), Reject(r) PROVE IInv'
  <2>1. attempt[r] < MaxAttempts /\ sent[r] = attempt[r] /\ attempt[r] \in Nat
    BY <1>t, <1>2 DEF Attempt, TypeOK, AttemptsAccounted, AttemptsLeft
  <2>2. metrics' \in [requests : Nat, errors : Nat, retries : Nat]
    BY <1>t, <1>2, <2>1, RecordedLemma DEF Reject, TypeOK
  <2>3. attempt' \in [Requests -> 0 .. MaxAttempts]
    BY <1>t, <1>2, <2>1 DEF Attempt, TypeOK
  <2>4. TypeOK'
    BY <1>t, <1>2, <2>2, <2>3 DEF Attempt, Reject, TypeOK, Ended
  <2>5. AttemptsAccounted' /\ AttemptsLeft'
    BY <1>t, <1>2, <2>1 DEF Attempt, Reject, TypeOK, AttemptsAccounted, AttemptsLeft
  <2> QED BY <2>4, <2>5 DEF IInv
<1>3. ASSUME NEW r \in Requests, Acquire(r) PROVE IInv'
  <2>1. /\ global' \in Global!BucketType /\ domain' \in Domain!BucketType
        /\ Domain!NotBelow(Global!WaitFor(global), Domain!WaitFor(domain)) \in Nat
    BY <1>t, <1>3, GlobalLemma, DomainLemma DEF Acquire, TypeOK, Domain!NotBelow
  <2>2. TypeOK'
    BY <1>t, <1>3, <2>1 DEF Acquire, TypeOK, Suspended
  <2>3. AttemptsAccounted' /\ AttemptsLeft'
    BY <1>t, <1>3 DEF Acquire, TypeOK, AttemptsAccounted, AttemptsLeft
  <2> QED BY <2>2, <2>3 DEF IInv
<1>4. ASSUME NEW r \in Requests, Dispatch(r) PROVE IInv'
  <2>1. sent[r] + 1 = attempt[r] /\ attempt[r] \in 0 .. MaxAttempts
    BY <1>t, <1>4 DEF Dispatch, TypeOK, AttemptsAccounted
  <2>2. TypeOK'
    BY <1>t, <1>4, <2>1 DEF Dispatch, TypeOK, Suspended
  <2>3. AttemptsAccounted' /\ AttemptsLeft'
    BY <1>t, <1>4, <2>1 DEF Dispatch, TypeOK, AttemptsAccounted, AttemptsLeft
  <2> QED BY <2>2, <2>3 DEF IInv
<1>5. ASSUME NEW r \in Requests, NEW a \in Answers, Finish(r, a) PROVE IInv'
  <2>1. sent[r] = attempt[r] /\ attempt[r] - 1 \in Nat
    BY <1>t, <1>5 DEF Finish, Answered, TypeOK, AttemptsAccounted, AttemptsLeft
  <2>2. cb' \in BreakerType
    BY <1>t, <1>5, ReportedLemma DEF Finish, Answered, TypeOK
  <2>a. attempt[r] >= 1 /\ Backpressure(r, a, FALSE)
    BY <1>t, <1>5 DEF Finish, Answered, AttemptsLeft
  <2>3. domain' \in Domain!BucketType
    BY <1>t, <2>a, BackpressureLemma
  <2>4. metrics' \in [requests : Nat, errors : Nat, retries : Nat]
    BY <1>t, <1>5, <2>1, RecordedLemma DEF Finish, TypeOK
  <2>5. TypeOK'
    BY <1>t, <1>5, <2>2, <2>3, <2>4 DEF Finish, Answered, TypeOK, Ended
  <2>6. a # "circuit_open"
    BY <1>5 DEF Answers, Statuses, Errors
  <2>7. AttemptsAccounted' /\ AttemptsLeft'
    BY <1>t, <1>5, <2>1, <2>6 DEF Finish, Answered, TypeOK, AttemptsAccounted, AttemptsLeft
  <2> QED BY <2>5, <2>7 DEF IInv
<1>6. ASSUME NEW r \in Requests, NEW a \in Answers, Retry(r, a) PROVE IInv'
  <2>1. sent[r] = attempt[r] /\ attempt[r] < MaxAttempts
    BY <1>t, <1>6 DEF Retry, Answered, ShouldRetry, AttemptsAccounted
  <2>2. cb' \in BreakerType
    BY <1>t, <1>6, ReportedLemma DEF Retry, Answered, TypeOK
  <2>a. attempt[r] >= 1 /\ Backpressure(r, a, TRUE)
    BY <1>t, <1>6 DEF Retry, Answered, AttemptsLeft
  <2>3. domain' \in Domain!BucketType
    BY <1>t, <2>a, BackpressureLemma
  <2>b. PICK s \in WaitTimes(attempt[r] - 1) : wait' = [wait EXCEPT ![r] = s]
    BY <1>6 DEF Retry
  <2>c. wait' \in [Requests -> Nat]
    BY <1>t, <2>b, WaitTimesLemma DEF TypeOK
  <2>4. TypeOK'
    BY <1>t, <1>6, <2>2, <2>3, <2>c DEF Retry, Answered, TypeOK, Suspended
  <2>5. AttemptsAccounted' /\ AttemptsLeft'
    BY <1>t, <1>6, <2>1 DEF Retry, Answered, TypeOK, AttemptsAccounted, AttemptsLeft
  <2> QED BY <2>4, <2>5 DEF IInv
<1>7. ASSUME NEW r \in Requests, Raise(r) PROVE IInv'
  <2>1. sent[r] = attempt[r] /\ attempt[r] - 1 \in Nat
    BY <1>t, <1>7 DEF Raise, Answered, TypeOK, AttemptsAccounted, AttemptsLeft
  <2>2. cb' \in BreakerType
    BY <1>t, <1>7, ReportedLemma DEF Raise, Answered, TypeOK, Answers, Statuses
  <2>3. metrics' \in [requests : Nat, errors : Nat, retries : Nat]
    BY <1>t, <1>7, <2>1, RecordedLemma DEF Raise, TypeOK
  <2>4. TypeOK'
    BY <1>t, <1>7, <2>2, <2>3 DEF Raise, Answered, TypeOK, Ended, Answers, Statuses
  <2>5. AttemptsAccounted' /\ AttemptsLeft'
    BY <1>t, <1>7, <2>1 DEF Raise, Answered, TypeOK, AttemptsAccounted, AttemptsLeft
  <2> QED BY <2>4, <2>5 DEF IInv
<1>8. ASSUME NEW r \in Requests, Cancel(r) PROVE IInv'
  <2>1. attempt[r] >= 1
    BY <1>t, <1>8 DEF Cancel, Suspended, AttemptsLeft
  <2>2. TypeOK'
    BY <1>t, <1>8 DEF Cancel, TypeOK, Ended
  <2>3. AttemptsAccounted' /\ AttemptsLeft'
    BY <1>t, <1>8, <2>1 DEF Cancel, TypeOK, AttemptsAccounted, AttemptsLeft
  <2> QED BY <2>2, <2>3 DEF IInv
<1>9. CASE Tick
  <2>1. /\ cb' \in BreakerType
        /\ global' \in Global!BucketType /\ domain' \in Domain!BucketType
    BY <1>t, <1>9, AgedLemma, GlobalLemma, DomainLemma DEF Tick, TypeOK
  <2>2. wait' \in [Requests -> Nat]
    BY <1>t, <1>9 DEF Tick, TypeOK, Domain!NotBelow
  <2>3. TypeOK'
    BY <1>t, <1>9, <2>1, <2>2 DEF Tick, TypeOK
  <2>4. AttemptsAccounted' /\ AttemptsLeft'
    BY <1>t, <1>9 DEF Tick, AttemptsAccounted, AttemptsLeft
  <2> QED BY <2>3, <2>4 DEF IInv
<1>10. CASE Elsewhere
  <2>1. global' \in Global!BucketType
    BY <1>t, <1>10, GlobalLemma DEF Elsewhere, TypeOK
  <2> QED
    BY <1>t, <1>10, <2>1 DEF Elsewhere, IInv, TypeOK, AttemptsAccounted, AttemptsLeft
<1>11. CASE UNCHANGED vars
  BY <1>t, <1>11 DEF IInv, vars, TypeOK, AttemptsAccounted, AttemptsLeft
<1> QED
  BY <1>1, <1>2, <1>3, <1>4, <1>5, <1>6, <1>7, <1>8, <1>9, <1>10, <1>11
  DEF Next, Respond, Attempt

\* IInv is an invariant of the send loop.
THEOREM Invariance == Spec => []IInv
  BY InitIInv, NextIInv, PTL DEF Spec

\* Types, for every instance: neither an attempt nor the calls of the backend
\* exceed MaxAttempts (retry.py:111-112).
THEOREM TypeCorrect == Spec => []TypeOK
  BY Invariance, PTL DEF IInv

\* Attempts and calls of the backend agree, but for the attempt that has not
\* reached the backend or never will (client.py:461-486).
THEOREM Accounted == Spec => []AttemptsAccounted
  BY Invariance, PTL DEF IInv

(***************************************************************************)
(* No sleep is longer than one token and one pause.                        *)
(***************************************************************************)
\* No operation deepens a deficit, but for a pause, which starts it anew.
LEMMA LevelsStep == IInv /\ LevelsBounded /\ [Next]_vars => LevelsBounded'
<1> SUFFICES ASSUME IInv, LevelsBounded, [Next]_vars PROVE LevelsBounded'
  OBVIOUS
<1> USE SendAssumption
<1>t. TypeOK /\ AttemptsLeft
  BY DEF IInv
<1>g. /\ global.level \in Int /\ global.level >= 0
      /\ domain.level \in Int /\ domain.unsynced \in Nat
  BY <1>t DEF LevelsBounded, TypeOK, Global!BucketType, Domain!BucketType
<1>p. PICK s \in DomainPauses \cup {0} : domain.level >= -s
  BY DEF LevelsBounded
<1>n. s \in Nat
  BY DomainPausesLemma
<1>1. /\ Global!Acquired(global).level >= 0
      /\ Global!Refilled(global).level >= 0
  BY <1>g DEF Global!Acquired, Global!Refilled, Global!NotBelow, Global!UpTo
<1>2. /\ Domain!Acquired(domain).level >= 0
      /\ Domain!Drained(domain).level >= 0
      /\ Domain!Refilled(domain).level >= -s
  <2>1. Domain!Drained(domain).level = domain.unsynced
    BY <1>t DEF Domain!Drained, TypeOK, Domain!BucketType
  <2> QED
    BY <2>1, <1>g, <1>p, <1>n
    DEF Domain!Acquired, Domain!Refilled, Domain!NotBelow, Domain!UpTo
<1>3. global' = global \/ global' = Global!Acquired(global) \/ global' = Global!Refilled(global)
  BY DEF Next, Attempt, Acquire, Dispatch, Respond, Raise, Finish, Retry, Answered,
         Cancel, Elsewhere, Tick, vars
<1>4. global'.level >= 0
  BY <1>1, <1>3, <1>g
<1> DEFINE AfterAnswer(d) == \/ d = domain
                              \/ d = Domain!Drained(domain)
                              \/ \E p \in DomainPauses : d = Domain!Paused(domain, p)
<1>5. \/ AfterAnswer(domain')
      \/ domain' = Domain!Acquired(domain)
      \/ domain' = Domain!Refilled(domain)
  <2>1. ASSUME NEW r \in Requests, NEW a \in Answers, NEW retried \in BOOLEAN,
               Answered(r, a), Backpressure(r, a, retried)
        PROVE  AfterAnswer(domain')
    <3>1. attempt[r] >= 1
      BY <1>t, <2>1 DEF Answered, AttemptsLeft
    <3> QED BY <1>t, <2>1, <3>1, BackpressureCases
  <2>2. ASSUME NEW r \in Requests, Respond(r)
        PROVE  AfterAnswer(domain')
    BY <2>1, <2>2 DEF Respond, Raise, Finish, Retry
  <2> QED
    BY <2>2 DEF Next, Attempt, Acquire, Dispatch, Cancel, Elsewhere, Tick, vars
<1>6. \E p \in DomainPauses \cup {0} : domain'.level >= -p
  <2>1. CASE domain' = domain \/ domain' = Domain!Refilled(domain)
    BY <2>1, <1>2, <1>p
  <2>2. CASE domain' = Domain!Acquired(domain) \/ domain' = Domain!Drained(domain)
    BY <2>2, <1>2
  <2>3. ASSUME NEW p \in DomainPauses, domain' = Domain!Paused(domain, p)
        PROVE  domain'.level >= -p
    BY <2>3, DomainPausesLemma DEF Domain!Paused
  <2> QED BY <1>5, <2>1, <2>2, <2>3
<1> QED BY <1>4, <1>6 DEF LevelsBounded

\* The sleep of an acquire is bounded by the levels of the buckets.
LEMMA AcquireBound ==
    ASSUME TypeOK, LevelsBounded
    PROVE  LET w == Domain!NotBelow(Global!WaitFor(global), Domain!WaitFor(domain))
           IN  w <= GlobalCost \/ \E s \in DomainPauses \cup {0} : w <= DomainCost + s
<1>1. PICK s \in DomainPauses \cup {0} : domain.level >= -s
  BY DEF LevelsBounded
<1>2. s \in Nat
  BY DomainPausesLemma
<1>3. global.level \in Int /\ domain.level \in Int /\ global.level >= 0
  BY DEF TypeOK, LevelsBounded, Global!BucketType, Domain!BucketType
<1>4. Global!WaitFor(global) \in Nat /\ Global!WaitFor(global) <= GlobalCost
  BY <1>3, SendAssumption DEF Global!WaitFor, Global!NotBelow
<1>5. Domain!WaitFor(domain) \in Nat /\ Domain!WaitFor(domain) <= DomainCost + s
  BY <1>1, <1>2, <1>3, SendAssumption DEF Domain!WaitFor, Domain!NotBelow
<1> QED BY <1>4, <1>5 DEF Domain!NotBelow

\* A sleep starts within its bound and only gets shorter.
LEMMA SleepStep == IInv /\ LevelsBounded /\ BoundedSleep /\ [Next]_vars => BoundedSleep'
<1> SUFFICES ASSUME IInv, LevelsBounded, BoundedSleep, [Next]_vars,
                    NEW q \in Requests
             PROVE  /\ pc'[q] = "waiting" =>
                         \/ wait'[q] <= GlobalCost
                         \/ \E s \in DomainPauses \cup {0} : wait'[q] <= DomainCost + s
                    /\ pc'[q] = "backoff" => wait'[q] <= MinWait \/ wait'[q] <= MaxWait
  BY DEF BoundedSleep
<1>t. TypeOK
  BY DEF IInv
<1>w. pc \in [Requests -> {"idle"} \cup Suspended \cup Ended] /\ wait \in [Requests -> Nat]
  BY <1>t DEF TypeOK
<1>1. ASSUME NEW r \in Requests, Acquire(r), r = q
      PROVE  /\ pc'[q] = "waiting"
             /\ \/ wait'[q] <= GlobalCost
                \/ \E s \in DomainPauses \cup {0} : wait'[q] <= DomainCost + s
  <2>1. wait'[q] = Domain!NotBelow(Global!WaitFor(global), Domain!WaitFor(domain))
    BY <1>w, <1>1 DEF Acquire
  <2>2. pc'[q] = "waiting"
    BY <1>w, <1>1 DEF Acquire
  <2> QED BY <1>t, <2>1, <2>2, AcquireBound
<1>2. ASSUME NEW r \in Requests, NEW a \in Answers, Retry(r, a), r = q
      PROVE  pc'[q] = "backoff" /\ (wait'[q] <= MinWait \/ wait'[q] <= MaxWait)
  <2>1. PICK s \in WaitTimes(attempt[r] - 1) : wait' = [wait EXCEPT ![r] = s]
    BY <1>2 DEF Retry
  <2>2. wait'[q] = s /\ pc'[q] = "backoff"
    BY <1>w, <1>2, <2>1 DEF Retry
  <2> QED BY <2>2, WaitTimesLemma
<1>3. CASE pc'[q] \notin {"waiting", "backoff"}
  BY <1>3
<1>4. CASE pc'[q] = pc[q] /\ wait'[q] = wait[q]
  BY <1>4 DEF BoundedSleep
<1>5. CASE Tick
  <2>1. pc' = pc /\ wait'[q] \in Nat /\ wait'[q] <= wait[q]
    BY <1>w, <1>5 DEF Tick, Domain!NotBelow
  <2>2. CASE pc[q] = "waiting"
    <3>1. CASE wait[q] <= GlobalCost
      BY <1>w, <2>1, <2>2, <3>1, SendAssumption
    <3>2. ASSUME NEW s \in DomainPauses \cup {0}, wait[q] <= DomainCost + s
          PROVE  wait'[q] <= DomainCost + s
      BY <1>w, <2>1, <3>2, SendAssumption, DomainPausesLemma
    <3> QED BY <2>1, <2>2, <3>1, <3>2 DEF BoundedSleep
  <2>3. CASE pc[q] = "backoff"
    BY <1>w, <2>1, <2>3, BackoffAssumption DEF BoundedSleep
  <2> QED BY <2>1, <2>2, <2>3
<1>6. ASSUME NEW r \in Requests,
             Attempt(r) \/ Acquire(r) \/ Dispatch(r) \/ Respond(r) \/ Cancel(r)
      PROVE  \/ pc'[q] = pc[q] /\ wait'[q] = wait[q]
             \/ pc'[q] \notin {"waiting", "backoff"}
             \/ r = q /\ Acquire(r)
             \/ r = q /\ \E a \in Answers : Retry(r, a)
  <2>1. CASE r # q
    BY <1>w, <1>6, <2>1 DEF Attempt, Admit, Reject, Acquire, Dispatch, Respond, Raise,
                            Finish, Retry, Answered, Cancel
  <2>2. CASE r = q
    BY <1>w, <1>6, <2>2 DEF Attempt, Admit, Reject, Dispatch, Respond, Raise, Finish,
                            Answered, Cancel
  <2> QED BY <2>1, <2>2
<1>7. CASE Elsewhere \/ UNCHANGED vars
  BY <1>4, <1>7 DEF Elsewhere, vars
<1> QED BY <1>1, <1>2, <1>3, <1>4, <1>5, <1>6, <1>7 DEF Next

\* No sleep, in the limiter or in the backoff, is longer than one token and one
\* pause, or than the policy's waits, whatever the other requests do
\* (ratelimit.py:166-181, retry.py:137-162).
THEOREM SleepBounded == Spec => []BoundedSleep
<1>1. Init => LevelsBounded /\ BoundedSleep
  BY SendAssumption
  DEF Init, LevelsBounded, BoundedSleep, Global!NewBucket, Domain!NewBucket
<1> QED BY <1>1, LevelsStep, SleepStep, Invariance, PTL DEF Spec

(***************************************************************************)
(* The counters of the metrics.                                            *)
(***************************************************************************)
\* What is counted is finite.
LEMMA CountedFinite ==
    /\ IsFiniteSet(Counted)
    /\ IsFiniteSet({r \in Counted : answer[r] # "ok"})
    /\ IsFiniteSet(CountedRetries)
<1>1. IsFiniteSet(Counted)
  BY SendAssumption, FS_Subset DEF Counted
<1>2. IsFiniteSet({r \in Counted : answer[r] # "ok"})
  BY <1>1, FS_Subset
<1>3. IsFiniteSet(Counted \X (1 .. MaxAttempts))
  <2>1. IsFiniteSet(1 .. MaxAttempts)
    BY SendAssumption, FS_Interval
  <2> QED BY <1>1, <2>1, FS_Product, Zenon
<1>4. IsFiniteSet(CountedRetries)
  BY <1>3, FS_Subset DEF CountedRetries
<1> QED BY <1>1, <1>2, <1>4

\* metrics.record for a request that is counted for the first time
\* (metrics.py:158-166).
LEMMA CountedOnce ==
    ASSUME MetricsExact,
           NEW r \in Requests, r \notin Counted, Counted' = Counted \cup {r},
           \A q \in Counted : attempt'[q] = attempt[q] /\ answer'[q] = answer[q],
           attempt'[r] \in 1 .. MaxAttempts,
           metrics' = Recorded(answer'[r] = "ok", attempt'[r] - 1)
    PROVE  MetricsExact'
<1> DEFINE Failed == {q \in Counted : answer[q] # "ok"}
<1>f. IsFiniteSet(Counted) /\ IsFiniteSet(Failed) /\ IsFiniteSet(CountedRetries)
  BY CountedFinite
<1>m. /\ metrics'.requests = metrics.requests + 1
      /\ metrics'.errors = metrics.errors + (IF answer'[r] = "ok" THEN 0 ELSE 1)
      /\ metrics'.retries = metrics.retries + (attempt'[r] - 1)
  BY DEF Recorded
<1>1. metrics'.requests = Cardinality(Counted')
  <2>1. Cardinality(Counted \cup {r}) = Cardinality(Counted) + 1
    BY <1>f, FS_AddElement
  <2> QED BY <2>1, <1>m DEF MetricsExact
<1>2. metrics'.errors = Cardinality({q \in Counted : answer[q] # "ok"}')
  <2>1. CASE answer'[r] = "ok"
    <3>1. {q \in Counted : answer[q] # "ok"}' = Failed
      BY <2>1
    <3>2. Cardinality(Failed) \in Nat
      BY <1>f, FS_CardinalityType
    <3>3. metrics.errors = Cardinality(Failed)
      BY DEF MetricsExact
    <3> HIDE DEF Failed
    <3>4. metrics'.errors = metrics.errors + 0
      BY <2>1, <1>m
    <3>5. metrics'.errors = Cardinality(Failed)
      BY <3>2, <3>3, <3>4
    <3> QED BY <3>1, <3>5, Zenon
  <2>2. CASE answer'[r] # "ok"
    <3>1. {q \in Counted : answer[q] # "ok"}' = Failed \cup {r} /\ r \notin Failed
      BY <2>2
    <3>2. Cardinality(Failed \cup {r}) = Cardinality(Failed) + 1
      BY <3>1, <1>f, FS_AddElement
    <3>3. metrics.errors = Cardinality(Failed)
      BY DEF MetricsExact
    <3> HIDE DEF Failed
    <3> QED BY <3>1, <3>2, <3>3, <2>2, <1>m
  <2> QED BY <2>1, <2>2
<1>3. metrics'.retries = Cardinality(CountedRetries')
  <2>1. PICK k \in Nat : k = attempt'[r] - 1
    BY SendAssumption
  <2>2. IsFiniteSet(1 .. k) /\ Cardinality(1 .. k) = IF 1 > k THEN 0 ELSE k - 1 + 1
    BY FS_Interval
  <2>3. IsFiniteSet({r}) /\ Cardinality({r}) = 1
    BY FS_Singleton
  <2>4. IsFiniteSet({r} \X (1 .. k))
    BY <2>2, <2>3, FS_Product
  <2>5. Cardinality({r} \X (1 .. k)) = Cardinality({r}) * Cardinality(1 .. k)
    BY <2>2, <2>3, FS_Product
  <2>6. Cardinality({r} \X (1 .. k)) = k
    BY <2>2, <2>3, <2>5
  <2>7. CountedRetries' = CountedRetries \cup ({r} \X (1 .. k))
    BY <2>1, SendAssumption DEF CountedRetries
  <2>8. CountedRetries \cap ({r} \X (1 .. k)) = {}
    BY DEF CountedRetries
  <2>9. Cardinality(CountedRetries \cup ({r} \X (1 .. k)))
          = Cardinality(CountedRetries) + Cardinality({r} \X (1 .. k))
            - Cardinality(CountedRetries \cap ({r} \X (1 .. k)))
    BY <1>f, <2>4, FS_Union
  <2>10. Cardinality(CountedRetries') = Cardinality(CountedRetries) + k - 0
    <3>1. Cardinality({}) = 0
      BY FS_EmptySet
    <3> QED BY <2>6, <2>7, <2>8, <2>9, <3>1, Zenon
  <2>11. Cardinality(CountedRetries) \in Nat
    BY <1>f, FS_CardinalityType
  <2> QED BY <2>1, <2>10, <2>11, <1>m DEF MetricsExact
<1> QED BY <1>1, <1>2, <1>3 DEF MetricsExact

\* A step that records nothing counts nobody.
LEMMA CountedStill ==
    ASSUME MetricsExact, Counted' = Counted, metrics' = metrics,
           \A q \in Counted : attempt'[q] = attempt[q] /\ answer'[q] = answer[q]
    PROVE  MetricsExact'
<1>1. {r \in Counted : answer[r] # "ok"}' = {r \in Counted : answer[r] # "ok"}
  OBVIOUS
<1>2. CountedRetries' = CountedRetries
  BY DEF CountedRetries
<1> QED BY <1>1, <1>2 DEF MetricsExact

\* Only a request that is counted is recorded, and only once.
LEMMA CountsStep == IInv /\ MetricsExact /\ [Next]_vars => MetricsExact'
<1> SUFFICES ASSUME IInv, MetricsExact, [Next]_vars PROVE MetricsExact'
  OBVIOUS
<1> USE SendAssumption
<1>t. TypeOK /\ AttemptsLeft
  BY DEF IInv
<1>1. ASSUME NEW r \in Requests, Attempt(r), Admit(r) PROVE MetricsExact'
  <2>1. Counted' = Counted /\ r \notin Counted
    BY <1>t, <1>1 DEF Attempt, Admit, Counted, TypeOK
  <2> QED BY <1>t, <1>1, <2>1, CountedStill DEF Attempt, Admit, Counted, TypeOK
<1>2. ASSUME NEW r \in Requests, Attempt(r), Reject(r) PROVE MetricsExact'
  <2>1. Counted' = Counted \cup {r} /\ r \notin Counted
    BY <1>t, <1>2 DEF Attempt, Reject, Counted, TypeOK
  <2>2. attempt[r] \in Nat /\ attempt[r] < MaxAttempts
    BY <1>t, <1>2 DEF Attempt, AttemptsLeft, TypeOK
  <2>3. attempt'[r] = attempt[r] + 1 /\ answer'[r] = "circuit_open"
    BY <1>t, <1>2 DEF Attempt, Reject, TypeOK
  <2>4. metrics' = Recorded(answer'[r] = "ok", attempt'[r] - 1)
    BY <1>2, <2>2, <2>3 DEF Reject, Recorded
  <2>5. \A q \in Counted : attempt'[q] = attempt[q] /\ answer'[q] = answer[q]
    BY <1>t, <1>2, <2>1 DEF Attempt, Reject, Counted, TypeOK
  <2> QED BY <2>1, <2>2, <2>3, <2>4, <2>5, CountedOnce
<1>3. ASSUME NEW r \in Requests, Acquire(r) \/ Dispatch(r) \/ Cancel(r) PROVE MetricsExact'
  <2>1. Counted' = Counted
    BY <1>t, <1>3 DEF Acquire, Dispatch, Cancel, Suspended, Counted, TypeOK
  <2> QED BY <1>3, <2>1, CountedStill DEF Acquire, Dispatch, Cancel
<1>4. ASSUME NEW r \in Requests, NEW a \in Answers, Finish(r, a) PROVE MetricsExact'
  <2>1. Counted' = Counted \cup {r} /\ r \notin Counted
    BY <1>t, <1>4 DEF Finish, Answered, Counted, TypeOK
  <2>2. attempt[r] \in 1 .. MaxAttempts
    BY <1>t, <1>4 DEF Finish, Answered, AttemptsLeft, TypeOK
  <2>3. attempt' = attempt /\ answer'[r] = a
    BY <1>t, <1>4 DEF Finish, Answered, TypeOK
  <2>4. metrics' = Recorded(answer'[r] = "ok", attempt'[r] - 1)
    BY <1>4, <2>3 DEF Finish
  <2>5. \A q \in Counted : answer'[q] = answer[q]
    BY <1>t, <1>4, <2>1 DEF Finish, Answered, Counted, TypeOK
  <2> QED BY <2>1, <2>2, <2>3, <2>4, <2>5, CountedOnce
<1>5. ASSUME NEW r \in Requests, NEW a \in Answers, Retry(r, a) PROVE MetricsExact'
  <2>1. Counted' = Counted /\ r \notin Counted
    BY <1>t, <1>5 DEF Retry, Answered, Counted, TypeOK
  <2>2. \A q \in Counted : answer'[q] = answer[q]
    BY <1>t, <1>5, <2>1 DEF Retry, Answered, Counted, TypeOK
  <2> QED BY <1>5, <2>1, <2>2, CountedStill DEF Retry, Answered
<1>6. ASSUME NEW r \in Requests, Raise(r) PROVE MetricsExact'
  <2>1. /\ r \notin Counted /\ attempt[r] \in 1 .. MaxAttempts
        /\ attempt' = attempt /\ answer'[r] = "limited"
    BY <1>t, <1>6 DEF Raise, Answered, Counted, AttemptsLeft, TypeOK
  <2>2. \A q \in Counted : answer'[q] = answer[q]
    BY <1>t, <1>6, <2>1 DEF Raise, Answered, Counted, TypeOK
  <2>3. CASE ShouldRetry(r, "limited")
    <3>1. attempt[r] < MaxAttempts /\ metrics' = metrics
      BY <1>6, <2>3 DEF Raise, ShouldRetry
    <3>2. Counted' = Counted
      BY <1>t, <1>6, <2>1, <3>1 DEF Raise, Answered, Counted, TypeOK
    <3> QED BY <2>1, <2>2, <3>1, <3>2, CountedStill
  <2>4. CASE ~ShouldRetry(r, "limited")
    <3>1. attempt[r] = MaxAttempts
      BY <2>1, <2>4 DEF ShouldRetry, Retryable
    <3>2. Counted' = Counted \cup {r}
      BY <1>t, <1>6, <2>1, <3>1 DEF Raise, Answered, Counted, TypeOK
    <3>3. metrics' = Recorded(answer'[r] = "ok", attempt'[r] - 1)
      BY <1>6, <2>1, <2>4 DEF Raise, Recorded
    <3> QED BY <2>1, <2>2, <3>2, <3>3, CountedOnce
  <2> QED BY <2>3, <2>4
<1>7. CASE Elsewhere \/ Tick \/ UNCHANGED vars
  <2>1. /\ pc' = pc /\ attempt' = attempt /\ answer' = answer /\ metrics' = metrics
    BY <1>7 DEF Elsewhere, Tick, vars
  <2> QED BY <2>1, CountedStill DEF Counted
<1> QED
  BY <1>1, <1>2, <1>3, <1>4, <1>5, <1>6, <1>7 DEF Next, Respond, Attempt

\* The metrics count every request that returns once, as an error unless it was
\* answered 2xx, with its retries, and never a cancelled one (client.py:475, 511).
THEOREM MetricsCounted == Spec => []MetricsExact
<1>1. ASSUME Init PROVE MetricsExact
  <2>1. Counted = {}
    BY <1>1 DEF Init, Counted
  <2>2. {r \in Counted : answer[r] # "ok"} = {} /\ CountedRetries = {}
    BY <2>1 DEF CountedRetries
  <2> QED BY <1>1, <2>1, <2>2, FS_EmptySet DEF Init, MetricsExact
<1> QED BY <1>1, CountsStep, Invariance, PTL DEF Spec

(***************************************************************************)
(* The send loop implements CircuitHistory!HLooseSpec.                     *)
(***************************************************************************)
\* The breaker of the send loop is the breaker of CircuitHistory.
LEMMA SameBreaker ==
    ASSUME NEW b
    PROVE  /\ Circuit!CanAllow(b) <=> CanAllow(b)
           /\ Circuit!AdmitsProbe(b) <=> AdmitsProbe(b)
           /\ Circuit!AllowRequest(b) = AllowRequest(b)
           /\ Circuit!RecordSuccess(b) = RecordSuccess(b)
           /\ Circuit!RecordFailure(b) = RecordFailure(b)
           /\ Circuit!Aged(b) = Aged(b)
<1>1. Circuit!CanAllow(b) <=> CanAllow(b)
  BY DEF Circuit!CanAllow, CanAllow, Circuit!CooledDown, CooledDown
<1>2. Circuit!AdmitsProbe(b) <=> AdmitsProbe(b)
  BY DEF Circuit!AdmitsProbe, AdmitsProbe
<1>3. Circuit!AllowRequest(b) = AllowRequest(b)
  BY DEF Circuit!AllowRequest, AllowRequest
<1>4. Circuit!RecordSuccess(b) = RecordSuccess(b)
  BY DEF Circuit!RecordSuccess, RecordSuccess, Circuit!CountSuccess, CountSuccess,
         Circuit!TransitionToClosed, TransitionToClosed
<1>5. Circuit!RecordFailure(b) = RecordFailure(b)
  BY DEF Circuit!RecordFailure, RecordFailure, Circuit!CountFailure, CountFailure,
         Circuit!TransitionToOpen, TransitionToOpen
<1>6. Circuit!Aged(b) = Aged(b)
  BY DEF Circuit!Aged, Aged, Circuit!CooledDown, CooledDown
<1> QED BY <1>1, <1>2, <1>3, <1>4, <1>5, <1>6

\* The record is kept beside the loop: what holds of the loop holds with it.
LEMMA HistoryLemma == (HInit => Init) /\ ([HNext]_hvars => [Next]_vars)
  BY DEF HInit, HNext, HRespond, Next, Respond, hvars

\* The invariant holds of the loop with its record.
LEMMA HistoryInvariance == HSpec => []IInv
<1>1. HSpec => [][HNext]_hvars /\ HInit
  BY PTL DEF HSpec
<1>2. Init /\ [][Next]_vars => []IInv
  BY InitIInv, NextIInv, PTL
<1> QED BY <1>1, <1>2, HistoryLemma, PTL

\* The first state of the loop is the first state of a breaker nobody has called.
LEMMA InitRefines == HInit => Circuit!HInit
  BY DEF HInit, Init, Circuit!HInit, Circuit!Init, NewBreaker, Circuit!NewBreaker

\* An answer is one report for the admission of this attempt, or none at all, and the
\* record keeps it for what it is.
LEMMA AnswerRefines ==
    ASSUME IInv, NEW r \in Requests, NEW a \in Answers, Answered(r, a), hist' = Noted(a)
    PROVE  Circuit!HNext \/ Circuit!HAbandon(r)
<1>1. /\ role[r] # "idle" /\ pc[r] = "flying"
      /\ role' = [role EXCEPT ![r] = "idle"]
      /\ cb' = Reported(a)
  BY DEF IInv, AttemptsAccounted, Answered
<1>2. r \in Circuit!Outstanding
  BY <1>1 DEF Circuit!Outstanding
<1>3. CASE a = "ok"
  <2>1. cb' = RecordSuccess(cb) /\ hist' = Circuit!AfterSuccess(hist)
    BY <1>1, <1>3 DEF Reported, Noted, Errors, Statuses
  <2>2. Circuit!HSucceed(r)
    BY <1>1, <1>2, <2>1, SameBreaker DEF Circuit!HSucceed, Circuit!Succeed
  <2> QED BY <2>2 DEF Circuit!HNext, Circuit!HReport
<1>4. CASE a \in Errors
  <2>1. cb' = RecordFailure(cb) /\ hist' = Circuit!AfterFailure(hist)
    BY <1>1, <1>4 DEF Reported, Noted, Errors, Statuses
  <2>2. Circuit!HFail(r)
    BY <1>1, <1>2, <2>1, SameBreaker DEF Circuit!HFail, Circuit!Fail
  <2> QED BY <2>2 DEF Circuit!HNext, Circuit!HReport
<1>5. CASE a \in Statuses \ {"ok"}
  <2>1. cb' = cb /\ hist' = hist
    BY <1>1, <1>5 DEF Reported, Noted, Errors, Statuses
  <2>2. Circuit!HAbandon(r)
    BY <1>1, <1>2, <2>1 DEF Circuit!HAbandon, Circuit!Abandon
  <2> QED BY <2>2
<1> QED BY <1>3, <1>4, <1>5 DEF Answers

\* Every step of the loop is a step of the breaker's callers, or none of theirs.
LEMMA NextRefines == IInv /\ [HNext]_hvars => [Circuit!HLooseNext]_(Circuit!hvars)
<1> SUFFICES ASSUME IInv, [HNext]_hvars
             PROVE  \/ Circuit!HNext
                    \/ \E c \in Requests : Circuit!HAbandon(c)
                    \/ UNCHANGED <<cb, role, hist>>
  BY DEF Circuit!HLooseNext, Circuit!hvars
<1>t. /\ role \in [Requests -> {"idle", "plain", "probe"}]
      /\ \A r \in Requests : role[r] # "idle" <=> pc[r] \in {"acquiring", "waiting", "flying"}
  BY DEF IInv, TypeOK, AttemptsAccounted
<1>1. ASSUME NEW r \in Requests, Attempt(r), Admit(r), UNCHANGED hist PROVE Circuit!HNext
  <2>1. role[r] = "idle"
    BY <1>t, <1>1 DEF Attempt
  <2>2. Circuit!HAdmit(r)
    BY <1>1, <2>1, SameBreaker DEF Admit, Circuit!HAdmit, Circuit!Admit
  <2> QED BY <2>2 DEF Circuit!HNext
<1>2. ASSUME NEW r \in Requests, Reject(r) PROVE UNCHANGED <<cb, role>>
  BY <1>2 DEF Reject
<1>3. ASSUME NEW r \in Requests, Acquire(r) \/ Dispatch(r) PROVE UNCHANGED <<cb, role>>
  BY <1>3 DEF Acquire, Dispatch
<1>4. ASSUME NEW r \in Requests, HRespond(r)
      PROVE  Circuit!HNext \/ \E c \in Requests : Circuit!HAbandon(c)
  <2>1. PICK a \in Answers : Answered(r, a) /\ hist' = Noted(a)
    BY <1>4 DEF HRespond, Raise, Finish, Retry, Answers, Statuses
  <2> QED BY <2>1, AnswerRefines
<1>5. ASSUME NEW r \in Requests, Cancel(r), UNCHANGED hist
      PROVE  UNCHANGED <<cb, role>> \/ Circuit!HAbandon(r)
  <2>1. cb' = cb /\ role' = [role EXCEPT ![r] = "idle"]
    BY <1>5 DEF Cancel
  <2>2. CASE role[r] = "idle"
    <3>1. role' = role
      BY <1>t, <2>1, <2>2
    <3> QED BY <2>1, <3>1
  <2>3. CASE role[r] # "idle"
    <3>1. r \in Circuit!Outstanding
      BY <2>3 DEF Circuit!Outstanding
    <3>2. Circuit!HAbandon(r)
      BY <1>5, <2>1, <3>1 DEF Circuit!HAbandon, Circuit!Abandon
    <3> QED BY <3>2
  <2> QED BY <2>2, <2>3
<1>6. CASE Tick /\ hist' = Circuit!AfterTick(hist)
  <2>1. Circuit!HTick
    BY <1>6, SameBreaker DEF Tick, Circuit!HTick, Circuit!Tick
  <2> QED BY <2>1 DEF Circuit!HNext
<1>7. CASE Elsewhere /\ UNCHANGED hist
  BY <1>7 DEF Elsewhere
<1>8. CASE UNCHANGED hvars
  BY <1>8 DEF hvars, vars
<1> QED BY <1>1, <1>2, <1>3, <1>4, <1>5, <1>6, <1>7, <1>8 DEF HNext, Attempt

\* The send loop uses the breaker as CircuitHistory allows: every admission is
\* followed by one report or by none, nobody else reports, and the record of the reports
\* is that of the answers (client.py:463-499).
THEOREM Refinement == HSpec => CircuitRefined
<1>1. HSpec => [][HNext]_hvars /\ HInit
  BY PTL DEF HSpec
<1> QED BY <1>1, HistoryInvariance, InitRefines, NextRefines, PTL
        DEF CircuitRefined, Circuit!HLooseSpec

(***************************************************************************)
(* What the breaker guarantees of any callers it guarantees of the loop:   *)
(* the theorems of CircuitHistory_proofs, about the requests.              *)
(***************************************************************************)
Guarantee == INSTANCE CircuitHistory_proofs WITH Callers <- Requests, caller <- role

\* CircuitHistory_proofs speaks of the specification that the loop implements.
LEMMA SameInit == Circuit!HInit <=> Guarantee!HInit
  BY DEF Circuit!HInit, Guarantee!HInit, Circuit!Init, Guarantee!Init,
         Circuit!NewBreaker, Guarantee!NewBreaker, Circuit!NoReports, Guarantee!NoReports

\* reset() is the same in both.
LEMMA SameReset == Circuit!HReset <=> Guarantee!HReset
  BY DEF Circuit!HReset, Guarantee!HReset, Circuit!Reset, Guarantee!Reset,
         Circuit!ResetBreaker, Guarantee!ResetBreaker,
         Circuit!NewBreaker, Guarantee!NewBreaker,
         Circuit!TransitionToClosed, Guarantee!TransitionToClosed

\* So are all the other steps.
LEMMA SameNext == [Circuit!HLooseNext]_(Circuit!hvars) <=> [Guarantee!HLooseNext]_(Guarantee!hvars)
<1>1. ASSUME NEW c \in Requests
      PROVE  /\ Circuit!HAdmit(c) <=> Guarantee!HAdmit(c)
             /\ Circuit!HAbandon(c) <=> Guarantee!HAbandon(c)
  BY DEF Circuit!HAdmit, Guarantee!HAdmit, Circuit!Admit, Guarantee!Admit,
         Circuit!AllowRequest, Guarantee!AllowRequest, Circuit!CanAllow, Guarantee!CanAllow,
         Circuit!CooledDown, Guarantee!CooledDown, Circuit!AdmitsProbe, Guarantee!AdmitsProbe,
         Circuit!HAbandon, Guarantee!HAbandon, Circuit!Abandon, Guarantee!Abandon,
         Circuit!Outstanding, Guarantee!Outstanding
<1>2. ASSUME NEW c \in Requests
      PROVE  Circuit!HSucceed(c) <=> Guarantee!HSucceed(c)
  BY DEF Circuit!HSucceed, Guarantee!HSucceed, Circuit!Succeed, Guarantee!Succeed,
         Circuit!RecordSuccess, Guarantee!RecordSuccess,
         Circuit!CountSuccess, Guarantee!CountSuccess,
         Circuit!TransitionToClosed, Guarantee!TransitionToClosed,
         Circuit!AfterSuccess, Guarantee!AfterSuccess, Circuit!AtMost, Guarantee!AtMost,
         Circuit!Outstanding, Guarantee!Outstanding
<1>3. ASSUME NEW c \in Requests
      PROVE  Circuit!HFail(c) <=> Guarantee!HFail(c)
  BY DEF Circuit!HFail, Guarantee!HFail, Circuit!Fail, Guarantee!Fail,
         Circuit!RecordFailure, Guarantee!RecordFailure,
         Circuit!CountFailure, Guarantee!CountFailure,
         Circuit!TransitionToOpen, Guarantee!TransitionToOpen,
         Circuit!AfterFailure, Guarantee!AfterFailure, Circuit!AtMost, Guarantee!AtMost,
         Circuit!Outstanding, Guarantee!Outstanding
<1>4. Circuit!HTick <=> Guarantee!HTick
  BY DEF Circuit!HTick, Guarantee!HTick, Circuit!Tick, Guarantee!Tick,
         Circuit!Aged, Guarantee!Aged, Circuit!CooledDown, Guarantee!CooledDown,
         Circuit!AfterTick, Guarantee!AfterTick, Circuit!AtMost, Guarantee!AtMost
<1>5. Circuit!HLooseNext <=> Guarantee!HLooseNext
  BY <1>1, <1>2, <1>3, <1>4, SameReset
  DEF Circuit!HLooseNext, Guarantee!HLooseNext, Circuit!HNext, Guarantee!HNext,
      Circuit!HReport, Guarantee!HReport
<1>6. Circuit!hvars = Guarantee!hvars /\ (Circuit!hvars)' = (Guarantee!hvars)'
  BY DEF Circuit!hvars, Guarantee!hvars
<1> QED BY <1>5, <1>6

\* The loop implements the specification that CircuitHistory_proofs is about.
THEOREM Guaranteed == HSpec => Guarantee!HLooseSpec
<1> QED BY Refinement, SameInit, SameNext, PTL
        DEF CircuitRefined, Circuit!HLooseSpec, Guarantee!HLooseSpec

\* The counters of a domain's breaker never run ahead of the reports of the requests
\* to it, nor its cool-down ahead of the time since the last failure (circuit.py:56-61).
THEOREM CircuitBacked == HSpec => []Circuit!CountersBacked
<1>1. Guarantee!HLooseSpec => []Guarantee!LooseInv
  BY ThresholdAssumption, Guarantee!LooseInvariance
<1>2. Guarantee!LooseInv => Circuit!CountersBacked
  BY DEF Guarantee!LooseInv, Guarantee!CountersBacked, Circuit!CountersBacked
<1> QED BY <1>1, <1>2, Guaranteed, PTL

\* The breaker of a domain opens only after FailureThreshold failures reported in a row
\* by the requests to it, however their attempts, retries and cancellations interleave
\* (circuit.py:123-126, client.py:488-499).
THEOREM CircuitTrips == HSpec => Circuit!TripsOnConsecutive
<1>1. Guarantee!HLooseSpec => Guarantee!TripsOnConsecutive
  BY ThresholdAssumption, Guarantee!LooseTrips
<1>2. Guarantee!TripsOnConsecutive => Circuit!TripsOnConsecutive
  BY PTL DEF Guarantee!TripsOnConsecutive, Circuit!TripsOnConsecutive,
             Guarantee!hvars, Circuit!hvars
<1> QED BY <1>1, <1>2, Guaranteed, PTL

\* Nothing in the loop resets the breaker: what closes it is the answer of a request.
LEMMA NoReset ==
    IInv /\ [HNext]_hvars /\ cb.state # "CLOSED" /\ cb'.state = "CLOSED" => ~Circuit!HReset
<1> SUFFICES ASSUME IInv, [HNext]_hvars, cb.state # "CLOSED", cb'.state = "CLOSED",
                    Circuit!HReset
             PROVE  FALSE
  OBVIOUS
<1>1. role' = role
  BY DEF Circuit!HReset, Circuit!Reset
<1>2. cb' # cb
  OBVIOUS
<1>3. ASSUME NEW r \in Requests, Attempt(r) PROVE FALSE
  <2>1. CASE Admit(r)
    BY <2>1, AllowLemma DEF Admit, IInv, TypeOK
  <2>2. CASE Reject(r)
    BY <2>2, <1>2 DEF Reject
  <2> QED BY <1>3, <2>1, <2>2 DEF Attempt
<1>4. ASSUME NEW r \in Requests, Acquire(r) \/ Dispatch(r) \/ Cancel(r) PROVE FALSE
  BY <1>4, <1>2 DEF Acquire, Dispatch, Cancel
<1>5. ASSUME NEW r \in Requests, HRespond(r) PROVE FALSE
  <2>1. PICK a \in Answers : Answered(r, a)
    BY <1>5 DEF HRespond, Raise, Finish, Retry, Answers, Statuses
  <2>2. role[r] # "idle" /\ role'[r] = "idle"
    BY <2>1 DEF Answered, IInv, AttemptsAccounted, TypeOK
  <2> QED BY <1>1, <2>2
<1>6. CASE Elsewhere \/ UNCHANGED hvars
  BY <1>6, <1>2 DEF Elsewhere, hvars, vars
<1>7. CASE Tick
  <2>1. cb'.state = cb.state
    BY <1>7, AgedLemma DEF Tick, IInv, TypeOK
  <2> QED BY <2>1
<1> QED BY <1>3, <1>4, <1>5, <1>6, <1>7 DEF HNext

\* It closes only after SuccessThreshold successes of requests to it in a row, those of
\* requests from before it opened included (circuit.py:105-119, client.py:475).
THEOREM CircuitCloses ==
    HSpec => [][cb.state # "CLOSED" /\ cb'.state = "CLOSED" =>
                   hist'.ok = SuccessThreshold]_hvars
<1> DEFINE P == cb.state # "CLOSED" /\ cb'.state = "CLOSED" => hist'.ok = SuccessThreshold
           Q == cb.state # "CLOSED" /\ cb'.state = "CLOSED" =>
                   Circuit!HReset \/ hist'.ok = SuccessThreshold
<1>1. Guarantee!HLooseSpec => Guarantee!ClosesOnConsecutive
  BY ThresholdAssumption, Guarantee!LooseCloses
<1>2. Guarantee!ClosesOnConsecutive => [][Q]_(Circuit!hvars)
  BY SameReset, PTL DEF Guarantee!ClosesOnConsecutive, Guarantee!hvars, Circuit!hvars
<1>3. IInv /\ [HNext]_hvars /\ [Q]_(Circuit!hvars) => [P]_hvars
  <2>1. UNCHANGED Circuit!hvars => P
    BY DEF Circuit!hvars
  <2> QED BY <2>1, NoReset
<1>4. HSpec => []IInv
  BY HistoryInvariance
<1>5. HSpec => [][HNext]_hvars
  BY PTL DEF HSpec
<1>6. HSpec => [][P]_hvars
  <2> HIDE DEF P, Q
  <2> QED BY <1>1, <1>2, <1>3, <1>4, <1>5, Guaranteed, PTL
<1> QED BY <1>6

\* Once open it lets no request through until RecoveryTimeout has passed since the last
\* failure reported, the late ones of retried attempts included (circuit.py:85, 129-131).
THEOREM CircuitCooldown == HSpec => Circuit!CooldownRespected
<1>1. Guarantee!HLooseSpec => Guarantee!CooldownRespected
  BY ThresholdAssumption, Guarantee!LooseCooldown
<1>2. Guarantee!CooldownRespected => Circuit!CooldownRespected
  BY PTL DEF Guarantee!CooldownRespected, Circuit!CooldownRespected,
             Guarantee!hvars, Circuit!hvars
<1> QED BY <1>1, <1>2, Guaranteed, PTL

(***************************************************************************)
(* The send loop implements TokenBucket.                                   *)
(***************************************************************************)
\* The bucket of the domain is the bucket of TokenBucket.
LEMMA SameBucket ==
    ASSUME NEW b
    PROVE  /\ Limiter!WaitFor(b) = Domain!WaitFor(b)
           /\ Limiter!Acquired(b) = Domain!Acquired(b)
           /\ Limiter!Drained(b) = Domain!Drained(b)
           /\ Limiter!Refilled(b) = Domain!Refilled(b)
           /\ \A s : Limiter!Paused(b, s) = Domain!Paused(b, s)
           /\ \A m, n : Limiter!NotBelow(m, n) = Domain!NotBelow(m, n)
  BY DEF Limiter!WaitFor, Domain!WaitFor, Limiter!Acquired, Domain!Acquired,
         Limiter!Drained, Domain!Drained, Limiter!Refilled, Domain!Refilled,
         Limiter!UpTo, Domain!UpTo, Limiter!Paused, Domain!Paused,
         Limiter!NotBelow, Domain!NotBelow

\* So are its counts.
LEMMA SameCount == ASSUME NEW S PROVE Limiter!Cardinality(S) = Cardinality(S)
  BY DEF Limiter!Cardinality, Cardinality

\* Only a request in its limiter sleep naps, or one that was cancelled there, and it
\* does not go ahead before its nap is over.
NapInv ==
    /\ nap \in [Requests -> Nat \cup {-1}]
    /\ \A r \in Requests :
          /\ nap[r] # -1 => pc[r] \in {"waiting", "cancelled"}
          /\ pc[r] = "waiting" => nap[r] <= wait[r]

\* The account is kept beside the loop: what holds of the loop holds with it.
LEMMA LedgerLemma == (LInit => Init) /\ ([LNext]_lvars => [Next]_vars)
  BY DEF LInit, LNext, LAcquire, LDispatch, LRespond, LTick, Next, Respond, lvars

\* Every step of the loop preserves it.
LEMMA NapStep == IInv /\ IInv' /\ NapInv /\ [LNext]_lvars => NapInv'
<1> SUFFICES ASSUME IInv, IInv', NapInv, [LNext]_lvars PROVE NapInv'
  OBVIOUS
<1>t. /\ pc \in [Requests -> {"idle"} \cup Suspended \cup Ended]
      /\ wait \in [Requests -> Nat] /\ wait' \in [Requests -> Nat]
      /\ domain \in Domain!BucketType /\ global \in Global!BucketType
  BY DEF IInv, TypeOK
<1>n. /\ nap \in [Requests -> Nat \cup {-1}]
      /\ \A r \in Requests : /\ nap[r] # -1 => pc[r] \in {"waiting", "cancelled"}
                             /\ pc[r] = "waiting" => nap[r] <= wait[r]
  BY DEF NapInv
<1>1. ASSUME NEW r \in Requests, Attempt(r), nap' = nap PROVE NapInv'
  <2>1. /\ pc[r] \in {"idle", "backoff"} /\ wait' = wait
        /\ pc' = [pc EXCEPT ![r] = "acquiring"] \/ pc' = [pc EXCEPT ![r] = "done"]
    BY <1>1 DEF Attempt, Admit, Reject
  <2> QED BY <1>1, <1>t, <1>n, <2>1 DEF NapInv
<1>2. ASSUME NEW r \in Requests, LAcquire(r) PROVE NapInv'
  <2> DEFINE w == Domain!WaitFor(domain)
             g == Global!WaitFor(global)
  <2>1. w \in Nat /\ g \in Nat
    BY <1>t, DomainLemma, GlobalLemma
  <2>2. /\ nap' = [nap EXCEPT ![r] = IF w > 0 THEN w ELSE -1]
        /\ pc' = [pc EXCEPT ![r] = "waiting"]
        /\ wait' = [wait EXCEPT ![r] = Domain!NotBelow(g, w)]
    BY <1>2 DEF LAcquire, Acquire, Limiter!Awake
  <2> HIDE DEF w, g
  <2> QED BY <1>t, <1>n, <2>1, <2>2 DEF NapInv, Domain!NotBelow
<1>3. ASSUME NEW r \in Requests, LDispatch(r) PROVE NapInv'
  <2>1. /\ nap' = [nap EXCEPT ![r] = -1]
        /\ pc' = [pc EXCEPT ![r] = "flying"] /\ wait' = wait
    BY <1>3 DEF LDispatch, Dispatch, Limiter!Awake
  <2> QED BY <1>t, <1>n, <2>1 DEF NapInv
<1>4. ASSUME NEW r \in Requests, LRespond(r) PROVE NapInv'
  <2>1. /\ nap' = nap /\ pc[r] = "flying"
        /\ \A q \in Requests \ {r} : pc'[q] = pc[q] /\ wait'[q] = wait[q]
        /\ pc'[r] \in {"done", "backoff", "raised"}
    BY <1>4, <1>t DEF LRespond, Raise, Finish, Retry, Answered
  <2> QED BY <1>t, <1>n, <2>1 DEF NapInv
<1>5. ASSUME NEW r \in Requests, Cancel(r), nap' = nap PROVE NapInv'
  <2>1. /\ pc' = [pc EXCEPT ![r] = "cancelled"]
        /\ wait' = [wait EXCEPT ![r] = 0]
    BY <1>5 DEF Cancel
  <2> QED BY <1>5, <1>t, <1>n, <2>1 DEF NapInv
<1>6. CASE LTick
  <2>1. /\ pc' = pc
        /\ nap' = [r \in Requests |-> IF nap[r] > 0 THEN nap[r] - 1 ELSE nap[r]]
        /\ wait' = [r \in Requests |-> Domain!NotBelow(0, wait[r] - 1)]
    BY <1>6 DEF LTick, Tick
  <2>2. nap' \in [Requests -> Nat \cup {-1}]
    BY <1>n, <2>1
  <2>3. ASSUME NEW r \in Requests
        PROVE  /\ nap'[r] # -1 => nap[r] # -1
               /\ nap[r] <= wait[r] => nap'[r] <= wait'[r]
    BY <1>t, <1>n, <2>1 DEF Domain!NotBelow
  <2> QED BY <1>n, <2>1, <2>2, <2>3 DEF NapInv
<1>7. CASE (Elsewhere /\ UNCHANGED <<nap, ledger>>) \/ UNCHANGED lvars
  <2>1. nap' = nap /\ pc' = pc /\ wait' = wait
    BY <1>7 DEF Elsewhere, lvars, vars
  <2> QED BY <1>n, <2>1 DEF NapInv
<1> QED BY <1>1, <1>2, <1>3, <1>4, <1>5, <1>6, <1>7 DEF LNext

\* The first state of the loop is a full bucket that nobody has taken from.
LEMMA LedgerInit == LInit => Limiter!Init /\ NapInv
  BY DEF LInit, Init, Limiter!Init, Domain!NewBucket, Limiter!NewBucket, NapInv,
         Limiter!Awake

\* An answer pauses or drains the bucket, or leaves it alone, and the account says so.
LEMMA EnteredLemma ==
    ASSUME IInv, NEW r \in Requests, NEW a \in Answers, pc[r] = "flying",
           Finish(r, a) \/ Retry(r, a), Entered(r, a), nap' = nap
    PROVE  \/ Limiter!Drain
           \/ \E s \in DomainPauses : Limiter!Pause(s)
           \/ UNCHANGED <<domain, nap, ledger>>
<1>1. ASSUME NEW s \in DomainPauses, Pausing(s)
      PROVE  Limiter!Pause(s)
  BY <1>1, SameBucket DEF Pausing, Limiter!Pause
<1>2. CASE Draining
  BY <1>2, SameBucket DEF Draining, Limiter!Drain
<1>3. CASE a = "limited" /\ \E after \in RetryAfters : IF after > 0 THEN Pausing(after) ELSE Draining
  <2>1. PICK after \in RetryAfters : Pausing(after) \/ Draining
    BY <1>3
  <2>2. after \in DomainPauses
    BY DEF DomainPauses
  <2> QED BY <1>1, <1>2, <2>1, <2>2
<1>4. CASE \E s \in WaitTimes(attempt[r] - 1) : Pausing(s)
  <2>1. PICK s \in WaitTimes(attempt[r] - 1) : Pausing(s)
    BY <1>4
  <2>2. attempt[r] - 1 \in 0 .. MaxAttempts
    <3>1. attempt[r] \in 0 .. MaxAttempts /\ attempt[r] >= 1
      BY DEF IInv, TypeOK, AttemptsLeft
    <3> QED BY <3>1, SendAssumption
  <2>3. s \in DomainPauses
    BY <2>2 DEF DomainPauses
  <2> QED BY <1>1, <2>1, <2>3
<1>5. CASE a # "limited" /\ ~(a = "unavailable" /\ ShouldRetry(r, a)) /\ UNCHANGED ledger
  <2>1. Backpressure(r, a, FALSE) \/ (ShouldRetry(r, a) /\ Backpressure(r, a, TRUE))
    BY DEF Finish, Retry
  <2>2. domain' = domain
    BY <1>5, <2>1 DEF Backpressure
  <2> QED BY <1>5, <2>2
<1> QED BY <1>3, <1>4, <1>5 DEF Entered

\* Every step of the loop is a step of the bucket's tasks, or none of theirs.
LEMMA LedgerNext == IInv /\ NapInv /\ [LNext]_lvars => [Limiter!Next]_(Limiter!vars)
<1> SUFFICES ASSUME IInv, NapInv, [LNext]_lvars
             PROVE  Limiter!Next \/ UNCHANGED <<domain, nap, ledger>>
  BY DEF Limiter!vars
<1>n. /\ nap \in [Requests -> Nat \cup {-1}]
      /\ \A r \in Requests : /\ nap[r] # -1 => pc[r] \in {"waiting", "cancelled"}
                             /\ pc[r] = "waiting" => nap[r] <= wait[r]
  BY DEF NapInv
<1>1. ASSUME NEW r \in Requests, Attempt(r) \/ Cancel(r), UNCHANGED <<nap, ledger>>
      PROVE  UNCHANGED <<domain, nap, ledger>>
  BY <1>1 DEF Attempt, Cancel
<1>2. ASSUME NEW r \in Requests, LAcquire(r) PROVE Limiter!Next
  <2>1. nap[r] = -1
    BY <1>2, <1>n DEF LAcquire, Acquire
  <2>2. Limiter!Acquire(r)
    BY <1>2, <2>1
    DEF LAcquire, Acquire, Limiter!Acquire, Limiter!Awake, Limiter!Acquired, Domain!Acquired,
        Limiter!WaitFor, Domain!WaitFor, Limiter!NotBelow, Domain!NotBelow
  <2> QED BY <2>2 DEF Limiter!Next
<1>3. ASSUME NEW r \in Requests, LDispatch(r)
      PROVE  Limiter!Next \/ UNCHANGED <<domain, nap, ledger>>
  <2>1. /\ nap' = [nap EXCEPT ![r] = -1] /\ UNCHANGED <<domain, ledger>>
        /\ pc[r] = "waiting" /\ wait[r] = 0
    BY <1>3 DEF LDispatch, Dispatch, Limiter!Awake
  <2>2. nap[r] = 0 \/ nap[r] = -1
    BY <1>n, <2>1
  <2>3. CASE nap[r] = 0
    <3>1. Limiter!Wake(r)
      BY <2>1, <2>3 DEF Limiter!Wake, Limiter!Awake
    <3> QED BY <3>1 DEF Limiter!Next
  <2>4. CASE nap[r] = -1
    <3>1. nap' = nap
      BY <1>n, <2>1, <2>4
    <3> QED BY <2>1, <3>1
  <2> QED BY <2>2, <2>3, <2>4
<1>4. ASSUME NEW r \in Requests, LRespond(r)
      PROVE  Limiter!Next \/ UNCHANGED <<domain, nap, ledger>>
  <2>1. CASE Raise(r) /\ UNCHANGED ledger
    BY <1>4, <2>1 DEF LRespond, Raise
  <2>2. CASE \E a \in Answers : (Finish(r, a) \/ Retry(r, a)) /\ Entered(r, a)
    <3>1. PICK a \in Answers : (Finish(r, a) \/ Retry(r, a)) /\ Entered(r, a)
      BY <2>2
    <3>2. pc[r] = "flying" /\ nap' = nap
      BY <1>4, <3>1 DEF LRespond, Finish, Retry, Answered
    <3> QED BY <3>1, <3>2, EnteredLemma DEF Limiter!Next
  <2> QED BY <1>4, <2>1, <2>2 DEF LRespond
<1>5. CASE LTick
  <2>1. Limiter!Tick
    BY <1>5, SameCount
    DEF LTick, Tick, Limiter!Tick, Limiter!Refilled, Domain!Refilled,
        Limiter!UpTo, Domain!UpTo, Limiter!NotBelow, Domain!NotBelow
  <2> QED BY <2>1 DEF Limiter!Next
<1>6. CASE (Elsewhere /\ UNCHANGED <<nap, ledger>>) \/ UNCHANGED lvars
  BY <1>6 DEF Elsewhere, lvars, vars
<1> QED BY <1>1, <1>2, <1>3, <1>4, <1>5, <1>6 DEF LNext

\* Both invariants hold of the loop with its account.
LEMMA LedgerInvariance == LSpec => [](IInv /\ NapInv)
<1>1. LSpec => [][LNext]_lvars /\ LInit
  BY PTL DEF LSpec
<1>2. Init /\ [][Next]_vars => []IInv
  BY InitIInv, NextIInv, PTL
<1> QED BY <1>1, <1>2, LedgerLemma, LedgerInit, NapStep, PTL

\* Whoever has to wait for a token of the domain sleeps his time before he goes ahead,
\* nobody else takes from the bucket, and pauses and drains are those of the answers
\* (client.py:464, 491-497, 549-555).
THEOREM LimiterRefinement == LSpec => LimiterRefined
<1>1. LSpec => [][LNext]_lvars /\ LInit
  BY PTL DEF LSpec
<1> QED BY <1>1, LedgerInvariance, LedgerInit, LedgerNext, PTL
        DEF LimiterRefined, Limiter!Spec

(***************************************************************************)
(* What the bucket guarantees of any tasks it guarantees of the loop.      *)
(***************************************************************************)
Paid == INSTANCE TokenBucket_proofs
          WITH Cost <- DomainCost, Pauses <- DomainPauses, Tasks <- Requests,
               bucket <- domain, sleep <- nap, hist <- ledger

\* What TokenBucket assumes of a bucket and its tasks is so of the domain and its requests.
LEMMA PaidAssumptions ==
    /\ DomainCost \in Nat \ {0} /\ Burst \in Nat \ {0} /\ DomainPauses \subseteq Nat
    /\ Paid!IsFiniteSet(Requests)
<1>1. DomainPauses \subseteq Nat
  BY DomainPausesLemma
<1>2. Paid!IsFiniteSet(Requests) <=> IsFiniteSet(Requests)
  BY DEF Paid!IsFiniteSet, IsFiniteSet
<1> QED BY <1>1, <1>2, SendAssumption

\* TokenBucket_proofs counts as FiniteSets does.
LEMMA SameCountPaid == ASSUME NEW S PROVE Paid!Cardinality(S) = Cardinality(S)
  BY DEF Paid!Cardinality, Cardinality

\* TokenBucket_proofs speaks of the specification that the loop implements.
LEMMA SameLimiterNext ==
    [Limiter!Next]_(Limiter!vars) <=> [Paid!Next]_(Paid!vars)
<1>1. ASSUME NEW r \in Requests
      PROVE  /\ Limiter!Acquire(r) <=> Paid!Acquire(r)
             /\ Limiter!Wake(r) <=> Paid!Wake(r)
  BY DEF Limiter!Acquire, Paid!Acquire, Limiter!Acquired, Paid!Acquired,
         Limiter!WaitFor, Paid!WaitFor, Limiter!NotBelow, Paid!NotBelow,
         Limiter!Awake, Paid!Awake, Limiter!Wake, Paid!Wake
<1>2. ASSUME NEW s \in DomainPauses
      PROVE  Limiter!Pause(s) <=> Paid!Pause(s)
  BY DEF Limiter!Pause, Paid!Pause, Limiter!Paused, Paid!Paused
<1>3. Limiter!Drain <=> Paid!Drain
  BY DEF Limiter!Drain, Paid!Drain, Limiter!Drained, Paid!Drained
<1>4. Limiter!Tick <=> Paid!Tick
  <2>1. Limiter!Cardinality(Limiter!Waiting) = Paid!Cardinality(Paid!Waiting)
    BY SameCount, SameCountPaid DEF Limiter!Waiting, Paid!Waiting
  <2> QED
    BY <2>1
    DEF Limiter!Tick, Paid!Tick, Limiter!Refilled, Paid!Refilled, Limiter!UpTo, Paid!UpTo,
        Limiter!NotBelow, Paid!NotBelow
<1>5. Limiter!Next <=> Paid!Next
  BY <1>1, <1>2, <1>3, <1>4 DEF Limiter!Next, Paid!Next
<1> QED BY <1>5 DEF Limiter!vars, Paid!vars

\* The loop implements the specification that TokenBucket_proofs is about.
THEOREM PaidFor == LSpec => Paid!Spec
<1>1. Limiter!Init <=> Paid!Init
  BY DEF Limiter!Init, Paid!Init, Limiter!NewBucket, Paid!NewBucket, Limiter!Awake, Paid!Awake
<1> QED BY <1>1, LimiterRefinement, SameLimiterNext, PTL
        DEF LimiterRefined, Limiter!Spec, Paid!Spec

(***************************************************************************)
(* The calls of the backend.                                               *)
(***************************************************************************)
\* The requests whose token is taken and whose call is not made: those in their limiter
\* sleep, and those that were cancelled in it.
Charged == {r \in Requests : pc[r] = "waiting" \/ nap[r] # -1}

\* Every call was paid for with a token, and so was every one still to be made.
CallsPaid == DomainCost * (Cardinality(Calls) + Cardinality(Charged)) <= ledger.spent

\* Both are finite.
LEMMA CallsFinite ==
    /\ IsFiniteSet(Calls) /\ Cardinality(Calls) \in Nat
    /\ IsFiniteSet(Charged) /\ Cardinality(Charged) \in Nat
<1>1. IsFiniteSet(1 .. MaxAttempts)
  BY SendAssumption, FS_Interval
<1>2. IsFiniteSet(Requests \X (1 .. MaxAttempts))
  BY <1>1, SendAssumption, FS_Product, Zenon
<1>3. Calls \in SUBSET (Requests \X (1 .. MaxAttempts))
  BY DEF Calls
<1>4. IsFiniteSet(Calls) /\ Cardinality(Calls) \in Nat
  BY <1>2, <1>3, FS_Subset, FS_CardinalityType
<1>5. IsFiniteSet(Charged) /\ Cardinality(Charged) \in Nat
  BY SendAssumption, FS_Subset, FS_CardinalityType DEF Charged
<1> QED BY <1>4, <1>5

\* A step without a call or a token keeps the calls paid.
LEMMA CallsStill ==
    ASSUME CallsPaid, ledger.spent \in Nat, ledger'.spent = ledger.spent,
           sent' = sent, Charged' \in SUBSET Charged
    PROVE  CallsPaid'
<1>1. Calls' = Calls
  BY DEF Calls
<1>2. /\ IsFiniteSet(Charged) /\ Cardinality(Charged) \in Nat /\ Cardinality(Calls) \in Nat
  BY CallsFinite
<1>3. IsFiniteSet(Charged') /\ Cardinality(Charged') <= Cardinality(Charged)
  BY <1>2, FS_Subset
<1>4. Cardinality(Charged') \in Nat
  BY <1>3, FS_CardinalityType
<1> DEFINE m == Cardinality(Calls) + Cardinality(Charged)
           n == Cardinality(Calls) + Cardinality(Charged')
<1>5. m \in Nat /\ n \in Nat /\ n <= m
  BY <1>2, <1>3, <1>4
<1>6. DomainCost * m <= ledger.spent
  BY DEF CallsPaid
<1>7. DomainCost \in Nat
  BY SendAssumption
<1> HIDE DEF m, n
<1>8. DomainCost * n <= DomainCost * m
  <2>1. PICK d \in Nat : m = n + d
    <3>1. m - n \in Nat /\ m = n + (m - n)
      BY <1>5
    <3> QED BY <3>1
  <2>2. DomainCost * m = DomainCost * n + DomainCost * d
    BY <1>5, <1>7, <2>1
  <2>3. DomainCost * d \in Nat /\ DomainCost * n \in Nat
    BY <1>5, <1>7, <2>1
  <2> QED BY <2>2, <2>3
<1>9. DomainCost * n \in Nat /\ DomainCost * m \in Nat
  BY <1>5, <1>7
<1>10. DomainCost * n <= ledger.spent
  BY <1>6, <1>8, <1>9
<1> QED BY <1>1, <1>10 DEF CallsPaid, n

\* Every step of the loop keeps the calls paid: a call is made with a token taken before.
LEMMA CallsStep ==
    IInv /\ IInv' /\ NapInv /\ Paid!TypeOK /\ CallsPaid /\ [LNext]_lvars => CallsPaid'
<1> SUFFICES ASSUME IInv, IInv', NapInv, Paid!TypeOK, CallsPaid, [LNext]_lvars
             PROVE  CallsPaid'
  OBVIOUS
<1>t. /\ pc \in [Requests -> {"idle"} \cup Suspended \cup Ended]
      /\ sent \in [Requests -> 0 .. MaxAttempts] /\ sent' \in [Requests -> 0 .. MaxAttempts]
      /\ nap \in [Requests -> Nat \cup {-1}]
      /\ \A r \in Requests : nap[r] # -1 => pc[r] \in {"waiting", "cancelled"}
  BY DEF IInv, TypeOK, NapInv
<1>l. /\ ledger \in [now : Nat, spent : Nat, borrowed : Nat, slept : Nat, pause : Int,
                     fresh : BOOLEAN]
      /\ ledger.spent \in Nat
  BY DEF Paid!TypeOK, Paid!HistType
<1>c. /\ IsFiniteSet(Calls) /\ Cardinality(Calls) \in Nat
      /\ IsFiniteSet(Charged) /\ Cardinality(Charged) \in Nat
  BY CallsFinite
<1>d. DomainCost \in Nat
  BY SendAssumption
<1>p. DomainCost * (Cardinality(Calls) + Cardinality(Charged)) <= ledger.spent
  BY DEF CallsPaid
<1>1. ASSUME NEW r \in Requests, Attempt(r), UNCHANGED <<nap, ledger>> PROVE CallsPaid'
  <2>1. /\ pc[r] \in {"idle", "backoff"} /\ sent' = sent
        /\ pc' = [pc EXCEPT ![r] = "acquiring"] \/ pc' = [pc EXCEPT ![r] = "done"]
    BY <1>1 DEF Attempt, Admit, Reject
  <2>2. Charged' \in SUBSET Charged
    BY <1>1, <1>t, <2>1 DEF Charged
  <2> QED BY <1>1, <1>l, <2>1, <2>2, CallsStill
<1>2. ASSUME NEW r \in Requests, LAcquire(r) PROVE CallsPaid'
  <2>1. /\ pc[r] = "acquiring" /\ pc' = [pc EXCEPT ![r] = "waiting"] /\ sent' = sent
        /\ \A q \in Requests \ {r} : nap'[q] = nap[q]
    BY <1>2, <1>t DEF LAcquire, Acquire
  <2>2. ledger'.spent = ledger.spent + DomainCost
    BY <1>2, <1>l DEF LAcquire
  <2>3. Charged' = Charged \cup {r} /\ r \notin Charged
    BY <1>t, <2>1 DEF Charged
  <2>4. Cardinality(Charged') = Cardinality(Charged) + 1
    BY <1>c, <2>3, FS_AddElement
  <2>5. Calls' = Calls
    BY <2>1 DEF Calls
  <2>6. DomainCost * (Cardinality(Calls) + (Cardinality(Charged) + 1))
          = DomainCost * (Cardinality(Calls) + Cardinality(Charged)) + DomainCost
    BY <1>c, <1>d
  <2>7. DomainCost * (Cardinality(Calls) + Cardinality(Charged)) \in Nat
    BY <1>c, <1>d
  <2>8. DomainCost * (Cardinality(Calls) + (Cardinality(Charged) + 1)) <= ledger'.spent
    BY <1>p, <1>l, <1>d, <2>2, <2>6, <2>7
  <2> QED BY <2>4, <2>5, <2>8 DEF CallsPaid
<1>3. ASSUME NEW r \in Requests, LDispatch(r) PROVE CallsPaid'
  <2>1. /\ pc[r] = "waiting" /\ pc' = [pc EXCEPT ![r] = "flying"]
        /\ sent' = [sent EXCEPT ![r] = @ + 1]
        /\ nap' = [nap EXCEPT ![r] = -1] /\ ledger' = ledger
    BY <1>3 DEF LDispatch, Dispatch, Limiter!Awake
  <2>2. Charged' = Charged \ {r} /\ r \in Charged
    BY <1>t, <2>1 DEF Charged
  <2>3. Cardinality(Charged') = Cardinality(Charged) - 1
    BY <1>c, <2>2, FS_RemoveElement
  <2>4. sent[r] + 1 \in 1 .. MaxAttempts
    BY <1>t, <2>1
  <2>5. Calls' = Calls \cup {<<r, sent[r] + 1>>} /\ <<r, sent[r] + 1>> \notin Calls
    BY <1>t, <2>1, <2>4 DEF Calls
  <2>6. Cardinality(Calls') = Cardinality(Calls) + 1
    BY <1>c, <2>5, FS_AddElement
  <2>7. Cardinality(Calls') + Cardinality(Charged') = Cardinality(Calls) + Cardinality(Charged)
    BY <1>c, <2>3, <2>6
  <2> QED BY <1>p, <2>1, <2>7 DEF CallsPaid
<1>4. ASSUME NEW r \in Requests, LRespond(r) PROVE CallsPaid'
  <2>1. /\ nap' = nap /\ sent' = sent /\ pc[r] = "flying"
        /\ \A q \in Requests \ {r} : pc'[q] = pc[q]
        /\ pc'[r] \in {"done", "backoff", "raised"}
    BY <1>4, <1>t DEF LRespond, Raise, Finish, Retry, Answered
  <2>2. Charged' \in SUBSET Charged
    BY <1>t, <2>1 DEF Charged
  <2>3. ledger'.spent = ledger.spent
    BY <1>4, <1>l DEF LRespond, Entered, Pausing, Draining
  <2> QED BY <1>l, <2>1, <2>2, <2>3, CallsStill
<1>5. ASSUME NEW r \in Requests, Cancel(r), UNCHANGED <<nap, ledger>> PROVE CallsPaid'
  <2>1. pc' = [pc EXCEPT ![r] = "cancelled"] /\ sent' = sent
    BY <1>5 DEF Cancel
  <2>2. Charged' \in SUBSET Charged
    BY <1>5, <1>t, <2>1 DEF Charged
  <2> QED BY <1>5, <1>l, <2>1, <2>2, CallsStill
<1>6. CASE LTick
  <2>1. /\ pc' = pc /\ sent' = sent
        /\ nap' = [r \in Requests |-> IF nap[r] > 0 THEN nap[r] - 1 ELSE nap[r]]
    BY <1>6 DEF LTick, Tick
  <2>2. Charged' \in SUBSET Charged
    BY <1>t, <2>1 DEF Charged
  <2>3. ledger'.spent = ledger.spent
    BY <1>6, <1>l DEF LTick
  <2> QED BY <1>l, <2>1, <2>2, <2>3, CallsStill
<1>7. CASE (Elsewhere /\ UNCHANGED <<nap, ledger>>) \/ UNCHANGED lvars
  <2>1. nap' = nap /\ pc' = pc /\ sent' = sent /\ ledger' = ledger
    BY <1>7 DEF Elsewhere, lvars, vars
  <2>2. Charged' \in SUBSET Charged
    BY <2>1 DEF Charged
  <2> QED BY <1>l, <2>1, <2>2, CallsStill
<1> QED BY <1>1, <1>2, <1>3, <1>4, <1>5, <1>6, <1>7 DEF LNext

\* The backend of a domain is called as often as burst and rate allow, and once more for
\* every DomainCost ticks that requests sleep in their limiter, and no more often,
\* whatever is retried, paused or cancelled (ratelimit.py:65-75, client.py:464-467).
THEOREM CallsBounded == LSpec => []CallsWithinRate
<1>1. LInit => CallsPaid
  <2> SUFFICES ASSUME LInit PROVE CallsPaid
    OBVIOUS
  <2>1. Calls = {} /\ Charged = {} /\ ledger.spent = 0
    BY SendAssumption DEF LInit, Init, Calls, Charged, Limiter!Awake
  <2>2. Cardinality({}) = 0
    BY FS_EmptySet
  <2> QED BY <2>1, <2>2, SendAssumption DEF CallsPaid
<1>2. ASSUME Paid!TypeOK, Paid!ThroughputBound, CallsPaid PROVE CallsWithinRate
  <2> DEFINE asleep == {r \in Requests : nap[r] # -1}
  <2>1. /\ ledger.spent \in Nat /\ ledger.now \in Nat /\ ledger.slept \in Nat
    BY <1>2 DEF Paid!TypeOK, Paid!HistType
  <2>2. Paid!Cardinality(Paid!Sleeping) = Cardinality(asleep)
    BY SameCountPaid DEF Paid!Sleeping, Paid!Awake
  <2>3. ledger.spent - DomainCost * Cardinality(asleep) <= Burst + ledger.now + ledger.slept
    BY <1>2, <2>2 DEF Paid!ThroughputBound
  <2>4. IsFiniteSet(Charged) /\ Cardinality(Charged) \in Nat /\ Cardinality(Calls) \in Nat
    BY CallsFinite
  <2>5. asleep \in SUBSET Charged
    BY DEF Charged
  <2>6. IsFiniteSet(asleep) /\ Cardinality(asleep) <= Cardinality(Charged)
    BY <2>4, <2>5, FS_Subset
  <2>7. Cardinality(asleep) \in Nat
    BY <2>6, FS_CardinalityType
  <2> HIDE DEF asleep
  <2>8. DomainCost \in Nat /\ Burst \in Nat
    BY SendAssumption
  <2>9. PICK d \in Nat : Cardinality(Charged) = Cardinality(asleep) + d
    <3>1. /\ Cardinality(Charged) - Cardinality(asleep) \in Nat
          /\ Cardinality(Charged)
               = Cardinality(asleep) + (Cardinality(Charged) - Cardinality(asleep))
      BY <2>4, <2>6, <2>7
    <3> QED BY <3>1
  <2>10. DomainCost * (Cardinality(Calls) + Cardinality(Charged))
           = DomainCost * Cardinality(Calls) + DomainCost * Cardinality(asleep) + DomainCost * d
    BY <2>4, <2>7, <2>8, <2>9
  <2>11. /\ DomainCost * Cardinality(Calls) \in Nat /\ DomainCost * Cardinality(asleep) \in Nat
         /\ DomainCost * d \in Nat
    BY <2>4, <2>7, <2>8
  <2>12. DomainCost * (Cardinality(Calls) + Cardinality(Charged)) <= ledger.spent
    BY <1>2 DEF CallsPaid
  <2> QED BY <2>1, <2>3, <2>8, <2>10, <2>11, <2>12 DEF CallsWithinRate
<1>3. LSpec => [](Paid!TypeOK /\ Paid!ThroughputBound)
  <2>1. Paid!Spec => []Paid!TypeOK
    BY PaidAssumptions, Paid!TypeCorrect
  <2>2. Paid!Spec => []Paid!ThroughputBound
    BY PaidAssumptions, Paid!Throughput
  <2> QED BY <2>1, <2>2, PaidFor, PTL
<1>4. LSpec => [][LNext]_lvars /\ LInit
  BY PTL DEF LSpec
<1> QED BY <1>1, <1>2, <1>3, <1>4, LedgerInvariance, CallsStep, PTL

\* The first request to take a token after an answer has paused the domain sleeps the
\* rest of the pause and for its own token before its call is made (ratelimit.py:92-101).
THEOREM PauseHolds == LSpec => PauseWaitedOut
<1> DEFINE P == \A r \in Requests : Acquire(r) /\ ledger.fresh /\ ledger.pause > 0
                   => wait'[r] >= ledger.pause + DomainCost
<1>1. IInv /\ Paid!IInv => P
  <2> SUFFICES ASSUME IInv, Paid!IInv, NEW r \in Requests,
                      Acquire(r), ledger.fresh, ledger.pause > 0
               PROVE  wait'[r] >= ledger.pause + DomainCost
    OBVIOUS
  <2> DEFINE w == Domain!WaitFor(domain)
             g == Global!WaitFor(global)
  <2>1. domain.level \in Int /\ ledger.pause \in Int /\ domain.level <= -ledger.pause
    BY DEF Paid!IInv, Paid!TypeOK, Paid!BucketType, Paid!HistType, Paid!FreshDebt
  <2>2. w >= ledger.pause + DomainCost /\ w \in Int
    BY <2>1, SendAssumption DEF Domain!WaitFor, Domain!NotBelow
  <2>3. g \in Nat
    BY GlobalLemma DEF IInv, TypeOK
  <2>4. wait' = [wait EXCEPT ![r] = Domain!NotBelow(g, w)] /\ wait \in [Requests -> Nat]
    BY DEF Acquire, IInv, TypeOK
  <2> HIDE DEF w, g
  <2>5. wait'[r] = IF w < g THEN g ELSE w
    BY <2>4 DEF Domain!NotBelow
  <2> QED BY <2>1, <2>2, <2>3, <2>5, SendAssumption
<1>2. LSpec => []Paid!IInv
  <2>1. Paid!Spec => []Paid!IInv
    BY PaidAssumptions, Paid!Invariance
  <2> QED BY <2>1, PaidFor, PTL
<1>3. LSpec => [][P]_lvars
  <2> HIDE DEF P
  <2> QED BY <1>1, <1>2, LedgerInvariance, PTL DEF LSpec
<1> QED BY <1>3 DEF PauseWaitedOut
=============================================================================
