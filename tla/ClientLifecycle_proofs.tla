----------------------- MODULE ClientLifecycle_proofs -----------------------
(***************************************************************************)
(* Proofs about ClientLifecycle, for any batch and any other requests.     *)
(*                                                                         *)
(* That no open session is lost rests on when the pool may say that it is  *)
(* not initialised: before start() and after close() has returned, and     *)
(* both sessions are closed then.  PoolInv follows close() through its     *)
(* waits to show it.                                                       *)
(***************************************************************************)
EXTENDS ClientLifecycle, FiniteSetTheorems, TLAPS

\* A request that may be dispatched has an attempt left.
AttemptsLeft == \A r \in Requests : pc[r] \in {"queued", "paused"} => attempts[r] < MaxAttempts

Untouched == \A r \in Requests : pc[r] = "idle" => attempts[r] = 0

\* Requests are under way only once the client has been started.
Begun == \A r \in Requests : pc[r] \in {"queued", "paused", "sent"} => started

BatchInv ==
    /\ free + Cardinality(Holding) = Concurrency
    /\ batch = "idle" => \A m \in Members : pc[m] = "idle"

PoolInv ==
    /\ ~pool.initialized => pool.open = {}
    /\ pool.initialized => started
    /\ started /\ closer # "closed" => pool.initialized
    /\ closer \in {"stopping", "settling", "finishing", "cancelled"} => started
    /\ closer = "settling" => pool.open \subseteq {<<"httpx", pool.pair>>}
    /\ closer = "finishing" => pool.open = {}

RequestInv == AttemptsLeft /\ Untouched /\ Begun /\ BatchInv

PoolOK == PoolInv /\ NothingOrphaned /\ HandsOutOpen

IInv == TypeOK /\ RequestInv /\ PoolOK

(***************************************************************************)
(* The connection pool.                                                    *)
(***************************************************************************)
\* initialize() leaves a pool that has lost no session, and that has both its
\* sessions unless it was initialised before.
LEMMA InitializedLemma ==
    ASSUME NEW p \in PoolType, ~p.initialized => p.open = {},
           \A s \in p.open : s[2] = p.pair
    PROVE  /\ Initialized(p) \in PoolType
           /\ Initialized(p).initialized
           /\ \A s \in Initialized(p).open : s[2] = Initialized(p).pair
           /\ p.initialized => Initialized(p) = p
           /\ ~p.initialized => \A b \in Backends : Usable(Initialized(p), b)
<1>1. CASE p.initialized
  BY <1>1 DEF Initialized
<1>2. CASE ~p.initialized
  <2> DEFINE n == p.pair + 1
             q == [initialized |-> TRUE, pair |-> n, open |-> Backends \X {n}]
  <2>1. p.open = {} /\ p.pair \in Nat
    BY <1>2 DEF PoolType
  <2>2. p.open \cup (Backends \X {n}) = Backends \X {n}
    BY <2>1
  <2>3. Initialized(p) = q
    BY <1>2, <2>2 DEF Initialized
  <2>4. n \in Nat
    BY <2>1
  <2> HIDE DEF n
  <2>5. Backends \X {n} \subseteq Backends \X Nat
    BY <2>4
  <2>6. q \in PoolType
    BY <2>4, <2>5 DEF PoolType
  <2>7. \A s \in q.open : s[2] = q.pair
    OBVIOUS
  <2>8. \A b \in Backends : Usable(q, b)
    BY DEF Usable
  <2>9. q.initialized
    OBVIOUS
  <2> HIDE DEF q
  <2> QED BY <1>2, <2>3, <2>6, <2>7, <2>8, <2>9
<1> QED BY <1>1, <1>2

\* Closing one of its sessions opens nothing and keeps the rest of the pool.
LEMMA WithoutLemma ==
    ASSUME NEW p \in PoolType, NEW b \in Backends
    PROVE  /\ Without(p, b) \in PoolType
           /\ Without(p, b).initialized = p.initialized
           /\ Without(p, b).pair = p.pair
           /\ Without(p, b).open = p.open \ {<<b, p.pair>>}
  BY DEF Without, PoolType

\* Clearing the flag keeps the rest of the pool.
LEMMA UninitializedLemma ==
    ASSUME NEW p \in PoolType
    PROVE  /\ Uninitialized(p) \in PoolType
           /\ Uninitialized(p).initialized = FALSE
           /\ Uninitialized(p).pair = p.pair
           /\ Uninitialized(p).open = p.open
  BY DEF Uninitialized, PoolType

(***************************************************************************)
(* The semaphore.                                                          *)
(***************************************************************************)
\* The members under way are finitely many.
LEMMA HoldingFinite == IsFiniteSet(Holding) /\ IsFiniteSet(Holding')
<1>1. Holding \subseteq Members /\ Holding' \subseteq Members
  BY DEF Holding
<1> QED BY <1>1, FS_Subset, ClientAssumption

\* A request that ends gives back the slot it has.
LEMMA EndLemma ==
    ASSUME TypeOK, BatchInv, NEW r \in Requests, pc[r] \in {"paused", "sent"}, End(r)
    PROVE  /\ pc' = [pc EXCEPT ![r] = "done"]
           /\ free' \in 0 .. Concurrency
           /\ free' + Cardinality(Holding') = Concurrency
<1>1. /\ pc' = [pc EXCEPT ![r] = "done"]
      /\ pc \in [Requests -> {"idle", "queued", "paused", "sent", "done"}]
  BY DEF End, TypeOK
<1>2. free \in Nat /\ Concurrency \in Nat /\ Cardinality(Holding) \in Nat
  BY HoldingFinite, FS_CardinalityType, ClientAssumption DEF TypeOK
<1>3. CASE r \in Members
  <2>1. r \in Holding /\ Holding' = Holding \ {r}
    BY <1>1, <1>3 DEF Holding, Requests
  <2>2. Cardinality(Holding') = Cardinality(Holding) - 1
    BY <2>1, HoldingFinite, FS_RemoveElement
  <2>3. Cardinality(Holding') \in Nat
    BY HoldingFinite, FS_CardinalityType
  <2>4. free' = free + 1
    BY <1>3 DEF End, Release
  <2> QED BY <1>1, <1>2, <2>2, <2>3, <2>4 DEF BatchInv
<1>4. CASE r \notin Members
  <2>1. Holding' = Holding
    BY <1>1, <1>4 DEF Holding, Requests
  <2>2. free' = free
    BY <1>4 DEF End, Release
  <2> QED BY <1>1, <1>2, <2>1, <2>2 DEF BatchInv, TypeOK
<1> QED BY <1>3, <1>4

\* A request that is tried again keeps its slot.
LEMMA KeepLemma ==
    ASSUME TypeOK, BatchInv, NEW r \in Requests, pc[r] \in {"paused", "sent"},
           NEW s \in {"paused", "sent"}, pc' = [pc EXCEPT ![r] = s], free' = free
    PROVE  /\ free' \in 0 .. Concurrency
           /\ free' + Cardinality(Holding') = Concurrency
<1>1. Holding' = Holding
  BY DEF Holding, Requests, TypeOK
<1> QED BY <1>1 DEF BatchInv, TypeOK

(***************************************************************************)
(* What a step does to the requests, and what it does to the pool.         *)
(***************************************************************************)
\* A request under way is tried again, sent, or ends, after n attempts.
LEMMA StepLemma ==
    ASSUME TypeOK, RequestInv, NEW r \in Requests, pc[r] \in {"paused", "sent"},
           NEW n \in 0 .. MaxAttempts, attempts' = [attempts EXCEPT ![r] = n],
           started' = started, batch' = "idle" => batch = "idle",
           \/ End(r)
           \/ pc' = [pc EXCEPT ![r] = "paused"] /\ n < MaxAttempts /\ free' = free
           \/ pc' = [pc EXCEPT ![r] = "sent"] /\ free' = free
    PROVE  /\ pc' \in [Requests -> {"idle", "queued", "paused", "sent", "done"}]
           /\ attempts' \in [Requests -> 0 .. MaxAttempts]
           /\ free' \in 0 .. Concurrency
           /\ RequestInv'
<1>1. /\ pc \in [Requests -> {"idle", "queued", "paused", "sent", "done"}]
      /\ attempts \in [Requests -> 0 .. MaxAttempts]
  BY DEF TypeOK
<1>2. /\ free' \in 0 .. Concurrency
      /\ free' + Cardinality(Holding') = Concurrency
  BY EndLemma, KeepLemma DEF RequestInv
<1>3. PICK s \in {"done", "paused", "sent"} :
         pc' = [pc EXCEPT ![r] = s] /\ (s = "paused" => n < MaxAttempts)
  BY DEF End
<1>4. /\ pc' \in [Requests -> {"idle", "queued", "paused", "sent", "done"}]
      /\ attempts' \in [Requests -> 0 .. MaxAttempts]
  BY <1>1, <1>3
<1>5. AttemptsLeft' /\ Untouched' /\ Begun'
  BY <1>1, <1>3 DEF RequestInv, AttemptsLeft, Untouched, Begun
<1>6. BatchInv'
  BY <1>1, <1>2, <1>3 DEF RequestInv, BatchInv, Requests
<1> QED BY <1>2, <1>4, <1>5, <1>6 DEF RequestInv

\* Leaving the client alone leaves its sessions in order.
LEMMA PoolUnchanged ==
    ASSUME PoolOK, UNCHANGED <<started, pool, closer>>
    PROVE  PoolOK'
  BY DEF PoolOK, PoolInv, NothingOrphaned, HandsOutOpen

\* A pool that is initialised, or is now, is in order.
LEMMA PoolInitialized ==
    ASSUME PoolOK, TypeOK, started', closer' = closer, pool' = Initialized(pool)
    PROVE  PoolOK' /\ pool' \in PoolType
<1>1. /\ pool' \in PoolType /\ pool'.initialized
      /\ \A s \in pool'.open : s[2] = pool'.pair
      /\ pool.initialized => pool' = pool
      /\ ~pool.initialized => \A b \in Backends : <<b, pool'.pair>> \in pool'.open
  BY InitializedLemma DEF PoolOK, PoolInv, NothingOrphaned, Usable, TypeOK
<1>2. CASE pool.initialized
  BY <1>1, <1>2 DEF PoolOK, PoolInv, NothingOrphaned, HandsOutOpen, Usable
<1>3. CASE ~pool.initialized
  BY <1>1, <1>3 DEF PoolOK, PoolInv, NothingOrphaned, HandsOutOpen, Usable, TypeOK
<1> QED BY <1>2, <1>3

(***************************************************************************)
(* The invariant.                                                          *)
(***************************************************************************)
\* The invariant holds of a new client.
LEMMA InitIInv == Init => IInv
<1> SUFFICES ASSUME Init PROVE IInv
  OBVIOUS
<1>1. TypeOK
  <2>1. NewPool \in PoolType
    BY DEF NewPool, PoolType
  <2>2. Concurrency \in 0 .. Concurrency /\ 0 \in 0 .. MaxAttempts
    BY ClientAssumption
  <2> QED BY <2>1, <2>2 DEF Init, TypeOK
<1>2. Holding = {}
  BY DEF Init, Holding, Requests
<1>3. BatchInv
  BY <1>2, FS_EmptySet, ClientAssumption DEF Init, BatchInv, Requests
<1>4. RequestInv
  BY <1>3, ClientAssumption DEF Init, RequestInv, AttemptsLeft, Untouched, Begun
<1>5. PoolOK
  BY DEF Init, NewPool, PoolOK, PoolInv, NothingOrphaned, HandsOutOpen
<1> QED BY <1>1, <1>4, <1>5 DEF IInv

\* start() keeps the client in order, whoever calls it and when.
LEMMA BeginLemma ==
    ASSUME IInv, Begin, closer' = closer
    PROVE  /\ PoolOK' /\ pool' \in PoolType /\ started'
           /\ working' \in BOOLEAN /\ reused' \in BOOLEAN
<1>1. started' /\ working' \in BOOLEAN /\ reused' \in BOOLEAN
  BY DEF Begin, Start, IInv, TypeOK
<1>2. CASE started
  <2>1. UNCHANGED <<started, pool, closer>>
    BY <1>2 DEF Begin, Start, IInv, TypeOK
  <2> QED BY <1>1, <2>1, PoolUnchanged DEF IInv, TypeOK
<1>3. CASE ~started
  BY <1>1, <1>3, PoolInitialized DEF Begin, Start, IInv
<1> QED BY <1>1, <1>2, <1>3

\* Every step preserves the invariant.
LEMMA NextIInv == IInv /\ [Next]_vars => IInv'
<1> SUFFICES ASSUME IInv, [Next]_vars PROVE IInv'
  OBVIOUS
<1> USE DEF clientVars, requestVars, batchVars
<1>t. TypeOK /\ RequestInv /\ PoolOK
  BY DEF IInv
<1>p. /\ pc \in [Requests -> {"idle", "queued", "paused", "sent", "done"}]
      /\ attempts \in [Requests -> 0 .. MaxAttempts]
      /\ pool \in PoolType /\ free \in 0 .. Concurrency
  BY <1>t DEF TypeOK
<1>1. ASSUME NEW r \in Requests, Enter(r) PROVE IInv'
  <2>1. /\ r \in Others /\ pc[r] = "idle" /\ pc' = [pc EXCEPT ![r] = "paused"]
        /\ Begin
        /\ UNCHANGED <<closer, attempts, batch, free>>
    BY <1>1 DEF Enter
  <2>2. /\ PoolOK' /\ pool' \in PoolType /\ started'
        /\ working' \in BOOLEAN /\ reused' \in BOOLEAN
    BY <2>1, BeginLemma
  <2>3. TypeOK'
    BY <2>1, <2>2, <1>t DEF TypeOK
  <2>4. AttemptsLeft' /\ Untouched' /\ Begun'
    BY <2>1, <2>2, <1>p, <1>t, ClientAssumption
    DEF RequestInv, AttemptsLeft, Untouched, Begun
  <2>5. Holding' = Holding /\ \A m \in Members : pc'[m] = pc[m]
    BY <2>1, <1>p, ClientAssumption DEF Holding, Requests
  <2>6. BatchInv'
    BY <2>1, <2>5, <1>t DEF RequestInv, BatchInv
  <2> QED BY <2>2, <2>3, <2>4, <2>6 DEF IInv, RequestInv
<1>2. ASSUME NEW m \in Requests, Admit(m) PROVE IInv'
  <2>1. /\ m \in Members /\ pc[m] = "queued" /\ free > 0
        /\ free' = free - 1 /\ pc' = [pc EXCEPT ![m] = "paused"]
        /\ UNCHANGED <<started, pool, working, closer, attempts, batch, reused>>
    BY <1>2 DEF Admit
  <2>2. PoolOK'
    BY <2>1, <1>t, PoolUnchanged
  <2>3. free' \in 0 .. Concurrency
    BY <2>1, <1>p, ClientAssumption
  <2>4. TypeOK'
    BY <2>1, <2>3, <1>t DEF TypeOK
  <2>5. AttemptsLeft' /\ Untouched' /\ Begun'
    BY <2>1, <1>p, <1>t DEF RequestInv, AttemptsLeft, Untouched, Begun
  <2>6. m \notin Holding /\ Holding' = Holding \cup {m}
    BY <2>1, <1>p DEF Holding, Requests
  <2>7. Cardinality(Holding') = Cardinality(Holding) + 1 /\ Cardinality(Holding) \in Nat
    BY <2>6, HoldingFinite, FS_AddElement, FS_CardinalityType
  <2>8. BatchInv'
    BY <2>1, <2>7, <1>p, <1>t, ClientAssumption DEF RequestInv, BatchInv, Requests
  <2> QED BY <2>2, <2>4, <2>5, <2>8 DEF IInv, RequestInv
<1>3. ASSUME NEW r \in Requests, Dispatch(r) PROVE IInv'
  <2>1. /\ pc[r] = "paused" /\ pool' = Initialized(pool)
        /\ attempts' = [attempts EXCEPT ![r] = attempts[r] + 1]
        /\ UNCHANGED <<started, working, closer, batch, reused>>
    BY <1>3 DEF Dispatch
  <2>2. attempts[r] + 1 \in 0 .. MaxAttempts /\ attempts'[r] = attempts[r] + 1
    BY <2>1, <1>p, <1>t, ClientAssumption DEF RequestInv, AttemptsLeft
  <2>3. \/ End(r)
        \/ pc' = [pc EXCEPT ![r] = "paused"] /\ attempts'[r] < MaxAttempts /\ free' = free
        \/ pc' = [pc EXCEPT ![r] = "sent"] /\ free' = free
    BY <1>3 DEF Dispatch, RetryOrEnd
  <2>4. started
    BY <2>1, <1>t DEF RequestInv, Begun
  <2>5. PoolOK' /\ pool' \in PoolType
    BY <2>1, <2>4, <1>t, PoolInitialized
  <2>6. /\ pc' \in [Requests -> {"idle", "queued", "paused", "sent", "done"}]
        /\ attempts' \in [Requests -> 0 .. MaxAttempts]
        /\ free' \in 0 .. Concurrency
        /\ RequestInv'
    BY <2>1, <2>2, <2>3, <1>t, StepLemma
  <2>7. TypeOK'
    BY <2>1, <2>5, <2>6, <1>t DEF TypeOK
  <2> QED BY <2>5, <2>6, <2>7 DEF IInv
<1>4. ASSUME NEW r \in Requests, Refused(r) \/ Answered(r) \/ Raise(r) \/ Cancelled(r),
             pc[r] # "queued"
      PROVE  IInv'
  <2>1. /\ pc[r] \in {"paused", "sent"}
        /\ UNCHANGED <<started, pool, working, closer, attempts, reused>>
        /\ batch' \in {batch, "raised", "cancelled"}
    BY <1>4 DEF Refused, Answered, Raise, Cancelled
  <2>2. \/ End(r)
        \/ pc' = [pc EXCEPT ![r] = "paused"] /\ attempts[r] < MaxAttempts /\ free' = free
    BY <1>4 DEF Refused, Answered, Raise, Cancelled, RetryOrEnd
  <2>3. attempts' = [attempts EXCEPT ![r] = attempts[r]] /\ attempts[r] \in 0 .. MaxAttempts
    BY <2>1, <1>p
  <2>4. /\ pc' \in [Requests -> {"idle", "queued", "paused", "sent", "done"}]
        /\ attempts' \in [Requests -> 0 .. MaxAttempts]
        /\ free' \in 0 .. Concurrency
        /\ RequestInv'
    BY <2>1, <2>2, <2>3, <1>t, StepLemma
  <2>5. TypeOK'
    BY <2>1, <2>4, <1>t DEF TypeOK
  <2>6. PoolOK'
    BY <2>1, <1>t, PoolUnchanged
  <2> QED BY <2>4, <2>5, <2>6 DEF IInv
<1>5. ASSUME NEW r \in Requests, Cancelled(r), pc[r] = "queued" PROVE IInv'
  <2>1. /\ pc' = [pc EXCEPT ![r] = "done"]
        /\ batch' \in {batch, "cancelled"}
        /\ UNCHANGED <<started, pool, working, closer, attempts, free, reused>>
    BY <1>5 DEF Cancelled
  <2>2. TypeOK'
    BY <2>1, <1>t, <1>p DEF TypeOK
  <2>3. AttemptsLeft' /\ Untouched' /\ Begun'
    BY <2>1, <1>p, <1>t DEF RequestInv, AttemptsLeft, Untouched, Begun
  <2>4. Holding' = Holding
    BY <2>1, <1>5, <1>p DEF Holding, Requests
  <2>5. BatchInv'
    BY <2>1, <2>4, <1>5, <1>p, <1>t DEF RequestInv, BatchInv, Requests
  <2>6. PoolOK'
    BY <2>1, <1>t, PoolUnchanged
  <2> QED BY <2>2, <2>3, <2>5, <2>6 DEF IInv, RequestInv
<1>6. CASE CallBatch
  <2>1. /\ batch = "idle" /\ batch' = "running" /\ Begin
        /\ pc' = [r \in Requests |-> IF r \in Members THEN "queued" ELSE pc[r]]
        /\ UNCHANGED <<closer, attempts, free>>
    BY <1>6 DEF CallBatch
  <2>2. /\ PoolOK' /\ pool' \in PoolType /\ started'
        /\ working' \in BOOLEAN /\ reused' \in BOOLEAN
    BY <2>1, BeginLemma
  <2>3. TypeOK'
    BY <2>1, <2>2, <1>t, <1>p DEF TypeOK
  <2>4. \A m \in Members : pc[m] = "idle" /\ attempts[m] = 0
    BY <2>1, <1>t DEF RequestInv, BatchInv, Untouched, Requests
  <2>5. AttemptsLeft' /\ Untouched' /\ Begun'
    BY <2>1, <2>2, <2>4, <1>p, <1>t, ClientAssumption
    DEF RequestInv, AttemptsLeft, Untouched, Begun
  <2>6. Holding' = Holding
    BY <2>1, <2>4, <1>p DEF Holding, Requests
  <2>7. BatchInv'
    BY <2>1, <2>6, <1>t DEF RequestInv, BatchInv
  <2> QED BY <2>2, <2>3, <2>5, <2>7 DEF IInv, RequestInv
<1>7. CASE CancelBatch \/ BatchReturns
  <2>1. /\ batch' \in {"cancelling", "returned", "cancelled"}
        /\ UNCHANGED <<started, pool, working, closer, pc, attempts, free, reused>>
    BY <1>7 DEF CancelBatch, BatchReturns
  <2>2. Holding' = Holding
    BY <2>1 DEF Holding
  <2>3. RequestInv'
    BY <2>1, <2>2, <1>t DEF RequestInv, AttemptsLeft, Untouched, Begun, BatchInv
  <2>4. TypeOK'
    BY <2>1, <1>t DEF TypeOK
  <2>5. PoolOK'
    BY <2>1, <1>t, PoolUnchanged
  <2> QED BY <2>3, <2>4, <2>5 DEF IInv
<1>8. CASE CallClose \/ WorkersStopped \/ Settled \/ CloseReturns \/ CancelClose
  <2>1. UNCHANGED <<started, pc, attempts, batch, free, reused>>
    BY <1>8 DEF CallClose, WorkersStopped, Settled, CloseReturns, CancelClose
  <2>2. Holding' = Holding
    BY <2>1 DEF Holding
  <2>3. RequestInv'
    BY <2>1, <2>2, <1>t DEF RequestInv, AttemptsLeft, Untouched, Begun, BatchInv
  <2>4. PoolOK' /\ TypeOK'
    <3>1. CASE CallClose
      <4>1. CASE started
        <5>1. closer = "open" /\ closer' = "stopping" /\ working' = FALSE /\ pool' = pool
          BY <3>1, <4>1 DEF CallClose
        <5>2. PoolOK'
          BY <5>1, <4>1, <2>1, <1>t DEF PoolOK, PoolInv, NothingOrphaned, HandsOutOpen
        <5> QED BY <5>1, <5>2, <2>1, <1>t DEF TypeOK
      <4>2. CASE ~started
        <5>1. /\ closer = "open" /\ closer' = "closed" /\ working' = FALSE
              /\ pool' = Uninitialized(pool)
          BY <3>1, <4>2 DEF CallClose
        <5>2. /\ pool' \in PoolType /\ ~pool'.initialized
              /\ pool'.open = pool.open /\ pool'.pair = pool.pair
          BY <5>1, <1>p, UninitializedLemma
        <5>3. PoolOK'
          BY <5>1, <5>2, <4>2, <2>1, <1>t
          DEF PoolOK, PoolInv, NothingOrphaned, HandsOutOpen
        <5> QED BY <5>1, <5>2, <5>3, <2>1, <1>t DEF TypeOK
      <4> QED BY <4>1, <4>2
    <3>2. CASE WorkersStopped
      <4>1. closer = "stopping" /\ closer' = "settling" /\ working' = working
        BY <3>2 DEF WorkersStopped
      <4>2. /\ pool' \in PoolType /\ pool'.initialized = pool.initialized
            /\ pool'.pair = pool.pair
            /\ pool'.open = pool.open \ {<<"aiohttp", pool.pair>>}
        BY <3>2, <1>p, WithoutLemma DEF WorkersStopped, Backends
      <4>3. pool'.open \subseteq {<<"httpx", pool.pair>>}
        <5>1. \A s \in pool.open : s \in Backends \X Nat /\ s[2] = pool.pair
          BY <1>p, <1>t DEF PoolType, PoolOK, NothingOrphaned
        <5>2. \A s \in pool.open : s \in {<<"aiohttp", pool.pair>>, <<"httpx", pool.pair>>}
          BY <5>1 DEF Backends
        <5> QED BY <5>2, <4>2
      <4>4. PoolOK'
        BY <4>1, <4>2, <4>3, <2>1, <1>t DEF PoolOK, PoolInv, NothingOrphaned, HandsOutOpen
      <4> QED BY <4>1, <4>2, <4>4, <2>1, <1>t DEF TypeOK
    <3>3. CASE Settled
      <4>1. closer = "settling" /\ closer' = "finishing" /\ working' = working
        BY <3>3 DEF Settled
      <4>2. /\ pool' \in PoolType /\ pool'.initialized = pool.initialized
            /\ pool'.pair = pool.pair
            /\ pool'.open = pool.open \ {<<"httpx", pool.pair>>}
        BY <3>3, <1>p, WithoutLemma DEF Settled, Backends
      <4>3. pool'.open = {}
        BY <4>1, <4>2, <1>t DEF PoolOK, PoolInv
      <4>4. PoolOK'
        BY <4>1, <4>2, <4>3, <2>1, <1>t DEF PoolOK, PoolInv, NothingOrphaned, HandsOutOpen
      <4> QED BY <4>1, <4>2, <4>4, <2>1, <1>t DEF TypeOK
    <3>4. CASE CloseReturns
      <4>1. closer = "finishing" /\ closer' = "closed" /\ working' = working
        BY <3>4 DEF CloseReturns
      <4>2. /\ pool' \in PoolType /\ ~pool'.initialized
            /\ pool'.open = pool.open /\ pool'.pair = pool.pair
        BY <3>4, <1>p, UninitializedLemma DEF CloseReturns
      <4>3. PoolOK'
        BY <4>1, <4>2, <2>1, <1>t DEF PoolOK, PoolInv, NothingOrphaned, HandsOutOpen
      <4> QED BY <4>1, <4>2, <4>3, <2>1, <1>t DEF TypeOK
    <3>5. CASE CancelClose
      <4>1. /\ closer \in {"stopping", "settling", "finishing"} /\ closer' = "cancelled"
            /\ working' = working /\ pool' = pool
        BY <3>5 DEF CancelClose
      <4>2. PoolOK'
        BY <4>1, <2>1, <1>t DEF PoolOK, PoolInv, NothingOrphaned, HandsOutOpen
      <4> QED BY <4>1, <4>2, <2>1, <1>t DEF TypeOK
    <3> QED BY <1>8, <3>1, <3>2, <3>3, <3>4, <3>5
  <2> QED BY <2>3, <2>4 DEF IInv
<1>9. CASE UNCHANGED vars
  <2>1. Holding' = Holding
    BY <1>9 DEF vars, Holding
  <2> QED
    BY <1>9, <2>1 DEF vars, IInv, TypeOK, RequestInv, AttemptsLeft, Untouched, Begun,
        BatchInv, PoolOK, PoolInv, NothingOrphaned, HandsOutOpen
<1>10. ASSUME NEW r \in Requests, RequestStep(r) PROVE IInv'
  <2>1. CASE Admit(r)
    BY <2>1, <1>2
  <2>2. CASE Dispatch(r)
    BY <2>2, <1>3
  <2>3. CASE (Refused(r) \/ Answered(r) \/ Raise(r) \/ Cancelled(r)) /\ pc[r] # "queued"
    BY <2>3, <1>4
  <2>4. CASE Cancelled(r) /\ pc[r] = "queued"
    BY <2>4, <1>5
  <2>5. CASE (Refused(r) \/ Answered(r) \/ Raise(r)) /\ pc[r] = "queued"
    BY <2>5 DEF Refused, Answered, Raise
  <2> QED BY <1>10, <2>1, <2>2, <2>3, <2>4, <2>5 DEF RequestStep
<1> QED BY <1>1, <1>6, <1>7, <1>8, <1>9, <1>10 DEF Next

\* The inductive invariant holds throughout: TypeOK, RequestInv and PoolOK.
THEOREM Invariance == Spec => []IInv
<1>1. Init => IInv
  BY InitIInv
<1>2. IInv /\ [Next]_vars => IInv'
  BY NextIInv
<1> QED BY <1>1, <1>2, PTL DEF Spec

(***************************************************************************)
(* What follows from it.                                                   *)
(***************************************************************************)
\* No request makes more than MaxAttempts attempts, the semaphore stays within
\* its bounds, and the pool is well formed, for any batch (TypeOK).
THEOREM TypeCorrect == Spec => []TypeOK
<1>1. IInv => TypeOK
  BY DEF IInv
<1> QED BY <1>1, Invariance, PTL

\* No session is dropped while it is open, however long requests outlive close()
\* and wherever close() is cancelled (NothingOrphaned).
THEOREM Unorphaned == Spec => []NothingOrphaned
<1>1. IInv => NothingOrphaned
  BY DEF IInv, PoolOK
<1> QED BY <1>1, Invariance, PTL

\* A closed session is handed out only during close() or after a close() that was
\* cancelled (HandsOutOpen).
THEOREM HandedOut == Spec => []HandsOutOpen
<1>1. IInv => HandsOutOpen
  BY DEF IInv, PoolOK
<1> QED BY <1>1, Invariance, PTL

\* The slots of the semaphore are accounted for, for any batch and any concurrency
\* (SlotsAccounted).
THEOREM Slots == Spec => []SlotsAccounted
<1>1. IInv => SlotsAccounted
  BY DEF IInv, RequestInv, BatchInv, SlotsAccounted
<1> QED BY <1>1, Invariance, PTL
=============================================================================
