----------------------------- MODULE TokenBucket -----------------------------
(***************************************************************************)
(* One TokenBucket (src/blitz/ratelimit.py) shared by concurrent tasks.    *)
(* A task that finds the bucket short takes what is left, sleeps for the   *)
(* deficit outside the lock, and goes ahead when its sleep is over.  In    *)
(* the meantime the bucket refills, other tasks take from it, and the      *)
(* answers 429 and 503 drain or pause it.                                  *)
(*                                                                         *)
(* hist is a history variable, never read by the bucket.                   *)
(***************************************************************************)
EXTENDS Bucket, FiniteSets

CONSTANT Tasks

ASSUME TasksAssumption == IsFiniteSet(Tasks)

VARIABLES
    bucket,      \* the bucket, a record of BucketType
    sleep,       \* per task: Awake, or the ticks left of asyncio.sleep(wait)
    hist

vars == <<bucket, sleep, hist>>

Awake == -1

HistType ==
    [now      : Nat,
     spent    : Nat,         \* Cost for each acquire() so far
     borrowed : Nat,         \* the part of spent the bucket did not hold
     slept    : Nat,         \* ticks of sleep, those of each task
     pause    : Int,         \* ticks left of the latest pause(), if positive
     fresh    : BOOLEAN]     \* neither acquire() nor drain() since that pause

Sleeping == {t \in Tasks : sleep[t] # Awake}

Waiting == {t \in Tasks : sleep[t] > 0}

TypeOK ==
    /\ bucket \in BucketType
    /\ bucket.level <= Burst
    /\ sleep \in [Tasks -> Nat \cup {Awake}]
    /\ hist \in HistType

Init ==
    /\ bucket = NewBucket
    /\ sleep = [t \in Tasks |-> Awake]
    /\ hist = [now |-> 0, spent |-> 0, borrowed |-> 0, slept |-> 0, pause |-> 0,
               fresh |-> FALSE]

\* acquire(), up to the sleep if there is one.
Acquire(t) ==
    /\ sleep[t] = Awake
    /\ bucket' = Acquired(bucket)
    /\ sleep' = [sleep EXCEPT ![t] = IF WaitFor(bucket) > 0 THEN WaitFor(bucket) ELSE Awake]
    /\ hist' = [hist EXCEPT
                  !.spent    = @ + Cost,
                  !.borrowed = @ + NotBelow(0, Cost - NotBelow(0, bucket.level)),
                  !.fresh    = FALSE]

\* The sleep is over; the event loop may take its time to resume the task.
Wake(t) ==
    /\ sleep[t] = 0
    /\ sleep' = [sleep EXCEPT ![t] = Awake]
    /\ UNCHANGED <<bucket, hist>>

Drain ==
    /\ bucket' = Drained(bucket)
    /\ hist' = [hist EXCEPT !.fresh = FALSE]
    /\ UNCHANGED sleep

Pause(seconds) ==
    /\ bucket' = Paused(bucket, seconds)
    /\ hist' = [hist EXCEPT !.pause = seconds, !.fresh = TRUE]
    /\ UNCHANGED sleep

Tick ==
    /\ bucket' = Refilled(bucket)
    /\ sleep' = [t \in Tasks |-> IF sleep[t] > 0 THEN sleep[t] - 1 ELSE sleep[t]]
    /\ hist' = [hist EXCEPT
                  !.now   = @ + 1,
                  !.slept = @ + Cardinality(Waiting),
                  !.pause = NotBelow(0, @ - 1)]

Next ==
    \/ \E t \in Tasks : Acquire(t) \/ Wake(t)
    \/ Drain
    \/ \E s \in Pauses : Pause(s)
    \/ Tick

Spec == Init /\ [][Next]_vars

(***************************************************************************)
(* Properties.                                                             *)
(***************************************************************************)
\* The bucket never hands out more than its capacity, what time has refilled,
\* and what the callers were charged as sleep (ratelimit.py:66-71), whatever
\* drains and pauses come in between.
BudgetBound ==
    hist.spent + NotBelow(0, bucket.level) <= Burst + hist.now + hist.borrowed

\* What the limiter guarantees of the requests that have gone ahead: a task pays for
\* a short bucket by sleeping, while the bucket refills too, so each tick of sleep gets
\* a tick's worth of tokens beside the configured rate.  n tasks can reach n + 1 times
\* that rate (ratelimit.py:68-75), and no more.
ThroughputBound ==
    /\ hist.spent - Cost * Cardinality(Sleeping) <= Burst + hist.now + hist.slept
    /\ hist.slept <= Cardinality(Tasks) * hist.now

\* Nobody sleeps longer than one token and one pause take: neither the debts of
\* other sleepers nor successive pauses add up (ratelimit.py:71, 101).
BoundedWait ==
    \A t \in Tasks : \E s \in Pauses \cup {0} : sleep[t] <= Cost + s

\* The first acquire() after a pause waits the rest of it out, and for its own
\* token after that (ratelimit.py:101).
FirstWaitsOutPause ==
    [][\A t \in Tasks : Acquire(t) /\ hist.fresh /\ hist.pause > 0
          => WaitFor(bucket) >= hist.pause + Cost]_vars

\* "Sustained token-add rate in tokens/second" (ratelimit.py:26): the requests
\* that have gone ahead stay within the burst and the configured rate.
RateCap ==
    hist.spent - Cost * Cardinality(Sleeping) <= Burst + hist.now
=============================================================================
