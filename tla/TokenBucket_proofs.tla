------------------------- MODULE TokenBucket_proofs -------------------------
(***************************************************************************)
(* Proofs about TokenBucket, for any number of tasks, token cost, burst    *)
(* and pauses.                                                             *)
(*                                                                         *)
(* BudgetBound alone is not inductive: drain() sets the level to the time  *)
(* since _last_refill, so that this time must be within the budget too     *)
(* (UnsyncedBound).  BoundedWait needs to know how deep the latest pause   *)
(* dug (DebtBound), and FirstWaitsOutPause that nothing has filled the     *)
(* hole since (FreshDebt).                                                 *)
(*                                                                         *)
(* ThroughputBound needs OwedBound: what the bucket has lent was slept for *)
(* since, or is still owed by the tasks that are asleep.                   *)
(***************************************************************************)
EXTENDS TokenBucket, FiniteSetTheorems, TLAPS

UnsyncedBound ==
    hist.spent + bucket.unsynced <= Burst + hist.now + hist.borrowed

DebtBound == \E s \in Pauses \cup {0} : bucket.level >= -s

FreshDebt == hist.fresh /\ hist.pause > 0 => bucket.level <= -hist.pause

\* The ticks that sleeping tasks still owe for their own token, one pair for each.
Owed == {p \in Tasks \X (1 .. Cost) : p[2] <= sleep[p[1]]}

OwedBound ==
    /\ hist.borrowed <= hist.slept + Cardinality(Owed)
    /\ hist.slept <= Cardinality(Tasks) * hist.now

IInv ==
    /\ TypeOK
    /\ BudgetBound
    /\ UnsyncedBound
    /\ DebtBound
    /\ BoundedWait
    /\ FreshDebt

\* The invariant holds of a full bucket with nobody asleep.
LEMMA InitIInv == Init => IInv
<1> SUFFICES ASSUME Init PROVE IInv
  OBVIOUS
<1> USE BucketAssumption, TasksAssumption DEF Init, NewBucket
<1>1. TypeOK
  BY DEF TypeOK, BucketType, HistType, Awake
<1>2. BudgetBound /\ UnsyncedBound
  BY DEF BudgetBound, UnsyncedBound, NotBelow
<1>3. DebtBound /\ BoundedWait
  BY DEF DebtBound, BoundedWait, Awake
<1>4. FreshDebt
  BY DEF FreshDebt
<1> QED BY <1>1, <1>2, <1>3, <1>4 DEF IInv

\* Every operation of the bucket, and every tick, preserves the invariant.
LEMMA NextIInv == IInv /\ [Next]_vars => IInv'
<1> SUFFICES ASSUME IInv, [Next]_vars PROVE IInv'
  OBVIOUS
<1> USE BucketAssumption, TasksAssumption
<1>t. /\ bucket.level \in Int /\ bucket.level <= Burst
      /\ bucket.unsynced \in 0 .. Burst
      /\ sleep \in [Tasks -> Nat \cup {Awake}]
      /\ hist.now \in Nat /\ hist.spent \in Nat /\ hist.borrowed \in Nat
      /\ hist.slept \in Nat /\ hist.pause \in Int /\ hist.fresh \in BOOLEAN
      /\ hist \in HistType
  BY DEF IInv, TypeOK, BucketType, HistType
<1>i. BudgetBound /\ UnsyncedBound /\ DebtBound /\ BoundedWait /\ FreshDebt
  BY DEF IInv
<1>1. ASSUME NEW t \in Tasks, Acquire(t) PROVE IInv'
  <2> DEFINE wait == WaitFor(bucket)
             lent == NotBelow(0, Cost - NotBelow(0, bucket.level))
  <2>1. /\ bucket'.level = NotBelow(0, bucket.level - Cost) /\ bucket'.unsynced = 0
        /\ bucket' = [level |-> NotBelow(0, bucket.level - Cost), unsynced |-> 0]
        /\ sleep' = [sleep EXCEPT ![t] = IF wait > 0 THEN wait ELSE Awake]
        /\ hist' = [hist EXCEPT !.spent = @ + Cost, !.borrowed = @ + lent, !.fresh = FALSE]
    BY <1>1 DEF Acquire, Acquired
  <2>2. /\ wait \in Nat /\ lent \in Nat
        /\ wait = IF bucket.level < Cost THEN Cost - bucket.level ELSE 0
    BY <1>t DEF WaitFor, NotBelow
  <2>3. /\ hist'.now = hist.now /\ hist'.spent = hist.spent + Cost
        /\ hist'.borrowed = hist.borrowed + lent /\ hist'.fresh = FALSE
    BY <2>1, <1>t DEF HistType
  <2> HIDE DEF wait
  <2>4. TypeOK'
    <3>1. bucket' \in BucketType /\ bucket'.level <= Burst
      BY <2>1, <1>t DEF BucketType, NotBelow
    <3>2. sleep' \in [Tasks -> Nat \cup {Awake}]
      BY <2>1, <2>2, <1>t
    <3>3. hist.spent + Cost \in Nat /\ hist.borrowed + lent \in Nat
      BY <2>2, <1>t
    <3>4. hist' \in HistType
      BY <2>1, <3>3, <1>t, Zenon DEF HistType
    <3> QED BY <3>1, <3>2, <3>4 DEF TypeOK
  <2>5. BudgetBound' /\ UnsyncedBound'
    <3>1. lent = IF bucket.level >= Cost THEN 0
                 ELSE IF bucket.level < 0 THEN Cost ELSE Cost - bucket.level
      BY <1>t DEF NotBelow
    <3>2. hist.spent + NotBelow(0, bucket.level) <= Burst + hist.now + hist.borrowed
      BY <1>i DEF BudgetBound
    <3>3. hist'.spent + NotBelow(0, bucket'.level) <= Burst + hist'.now + hist'.borrowed
      BY <2>1, <2>2, <2>3, <3>1, <3>2, <1>t DEF NotBelow
    <3>4. hist'.spent + bucket'.unsynced <= Burst + hist'.now + hist'.borrowed
      BY <2>1, <2>2, <2>3, <3>1, <3>2, <1>t DEF NotBelow
    <3> QED BY <3>3, <3>4 DEF BudgetBound, UnsyncedBound
  <2>6. DebtBound'
    <3>1. bucket'.level >= -0
      BY <2>1, <1>t DEF NotBelow
    <3> QED BY <3>1 DEF DebtBound
  <2>7. BoundedWait'
    <3>1. \E s \in Pauses \cup {0} : wait <= Cost + s
      BY <2>2, <1>t, <1>i DEF DebtBound
    <3> QED BY <3>1, <2>1, <2>2, <1>t, <1>i DEF BoundedWait, Awake
  <2>8. FreshDebt'
    BY <2>3 DEF FreshDebt
  <2> QED BY <2>4, <2>5, <2>6, <2>7, <2>8 DEF IInv
<1>2. ASSUME NEW t \in Tasks, Wake(t) PROVE IInv'
  <2>1. /\ sleep' = [sleep EXCEPT ![t] = Awake]
        /\ bucket' = bucket /\ hist' = hist
    BY <1>2 DEF Wake
  <2>2. BoundedWait'
    BY <2>1, <1>t, <1>i DEF BoundedWait, Awake
  <2>3. TypeOK'
    BY <2>1, <1>t DEF IInv, TypeOK
  <2> QED
    BY <2>1, <2>2, <2>3, <1>i DEF IInv, BudgetBound, UnsyncedBound, DebtBound, FreshDebt
<1>3. CASE Drain
  <2>1. /\ bucket' = [bucket EXCEPT !.level = bucket.unsynced]
        /\ hist' = [hist EXCEPT !.fresh = FALSE]
        /\ sleep' = sleep
    BY <1>3 DEF Drain, Drained
  <2>2. /\ bucket'.level = bucket.unsynced /\ bucket'.unsynced = bucket.unsynced
        /\ hist'.now = hist.now /\ hist'.spent = hist.spent
        /\ hist'.borrowed = hist.borrowed /\ hist'.fresh = FALSE
    BY <2>1, <1>t DEF IInv, TypeOK, BucketType, HistType
  <2>3. TypeOK'
    <3>1. bucket' \in BucketType /\ bucket'.level <= Burst
      BY <2>1, <1>t DEF IInv, TypeOK, BucketType
    <3>2. hist' \in HistType
      BY <2>1, <1>t DEF HistType
    <3> QED BY <2>1, <3>1, <3>2, <1>t DEF TypeOK
  <2>4. BudgetBound' /\ UnsyncedBound'
    BY <2>2, <1>t, <1>i DEF BudgetBound, UnsyncedBound, NotBelow
  <2>5. DebtBound'
    BY <2>2, <1>t DEF DebtBound
  <2>6. BoundedWait' /\ FreshDebt'
    BY <2>1, <2>2, <1>i DEF BoundedWait, FreshDebt
  <2> QED BY <2>3, <2>4, <2>5, <2>6 DEF IInv
<1>4. ASSUME NEW s \in Pauses, Pause(s) PROVE IInv'
  <2>1. /\ bucket' = [level |-> -s, unsynced |-> 0]
        /\ hist' = [hist EXCEPT !.pause = s, !.fresh = TRUE]
        /\ sleep' = sleep
    BY <1>4 DEF Pause, Paused
  <2>2. /\ bucket'.level = -s /\ bucket'.unsynced = 0 /\ s \in Nat
        /\ hist'.now = hist.now /\ hist'.spent = hist.spent
        /\ hist'.borrowed = hist.borrowed /\ hist'.pause = s
    BY <2>1, <1>t DEF HistType
  <2>3. TypeOK'
    <3>1. bucket' \in BucketType /\ bucket'.level <= Burst
      BY <2>1, <2>2 DEF BucketType
    <3>2. s \in Int
      BY <2>2
    <3>3. hist' \in HistType
      BY <2>1, <3>2, <1>t, Zenon DEF HistType
    <3> QED BY <2>1, <3>1, <3>3, <1>t DEF TypeOK
  <2>4. BudgetBound' /\ UnsyncedBound'
    BY <2>2, <1>t, <1>i DEF BudgetBound, UnsyncedBound, NotBelow
  <2>5. DebtBound' /\ FreshDebt'
    BY <2>2 DEF DebtBound, FreshDebt
  <2>6. BoundedWait'
    BY <2>1, <1>i DEF BoundedWait
  <2> QED BY <2>3, <2>4, <2>5, <2>6 DEF IInv
<1>5. CASE Tick
  <2>1. /\ bucket' = [level    |-> UpTo(Burst, bucket.level + 1),
                      unsynced |-> UpTo(Burst, bucket.unsynced + 1)]
        /\ sleep' = [t \in Tasks |-> IF sleep[t] > 0 THEN sleep[t] - 1 ELSE sleep[t]]
        /\ hist' = [hist EXCEPT !.now = @ + 1, !.slept = @ + Cardinality(Waiting),
                                !.pause = NotBelow(0, @ - 1)]
    BY <1>5 DEF Tick, Refilled
  <2>2. /\ bucket'.level = UpTo(Burst, bucket.level + 1)
        /\ bucket'.unsynced = UpTo(Burst, bucket.unsynced + 1)
        /\ hist'.now = hist.now + 1 /\ hist'.spent = hist.spent
        /\ hist'.borrowed = hist.borrowed /\ hist'.fresh = hist.fresh
        /\ hist'.pause = NotBelow(0, hist.pause - 1)
    BY <2>1, <1>t DEF HistType
  <2>3. TypeOK'
    <3>1. bucket' \in BucketType /\ bucket'.level <= Burst
      BY <2>1, <1>t DEF BucketType, UpTo
    <3>5. Cardinality(Waiting) \in Nat
      BY FS_Subset, FS_CardinalityType DEF Waiting
    <3>2. /\ hist.now + 1 \in Nat /\ NotBelow(0, hist.pause - 1) \in Int
          /\ hist.slept + Cardinality(Waiting) \in Nat
      BY <2>1, <1>t, <3>5 DEF NotBelow
    <3>3. hist' \in HistType
      BY <2>1, <3>2, <1>t, Zenon DEF HistType
    <3>4. sleep' \in [Tasks -> Nat \cup {Awake}]
      BY <2>1, <1>t DEF Awake
    <3> QED BY <3>1, <3>3, <3>4 DEF TypeOK
  <2>4. BudgetBound' /\ UnsyncedBound'
    BY <2>2, <1>t, <1>i DEF BudgetBound, UnsyncedBound, NotBelow, UpTo
  <2>5. DebtBound'
    <3>1. PICK s \in Pauses \cup {0} : bucket.level >= -s
      BY <1>i DEF DebtBound
    <3>2. bucket'.level >= -s
      BY <2>2, <3>1, <1>t DEF UpTo
    <3> QED BY <3>2 DEF DebtBound
  <2>6. BoundedWait'
    <3> SUFFICES ASSUME NEW t \in Tasks
                 PROVE  \E s \in Pauses \cup {0} : sleep'[t] <= Cost + s
      BY DEF BoundedWait
    <3>1. PICK s \in Pauses \cup {0} : sleep[t] <= Cost + s
      BY <1>i DEF BoundedWait
    <3>2. sleep'[t] <= Cost + s
      BY <2>1, <3>1, <1>t DEF Awake
    <3> QED BY <3>2
  <2>7. FreshDebt'
    BY <2>2, <1>t, <1>i DEF FreshDebt, NotBelow, UpTo
  <2> QED BY <2>3, <2>4, <2>5, <2>6, <2>7 DEF IInv
<1>6. CASE UNCHANGED vars
  BY <1>6 DEF vars, IInv, TypeOK, BudgetBound, UnsyncedBound, DebtBound, BoundedWait, FreshDebt
<1> QED BY <1>1, <1>2, <1>3, <1>4, <1>5, <1>6 DEF Next

\* IInv is an invariant of the bucket with its history.
THEOREM Invariance == Spec => []IInv
  BY InitIInv, NextIInv, PTL DEF Spec

\* Types: the level never exceeds the capacity.
THEOREM TypeCorrect == Spec => []TypeOK
  BY Invariance, PTL DEF IInv

\* acquire() never hands out more than the capacity, the refill and what its
\* callers slept for, however drains and pauses interleave (ratelimit.py:65-102).
THEOREM Budget == Spec => []BudgetBound
  BY Invariance, PTL DEF IInv

\* No acquire() sleeps longer than one token and one pause (ratelimit.py:68-74).
THEOREM Bounded == Spec => []BoundedWait
  BY Invariance, PTL DEF IInv

\* The first acquire() after a pause waits it out (ratelimit.py:99-102).
THEOREM FirstWaits == Spec => FirstWaitsOutPause
<1> DEFINE P == \A t \in Tasks : Acquire(t) /\ hist.fresh /\ hist.pause > 0
                   => WaitFor(bucket) >= hist.pause + Cost
<1>1. IInv /\ [Next]_vars => [P]_vars
  <2> SUFFICES ASSUME IInv, hist.fresh, hist.pause > 0
               PROVE  WaitFor(bucket) >= hist.pause + Cost
    OBVIOUS
  <2>1. bucket.level \in Int /\ hist.pause \in Int /\ bucket.level <= -hist.pause
    BY DEF IInv, TypeOK, BucketType, HistType, FreshDebt
  <2> QED BY <2>1, BucketAssumption DEF WaitFor, NotBelow
<1> QED BY <1>1, Invariance, PTL DEF Spec, FirstWaitsOutPause

(***************************************************************************)
(* The throughput of n tasks.                                              *)
(***************************************************************************)
\* What tasks owe is finite.
LEMMA PairsFinite ==
    ASSUME NEW S \in SUBSET (Tasks \X (1 .. Cost))
    PROVE  IsFiniteSet(S) /\ Cardinality(S) \in Nat
<1>1. IsFiniteSet(1 .. Cost)
  BY BucketAssumption, FS_Interval
<1>2. IsFiniteSet(Tasks \X (1 .. Cost))
  BY <1>1, TasksAssumption, FS_Product, Zenon
<1> QED BY <1>2, FS_Subset, FS_CardinalityType

\* No task owes more than one token.
LEMMA OwedFinite ==
    ASSUME TypeOK
    PROVE  /\ IsFiniteSet(Owed) /\ Cardinality(Owed) \in Nat
           /\ Cardinality(Tasks) \in Nat /\ Cardinality(Sleeping) \in Nat
           /\ Cardinality(Owed) <= Cardinality(Sleeping) * Cost
<1>1. IsFiniteSet(1 .. Cost) /\ Cardinality(1 .. Cost) = Cost
  <2>1. IsFiniteSet(1 .. Cost) /\ Cardinality(1 .. Cost) = IF 1 > Cost THEN 0 ELSE Cost - 1 + 1
    BY BucketAssumption, FS_Interval
  <2> QED BY <2>1, BucketAssumption
<1>2. IsFiniteSet(Sleeping) /\ Cardinality(Sleeping) \in Nat /\ Cardinality(Tasks) \in Nat
  BY TasksAssumption, FS_Subset, FS_CardinalityType DEF Sleeping
<1>3. /\ IsFiniteSet(Sleeping \X (1 .. Cost))
      /\ Cardinality(Sleeping \X (1 .. Cost)) = Cardinality(Sleeping) * Cardinality(1 .. Cost)
  BY <1>1, <1>2, FS_Product, Zenon
<1>4. Owed \in SUBSET (Sleeping \X (1 .. Cost))
  BY BucketAssumption DEF Owed, Sleeping, TypeOK, Awake
<1>5. /\ IsFiniteSet(Owed)
      /\ Cardinality(Owed) <= Cardinality(Sleeping \X (1 .. Cost))
  BY <1>3, <1>4, FS_Subset, Zenon
<1>6. Cardinality(Owed) \in Nat
  BY <1>5, FS_CardinalityType
<1>7. Cardinality(Owed) <= Cardinality(Sleeping) * Cost
  BY <1>1, <1>3, <1>5, Zenon
<1> QED BY <1>2, <1>5, <1>6, <1>7

\* A task that falls asleep owes at least what the bucket has lent it
\* (ratelimit.py:68-71).
LEMMA AcquireOwes ==
    ASSUME TypeOK, NEW t \in Tasks, Acquire(t)
    PROVE  hist'.borrowed - hist.borrowed <= Cardinality(Owed') - Cardinality(Owed)
<1> DEFINE wait == WaitFor(bucket)
           lent == NotBelow(0, Cost - NotBelow(0, bucket.level))
<1> USE BucketAssumption, TasksAssumption
<1>1. bucket.level \in Int /\ hist.borrowed \in Nat
  BY DEF TypeOK, BucketType, HistType
<1>2. hist'.borrowed = hist.borrowed + lent
  BY DEF Acquire, TypeOK, HistType
<1>3. /\ lent \in 0 .. Cost /\ wait \in Nat
      /\ lent <= wait
  BY <1>1 DEF WaitFor, NotBelow
<1>4. sleep[t] = -1 /\ sleep' = [sleep EXCEPT ![t] = IF wait > 0 THEN wait ELSE -1]
  BY DEF Acquire, Awake
<1> HIDE DEF wait, lent
<1>5. /\ IsFiniteSet({t}) /\ Cardinality({t}) = 1
      /\ IsFiniteSet(1 .. lent)
      /\ Cardinality(1 .. lent) = IF 1 > lent THEN 0 ELSE lent - 1 + 1
  <2>1. IsFiniteSet({t}) /\ Cardinality({t}) = 1
    BY FS_Singleton
  <2> QED BY <2>1, <1>3, FS_Interval
<1>6. /\ IsFiniteSet({t} \X (1 .. lent))
      /\ Cardinality({t} \X (1 .. lent)) = Cardinality({t}) * Cardinality(1 .. lent)
  BY <1>5, FS_Product, Zenon
<1>7. Cardinality({t} \X (1 .. lent)) = lent
  BY <1>3, <1>5, <1>6
<1>8. Owed \cap ({t} \X (1 .. lent)) = {}
  BY <1>4 DEF Owed
<1>9. Owed \cup ({t} \X (1 .. lent)) \in SUBSET Owed'
  BY <1>3, <1>4 DEF Owed, TypeOK
<1>10. Owed' \in SUBSET (Tasks \X (1 .. Cost)) /\ Owed \in SUBSET (Tasks \X (1 .. Cost))
  BY DEF Owed
<1>11. IsFiniteSet(Owed') /\ IsFiniteSet(Owed)
  BY <1>10, PairsFinite
<1>12. Cardinality(Owed \cup ({t} \X (1 .. lent))) <= Cardinality(Owed')
  BY <1>9, <1>11, FS_Subset, Zenon
<1>13. Cardinality(Owed \cup ({t} \X (1 .. lent)))
         = Cardinality(Owed) + Cardinality({t} \X (1 .. lent))
           - Cardinality(Owed \cap ({t} \X (1 .. lent)))
  BY <1>6, <1>11, FS_Union
<1>14. Cardinality(Owed \cup ({t} \X (1 .. lent))) = Cardinality(Owed) + lent - 0
  BY <1>7, <1>8, <1>13, FS_EmptySet, Zenon
<1>15. Cardinality(Owed) \in Nat /\ Cardinality(Owed') \in Nat
  BY <1>11, FS_CardinalityType
<1> QED BY <1>1, <1>2, <1>3, <1>12, <1>14, <1>15

\* In a tick every task that is waiting pays off one tick at most.
LEMMA TickPays ==
    ASSUME TypeOK, Tick
    PROVE  /\ Cardinality(Owed) <= Cardinality(Owed') + Cardinality(Waiting)
           /\ Cardinality(Waiting) \in Nat
           /\ Cardinality(Waiting) <= Cardinality(Tasks)
<1> USE BucketAssumption, TasksAssumption
<1> DEFINE last == [t \in Waiting |-> <<t, sleep[t]>>]
           Last == {last[t] : t \in Waiting}
<1>1. sleep \in [Tasks -> Nat \cup {-1}]
  BY DEF TypeOK, Awake
<1>2. sleep' = [t \in Tasks |-> IF sleep[t] > 0 THEN sleep[t] - 1 ELSE sleep[t]]
  BY DEF Tick
<1>w. /\ IsFiniteSet(Waiting) /\ Cardinality(Waiting) <= Cardinality(Tasks)
      /\ Cardinality(Waiting) \in Nat
  BY FS_Subset, FS_CardinalityType DEF Waiting
<1>3. last \in Surjection(Waiting, Last)
  BY DEF Surjection
<1>4. IsFiniteSet(Last) /\ Cardinality(Last) <= Cardinality(Waiting)
  BY <1>3, <1>w, FS_Surjection
<1>5. Owed \in SUBSET (Owed' \cup Last)
  <2> SUFFICES ASSUME NEW t \in Tasks, NEW n \in 1 .. Cost, n <= sleep[t]
               PROVE  n <= sleep'[t] \/ <<t, n>> \in Last
    BY DEF Owed
  <2>1. t \in Waiting
    BY <1>1 DEF Waiting
  <2>2. CASE n = sleep[t]
    BY <2>1, <2>2
  <2>3. CASE n # sleep[t]
    BY <2>3, <1>1, <1>2
  <2> QED BY <2>2, <2>3
<1> HIDE DEF Last
<1>6. Owed' \in SUBSET (Tasks \X (1 .. Cost))
  BY DEF Owed
<1>7. IsFiniteSet(Owed')
  BY <1>6, PairsFinite
<1>8. /\ IsFiniteSet(Owed' \cup Last)
       /\ Cardinality(Owed' \cup Last)
            = Cardinality(Owed') + Cardinality(Last) - Cardinality(Owed' \cap Last)
  BY <1>4, <1>7, FS_Union
<1>9. IsFiniteSet(Owed' \cap Last)
  BY <1>7, FS_Intersection
<1>10. Cardinality(Owed) <= Cardinality(Owed' \cup Last)
  BY <1>5, <1>8, FS_Subset, Zenon
<1>11. /\ Cardinality(Owed) \in Nat /\ Cardinality(Owed') \in Nat
       /\ Cardinality(Last) \in Nat /\ Cardinality(Owed' \cap Last) \in Nat
       /\ Cardinality(Owed' \cup Last) \in Nat
  BY <1>4, <1>7, <1>8, <1>9, FS_CardinalityType, OwedFinite
<1> QED BY <1>w, <1>4, <1>8, <1>10, <1>11

\* What was lent was slept for, or is still owed.
LEMMA OwedStep == IInv /\ OwedBound /\ [Next]_vars => OwedBound'
<1> SUFFICES ASSUME IInv, OwedBound, [Next]_vars PROVE OwedBound'
  OBVIOUS
<1>t. /\ TypeOK /\ hist \in HistType
      /\ hist.now \in Nat /\ hist.borrowed \in Nat /\ hist.slept \in Nat
  BY DEF IInv, TypeOK, HistType
<1>o. /\ hist.borrowed <= hist.slept + Cardinality(Owed)
      /\ hist.slept <= Cardinality(Tasks) * hist.now
  BY DEF OwedBound
<1>n. /\ Cardinality(Owed) \in Nat /\ Cardinality(Tasks) \in Nat
      /\ Cardinality(Owed') \in Nat
  <2>1. Owed' \in SUBSET (Tasks \X (1 .. Cost))
    BY DEF Owed
  <2> QED BY <1>t, <2>1, PairsFinite, OwedFinite
<1>1. ASSUME NEW t \in Tasks, Acquire(t) PROVE OwedBound'
  <2>1. hist'.borrowed - hist.borrowed <= Cardinality(Owed') - Cardinality(Owed)
    BY <1>1, <1>t, AcquireOwes
  <2>2. hist'.now = hist.now /\ hist'.slept = hist.slept /\ hist'.borrowed \in Int
    BY <1>1, <1>t, BucketAssumption DEF Acquire, HistType, TypeOK, BucketType, NotBelow
  <2>3. hist'.borrowed <= hist.slept + Cardinality(Owed')
    BY <1>n, <1>t, <1>o, <2>1, <2>2
  <2> QED BY <1>o, <2>2, <2>3 DEF OwedBound
<1>2. ASSUME NEW t \in Tasks, Wake(t) PROVE OwedBound'
  <2>1. Owed' = Owed /\ hist' = hist
    BY <1>2, <1>t DEF Wake, Owed, TypeOK, Awake
  <2> QED BY <1>o, <2>1 DEF OwedBound
<1>3. CASE Drain \/ (\E s \in Pauses : Pause(s)) \/ UNCHANGED vars
  <2>1. /\ hist'.now = hist.now /\ hist'.borrowed = hist.borrowed
        /\ hist'.slept = hist.slept /\ sleep' = sleep
    BY <1>3, <1>t DEF Drain, Pause, vars, HistType
  <2>2. Owed' = Owed
    BY <2>1 DEF Owed
  <2> QED BY <1>o, <2>1, <2>2 DEF OwedBound
<1>4. CASE Tick
  <2>1. /\ hist'.now = hist.now + 1 /\ hist'.borrowed = hist.borrowed
        /\ hist'.slept = hist.slept + Cardinality(Waiting)
    BY <1>4, <1>t DEF Tick, HistType
  <2>2. /\ Cardinality(Owed) <= Cardinality(Owed') + Cardinality(Waiting)
        /\ Cardinality(Waiting) \in Nat
        /\ Cardinality(Waiting) <= Cardinality(Tasks)
    BY <1>4, <1>t, TickPays
  <2>3. Cardinality(Tasks) * (hist.now + 1) = Cardinality(Tasks) * hist.now + Cardinality(Tasks)
    BY <1>n, <1>t
  <2>4. Cardinality(Tasks) * hist.now \in Nat
    BY <1>n, <1>t
  <2>5. hist.slept + Cardinality(Waiting) <= Cardinality(Tasks) * (hist.now + 1)
    BY <1>n, <1>t, <1>o, <2>2, <2>3, <2>4
  <2>6. hist.borrowed <= hist.slept + Cardinality(Waiting) + Cardinality(Owed')
    BY <1>n, <1>t, <1>o, <2>2
  <2> QED BY <2>1, <2>5, <2>6 DEF OwedBound
<1> QED BY <1>1, <1>2, <1>3, <1>4 DEF Next

\* Each tick of sleep gets a tick's worth of tokens beside the configured rate and
\* the burst, and no more, however drains and pauses interleave (ratelimit.py:68-75).
THEOREM Throughput == Spec => []ThroughputBound
<1>1. Init => OwedBound
  <2> SUFFICES ASSUME Init PROVE OwedBound
    OBVIOUS
  <2>1. hist.borrowed = 0 /\ hist.now = 0 /\ hist.slept = 0 /\ Owed = {}
    BY BucketAssumption DEF Init, Owed, Awake
  <2>2. Cardinality({}) = 0 /\ Cardinality(Tasks) \in Nat
    BY FS_EmptySet, FS_CardinalityType, TasksAssumption
  <2> QED BY <2>1, <2>2 DEF OwedBound
<1>2. IInv /\ OwedBound => ThroughputBound
  <2> SUFFICES ASSUME IInv, OwedBound PROVE ThroughputBound
    OBVIOUS
  <2>1. /\ hist.spent \in Nat /\ hist.now \in Nat /\ hist.borrowed \in Nat
        /\ hist.slept \in Nat /\ bucket.level \in Int /\ TypeOK
    BY DEF IInv, TypeOK, BucketType, HistType
  <2>2. hist.spent <= Burst + hist.now + hist.borrowed
    BY <2>1, BucketAssumption DEF IInv, BudgetBound, NotBelow
  <2>3. hist.borrowed <= hist.slept + Cardinality(Owed)
    BY DEF OwedBound
  <2>4. /\ Cardinality(Owed) \in Nat
        /\ Cardinality(Tasks) \in Nat /\ Cardinality(Sleeping) \in Nat
        /\ Cardinality(Owed) <= Cardinality(Sleeping) * Cost
    BY <2>1, OwedFinite
  <2>5. /\ Cardinality(Sleeping) * Cost = Cost * Cardinality(Sleeping)
        /\ Cost * Cardinality(Sleeping) \in Nat
    BY <2>1, <2>4, BucketAssumption
  <2>6. hist.spent - Cost * Cardinality(Sleeping) <= Burst + hist.now + hist.slept
    BY <2>1, <2>2, <2>3, <2>4, <2>5, BucketAssumption
  <2> QED BY <2>6 DEF ThroughputBound, OwedBound
<1> QED BY <1>1, <1>2, OwedStep, Invariance, PTL DEF Spec
=============================================================================
