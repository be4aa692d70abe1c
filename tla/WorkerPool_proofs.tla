------------------------- MODULE WorkerPool_proofs -------------------------
(***************************************************************************)
(* The safety of WorkerPool for every set of workers and items.  The       *)
(* invariant has three parts beside the types: which tasks may be where    *)
(* (Tasks), what the scaler's removals leave of the pool (Scaling), and    *)
(* where the items are (Accounts), the last stated about values so that    *)
(* the lemmas on Put, Got and Done can be composed: a worker that          *)
(* completes an item and takes the next does both in one step.             *)
(*                                                                         *)
(* On that invariant rests the refinement: every step of the pool submits, *)
(* starts, finishes or loses an item as Dispatcher allows it, or moves     *)
(* none.  Which steps may lose one needs Spared beside it.                 *)
(***************************************************************************)
EXTENDS WorkerPool, TLAPS, FiniteSetTheorems, WellFoundedInduction

\* The workers that execute are the ones that hold an item.
Busy(h) == {w \in Workers : h[w] # None}

\* Every item submitted is in one place, and the queue's counters agree.
Accounts(qu, h, res, sub) ==
    /\ IsFiniteSet(qu.waiting)
    /\ \A e \in qu.waiting : e.seq < qu.seq /\ e.item \in sub \ res
    /\ \A e, f \in qu.waiting : e.seq = f.seq \/ e.item = f.item => e = f
    /\ \A w \in Busy(h) : h[w] \in sub \ res /\ \A e \in qu.waiting : e.item # h[w]
    /\ \A v, w \in Busy(h) : h[v] = h[w] => v = w
    /\ res \subseteq sub
    /\ qu.inFlight = Cardinality(Busy(h))
    /\ qu.unfinished = Cardinality(qu.waiting) + Cardinality(Busy(h))

Tasks ==
    /\ \A w \in Workers : at[w] = "absent" <=> w \notin pool
    /\ \A w \in Workers : at[w] = "executing" <=> holding[w] # None
    /\ \A w \in Workers : cancelled[w] => at[w] \notin {"absent", "ended"}
    /\ running => \A w \in Workers : cancelled[w] => w = victim

Scaling ==
    /\ scaler = "removing" <=> victim # None
    /\ victim # None => victim \in doomed
    /\ scaler # "removing" => doomed = {}
    /\ doomed \subseteq pool
    /\ running <=> stop = "uncalled"
    /\ running => scaler # "ended"
    /\ stop \in {"joining", "gathering", "returned"} => scaler = "ended"

IInv ==
    /\ TypeOK /\ Tasks /\ Scaling
    /\ Accounts(q, holding, resolved, submitted)
    /\ PoolBounds /\ StoppedClean

(***************************************************************************)
(* The queue.                                                              *)
(***************************************************************************)
LEMMA LeastNat ==
    ASSUME NEW S \in SUBSET Nat, S # {}
    PROVE  \E n \in S : \A k \in S : n <= k
<1> DEFINE R == OpToRel(<, Nat)
<1>1. PICK n \in S : \A k \in S : <<k, n>> \notin R
  <2>1. S \subseteq Nat
    OBVIOUS
  <2> QED
    BY <2>1, NatLessThanWellFounded, WFMin, Zenon
<1>2. \A k \in S : ~(k < n)
  <2> SUFFICES ASSUME NEW k \in S, k < n PROVE FALSE
    OBVIOUS
  <2>1. <<k, n>> \in Nat \X Nat
    OBVIOUS
  <2>2. <<k, n>>[1] = k /\ <<k, n>>[2] = n
    OBVIOUS
  <2> QED
    BY <1>1, <2>1, <2>2 DEF OpToRel
<1> QED
  BY <1>2

\* What is first in a queue that is not empty is one of its items: among the
\* items of the least priority, the one that came first.
LEMMA FirstWaits ==
    ASSUME NEW qu \in QueueType, qu.waiting # {},
           \A e, f \in qu.waiting : e.seq = f.seq => e = f
    PROVE  /\ First(qu) \in qu.waiting
           /\ \A f \in qu.waiting \ {First(qu)} : Before(First(qu), f)
<1> USE PriorityAssumption
<1>1. \A e \in qu.waiting : e.item \in Items /\ e.seq \in Nat /\ Priority[e.item] \in Nat
  BY DEF QueueType, WorkItem
<1> DEFINE Levels == {Priority[e.item] : e \in qu.waiting}
<1>2. PICK n \in Levels : \A k \in Levels : n <= k
  <2>1. Levels \in SUBSET Nat /\ Levels # {}
    BY <1>1
  <2> HIDE DEF Levels
  <2> QED
    BY <2>1, LeastNat
<1> DEFINE Arrivals == {e.seq : e \in {f \in qu.waiting : Priority[f.item] = n}}
<1>3. PICK s \in Arrivals : \A k \in Arrivals : s <= k
  <2>1. Arrivals \in SUBSET Nat /\ Arrivals # {}
    BY <1>1, <1>2
  <2> HIDE DEF Arrivals
  <2> QED
    BY <2>1, LeastNat
<1>4. PICK e \in qu.waiting : Priority[e.item] = n /\ e.seq = s
  BY <1>3
<1>5. \A f \in qu.waiting \ {e} : Before(e, f)
  <2> SUFFICES ASSUME NEW f \in qu.waiting, f # e PROVE Before(e, f)
    OBVIOUS
  <2>1. n <= Priority[f.item]
    BY <1>2
  <2>2. Priority[f.item] = n => s <= f.seq
    BY <1>3
  <2> QED
    BY <1>1, <1>4, <2>1, <2>2 DEF Before
<1> QED
  BY <1>5 DEF First

LEMMA BusyFinite ==
    ASSUME NEW h
    PROVE  IsFiniteSet(Busy(h)) /\ Cardinality(Busy(h)) \in Nat
<1>1. Busy(h) \in SUBSET Workers
  BY DEF Busy
<1> QED
  BY <1>1, PoolAssumption, FS_Subset, FS_CardinalityType

\* put(): an item never submitted before waits, once.
LEMMA PutAccounts ==
    ASSUME NEW qu \in QueueType, NEW h \in [Workers -> Items \cup {None}], NEW res, NEW sub,
           Accounts(qu, h, res, sub), NEW i \in Items, i \notin sub
    PROVE  Put(qu, i) \in QueueType /\ Accounts(Put(qu, i), h, res, sub \cup {i})
<1> DEFINE new == [item |-> i, seq |-> qu.seq]
           more == qu.waiting \cup {new}
<1>1. /\ qu.waiting \subseteq WorkItem /\ qu.seq \in Nat
      /\ qu.inFlight \in Nat /\ qu.unfinished \in Nat
  BY DEF QueueType
<1>2. /\ Put(qu, i).waiting = more /\ Put(qu, i).seq = qu.seq + 1
      /\ Put(qu, i).inFlight = qu.inFlight /\ Put(qu, i).unfinished = qu.unfinished + 1
  BY DEF Put, QueueType
<1>3. new \in WorkItem /\ new.item = i /\ new.seq = qu.seq
  BY <1>1 DEF WorkItem
<1>4. \A e \in qu.waiting : e.seq \in Nat /\ e.seq < qu.seq /\ e.item # i /\ e.item \in sub \ res
  BY <1>1 DEF Accounts, WorkItem
<1>5. new \notin qu.waiting
  BY <1>3, <1>4
<1> HIDE DEF new
<1>6. IsFiniteSet(more) /\ Cardinality(more) = Cardinality(qu.waiting) + 1
  BY <1>5, FS_AddElement DEF Accounts
<1>7. Cardinality(qu.waiting) \in Nat
  BY FS_CardinalityType DEF Accounts
<1>8. Put(qu, i) \in QueueType
  <2>1. /\ qu.waiting \cup {[item |-> i, seq |-> qu.seq]} \in SUBSET WorkItem
        /\ qu.seq + 1 \in Nat /\ qu.unfinished + 1 \in Nat
    BY <1>1, <1>3 DEF new
  <2> QED
    BY <2>1 DEF Put, QueueType
<1>9. Accounts(Put(qu, i), h, res, sub \cup {i})
  <2> DEFINE p == Put(qu, i)
  <2>1. /\ p.waiting = more /\ p.seq = qu.seq + 1
        /\ p.inFlight = qu.inFlight /\ p.unfinished = qu.unfinished + 1
    BY <1>2
  <2> HIDE DEF p
  <2>2. \A e \in p.waiting : e.seq < p.seq /\ e.item \in (sub \cup {i}) \ res
    BY <1>1, <1>3, <1>4, <2>1 DEF Accounts
  <2>3. \A e, f \in p.waiting : e.seq = f.seq \/ e.item = f.item => e = f
    BY <1>1, <1>3, <1>4, <2>1 DEF Accounts
  <2>4. \A w \in Busy(h) : h[w] \in (sub \cup {i}) \ res /\ \A e \in p.waiting : e.item # h[w]
    BY <1>3, <2>1 DEF Accounts
  <2>5. /\ p.inFlight = Cardinality(Busy(h))
        /\ p.unfinished = Cardinality(p.waiting) + Cardinality(Busy(h))
    BY <1>1, <1>6, <1>7, <2>1, BusyFinite DEF Accounts
  <2>6. /\ IsFiniteSet(p.waiting) /\ res \subseteq sub \cup {i}
        /\ \A v, w \in Busy(h) : h[v] = h[w] => v = w
    BY <1>6, <2>1 DEF Accounts
  <2>7. Accounts(p, h, res, sub \cup {i})
    BY <2>2, <2>3, <2>4, <2>5, <2>6 DEF Accounts
  <2> QED
    BY <2>7 DEF p
<1> QED
  BY <1>8, <1>9

\* get(): what was first waits no longer; a worker that held nothing holds it.
LEMMA GotAccounts ==
    ASSUME NEW qu \in QueueType, NEW h \in [Workers -> Items \cup {None}], NEW res, NEW sub,
           Accounts(qu, h, res, sub), qu.waiting # {},
           NEW w \in Workers, h[w] = None
    PROVE  /\ Got(qu) \in QueueType
           /\ First(qu).item \in Items
           /\ Accounts(Got(qu), [h EXCEPT ![w] = First(qu).item], res, sub)
<1> DEFINE e0 == First(qu)
           i == e0.item
           less == qu.waiting \ {e0}
           k == [h EXCEPT ![w] = i]
<1>1. e0 \in qu.waiting
  BY FirstWaits DEF Accounts
<1>2. /\ qu.waiting \subseteq WorkItem /\ qu.seq \in Nat
      /\ qu.inFlight \in Nat /\ qu.unfinished \in Nat
  BY DEF QueueType
<1>3. i \in Items /\ i # None /\ i \in sub \ res
  BY <1>1, <1>2, PoolAssumption DEF WorkItem, Accounts
<1>4. /\ Got(qu).waiting = less /\ Got(qu).seq = qu.seq
      /\ Got(qu).inFlight = qu.inFlight + 1 /\ Got(qu).unfinished = qu.unfinished
  BY DEF Got, QueueType
<1> HIDE DEF e0
<1>5. /\ IsFiniteSet(less) /\ Cardinality(less) = Cardinality(qu.waiting) - 1
      /\ Cardinality(qu.waiting) \in Nat
  BY <1>1, FS_RemoveElement, FS_CardinalityType DEF Accounts
<1> HIDE DEF i
<1>6. Busy(k) = Busy(h) \cup {w} /\ w \notin Busy(h)
  BY <1>3 DEF Busy
<1>7. Cardinality(Busy(k)) = Cardinality(Busy(h)) + 1 /\ Cardinality(Busy(h)) \in Nat
  BY <1>6, BusyFinite, FS_AddElement
<1>8. \A v \in Busy(h) : k[v] = h[v] /\ h[v] # i
  BY <1>1, <1>6 DEF Accounts, i
<1>9. k[w] = i /\ \A e \in less : e.item # i
  BY <1>1 DEF Accounts, i
<1> HIDE DEF k
<1>10. Got(qu) \in QueueType
  <2>1. qu.waiting \ {First(qu)} \in SUBSET WorkItem /\ qu.inFlight + 1 \in Nat
    BY <1>2
  <2> QED
    BY <2>1 DEF Got, QueueType
<1>11. Accounts(Got(qu), k, res, sub)
  <2> DEFINE g == Got(qu)
  <2>1. /\ g.waiting = less /\ g.seq = qu.seq
        /\ g.inFlight = qu.inFlight + 1 /\ g.unfinished = qu.unfinished
    BY <1>4
  <2> HIDE DEF g
  <2>2. \A v \in Busy(k) : k[v] \in sub \ res /\ \A e \in g.waiting : e.item # k[v]
    BY <1>3, <1>6, <1>8, <1>9, <2>1 DEF Accounts
  <2>3. \A u, v \in Busy(k) : k[u] = k[v] => u = v
    BY <1>6, <1>8, <1>9 DEF Accounts
  <2>4. /\ \A e \in g.waiting : e.seq < g.seq /\ e.item \in sub \ res
        /\ \A e, f \in g.waiting : e.seq = f.seq \/ e.item = f.item => e = f
    BY <2>1 DEF Accounts
  <2>5. /\ g.inFlight = Cardinality(Busy(k))
        /\ g.unfinished = Cardinality(g.waiting) + Cardinality(Busy(k))
    BY <1>2, <1>5, <1>7, <2>1 DEF Accounts
  <2>6. IsFiniteSet(g.waiting) /\ res \subseteq sub
    BY <1>5, <2>1 DEF Accounts
  <2>7. Accounts(g, k, res, sub)
    BY <2>2, <2>3, <2>4, <2>5, <2>6 DEF Accounts
  <2> QED
    BY <2>7 DEF g
<1> QED
  BY <1>3, <1>10, <1>11 DEF i, k, e0

\* task_done(), after an item that has its result or one that was aborted.
LEMMA DoneAccounts ==
    ASSUME NEW qu \in QueueType, NEW h \in [Workers -> Items \cup {None}],
           NEW res, NEW res2, NEW sub, Accounts(qu, h, res, sub),
           NEW w \in Workers, h[w] # None, res2 \in {res, res \cup {h[w]}}
    PROVE  /\ Done(qu) \in QueueType
           /\ Done(qu).waiting = qu.waiting
           /\ Accounts(Done(qu), [h EXCEPT ![w] = None], res2, sub)
<1> DEFINE k == [h EXCEPT ![w] = None]
<1>1. /\ qu.waiting \subseteq WorkItem /\ qu.seq \in Nat
      /\ qu.inFlight \in Nat /\ qu.unfinished \in Nat
  BY DEF QueueType
<1>2. Busy(k) = Busy(h) \ {w} /\ w \in Busy(h)
  BY DEF Busy
<1>3. /\ Cardinality(Busy(k)) = Cardinality(Busy(h)) - 1
      /\ Cardinality(Busy(h)) \in Nat /\ Cardinality(Busy(k)) \in Nat
  BY <1>2, BusyFinite, FS_RemoveElement
<1>4. Cardinality(qu.waiting) \in Nat
  BY FS_CardinalityType DEF Accounts
<1>5. /\ Done(qu).waiting = qu.waiting /\ Done(qu).seq = qu.seq
      /\ Done(qu).inFlight = qu.inFlight - 1 /\ Done(qu).unfinished = qu.unfinished - 1
  <2>1. qu.inFlight >= 1
    BY <1>1, <1>3 DEF Accounts
  <2>2. (IF qu.inFlight - 1 > 0 THEN qu.inFlight - 1 ELSE 0) = qu.inFlight - 1
    BY <1>1, <2>1
  <2> QED
    BY <2>2 DEF Done, QueueType
<1>6. qu.inFlight - 1 \in Nat /\ qu.unfinished - 1 \in Nat
  BY <1>1, <1>3, <1>4 DEF Accounts
<1>7. Done(qu) \in QueueType
  BY <1>1, <1>6 DEF Done, QueueType
<1>8. \A v \in Busy(k) : k[v] = h[v] /\ v # w
  BY <1>2
<1> HIDE DEF k
<1>9. Accounts(Done(qu), k, res2, sub)
  <2> DEFINE d == Done(qu)
  <2>1. /\ d.waiting = qu.waiting /\ d.seq = qu.seq
        /\ d.inFlight = qu.inFlight - 1 /\ d.unfinished = qu.unfinished - 1
    BY <1>5
  <2> HIDE DEF d
  <2>2. \A v \in Busy(k) : k[v] \in sub \ res2 /\ \A e \in d.waiting : e.item # k[v]
    BY <1>2, <1>8, <2>1 DEF Accounts
  <2>3. \A u, v \in Busy(k) : k[u] = k[v] => u = v
    BY <1>2, <1>8 DEF Accounts
  <2>4. /\ \A e \in d.waiting : e.seq < d.seq /\ e.item \in sub \ res2
        /\ \A e, f \in d.waiting : e.seq = f.seq \/ e.item = f.item => e = f
    BY <1>2, <2>1 DEF Accounts
  <2>5. res2 \subseteq sub
    BY <1>2 DEF Accounts
  <2>6. /\ d.inFlight = Cardinality(Busy(k))
        /\ d.unfinished = Cardinality(d.waiting) + Cardinality(Busy(k))
    BY <1>1, <1>3, <1>4, <2>1 DEF Accounts
  <2>7. IsFiniteSet(d.waiting)
    BY <2>1 DEF Accounts
  <2>8. Accounts(d, k, res2, sub)
    BY <2>2, <2>3, <2>4, <2>5, <2>6, <2>7 DEF Accounts
  <2> QED
    BY <2>8 DEF d
<1> QED
  BY <1>5, <1>7, <1>9 DEF k

(***************************************************************************)
(* The steps of a worker.                                                  *)
(***************************************************************************)
\* A step of worker w keeps the invariant when it keeps the accounts, does not
\* end w against the rules, and takes nothing once the queue has been drained.
LEMMA WorkerFrame ==
    ASSUME IInv, NEW w \in Workers, at[w] \notin {"absent", "ended"},
           UNCHANGED <<running, pool, scalerVars, stop, submitted>>,
           at' \in [Workers -> Places], holding' \in [Workers -> Items \cup {None}],
           cancelled' \in [Workers -> BOOLEAN], idle' \subseteq Workers,
           resolved' \subseteq Items, q' \in QueueType,
           Accounts(q', holding', resolved', submitted),
           \A v \in Workers \ {w} : /\ at'[v] = at[v] /\ holding'[v] = holding[v]
                                    /\ cancelled'[v] = cancelled[v],
           at'[w] # "absent",
           at'[w] = "executing" <=> holding'[w] # None,
           cancelled'[w] => cancelled[w] /\ at'[w] # "ended",
           running /\ at'[w] = "ended" => w = victim,
           ~running /\ q.waiting = {} =>
               /\ q'.waiting = {}
               /\ at'[w] = "executing" => at[w] = "executing"
    PROVE  IInv'
<1>1. TypeOK'
  BY DEF IInv, TypeOK, scalerVars
<1>2. Tasks'
  BY DEF IInv, TypeOK, Tasks, scalerVars
<1>3. Scaling'
  BY DEF IInv, Scaling, scalerVars
<1>4. Accounts(q, holding, resolved, submitted)'
  OBVIOUS
<1>5. PoolBounds'
  <2>1. PoolBounds /\ pool' = pool /\ doomed' = doomed /\ victim' = victim /\ running' = running
    BY DEF IInv, scalerVars
  <2>2. Active' = Active
    BY <2>1 DEF Active
  <2>3. running => \A v \in pool : at'[v] = "ended" => v = victim
    BY <2>1 DEF PoolBounds, IInv, TypeOK
  <2> QED
    BY <2>1, <2>2, <2>3 DEF PoolBounds
<1>6. StoppedClean'
  <2> SUFFICES ASSUME stop' \in {"gathering", "returned"} PROVE StoppedClean'
    BY DEF StoppedClean
  <2>1. ~running
    BY DEF IInv, Scaling
  <2>2. q.waiting = {} /\ Executing = {} /\ scaler = "ended"
    BY DEF IInv, StoppedClean
  <2>3. Executing' = {}
    BY <2>1, <2>2 DEF Executing
  <2>4. stop # "returned"
    BY DEF IInv, StoppedClean
  <2> QED
    BY <2>1, <2>2, <2>3, <2>4 DEF StoppedClean, scalerVars
<1> QED
  BY <1>1, <1>2, <1>3, <1>4, <1>5, <1>6 DEF IInv

\* From the top of the loop to the next await, with nothing in hand.
LEMMA LoopAccounts ==
    ASSUME NEW w \in Workers, NEW qu \in QueueType, NEW res,
           at \in [Workers -> Places], holding \in [Workers -> Items \cup {None}],
           Accounts(qu, [holding EXCEPT ![w] = None], res, submitted), LoopFrom(w, qu)
    PROVE  /\ at' \in [Workers -> Places] /\ holding' \in [Workers -> Items \cup {None}]
           /\ q' \in QueueType /\ Accounts(q', holding', res, submitted)
           /\ \A v \in Workers \ {w} : at'[v] = at[v] /\ holding'[v] = holding[v]
           /\ at'[w] # "absent"
           /\ at'[w] = "executing" <=> holding'[w] # None
           /\ running <=> at'[w] # "ended"
           /\ ~running => q' = qu /\ at'[w] = "ended"
<1> DEFINE h == [holding EXCEPT ![w] = None]
<1>1. h \in [Workers -> Items \cup {None}] /\ h[w] = None
  OBVIOUS
<1>2. CASE ~running
  <2>1. q' = qu /\ holding' = h /\ at' = [at EXCEPT ![w] = "ended"]
    BY <1>2 DEF LoopFrom
  <2> QED
    BY <1>1, <1>2, <2>1 DEF Places
<1>3. CASE running /\ qu.waiting # {}
  <2>1. /\ q' = Got(qu) /\ at' = [at EXCEPT ![w] = "executing"]
        /\ holding' = [holding EXCEPT ![w] = First(qu).item]
    BY <1>3 DEF LoopFrom
  <2>2. /\ Got(qu) \in QueueType /\ First(qu).item \in Items
        /\ Accounts(Got(qu), [h EXCEPT ![w] = First(qu).item], res, submitted)
    BY <1>1, <1>3, GotAccounts
  <2>3. [h EXCEPT ![w] = First(qu).item] = holding'
    BY <2>1
  <2>4. First(qu).item # None
    BY <2>2, PoolAssumption
  <2> HIDE DEF h
  <2> QED
    BY <1>3, <2>1, <2>2, <2>3, <2>4 DEF Places
<1>4. CASE running /\ qu.waiting = {}
  <2>1. q' = qu /\ holding' = h /\ at' = [at EXCEPT ![w] = "waiting"]
    BY <1>4 DEF LoopFrom
  <2> QED
    BY <1>1, <1>4, <2>1 DEF Places
<1> QED
  BY <1>2, <1>3, <1>4 DEF LoopFrom

LEMMA LoopInv ==
    ASSUME IInv, NEW w \in Workers, Loop(w)
    PROVE  IInv'
<1>1. /\ at[w] = "ready" /\ ~cancelled[w] /\ LoopFrom(w, q)
      /\ UNCHANGED <<running, pool, cancelled, idle, scalerVars, stop, itemVars>>
  BY DEF Loop
<1>2. TypeOK /\ Tasks /\ Accounts(q, holding, resolved, submitted)
  BY DEF IInv
<1>3. holding[w] = None
  BY <1>1, <1>2 DEF Tasks
<1>4. [holding EXCEPT ![w] = None] = holding
  BY <1>2, <1>3 DEF TypeOK
<1>5. q \in QueueType /\ at \in [Workers -> Places] /\ holding \in [Workers -> Items \cup {None}]
  BY <1>2 DEF TypeOK
<1>6. /\ at' \in [Workers -> Places] /\ holding' \in [Workers -> Items \cup {None}]
      /\ q' \in QueueType /\ Accounts(q', holding', resolved, submitted)
      /\ \A v \in Workers \ {w} : at'[v] = at[v] /\ holding'[v] = holding[v]
      /\ at'[w] # "absent"
      /\ at'[w] = "executing" <=> holding'[w] # None
      /\ running <=> at'[w] # "ended"
      /\ ~running => q' = q /\ at'[w] = "ended"
  BY <1>1, <1>2, <1>4, <1>5, LoopAccounts
<1>7. /\ cancelled' \in [Workers -> BOOLEAN] /\ idle' \subseteq Workers /\ resolved' \subseteq Items
      /\ UNCHANGED <<running, pool, scalerVars, stop, submitted, resolved, cancelled>>
  BY <1>1, <1>2 DEF TypeOK, itemVars
<1> QED
  BY <1>1, <1>6, <1>7, WorkerFrame

LEMMA TakeWaitedInv ==
    ASSUME IInv, NEW w \in Workers, TakeWaited(w)
    PROVE  IInv'
<1>1. TypeOK /\ Tasks /\ Scaling /\ Accounts(q, holding, resolved, submitted)
  BY DEF IInv
<1>2. holding[w] = None /\ q.waiting # {}
  BY <1>1 DEF TakeWaited, Tasks
<1>3. q \in QueueType /\ at \in [Workers -> Places] /\ holding \in [Workers -> Items \cup {None}]
  BY <1>1 DEF TypeOK
<1>4. /\ Got(q) \in QueueType /\ First(q).item \in Items
      /\ Accounts(Got(q), [holding EXCEPT ![w] = First(q).item], resolved, submitted)
  BY <1>1, <1>2, <1>3, GotAccounts
<1>5. First(q).item # None
  BY <1>4, PoolAssumption
<1>6. /\ q' = Got(q) /\ at' = [at EXCEPT ![w] = "executing"]
      /\ holding' = [holding EXCEPT ![w] = First(q).item]
      /\ cancelled' = [cancelled EXCEPT ![w] = FALSE] /\ at[w] = "waiting"
  BY DEF TakeWaited
<1>7. /\ idle' \subseteq Workers /\ resolved' \subseteq Items
      /\ UNCHANGED <<running, pool, scalerVars, stop, submitted, resolved>>
      /\ cancelled \in [Workers -> BOOLEAN]
  BY <1>1 DEF TypeOK, TakeWaited, itemVars
<1>8. /\ at' \in [Workers -> Places] /\ holding' \in [Workers -> Items \cup {None}]
      /\ cancelled' \in [Workers -> BOOLEAN] /\ ~cancelled'[w]
      /\ at'[w] = "executing" /\ holding'[w] # None
      /\ \A v \in Workers \ {w} : /\ at'[v] = at[v] /\ holding'[v] = holding[v]
                                  /\ cancelled'[v] = cancelled[v]
  BY <1>3, <1>4, <1>5, <1>6, <1>7 DEF Places
<1> QED
  BY <1>2, <1>4, <1>6, <1>7, <1>8, WorkerFrame

LEMMA GiveUpWaitInv ==
    ASSUME IInv, NEW w \in Workers, GiveUpWait(w)
    PROVE  IInv'
<1>1. TypeOK /\ Tasks /\ Accounts(q, holding, resolved, submitted)
  BY DEF IInv
<1>2. /\ at[w] = "waiting" /\ at' = [at EXCEPT ![w] = "ready"]
      /\ cancelled' = [cancelled EXCEPT ![w] = FALSE]
      /\ UNCHANGED <<q, holding, running, pool, scalerVars, stop, submitted, resolved>>
  BY DEF GiveUpWait, itemVars
<1>3. idle' \subseteq Workers /\ resolved' \subseteq Items /\ q' \in QueueType
  BY <1>1, <1>2 DEF TypeOK, GiveUpWait
<1>4. /\ at' \in [Workers -> Places] /\ holding' \in [Workers -> Items \cup {None}]
      /\ cancelled' \in [Workers -> BOOLEAN] /\ ~cancelled'[w]
      /\ at'[w] = "ready" /\ holding'[w] = None
      /\ \A v \in Workers \ {w} : /\ at'[v] = at[v] /\ holding'[v] = holding[v]
                                  /\ cancelled'[v] = cancelled[v]
  BY <1>1, <1>2 DEF TypeOK, Tasks, Places
<1> QED
  BY <1>1, <1>2, <1>3, <1>4, WorkerFrame

LEMMA CompleteInv ==
    ASSUME IInv, NEW w \in Workers, Complete(w)
    PROVE  IInv'
<1>1. TypeOK /\ Tasks /\ Scaling /\ Accounts(q, holding, resolved, submitted)
  BY DEF IInv
<1>2. /\ at[w] = "executing" /\ ~cancelled[w] /\ LoopFrom(w, Done(q))
      /\ resolved' = resolved \cup {holding[w]}
      /\ UNCHANGED <<running, pool, cancelled, scalerVars, stop, submitted>>
  BY DEF Complete
<1>3. q \in QueueType /\ at \in [Workers -> Places] /\ holding \in [Workers -> Items \cup {None}]
  BY <1>1 DEF TypeOK
<1>4. holding[w] # None /\ holding[w] \in Items
  BY <1>1, <1>2, <1>3 DEF Tasks
<1>5. /\ Done(q) \in QueueType /\ Done(q).waiting = q.waiting
      /\ Accounts(Done(q), [holding EXCEPT ![w] = None], resolved', submitted)
  BY <1>1, <1>2, <1>3, <1>4, DoneAccounts
<1>6. /\ at' \in [Workers -> Places] /\ holding' \in [Workers -> Items \cup {None}]
      /\ q' \in QueueType /\ Accounts(q', holding', resolved', submitted)
      /\ \A v \in Workers \ {w} : at'[v] = at[v] /\ holding'[v] = holding[v]
      /\ at'[w] # "absent"
      /\ at'[w] = "executing" <=> holding'[w] # None
      /\ running <=> at'[w] # "ended"
      /\ ~running => q' = Done(q) /\ at'[w] = "ended"
  BY <1>2, <1>3, <1>5, LoopAccounts
<1>7. cancelled' \in [Workers -> BOOLEAN] /\ idle' \subseteq Workers /\ resolved' \subseteq Items
  BY <1>1, <1>2, <1>4 DEF TypeOK, Complete
<1> QED
  BY <1>2, <1>5, <1>6, <1>7, WorkerFrame

LEMMA AbortInv ==
    ASSUME IInv, NEW w \in Workers, Abort(w)
    PROVE  IInv'
<1>1. TypeOK /\ Tasks /\ Accounts(q, holding, resolved, submitted)
  BY DEF IInv
<1>2. /\ at[w] = "executing" /\ cancelled[w] /\ q' = Done(q)
      /\ at' = [at EXCEPT ![w] = "ended"] /\ holding' = [holding EXCEPT ![w] = None]
      /\ cancelled' = [cancelled EXCEPT ![w] = FALSE]
      /\ UNCHANGED <<running, pool, scalerVars, stop, submitted, resolved>>
  BY DEF Abort, itemVars
<1>3. q \in QueueType /\ at \in [Workers -> Places] /\ holding \in [Workers -> Items \cup {None}]
  BY <1>1 DEF TypeOK
<1>4. holding[w] # None
  BY <1>1, <1>2 DEF Tasks
<1>5. /\ Done(q) \in QueueType /\ Done(q).waiting = q.waiting
      /\ Accounts(Done(q), [holding EXCEPT ![w] = None], resolved, submitted)
  BY <1>1, <1>3, <1>4, DoneAccounts
<1>6. running => w = victim
  BY <1>1, <1>2 DEF Tasks
<1>7. idle' \subseteq Workers /\ resolved' \subseteq Items /\ cancelled \in [Workers -> BOOLEAN]
  BY <1>1, <1>2 DEF TypeOK, Abort
<1>8. /\ at' \in [Workers -> Places] /\ holding' \in [Workers -> Items \cup {None}]
      /\ cancelled' \in [Workers -> BOOLEAN] /\ ~cancelled'[w]
      /\ at'[w] = "ended" /\ holding'[w] = None
      /\ \A v \in Workers \ {w} : /\ at'[v] = at[v] /\ holding'[v] = holding[v]
                                  /\ cancelled'[v] = cancelled[v]
  BY <1>2, <1>3, <1>7 DEF Places
<1> QED
  BY <1>2, <1>5, <1>6, <1>7, <1>8, WorkerFrame

LEMMA DieInv ==
    ASSUME IInv, NEW w \in Workers, Die(w)
    PROVE  IInv'
<1>1. TypeOK /\ Tasks /\ Accounts(q, holding, resolved, submitted)
  BY DEF IInv
<1>2. /\ at[w] = "ready" /\ cancelled[w] /\ at' = [at EXCEPT ![w] = "ended"]
      /\ cancelled' = [cancelled EXCEPT ![w] = FALSE]
      /\ UNCHANGED <<q, holding, idle, running, pool, scalerVars, stop, submitted, resolved>>
  BY DEF Die, itemVars
<1>3. running => w = victim
  BY <1>1, <1>2 DEF Tasks
<1>4. idle' \subseteq Workers /\ resolved' \subseteq Items /\ q' \in QueueType
  BY <1>1, <1>2 DEF TypeOK
<1>5. /\ at' \in [Workers -> Places] /\ holding' \in [Workers -> Items \cup {None}]
      /\ cancelled' \in [Workers -> BOOLEAN] /\ ~cancelled'[w]
      /\ at'[w] = "ended" /\ holding'[w] = None
      /\ \A v \in Workers \ {w} : /\ at'[v] = at[v] /\ holding'[v] = holding[v]
                                  /\ cancelled'[v] = cancelled[v]
  BY <1>1, <1>2 DEF TypeOK, Tasks, Places
<1> QED
  BY <1>1, <1>2, <1>3, <1>4, <1>5, WorkerFrame

(***************************************************************************)
(* The steps of the others.                                                *)
(***************************************************************************)
LEMMA InitInv == Init => IInv
<1> SUFFICES ASSUME Init PROVE IInv
  OBVIOUS
<1>1. /\ q = EmptyQueue /\ running = TRUE /\ pool \in SUBSET Workers
      /\ Cardinality(pool) = MinWorkers
      /\ at = [w \in Workers |-> IF w \in pool THEN "ready" ELSE "absent"]
      /\ holding = [w \in Workers |-> None] /\ cancelled = [w \in Workers |-> FALSE]
      /\ idle = {} /\ scaler = "sleeping" /\ doomed = {} /\ victim = None
      /\ stop = "uncalled" /\ submitted = {} /\ resolved = {}
  BY DEF Init
<1>2. TypeOK
  <2>1. q \in QueueType
    BY <1>1 DEF EmptyQueue, QueueType, WorkItem
  <2>2. at \in [Workers -> Places] /\ holding \in [Workers -> Items \cup {None}]
    BY <1>1 DEF Places
  <2>3. cancelled \in [Workers -> BOOLEAN]
    BY <1>1
  <2> QED
    BY <1>1, <2>1, <2>2, <2>3 DEF TypeOK
<1>3. Tasks
  BY <1>1 DEF Tasks
<1>4. Scaling
  BY <1>1 DEF Scaling
<1>5. Accounts(q, holding, resolved, submitted)
  <2>1. q.waiting = {} /\ q.inFlight = 0 /\ q.unfinished = 0
    BY <1>1 DEF EmptyQueue
  <2>2. Busy(holding) = {}
    BY <1>1 DEF Busy
  <2> QED
    BY <1>1, <2>1, <2>2, FS_EmptySet DEF Accounts
<1>6. PoolBounds
  BY <1>1, PoolAssumption DEF PoolBounds, Active
<1>7. StoppedClean
  BY <1>1 DEF StoppedClean
<1> QED
  BY <1>2, <1>3, <1>4, <1>5, <1>6, <1>7 DEF IInv

LEMMA SubmitInv ==
    ASSUME IInv, NEW i \in Items, Submit(i)
    PROVE  IInv'
<1>1. /\ i \notin submitted /\ stop = "uncalled" /\ q' = Put(q, i)
      /\ submitted' = submitted \cup {i}
      /\ UNCHANGED <<running, pool, at, holding, cancelled, idle, scaler, doomed, victim, stop, resolved>>
  BY DEF Submit, poolVars, scalerVars
<1>2. Put(q, i) \in QueueType /\ Accounts(Put(q, i), holding, resolved, submitted \cup {i})
  BY <1>1, PutAccounts DEF IInv, TypeOK
<1>3. TypeOK'
  BY <1>1, <1>2 DEF IInv, TypeOK
<1>4. Tasks' /\ Scaling'
  BY <1>1 DEF IInv, Tasks, Scaling
<1>5. PoolBounds' /\ StoppedClean'
  <2>1. Active' = Active
    BY <1>1 DEF Active
  <2> QED
    BY <1>1, <2>1 DEF IInv, PoolBounds, StoppedClean
<1> QED
  BY <1>1, <1>2, <1>3, <1>4, <1>5 DEF IInv

\* The accounts, and what stop() has found, do not concern the scaler.
LEMMA ScalerFrame ==
    ASSUME IInv, UNCHANGED <<q, running, holding, stop, itemVars>>,
           running \/ scaler = "removing", \A w \in Workers : at'[w] = "executing" => at[w] = "executing"
    PROVE  Accounts(q, holding, resolved, submitted)' /\ StoppedClean'
<1>1. stop \notin {"gathering", "returned"}
  BY DEF IInv, Scaling
<1> QED
  BY <1>1 DEF IInv, StoppedClean, itemVars

LEMMA ScaleUpInv ==
    ASSUME IInv, ScaleUp
    PROVE  IInv'
<1>1. PICK new \in SUBSET {w \in Workers : at[w] = "absent"} :
          /\ Cardinality(new) = GrownSize - Active
          /\ pool' = pool \cup new
          /\ at' = [w \in Workers |-> IF w \in new THEN "ready" ELSE at[w]]
  BY DEF ScaleUp
<1>2. /\ scaler = "sleeping" /\ running /\ Backlogged
      /\ UNCHANGED <<q, running, holding, cancelled, idle, scaler, doomed, victim, stop, submitted, resolved>>
  BY DEF ScaleUp, scalerVars, itemVars
<1>3. TypeOK /\ Tasks /\ Scaling /\ PoolBounds
  BY DEF IInv
<1>4. TypeOK'
  BY <1>1, <1>2, <1>3 DEF TypeOK, Places
<1>5. Tasks'
  BY <1>1, <1>2, <1>3 DEF TypeOK, Tasks
<1>6. Scaling'
  BY <1>1, <1>2, <1>3 DEF Scaling
<1>7. /\ IsFiniteSet(pool) /\ IsFiniteSet(new) /\ pool \cap new = {}
      /\ Active \in Nat
  BY <1>1, <1>3, PoolAssumption, FS_Subset, FS_CardinalityType DEF TypeOK, Tasks, Active
<1>8. Active' = GrownSize
  <2>1. Cardinality(pool \cup new) = Cardinality(pool) + Cardinality(new) - 0
    BY <1>7, FS_Union, FS_EmptySet
  <2>2. GrownSize \in Int
    BY <1>7, PoolAssumption DEF GrownSize, Smaller, Larger
  <2> QED
    BY <1>1, <1>7, <2>1, <2>2 DEF Active
<1>9. GrownSize <= MaxWorkers /\ GrownSize >= Active /\ GrownSize \in Int
  BY <1>2, <1>7, PoolAssumption DEF Backlogged, GrownSize, Smaller, Larger
<1>10. PoolBounds'
  <2>1. doomed' = {}
    BY <1>2, <1>3 DEF Scaling
  <2>2. Active' <= MaxWorkers /\ Active' >= MinWorkers
    <3>1. Active >= MinWorkers
      BY <1>2, <1>3 DEF PoolBounds
    <3> QED
      BY <1>7, <1>8, <1>9, <3>1, PoolAssumption
  <2>3. \A w \in pool' : at'[w] = "ended" => w = victim'
    BY <1>1, <1>2, <1>3 DEF PoolBounds, TypeOK
  <2> QED
    BY <2>1, <2>2, <2>3 DEF PoolBounds
<1>11. Accounts(q, holding, resolved, submitted)' /\ StoppedClean'
  BY <1>1, <1>2, ScalerFrame DEF itemVars
<1> QED
  BY <1>4, <1>5, <1>6, <1>10, <1>11 DEF IInv

LEMMA ScaleDownInv ==
    ASSUME IInv, ScaleDown
    PROVE  IInv'
<1> DEFINE candidates == (pool \cap idle) \ Executing
           excess == Larger(0, Active - MinWorkers)
<1>1. PICK toRemove \in SUBSET candidates \ {{}} :
          /\ Cardinality(toRemove) = Smaller(excess \div 2, Cardinality(candidates))
          /\ doomed' = toRemove
          /\ \E v \in toRemove : BeginRemoval(v)
  BY DEF ScaleDown
<1>2. PICK v \in toRemove : BeginRemoval(v)
  BY <1>1
<1>3. /\ scaler' = "removing" /\ victim' = v /\ cancelled' = [cancelled EXCEPT ![v] = TRUE]
  BY <1>2 DEF BeginRemoval
<1>4. /\ scaler = "sleeping" /\ running
      /\ UNCHANGED <<q, running, pool, at, holding, idle, stop, submitted, resolved>>
  BY DEF ScaleDown, itemVars
<1>5. TypeOK /\ Tasks /\ Scaling /\ PoolBounds
  BY DEF IInv
<1>6. victim = None /\ v \in pool /\ v \in Workers /\ v # None /\ toRemove \subseteq pool
  BY <1>1, <1>2, <1>4, <1>5, PoolAssumption DEF Scaling, TypeOK
<1>7. \A w \in pool : at[w] \notin {"ended", "absent"}
  BY <1>4, <1>5, <1>6, PoolAssumption DEF PoolBounds, Tasks, TypeOK
<1>8. TypeOK'
  BY <1>1, <1>3, <1>4, <1>5, <1>6 DEF TypeOK
<1>9. Tasks'
  BY <1>3, <1>4, <1>5, <1>6, <1>7, PoolAssumption DEF Tasks, TypeOK
<1>10. Scaling'
  BY <1>1, <1>2, <1>3, <1>4, <1>5, <1>6 DEF Scaling
<1>11. PoolBounds'
  <2>1. /\ IsFiniteSet(pool) /\ Active \in Nat /\ Active' = Active
        /\ IsFiniteSet(toRemove) /\ Cardinality(toRemove) \in Nat
        /\ IsFiniteSet(candidates) /\ Cardinality(candidates) \in Nat
    BY <1>4, <1>5, <1>6, PoolAssumption, FS_Subset, FS_CardinalityType DEF TypeOK, Active
  <2>2. Cardinality(toRemove) >= 1
    BY <1>1, <2>1, FS_EmptySet
  <2> HIDE DEF candidates
  <2>3. excess >= 2 /\ Cardinality(toRemove) <= excess \div 2 /\ excess = Active - MinWorkers
    BY <1>1, <2>1, <2>2, PoolAssumption DEF Larger, Smaller
  <2>4. Active - Cardinality(toRemove) > MinWorkers
    BY <2>1, <2>3, PoolAssumption
  <2> HIDE DEF excess
  <2> QED
    BY <1>1, <1>4, <1>5, <1>7, <2>1, <2>4 DEF PoolBounds
<1>12. Accounts(q, holding, resolved, submitted)' /\ StoppedClean'
  BY <1>4, ScalerFrame DEF itemVars
<1> QED
  BY <1>8, <1>9, <1>10, <1>11, <1>12 DEF IInv

LEMMA RemovedInv ==
    ASSUME IInv, Removed
    PROVE  IInv'
<1>1. PICK gone \in SUBSET {w \in doomed : at[w] = "ended"} :
          /\ victim \in gone
          /\ pool' = pool \ gone
          /\ at' = [w \in Workers |-> IF w \in gone THEN "absent" ELSE at[w]]
          /\ doomed' = doomed \ gone
          /\ idle' = idle \ gone
  BY DEF Removed
<1>2. /\ scaler = "removing"
      /\ UNCHANGED <<q, running, holding, stop, submitted, resolved>>
  BY DEF Removed, itemVars
<1>3. TypeOK /\ Tasks /\ Scaling /\ PoolBounds
  BY DEF IInv
<1>4. \/ \E v \in doomed' : at[v] # "ended" /\ BeginRemoval(v)
      \/ /\ doomed' = {} /\ scaler' = (IF running THEN "sleeping" ELSE "ended")
         /\ victim' = None /\ cancelled' = cancelled
  BY DEF Removed
<1>5. /\ gone \subseteq doomed /\ doomed \subseteq pool /\ pool \subseteq Workers
      /\ \A w \in gone : at[w] = "ended" /\ holding[w] = None /\ ~cancelled[w]
  BY <1>1, <1>3 DEF TypeOK, Tasks, Scaling
<1>6. /\ at' \in [Workers -> Places] /\ pool' \subseteq Workers
      /\ doomed' \subseteq pool' /\ doomed' \subseteq Workers /\ idle' \subseteq Workers
      /\ \A w \in Workers : at'[w] = "absent" <=> w \notin pool'
      /\ \A w \in Workers : at'[w] = "executing" <=> holding[w] # None
      /\ \A w \in Workers : cancelled[w] => at'[w] \notin {"absent", "ended"}
  BY <1>1, <1>3, <1>5 DEF TypeOK, Tasks, Places
<1>7. running => \A w \in Workers : ~cancelled[w]
  BY <1>1, <1>3, <1>5 DEF Tasks
<1>8. running => \A w \in pool' : at'[w] # "ended"
  BY <1>1, <1>3, <1>5 DEF PoolBounds, TypeOK
<1>9. /\ Active' <= MaxWorkers \/ Active' = MinWorkers
      /\ running => Active' >= MinWorkers
      /\ doomed' # {} => Active' - Cardinality(doomed') > MinWorkers
  <2>1. /\ IsFiniteSet(pool) /\ IsFiniteSet(doomed) /\ IsFiniteSet(gone)
        /\ Cardinality(pool) \in Nat /\ Cardinality(doomed) \in Nat /\ Cardinality(gone) \in Nat
        /\ Cardinality(gone) <= Cardinality(doomed)
    <3>1. IsFiniteSet(pool)
      BY <1>5, PoolAssumption, FS_Subset
    <3>2. IsFiniteSet(doomed)
      BY <1>5, <3>1, FS_Subset
    <3>3. IsFiniteSet(gone) /\ Cardinality(gone) <= Cardinality(doomed)
      BY <1>5, <3>2, FS_Subset
    <3> QED
      BY <3>1, <3>2, <3>3, FS_CardinalityType
  <2>2. Cardinality(pool \ gone) = Cardinality(pool) - Cardinality(gone)
    <3>1. pool \cap gone = gone
      BY <1>5
    <3> QED
      BY <2>1, <3>1, FS_Difference
  <2>3. Cardinality(doomed \ gone) = Cardinality(doomed) - Cardinality(gone)
    <3>1. doomed \cap gone = gone
      BY <1>5
    <3> QED
      BY <2>1, <3>1, FS_Difference
  <2>4. Active - Cardinality(doomed) > MinWorkers /\ Active <= MaxWorkers
    <3>1. doomed # {}
      BY <1>1
    <3>2. Active - Cardinality(doomed) > MinWorkers
      BY <1>3, <3>1 DEF PoolBounds
    <3> QED
      BY <1>3, <2>1, <3>2, PoolAssumption DEF PoolBounds, Active
  <2>5. Active' = Cardinality(pool) - Cardinality(gone) /\ Active = Cardinality(pool)
    BY <1>1, <2>2 DEF Active
  <2>6. Cardinality(doomed') = Cardinality(doomed) - Cardinality(gone)
    BY <1>1, <2>3
  <2> QED
    BY <2>1, <2>4, <2>5, <2>6, PoolAssumption
<1>10. Accounts(q, holding, resolved, submitted)' /\ StoppedClean'
  <2>1. \A w \in Workers : at'[w] = "executing" => at[w] = "executing"
    BY <1>1
  <2> QED
    BY <1>2, <2>1, ScalerFrame DEF itemVars
<1>11. CASE \E v \in doomed' : at[v] # "ended" /\ BeginRemoval(v)
  <2>1. PICK v \in doomed' : at[v] # "ended" /\ BeginRemoval(v)
    BY <1>11
  <2>2. /\ scaler' = "removing" /\ victim' = v /\ cancelled' = [cancelled EXCEPT ![v] = TRUE]
    BY <2>1 DEF BeginRemoval
  <2>3. v \in Workers /\ v # None /\ at'[v] \notin {"absent", "ended"}
    BY <1>1, <1>6, <2>1, PoolAssumption
  <2>4. TypeOK'
    BY <1>2, <1>3, <1>6, <2>2, <2>3 DEF TypeOK
  <2>5. Tasks'
    BY <1>2, <1>3, <1>6, <1>7, <2>2, <2>3 DEF Tasks, TypeOK
  <2>6. Scaling'
    BY <1>2, <1>3, <1>6, <2>1, <2>2, <2>3 DEF Scaling
  <2>7. PoolBounds'
    BY <1>2, <1>8, <1>9 DEF PoolBounds
  <2> QED
    BY <1>10, <2>4, <2>5, <2>6, <2>7 DEF IInv
<1>12. CASE /\ doomed' = {} /\ scaler' = (IF running THEN "sleeping" ELSE "ended")
            /\ victim' = None /\ cancelled' = cancelled
  <2>1. TypeOK'
    BY <1>2, <1>3, <1>6, <1>12 DEF TypeOK
  <2>2. Tasks'
    BY <1>2, <1>6, <1>7, <1>12 DEF Tasks
  <2>3. Scaling'
    BY <1>2, <1>3, <1>6, <1>12 DEF Scaling
  <2>4. PoolBounds'
    BY <1>2, <1>8, <1>9 DEF PoolBounds
  <2> QED
    BY <1>10, <2>1, <2>2, <2>3, <2>4 DEF IInv
<1> QED
  BY <1>4, <1>11, <1>12

LEMMA StopCalledInv ==
    ASSUME IInv, StopCalled
    PROVE  IInv'
<1>1. /\ stop = "uncalled" /\ running' = FALSE /\ stop' = "scaler"
      /\ cancelled' = [w \in Workers |-> cancelled[w] \/ (w = victim /\ at[w] # "ended")]
      /\ UNCHANGED <<q, pool, at, holding, idle, scaler, doomed, victim, submitted, resolved>>
  BY DEF StopCalled, scalerVars, itemVars
<1>2. TypeOK /\ Tasks /\ Scaling /\ PoolBounds
  BY DEF IInv
<1>3. victim # None => victim \in pool
  BY <1>2 DEF Scaling
<1>4. cancelled' \in [Workers -> BOOLEAN]
  BY <1>1, <1>2 DEF TypeOK
<1>5. TypeOK'
  BY <1>1, <1>2, <1>4 DEF TypeOK
<1>6. \A w \in Workers : cancelled'[w] => at'[w] \notin {"absent", "ended"}
  BY <1>1, <1>2, <1>3, PoolAssumption DEF Tasks
<1>7. Tasks' /\ Scaling'
  BY <1>1, <1>2, <1>6 DEF Tasks, Scaling
<1>8. PoolBounds' /\ StoppedClean' /\ Accounts(q, holding, resolved, submitted)'
  <2>1. Active' = Active
    BY <1>1 DEF Active
  <2> QED
    BY <1>1, <2>1 DEF IInv, PoolBounds, StoppedClean
<1> QED
  BY <1>5, <1>7, <1>8 DEF IInv

LEMMA ScalerStoppedInv ==
    ASSUME IInv, ScalerStopped
    PROVE  IInv'
<1>1. /\ stop = "scaler" /\ scaler = "sleeping" /\ scaler' = "ended"
      /\ UNCHANGED <<q, running, pool, at, holding, cancelled, idle, doomed, victim, stop, submitted, resolved>>
  BY DEF ScalerStopped, poolVars, itemVars
<1>2. TypeOK'
  BY <1>1 DEF IInv, TypeOK
<1>3. Tasks' /\ Scaling'
  BY <1>1 DEF IInv, Tasks, Scaling
<1>4. PoolBounds' /\ StoppedClean' /\ Accounts(q, holding, resolved, submitted)'
  <2>1. Active' = Active
    BY <1>1 DEF Active
  <2> QED
    BY <1>1, <2>1 DEF IInv, PoolBounds, StoppedClean
<1> QED
  BY <1>2, <1>3, <1>4 DEF IInv

LEMMA JoinInv ==
    ASSUME IInv, Join
    PROVE  IInv'
<1>1. /\ stop = "scaler" /\ scaler = "ended" /\ stop' = "joining"
      /\ UNCHANGED <<q, running, pool, at, holding, cancelled, idle, scaler, doomed, victim, submitted, resolved>>
  BY DEF Join, poolVars, scalerVars, itemVars
<1>2. TypeOK'
  BY <1>1 DEF IInv, TypeOK
<1>3. Tasks' /\ Scaling'
  BY <1>1 DEF IInv, Tasks, Scaling
<1>4. PoolBounds' /\ StoppedClean' /\ Accounts(q, holding, resolved, submitted)'
  <2>1. Active' = Active
    BY <1>1 DEF Active
  <2> QED
    BY <1>1, <2>1 DEF IInv, PoolBounds, StoppedClean
<1> QED
  BY <1>2, <1>3, <1>4 DEF IInv

\* join() returns only when nothing waits and nobody executes.
LEMMA CancelAllInv ==
    ASSUME IInv, CancelAll
    PROVE  IInv'
<1>1. /\ stop = "joining" /\ q.unfinished = 0 /\ stop' = "gathering"
      /\ cancelled' = [w \in Workers |-> cancelled[w] \/ (w \in pool /\ at[w] # "ended")]
      /\ UNCHANGED <<q, running, pool, at, holding, idle, scaler, doomed, victim, submitted, resolved>>
  BY DEF CancelAll, scalerVars, itemVars
<1>2. TypeOK /\ Tasks /\ Scaling /\ PoolBounds /\ Accounts(q, holding, resolved, submitted)
  BY DEF IInv
<1>3. TypeOK'
  <2>1. cancelled' \in [Workers -> BOOLEAN]
    BY <1>1, <1>2 DEF TypeOK
  <2> QED
    BY <1>1, <1>2, <2>1 DEF TypeOK
<1>4. Tasks' /\ Scaling'
  <2>1. \A w \in Workers : cancelled'[w] => at'[w] \notin {"absent", "ended"}
    BY <1>1, <1>2 DEF Tasks
  <2> QED
    BY <1>1, <1>2, <2>1 DEF Tasks, Scaling
<1>5. q.waiting = {} /\ Executing = {}
  <2>1. /\ IsFiniteSet(q.waiting) /\ Cardinality(q.waiting) \in Nat
        /\ IsFiniteSet(Busy(holding)) /\ Cardinality(Busy(holding)) \in Nat
    BY <1>2, BusyFinite, FS_CardinalityType DEF Accounts
  <2>2. Cardinality(q.waiting) + Cardinality(Busy(holding)) = 0
    BY <1>1, <1>2 DEF Accounts
  <2>3. q.waiting = {} /\ Busy(holding) = {}
    BY <2>1, <2>2, FS_EmptySet
  <2> QED
    BY <1>2, <2>3 DEF Busy, Executing, Tasks
<1>6. PoolBounds' /\ Accounts(q, holding, resolved, submitted)'
  <2>1. Active' = Active
    BY <1>1 DEF Active
  <2> QED
    BY <1>1, <1>2, <2>1 DEF PoolBounds
<1>7. StoppedClean'
  <2>1. Executing' = Executing /\ scaler' = "ended"
    BY <1>1, <1>2 DEF Executing, Scaling
  <2> QED
    BY <1>1, <1>5, <2>1 DEF StoppedClean
<1> QED
  BY <1>3, <1>4, <1>6, <1>7 DEF IInv

LEMMA StopReturnsInv ==
    ASSUME IInv, StopReturns
    PROVE  IInv'
<1>1. /\ stop = "gathering" /\ \A w \in pool : at[w] = "ended"
      /\ stop' = "returned" /\ pool' = {} /\ at' = [w \in Workers |-> "absent"] /\ idle' = {}
      /\ UNCHANGED <<q, running, holding, cancelled, scaler, doomed, victim, submitted, resolved>>
  BY DEF StopReturns, scalerVars, itemVars
<1>2. TypeOK /\ Tasks /\ Scaling /\ PoolBounds /\ StoppedClean
  BY DEF IInv
<1>3. TypeOK'
  BY <1>1, <1>2 DEF TypeOK, Places
<1>4. Executing = {} /\ scaler = "ended" /\ q.waiting = {} /\ ~running /\ doomed = {}
  BY <1>1, <1>2 DEF StoppedClean, Scaling
<1>5. \A w \in Workers : holding[w] = None /\ ~cancelled[w]
  BY <1>1, <1>2, <1>4 DEF Tasks, Executing
<1>6. Tasks' /\ Scaling'
  BY <1>1, <1>2, <1>4, <1>5 DEF Tasks, Scaling
<1>7. PoolBounds'
  <2>1. Active' = 0
    BY <1>1, FS_EmptySet DEF Active
  <2> QED
    BY <1>1, <1>4, <2>1, PoolAssumption DEF PoolBounds
<1>8. StoppedClean' /\ Accounts(q, holding, resolved, submitted)'
  <2>1. Executing' = {}
    BY <1>1 DEF Executing
  <2> QED
    BY <1>1, <1>4, <2>1 DEF IInv, StoppedClean
<1> QED
  BY <1>3, <1>6, <1>7, <1>8 DEF IInv

LEMMA StutterInv ==
    ASSUME IInv, UNCHANGED vars
    PROVE  IInv'
<1>1. UNCHANGED <<q, running, pool, at, holding, cancelled, idle, scaler, doomed, victim, stop, submitted, resolved>>
  BY DEF vars, poolVars, scalerVars, itemVars
<1>2. TypeOK' /\ Tasks' /\ Scaling'
  BY <1>1 DEF IInv, TypeOK, Tasks, Scaling
<1>3. PoolBounds' /\ StoppedClean' /\ Accounts(q, holding, resolved, submitted)'
  <2>1. Active' = Active /\ Executing' = Executing
    BY <1>1 DEF Active, Executing
  <2> QED
    BY <1>1, <2>1 DEF IInv, PoolBounds, StoppedClean
<1> QED
  BY <1>2, <1>3 DEF IInv

LEMMA NextInv == IInv /\ [Next]_vars => IInv'
<1> SUFFICES ASSUME IInv, [Next]_vars PROVE IInv'
  OBVIOUS
<1>1. CASE \E i \in Items : Submit(i)
  BY <1>1, SubmitInv
<1>2. CASE \E w \in Workers : WorkerStep(w)
  BY <1>2, LoopInv, TakeWaitedInv, GiveUpWaitInv, CompleteInv, AbortInv, DieInv DEF WorkerStep
<1>3. CASE ScalerStep
  BY <1>3, ScaleUpInv, ScaleDownInv, RemovedInv DEF ScalerStep
<1>4. CASE StopCalled
  BY <1>4, StopCalledInv
<1>5. CASE StopStep
  BY <1>5, ScalerStoppedInv, JoinInv, CancelAllInv, StopReturnsInv DEF StopStep
<1>6. CASE UNCHANGED vars
  BY <1>6, StutterInv
<1> QED
  BY <1>1, <1>2, <1>3, <1>4, <1>5, <1>6 DEF Next

LEMMA Invariant == Spec => []IInv
<1> QED
  BY InitInv, NextInv, PTL DEF Spec

\* The accounts say what ItemsAccounted says.
LEMMA AccountsAgree == IInv => ItemsAccounted
<1> SUFFICES ASSUME IInv PROVE ItemsAccounted
  OBVIOUS
<1>1. Tasks /\ TypeOK /\ Accounts(q, holding, resolved, submitted)
  BY DEF IInv
<1>2. Busy(holding) = Executing
  BY <1>1 DEF Busy, Executing, Tasks
<1>3. /\ q.inFlight = Cardinality(Executing)
      /\ q.unfinished = Cardinality(q.waiting) + Cardinality(Executing)
      /\ \A v, w \in Executing : holding[v] = holding[w] => v = w
      /\ \A e, f \in q.waiting : e.item = f.item => e = f
  BY <1>1, <1>2 DEF Accounts
<1>4. Waiting \cap Held = {} /\ resolved \cap (Waiting \cup Held) = {}
  BY <1>1, <1>2 DEF Accounts, Waiting, Held
<1> QED
  BY <1>3, <1>4 DEF ItemsAccounted

(***************************************************************************)
(* The pool is a Dispatcher.                                               *)
(***************************************************************************)
Queued(qu) == {e.item : e \in qu.waiting}

Arrived(qu) == {p \in Queued(qu) \X Queued(qu) :
                   \E e, f \in qu.waiting : e.item = p[1] /\ f.item = p[2] /\ e.seq < f.seq}

Taken(h) == {h[w] : w \in Busy(h)}

LEMMA SameSets ==
    ASSUME Tasks
    PROVE  Waiting = Queued(q) /\ Ahead = Arrived(q) /\ Held = Taken(holding)
<1>1. Executing = Busy(holding)
  BY DEF Executing, Busy, Tasks
<1> QED
  BY <1>1 DEF Waiting, Ahead, Held, Queued, Arrived, Taken

LEMMA SameSetsNext ==
    ASSUME Tasks'
    PROVE  Waiting' = Queued(q') /\ Ahead' = Arrived(q') /\ Held' = Taken(holding')
<1>1. Executing' = Busy(holding')
  BY DEF Executing, Busy, Tasks
<1> QED
  BY <1>1 DEF Waiting, Ahead, Held, Queued, Arrived, Taken

\* put(): the item waits behind all the others.
LEMMA PutQueued ==
    ASSUME NEW qu \in QueueType, NEW h, NEW res, NEW sub, Accounts(qu, h, res, sub),
           NEW i \in Items, i \notin sub
    PROVE  /\ Queued(Put(qu, i)) = Queued(qu) \cup {i}
           /\ Arrived(Put(qu, i)) = Arrived(qu) \cup (Queued(qu) \X {i})
<1> DEFINE new == [item |-> i, seq |-> qu.seq]
           p == Put(qu, i)
<1>1. p.waiting = qu.waiting \cup {new}
  BY DEF Put, QueueType
<1>2. new.item = i /\ new.seq = qu.seq
  OBVIOUS
<1>3. /\ \A e \in qu.waiting : e.seq \in Nat /\ e.seq < qu.seq /\ e.item # i
      /\ qu.seq \in Nat
  BY DEF Accounts, QueueType, WorkItem
<1> HIDE DEF new, p
<1>4. Queued(p) = Queued(qu) \cup {i}
  BY <1>1, <1>2 DEF Queued
<1>5. ASSUME NEW x \in Queued(p), NEW y \in Queued(p)
      PROVE  <<x, y>> \in Arrived(p) <=> <<x, y>> \in Arrived(qu) \/ (x \in Queued(qu) /\ y = i)
  <2>1. <<x, y>> \in Arrived(p) <=>
          \E e, f \in p.waiting : e.item = x /\ f.item = y /\ e.seq < f.seq
    BY <1>5 DEF Arrived
  <2>2. <<x, y>> \in Arrived(qu) <=>
          \E e, f \in qu.waiting : e.item = x /\ f.item = y /\ e.seq < f.seq
    BY <1>5 DEF Arrived, Queued
  <2>3. x \in Queued(qu) <=> \E e \in qu.waiting : e.item = x
    BY DEF Queued
  <2>4. ~(new.seq < new.seq) /\ \A f \in qu.waiting : ~(new.seq < f.seq) /\ f.seq < new.seq
    BY <1>2, <1>3
  <2> QED
    BY <1>1, <1>2, <1>3, <2>1, <2>2, <2>3, <2>4
<1>6. /\ Arrived(p) \subseteq Queued(p) \X Queued(p)
      /\ Arrived(qu) \cup (Queued(qu) \X {i}) \subseteq Queued(p) \X Queued(p)
  BY <1>4 DEF Arrived
<1>7. Arrived(p) = Arrived(qu) \cup (Queued(qu) \X {i})
  BY <1>5, <1>6
<1> QED
  BY <1>4, <1>7 DEF p

\* get(): the item taken is the first in the order of the Dispatcher, and leaves it.
LEMMA GotQueued ==
    ASSUME NEW qu \in QueueType, NEW h, NEW res, NEW sub, Accounts(qu, h, res, sub),
           qu.waiting # {}, NEW i, i = First(qu).item
    PROVE  /\ i \in Queued(qu)
           /\ \A j \in Queued(qu) \ {i} :
                 Priority[i] < Priority[j] \/ (Priority[i] = Priority[j] /\ <<i, j>> \in Arrived(qu))
           /\ Queued(Got(qu)) = Queued(qu) \ {i}
           /\ Arrived(Got(qu)) = {p \in Arrived(qu) : p[1] # i /\ p[2] # i}
<1> DEFINE e0 == First(qu)
           g == Got(qu)
<1>1. e0 \in qu.waiting /\ \A f \in qu.waiting \ {e0} : Before(e0, f)
  BY FirstWaits DEF Accounts
<1>2. g.waiting = qu.waiting \ {e0}
  BY DEF Got, QueueType
<1>3. i = e0.item
  OBVIOUS
<1> HIDE DEF e0, g
<1>4. i \in Queued(qu)
  BY <1>1, <1>3 DEF Queued
<1>5. \A f \in qu.waiting : f.item = i <=> f = e0
  BY <1>1, <1>3 DEF Accounts
<1>6. ASSUME NEW j \in Queued(qu) \ {i}
      PROVE  Priority[i] < Priority[j] \/ (Priority[i] = Priority[j] /\ <<i, j>> \in Arrived(qu))
  <2>1. PICK f \in qu.waiting : f.item = j
    BY DEF Queued
  <2>2. Before(e0, f)
    BY <1>1, <1>3, <2>1
  <2> QED
    BY <1>1, <1>3, <1>4, <2>1, <2>2 DEF Before, Arrived
<1>7. Queued(g) = Queued(qu) \ {i}
  BY <1>2, <1>5 DEF Queued
<1>8. \A x, y \in Queued(g) :
         /\ <<x, y>> \in Arrived(g) <=>
               \E e, f \in g.waiting : e.item = x /\ f.item = y /\ e.seq < f.seq
         /\ <<x, y>> \in Arrived(qu) <=>
               \E e, f \in qu.waiting : e.item = x /\ f.item = y /\ e.seq < f.seq
  BY <1>7 DEF Arrived
<1>9. \A x, y \in Queued(g) : <<x, y>> \in Arrived(g) <=> <<x, y>> \in Arrived(qu)
  BY <1>2, <1>5, <1>7, <1>8
<1>10. /\ Arrived(g) \subseteq Queued(g) \X Queued(g)
       /\ Arrived(qu) \subseteq Queued(qu) \X Queued(qu)
  BY DEF Arrived
<1>11. Arrived(g) = {p \in Arrived(qu) : p[1] # i /\ p[2] # i}
  BY <1>7, <1>9, <1>10
<1> QED
  BY <1>4, <1>6, <1>7, <1>11 DEF g

LEMMA TakenMore ==
    ASSUME NEW h \in [Workers -> Items \cup {None}], NEW w \in Workers, h[w] = None,
           NEW i \in Items
    PROVE  Taken([h EXCEPT ![w] = i]) = Taken(h) \cup {i}
<1> DEFINE k == [h EXCEPT ![w] = i]
<1>1. k[w] = i /\ \A v \in Workers \ {w} : k[v] = h[v]
  OBVIOUS
<1>2. Busy(k) = Busy(h) \cup {w} /\ w \notin Busy(h)
  BY PoolAssumption DEF Busy
<1> HIDE DEF k
<1>3. Taken(k) = Taken(h) \cup {i}
  BY <1>1, <1>2 DEF Taken, Busy
<1> QED
  BY <1>3 DEF k

LEMMA TakenLess ==
    ASSUME NEW h \in [Workers -> Items \cup {None}], NEW w \in Workers, h[w] # None,
           \A u, v \in Busy(h) : h[u] = h[v] => u = v
    PROVE  /\ h[w] \in Taken(h)
           /\ Taken([h EXCEPT ![w] = None]) = Taken(h) \ {h[w]}
<1> DEFINE k == [h EXCEPT ![w] = None]
<1>1. \A v \in Workers \ {w} : k[v] = h[v]
  OBVIOUS
<1>2. Busy(k) = Busy(h) \ {w} /\ w \in Busy(h)
  BY DEF Busy
<1> HIDE DEF k
<1>3. Taken(k) = Taken(h) \ {h[w]}
  BY <1>1, <1>2 DEF Taken, Busy
<1> QED
  BY <1>2, <1>3 DEF k, Taken

\* Where an item is, is one place, and Lost is what is in none of the others.
LEMMA Apart ==
    ASSUME IInv
    PROVE  /\ Waiting \subseteq Items /\ Held \subseteq Items /\ Lost \subseteq Items
           /\ Waiting \cup Held \cup resolved \subseteq submitted
           /\ Waiting \cap Held = {} /\ resolved \cap (Waiting \cup Held) = {}
           /\ submitted = Waiting \cup Held \cup resolved \cup Lost
<1>1. ItemsAccounted /\ TypeOK /\ Tasks /\ Accounts(q, holding, resolved, submitted)
  BY AccountsAgree DEF IInv
<1>2. Waiting \cup Held \cup resolved \subseteq submitted /\ submitted \subseteq Items
  <2>1. Waiting \cup Held \subseteq submitted
    BY <1>1, SameSets DEF Accounts, Queued, Taken
  <2> QED
    BY <1>1, <2>1 DEF Accounts, TypeOK
<1> QED
  BY <1>1, <1>2 DEF ItemsAccounted, Lost

\* A worker of the pool that executes nothing is room for one more item.
LEMMA Room ==
    ASSUME IInv, NEW w \in Workers, at[w] \notin {"absent", "executing"}
    PROVE  Dispatch!Cardinality(Held) < Larger(MinWorkers, MaxWorkers)
<1>1. TypeOK /\ Tasks /\ PoolBounds
  BY DEF IInv
<1>2. /\ IsFiniteSet(pool) /\ Active \in Nat /\ w \in pool
      /\ IsFiniteSet(pool \ {w}) /\ Cardinality(pool \ {w}) = Active - 1
  BY <1>1, PoolAssumption, FS_Subset, FS_CardinalityType, FS_RemoveElement DEF TypeOK, Tasks, Active
<1>3. Executing \subseteq pool \ {w}
  BY <1>1 DEF Executing, Tasks
<1>4. /\ IsFiniteSet(Executing) /\ Cardinality(Executing) \in Nat
      /\ Cardinality(Executing) <= Active - 1
  BY <1>2, <1>3, FS_Subset, FS_CardinalityType
<1> DEFINE item == [v \in Executing |-> holding[v]]
<1>5. item \in Surjection(Executing, Held)
  BY DEF Surjection, Held
<1>6. Cardinality(Held) <= Cardinality(Executing) /\ Cardinality(Held) \in Nat
  BY <1>4, <1>5, FS_Surjection, FS_CardinalityType
<1>7. Active <= Larger(MinWorkers, MaxWorkers)
  BY <1>1, <1>2, PoolAssumption DEF PoolBounds, Larger
<1>8. Larger(MinWorkers, MaxWorkers) \in Nat
  BY PoolAssumption DEF Larger
<1>9. Dispatch!Cardinality(Held) = Cardinality(Held)
  BY DEF Dispatch!Cardinality, Cardinality
<1> QED
  BY <1>2, <1>4, <1>6, <1>7, <1>8, <1>9

\* Whoever executes and is cancelled was chosen by the scaler, in a pool that is allowed
\* to shrink.
Spared ==
    \A w \in Workers : at[w] = "executing" /\ cancelled[w] => MaxWorkers > MinWorkers + 1

LEMMA Shrinking == IInv /\ doomed # {} => MaxWorkers > MinWorkers + 1
<1> SUFFICES ASSUME IInv, doomed # {} PROVE MaxWorkers > MinWorkers + 1
  OBVIOUS
<1>1. TypeOK /\ Scaling /\ PoolBounds
  BY DEF IInv
<1>2. IsFiniteSet(pool) /\ IsFiniteSet(doomed)
  BY <1>1, PoolAssumption, FS_Subset DEF TypeOK
<1>3. Active \in Nat /\ Cardinality(doomed) \in Nat /\ Cardinality(doomed) # 0
  BY <1>2, FS_CardinalityType, FS_EmptySet DEF Active
<1> QED
  BY <1>1, <1>3, PoolAssumption DEF PoolBounds

LEMMA SparedStep == IInv /\ IInv' /\ Spared /\ [Next]_vars => Spared'
<1>0. (IInv /\ doomed # {} => MaxWorkers > MinWorkers + 1)'
  BY Shrinking, PTL
<1> SUFFICES ASSUME IInv, IInv', Spared, [Next]_vars,
                    NEW w \in Workers, at'[w] = "executing", cancelled'[w]
             PROVE  MaxWorkers > MinWorkers + 1
  BY DEF Spared
<1>1. TypeOK /\ Tasks /\ Scaling /\ StoppedClean /\ TypeOK' /\ Scaling'
  BY DEF IInv
<1>2. CASE at[w] = "executing" /\ cancelled[w]
  BY <1>2 DEF Spared
<1>3. CASE doomed # {}
  BY <1>3, Shrinking
<1>4. CASE doomed' # {}
  BY <1>0, <1>4
<1>5. ASSUME doomed = {}, doomed' = {}, ~(at[w] = "executing" /\ cancelled[w])
      PROVE  FALSE
  <2>1. victim = None /\ victim' = None
    BY <1>1, <1>5 DEF Scaling
  <2>2. CASE \E i \in Items : Submit(i)
    BY <1>5, <2>2 DEF Submit, poolVars
  <2>3. ASSUME NEW v \in Workers, WorkerStep(v)
        PROVE  FALSE
    <3>1. CASE Loop(v)
      BY <1>1, <1>5, <3>1 DEF Loop, LoopFrom, TypeOK
    <3>2. CASE TakeWaited(v)
      BY <1>1, <1>5, <3>2 DEF TakeWaited, TypeOK
    <3>3. CASE GiveUpWait(v)
      BY <1>1, <1>5, <3>3 DEF GiveUpWait, TypeOK
    <3>4. CASE Complete(v)
      BY <1>1, <1>5, <3>4 DEF Complete, LoopFrom, TypeOK
    <3>5. CASE Abort(v)
      BY <1>1, <1>5, <3>5 DEF Abort, TypeOK
    <3>6. CASE Die(v)
      BY <1>1, <1>5, <3>6 DEF Die, TypeOK
    <3> QED
      BY <2>3, <3>1, <3>2, <3>3, <3>4, <3>5, <3>6 DEF WorkerStep
  <2>4. CASE ScalerStep
    <3>1. CASE ScaleUp
      BY <1>5, <3>1 DEF ScaleUp
    <3>2. CASE ScaleDown
      BY <1>5, <3>2 DEF ScaleDown
    <3>3. CASE Removed
      BY <1>5, <3>3 DEF Removed
    <3> QED
      BY <2>4, <3>1, <3>2, <3>3 DEF ScalerStep
  <2>5. CASE StopCalled
    BY <1>1, <1>5, <2>1, <2>5, PoolAssumption DEF StopCalled
  <2>6. CASE StopStep
    <3>1. CASE ScalerStopped \/ Join
      BY <1>5, <3>1 DEF ScalerStopped, Join, poolVars
    <3>2. CASE CancelAll
      <4>1. Executing' = {}
        BY <3>2 DEF CancelAll, IInv, StoppedClean
      <4> QED
        BY <4>1 DEF Executing
    <3>3. CASE StopReturns
      BY <3>3 DEF StopReturns
    <3> QED
      BY <2>6, <3>1, <3>2, <3>3 DEF StopStep
  <2>7. CASE UNCHANGED vars
    BY <1>5, <2>7 DEF vars, poolVars
  <2> QED
    BY <2>2, <2>3, <2>4, <2>5, <2>6, <2>7 DEF Next
<1> QED
  BY <1>2, <1>3, <1>4, <1>5

LEMMA SubmitDispatch ==
    ASSUME IInv, IInv', NEW i \in Items, Submit(i)
    PROVE  Dispatch!Submit(i)
<1>1. /\ i \notin submitted /\ stop = "uncalled" /\ q' = Put(q, i)
      /\ submitted' = submitted \cup {i} /\ holding' = holding
      /\ stop' = stop /\ resolved' = resolved
  BY DEF Submit, poolVars, itemVars
<1>2. Tasks /\ Tasks' /\ TypeOK /\ Accounts(q, holding, resolved, submitted)
  BY DEF IInv
<1>3. /\ Waiting = Queued(q) /\ Ahead = Arrived(q) /\ Held = Taken(holding)
      /\ Waiting' = Queued(q') /\ Ahead' = Arrived(q') /\ Held' = Taken(holding')
  BY <1>2, SameSets, SameSetsNext
<1>4. Waiting' = Waiting \cup {i} /\ Ahead' = Ahead \cup (Waiting \X {i})
  BY <1>1, <1>2, <1>3, PutQueued DEF TypeOK
<1>5. Held' = Held /\ Phase = "open" /\ Phase' = "open"
  BY <1>1, <1>3 DEF Phase
<1>6. Lost' = Lost /\ i \notin Waiting \cup Held \cup resolved \cup Lost
  BY <1>1, <1>4, <1>5, Apart DEF Lost
<1> QED
  BY <1>1, <1>4, <1>5, <1>6 DEF Dispatch!Submit

\* A worker that had nothing in hand takes the first item.
LEMMA TakeDispatch ==
    ASSUME IInv, IInv', NEW w \in Workers, at[w] \notin {"absent", "executing"},
           q.waiting # {}, q' = Got(q), holding' = [holding EXCEPT ![w] = First(q).item],
           UNCHANGED <<resolved, submitted, stop>>
    PROVE  \E i \in Items : Dispatch!Start(i)
<1> DEFINE i == First(q).item
<1>1. Tasks /\ Tasks' /\ TypeOK /\ Accounts(q, holding, resolved, submitted)
  BY DEF IInv
<1>2. /\ Waiting = Queued(q) /\ Ahead = Arrived(q) /\ Held = Taken(holding)
      /\ Waiting' = Queued(q') /\ Ahead' = Arrived(q') /\ Held' = Taken(holding')
  BY <1>1, SameSets, SameSetsNext
<1>3. holding[w] = None /\ q \in QueueType /\ holding \in [Workers -> Items \cup {None}]
  BY <1>1 DEF Tasks, TypeOK
<1>4. /\ i \in Queued(q)
      /\ \A j \in Queued(q) \ {i} :
            Priority[i] < Priority[j] \/ (Priority[i] = Priority[j] /\ <<i, j>> \in Arrived(q))
      /\ Queued(Got(q)) = Queued(q) \ {i}
      /\ Arrived(Got(q)) = {p \in Arrived(q) : p[1] # i /\ p[2] # i}
  BY <1>1, <1>3, GotQueued
<1>5. holding' = [holding EXCEPT ![w] = i]
  OBVIOUS
<1> HIDE DEF i
<1>6. i \in Items
  BY <1>2, <1>4, Apart
<1>7. Dispatch!First(i) /\ Dispatch!Leave(i)
  BY <1>2, <1>4 DEF Dispatch!First, Dispatch!Leave
<1>8. Held' = Held \cup {i} /\ Waiting' = Waiting \ {i} /\ i \in Waiting
  <2>1. Taken([holding EXCEPT ![w] = i]) = Taken(holding) \cup {i}
    BY <1>3, <1>6, TakenMore
  <2> QED
    BY <1>2, <1>4, <1>5, <2>1
<1>9. Lost' = Lost /\ Phase' = Phase /\ resolved' = resolved
  BY <1>8 DEF Lost, Phase
<1>10. Dispatch!Cardinality(Held) < Larger(MinWorkers, MaxWorkers)
  BY Room
<1> QED
  BY <1>6, <1>7, <1>8, <1>9, <1>10 DEF Dispatch!Start

\* A worker lets go of its item, with a result or without.
LEMMA DropDispatch ==
    ASSUME IInv, IInv', NEW w \in Workers, at[w] = "executing",
           q'.waiting = q.waiting, holding' = [holding EXCEPT ![w] = None],
           UNCHANGED <<submitted, stop>>
    PROVE  /\ resolved' = resolved \cup {holding[w]} => Dispatch!Finish(holding[w])
           /\ resolved' = resolved /\ MaxWorkers > MinWorkers + 1 => Dispatch!Lose(holding[w])
<1>1. Tasks /\ Tasks' /\ TypeOK /\ Accounts(q, holding, resolved, submitted)
  BY DEF IInv
<1>2. /\ Held = Taken(holding) /\ Held' = Taken(holding')
  BY <1>1, SameSets, SameSetsNext
<1>3. holding[w] # None /\ holding \in [Workers -> Items \cup {None}]
  BY <1>1 DEF Tasks, TypeOK
<1>4. holding[w] \in Held /\ Held' = Held \ {holding[w]}
  BY <1>1, <1>2, <1>3, TakenLess DEF Accounts
<1>5. Waiting' = Waiting /\ Ahead' = Ahead /\ Phase' = Phase
  BY DEF Waiting, Ahead, Phase
<1>6. ASSUME resolved' = resolved \cup {holding[w]} PROVE Dispatch!Finish(holding[w])
  <2>1. Lost' = Lost
    BY <1>4, <1>5, <1>6 DEF Lost
  <2> QED
    BY <1>4, <1>5, <1>6, <2>1, Apart DEF Dispatch!Finish
<1>7. ASSUME resolved' = resolved, MaxWorkers > MinWorkers + 1
      PROVE  Dispatch!Lose(holding[w])
  <2>1. Lost' = Lost \cup {holding[w]}
    BY <1>4, <1>5, <1>7, Apart DEF Lost
  <2> QED
    BY <1>4, <1>5, <1>7, <2>1 DEF Dispatch!Lose
<1> QED
  BY <1>6, <1>7

\* A worker finishes its item and takes the first one that waits.
LEMMA NextDispatch ==
    ASSUME IInv, IInv', NEW w \in Workers, at[w] = "executing",
           q.waiting # {}, q' = Got(Done(q)),
           holding' = [holding EXCEPT ![w] = First(Done(q)).item],
           resolved' = resolved \cup {holding[w]}, running, UNCHANGED <<submitted, stop>>
    PROVE  \E i, j \in Items : Dispatch!FinishAndStart(i, j)
<1> DEFINE d == Done(q)
           h == [holding EXCEPT ![w] = None]
           i == holding[w]
           j == First(d).item
<1>1. Tasks /\ Tasks' /\ TypeOK /\ Scaling /\ Accounts(q, holding, resolved, submitted)
  BY DEF IInv
<1>2. /\ Waiting = Queued(q) /\ Ahead = Arrived(q) /\ Held = Taken(holding)
      /\ Waiting' = Queued(q') /\ Ahead' = Arrived(q') /\ Held' = Taken(holding')
  BY <1>1, SameSets, SameSetsNext
<1>3. /\ holding[w] # None /\ q \in QueueType /\ holding \in [Workers -> Items \cup {None}]
      /\ h \in [Workers -> Items \cup {None}] /\ h[w] = None
  BY <1>1 DEF Tasks, TypeOK
<1>4. d \in QueueType /\ d.waiting = q.waiting /\ Accounts(d, h, resolved', submitted)
  BY <1>1, <1>3, DoneAccounts
<1>5. holding' = [h EXCEPT ![w] = j] /\ q' = Got(d)
  OBVIOUS
<1> HIDE DEF d
<1>6. Queued(d) = Queued(q) /\ Arrived(d) = Arrived(q)
  BY <1>4 DEF Queued, Arrived
<1>7. /\ j \in Queued(d)
      /\ \A k \in Queued(d) \ {j} :
            Priority[j] < Priority[k] \/ (Priority[j] = Priority[k] /\ <<j, k>> \in Arrived(d))
      /\ Queued(Got(d)) = Queued(d) \ {j}
      /\ Arrived(Got(d)) = {p \in Arrived(d) : p[1] # j /\ p[2] # j}
  BY <1>4, GotQueued
<1> HIDE DEF j
<1>8. i \in Held /\ Taken(h) = Held \ {i}
  BY <1>1, <1>2, <1>3, TakenLess DEF Accounts
<1> HIDE DEF h
<1>9. i \in Items /\ j \in Items
  BY <1>2, <1>6, <1>7, <1>8, Apart
<1>10. Held' = (Held \ {i}) \cup {j}
  <2>1. Taken([h EXCEPT ![w] = j]) = Taken(h) \cup {j}
    BY <1>3, <1>9, TakenMore
  <2> QED
    BY <1>2, <1>5, <1>8, <2>1
<1>11. Dispatch!First(j) /\ Dispatch!Leave(j)
  BY <1>2, <1>5, <1>6, <1>7 DEF Dispatch!First, Dispatch!Leave
<1>12. Waiting' = Waiting \ {j} /\ j \in Waiting
  BY <1>2, <1>5, <1>6, <1>7
<1>13. Lost' = Lost
  BY <1>8, <1>10, <1>12 DEF Lost
<1>14. Phase = "open" /\ Phase' = Phase
  BY <1>1 DEF Phase, Scaling
<1> QED
  BY <1>8, <1>9, <1>10, <1>11, <1>13, <1>14 DEF Dispatch!FinishAndStart

\* The others move no item.
LEMMA QuietDispatch ==
    ASSUME IInv, IInv', UNCHANGED <<q, holding, resolved, submitted>>
    PROVE  /\ UNCHANGED <<Waiting, Held, resolved, Lost, Ahead>>
           /\ stop' = stop => UNCHANGED Dispatch!vars
<1>1. Tasks /\ Tasks'
  BY DEF IInv
<1>2. Held' = Held
  BY <1>1, SameSets, SameSetsNext
<1>3. Waiting' = Waiting /\ Ahead' = Ahead
  BY DEF Waiting, Ahead
<1>4. Lost' = Lost /\ (stop' = stop => Phase' = Phase)
  BY <1>2, <1>3 DEF Lost, Phase
<1> QED
  BY <1>2, <1>3, <1>4 DEF Dispatch!vars

LEMMA InitDispatch == Init => Dispatch!Init
<1> SUFFICES ASSUME Init PROVE Dispatch!Init
  OBVIOUS
<1>1. q.waiting = {} /\ submitted = {} /\ resolved = {} /\ stop = "uncalled"
  BY DEF Init, EmptyQueue
<1>2. Executing = {}
  BY DEF Init, Executing
<1> QED
  BY <1>1, <1>2 DEF Dispatch!Init, Waiting, Held, Lost, Ahead, Phase

LEMMA StepDispatch == IInv /\ IInv' /\ Spared /\ [Next]_vars => [Dispatch!Next]_Dispatch!vars
<1> SUFFICES ASSUME IInv, IInv', Spared, [Next]_vars PROVE [Dispatch!Next]_Dispatch!vars
  OBVIOUS
<1>1. TypeOK /\ Tasks /\ Scaling /\ StoppedClean /\ Accounts(q, holding, resolved, submitted)
  BY DEF IInv
<1>2. CASE \E i \in Items : Submit(i)
  BY <1>2, SubmitDispatch DEF Dispatch!Next
<1>3. ASSUME NEW w \in Workers, WorkerStep(w)
      PROVE  [Dispatch!Next]_Dispatch!vars
  <2>1. CASE Loop(w)
    <3>1. /\ at[w] = "ready" /\ holding[w] = None
          /\ UNCHANGED <<resolved, submitted, stop>>
      BY <1>1, <2>1 DEF Loop, itemVars, Tasks
    <3>2. CASE running /\ q.waiting # {}
      <4>1. q' = Got(q) /\ holding' = [holding EXCEPT ![w] = First(q).item]
        BY <2>1, <3>2 DEF Loop, LoopFrom
      <4> QED
        BY <3>1, <3>2, <4>1, TakeDispatch DEF Dispatch!Next
    <3>3. CASE ~(running /\ q.waiting # {})
      <4>1. q' = q /\ holding' = [holding EXCEPT ![w] = None]
        BY <2>1, <3>3 DEF Loop, LoopFrom
      <4>2. holding' = holding
        BY <1>1, <3>1, <4>1 DEF TypeOK
      <4> QED
        BY <3>1, <4>1, <4>2, QuietDispatch
    <3> QED
      BY <3>2, <3>3
  <2>2. CASE TakeWaited(w)
    BY <2>2, TakeDispatch DEF TakeWaited, itemVars, Dispatch!Next
  <2>3. CASE GiveUpWait(w)
    BY <2>3, QuietDispatch DEF GiveUpWait, itemVars
  <2>4. CASE Complete(w)
    <3>1. /\ at[w] = "executing" /\ resolved' = resolved \cup {holding[w]}
          /\ LoopFrom(w, Done(q)) /\ UNCHANGED <<submitted, stop>>
      BY <2>4 DEF Complete
    <3>2. Done(q).waiting = q.waiting /\ holding[w] \in Items
      BY <1>1, <3>1 DEF Done, TypeOK, QueueType, Tasks
    <3>3. CASE running /\ q.waiting # {}
      <4>1. /\ q' = Got(Done(q))
            /\ holding' = [holding EXCEPT ![w] = First(Done(q)).item]
        BY <3>1, <3>2, <3>3 DEF LoopFrom
      <4> QED
        BY <3>1, <3>3, <4>1, NextDispatch DEF Dispatch!Next
    <3>4. CASE ~(running /\ q.waiting # {})
      <4>1. q' = Done(q) /\ holding' = [holding EXCEPT ![w] = None]
        BY <3>1, <3>2, <3>4 DEF LoopFrom
      <4>2. q'.waiting = q.waiting
        BY <3>2, <4>1
      <4> QED
        BY <3>1, <3>2, <4>1, <4>2, DropDispatch DEF Dispatch!Next
    <3> QED
      BY <3>3, <3>4
  <2>5. CASE Abort(w)
    <3>1. /\ at[w] = "executing" /\ cancelled[w] /\ q' = Done(q)
          /\ holding' = [holding EXCEPT ![w] = None]
          /\ UNCHANGED <<submitted, stop, resolved>>
      BY <2>5 DEF Abort, itemVars
    <3>2. q'.waiting = q.waiting /\ holding[w] \in Items
      BY <1>1, <3>1 DEF Done, TypeOK, QueueType, Tasks
    <3>3. MaxWorkers > MinWorkers + 1
      BY <3>1 DEF Spared
    <3> QED
      BY <3>1, <3>2, <3>3, DropDispatch DEF Dispatch!Next
  <2>6. CASE Die(w)
    BY <2>6, QuietDispatch DEF Die, itemVars
  <2> QED
    BY <1>3, <2>1, <2>2, <2>3, <2>4, <2>5, <2>6 DEF WorkerStep
<1>4. CASE ScalerStep
  <2>1. UNCHANGED <<q, holding, resolved, submitted, stop>>
    BY <1>4 DEF ScalerStep, ScaleUp, ScaleDown, Removed, itemVars
  <2> QED
    BY <2>1, QuietDispatch
<1>5. CASE StopCalled
  <2>1. UNCHANGED <<q, holding, resolved, submitted>> /\ stop = "uncalled" /\ stop' = "scaler"
    BY <1>5 DEF StopCalled, itemVars
  <2>2. UNCHANGED <<Waiting, Held, resolved, Lost, Ahead>>
    BY <2>1, QuietDispatch
  <2>3. Phase = "open" /\ Phase' = "stopping"
    BY <2>1 DEF Phase
  <2> QED
    BY <2>2, <2>3 DEF Dispatch!Next, Dispatch!Stop
<1>6. CASE StopStep
  <2>1. CASE ScalerStopped \/ Join \/ CancelAll
    <3>1. /\ UNCHANGED <<q, holding, resolved, submitted>>
          /\ stop \in {"scaler", "joining"} /\ stop' \in {"scaler", "joining", "gathering"}
      BY <2>1 DEF ScalerStopped, Join, CancelAll, itemVars, poolVars
    <3>2. UNCHANGED <<Waiting, Held, resolved, Lost, Ahead>>
      BY <3>1, QuietDispatch
    <3>3. Phase' = Phase
      BY <3>1 DEF Phase
    <3> QED
      BY <3>2, <3>3 DEF Dispatch!vars
  <2>2. CASE StopReturns
    <3>1. /\ UNCHANGED <<q, holding, resolved, submitted>>
          /\ stop = "gathering" /\ stop' = "returned"
      BY <2>2 DEF StopReturns, itemVars
    <3>2. UNCHANGED <<Waiting, Held, resolved, Lost, Ahead>>
      BY <3>1, QuietDispatch
    <3>3. Waiting = {} /\ Held = {}
      BY <1>1, <3>1 DEF StoppedClean, Waiting, Held
    <3>4. Phase = "stopping" /\ Phase' = "stopped"
      BY <3>1 DEF Phase
    <3> QED
      BY <3>2, <3>3, <3>4 DEF Dispatch!Next, Dispatch!Stopped
  <2> QED
    BY <1>6, <2>1, <2>2 DEF StopStep
<1>7. CASE UNCHANGED vars
  BY <1>7, QuietDispatch DEF vars, poolVars, itemVars
<1> QED
  BY <1>2, <1>3, <1>4, <1>5, <1>6, <1>7 DEF Next


(***************************************************************************)
(* The theorems.                                                           *)
(***************************************************************************)
\* Every variable of the pool keeps its type: in particular no counter of the
\* queue falls below zero, although task_done() takes the smaller one for granted.
THEOREM TypeCorrect == Spec => []TypeOK
<1>1. IInv => TypeOK
  BY DEF IInv
<1> QED
  BY Invariant, <1>1, PTL

\* Whatever cancellations do to the workers, the counters join() relies on agree
\* with where the items are, and no item is executed by two workers, executed again
\* or still queued once it is executed (queue.py:119-138, worker.py:117-137).
THEOREM AccountsHold == Spec => []ItemsAccounted
<1> QED
  BY Invariant, AccountsAgree, PTL

\* The pool stays within its bounds, and no removal takes it below the minimum,
\* however many scale-downs and cancellations overlap (worker.py:184-226).
THEOREM Bounds == Spec => []PoolBounds
<1>1. IInv => PoolBounds
  BY DEF IInv
<1> QED
  BY Invariant, <1>1, PTL

\* When stop() returns, nothing waits, nothing is executed and no task is left
\* (worker.py:90-111).
THEOREM Clean == Spec => []StoppedClean
<1>1. IInv => StoppedClean
  BY DEF IInv
<1> QED
  BY Invariant, <1>1, PTL

LEMMA SparedAlways == Spec => []Spared
<1>1. Init => Spared
  BY DEF Init, Spared
<1> QED
  BY <1>1, Invariant, SparedStep, PTL DEF Spec

\* Whoever submits sees a Dispatcher: the order of priority and arrival, the bound on
\* what is executed at once, and the fate of each item are those it promises, whatever
\* workers, scaler and stop() do to each other (queue.py:5-7, worker.py:117-137, 184-226).
THEOREM Dispatches == Spec => Dispatched
<1>1. Spec => [][Next]_vars /\ Init
  BY PTL DEF Spec
<1> QED
  BY <1>1, Invariant, SparedAlways, InitDispatch, StepDispatch, PTL DEF Dispatched, Dispatch!Spec

\* In a pool with no room to shrink by more than one worker every item submitted waits,
\* is executed, or has its result: the scaler never cancels an execution (worker.py:201-207).
THEOREM NothingLost ==
    ASSUME MaxWorkers <= MinWorkers + 1
    PROVE  Spec => [](submitted \subseteq Waiting \cup Held \cup resolved)
<1> DEFINE Safe == submitted \subseteq Waiting \cup Held \cup resolved
<1>1. Init => Safe
  BY DEF Init
<1>2. IInv /\ IInv' /\ Spared /\ [Next]_vars /\ Safe => Safe'
  <2> SUFFICES ASSUME IInv, IInv', Spared, [Next]_vars, Lost = {} PROVE Lost' = {}
    BY DEF Lost
  <2>1. ~(MaxWorkers > MinWorkers + 1)
    BY PoolAssumption
  <2> QED
    BY <2>1, StepDispatch DEF Dispatch!Next, Dispatch!vars, Dispatch!Submit, Dispatch!Start,
       Dispatch!Finish, Dispatch!FinishAndStart, Dispatch!Lose, Dispatch!Stop, Dispatch!Stopped
<1> HIDE DEF Safe
<1>3. Spec => []Safe
  BY <1>1, <1>2, Invariant, SparedAlways, PTL DEF Spec
<1> QED
  BY <1>3 DEF Safe
=============================================================================
