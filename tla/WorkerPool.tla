----------------------------- MODULE WorkerPool -----------------------------
(***************************************************************************)
(* AsyncWorkerPool (src/blitz/worker.py) over a PriorityWorkQueue.         *)
(*                                                                         *)
(* Workers, the auto-scaler and stop() are asyncio tasks.  Each is         *)
(* suspended at an await, and what it does between two awaits is one       *)
(* action.  Task.cancel() only sets a request (cancelled) that is          *)
(* delivered when the task is next resumed, and what becomes of it depends *)
(* on the await: sleep() lets the task die, the wait on the queue swallows *)
(* it (worker.py:168), the executor lets the task die after task_done().   *)
(*                                                                         *)
(* The local deques of the workers are always empty - nothing in the code  *)
(* appends to them - so the branches that pop from them and steal from     *)
(* peers cannot be taken and are left out.                                 *)
(***************************************************************************)
EXTENDS WorkQueue

CONSTANTS
    Workers,            \* bound: workers that exist at the same time
    MinWorkers,
    MaxWorkers,
    BacklogPerWorker    \* queue depth per worker that makes the pool grow (10)

None == "none"

ASSUME PoolAssumption ==
    /\ IsFiniteSet(Workers) /\ None \notin Workers \cup Items
    /\ MinWorkers \in Nat \ {0} /\ MaxWorkers \in Nat
    /\ MinWorkers <= Cardinality(Workers) /\ MaxWorkers <= Cardinality(Workers)
    /\ BacklogPerWorker \in Nat \ {0}

VARIABLES
    q,             \* the queue, a record of QueueType
    running,       \* _running
    pool,          \* _workers
    at,            \* per worker: where its task is suspended
    holding,       \* per worker: the item it executes
    cancelled,     \* per worker: cancel() was called and not yet delivered
    idle,          \* the workers idle for longer than idle_timeout
    scaler,        \* where the scaler task is suspended
    doomed,        \* _scale's to_remove, the one being removed included
    victim,        \* the worker _remove_worker is waiting for
    stop,          \* where the call of stop() is suspended
    submitted, resolved    \* items put, and items whose future is set

poolVars == <<pool, at, holding, cancelled, idle>>
scalerVars == <<scaler, doomed, victim>>
itemVars == <<submitted, resolved>>
vars == <<q, running, poolVars, scalerVars, stop, itemVars>>

\* absent: no such task.  ready: about to run the loop, either new or after the
\* millisecond's sleep of line 123.  ended: the task is done.
Places == {"absent", "ready", "waiting", "executing", "ended"}

TypeOK ==
    /\ q \in QueueType
    /\ running \in BOOLEAN
    /\ pool \subseteq Workers
    /\ at \in [Workers -> Places]
    /\ holding \in [Workers -> Items \cup {None}]
    /\ cancelled \in [Workers -> BOOLEAN]
    /\ idle \subseteq Workers
    /\ scaler \in {"sleeping", "removing", "ended"}
    /\ doomed \subseteq Workers
    /\ victim \in Workers \cup {None}
    /\ stop \in {"uncalled", "scaler", "joining", "gathering", "returned"}
    /\ submitted \subseteq Items /\ resolved \subseteq Items

Executing == {w \in Workers : at[w] = "executing"}

\* start(): MinWorkers workers and the scaler.
Init ==
    /\ q = EmptyQueue
    /\ running = TRUE
    /\ pool \in {S \in SUBSET Workers : Cardinality(S) = MinWorkers}
    /\ at = [w \in Workers |-> IF w \in pool THEN "ready" ELSE "absent"]
    /\ holding = [w \in Workers |-> None]
    /\ cancelled = [w \in Workers |-> FALSE]
    /\ idle = {}
    /\ scaler = "sleeping" /\ doomed = {} /\ victim = None
    /\ stop = "uncalled"
    /\ submitted = {} /\ resolved = {}

\* A producer calls queue.put; nobody does once stop() has been called.
Submit(i) ==
    /\ i \notin submitted /\ stop = "uncalled"
    /\ q' = Put(q, i)
    /\ submitted' = submitted \cup {i}
    /\ UNCHANGED <<running, poolVars, scalerVars, stop, resolved>>

(***************************************************************************)
(* The workers.                                                            *)
(***************************************************************************)
\* Mutant of LoopFrom: _running is not tested.
LoopFromForever(w, queue) ==
    \/ /\ queue.waiting # {}
       /\ at' = [at EXCEPT ![w] = "executing"]
       /\ holding' = [holding EXCEPT ![w] = First(queue).item]
       /\ q' = Got(queue)
    \/ /\ queue.waiting = {}
       /\ at' = [at EXCEPT ![w] = "waiting"]
       /\ holding' = [holding EXCEPT ![w] = None]
       /\ q' = queue

\* Top of _worker_loop to the next await, with the queue as the worker finds it.
LoopFrom(w, queue) ==
    \/ /\ ~running
       /\ at' = [at EXCEPT ![w] = "ended"]
       /\ holding' = [holding EXCEPT ![w] = None]
       /\ q' = queue
    \/ /\ running /\ queue.waiting # {}
       /\ at' = [at EXCEPT ![w] = "executing"]
       /\ holding' = [holding EXCEPT ![w] = First(queue).item]
       /\ q' = Got(queue)
    \/ /\ running /\ queue.waiting = {}
       /\ at' = [at EXCEPT ![w] = "waiting"]
       /\ holding' = [holding EXCEPT ![w] = None]
       /\ q' = queue

Loop(w) ==
    /\ at[w] = "ready" /\ ~cancelled[w]
    /\ LoopFrom(w, q)
    /\ UNCHANGED <<running, pool, cancelled, idle, scalerVars, stop, itemVars>>

\* wait_for(queue.get()) returns an item.  A cancellation that arrives after the
\* item was taken is swallowed by wait_for (Python 3.10 and 3.11).
TakeWaited(w) ==
    /\ at[w] = "waiting" /\ q.waiting # {}
    /\ q' = Got(q)
    /\ at' = [at EXCEPT ![w] = "executing"]
    /\ holding' = [holding EXCEPT ![w] = First(q).item]
    /\ cancelled' = [cancelled EXCEPT ![w] = FALSE]
    /\ UNCHANGED <<running, pool, idle, scalerVars, stop, itemVars>>

\* Mutant of GiveUpWait: task_done() is called although nothing was taken.
GiveUpWaitDone(w) ==
    /\ at[w] = "waiting"
    /\ q' = Done(q)
    /\ at' = [at EXCEPT ![w] = "ready"]
    /\ cancelled' = [cancelled EXCEPT ![w] = FALSE]
    /\ idle' \in {idle, idle \cup {w}}
    /\ UNCHANGED <<running, pool, holding, scalerVars, stop, itemVars>>

\* The wait times out or is cancelled: _get_work returns None for both.  A worker
\* that has waited in vain since it last executed may have reached idle_timeout.
GiveUpWait(w) ==
    /\ at[w] = "waiting"
    /\ at' = [at EXCEPT ![w] = "ready"]
    /\ cancelled' = [cancelled EXCEPT ![w] = FALSE]
    /\ idle' \in {idle, idle \cup {w}}
    /\ UNCHANGED <<q, running, pool, holding, scalerVars, stop, itemVars>>

\* Mutant of Complete: a worker ends with its first item.
CompleteOnce(w) ==
    /\ at[w] = "executing" /\ ~cancelled[w]
    /\ resolved' = resolved \cup {holding[w]}
    /\ q' = Done(q)
    /\ at' = [at EXCEPT ![w] = "ended"]
    /\ holding' = [holding EXCEPT ![w] = None]
    /\ idle' = idle \ {w}
    /\ UNCHANGED <<running, pool, cancelled, scalerVars, stop, submitted>>

\* The executor returns or raises; either way the future is set.  task_done(),
\* last_idle_at = now, and round the loop without an await.
Complete(w) ==
    /\ at[w] = "executing" /\ ~cancelled[w]
    /\ resolved' = resolved \cup {holding[w]}
    /\ LoopFrom(w, Done(q))
    /\ idle' = idle \ {w}
    /\ UNCHANGED <<running, pool, cancelled, scalerVars, stop, submitted>>

\* Mutant of Abort: task_done() is not in a finally block.
AbortUndone(w) ==
    /\ at[w] = "executing" /\ cancelled[w]
    /\ at' = [at EXCEPT ![w] = "ended"]
    /\ holding' = [holding EXCEPT ![w] = None]
    /\ cancelled' = [cancelled EXCEPT ![w] = FALSE]
    /\ idle' = idle \ {w}
    /\ UNCHANGED <<q, running, pool, scalerVars, stop, itemVars>>

\* CancelledError in the executor: task_done() runs, last_idle_at = now,
\* and the task dies.
Abort(w) ==
    /\ at[w] = "executing" /\ cancelled[w]
    /\ q' = Done(q)
    /\ at' = [at EXCEPT ![w] = "ended"]
    /\ holding' = [holding EXCEPT ![w] = None]
    /\ cancelled' = [cancelled EXCEPT ![w] = FALSE]
    /\ idle' = idle \ {w}
    /\ UNCHANGED <<running, pool, scalerVars, stop, itemVars>>

\* CancelledError in the sleep, or before the first step.
Die(w) ==
    /\ at[w] = "ready" /\ cancelled[w]
    /\ at' = [at EXCEPT ![w] = "ended"]
    /\ cancelled' = [cancelled EXCEPT ![w] = FALSE]
    /\ UNCHANGED <<q, running, pool, holding, idle, scalerVars, stop, itemVars>>

WorkerStep(w) ==
    Loop(w) \/ TakeWaited(w) \/ GiveUpWait(w) \/ Complete(w) \/ Abort(w) \/ Die(w)

(***************************************************************************)
(* The auto-scaler.                                                        *)
(***************************************************************************)
Larger(m, n) == IF m > n THEN m ELSE n
Smaller(m, n) == IF m < n THEN m ELSE n

Active == Cardinality(pool)

Backlogged == Depth(q) > Active * BacklogPerWorker /\ Active < MaxWorkers

\* min(active + max(1, active // 2), max_workers)
GrownSize == Smaller(Active + Larger(1, Active \div 2), MaxWorkers)

ScaleUp ==
    /\ scaler = "sleeping" /\ running /\ Backlogged
    /\ \E new \in SUBSET {w \in Workers : at[w] = "absent"} :
          /\ Cardinality(new) = GrownSize - Active
          /\ pool' = pool \cup new
          /\ at' = [w \in Workers |-> IF w \in new THEN "ready" ELSE at[w]]
    /\ UNCHANGED <<q, running, holding, cancelled, idle, scalerVars, stop, itemVars>>

\* _remove_worker(v) up to its await.
BeginRemoval(v) ==
    /\ scaler' = "removing"
    /\ victim' = v
    /\ cancelled' = [cancelled EXCEPT ![v] = TRUE]

\* Mutant of ScaleDown: every idle worker goes.
ScaleDownAll ==
    /\ scaler = "sleeping" /\ running /\ ~Backlogged /\ Active > MinWorkers
    /\ doomed' = (pool \cap idle) \ Executing
    /\ \E v \in (pool \cap idle) \ Executing : BeginRemoval(v)
    /\ UNCHANGED <<q, running, pool, at, holding, idle, stop, itemVars>>

\* Half of the excess, among the workers that are idle and not busy now.
ScaleDown ==
    /\ scaler = "sleeping" /\ running /\ ~Backlogged
    /\ LET candidates == (pool \cap idle) \ Executing
           excess == Larger(0, Active - MinWorkers)
       IN \E toRemove \in SUBSET candidates \ {{}} :
            /\ Cardinality(toRemove) = Smaller(excess \div 2, Cardinality(candidates))
            /\ doomed' = toRemove
            /\ \E v \in toRemove : BeginRemoval(v)
    /\ UNCHANGED <<q, running, pool, at, holding, idle, stop, itemVars>>

\* The task of the victim is done, so _remove_worker returns; the doomed that
\* ended by themselves are removed without waiting, and the next one that has not
\* is cancelled, whatever it is doing by now.
Removed ==
    /\ scaler = "removing" /\ at[victim] = "ended"
    /\ \E gone \in SUBSET {w \in doomed : at[w] = "ended"} :
          /\ victim \in gone
          /\ pool' = pool \ gone
          /\ at' = [w \in Workers |-> IF w \in gone THEN "absent" ELSE at[w]]
          /\ doomed' = doomed \ gone
          /\ idle' = idle \ gone
    /\ \/ \E v \in doomed' : at[v] # "ended" /\ BeginRemoval(v)
       \/ /\ doomed' = {}
          /\ scaler' = IF running THEN "sleeping" ELSE "ended"
          /\ victim' = None
          /\ UNCHANGED cancelled
    /\ UNCHANGED <<q, running, holding, stop, itemVars>>

ScalerStep == ScaleUp \/ ScaleDown \/ Removed

(***************************************************************************)
(* stop().                                                                 *)
(***************************************************************************)
\* The scaler is cancelled.  When it waits for a victim, Task.cancel() cancels
\* the victim instead, and line 223 keeps the scaler going.
StopCalled ==
    /\ stop = "uncalled"
    /\ running' = FALSE
    /\ stop' = "scaler"
    /\ cancelled' = [w \in Workers |-> cancelled[w] \/ (w = victim /\ at[w] # "ended")]
    /\ UNCHANGED <<q, pool, at, holding, idle, scalerVars, itemVars>>

\* CancelledError in the scaler's sleep
ScalerStopped ==
    /\ stop = "scaler" /\ scaler = "sleeping"
    /\ scaler' = "ended"
    /\ UNCHANGED <<q, running, poolVars, doomed, victim, stop, itemVars>>

\* queue.join()
Join ==
    /\ stop = "scaler" /\ scaler = "ended"
    /\ stop' = "joining"
    /\ UNCHANGED <<q, running, poolVars, scalerVars, itemVars>>

\* Mutant of CancelAll: stop() does not wait for the queue.
CancelAllNow ==
    /\ stop = "joining"
    /\ stop' = "gathering"
    /\ cancelled' = [w \in Workers |-> cancelled[w] \/ (w \in pool /\ at[w] # "ended")]
    /\ UNCHANGED <<q, running, pool, at, holding, idle, scalerVars, itemVars>>

CancelAll ==
    /\ stop = "joining" /\ q.unfinished = 0
    /\ stop' = "gathering"
    /\ cancelled' = [w \in Workers |-> cancelled[w] \/ (w \in pool /\ at[w] # "ended")]
    /\ UNCHANGED <<q, running, pool, at, holding, idle, scalerVars, itemVars>>

StopReturns ==
    /\ stop = "gathering" /\ \A w \in pool : at[w] = "ended"
    /\ stop' = "returned"
    /\ pool' = {}
    /\ at' = [w \in Workers |-> "absent"]
    /\ idle' = {}
    /\ UNCHANGED <<q, running, holding, cancelled, scalerVars, itemVars>>

StopStep == ScalerStopped \/ Join \/ CancelAll \/ StopReturns

Next ==
    \/ \E i \in Items : Submit(i)
    \/ \E w \in Workers : WorkerStep(w)
    \/ ScalerStep
    \/ StopCalled
    \/ StopStep

\* The event loop resumes every task that can run, and executors return.
Fairness ==
    /\ \A w \in Workers : WF_vars(WorkerStep(w))
    /\ WF_vars(ScalerStep)
    /\ WF_vars(StopStep)

Spec == Init /\ [][Next]_vars /\ Fairness

(***************************************************************************)
(* Properties.                                                             *)
(***************************************************************************)
Waiting == {e.item : e \in q.waiting}

Held == {holding[w] : w \in Executing}

\* Submitted, and neither in the queue nor executed nor with its future set.
Lost == submitted \ (Waiting \cup Held \cup resolved)

\* Two that wait, in the order in which they were put.
Ahead == {p \in Waiting \X Waiting :
             \E e, f \in q.waiting : e.item = p[1] /\ f.item = p[2] /\ e.seq < f.seq}

Phase == CASE stop = "uncalled" -> "open"
           [] stop = "returned" -> "stopped"
           [] OTHER -> "stopping"

\* The counters of the queue agree with where the items are: join() can return
\* exactly when no item waits or is executed (queue.py:119-138), an item waits
\* once, is executed by one worker at a time, and is not executed again once started.
ItemsAccounted ==
    /\ q.inFlight = Cardinality(Executing)
    /\ q.unfinished = Cardinality(q.waiting) + Cardinality(Executing)
    /\ \A v, w \in Executing : holding[v] = holding[w] => v = w
    /\ \A e, f \in q.waiting : e.item = f.item => e = f
    /\ Waiting \cap Held = {} /\ resolved \cap (Waiting \cup Held) = {}

\* Until stop() is called the pool keeps between MinWorkers and MaxWorkers
\* workers, all of them alive but one the scaler is waiting for: neither a
\* scale-down decided earlier nor a cancellation shrinks it further.  Removals,
\* however long they take, leave at least one worker more than MinWorkers: half
\* of an excess of one is none (worker.py:184-226).
PoolBounds ==
    /\ Active <= MaxWorkers \/ Active = MinWorkers
    /\ running => /\ Active >= MinWorkers
                  /\ \A w \in pool : at[w] = "ended" => w = victim
    /\ doomed # {} => Active - Cardinality(doomed) > MinWorkers

\* When stop() has returned every item put was taken and finished, and no task of
\* the pool is left (worker.py:90-111).
StoppedClean ==
    stop \in {"gathering", "returned"} =>
        /\ q.waiting = {} /\ Executing = {} /\ scaler = "ended"
        /\ stop = "returned" => pool = {} /\ \A w \in Workers : at[w] = "absent"

\* Seen by whoever submits, the pool is a Dispatcher: items are started in the order of
\* priority and then of arrival, by one worker each and no more at a time than there may be
\* workers, whatever the scaler adds, removes and cancels meanwhile (queue.py:5-7, 27-28).
\* One is broken off without a result only in a pool that is allowed to shrink by one and
\* still have more than MinWorkers (worker.py:201-207).
Dispatch == INSTANCE Dispatcher
              WITH Capacity <- Larger(MinWorkers, MaxWorkers),
                   Lossy    <- MaxWorkers > MinWorkers + 1,
                   waiting  <- Waiting,
                   active   <- Held,
                   finished <- resolved,
                   lost     <- Lost,
                   ahead    <- Ahead,
                   phase    <- Phase

Dispatched == Dispatch!Spec

\* An item put into the queue of a pool that goes on running is executed and
\* marked done, whatever the scaler does meanwhile (worker.py:117-137).
ItemsFinish ==
    \A i \in Items : i \in submitted ~> (i \notin Waiting \cup Held \/ ~running)

\* stop() gets past the scaler, also when a removal hangs because the worker to be
\* removed has swallowed its cancellation and goes on working (worker.py:95-100,
\* 168, 222): the end of _running reaches that worker in its loop.
ScalerStops == stop = "scaler" ~> scaler = "ended"

\* "Gracefully drain in-flight requests and stop all workers" (worker.py:91): stop()
\* returns, and then every item put has its result.
StopDrains == stop = "scaler" ~> stop = "returned" /\ submitted \subseteq resolved
=============================================================================
