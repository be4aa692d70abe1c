----------------------------- MODULE WorkQueue -----------------------------
(***************************************************************************)
(* The value of one PriorityWorkQueue of src/blitz/queue.py and what its   *)
(* methods do to it.  waiting holds the WorkItems not yet dequeued; seq    *)
(* numbers them in order of arrival; unfinished is the counter asyncio's   *)
(* own queue keeps for join(), inFlight the one this class keeps beside    *)
(* it.                                                                     *)
(***************************************************************************)
EXTENDS Integers, FiniteSets

CONSTANTS
    Items,          \* the requests submitted
    Priority        \* per item: priority_int, smaller goes first

ASSUME PriorityAssumption == IsFiniteSet(Items) /\ Priority \in [Items -> Nat]

WorkItem == [item : Items, seq : Nat]

QueueType ==
    [waiting : SUBSET WorkItem, seq : Nat, inFlight : Nat, unfinished : Nat]

EmptyQueue == [waiting |-> {}, seq |-> 0, inFlight |-> 0, unfinished |-> 0]

\* put, put_nowait: the queue is created without maxsize, so neither can fail.
Put(q, i) ==
    [q EXCEPT !.waiting = @ \cup {[item |-> i, seq |-> q.seq]},
              !.seq = @ + 1,
              !.unfinished = @ + 1]

\* Mutant of Before: seq is not compared.
BeforeByPriority(e, f) == Priority[e.item] <= Priority[f.item]

\* The order of WorkItem: priority_int, then seq.
Before(e, f) ==
    \/ Priority[e.item] < Priority[f.item]
    \/ Priority[e.item] = Priority[f.item] /\ e.seq < f.seq

First(q) == CHOOSE e \in q.waiting : \A f \in q.waiting \ {e} : Before(e, f)

\* get, get_nowait, once there is an item to take
Got(q) == [q EXCEPT !.waiting = @ \ {First(q)}, !.inFlight = @ + 1]

\* task_done
Done(q) ==
    [q EXCEPT !.unfinished = @ - 1,
              !.inFlight = IF @ - 1 > 0 THEN @ - 1 ELSE 0]

Depth(q) == Cardinality(q.waiting)
=============================================================================
