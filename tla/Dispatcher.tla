----------------------------- MODULE Dispatcher -----------------------------
(***************************************************************************)
(* What the worker pool promises to whoever puts items into its queue, with*)
(* no workers, no scaler and no sequence numbers: in which order items are *)
(* started, how many at a time, what becomes of each, and what the end of  *)
(* stop() means.                                                           *)
(***************************************************************************)
EXTENDS Naturals, FiniteSets

CONSTANTS
    Items,
    Priority,    \* per item, smaller goes first
    Capacity,    \* items executed at the same time, at most
    Lossy        \* whether an execution may be broken off without a result

VARIABLES
    waiting, active, finished, lost,    \* the items submitted, each in one of these
    ahead,                              \* <<i, j>>: both wait, and i was there before j
    phase                               \* of the pool: open, stopping, stopped

vars == <<waiting, active, finished, lost, ahead, phase>>

Init ==
    /\ waiting = {} /\ active = {} /\ finished = {} /\ lost = {} /\ ahead = {}
    /\ phase = "open"

Submit(i) ==
    /\ phase = "open" /\ i \notin waiting \cup active \cup finished \cup lost
    /\ waiting' = waiting \cup {i}
    /\ ahead' = ahead \cup (waiting \X {i})
    /\ UNCHANGED <<active, finished, lost, phase>>

\* No other waiting item is more urgent, and none as urgent was there before.
First(i) ==
    /\ i \in waiting
    /\ \A j \in waiting \ {i} :
          Priority[i] < Priority[j] \/ (Priority[i] = Priority[j] /\ <<i, j>> \in ahead)

Leave(i) ==
    /\ waiting' = waiting \ {i}
    /\ ahead' = {p \in ahead : p[1] # i /\ p[2] # i}

Start(i) ==
    /\ First(i) /\ Cardinality(active) < Capacity
    /\ Leave(i)
    /\ active' = active \cup {i}
    /\ UNCHANGED <<finished, lost, phase>>

Finish(i) ==
    /\ i \in active
    /\ active' = active \ {i}
    /\ finished' = finished \cup {i}
    /\ UNCHANGED <<waiting, lost, ahead, phase>>

\* Whoever finished i goes on with j at once, unless the pool is to stop.
FinishAndStart(i, j) ==
    /\ i \in active /\ First(j) /\ phase = "open"
    /\ Leave(j)
    /\ active' = (active \ {i}) \cup {j}
    /\ finished' = finished \cup {i}
    /\ UNCHANGED <<lost, phase>>

Lose(i) ==
    /\ i \in active /\ Lossy
    /\ active' = active \ {i}
    /\ lost' = lost \cup {i}
    /\ UNCHANGED <<waiting, finished, ahead, phase>>

Stop == phase = "open" /\ phase' = "stopping" /\ UNCHANGED <<waiting, active, finished, lost, ahead>>

Stopped ==
    /\ phase = "stopping" /\ waiting = {} /\ active = {}
    /\ phase' = "stopped"
    /\ UNCHANGED <<waiting, active, finished, lost, ahead>>

Next ==
    \/ \E i \in Items :
          \/ Submit(i) \/ Start(i) \/ Finish(i) \/ Lose(i)
          \/ \E j \in Items : FinishAndStart(i, j)
    \/ Stop \/ Stopped

Spec == Init /\ [][Next]_vars
=============================================================================
