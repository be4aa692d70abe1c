---------------------------- MODULE MCWorkerPool ----------------------------
(***************************************************************************)
(* Instance of WorkerPool for TLC: a pool of one to three workers that     *)
(* grows when more than one item waits per worker, and three items, one of *)
(* them urgent.                                                            *)
(***************************************************************************)
EXTENDS WorkerPool, TLC

CONSTANTS w1, w2, w3, urgent, i2, i3

MCPriority == (urgent :> 0) @@ (i2 :> 5) @@ (i3 :> 5)
=============================================================================
