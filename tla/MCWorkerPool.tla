---------------------------- MODULE MCWorkerPool ----------------------------
(* Small pools for TLC. *)
EXTENDS WorkerPool, TLC

CONSTANTS p1, p2, x1, x2, d1

\* More pollers than definitions: p2 has nothing to watch.
IdlePoller == p1 :> {d1} @@ p2 :> {}

=============================================================================
