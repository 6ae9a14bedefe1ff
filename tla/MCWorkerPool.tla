---------------------------- MODULE MCWorkerPool ----------------------------
(* A small instance of WorkerPool for TLC.  It has liveness properties, so *)
(* no symmetry is used.                                                    *)
EXTENDS WorkerPool
=============================================================================
