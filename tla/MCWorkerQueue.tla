----------------------------- MODULE MCWorkerQueue -----------------------------
(* WorkerQueue with three threads: two submit commands, all execute them. *)
EXTENDS WorkerQueue

CONSTANTS t1, t2, t3

=============================================================================
