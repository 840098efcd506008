---------------------------- MODULE MCWorkerPool ----------------------------
(***************************************************************************)
(* Instance of WorkerPool for TLC: two workers and two tasks, so that one  *)
(* task runs while the last one is handed off.                             *)
(***************************************************************************)
EXTENDS WorkerPool
=============================================================================
