---------------------------- MODULE MCWorkerClock ----------------------------
(***************************************************************************)
(* The instance of Worker for TLC that has the history of calls: two       *)
(* descriptors, fair to the thread and the clock.                          *)
(***************************************************************************)
EXTENDS WorkerClock
=============================================================================
