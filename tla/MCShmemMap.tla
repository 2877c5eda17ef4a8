----------------------------- MODULE MCShmemMap -----------------------------
(***************************************************************************)
(* Instance of ShmemMap for TLC: the constants of ShmemMap.cfg give memory *)
(* for two nodes, or for a node and two blocks of the processes.           *)
(***************************************************************************)
EXTENDS ShmemMap
=============================================================================
