--------------------------- MODULE MCChildProcess ---------------------------
(***************************************************************************)
(* Instance of ChildProcess for TLC: the constants of ChildProcess.cfg.    *)
(***************************************************************************)
EXTENDS ChildProcess
=============================================================================
