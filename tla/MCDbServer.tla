----------------------------- MODULE MCDbServer -----------------------------
(***************************************************************************)
(* Instances of DbServer for TLC: every file of at most MaxRecords records *)
(* with keys up to MaxKey, complete or torn, and every query of it.        *)
(***************************************************************************)
EXTENDS DbServer
=============================================================================
