------------------------------ MODULE MCWorker ------------------------------
(***************************************************************************)
(* Instances of Worker for TLC: one or two descriptors, which are          *)
(* interchangeable; the cfg files choose the kinds of units and endings.   *)
(***************************************************************************)
EXTENDS Worker, TLC

Descriptors == Permutations(Fd)
=============================================================================
