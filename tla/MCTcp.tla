------------------------------- MODULE MCTcp --------------------------------
(***************************************************************************)
(* Instance of Tcp for TLC: 2 * Cap + 1 octets are the most that fit, one  *)
(* more blocks both threads.                                               *)
(***************************************************************************)
EXTENDS Tcp

MCSizes == {1, 3, 7, 8}
=============================================================================
