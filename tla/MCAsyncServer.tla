--------------------------- MODULE MCAsyncServer ----------------------------
(***************************************************************************)
(* Instance of AsyncServer for TLC: users who ask for input, for the end,  *)
(* and for everything, as example/async does.                              *)
(***************************************************************************)
EXTENDS AsyncServer

MCWanted == {{"ReadRdy"}, {"Closed"}, Event}
=============================================================================
