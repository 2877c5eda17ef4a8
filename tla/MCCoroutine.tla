---------------------------- MODULE MCCoroutine ----------------------------
(* Two functions, two stack contents and up to three routines. *)
EXTENDS Coroutine
=============================================================================
