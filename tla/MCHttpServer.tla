---------------------------- MODULE MCHttpServer ----------------------------
(* Two workers and two descriptors, so that numbers are reused and run out. *)
EXTENDS HttpServer
=============================================================================
