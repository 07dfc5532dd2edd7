---------------------------- MODULE MCRestServer ----------------------------
(* Constants for TLC: with two goroutines the owner can restart the server  *)
(* while the previous Serve has not returned yet.                           *)
EXTENDS RestServer

CONSTANTS g1, g2
=============================================================================
