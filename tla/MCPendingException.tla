------------------------- MODULE MCPendingException -------------------------
(***************************************************************************)
(* A TLC instance of PendingException: two clients whose calls interleave  *)
(* with the owner's, with scripts and callbacks that nest on its thread.   *)
(***************************************************************************)
EXTENDS PendingException

CONSTANTS t1, t2, js
=============================================================================
