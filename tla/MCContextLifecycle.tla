------------------------- MODULE MCContextLifecycle -------------------------
(***************************************************************************)
(* TLC instances of ContextLifecycle: two runtimes with three contexts     *)
(* between them.                                                           *)
(***************************************************************************)
EXTENDS ContextLifecycle, TLC

CONSTANTS q1, q2, c1, c2, c3

TwoRuntimes == c1 :> q1 @@ c2 :> q1 @@ c3 :> q2
=============================================================================
