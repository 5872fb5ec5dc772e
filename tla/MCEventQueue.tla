---------------------------- MODULE MCEventQueue ----------------------------
(***************************************************************************)
(* TLC instances of EventQueue.  The clients are interchangeable; JSThread *)
(* is not one of them.                                                     *)
(***************************************************************************)
EXTENDS EventQueue, TLC

ClientSymmetry == Permutations(Clients)
=============================================================================
