-------------------------- MODULE MCValueOwnership --------------------------
(***************************************************************************)
(* A TLC instance of ValueOwnership: the global object g, a function at f, *)
(* and at a an ordinary object or an Error.                                *)
(***************************************************************************)
EXTENDS ValueOwnership

CONSTANTS g, f, a, ctx

ClassesAt == [o \in Objects |-> CASE o = f -> {"function"}
                                  [] o = a -> {"object", "error"}
                                  [] o = g -> {}]
=============================================================================
