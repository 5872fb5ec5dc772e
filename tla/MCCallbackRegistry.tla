------------------------- MODULE MCCallbackRegistry -------------------------
(***************************************************************************)
(* A TLC instance of CallbackRegistry: callbacks f and g and the void      *)
(* callback v, with any of two hash codes.                                 *)
(***************************************************************************)
EXTENDS CallbackRegistry, TLC

CONSTANTS t1, js, x1, x2, f, g, v, h1, h2

\* f and g differ in nothing, and neither do the contexts and the hash codes.
Symmetry ==
    Permutations({f, g}) \cup Permutations({x1, x2}) \cup Permutations({h1, h2})
=============================================================================
