--------------------------- MODULE MCHandleRelease --------------------------
(***************************************************************************)
(* TLC instances of HandleRelease.                                         *)
(***************************************************************************)
EXTENDS HandleRelease

CONSTANTS r1, r2

\* Every handle has a hash code of its own.
DistinctHashes == [h \in {r1, r2} \X {0, 1} |-> h]

AllHandles == {r1, r2} \X {0, 1}

\* As above, but a handle of r2 has the hash code of one of r1.
CollidingHashes == [DistinctHashes EXCEPT ![<<r2, 1>>] = <<r1, 0>>]
=============================================================================
