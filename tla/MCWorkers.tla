------------------------------ MODULE MCWorkers ------------------------------
(***************************************************************************)
(* A TLC instance of Workers: the runtime app of the application and the   *)
(* workers w1 and w2.                                                      *)
(***************************************************************************)
EXTENDS Workers, Integers

CONSTANTS app, w1, w2

\* JSValue.tag without NaN boxing: JS_TAG_OBJECT, for every object.
SameTag == [x \in Workers |-> -1]

Scene(looper, ws, interrupts, ts, in, out, n) ==
    [looper |-> looper, workers |-> ws, interrupts |-> interrupts, timeouts |-> ts,
     messages |-> [d \in Directions |-> IF d = "toWorker" THEN in ELSE out],
     closes |-> n]

\* Two messages one of which could overtake the other; the same in the other
\* direction, and a close that is repeated; two workers of which the second
\* replaces the first; a timer, of the application or of a worker that gets a
\* message; a timer and a worker without a Looper to post to.
TheScenes ==
    {Scene(TRUE, {w2}, FALSE, {}, 2, 1, 1),
     Scene(TRUE, {w2}, FALSE, {}, 0, 2, 2),
     Scene(TRUE, {w1, w2}, TRUE, {}, 0, 0, 1),
     Scene(TRUE, {w2}, FALSE, {1}, 1, 0, 1),
     Scene(FALSE, {w2}, FALSE, {1}, 0, 1, 1)}
==============================================================================
