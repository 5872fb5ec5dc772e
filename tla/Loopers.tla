------------------------------- MODULE Loopers -------------------------------
(***************************************************************************)
(* The runtimes that the plugins work with: the one of the application and *)
(* the ones that its workers create.  Each has a context, a thread that    *)
(* handles one event at a time, and a queue of events.  How a thread gets  *)
(* an event into the queue and waits for it is EventQueue; here posting is *)
(* one step, and what the event does is spelled out.                       *)
(***************************************************************************)
EXTENDS Naturals, Sequences

CONSTANTS
    Main,       \* the runtime of the application
    Workers     \* the workers, and the runtimes that they create

Runtimes == {Main} \cup Workers

ASSUME LoopersAssumption == Main \notin Workers

VARIABLES
    handler,    \* does the application's thread have a Looper?
    queue,      \* the events posted to each runtime
    engine,     \* is the native runtime there?
    context,    \* is its context there?
    doing,      \* what the thread of each runtime is doing
    death       \* what ended the Looper of each runtime

looperVars == <<handler, queue, engine, context, doing, death>>

Engines == {"none", "open", "freed"}
Contexts == {"none", "open", "closed"}
Doings == {"idle", "script", "sizing", "closing"}

\* "message", "timer": an event of that kind threw an Error; "script",
\* "exception": it was executed on a context that is freed; "post": a script
\* posted to a thread without a Looper.
Deaths == {"no", "message", "timer", "script", "exception", "post"}

LoopersInit(looper) ==
    /\ handler = looper
    /\ queue = [r \in Runtimes |-> << >>]
    /\ engine = [r \in Runtimes |-> IF r = Main THEN "open" ELSE "none"]
    /\ context = [r \in Runtimes |-> IF r = Main THEN "open" ELSE "none"]
    /\ doing = [r \in Runtimes |-> "idle"]
    /\ death = [r \in Runtimes |-> "no"]

\* EventQueue's gate: a runtime that is released takes no more events.
Takes(r) == engine[r] = "open"

\* postEventQueue of other threads goes to the Handler; without one,
\* checkThread throws an Error.
Reachable(r) == r = Main => handler

Posted(q, r, e) == [q EXCEPT ![r] = Append(@, e)]

\* Thread r is at an event of the given kind.
Handles(r, kind) ==
    /\ doing[r] = "idle"
    /\ death[r] = "no"
    /\ queue[r] # << >>
    /\ Head(queue[r]).kind = kind

Popped(r) == [queue EXCEPT ![r] = Tail(@)]

\* The event is over without having done anything.
Skip(r) ==
    /\ queue' = Popped(r)
    /\ UNCHANGED <<handler, engine, context, doing, death>>

\* The event calls a function of the context, which runs until Return.
Enter(r) ==
    /\ queue' = Popped(r)
    /\ doing' = [doing EXCEPT ![r] = "script"]
    /\ UNCHANGED <<handler, engine, context, death>>

\* The event throws an Error: the Runnable catches RuntimeExceptions only.
Die(r, cause) ==
    /\ queue' = Popped(r)
    /\ death' = [death EXCEPT ![r] = cause]
    /\ UNCHANGED <<handler, engine, context, doing>>

\* The script ends.
Return(r) ==
    /\ doing[r] = "script"
    /\ doing' = [doing EXCEPT ![r] = "idle"]
    /\ UNCHANGED <<handler, queue, engine, context, death>>

LoopersTypeOK(Events) ==
    /\ handler \in BOOLEAN
    /\ queue \in [Runtimes -> Seq(Events)]
    /\ engine \in [Runtimes -> Engines]
    /\ context \in [Runtimes -> Contexts]
    /\ doing \in [Runtimes -> Doings]
    /\ death \in [Runtimes -> Deaths]
==============================================================================
