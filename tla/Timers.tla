------------------------------- MODULE Timers --------------------------------
(***************************************************************************)
(* SetTimeoutPlugin: setTimeout starts a thread that sleeps and then posts *)
(* the call of the function to the runtime.  Nothing ends that thread when *)
(* the context or the runtime is closed.                                   *)
(***************************************************************************)
EXTENDS Loopers

CONSTANT Timeouts   \* the calls of setTimeout

VARIABLES
    timer,      \* how far each one is
    owner       \* the runtime whose script made it

timerVars == <<timer, owner>>

\* "refused": the call threw; "dead": the thread ended with an exception.
Stages == {"unset", "refused", "asleep", "dead", "posted", "called", "dropped"}

TimersInit ==
    /\ timer = [t \in Timeouts |-> "unset"]
    /\ owner = [t \in Timeouts |-> Main]

\* getDouble of a missing argument casts the Integer 0 to Double and throws.
\* Thread.sleep of a negative delay throws what the thread does not catch.
Started(delay) == CASE delay = "missing"  -> "refused"
                    [] delay = "negative" -> "dead"
                    [] delay = "some"     -> "asleep"

SetTimeout(r, t, delay) ==
    /\ doing[r] = "script"
    /\ timer[t] = "unset"
    /\ timer' = [timer EXCEPT ![t] = Started(delay)]
    /\ owner' = [owner EXCEPT ![t] = r]
    /\ UNCHANGED looperVars

\* Mutant: an interrupted sleep ends the thread.
WakeInterrupted(t) ==
    /\ timer[t] = "asleep"
    /\ timer' = [timer EXCEPT ![t] = "dropped"]
    /\ UNCHANGED <<looperVars, owner>>

\* The sleep is over, or interrupted.
Wake(t) ==
    LET r == owner[t]
    IN  /\ timer[t] = "asleep"
        /\ timer' = [timer EXCEPT ![t] = IF ~Takes(r) THEN "dropped"
                                          ELSE IF Reachable(r) THEN "posted" ELSE "dead"]
        /\ queue' = IF Takes(r) /\ Reachable(r)
                      THEN Posted(queue, r, [kind |-> "timer", arg |-> t])
                      ELSE queue
        /\ UNCHANGED <<handler, engine, context, doing, death, owner>>

\* Mutant: the event does not ask whether the context was released, which
\* func.call does with an Error.
FireUnchecked(r) ==
    /\ Handles(r, "timer")
    /\ LET t == Head(queue[r]).arg
       IN  CASE engine[r] = "freed" ->
                   Skip(r) /\ timer' = [timer EXCEPT ![t] = "dropped"]
             [] engine[r] = "open" /\ context[r] = "closed" ->
                   Die(r, "timer") /\ timer' = [timer EXCEPT ![t] = "dropped"]
             [] OTHER ->
                   Enter(r) /\ timer' = [timer EXCEPT ![t] = "called"]
    /\ UNCHANGED owner

\* The event: a released runtime skips it, and so does it itself if the
\* context was released.
Fire(r) ==
    /\ Handles(r, "timer")
    /\ LET t == Head(queue[r]).arg
       IN  IF engine[r] = "freed" \/ context[r] = "closed"
             THEN Skip(r) /\ timer' = [timer EXCEPT ![t] = "dropped"]
             ELSE Enter(r) /\ timer' = [timer EXCEPT ![t] = "called"]
    /\ UNCHANGED owner

TimersTypeOK ==
    /\ timer \in [Timeouts -> Stages]
    /\ owner \in [Timeouts -> Runtimes]
==============================================================================
