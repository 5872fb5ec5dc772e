--------------------------- MODULE SerialExecutor ---------------------------
(***************************************************************************)
(* What the event queue of a runtime promises: an executor that runs one   *)
(* task at a time.  A task is accepted into the backlog and started in the *)
(* order of acceptance, or started directly by the thread that owns the    *)
(* engine; nothing accepted is lost while the executor is open; once a     *)
(* closing task has closed it nothing is started any more and what is left *)
(* of the backlog is discarded.                                            *)
(***************************************************************************)
EXTENDS Sequences

CONSTANTS
    Task,       \* the tasks
    CloseTask   \* those that close the executor

VARIABLES backlog, active, closed

vars == <<backlog, active, closed>>

Init ==
    /\ backlog = << >>
    /\ active = {}
    /\ closed = FALSE

Accept(task) ==
    /\ backlog' = Append(backlog, task)
    /\ UNCHANGED <<active, closed>>

Start ==
    /\ active = {}
    /\ ~closed
    /\ backlog # << >>
    /\ active' = {Head(backlog)}
    /\ backlog' = Tail(backlog)
    /\ UNCHANGED closed

StartDirect(task) ==
    /\ active = {}
    /\ ~closed
    /\ active' = {task}
    /\ UNCHANGED <<backlog, closed>>

Discard ==
    /\ active = {}
    /\ closed
    /\ backlog # << >>
    /\ backlog' = Tail(backlog)
    /\ UNCHANGED <<active, closed>>

\* A closing task that fails finishes without closing.
Finish(task) ==
    /\ active = {task}
    /\ active' = {}
    /\ UNCHANGED <<backlog, closed>>

Close(task) ==
    /\ task \in CloseTask
    /\ active = {task}
    /\ active' = {}
    /\ closed' = TRUE
    /\ UNCHANGED backlog

Next ==
    \/ \E task \in Task : Accept(task) \/ StartDirect(task) \/ Finish(task) \/ Close(task)
    \/ Start
    \/ Discard

Spec == Init /\ [][Next]_vars
=============================================================================
