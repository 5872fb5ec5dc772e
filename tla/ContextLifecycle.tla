-------------------------- MODULE ContextLifecycle --------------------------
(***************************************************************************)
(* Contexts and runtimes (QuickJS.java, JSContext.java).  Every runtime    *)
(* has an event queue and a thread of its own, but all contexts of all     *)
(* runtimes are registered in one static map, QuickJS.sContextMap, which   *)
(* QuickJS.close walks to find its own.  createContext runs on the thread  *)
(* that calls it; JSContext.close and QuickJS.close are events on the      *)
(* runtime's thread.                                                       *)
(***************************************************************************)
EXTENDS Naturals, FiniteSets

CONSTANTS
    Runtimes,
    Contexts,
    Owner,          \* the runtime each context is created on
    Foreign         \* the contexts that application threads create; the others
                    \* are created by their runtime's thread

ASSUME ContextLifecycleAssumption ==
    /\ Owner \in [Contexts -> Runtimes]
    /\ IsFiniteSet(Contexts)
    /\ Foreign \subseteq Contexts
    /\ Contexts \cap Runtimes = {}

VARIABLES
    ctx,        \* how far each context is in its life
    thread,     \* what each runtime's thread is doing
    size,       \* sContextMap.size() as QuickJS.close read it
    values,     \* the contexts in its array values
    nulls,      \* does values also hold nulls?
    asked,      \* the contexts and runtimes whose close() was called
    pending,    \* those whose close event is still in the event queue
    released    \* QuickJS.released

vars == <<ctx, thread, size, values, nulls, asked, pending, released>>

Lives == {"none", "native", "global", "open", "closed", "failed"}

Init ==
    /\ ctx = [c \in Contexts |-> "none"]
    /\ thread = [r \in Runtimes |-> "idle"]
    /\ size = [r \in Runtimes |-> 0]
    /\ values = [r \in Runtimes |-> {}]
    /\ nulls = [r \in Runtimes |-> FALSE]
    /\ asked = {}
    /\ pending = {}
    /\ released = [r \in Runtimes |-> FALSE]

\* QuickJS.sContextMap: put by the constructor, removed by close.
sContextMap == {c \in Contexts : ctx[c] = "open"}

-----------------------------------------------------------------------------
(***************************************************************************)
(* createContext, in three steps of its thread.                            *)
(***************************************************************************)

\* A runtime's own thread is busy with createContext until it returns.
Occupy(c, from, to) ==
    IF c \in Foreign
      THEN UNCHANGED thread
      ELSE /\ thread[Owner[c]] = from
           /\ thread' = [thread EXCEPT ![Owner[c]] = to]

\* _createContext: JS_NewContext on the calling thread.  Nothing stops a call
\* on a runtime that is being closed; a closed one is not called here.
CreateNative(c) ==
    /\ ctx[c] = "none"
    /\ ~released[Owner[c]]
    /\ Occupy(c, "idle", "create")
    /\ ctx' = [ctx EXCEPT ![c] = "native"]
    /\ UNCHANGED <<size, values, nulls, asked, pending, released>>

\* _getGlobalObject is posted: it runs when the runtime's thread is free.
GetGlobal(c) ==
    /\ ctx[c] = "native"
    /\ ~released[Owner[c]]
    /\ c \in Foreign => thread[Owner[c]] = "idle"
    /\ ctx' = [ctx EXCEPT ![c] = "global"]
    /\ UNCHANGED <<thread, size, values, nulls, asked, pending, released>>

\* The post is refused and returns null: the constructor of JSValue throws.
GetGlobalFails(c) ==
    /\ ctx[c] = "native"
    /\ released[Owner[c]]
    /\ Occupy(c, "create", "idle")
    /\ ctx' = [ctx EXCEPT ![c] = "failed"]
    /\ UNCHANGED <<size, values, nulls, asked, pending, released>>

\* QuickJS.sContextMap.put(contextPtr, this).
Put(c) ==
    /\ ctx[c] = "global"
    /\ Occupy(c, "create", "idle")
    /\ ctx' = [ctx EXCEPT ![c] = "open"]
    /\ UNCHANGED <<size, values, nulls, asked, pending, released>>

-----------------------------------------------------------------------------
(***************************************************************************)
(* Closing.                                                                *)
(***************************************************************************)

\* The application calls close() on a context or a runtime, once or again: an
\* event is posted, nobody waits for it.
AskClose(x) ==
    /\ x \notin pending
    /\ x \in Contexts => ctx[x] \in {"open", "closed"}
    /\ asked' = asked \cup {x}
    /\ pending' = pending \cup {x}
    /\ UNCHANGED <<ctx, thread, size, values, nulls, released>>

\* JSContext.close's event: the handles are released (HandleRelease), then
\* _releaseContext and sContextMap.remove.  It does nothing if the context is
\* closed already, and is dropped if the runtime is released.
CloseContext(c) ==
    /\ c \in pending
    /\ thread[Owner[c]] = "idle"
    /\ pending' = pending \ {c}
    /\ ctx' = IF ctx[c] = "open" /\ ~released[Owner[c]]
                THEN [ctx EXCEPT ![c] = "closed"]
                ELSE ctx
    /\ UNCHANGED <<thread, size, values, nulls, asked, released>>

\* QuickJS.close's event begins; it does nothing on a released runtime.
CloseBegin(r) ==
    /\ r \in pending
    /\ thread[r] = "idle"
    /\ pending' = pending \ {r}
    /\ thread' = IF released[r] THEN thread ELSE [thread EXCEPT ![r] = "close"]
    /\ UNCHANGED <<ctx, size, values, nulls, asked, released>>

\* Mutant: one element more than there are contexts.
CloseSizePlusOne(r) ==
    /\ thread[r] = "close"
    /\ size' = [size EXCEPT ![r] = Cardinality(sContextMap) + 1]
    /\ thread' = [thread EXCEPT ![r] = "sized"]
    /\ UNCHANGED <<ctx, values, nulls, asked, pending, released>>

\* values = new JSContext[sContextMap.size()]
CloseSize(r) ==
    /\ thread[r] = "close"
    /\ size' = [size EXCEPT ![r] = Cardinality(sContextMap)]
    /\ thread' = [thread EXCEPT ![r] = "sized"]
    /\ UNCHANGED <<ctx, values, nulls, asked, pending, released>>

\* sContextMap.values().toArray(values): an array that is too small is left
\* as it is, one that is too large is padded with null.
CloseToArray(r) ==
    /\ thread[r] = "sized"
    /\ LET n == Cardinality(sContextMap)
       IN  /\ values' = [values EXCEPT ![r] = IF n <= size[r] THEN sContextMap ELSE {}]
           /\ nulls' = [nulls EXCEPT ![r] = n # size[r] /\ size[r] > 0]
    /\ thread' = [thread EXCEPT ![r] = "loop"]
    /\ UNCHANGED <<ctx, size, asked, pending, released>>

\* Mutant: every context is taken for one of this runtime's.
IsMineAlways(c, r) == TRUE

\* context.getQuickJS() == QuickJS.this
IsMine(c, r) == Owner[c] = r

\* Mutant: the contexts are left to the runtime.
CloseOneSkips(r, c) ==
    /\ thread[r] = "loop"
    /\ c \in values[r]
    /\ values' = [values EXCEPT ![r] = @ \ {c}]
    /\ UNCHANGED <<ctx, thread, size, nulls, asked, pending, released>>

\* One turn of the loop; context.close() runs inline.
CloseOne(r, c) ==
    /\ thread[r] = "loop"
    /\ c \in values[r]
    /\ values' = [values EXCEPT ![r] = @ \ {c}]
    /\ ctx' = IF IsMine(c, r) /\ ctx[c] = "open"
                THEN [ctx EXCEPT ![c] = "closed"]
                ELSE ctx
    /\ UNCHANGED <<thread, size, nulls, asked, pending, released>>

\* A null in values: NullPointerException, which the Runnable swallows.
CloseThrows(r) ==
    /\ thread[r] = "loop"
    /\ values[r] = {}
    /\ nulls[r]
    /\ thread' = [thread EXCEPT ![r] = "idle"]
    /\ UNCHANGED <<ctx, size, values, nulls, asked, pending, released>>

\* Mutant: the runtime is freed and not marked.
CloseUnmarked(r) ==
    /\ thread[r] = "loop"
    /\ values[r] = {}
    /\ ~nulls[r]
    /\ thread' = [thread EXCEPT ![r] = "idle"]
    /\ UNCHANGED <<ctx, size, values, nulls, asked, pending, released>>

\* _releaseRuntime, released = true.
CloseRelease(r) ==
    /\ thread[r] = "loop"
    /\ values[r] = {}
    /\ ~nulls[r]
    /\ released' = [released EXCEPT ![r] = TRUE]
    /\ thread' = [thread EXCEPT ![r] = "idle"]
    /\ UNCHANGED <<ctx, size, values, nulls, asked, pending>>

-----------------------------------------------------------------------------

\* Every runtime was closed.
Quiescent ==
    /\ Runtimes \subseteq asked
    /\ pending = {}
    /\ \A r \in Runtimes : thread[r] = "idle"
    /\ UNCHANGED vars

Create(c) == CreateNative(c) \/ GetGlobal(c) \/ GetGlobalFails(c) \/ Put(c)

CloseStep(r) ==
    \/ CloseBegin(r)
    \/ CloseSize(r)
    \/ CloseToArray(r)
    \/ \E c \in Contexts : CloseOne(r, c)
    \/ CloseThrows(r)
    \/ CloseRelease(r)

Next ==
    \/ \E c \in Contexts : Create(c) \/ CloseContext(c)
    \/ \E r \in Runtimes : CloseStep(r)
    \/ \E x \in Contexts \cup Runtimes : AskClose(x)
    \/ Quiescent

Spec == Init /\ [][Next]_vars

\* The runtimes' threads are scheduled.  Their Handlers are queues: an event
\* that was posted runs although others keep arriving, hence SF.
FairSpec ==
    /\ Spec
    /\ \A r \in Runtimes : SF_vars(CloseStep(r))
    /\ \A c \in Contexts : WF_vars(GetGlobal(c) \/ GetGlobalFails(c) \/ Put(c))

-----------------------------------------------------------------------------
(***************************************************************************)
(* Properties.                                                             *)
(***************************************************************************)

\* Every variable has its type.
TypeOK ==
    /\ ctx \in [Contexts -> Lives]
    /\ thread \in [Runtimes -> {"idle", "create", "close", "sized", "loop"}]
    /\ size \in [Runtimes -> 0 .. Cardinality(Contexts)]
    /\ values \in [Runtimes -> SUBSET Contexts]
    /\ nulls \in [Runtimes -> BOOLEAN]
    /\ asked \in SUBSET (Contexts \cup Runtimes)
    /\ pending \in SUBSET asked
    /\ released \in [Runtimes -> BOOLEAN]

\* A runtime is freed only after the contexts that its own thread created,
\* whatever other runtimes do to the map that they share.
NoContextOutlivesRuntime ==
    \A c \in Contexts \ Foreign :
        released[Owner[c]] => ctx[c] \in {"none", "closed"}

\* A context is closed only if the application closed it or its runtime, not
\* because another runtime that shares the map is being closed.
ClosedOnRequest ==
    \A c \in Contexts : ctx[c] = "closed" => c \in asked \/ Owner[c] \in asked

\* QuickJS.close() ends with the runtime released, unless the size of the map
\* changed between size() and toArray().
CloseCompletes ==
    \A r \in Runtimes : r \in asked ~> (released[r] \/ nulls[r])
=============================================================================
