----------------------------- MODULE EventQueue -----------------------------
(***************************************************************************)
(* EventQueue.java: how the Java threads of an application reach the       *)
(* single-threaded JavaScript engine of one QuickJS runtime.  A call goes  *)
(* through post (it returns a value), through postVoid (it returns         *)
(* nothing), or, for _createContext only, straight to the engine.  The     *)
(* thread that built the EventQueue owns the engine; a call of any other   *)
(* thread is handed to the owner's Handler and, unless it is non-blocking, *)
(* waits on a monitor until the owner has run it.                          *)
(*                                                                         *)
(* One step of the model is one step other threads can observe: the read   *)
(* of the released/interrupted flags, Handler.post, the synchronized       *)
(* check-and-wait, the entry to and the return from the engine, notifyAll. *)
(***************************************************************************)
EXTENDS Naturals, Sequences

CONSTANTS
    Clients,     \* the application threads that do not own the engine
    JSThread,    \* EventQueue.thread: the thread that owns the engine
    Modes,       \* the ways in which the runtime is created, see AllModes
    Calls,       \* the kinds of call the threads make, see CallKinds
    Outcomes,    \* how an event may end, see OutcomeKinds
    Interrupts,  \* may a waiting client be interrupted (or wake spuriously)?
    MaxCalls,    \* bound: how many calls each thread makes
    NoMsg        \* the owner is not handling a message of its Handler

\* "eventQueue": createRuntimeWithEventQueue() (a HandlerThread of its own);
\* "looper": createRuntime() on a thread that has a Looper;
\* "noLooper": createRuntime() on a thread that has none (handler == null).
AllModes == {"eventQueue", "looper", "noLooper"}

\* "post": post(); "postVoid": postVoid(event, true); "postEvent":
\* QuickJS.postEventQueue, that is postVoid(event, false); "close":
\* QuickJS.close(), a postEventQueue whose event frees the runtime or throws;
\* "createContext": EventQueue._createContext, which posts nothing.
CallKinds == {"post", "postVoid", "postEvent", "close", "createContext"}

\* An event returns, throws a RuntimeException (which the Runnable given to
\* the Handler catches) or throws an Error (which it does not catch).
OutcomeKinds == {"value", "exception", "error"}

Threads == Clients \cup {JSThread}

Msg == [caller : Clients, id : 1 .. MaxCalls, call : CallKinds]

CloseCalls == [caller : Threads, id : 1 .. MaxCalls, call : {"close"}]

ASSUME EventQueueAssumption ==
    /\ JSThread \notin Clients
    /\ Modes \subseteq AllModes
    /\ Calls \subseteq CallKinds
    /\ Outcomes \subseteq OutcomeKinds
    /\ Interrupts \in BOOLEAN
    /\ MaxCalls \in Nat
    /\ NoMsg \notin Msg

VARIABLES
    mode,         \* how the runtime was created: EventQueue's final fields
    pc,           \* where each thread is
    call,         \* the kind of each thread's latest call
    seq,          \* how many calls each thread has made: numbers the calls
    cell,         \* result[]/errors[] of each client's latest call
    ret,          \* what each thread's latest call returned
    queue,        \* the messages posted to the owner's Handler
    cur,          \* the message the owner is handling, or NoMsg
    released,     \* QuickJS.released
    interrupted,  \* handlerThread.isInterrupted()
    freed,        \* JS_FreeRuntime has been called
    failed        \* history: the calls of close() whose event threw

engineVars == <<mode, released, interrupted, freed, failed>>
vars == <<mode, pc, call, seq, cell, ret, queue, cur, released, interrupted,
          freed, failed>>

Steps == {"idle", "checked", "submitted", "waiting", "native", "freeing",
          "notify", "dead"}

Returns == {"none", "refused", "threadError", "void", "value", "exception",
            "error", "null"}

HasHandler == mode # "noLooper"
HasHandlerThread == mode = "eventQueue"

\* ThreadChecker.checkThread: only the thread that acquired the checker, the
\* one that ran the EventQueue's constructor, passes.
CheckThread(t) == t = JSThread

\* Does the call wait for its event?
Blocks(k) == k \in {"post", "postVoid"}

\* result[1], result[0] or errors[0], and whether the wait for them ended early.
Cells == [done : BOOLEAN, out : {"null", "value", "exception"}, early : BOOLEAN]

EmptyCell == [done |-> FALSE, out |-> "null", early |-> FALSE]

Init ==
    /\ mode \in Modes
    /\ pc = [t \in Threads |-> "idle"]
    /\ call = [t \in Threads |-> "post"]
    /\ seq = [t \in Threads |-> 0]
    /\ cell = [t \in Threads |-> EmptyCell]
    /\ ret = [t \in Threads |-> "none"]
    /\ queue = << >>
    /\ cur = NoMsg
    /\ released = FALSE
    /\ interrupted = FALSE
    /\ freed = FALSE
    /\ failed = {}

-----------------------------------------------------------------------------
(***************************************************************************)
(* The caller's side.                                                      *)
(***************************************************************************)

\* Thread t begins a call.  An event queue's own thread runs only what its
\* Handler gives it; a thread that called createRuntime() also runs the
\* application's code.
Begin(t, k) ==
    /\ pc[t] = "idle"
    /\ t = JSThread => mode # "eventQueue"
    /\ k \in Calls
    /\ seq[t] < MaxCalls
    /\ seq' = [seq EXCEPT ![t] = @ + 1]
    /\ call' = [call EXCEPT ![t] = k]
    /\ cell' = [cell EXCEPT ![t] = EmptyCell]

\* QuickJS.released is neither volatile nor guarded by a lock: its writer,
\* the owner, sees its value, any other thread may still read FALSE.
PassGate(t, k) ==
    /\ k # "createContext"
    /\ Begin(t, k)
    /\ ~interrupted
    /\ t = JSThread => ~released
    /\ pc' = [pc EXCEPT ![t] = "checked"]
    /\ ret' = [ret EXCEPT ![t] = "none"]
    /\ UNCHANGED <<queue, cur, engineVars>>

\* "QuickJS is released": the call returns null.
GateRefuses(t, k) ==
    /\ k # "createContext"
    /\ Begin(t, k)
    /\ released \/ interrupted
    /\ ret' = [ret EXCEPT ![t] = "refused"]
    /\ UNCHANGED <<pc, queue, cur, engineVars>>

\* _createContext enters the engine on the thread that calls it, whichever
\* it is, and looks at no flag.
CreateContext(t) ==
    /\ Begin(t, "createContext")
    /\ pc' = [pc EXCEPT ![t] = "native"]
    /\ ret' = [ret EXCEPT ![t] = "none"]
    /\ UNCHANGED <<queue, cur, engineVars>>

\* Mutant: a client runs its event itself, Handler or not.
RunsAnywhere(t) == TRUE

\* Does the caller run its event itself?
RunsInline(t) == t = JSThread \/ (~HasHandler /\ CheckThread(t))

\* The caller owns the engine, or there is no Handler and checkThread lets
\* it through: it runs the event itself.  Only this thread ever writes
\* released, so the test of it in close's event repeats the gate's.
RunInline(t) ==
    /\ pc[t] = "checked"
    /\ RunsInline(t)
    /\ pc' = [pc EXCEPT ![t] = "native"]
    /\ UNCHANGED <<call, seq, cell, ret, queue, cur, engineVars>>

\* checkThread throws: "All QuickJS methods must be called on the same thread".
ThreadError(t) ==
    /\ pc[t] = "checked"
    /\ ~HasHandler
    /\ ~CheckThread(t)
    /\ pc' = [pc EXCEPT ![t] = "idle"]
    /\ ret' = [ret EXCEPT ![t] = "threadError"]
    /\ UNCHANGED <<call, seq, cell, queue, cur, engineVars>>

\* The message that carries the latest call of client c.
MsgOf(c) == [caller |-> c, id |-> seq[c], call |-> call[c]]

\* Mutant: handler.postAtFrontOfQueue(...).
SubmitAtFront(c) ==
    /\ pc[c] = "checked"
    /\ HasHandler
    /\ c # JSThread
    /\ queue' = <<MsgOf(c)>> \o queue
    /\ pc' = [pc EXCEPT ![c] = IF Blocks(call[c]) THEN "submitted" ELSE "idle"]
    /\ ret' = [ret EXCEPT ![c] = IF Blocks(call[c]) THEN "none" ELSE "void"]
    /\ UNCHANGED <<call, seq, cell, cur, engineVars>>

\* handler.post(...).  A non-blocking call returns at once.
Submit(c) ==
    /\ pc[c] = "checked"
    /\ HasHandler
    /\ c # JSThread
    /\ queue' = Append(queue, MsgOf(c))
    /\ pc' = [pc EXCEPT ![c] = IF Blocks(call[c]) THEN "submitted" ELSE "idle"]
    /\ ret' = [ret EXCEPT ![c] = IF Blocks(call[c]) THEN "none" ELSE "void"]
    /\ UNCHANGED <<call, seq, cell, cur, engineVars>>

\* Mutant: wait() without the test of result[1].
AwaitUntested(c) ==
    /\ pc[c] = "submitted"
    /\ pc' = [pc EXCEPT ![c] = "waiting"]
    /\ UNCHANGED <<call, seq, cell, ret, queue, cur, engineVars>>

\* synchronized (result) { if (result[1] == null) result.wait(); }: the test
\* and the wait are one step, the monitor is held in between.
AwaitResult(c) ==
    /\ pc[c] = "submitted"
    /\ ~cell[c].done
    /\ pc' = [pc EXCEPT ![c] = "waiting"]
    /\ UNCHANGED <<call, seq, cell, ret, queue, cur, engineVars>>

\* Mutant: the call returns without having waited.
ReturnAtOnce(c) ==
    /\ pc[c] = "submitted"
    /\ pc' = [pc EXCEPT ![c] = "idle"]
    /\ ret' = [ret EXCEPT ![c] = cell[c].out]
    /\ UNCHANGED <<call, seq, cell, queue, cur, engineVars>>

\* The call returns result[0], or throws errors[0].
Return(c) ==
    /\ pc[c] = "submitted"
    /\ cell[c].done
    /\ pc' = [pc EXCEPT ![c] = "idle"]
    /\ ret' = [ret EXCEPT ![c] = cell[c].out]
    /\ UNCHANGED <<call, seq, cell, queue, cur, engineVars>>

\* wait() throws InterruptedException, or wakes up spuriously: the code tests
\* result[1] with an if, not in a loop, and goes on to return what the cells
\* hold now.
WakeEarly(c) ==
    /\ Interrupts
    /\ pc[c] = "waiting"
    /\ pc' = [pc EXCEPT ![c] = "idle"]
    /\ ret' = [ret EXCEPT ![c] = cell[c].out]
    /\ cell' = [cell EXCEPT ![c].early = TRUE]
    /\ UNCHANGED <<call, seq, queue, cur, engineVars>>

-----------------------------------------------------------------------------
(***************************************************************************)
(* The owner's Looper.                                                     *)
(***************************************************************************)

\* Mutant: no Runnable tests isReleased().
RechecksNever(k) == FALSE

\* The Runnable that postVoid posts tests isReleased() before it runs its
\* event; the one that post posts does not.
Rechecks(k) == k # "post"

\* The owner takes the next message of its Handler.
Take(m) ==
    /\ pc[JSThread] = "idle"
    /\ queue # << >>
    /\ m = Head(queue)
    /\ queue' = Tail(queue)

DispatchRun ==
    \E m \in {queue[i] : i \in DOMAIN queue} :
        /\ Take(m)
        /\ Rechecks(m.call) => ~released
        /\ pc' = [pc EXCEPT ![JSThread] = "native"]
        /\ cur' = m
        /\ UNCHANGED <<call, seq, cell, ret, engineVars>>

\* Mutant: a dropped event returns from the Runnable, its caller is forgotten.
SkipSilently ==
    \E m \in {queue[i] : i \in DOMAIN queue} :
        /\ Take(m)
        /\ Rechecks(m.call)
        /\ released
        /\ pc' = [pc EXCEPT ![JSThread] = "idle"]
        /\ cur' = NoMsg
        /\ UNCHANGED <<call, seq, cell, ret, engineVars>>

\* The runtime is released: the event is dropped, its caller still notified.
DispatchSkip ==
    \E m \in {queue[i] : i \in DOMAIN queue} :
        /\ Take(m)
        /\ Rechecks(m.call)
        /\ released
        /\ pc' = [pc EXCEPT ![JSThread] = IF Blocks(m.call) THEN "notify"
                                                            ELSE "idle"]
        /\ cur' = IF Blocks(m.call) THEN m ELSE NoMsg
        /\ UNCHANGED <<call, seq, cell, ret, engineVars>>

\* Is m the latest call of its caller?  (The cells of an older call, which
\* returned early, belong to nobody.)
IsLatest(m) == m.id = seq[m.caller]

\* The call a thread inside the engine is executing.
TaskOf(t) == IF t = JSThread /\ cur # NoMsg THEN cur ELSE MsgOf(t)

\* The event of call m ends with outcome o.  That of close() is not over when
\* its contexts are closed: it goes on in ReleaseRuntime, unless it threw.
Ends(m, o) ==
    /\ m.call = "close" => o # "value"
    /\ failed' = IF m.call = "close" THEN failed \cup {m} ELSE failed

\* Mutant: the Runnable catches Throwable.
EventReturnsAny(o) ==
    /\ o \in Outcomes
    /\ pc[JSThread] = "native"
    /\ cur # NoMsg
    /\ cell' = IF IsLatest(cur)
                 THEN [cell EXCEPT ![cur.caller].out = o]
                 ELSE cell
    /\ Ends(cur, o)
    /\ pc' = [pc EXCEPT ![JSThread] = "notify"]
    /\ UNCHANGED <<call, seq, ret, queue, cur, mode, released, interrupted, freed>>

\* The event of message cur ends: its outcome goes to the cells of its call.
EventReturns(o) ==
    /\ o \in Outcomes \ {"error"}
    /\ pc[JSThread] = "native"
    /\ cur # NoMsg
    /\ cell' = IF IsLatest(cur)
                 THEN [cell EXCEPT ![cur.caller].out = o]
                 ELSE cell
    /\ Ends(cur, o)
    /\ IF Blocks(cur.call)
         THEN /\ pc' = [pc EXCEPT ![JSThread] = "notify"]
              /\ UNCHANGED cur
         ELSE /\ pc' = [pc EXCEPT ![JSThread] = "idle"]
              /\ cur' = NoMsg
    /\ UNCHANGED <<call, seq, ret, queue, mode, released, interrupted, freed>>

\* An Error is not caught: it leaves Looper.loop() and ends the thread.
EventThrowsError ==
    /\ "error" \in Outcomes
    /\ pc[JSThread] = "native"
    /\ cur # NoMsg
    /\ Ends(cur, "error")
    /\ pc' = [pc EXCEPT ![JSThread] = "dead"]
    /\ UNCHANGED <<call, seq, cell, ret, queue, cur, mode, released, interrupted,
                   freed>>

\* The call that thread t ran itself returns or throws.
InlineReturns(t, o) ==
    /\ o \in Outcomes
    /\ pc[t] = "native"
    /\ t = JSThread => cur = NoMsg
    /\ Ends(MsgOf(t), o)
    /\ pc' = [pc EXCEPT ![t] = "idle"]
    /\ ret' = [ret EXCEPT ![t] = o]
    /\ UNCHANGED <<call, seq, cell, queue, cur, mode, released, interrupted, freed>>

\* QuickJS.close's event has closed the contexts, which may throw (an element
\* of the array that is null, an iterator over plugins that another thread
\* changed, a plugin; ContextLifecycle and Workers model them), and calls
\* JS_FreeRuntime.
ReleaseRuntime(t) ==
    /\ pc[t] = "native"
    /\ TaskOf(t).call = "close"
    /\ pc' = [pc EXCEPT ![t] = "freeing"]
    /\ freed' = TRUE
    /\ UNCHANGED <<call, seq, cell, ret, queue, cur, mode, released, interrupted,
                   failed>>

\* Mutant: close interrupts the thread and leaves released alone.
CloseInterrupts(t) ==
    /\ pc[t] = "freeing"
    /\ interrupted' = HasHandlerThread
    /\ pc' = [pc EXCEPT ![t] = "idle"]
    /\ cur' = NoMsg
    /\ UNCHANGED <<call, seq, cell, ret, queue, mode, released, freed, failed>>

\* released = true; quickJSNative.interrupt().
CloseFinish(t) ==
    /\ pc[t] = "freeing"
    /\ released' = TRUE
    /\ interrupted' = HasHandlerThread
    /\ pc' = [pc EXCEPT ![t] = "idle"]
    /\ cur' = NoMsg
    /\ UNCHANGED <<call, seq, cell, ret, queue, mode, freed, failed>>

\* synchronized (result) { result[1] = true; result.notifyAll(); }
Notify ==
    /\ pc[JSThread] = "notify"
    /\ cell' = IF IsLatest(cur)
                 THEN [cell EXCEPT ![cur.caller].done = TRUE]
                 ELSE cell
    /\ pc' = [t \in Threads |->
                CASE t = JSThread -> "idle"
                  [] t = cur.caller /\ IsLatest(cur) /\ pc[t] = "waiting"
                       -> "submitted"
                  [] OTHER -> pc[t]]
    /\ cur' = NoMsg
    /\ UNCHANGED <<call, seq, ret, queue, engineVars>>

-----------------------------------------------------------------------------

\* All calls have been made and have returned (a bounded instance stops here).
Quiescent ==
    /\ \A t \in Threads : pc[t] = "idle"
    /\ \A c \in Clients : seq[c] = MaxCalls
    /\ queue = << >>
    /\ UNCHANGED vars

Caller(t) ==
    \/ \E k \in Calls : PassGate(t, k) \/ GateRefuses(t, k)
    \/ CreateContext(t)
    \/ WakeEarly(t)

\* What a thread inside a call does next.
Progress(t) ==
    \/ RunInline(t)
    \/ ThreadError(t)
    \/ Submit(t)
    \/ AwaitResult(t)
    \/ Return(t)
    \/ \E o \in Outcomes : InlineReturns(t, o)
    \/ ReleaseRuntime(t)
    \/ CloseFinish(t)

Looper ==
    \/ DispatchRun
    \/ DispatchSkip
    \/ \E o \in Outcomes : EventReturns(o)
    \/ EventThrowsError
    \/ Notify

Next ==
    \/ \E t \in Threads : Caller(t) \/ Progress(t)
    \/ Looper
    \/ Quiescent

Spec == Init /\ [][Next]_vars

\* Threads are scheduled, the Looper keeps dispatching, a call into the engine
\* returns (a script that loops forever is the application's); nobody is
\* obliged to make a call.
Fairness ==
    /\ \A t \in Threads : WF_vars(Progress(t))
    /\ WF_vars(Looper)

FairSpec == Spec /\ Fairness

-----------------------------------------------------------------------------
(***************************************************************************)
(* Properties.                                                             *)
(***************************************************************************)

\* Every variable has its type.
TypeOK ==
    /\ mode \in Modes
    /\ pc \in [Threads -> Steps]
    /\ call \in [Threads -> CallKinds]
    /\ seq \in [Threads -> 0 .. MaxCalls]
    /\ cell \in [Threads -> Cells]
    /\ ret \in [Threads -> Returns]
    /\ queue \in Seq(Msg)
    /\ cur \in Msg \cup {NoMsg}
    /\ released \in BOOLEAN
    /\ interrupted \in BOOLEAN
    /\ freed \in BOOLEAN
    /\ failed \subseteq CloseCalls

\* The threads inside the engine.
InEngine == {t \in Threads : pc[t] \in {"native", "freeing"}}

\* At most one thread is inside the engine: JSRuntime has no locks.
SingleNativeThread == \A s, t \in InEngine : s = t

\* No event runs on a runtime that JS_FreeRuntime has freed, wherever close
\* falls among the calls that were posted before it was seen.
RuntimeAliveInNative == \A t \in Threads : pc[t] = "native" => ~freed

Occurs(m, q) == \E i \in DOMAIN q : q[i] = m

Queued(m) == Occurs(m, queue)

Served(c) ==
    /\ pc[c] \in {"submitted", "waiting"} =>
         /\ Blocks(call[c])
         /\ \/ cell[c].done
            \/ Queued(MsgOf(c))
            \/ /\ cur = MsgOf(c)
               /\ pc[JSThread] \in {"native", "notify", "dead"}
    /\ pc[c] = "waiting" => ~cell[c].done

\* No lost wakeup: the event of a client that is about to wait, or waits, is
\* still to be run or being run, or has already set result[1]; and a client
\* never waits once result[1] is set.  (If an Error ended the owner's thread,
\* the events it had accepted stay where they are.)
WaiterIsServed == \A c \in Clients : Served(c)

\* What a blocking call that was not woken early tells its caller: the event
\* is over, neither queued nor running; a post that was not refused has
\* its event's result or exception, never the null of the unset cell, and a
\* postVoid comes back without either only if the runtime was released.
BlockingCallComplete ==
    \A c \in Clients :
        /\ pc[c] = "idle"
        /\ seq[c] > 0
        /\ Blocks(call[c])
        /\ ~cell[c].early
        => /\ ~Queued(MsgOf(c))
           /\ cur # MsgOf(c)
           /\ ret[c] = "null" => released /\ call[c] # "post"

Executor == INSTANCE SerialExecutor WITH
    Task <- [caller : Threads, id : 1 .. MaxCalls, call : CallKinds],
    CloseTask <- CloseCalls,
    backlog <- queue,
    active <- {TaskOf(t) : t \in InEngine},
    closed <- released

\* The event queue is a serial executor: events are run one at a time and in
\* the order Handler.post accepted them, all of them until a close has released
\* the runtime, also after closes that threw, and none of them afterwards.
ExecutesSerially == Executor!Spec

\* A client that waits is woken up, unless an Error ended the owner's thread.
BlockedCallReturns ==
    \A c \in Clients : pc[c] = "waiting" ~> (pc[c] # "waiting"
                                             \/ pc[JSThread] = "dead")

\* A close() that passed the gate, and that no ThreadError stops, releases the
\* runtime unless its own event threw, or an Error ended the owner's thread:
\* closes that threw before it, events behind it and calls that are made
\* meanwhile do not keep it from it.
CloseReleases ==
    \A m \in CloseCalls :
        /\ pc[m.caller] = "checked"
        /\ MsgOf(m.caller) = m
        /\ HasHandler \/ m.caller = JSThread
        ~> released \/ m \in failed \/ pc[JSThread] = "dead"
=============================================================================
