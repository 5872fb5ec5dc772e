------------------------------- MODULE Workers -------------------------------
(***************************************************************************)
(* WorkerPlugin: new Worker in a script of the application creates a       *)
(* runtime of its own, with timers, and starts its script from a thread of *)
(* its own.  Messages go in both directions through the queues of the two  *)
(* runtimes.  terminate, and the plugin's close when the application's     *)
(* context is closed, post the closing of the worker's runtime to it.      *)
(*                                                                         *)
(* Scripts are the application's: one step of theirs is one call of what   *)
(* the plugins offer.                                                      *)
(***************************************************************************)
EXTENDS Timers, FiniteSets

CONSTANTS
    Tag,        \* getTag() of each worker's object
    Scenes,     \* what the application is like and what its scripts use:
                \* whether its thread has a Looper, the workers they create and
                \* whether their creation is interrupted, the calls of
                \* setTimeout, the number of messages to and from a worker,
                \* and how often it closes its context or runtime
    Delays      \* the delays that scripts pass to setTimeout

Directions == {"toWorker", "toMain"}

SceneType ==
    [looper : BOOLEAN, workers : SUBSET Workers, interrupts : BOOLEAN,
     timeouts : SUBSET Timeouts, messages : [Directions -> Nat], closes : Nat]

ASSUME WorkersAssumption ==
    /\ IsFiniteSet(Workers)
    /\ DOMAIN Tag = Workers
    /\ \A s \in Scenes : s \in SceneType
    /\ Delays \subseteq {"missing", "negative", "some"}

VARIABLES
    scene,      \* the one of this behaviour
    workers,    \* WorkerPlugin.workers: the worker kept under each tag
    terminate,  \* Worker.terminate
    script,     \* where the thread is that executes the worker's script
    listens,    \* whose onmessage is a function, in each direction
    sent,       \* (history) the number of messages posted,
    heard,      \* the ones that onmessage was called with
    missed,     \* and the ones for which there was no onmessage
    plugins,    \* JSContext.plugins of the application's context
    visiting,   \* the plugins that its close has yet to visit
    modified,   \* was plugins changed since that close began?
    closing,    \* what is being closed
    closes,     \* how many closes were asked for
    scripts,    \* was the application's script executed?
    sized,      \* the length of the array that QuickJS.close has just made
    broken      \* (history) the workers whose close() threw: the array did not
                \* fit sContextMap any more

workerVars == <<scene, workers, terminate, script, listens>>
messageVars == <<sent, heard, missed>>
closeVars == <<plugins, visiting, modified, closing, closes, scripts, sized, broken>>
vars == <<looperVars, timerVars, workerVars, messageVars, closeVars>>

Tags == {Tag[w] : w \in Workers}

\* The thread of the script posts it and waits while it runs, then posts the
\* check of its exception and waits again.
Scripts == {"none", "orphan", "starting", "posted", "running", "returned", "checking", "done"}

Events == [kind : {"timer"}, arg : Timeouts]
     \cup [kind : {"message"}, arg : Workers \X Nat]
     \cup [kind : {"app", "script", "exception", "closeContext", "closeRuntime"}, arg : {0}]

Init ==
    /\ scene \in Scenes
    /\ LoopersInit(scene.looper)
    /\ TimersInit
    /\ workers = << >>
    /\ terminate = [w \in Workers |-> FALSE]
    /\ script = [w \in Workers |-> "none"]
    /\ listens = [d \in Directions |-> {}]
    /\ sent = [d \in Directions |-> [w \in Workers |-> 0]]
    /\ heard = [d \in Directions |-> [w \in Workers |-> << >>]]
    /\ missed = [d \in Directions |-> [w \in Workers |-> << >>]]
    /\ plugins = {"SetTimeoutPlugin", "WorkerPlugin"}
    /\ visiting = {}
    /\ modified = FALSE
    /\ closing = "none"
    /\ closes = 0
    /\ scripts = FALSE
    /\ sized = [r \in Runtimes |-> 0]
    /\ broken = {}

-----------------------------------------------------------------------------
(***************************************************************************)
(* What the application's scripts do.                                      *)
(***************************************************************************)

\* The application executes a script.  It does so before it closes the
\* context: what happens to a script that is posted later is EventQueue's
\* matter.
AppScript ==
    /\ ~scripts /\ closes = 0
    /\ scripts' = TRUE
    /\ queue' = Posted(queue, Main, [kind |-> "app", arg |-> 0])
    /\ UNCHANGED <<handler, engine, context, doing, death, timerVars, workerVars, messageVars,
                   plugins, visiting, modified, closing, closes, sized, broken>>

RunAppScript ==
    /\ Handles(Main, "app")
    /\ Enter(Main)
    /\ UNCHANGED <<timerVars, workerVars, messageVars, closeVars>>

\* new Worker(url).  The constructor waits for what it posts to the new
\* runtime, which does nothing else yet, and starts the thread of the script.
\* The worker replaces the one that the plugin has under the same tag.
NewWorker(w) ==
    /\ doing[Main] = "script"
    /\ w \in scene.workers /\ script[w] = "none"
    /\ engine' = [engine EXCEPT ![w] = "open"]
    /\ context' = [context EXCEPT ![w] = "open"]
    /\ script' = [script EXCEPT ![w] = "starting"]
    /\ workers' = [x \in DOMAIN workers \cup {Tag[w]} |-> IF x = Tag[w] THEN w ELSE workers[x]]
    /\ UNCHANGED <<handler, queue, doing, death, scene, terminate, listens,
                   timerVars, messageVars, closeVars>>

\* The thread is interrupted while it waits: createRuntimeWithEventQueue
\* returns null, or a call to the new runtime does, and the constructor throws
\* a NullPointerException.  The runtime stays.
NewWorkerInterrupted(w) ==
    /\ doing[Main] = "script"
    /\ scene.interrupts
    /\ w \in scene.workers /\ script[w] = "none"
    /\ script' = [script EXCEPT ![w] = "orphan"]
    /\ engine' = [engine EXCEPT ![w] = "open"]
    /\ UNCHANGED <<handler, queue, context, doing, death, scene, workers, terminate, listens,
                   timerVars, messageVars, closeVars>>

\* The object exists: its methods can be called.
Made(w) == script[w] \notin {"none", "orphan"}

Talks(d) == scene.messages[d] > 0

\* worker.onmessage = f
ListenToWorker(w) ==
    /\ doing[Main] = "script"
    /\ Talks("toMain") /\ Made(w) /\ w \notin listens["toMain"]
    /\ listens' = [listens EXCEPT !["toMain"] = @ \cup {w}]
    /\ UNCHANGED <<looperVars, timerVars, scene, workers, terminate, script, messageVars, closeVars>>

Message(w, n) == [kind |-> "message", arg |-> <<w, n>>]
Add(f, d, w, x) == [f EXCEPT ![d][w] = Append(@, x)]

\* Mutant: the message overtakes the ones that wait.
SendToWorkerFirst(w) ==
    /\ doing[Main] = "script"
    /\ Made(w) /\ sent["toWorker"][w] < scene.messages["toWorker"]
    /\ Takes(w)
    /\ sent' = [sent EXCEPT !["toWorker"][w] = @ + 1]
    /\ queue' = [queue EXCEPT ![w] = <<Message(w, sent'["toWorker"][w])>> \o @]
    /\ UNCHANGED <<handler, engine, context, doing, death, timerVars, workerVars,
                   heard, missed, closeVars>>

\* worker.postMessage(m); a worker whose runtime is closed takes none.
SendToWorker(w) ==
    /\ doing[Main] = "script"
    /\ Made(w) /\ sent["toWorker"][w] < scene.messages["toWorker"]
    /\ Takes(w)
    /\ sent' = [sent EXCEPT !["toWorker"][w] = @ + 1]
    /\ queue' = Posted(queue, w, Message(w, sent'["toWorker"][w]))
    /\ UNCHANGED <<handler, engine, context, doing, death, timerVars, workerVars,
                   heard, missed, closeVars>>

\* Worker.close for each of ws: the first call posts the close.
CloseWorkers(ws) ==
    LET first == {w \in ws : ~terminate[w]}
    IN  /\ terminate' = [w \in Workers |-> terminate[w] \/ w \in ws]
        /\ queue' = [r \in Runtimes |->
                       IF r \in first /\ Takes(r)
                         THEN Append(queue[r], [kind |-> "closeRuntime", arg |-> 0])
                         ELSE queue[r]]

\* worker.terminate()
Terminate(w) ==
    /\ doing[Main] = "script"
    /\ Made(w) /\ ~terminate[w]
    /\ CloseWorkers({w})
    /\ UNCHANGED <<handler, engine, context, doing, death, timerVars,
                   scene, workers, script, listens, messageVars, closeVars>>

-----------------------------------------------------------------------------
(***************************************************************************)
(* The worker.                                                             *)
(***************************************************************************)

\* executeVoidScript on the thread of the script is two calls that wait.  Each
\* is posted; a closed runtime refuses it, and then whatever comes after it.
Ask(w, from, to, kind) ==
    /\ script[w] = from
    /\ IF Takes(w)
         THEN /\ script' = [script EXCEPT ![w] = to]
              /\ queue' = Posted(queue, w, [kind |-> kind, arg |-> 0])
         ELSE /\ script' = [script EXCEPT ![w] = "done"]
              /\ UNCHANGED queue
    /\ UNCHANGED <<handler, engine, context, doing, death, scene, workers, terminate, listens,
                   timerVars, messageVars, closeVars>>

\* _executeScript
StartScript(w) == Ask(w, "starting", "posted", "script")

\* checkException
CheckException(w) == Ask(w, "returned", "checking", "exception")

\* The event of the script.  Unlike that of postVoid it does not ask whether
\* the runtime was released while it waited in the queue: on a context that is
\* freed it ends somehow, or ends the Looper, which then notifies nobody.
RunScript(w) ==
    /\ Handles(w, "script")
    /\ \/ context[w] = "open" /\ Enter(w) /\ script' = [script EXCEPT ![w] = "running"]
       \/ context[w] = "closed" /\ Skip(w) /\ script' = [script EXCEPT ![w] = "returned"]
       \/ context[w] = "closed" /\ Die(w, "script") /\ UNCHANGED script
    /\ UNCHANGED <<scene, workers, terminate, listens, timerVars, messageVars, closeVars>>

\* Mutant: the event is skipped when the context was released, and its caller
\* is not notified.
GetExceptionUnanswered(w) ==
    /\ Handles(w, "exception")
    /\ Skip(w)
    /\ script' = [script EXCEPT ![w] = IF context[w] = "open" THEN "done" ELSE @]
    /\ UNCHANGED <<scene, workers, terminate, listens, timerVars, messageVars, closeVars>>

\* The event of _getException, which does not ask either.
GetException(w) ==
    /\ Handles(w, "exception")
    /\ \/ Skip(w) /\ script' = [script EXCEPT ![w] = "done"]
       \/ context[w] = "closed" /\ Die(w, "exception") /\ UNCHANGED script
    /\ UNCHANGED <<scene, workers, terminate, listens, timerVars, messageVars, closeVars>>

\* Thread r is executing the worker's script, and no Error is pending.
Answers(r) == r \in Workers /\ script[r] = "running" /\ death[r] = "no"

\* The function or the script that an event executes ends.  The thread that
\* waits for the worker's script is notified: it goes on to checkException, or
\* the event threw a RuntimeException, which ends it.
EndScript(r) ==
    /\ Return(r)
    /\ \/ Answers(r) /\ \E s \in {"returned", "done"} : script' = [script EXCEPT ![r] = s]
       \/ ~Answers(r) /\ UNCHANGED script
    /\ UNCHANGED <<scene, workers, terminate, listens, timerVars, messageVars, closeVars>>

\* onmessage = f
ListenToMain(w) ==
    /\ doing[w] = "script"
    /\ Talks("toWorker") /\ w \notin listens["toWorker"]
    /\ listens' = [listens EXCEPT !["toWorker"] = @ \cup {w}]
    /\ UNCHANGED <<looperVars, timerVars, scene, workers, terminate, script, messageVars, closeVars>>

\* postMessage(m): on a thread without a Looper the Error stays pending until
\* the event of the worker is over.
SendToMain(w) ==
    /\ doing[w] = "script" /\ death[w] = "no"
    /\ sent["toMain"][w] < scene.messages["toMain"]
    /\ Takes(Main)
    /\ IF Reachable(Main)
         THEN /\ sent' = [sent EXCEPT !["toMain"][w] = @ + 1]
              /\ queue' = Posted(queue, Main, Message(w, sent'["toMain"][w]))
              /\ UNCHANGED death
         ELSE /\ death' = [death EXCEPT ![w] = "post"]
              /\ UNCHANGED <<sent, queue>>
    /\ UNCHANGED <<handler, engine, context, doing, timerVars, workerVars,
                   heard, missed, closeVars>>

\* The event of postMessage calls onmessage, if there is one; getObject throws
\* an Error if the context was released and the runtime was not.
HearFromMain(w) ==
    /\ Handles(w, "message")
    /\ LET n == Head(queue[w]).arg[2]
       IN  CASE engine[w] = "freed" ->
                   Skip(w) /\ UNCHANGED <<heard, missed>>
             [] engine[w] = "open" /\ context[w] = "closed" ->
                   Die(w, "message") /\ UNCHANGED <<heard, missed>>
             [] context[w] = "open" /\ w \in listens["toWorker"] ->
                   Enter(w) /\ heard' = Add(heard, "toWorker", w, n) /\ UNCHANGED missed
             [] OTHER ->
                   Skip(w) /\ missed' = Add(missed, "toWorker", w, n) /\ UNCHANGED heard
    /\ UNCHANGED <<timerVars, workerVars, sent, closeVars>>

\* The event of sendMessageReceiver: getObject throws an Error if the context
\* was released.
HearFromWorker ==
    /\ Handles(Main, "message")
    /\ LET w == Head(queue[Main]).arg[1]
           n == Head(queue[Main]).arg[2]
       IN  CASE engine[Main] = "freed" ->
                   Skip(Main) /\ UNCHANGED <<heard, missed>>
             [] engine[Main] = "open" /\ context[Main] = "closed" ->
                   Die(Main, "message") /\ UNCHANGED <<heard, missed>>
             [] context[Main] = "open" /\ w \in listens["toMain"] ->
                   Enter(Main) /\ heard' = Add(heard, "toMain", w, n) /\ UNCHANGED missed
             [] OTHER ->
                   Skip(Main) /\ missed' = Add(missed, "toMain", w, n) /\ UNCHANGED heard
    /\ UNCHANGED <<timerVars, workerVars, sent, closeVars>>

-----------------------------------------------------------------------------
(***************************************************************************)
(* QuickJS.close.  All runtimes share sContextMap, which has the contexts  *)
(* that are open: it asks for its size, then for its contexts.             *)
(***************************************************************************)

MapSize == Cardinality({r \in Runtimes : context[r] = "open"})

\* The array is as long as the map has contexts now.
CloseSize(r) ==
    /\ Handles(r, "closeRuntime")
    /\ IF engine[r] = "freed"
         THEN Skip(r) /\ UNCHANGED sized
         ELSE /\ queue' = Popped(r)
              /\ doing' = [doing EXCEPT ![r] = "sizing"]
              /\ sized' = [sized EXCEPT ![r] = MapSize]
              /\ UNCHANGED <<handler, engine, context, death>>
    /\ UNCHANGED <<timerVars, workerVars, messageVars, plugins, visiting, modified, closing, closes,
                   scripts, broken>>

\* toArray fills the array and leaves null where the map has fewer contexts
\* now; when it has more, toArray makes another array and this one is all null.
\* The loop closes the contexts that come before a null, which throws a
\* NullPointerException that nobody sees.
Filled(r) == MapSize <= sized[r]
Fits(r) == MapSize = sized[r]

\* The rest of it on a worker's thread, whose plugins have nothing to close.
CloseWorkerRuntime(w) ==
    /\ doing[w] = "sizing"
    /\ doing' = [doing EXCEPT ![w] = "idle"]
    /\ sized' = [sized EXCEPT ![w] = 0]
    /\ context' = [context EXCEPT ![w] = IF Filled(w) THEN "closed" ELSE @]
    /\ engine' = [engine EXCEPT ![w] = IF Fits(w) THEN "freed" ELSE @]
    /\ broken' = IF Fits(w) THEN broken ELSE broken \cup {w}
    /\ UNCHANGED <<handler, queue, death, timerVars, workerVars, messageVars,
                   plugins, visiting, modified, closing, closes, scripts>>

-----------------------------------------------------------------------------
(***************************************************************************)
(* Closing the application's context and runtime.                          *)
(***************************************************************************)

\* context.close() or quickJS.close() of some thread of the application.
AskClose(what) ==
    /\ closes < scene.closes
    /\ closes' = closes + 1
    /\ Takes(Main)
    /\ queue' = Posted(queue, Main, [kind |-> what, arg |-> 0])
    /\ UNCHANGED <<handler, engine, context, doing, death, timerVars, workerVars, messageVars,
                   plugins, visiting, modified, closing, scripts, sized, broken>>

\* Another thread adds a plugin while close visits them.
AddPlugin ==
    /\ doing[Main] = "closing"
    /\ "added" \notin plugins
    /\ plugins' = plugins \cup {"added"}
    /\ modified' = TRUE
    /\ UNCHANGED <<looperVars, timerVars, workerVars, messageVars, visiting, closing, closes, scripts,
                   sized, broken>>

\* Mutant: the change of plugins that broke off a close is remembered.
VisitPluginsStale(what) ==
    /\ doing' = [doing EXCEPT ![Main] = "closing"]
    /\ visiting' = plugins
    /\ UNCHANGED modified
    /\ closing' = what

\* JSContext.close begins with its plugins.
VisitPlugins(what) ==
    /\ doing' = [doing EXCEPT ![Main] = "closing"]
    /\ visiting' = plugins
    /\ modified' = FALSE
    /\ closing' = what

\* JSContext.close: a context that is closed already is not closed again.
CloseContext ==
    /\ Handles(Main, "closeContext")
    /\ queue' = Popped(Main)
    /\ IF context[Main] = "open" THEN VisitPlugins("closeContext")
                                 ELSE UNCHANGED <<doing, visiting, modified, closing>>
    /\ UNCHANGED <<handler, engine, context, death, timerVars, workerVars, messageVars,
                   plugins, closes, scripts, sized, broken>>

\* QuickJS.close closes the context first, if it is in the array.  When a null
\* comes after it, nothing but the context is closed.
CloseRuntime ==
    /\ doing[Main] = "sizing"
    /\ sized' = [sized EXCEPT ![Main] = 0]
    /\ IF context[Main] = "open" /\ Filled(Main)
         THEN /\ VisitPlugins(IF Fits(Main) THEN "closeRuntime" ELSE "closeContext")
              /\ UNCHANGED engine
         ELSE /\ doing' = [doing EXCEPT ![Main] = "idle"]
              /\ engine' = [engine EXCEPT ![Main] = IF Fits(Main) /\ context[Main] = "closed"
                                                      THEN "freed" ELSE @]
              /\ UNCHANGED <<visiting, modified, closing>>
    /\ UNCHANGED <<handler, queue, context, death, timerVars, workerVars, messageVars,
                   plugins, closes, scripts, broken>>

\* Mutant: WorkerPlugin.close closes nothing.
CloseVisitIdle(p) ==
    /\ doing[Main] = "closing"
    /\ p \in visiting /\ ~modified
    /\ visiting' = visiting \ {p}
    /\ UNCHANGED <<queue, terminate>>
    /\ UNCHANGED <<handler, engine, context, doing, death, timerVars, scene, workers, script, listens,
                   messageVars, plugins, modified, closing, closes, scripts, sized, broken>>

\* plugin.close: the WorkerPlugin closes the workers that it has.
CloseVisit(p) ==
    /\ doing[Main] = "closing"
    /\ p \in visiting /\ ~modified
    /\ visiting' = visiting \ {p}
    /\ IF p = "WorkerPlugin" THEN CloseWorkers({workers[x] : x \in DOMAIN workers})
                             ELSE UNCHANGED <<queue, terminate>>
    /\ UNCHANGED <<handler, engine, context, doing, death, timerVars, scene, workers, script, listens,
                   messageVars, plugins, modified, closing, closes, scripts, sized, broken>>

\* The iterator throws a ConcurrentModificationException, which ends the event
\* and which nobody sees.
CloseThrows ==
    /\ doing[Main] = "closing"
    /\ visiting # {} /\ modified
    /\ doing' = [doing EXCEPT ![Main] = "idle"]
    /\ visiting' = {}
    /\ closing' = "none"
    /\ UNCHANGED <<handler, queue, engine, context, death, timerVars, workerVars, messageVars,
                   plugins, modified, closes, scripts, sized, broken>>

\* Mutant: the plugins that were not visited yet are forgotten.
CloseEndEarly ==
    /\ doing[Main] = "closing"
    /\ doing' = [doing EXCEPT ![Main] = "idle"]
    /\ context' = [context EXCEPT ![Main] = "closed"]
    /\ engine' = [engine EXCEPT ![Main] = IF closing = "closeRuntime" THEN "freed" ELSE @]
    /\ plugins' = {}
    /\ closing' = "none"
    /\ UNCHANGED <<handler, queue, death, timerVars, workerVars, messageVars,
                   visiting, modified, closes, scripts, sized, broken>>

\* What is left of close: the plugins are gone, the context is released, and
\* the runtime with it if that is what is being closed.
CloseEnd ==
    /\ doing[Main] = "closing"
    /\ visiting = {}
    /\ doing' = [doing EXCEPT ![Main] = "idle"]
    /\ context' = [context EXCEPT ![Main] = "closed"]
    /\ engine' = [engine EXCEPT ![Main] = IF closing = "closeRuntime" THEN "freed" ELSE @]
    /\ plugins' = {}
    /\ closing' = "none"
    /\ UNCHANGED <<handler, queue, death, timerVars, workerVars, messageVars,
                   visiting, modified, closes, scripts, sized, broken>>

-----------------------------------------------------------------------------

\* What the thread of a runtime does with the event it is at.
HandleEvent(r) ==
    \/ Fire(r) /\ UNCHANGED <<workerVars, messageVars, closeVars>>
    \/ r \in Workers /\ (RunScript(r) \/ GetException(r) \/ HearFromMain(r) \/ CloseWorkerRuntime(r))
    \/ r = Main /\ (RunAppScript \/ HearFromWorker \/ CloseContext \/ CloseRuntime)
    \/ r = Main /\ \E p \in plugins : CloseVisit(p)
    \/ r = Main /\ (CloseThrows \/ CloseEnd)
    \/ CloseSize(r)
    \/ EndScript(r)

\* What scripts call.
ScriptStep ==
    \/ \E r \in Runtimes, t \in Timeouts, d \in Delays :
          t \in scene.timeouts /\ SetTimeout(r, t, d) /\ UNCHANGED <<workerVars, messageVars, closeVars>>
    \/ \E w \in Workers :
          \/ NewWorker(w) \/ NewWorkerInterrupted(w) \/ ListenToWorker(w)
          \/ SendToWorker(w) \/ Terminate(w) \/ ListenToMain(w) \/ SendToMain(w)

\* The threads of the timers and of the workers' scripts.
TimerThread(t) == Wake(t) /\ UNCHANGED <<workerVars, messageVars, closeVars>>
ScriptThread(w) == StartScript(w) \/ CheckException(w)

Next ==
    \/ \E r \in Runtimes : HandleEvent(r)
    \/ ScriptStep
    \/ \E t \in Timeouts : TimerThread(t)
    \/ \E w \in Workers : ScriptThread(w)
    \/ AppScript \/ AddPlugin
    \/ \E what \in {"closeContext", "closeRuntime"} : AskClose(what)

Spec == Init /\ [][Next]_vars

\* Android schedules every thread, a Looper handles the messages of its queue
\* in their order, a sleep ends, and the application's scripts do.
FairSpec ==
    /\ Spec
    /\ \A r \in Runtimes : WF_vars(HandleEvent(r))
    /\ \A t \in Timeouts : WF_vars(TimerThread(t))
    /\ \A w \in Workers : WF_vars(ScriptThread(w))

-----------------------------------------------------------------------------
(***************************************************************************)
(* Properties.                                                             *)
(***************************************************************************)

\* Every variable has its type.
TypeOK ==
    /\ LoopersTypeOK(Events)
    /\ TimersTypeOK
    /\ scene \in Scenes
    /\ DOMAIN workers \subseteq Tags
    /\ \A x \in DOMAIN workers : workers[x] \in Workers
    /\ terminate \in [Workers -> BOOLEAN]
    /\ script \in [Workers -> Scripts]
    /\ listens \in [Directions -> SUBSET Workers]
    /\ sent \in [Directions -> [Workers -> Nat]]
    /\ heard \in [Directions -> [Workers -> Seq(Nat)]]
    /\ missed \in [Directions -> [Workers -> Seq(Nat)]]
    /\ plugins \subseteq {"SetTimeoutPlugin", "WorkerPlugin", "added"}
    /\ visiting \subseteq plugins
    /\ modified \in BOOLEAN
    /\ closing \in {"none", "closeContext", "closeRuntime"}
    /\ closes \in 0 .. scene.closes
    /\ scripts \in BOOLEAN
    /\ sized \in [Runtimes -> Nat]
    /\ broken \subseteq Workers

\* An event ends a Looper in these ways only: a message comes between the
\* closing of the context and that of the runtime, which only the application
\* does, or a worker whose close() sContextMap broke off; terminate overtakes
\* the script of a worker, or the check of its exception; or the application
\* has no Looper to which the worker could post.  Timers that fire after their
\* context or runtime was closed end none.
LooperEnds ==
    \A r \in Runtimes : death[r] # "no" =>
        \/ /\ death[r] = "message"
           /\ context[r] = "closed" /\ engine[r] = "open"
           /\ IF r = Main THEN handler ELSE r \in broken
        \/ /\ death[r] \in {"script", "exception"}
           /\ r \in Workers /\ terminate[r] /\ context[r] = "closed"
        \/ death[r] = "post" /\ r \in Workers /\ ~handler

Target(d, w) == IF d = "toWorker" THEN w ELSE Main
OfWorker(w, e) == e.kind = "message" /\ e.arg[1] = w

\* The first of w's messages have been handled: the ones without an onmessage
\* before the ones that it heard.
HandledInOrder(d, w) ==
    /\ \A i \in DOMAIN missed[d][w] : missed[d][w][i] = i
    /\ \A i \in DOMAIN heard[d][w] : heard[d][w][i] = Len(missed[d][w]) + i

\* Queue q has w's messages number from .. to, each once and in their order.
HasInOrder(q, w, from, to) ==
    /\ \A n \in from .. to : \E i \in DOMAIN q : q[i] = Message(w, n)
    /\ \A i \in DOMAIN q : OfWorker(w, q[i]) => q[i].arg[2] \in from .. to
    /\ \A i, j \in DOMAIN q :
          i < j /\ OfWorker(w, q[i]) /\ OfWorker(w, q[j]) => q[i].arg[2] < q[j].arg[2]

Handled(d, w) == Len(missed[d][w]) + Len(heard[d][w])

\* Messages are heard in the order in which they were sent, each once, and the
\* only ones that are lost were handled before onmessage was set: from then on
\* every message is heard until the context is closed.  The others are waiting.
HeardInOrder ==
    \A d \in Directions, w \in Workers : context[Target(d, w)] = "open" =>
        /\ HandledInOrder(d, w)
        /\ HasInOrder(queue[Target(d, w)], w, Handled(d, w) + 1, sent[d][w])

Ended(r) == context[r] = "closed" \/ death[r] # "no"

\* A function given to setTimeout with a delay is called, unless its context is
\* closed or its Looper ended before, or there is none.
TimeoutFires ==
    \A t \in Timeouts :
        timer[t] = "asleep" ~> timer[t] = "called" \/ Ended(owner[t]) \/ ~Reachable(owner[t])

\* When the application's context is closed the runtime of every worker that
\* the plugin still has is freed, unless an Error ended its Looper, or another
\* runtime's contexts came or went between the two looks at sContextMap.
WorkersAreClosed ==
    \A w \in Workers :
        context[Main] = "closed" /\ (\E x \in Tags : x \in DOMAIN workers /\ workers[x] = w)
            ~> engine[w] = "freed" \/ death[w] # "no" \/ w \in broken

\* The thread that executes a worker's script gets the answers to both of its
\* calls, also when the worker is closed before or between them.
ScriptThreadReturns ==
    \A w \in Workers : Made(w) ~> script[w] = "done" \/ death[w] # "no"

\* A close that a concurrent addPlugin breaks off can be repeated: one that
\* begins when no plugin is added any more closes the context.
CloseCanBeRepeated ==
    Handles(Main, "closeContext") /\ "added" \in plugins ~> Ended(Main)
==============================================================================
