# Verification of quickjs-android

quickjs-android is a Java binding for the QuickJS JavaScript engine: a Java API
(`QuickJS`, `JSContext`, `JSObject`, `JSArray`, `JSFunction`), an event queue
that brings the calls of all application threads to the one thread that may use
an engine, a JNI layer that converts values and counts references, and plugins
on top (timers, workers, console, module loading).  The engine itself
(`quickjs.c`) is vendored.

This directory holds TLA+ models of the binding, the TLC runs that check them
on small instances, and theorems that TLAPS proves for all instances.
Paths below are relative to `src/quickjs-android/src/main/`; Java classes are in
`java/com/quickjs/`, the JNI layer is `cpp/quickjs-jni.cpp`.

## 1. The system's parts

| Part | State it keeps | Operations | Interacts with |
|---|---|---|---|
| Event queue: `EventQueue.java`, `ThreadChecker.java` | the owner `thread`, its `handler`, `handlerThread`; per call the cells `result[]`, `errors[]`; `QuickJS.released` | `post`, `postVoid`, `postEventQueue`, `_createContext`, `interrupt` | every native call of every thread passes through it |
| Handles: `JSValue.java`, `JSContext.refs`, `releaseObjPtrPool` | `released` of each handle, the weak map `refs`, the pool | constructors, `close`, `finalize`, `checkReleaseObjPtrPool`, `JSContext.close` | the collector's finalizer thread; frees engine references through the event queue |
| Contexts and runtimes: `QuickJS.java`, `JSContext.java` | the static `sContextMap`, `QuickJS.released` | `createContext`, `JSContext.close`, `QuickJS.close` | all runtimes share the map |
| Exceptions: `QuickJS.checkException`, `_getException` | the engine's one `current_exception` per runtime | checked calls (`executeScript`, `executeFunction`, `JSFunction.call`), unchecked calls, callbacks | two native calls per checked call, each an event of its own |
| Callback registry: `JSObject.registerJavaMethod`, `registerClass`, `JSFunction` | `functionRegistry` of each context, the hash code in the engine's function | registration, `callJavaCallback`, clearing by `close` | scripts of any context of the runtime |
| JNI ownership: `quickjs-jni.cpp` | the engine's reference counts | every native function | handles; the engine's collector |
| Values: `JSObject`, `JSArray`, `JSFunction`, `JSValue.checkType` | none | conversions by expected type | callbacks, `addJavascriptInterface` |
| Timers: `SetTimeoutPlugin` | one thread per timer | `setTimeout` | posts to the event queue |
| Workers: `WorkerPlugin` | `workers`, a runtime and a script thread each | `new Worker`, `postMessage`, `terminate`, `close` | two event queues; the closing of the context |
| Modules: `CommonJSModule`, `ES6Module`, `Module` | the map `modules`; the engine's module records | `require`, `executeModule`, `convertModuleName` | scripts call Java, Java executes modules |
| Console: `ConsolePlugin` | a counter, start times | logging | callbacks |

What is hard about it: calls of several threads interleave around two
unsynchronised flags and a hand-written monitor; the collector runs finalizers
and clears weak keys concurrently with everything; `close` of a context or a
runtime can fall between any two steps of any other operation; one exception
slot, one map of contexts and one number space of hash codes are shared by
parties that do not know of each other.  `PROJECT.json` lists these hazards line
by line, with the properties that watch over them and a note where none does
yet.

What makes the parts correct:

* event queue: one thread in the engine, nothing on a freed runtime, order kept,
  no lost wakeup, a blocking call returns when its event is over;
* handles: every reference given back once, and not while it is in use;
* contexts: a runtime goes after its contexts, takes no others with it, and its
  `close()` ends;
* exceptions: the caller gets the error of its own script;
* callbacks: a call runs the callback it was registered with;
* values: counts are exact whoever calls whom, nothing in use is freed, nothing is
  left over;
* timers and workers: timers fire, messages arrive in order, the workers go when
  their context does, and no event ends a Looper that others need;
* modules: a path leads to the file it denotes, a module is executed once and after
  what it imports, and no record is used after it was freed.

## 2. Modules

| Module | Models | Runs |
|---|---|---|
| `SerialExecutor` | what the event queue promises (abstract) | as a property of `EventQueue` |
| `EventQueue` | `EventQueue.java`, `ThreadChecker.java`, the event of `QuickJS.close` | `event_queue_*` |
| `HandleRelease` | handles, `refs`, the pool, `JSContext.close` | `handle_*` |
| `ContextLifecycle` | `createContext`, `JSContext.close`, `QuickJS.close` on `sContextMap` | `context_*` |
| `PendingException` | `current_exception`, checked and unchecked calls, callbacks | `exception_*` |
| `CallbackRegistry` | registration and `callJavaCallback` | `callback_registry` |
| `Heap` | the engine's memory: counts, `free_zero_refcount`, `JS_RunGC` | through `ValueOwnership` |
| `ValueOwnership` | who owns what the native functions take and give | `value_ownership`, `value_ownership_global_this` |
| `Loopers` | several runtimes, a queue each, as the plugins see them | through `Workers` |
| `Timers` | `SetTimeoutPlugin` | through `Workers` |
| `Workers` | `WorkerPlugin`, composed with `Timers` on `Loopers`; the closing of a context plugin by plugin | `workers` |
| `ModuleNames` | `convertModuleName` and what names mean | through the next two |
| `ES6Modules` | `ES6Module` and the engine's module records | `es6_modules` |
| `CommonJS` | `CommonJSModule` | `commonjs_modules` |
| `MC…` | the instances TLC checks | |
| `EventQueueProofs`, `HandleReleaseProofs`, `ContextLifecycleProofs`, `PendingExceptionProofs`, `CallbackRegistryProofs`, `ValueOwnershipProofs`, `WorkersProofs`, `ModulesProofs` | the theorems | |

The modules meet at the event queue.  `EventQueue` says when an event may run
and leaves open what it does; the others take from it that events run one at a
time on the owner, when the owner is in its Looper or makes the call itself
(`OnJSThread`, `IsFree`, `OwnerFree`), and model what happens in and between
events.  `EventQueue`'s close event stands for the whole of `ContextLifecycle`'s
closing, whose closing of one context stands for `HandleRelease`'s.  `Loopers`
is the same interface for several runtimes at once: posting is one step, and the
events are spelled out instead.  `HandleRelease` says which handle gives a
reference back and when; `ValueOwnership` says what the reference does to the
counts, and lets a handle be released at any time.

### EventQueue

One step of the model is one step that other threads can observe.  `PassGate`
and `GateRefuses` are the first `if` of `post` and `postVoid`; `released` is not
volatile, so a thread other than its writer may read FALSE after it was set.
`RunInline` is a call the owner makes itself; `Submit` is
`handler.post`; `AwaitResult`, `Return` and `WakeEarly` the synchronized block of
the caller, which tests once and does not loop; `DispatchRun` and
`DispatchSkip` the Runnable, with the test of `isReleased()` that only
`postVoid`'s has; `EventReturns`, `EventThrowsError` and `Notify` its end: it
catches RuntimeExceptions, and an Error ends the Looper.  `mode` is how the
runtime was created, with a HandlerThread, on a thread with a Looper, or on one
without, where `ThreadChecker` decides.  The event of `close` runs like any
other.  It ends early with what the closing of the contexts threw, and then has
released nothing (`failed` is the history of those calls), or goes on to
`ReleaseRuntime`, which frees the runtime, and `CloseFinish`, which sets
`released`.

Not in the module: events that make further calls (those are inline, under the
same event; `PendingException` has the nesting), and what an event does.

### HandleRelease

A reference `r` the engine hands out is wrapped by the handle `<<r, 0>>`; a
constructor moves it to `<<r, 1>>` in the steps `ConstructMark`,
`ConstructUnlink`, `ConstructLink`.  `refs` maps hash codes to handles and may
collide; `ClearKey` is the collector clearing one of the boxed keys nobody
holds.  The finalizer has three steps (`Finalize`, `FinalizeAdd`,
`FinalizeRemove`), the drain of the pool four (`PoolTest`, `PoolGet`, `PoolFree`,
`PoolRemove`), and so every interleaving of them with `CloseBegin` …
`CloseEnd` is there.  `lost` is a history variable: the handles whose entry in
`refs` went to a collection or to a handle with the same hash code.  Calls on a
context that is already closed are left out, but for those that passed the
check before.

### ContextLifecycle

`createContext` is three steps (`CreateNative`, `GetGlobal`, `Put`), the first
on the calling thread, the second an event.  `Foreign` are the contexts that
threads other than the owner create.  `QuickJS.close` reads the size of the
shared map and copies it in two steps; the array keeps nulls if the map changed
in between, and the null ends the event with an exception that nobody sees
(`CloseThrows`).  `createContext` on a runtime that is already released is left
out: it would be a use of a freed pointer.

### PendingException

`stack` is the calls on the owner's stack, nested through callbacks.  `End` ends
the innermost script: with a value, an error it caught, a thrown value that is not
an Error, or an Error.  `Check` is the owner's `checkException`, directly after; a
client's (`ClientCheck`) is an event of its own, with any other event in between
(`overtaken` is the history of the calls to which that happened).  `EndThrows` is
a script one of whose callbacks threw: the Java exception stays pending in JNI and
the check is skipped.  `_getException` takes the exception out whatever it is, and
only an Error is thrown.  That the getters `_getException` calls on the error
could throw again is left out; so are promise jobs, which the binding never
executes (`JS_ExecutePendingJob` is not called anywhere).

### CallbackRegistry

`NewFunction` is the native call, after which a method can already be called;
`RegisterCallback` the `put` into `functionRegistry`, by the calling thread;
`SetFunction` the assignment that makes a class or a `JSFunction` reachable.
`Share` is the application passing a function to another context of its runtime,
which `checkRuntime` allows.  `Runs` is the lookup in the caller's context, or in
the class's own.  `hash` is any assignment of hash codes, equal ones included, and
`entered` the history of the entries.

### Heap and ValueOwnership

The nodes are JavaScript objects and the context, which functions refer to and
which refers to the global object.  The global object refers to itself
(`globalThis`) and, through the functions of the library, to the context.
`FreeValues` is any number of `JS_FreeValue`s in a row; what reaches zero waits on
a list that `FreeZero` works off one object per step.  `JS_RunGC` is `GcDecref`,
`GcScan` per node, `GcScanDone`, `GcFree` per node and `GcFreeDone`; it starts
wherever an object may be allocated (`TriggerGC`), calls in progress included.
`gc_decref` and the second loop of `gc_scan` are one step each, since their turns
commute and nothing else runs.  The lists are sets: no order of a loop is assumed.

`stack` is the calls in progress: scripts (`js`) called by Java and callbacks
(`java`) called by scripts, each with the references its caller holds meanwhile.
One action per native function says what it duplicates and frees.  Three losses
the code has are counted in `leaked`: `To_JObject` with an expected type that is
not an object, `_getException` with a thrown object that is not an Error, and the
handles that `JSContext.close` does not find in `refs`: `CloseContext` may come
while there are any, and nothing releases them afterwards.
What a script can do is assign, create, call, return and throw.  Values without
a count (numbers, booleans) and strings, which are counted but refer to nothing,
are all `Null`.

### Timers and Workers

`handler` says whether the application's thread has a Looper.  A timer is a
thread that sleeps, posts and ends; its `delay` may be missing (the unboxing of
`getDouble` throws) or negative (`Thread.sleep` throws, and the thread dies).
`NewWorker` is the whole constructor, which waits for everything it posts to a
runtime that does nothing else yet; if its thread is interrupted while waiting it
throws and the new runtime stays (`NewWorkerInterrupted`).  The thread of the
worker's script makes two calls that wait, `StartScript` and `CheckException`,
whose events are `RunScript` … `EndScript` and `GetException`; neither asks again
whether the runtime was released, and on a freed one anything may come of it, the
end of the Looper included.
`SendToWorker`, `HearFromMain`, `SendToMain`, `HearFromWorker` are the messages,
with the number each was sent under; `heard` and `missed` are histories.  The
closing of the application's context is `CloseContext`, one `CloseVisit` per
plugin and `CloseEnd`, or `CloseThrows` if another thread's `AddPlugin` came in
between.  `QuickJS.close` asks for the size of `sContextMap` (`CloseSize`) and
then for its contexts (`CloseWorkerRuntime`, `CloseRuntime`); when those of other
runtimes came or went in between, it throws after it closed the context, or before,
and frees nothing (`broken` is the history of the workers to which that
happened).  Workers are kept under `Tag`, which is the same for all objects.

### ModuleNames, ES6Modules and CommonJS

A name is the sequence of its segments, so that `split`, `replace("//", "/")`
and `substring(2)` are operators on sequences; `Throws` is a conversion that
ends in an exception.  `File` and `Imported` say what names and paths mean; a name
is normal if it is the way to its file, and a path tidy if its dots are all in
front.

`ES6Modules` has the engine's recursion as a stack of frames: `resolve` loads
imports through `getModuleScript`, `link` and `evaluate` go through the records,
`body` is a module's code, which may call Java and execute another module.  A
frame has the position at which its execution began (`root`), down to which a
failure returns.  A record is a number that is never used again: `defs` has its
name, `module` the records that answer its requests, `loaded_modules` the ones
that exist; `instantiated`, `eval_mark`, `evaluated` and `eval_has_exception` are
the sets of the records with that flag.  Linking is one step, as no code of the
application runs in it; what it goes through is `Reach`.  A record that is read
after it was freed sets `fault`, where the model stops. `interrupted` is a history
variable: the records that were being evaluated when a callback started another
execution.

`CommonJS` has the scripts in progress on a stack, `active`.  `require` looks into
`modules` with the path and `executeModuleScript` puts the module there under
the converted name when its script has ended, unless Java gave no name
(`IsAnonymous`).  The path is converted before it is looked up, and the name once
more before the script is executed; both conversions may throw.  The receiver of a
plain call is undefined, so every path is converted without a base.

## 3. Runs

| Run | Instance | What it shows |
|---|---|---|
| `event_queue_serial` | 2 clients and the owner, 2 calls each, all modes; `postVoid`, `postEventQueue`, `close`, which may throw | `SingleNativeThread`, `RuntimeAliveInNative`, `ExecutesSerially` (refinement), and under fairness `CloseReleases`, `BlockedCallReturns` |
| `event_queue_all_calls` | the same with `post`, `postVoid`, `createContext`, `close`, Errors and early wakeups | `TypeOK`, `WaiterIsServed`, `BlockingCallComplete` |
| `handle_single_thread` | the owner, 2 references (4 handles), colliding hash codes, collector, close | `TypeOK`, `NoDoubleFree`, `HeldIsAlive`, `AllReleasedAtFree` |
| `handle_clients` | 2 clients, 2 references, collector, no close | `HeldIsAlive` |
| `context_close` | 2 runtimes, 3 contexts, one of them created by another thread | `TypeOK`, `NoContextOutlivesRuntime`, `ClosedOnRequest`, and under fairness `CloseCompletes` |
| `exception_nested` | 2 clients and the owner, 5 calls, nesting 3, unchecked calls, throwing callbacks | `TypeOK`, `ThrowsOnlyItsOwn`, `NoErrorSwallowed` |
| `callback_registry` | the owner and a client, 2 contexts, 3 callbacks with any of 2 hash codes, all kinds, sharing, close | `TypeOK`, `RunsItsOwn`, `NoCallLost` |
| `value_ownership` | global object, a function, an object or Error; calls nested 2 deep, one handle per object | `TypeOK`, `CountsExact`, `NoDangling`, `CollectsGarbage`, `AssertionsHold`, `NothingLeft` |
| `value_ownership_global_this` | the same, methods of the global object called on it | **violation** of `AssertionsHold`: a handle without a reference |
| `workers` | five scenes: two messages and one back; two messages back and 2 closes; two workers with interrupts; a timer and a message; no Looper | `TypeOK`, `LooperEnds`, `HeardInOrder`, and under fairness `TimeoutFires`, `WorkersAreClosed`, `ScriptThreadReturns`, `CloseCanBeRepeated` |
| `es6_modules` | seven sets of files, 6 records | `NoUseOfFreed`, `OneRecordPerFile`, `ImportsEvaluatedFirst` |
| `commonjs_modules` | four files, 6 scripts, nesting 4 | `RequireSharesModules` |

The violation is a disagreement between the code and an assertion of the engine;
`findings` in `PROJECT.json` quotes both.

Bounds.  `MaxCalls` 2 lets a client queue a call behind its own close and find
the cells of an earlier call that was woken early.  Two references give four
handles, enough for one to be constructed, one collected and one drained at
once, and for two to share a hash code.  Three contexts put one of each runtime
and one of another thread in the map.  Five calls to depth three give a callback
inside a callback, an error left behind by an earlier call, and a call of the one
client, nested calls included, between the script and the check of the other.
Three callbacks of two hash codes always have two that are equal.  Three objects
and a context make cycles through properties and through a function's realm;
two calls on the stack are a script and the callback it is in, which may release
what the script uses.  Two messages can overtake each other, two workers collide
under their tag, two closes are one that is broken off and its repetition.  Six
records let a set of files be loaded and an execution be started in the middle
of another; six scripts let a cycle of two modules run into the nesting limit and
be required again.  Each mutant
listed in `PROJECT.json` is found within these bounds.

`CHECK_DEADLOCK FALSE` is given in `event_queue_all_calls`, where a Looper that an
Error ended leaves its waiters waiting, which is what the code does; in `workers`,
where the application has nothing left to do once everything is closed; and in the
two runs about modules, which end when the context is closed or a bound is
reached.

Fairness.  A thread inside a call takes its next step (`WF` on `Progress`): threads are
scheduled, and scripts are assumed to end.  The Looper keeps dispatching
(`WF` on `Looper`).  Nobody has to make a call, and nothing obliges a
wait to be interrupted.  In `ContextLifecycle` the steps of a close are under
`SF`: the owner's Handler is a queue, so an event that was posted gets its turn
although other events keep arriving, and the module does not keep the order of
the queue.  In `Workers` the thread of each runtime (`HandleEvent`), of each timer
(`TimerThread`) and of each worker's script (`ScriptThread`) is weakly fair: the
queues are kept in their order, sleeps end, and `EndScript` is among a Looper's
steps, since scripts are assumed to end.  Nothing obliges scripts or the
application to call, close, interrupt or add anything.

Properties state the conditions under which they hold rather than being checked
only where they do:

* `BlockingCallComplete` leaves out calls woken early, whose result is null;
* `AllReleasedAtFree` leaves out handles whose entry in `refs` was lost;
* `NoContextOutlivesRuntime` leaves out contexts created by other threads;
* `CloseCompletes` leaves out a close that met a changed map;
* `CloseReleases` leaves out a close whose own event threw: a context that is null, an
  iterator over plugins that another thread changed;
* `ThrowsOnlyItsOwn` lets a call throw what an unchecked call, or one whose
  callback threw, left behind, and the error of a call of another thread that it
  came before the check of; `NoErrorSwallowed` leaves out the latter call;
* `RunsItsOwn` lets a callback be replaced by one with the same hash code that is
  entered in its context later;
* `NoCallLost` leaves out the window between the native call and the entry of a
  registration, calls from another context, and closed contexts;
* `CountsExact` and `NothingLeft` account for the references that `To_JObject` and
  `_getException` lose, and for those of handles that `close` did not find in `refs`:
  what is left is what they reach;
* `LooperEnds` names the events that end a Looper: a message where the context is
  closed and the runtime is not (the application closed one of them, or a worker's
  `close()` was broken off), a worker's script or the check of its exception behind
  its termination, a worker's message to an application without a Looper;
* `TimeoutFires` leaves out delays that are missing or negative;
* `WorkersAreClosed` is about the workers the plugin still has: the one replaced
  under the shared tag and the one whose construction was interrupted stay, and so
  does one whose `close()` met a changed `sContextMap`, from which the closing of the
  application's context removes an entry just after it posted that close;
* `HeardInOrder` lets messages be missed before `onmessage` is set;
* `NoUseOfFreed` leaves out records that import each other, and records in whose
  evaluation a callback started another execution, which may free them when it
  fails, or evaluate a module that imports them and outlives them;
* `OneRecordPerFile` leaves out modules that Java executes again, absolute names
  (an importing module's leading slash is added twice: `/a/b.js` imports `./c.js`
  as `//a/c.js`), and names with dots left in them: the conversion removes only the
  `..` in front, so that `lib/../a` and `././a` give file `a` a second and a third
  record, and `../c` in the record `lib/../a` leads to `lib/c`;
* `RequireSharesModules` leaves out modules executed by Java, paths that differ from
  the name the module is kept under (`./a` is executed again each time), and
  modules that require themselves through others, which recurse until the stack
  is exhausted although the repository's README promises CommonJS modules as in
  Node.js (`README.md:10`).

Two more restrictions are in the instances: `SingleNativeThread` holds without
`createContext` by other threads, and `HeldIsAlive` while no other thread closes the
context during a constructor.

Without these exceptions TLC finds counterexamples, of which five are worth
knowing.  Each takes one change to a run:

* `post` queued behind `close` runs on the freed runtime, because its Runnable does
  not test `isReleased()` again as `postVoid`'s does (`event_queue_serial` with
  `post` among the calls; `EventQueue.java:53`);
* two threads drain one pool entry and free it twice (`handle_clients` with
  `NoDoubleFree`; `JSContext.java:50`);
* a collection clears the boxed key of a live handle, `close` no longer finds it,
  and `JS_FreeRuntime`'s assertion on `gc_obj_list` fails (`AllReleasedAtFree`
  without `lost`, `NothingLeft` without `NoneLost`; `JSContext.java:18`);
* another runtime changes `sContextMap` between `size()` and `toArray()`, and
  `close()` never releases the runtime (`CloseCompletes` without `nulls`;
  `QuickJS.java:68`);
* the script of another thread runs between a script and the check of its exception,
  and the one caller gets the other's error (`NoErrorSwallowed` without `overtaken`;
  `JSContext.java:88`).

## 4. Proofs

| Theorem | Assumes | Property |
|---|---|---|
| `EventQueueProofs!TypeCorrect` | | `TypeOK` |
| `EventQueueProofs!NoLostWakeup` | | `WaiterIsServed` |
| `EventQueueProofs!BlockingCallsComplete` | | `BlockingCallComplete` |
| `EventQueueProofs!OneThreadInEngine` | no `createContext` | `SingleNativeThread` |
| `EventQueueProofs!NoUseAfterFree` | `Guarded`: neither `post` nor `createContext` | `RuntimeAliveInNative` |
| `EventQueueProofs!EventQueueIsSerialExecutor` | `Guarded` | `ExecutesSerially` |
| `HandleReleaseProofs!TypeCorrect` | | `TypeOK` |
| `HandleReleaseProofs!FreedOnce` | `SingleUser`: the owner is the only user | `NoDoubleFree` |
| `HandleReleaseProofs!HeldStaysAlive` | `SingleUser` | `HeldIsAlive` |
| `HandleReleaseProofs!HeldStaysAliveForAll` | `~MayClose`: the context is not closed; any number of threads | `HeldIsAlive` |
| `HandleReleaseProofs!ReleasedAtFree` | `SingleUser` | `AllReleasedAtFree` |
| `ContextLifecycleProofs!TypeCorrect` | | `TypeOK` |
| `ContextLifecycleProofs!RuntimeOutlivesItsContexts` | | `NoContextOutlivesRuntime` |
| `ContextLifecycleProofs!ClosesItsOwn` | | `ClosedOnRequest` |
| `PendingExceptionProofs!TypeCorrect` | | `TypeOK` |
| `PendingExceptionProofs!ErrorsReachTheirCaller` | | `NoErrorSwallowed` |
| `PendingExceptionProofs!ErrorsAreTheCallers` | | `ThrowsOnlyItsOwn` |
| `CallbackRegistryProofs!TypeCorrect` | | `TypeOK` |
| `CallbackRegistryProofs!OnlyItsOwnCallback` | | `RunsItsOwn` |
| `CallbackRegistryProofs!EveryCallRuns` | | `NoCallLost` |
| `ValueOwnershipProofs!TypeCorrect` | `Global \notin Receivers`: no callback has the global object as `this` | `TypeOK` |
| `ValueOwnershipProofs!ExactCounts` | the same | `CountsExact` |
| `ValueOwnershipProofs!NothingDangles` | the same | `NoDangling` |
| `ValueOwnershipProofs!GarbageFound` | the same | `CollectsGarbage` |
| `ValueOwnershipProofs!CollectorAssertions` | the same | `AssertionsHold` |
| `ValueOwnershipProofs!NothingRemains` | the same | `NothingLeft` |
| `WorkersProofs!TypeCorrect` | | `TypeOK` |
| `WorkersProofs!LoopersEnd` | | `LooperEnds` |
| `WorkersProofs!MessagesInOrder` | | `HeardInOrder` |
| `ModulesProofs!ModulesAreShared` | | `RequireSharesModules` |
| `ModulesProofs!FreedIsNotUsed` | | `NoUseOfFreed` |
| `ModulesProofs!ImportsComeFirst` | | `ImportsEvaluatedFirst` |
| `ModulesProofs!FilesAreLoadedOnce` | | `LoadedOnce`, a part of `OneRecordPerFile` |
| `ModulesProofs!ImportsLead` | `Resolves(names)`: what `convertModuleName` makes of the files' imports | `OneRecordPerFile` |

The assumptions are the ones the counterexamples of section 3 show to be needed;
that of `ValueOwnershipProofs` is what the run `value_ownership_global_this` drops.
Beyond them the theorems hold for any number of threads, calls, references,
contexts, callbacks, objects, workers, scripts, module files and nested executions,
and any hash function.

The arguments:

* *Event queue.*  `TypeOK` is inductive with `StepOK` (a thread in a call has
  numbered it; an owner about to notify has a message).  `WaiterIsServed` is
  inductive with them: it names the place where the notification is still to come
  from.  `BlockingCallComplete` follows from `CompleteInv`: a message is in flight
  once (`PostedOnce`), that of a caller's latest call is answered only when its
  event is over (`FlightOK`), and then its cells tell the outcome (`ToldOK`),
  although messages of earlier calls, whose wait was interrupted, may be in the
  queue.  For the freed runtime the invariant is `ExecInv`: no client is in the
  engine (`ClientsOut`), only calls that are made are queued (`CallsOK`), and the
  runtime is freed exactly when `released` is set or the owner is between freeing
  and setting it (`AliveOK`); a close that throws has freed nothing.  The
  refinement shows each step to be a step of `SerialExecutor` or a stutter under
  `backlog <- queue`, `active <-` the tasks of the threads in the engine, `closed
  <- released`.
* *Handles.*  Each reference is in one place (`TokenOK`): with one handle that
  is in charge of it, with the finalizer, in the pool, or freed; only the entry
  that is being removed is both in the pool and freed.  `LoopOK` and `KnownOK`
  say where the one thread is in its loop and that nobody knows a handle that
  was not made.  The hash function does not matter: `refs` may lose handles,
  never create a second owner.  `KeptOK` carries the references to the end: one that
  is not given back is held by a handle that `close` will still come to, or that
  has lost its entry.  With several threads a reference is no longer in one place,
  since two may take the same entry from the pool; `ClientsOK` says instead that a
  reference in the pool, with the finalizer, with a thread that took it, or freed
  (`Going`) has no handle in charge of it (`Lapsed`), and that it never gets one
  again: each constructor moves a reference of its own.
* *Exceptions.*  `Shape` (the frames are different unchecked calls, a client's
  check finds the stack empty), `ErrorOK` (the error of the call about to check
  is the current one, unless the call was overtaken), `OwnOK` and `LeftOK` (any other
  current error is of a call that is to make its check or of one that is over and that
  nobody will check, and such a call stays over; what another call threw is of the
  latter or was overtaken), `OnceOK` (an error that was thrown is gone).
* *Callbacks.*  `LatestOK`: what the registry has under a hash code is the last
  callback that was entered there under it, in whatever order threads made their
  entries.  `EntryOK`: the entry of a function that was made is there, unless its
  thread is about to make it or its context is closed.  Neither needs the hash codes to
  differ.
* *Contexts.*  `CreateOK`: a runtime's own thread creates one context at a time and
  closes nothing meanwhile.  `FindsOK`: an open context of that thread was counted
  by `size()`, and is in the array unless the array has nulls, which end the close
  before it releases anything.  `AskedOK`: only a close that was asked for is under
  way.  No assumption on the other runtimes is needed.
* *Values.*  `Inv` is `TypeOK` with what the counts are (`CountOK`): outside a
  collection all references to a node, and while `gc_scan` runs those from outside
  the heap and from the nodes it has come to.  `ListOK`, `RunOK`, `ZeroOK`, `ScanOK`
  and `CyclesOK` say what the engine's lists have in each phase: everything on
  `gc_obj_list` is referred to; what `gc_scan` has put back can be reached, what it
  has not has no counted reference; when it is done, the list is exactly what can
  be reached, so that freeing the rest takes no reference of anything that
  stays.  `CtxOK` and `KeysOK` (only a function's own slot refers to the context)
  are needed where a context is freed; `RuntimeOK` says how far the closing is, and
  `EndOK` that the last collection leaves exactly what the lost references reach, and
  that nothing is freed after it.  The
  proofs of the native functions go through `FreeingStep` (references are given
  up, and the objects left without any go to the list of `free_zero_refcount`) and
  `KeepingStep` (references are made, or move from one owner to another); what
  remains for each function is the sum of what the owners have.
* *Workers.*  `SafeInv` is `LooperEnds` with what makes it inductive: nothing is
  posted to a worker whose constructor has not returned (`FreshOK`), a message to the
  application was posted to a Looper and a request to close comes from a termination
  (`QueueOK`), a context is open on an open runtime only, and a worker whose context is
  closed was terminated and has its runtime freed or its close broken off (`EngineOK`).
  `OrderInv` adds that the queue of a receiver has exactly the messages from the first
  that is not handled to the last that was sent, in their order.
* *CommonJS.*  `ActiveOK`: the scripts in progress, oldest first, have not ended.
  `MapOK`: until the context is closed the map has every module whose script ended
  and that has a name.  So a require that executes a name again finds the earlier
  run of it on the stack; by `ChainOK` that run requires the new one, which is what
  `ShareOK` keeps.  What the conversion of names does is not used.
* *ES6 modules.*  `Shape` and `StackOK` are about the stack: executions follow each
  other, each started by a body of the one below, and only the innermost one resolves
  or links, so that all below it are evaluations of other records.  While a record is
  loaded and linked (`OpenOK`), every newer record is imported from it and only it and
  newer ones request it; so when it is freed because something failed to load, a
  record that still requests it is in a cycle with it.  `AnswersOK`: only the requests of
  records that are being loaded have no answer yet, and each frame awaits the record
  of the next one.  `EvalOK`: the marked records are those of the evaluating frames,
  the requests before the one a frame is at are done (`Done`), and within an execution
  what is further in is imported from what is further out.  `FreedOK` is the heart:
  what a record that exists requests exists too, or was interrupted, or imports that
  record; the same for evaluated records and what is evaluated, because that is what
  would be left if everything else were freed; and what a linked record that is not
  evaluated requests exists.  `AliveOK`: only a body may find its record freed, and
  then it was interrupted.  The step of linking takes from `Reach` that it is closed
  under requests.  `LoadedOnce` follows from `UniqueOK` (no two records that were
  imported have one name), since a normal name is determined by its file; nothing is
  assumed of the conversion.  `ImportsLeadToTheirFiles` follows from `RecordsOK` (an
  answer has the name that the path converts to).  Its theorem assumes
  `Resolves(names)`: on sets of names with all results of the conversion, those of
  bases without dots denote the files that the paths denote, and those of tidy paths
  are normal.  TLC evaluates this for the files of the run (`ConversionAssumption` in
  `MCES6Modules`).

Only model-checked: everything under fairness, since liveness is out of the
prover's reach; and `Resolves` for the names of the run, since what
`convertModuleName`, `File` and `Imported` make of a name of any length takes induction
over its segments.

## 5. Not modelled

* Most of the vendored engine.  Of `quickjs.c` the models have what the binding's
  correctness rests on and what has a protocol: reference counts and the collector,
  module records, the current exception.  The parser, the compiler and interpreter
  of byte code, the built-in objects, `libregexp.c`, `libunicode.c`, `libbf.c` and
  their tables are algorithms on data that no interleaving or failure of the binding
  reaches, nine tenths of the repository's lines; `quickjs-libc.c`,
  `run-test262.c`, `qjs.c`, `qjsc.c` and `unicode_gen.c` are not part of the
  library's build.
* Promise jobs and dynamic `import()`: the binding never calls
  `JS_ExecutePendingJob`, so no job ever runs.
* Conversions by expected type (`JSValue.checkType`, `To_JObject`'s cases,
  `addJavascriptInterface`'s arguments): pure data.  The strings that
  `_getException` reads and does not free refer to no object.
* The console plugin: formatting and logging on one thread.
* Module execution on several threads at once: `ES6Module` and `CommonJSModule` post
  each native call, and their own maps are used by callbacks on the owner.
* The example application and the tests, which were read for what they expect.

## 6. Plan

Done, in the order of importance: `EventQueue` with `SerialExecutor`,
`HandleRelease`, `ContextLifecycle`, `PendingException`, `CallbackRegistry`, then
`ValueOwnership` on `Heap`, `Workers` on `Timers` and `Loopers`, `ES6Modules` and
`CommonJS` on `ModuleNames`.

Every invariant, every action property and the refinement that a passing run checks is
proved, under the assumptions of the table in section 4.  The proofs have corrected
two of the models.  In `ES6Modules` a record may be used after an execution, started
in a callback, evaluated a module that imports it and the interrupted execution then
failed; `NoUseOfFreed` says so now, and the run has files for it.  In `CommonJS` a name
is converted once more before its script runs, which may throw, and a required module
with the empty name is kept.

Open: the liveness properties and `Resolves` for all names, for the reasons given in
section 4.
