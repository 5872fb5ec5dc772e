--------------------------- MODULE HandleRelease ----------------------------
(***************************************************************************)
(* How the Java handles of one JSContext give their references back to the *)
(* engine (JSContext.java, JSValue.java).  A call into the engine that     *)
(* yields an object takes one reference r and wraps it in the handle       *)
(* <<r, 0>>; a constructor such as new JSObject(context) moves it into the *)
(* object under construction, the handle <<r, 1>>.  The reference is freed *)
(* by JSContext.close, which closes the handles it finds in refs, or, when *)
(* the handle is collected first, by way of releaseObjPtrPool: the         *)
(* finalizer puts it there and the next checkReleased of any thread frees  *)
(* it.                                                                     *)
(*                                                                         *)
(* EventQueue's part is abstracted: an event of a thread other than the    *)
(* owner runs when the owner is back in its Looper.                        *)
(***************************************************************************)
EXTENDS Naturals, Sequences, FiniteSets

CONSTANTS
    Users,      \* the threads that use the context (JSThread may be one)
    JSThread,   \* the thread that owns the engine
    Refs,       \* the references the engine hands out
    HashCodes,  \* the values of Object.hashCode
    Hash,       \* the hash code of each handle
    GC,         \* does the collector run?
    MayClose,   \* is the context ever closed?
    NoHandle

Handles == Refs \X {0, 1}

Threads == Users \cup {JSThread}

ASSUME HandleReleaseAssumption ==
    /\ Hash \in [Handles -> HashCodes]
    /\ GC \in BOOLEAN
    /\ MayClose \in BOOLEAN
    /\ NoHandle \notin Handles

VARIABLES
    pc,        \* where each thread is
    arg,       \* the reference each thread's constructor is moving
    task,      \* what each thread calls checkReleaseObjPtrPool for
    local,     \* ptr, its local variable
    made,      \* the handles that exist
    held,      \* the handles the application holds
    released,  \* the handles whose released field is set
    refs,      \* JSContext.refs: from hash codes to handles
    pool,      \* JSContext.releaseObjPtrPool
    finalizing,\* the handle the finalizer thread is in, and its next step
    snapshot,  \* jsValues of JSContext.close
    frees,     \* how often each reference was given to JS_FreeValue
    closed,    \* JSContext.released
    rtFreed,   \* the runtime is freed and QuickJS.released set
    lost       \* (history) the handles whose entry in refs was lost, see below

vars == <<pc, arg, task, local, made, held, released, refs, pool, finalizing,
          snapshot, frees, closed, rtFreed, lost>>

Steps == {"idle", "mark", "unlink", "link", "test", "get", "free", "remove",
          "closing"}
Tasks == {"use", "construct", "close"}
FinalizerSteps == {"none", "add", "remove"}

Init ==
    /\ pc = [t \in Threads |-> "idle"]
    /\ arg = [t \in Threads |-> NoHandle]
    /\ task = [t \in Threads |-> "use"]
    /\ local = [t \in Threads |-> NoHandle]
    /\ made = {}
    /\ held = {}
    /\ released = {}
    /\ refs = [k \in HashCodes |-> NoHandle]
    /\ pool = << >>
    /\ finalizing = [handle |-> NoHandle, step |-> "none"]
    /\ snapshot = {}
    /\ frees = [r \in Refs |-> 0]
    /\ closed = FALSE
    /\ rtFreed = FALSE
    /\ lost = {}

\* An event of thread t can run: t is the owner, or the owner is in its Looper.
OnJSThread(t) == t = JSThread \/ pc[JSThread] = "idle"

\* addObjRef and removeObjRef go by the hash code alone: a handle loses its
\* entry to another one with the same hash code.
AddObjRef(h) ==
    /\ refs' = [refs EXCEPT ![Hash[h]] = h]
    /\ lost' = lost \cup ({refs[Hash[h]]} \ {NoHandle})

RemoveObjRef(h) ==
    /\ refs' = [refs EXCEPT ![Hash[h]] = NoHandle]
    /\ lost' = lost \cup ({refs[Hash[h]]} \ {h, NoHandle})

-----------------------------------------------------------------------------
(***************************************************************************)
(* The application's threads: objects the engine returns, and constructors.*)
(***************************************************************************)

\* The engine returns an object: To_JObject, createJSValue and the JSValue
\* constructor that takes the raw value run on the owner.
NewHandle(t, r) ==
    /\ t \in Users
    /\ pc[t] = "idle"
    /\ OnJSThread(t)
    /\ ~closed
    /\ <<r, 0>> \notin made
    /\ made' = made \cup {<<r, 0>>}
    /\ AddObjRef(<<r, 0>>)
    /\ UNCHANGED <<task, local, released, pool, finalizing, snapshot, frees,
                   closed, rtFreed>>

\* A getter or a script hands the object to the application.
Obtain(t, r) ==
    /\ NewHandle(t, r)
    /\ held' = held \cup {<<r, 0>>}
    /\ UNCHANGED <<pc, arg>>

\* new JSObject(context): super(context, _initNewJSObject(...)).
Construct(t, r) ==
    /\ NewHandle(t, r)
    /\ pc' = [pc EXCEPT ![t] = "mark"]
    /\ arg' = [arg EXCEPT ![t] = r]
    /\ UNCHANGED held

\* Mutant: the old handle stays in charge of the reference.
ConstructUnmarked(t) ==
    /\ pc[t] = "mark"
    /\ made' = made \cup {<<arg[t], 1>>}
    /\ pc' = [pc EXCEPT ![t] = "unlink"]
    /\ UNCHANGED <<arg, task, local, held, released, refs, pool, finalizing,
                   snapshot, frees, closed, rtFreed, lost>>

\* value.released = true: the new object takes the reference over.
ConstructMark(t) ==
    /\ pc[t] = "mark"
    /\ made' = made \cup {<<arg[t], 1>>}
    /\ released' = released \cup {<<arg[t], 0>>}
    /\ pc' = [pc EXCEPT ![t] = "unlink"]
    /\ UNCHANGED <<arg, task, local, held, refs, pool, finalizing, snapshot,
                   frees, closed, rtFreed, lost>>

\* context.removeObjRef(value).
ConstructUnlink(t) ==
    /\ pc[t] = "unlink"
    /\ RemoveObjRef(<<arg[t], 0>>)
    /\ pc' = [pc EXCEPT ![t] = "link"]
    /\ UNCHANGED <<arg, task, local, made, held, released, pool, finalizing,
                   snapshot, frees, closed, rtFreed>>

\* Mutant: the new object is not entered.
ConstructUnlinked(t) ==
    /\ pc[t] = "link"
    /\ pc' = [pc EXCEPT ![t] = "test"]
    /\ task' = [task EXCEPT ![t] = "construct"]
    /\ UNCHANGED <<arg, local, made, held, released, refs, pool, finalizing,
                   snapshot, frees, closed, rtFreed, lost>>

\* context.addObjRef(this), then context.checkReleased().
ConstructLink(t) ==
    /\ pc[t] = "link"
    /\ AddObjRef(<<arg[t], 1>>)
    /\ pc' = [pc EXCEPT ![t] = "test"]
    /\ task' = [task EXCEPT ![t] = "construct"]
    /\ UNCHANGED <<arg, local, made, held, released, pool, finalizing, snapshot,
                   frees, closed, rtFreed>>

\* Any method of a handle that begins with context.checkReleased().
Use(t) ==
    /\ t \in Users
    /\ pc[t] = "idle"
    /\ pool # << >>
    /\ pc' = [pc EXCEPT ![t] = "test"]
    /\ task' = [task EXCEPT ![t] = "use"]
    /\ UNCHANGED <<arg, local, made, held, released, refs, pool, finalizing,
                   snapshot, frees, closed, rtFreed, lost>>

\* The application lets go of a handle.
Drop(h) ==
    /\ h \in held
    /\ held' = held \ {h}
    /\ UNCHANGED <<pc, arg, task, local, made, released, refs, pool, finalizing,
                   snapshot, frees, closed, rtFreed, lost>>

-----------------------------------------------------------------------------
(***************************************************************************)
(* checkReleaseObjPtrPool: each call on the synchronized list is a step,   *)
(* the loop is not one.                                                    *)
(***************************************************************************)

\* while (!releaseObjPtrPool.isEmpty())
PoolTest(t) ==
    /\ pc[t] = "test"
    /\ pool # << >>
    /\ pc' = [pc EXCEPT ![t] = "get"]
    /\ UNCHANGED <<arg, task, local, made, held, released, refs, pool,
                   finalizing, snapshot, frees, closed, rtFreed, lost>>

\* The loop ends; checkReleased goes on to test isReleased().  A constructor
\* that passes hands its object to the application; one that finds the
\* context released throws "Context disposed error" and the object is garbage.
\* The field is not volatile: only its writer is sure to see it set.
PoolDone(t) ==
    /\ pc[t] = "test"
    /\ pool = << >>
    /\ task[t] # "close"
    /\ pc' = [pc EXCEPT ![t] = "idle"]
    /\ \/ /\ task[t] = "construct"
          /\ ~closed \/ t # JSThread
          /\ held' = held \cup {<<arg[t], 1>>}
       \/ /\ task[t] = "construct" => closed
          /\ UNCHANGED held
    /\ UNCHANGED <<arg, task, local, made, released, refs, pool, finalizing,
                   snapshot, frees, closed, rtFreed, lost>>

\* ptr = releaseObjPtrPool.get(0)
PoolGet(t) ==
    /\ pc[t] = "get"
    /\ pool # << >>
    /\ local' = [local EXCEPT ![t] = Head(pool)]
    /\ pc' = [pc EXCEPT ![t] = "free"]
    /\ UNCHANGED <<arg, task, made, held, released, refs, pool, finalizing,
                   snapshot, frees, closed, rtFreed, lost>>

\* _releasePtr(ptr): JS_FreeValue on the owner, unless the runtime is released.
PoolFree(t) ==
    /\ pc[t] = "free"
    /\ OnJSThread(t)
    /\ frees' = IF rtFreed THEN frees ELSE [frees EXCEPT ![local[t]] = @ + 1]
    /\ pc' = [pc EXCEPT ![t] = "remove"]
    /\ UNCHANGED <<arg, task, local, made, held, released, refs, pool,
                   finalizing, snapshot, closed, rtFreed, lost>>

\* releaseObjPtrPool.remove(0): whatever is first now.
PoolRemove(t) ==
    /\ pc[t] = "remove"
    /\ pool # << >>
    /\ pool' = Tail(pool)
    /\ pc' = [pc EXCEPT ![t] = "test"]
    /\ UNCHANGED <<arg, task, local, made, held, released, refs, finalizing,
                   snapshot, frees, closed, rtFreed, lost>>

\* get(0) or remove(0) on a pool that another thread has emptied throws.
PoolThrows(t) ==
    /\ pc[t] \in {"get", "remove"}
    /\ pool = << >>
    /\ pc' = [pc EXCEPT ![t] = "idle"]
    /\ UNCHANGED <<arg, task, local, made, held, released, refs, pool,
                   finalizing, snapshot, frees, closed, rtFreed, lost>>

-----------------------------------------------------------------------------
(***************************************************************************)
(* JSContext.close, an event on the owner, and the end of QuickJS.close.   *)
(***************************************************************************)

\* jsValues = refs.values().toArray(...)
CloseBegin ==
    /\ MayClose
    /\ pc[JSThread] = "idle"
    /\ ~closed
    /\ snapshot' = {h \in Handles : \E k \in HashCodes : refs[k] = h}
    /\ pc' = [pc EXCEPT ![JSThread] = "closing"]
    /\ UNCHANGED <<arg, task, local, made, held, released, refs, pool,
                   finalizing, frees, closed, rtFreed, lost>>

\* it.close(): _releasePtr and removeObjRef, unless it is released already.
CloseHandle(h) ==
    /\ pc[JSThread] = "closing"
    /\ h \in snapshot
    /\ snapshot' = snapshot \ {h}
    /\ IF h \in released
         THEN UNCHANGED <<released, frees, refs, lost>>
         ELSE /\ released' = released \cup {h}
              /\ frees' = [frees EXCEPT ![h[1]] = @ + 1]
              /\ RemoveObjRef(h)
    /\ UNCHANGED <<pc, arg, task, local, made, held, pool, finalizing, closed,
                   rtFreed>>

\* checkReleaseObjPtrPool().
CloseDrain ==
    /\ pc[JSThread] = "closing"
    /\ snapshot = {}
    /\ pc' = [pc EXCEPT ![JSThread] = "test"]
    /\ task' = [task EXCEPT ![JSThread] = "close"]
    /\ UNCHANGED <<arg, local, made, held, released, refs, pool, finalizing,
                   snapshot, frees, closed, rtFreed, lost>>

\* The pool is empty: super.close(), _releaseContext, sContextMap.remove.
CloseEnd ==
    /\ pc[JSThread] = "test"
    /\ task[JSThread] = "close"
    /\ pool = << >>
    /\ closed' = TRUE
    /\ pc' = [pc EXCEPT ![JSThread] = "idle"]
    /\ UNCHANGED <<arg, task, local, made, held, released, refs, pool,
                   finalizing, snapshot, frees, rtFreed, lost>>

\* QuickJS.close: _releaseRuntime, released = true.
FreeRuntime ==
    /\ pc[JSThread] = "idle"
    /\ closed
    /\ ~rtFreed
    /\ rtFreed' = TRUE
    /\ UNCHANGED <<pc, arg, task, local, made, held, released, refs, pool,
                   finalizing, snapshot, frees, closed, lost>>

-----------------------------------------------------------------------------
(***************************************************************************)
(* The collector.                                                          *)
(***************************************************************************)

\* refs is a WeakHashMap whose keys are boxed Integers that nobody else
\* holds: every collection may clear any of its entries, whose values the
\* map held strongly until then.
ClearKey(k) ==
    /\ GC
    /\ refs[k] # NoHandle
    /\ refs' = [refs EXCEPT ![k] = NoHandle]
    /\ lost' = lost \cup {refs[k]}
    /\ UNCHANGED <<pc, arg, task, local, made, held, released, pool, finalizing,
                   snapshot, frees, closed, rtFreed>>

\* The handles on the stack of thread t's constructor.
Constructing(t) ==
    IF \/ pc[t] \in {"mark", "unlink", "link"}
       \/ pc[t] \in {"test", "get", "free", "remove"} /\ task[t] = "construct"
      THEN {arg[t]} \X {0, 1} ELSE {}

Reachable(h) ==
    \/ h \in held
    \/ \E k \in HashCodes : refs[k] = h
    \/ h \in snapshot
    \/ \E t \in Threads : h \in Constructing(t)

\* Mutant: the finalizer does not look at the released field.
FinalizeAgain(h) ==
    /\ GC
    /\ finalizing.step = "none"
    /\ h \in made
    /\ ~Reachable(h)
    /\ made' = made \ {h}
    /\ released' = released \cup {h}
    /\ finalizing' = [handle |-> h, step |-> "add"]
    /\ UNCHANGED <<pc, arg, task, local, held, refs, pool, snapshot, frees,
                   closed, rtFreed, lost>>

\* finalize(): close(true) does nothing for a released handle; for another it
\* sets released ...
Finalize(h) ==
    /\ GC
    /\ finalizing.step = "none"
    /\ h \in made \ released
    /\ ~Reachable(h)
    /\ released' = released \cup {h}
    /\ finalizing' = [handle |-> h, step |-> "add"]
    /\ UNCHANGED <<pc, arg, task, local, made, held, refs, pool, snapshot,
                   frees, closed, rtFreed, lost>>

\* Mutant: the handle is added in place of the value it wraps.
FinalizeAddHandle ==
    /\ finalizing.step = "add"
    /\ pool' = Append(pool, finalizing.handle)
    /\ finalizing' = [finalizing EXCEPT !.step = "remove"]
    /\ UNCHANGED <<pc, arg, task, local, made, held, released, refs, snapshot,
                   frees, closed, rtFreed, lost>>

\* ... adds the reference to the pool ...
FinalizeAdd ==
    /\ finalizing.step = "add"
    /\ pool' = Append(pool, finalizing.handle[1])
    /\ finalizing' = [finalizing EXCEPT !.step = "remove"]
    /\ UNCHANGED <<pc, arg, task, local, made, held, released, refs, snapshot,
                   frees, closed, rtFreed, lost>>

\* ... and removes whatever refs has under the handle's hash code.
FinalizeRemove ==
    /\ finalizing.step = "remove"
    /\ RemoveObjRef(finalizing.handle)
    /\ finalizing' = [handle |-> NoHandle, step |-> "none"]
    /\ UNCHANGED <<pc, arg, task, local, made, held, released, pool, snapshot,
                   frees, closed, rtFreed>>

-----------------------------------------------------------------------------

\* The runtime is gone, or stays for good, and nobody is inside a call.
Quiescent ==
    /\ MayClose => rtFreed
    /\ \A t \in Threads : pc[t] = "idle"
    /\ UNCHANGED vars

User(t) ==
    \/ \E r \in Refs : Obtain(t, r) \/ Construct(t, r)
    \/ ConstructMark(t)
    \/ ConstructUnlink(t)
    \/ ConstructLink(t)
    \/ Use(t)
    \/ PoolTest(t)
    \/ PoolDone(t)
    \/ PoolGet(t)
    \/ PoolFree(t)
    \/ PoolRemove(t)
    \/ PoolThrows(t)

Close ==
    \/ CloseBegin
    \/ \E h \in Handles : CloseHandle(h)
    \/ CloseDrain
    \/ CloseEnd
    \/ FreeRuntime

Collector ==
    \/ \E k \in HashCodes : ClearKey(k)
    \/ \E h \in Handles : Finalize(h)
    \/ FinalizeAdd
    \/ FinalizeRemove

Next ==
    \/ \E t \in Threads : User(t)
    \/ \E h \in Handles : Drop(h)
    \/ Close
    \/ Collector
    \/ Quiescent

Spec == Init /\ [][Next]_vars

-----------------------------------------------------------------------------
(***************************************************************************)
(* Properties.                                                             *)
(***************************************************************************)

\* Every variable has its type.
TypeOK ==
    /\ pc \in [Threads -> Steps]
    /\ arg \in [Threads -> Refs \cup {NoHandle}]
    /\ task \in [Threads -> Tasks]
    /\ local \in [Threads -> Refs \cup {NoHandle}]
    /\ made \in SUBSET Handles
    /\ held \in SUBSET Handles
    /\ released \in SUBSET Handles
    /\ refs \in [HashCodes -> Handles \cup {NoHandle}]
    /\ pool \in Seq(Refs)
    /\ finalizing \in [handle : Handles \cup {NoHandle}, step : FinalizerSteps]
    /\ snapshot \in SUBSET Handles
    /\ frees \in [Refs -> Nat]
    /\ closed \in BOOLEAN
    /\ rtFreed \in BOOLEAN
    /\ lost \in SUBSET Handles

\* A reference taken once is given back to JS_FreeValue at most once, however
\* constructors, finalizers, drains of the pool and close interleave.
NoDoubleFree == \A r \in Refs : frees[r] <= 1

\* A handle the application holds and that close has not closed still owns its
\* reference: nothing has freed it or queued it for being freed.
HeldIsAlive ==
    \A h \in held \ released :
        /\ frees[h[1]] = 0
        /\ \A i \in DOMAIN pool : pool[i] # h[1]

\* When the runtime is freed, the references of all handles that did not lose
\* their entry in refs have been given back: through the handle that took the
\* reference over, through the pool, or by close.
AllReleasedAtFree ==
    rtFreed => \A h \in made : \/ frees[h[1]] > 0
                              \/ {<<h[1], 0>>, <<h[1], 1>>} \cap lost # {}
=============================================================================
