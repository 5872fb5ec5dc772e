--------------------------- MODULE ValueOwnership ---------------------------
(***************************************************************************)
(* Who owns the references that quickjs-jni.cpp passes between Java and    *)
(* the engine's Heap.  A Java handle (JSValue) owns one reference, which   *)
(* _releasePtr gives back; the native functions own what the engine        *)
(* returned to them until they hand it to Java, store it or free it.       *)
(* Scripts call Java callbacks, callbacks call scripts: the calls form a   *)
(* stack, whose top is the code that runs.                                 *)
(*                                                                         *)
(* Which handle objects Java has for a reference, and when the collector   *)
(* and close release them, is HandleRelease; here a handle is released at  *)
(* any time.  Everything happens on the thread that owns the engine.       *)
(***************************************************************************)
EXTENDS Heap

CONSTANTS
    MaxHandles, \* handles of one object that Java has at a time
    MaxDepth,   \* calls on the stack
    Passed,     \* the objects that are passed as arguments and thrown
    Receivers   \* the objects whose methods are called when they are callbacks

ASSUME ValueOwnershipAssumption ==
    /\ MaxHandles \in Nat \ {0}
    /\ MaxDepth \in Nat
    /\ Passed \subseteq Objects
    /\ Receivers \subseteq Objects

VARIABLES
    handles,    \* the number of Java handles of each object
    exc,        \* rt->current_exception
    stack,      \* the calls in progress, innermost last
    runtime,    \* how far the runtime is in its life
    leaked      \* (history) references that nobody will give back

ownVars == <<handles, exc, stack, runtime, leaked>>
vars == <<heapVars, ownVars>>

Values == Objects \cup {Null}

\* A call, with the references that its caller holds until it returns: for a
\* script the function and the argument of executeFunction, for a callback
\* this and the argument on the stack of the interpreter.  executeFunction also
\* holds the global object, which the context holds anyway, and takes no
\* reference for this, whose handle the Java caller keeps.
Frames == [kind : {"js", "java"}, func : Values, arg : Values]

Init ==
    /\ HeapInit
    /\ handles = [o \in Objects |-> 0]
    /\ exc = Null
    /\ stack = << >>
    /\ runtime = "open"
    /\ leaked = [o \in Objects |-> 0]

Top == stack[Len(stack)]
Pop == SubSeq(stack, 1, Len(stack) - 1)

InJava == /\ phase = "run"
          /\ runtime = "open"
          /\ stack # << >> => Top.kind = "java"

InScript == /\ phase = "run"
            /\ runtime = "open"
            /\ stack # << >>
            /\ Top.kind = "js"

IsFunction(v) == v # Null /\ class[v] = "function"

\* Java has a handle of v, or v is no object; the context is a handle too.
Has(v) == v \notin {Null, Global} => handles[v] > 0

\* The bound on leaked: one reference in a behaviour.
NoneLost == \A o \in Objects : leaked[o] = 0

\* To_JObject with the reference that the engine returned: an object becomes
\* a handle.  If another type was asked for, a number, a boolean or a string
\* is made of it and nobody frees the reference.
ToJObject(v) ==
    \/ /\ v = Null
       /\ UNCHANGED <<handles, leaked>>
    \/ /\ v # Null
       /\ handles[v] < MaxHandles
       /\ handles' = [handles EXCEPT ![v] = @ + 1]
       /\ UNCHANGED leaked
    \/ /\ v # Null
       /\ NoneLost
       /\ leaked' = [leaked EXCEPT ![v] = @ + 1]
       /\ UNCHANGED handles

-----------------------------------------------------------------------------
(***************************************************************************)
(* Java calls the engine.                                                  *)
(***************************************************************************)

\* _initNewJSObject, _initNewJSArray, _initNewJSFunction, _newClass: the
\* reference of the new object goes to its handle.
InitNew(o) ==
    /\ InJava
    /\ \E c \in Classes[o] : Allocate(o, c)
    /\ \E realm \in Realms(class'[o]) :
          /\ ref' = AllocatedRef(o, realm)
          /\ fields' = AllocatedFields(o, realm)
    /\ list' = AllocatedList(o)
    /\ handles' = [handles EXCEPT ![o] = 1]
    /\ UNCHANGED <<phase, todo, exc, stack, runtime, leaked>>

\* _registerJavaMethod: the property owns a reference and the handle another.
RegisterJavaMethod(o, k, f) ==
    /\ InJava
    /\ Has(o)
    /\ Allocate(f, "function")
    /\ FreeValues(Dup(AllocatedRef(f, Null), f),
                  [AllocatedFields(f, Null) EXCEPT ![o][k] = f],
                  AllocatedList(f), <<fields[o][k]>>)
    /\ handles' = [handles EXCEPT ![f] = 1]
    /\ UNCHANGED <<exc, stack, runtime, leaked>>

\* _get, _getValue, _arrayGet, _arrayGetValue: JS_GetProperty returns a
\* reference.
Get(o, k) ==
    /\ InJava
    /\ Has(o)
    /\ ref' = Dup(ref, fields[o][k])
    /\ ToJObject(fields[o][k])
    /\ UNCHANGED <<class, fields, list, phase, todo, exc, stack, runtime>>

\* _set, _arrayAdd: the property takes the reference that JobjectToJSValue
\* made, the value it had before loses one.
Set(o, k, v) ==
    /\ InJava
    /\ Has(o) /\ Has(v)
    /\ FreeValues(Dup(ref, v), [fields EXCEPT ![o][k] = v], list, <<fields[o][k]>>)
    /\ UNCHANGED <<class, ownVars>>

\* Mutant: a handle that was released already is released again.
ReleasePtrAgain(o) ==
    /\ InJava
    /\ list[o] = "live"
    /\ handles' = [handles EXCEPT ![o] = @ - 1]
    /\ FreeValues(ref, fields, list, <<o>>)
    /\ UNCHANGED <<class, exc, stack, runtime, leaked>>

\* _releasePtr.
ReleasePtr(o) ==
    /\ InJava
    /\ handles[o] > 0
    /\ handles' = [handles EXCEPT ![o] = @ - 1]
    /\ FreeValues(ref, fields, list, <<o>>)
    /\ UNCHANGED <<class, exc, stack, runtime, leaked>>

Push(f, a) ==
    /\ Len(stack) < MaxDepth
    /\ stack' = Append(stack, [kind |-> "js", func |-> f, arg |-> a])

\* _executeScript: JS_Eval.
ExecuteScript ==
    /\ InJava
    /\ Push(Null, Null)
    /\ UNCHANGED <<heapVars, handles, exc, runtime, leaked>>

\* Mutant: executeFunction frees a reference that _executeFunction2 did not
\* take.
ExecuteFunction2Uncounted(f, a) ==
    /\ InJava
    /\ class[f] = "function" /\ handles[f] > 0
    /\ a \in Passed \cup {Null} /\ Has(a)
    /\ ref' = Dup(ref, a)
    /\ Push(f, a)
    /\ UNCHANGED <<class, fields, list, phase, todo, handles, exc, runtime, leaked>>

\* _executeFunction2: the function is a handle and gets a second reference;
\* executeFunction reads the arguments from the array of parameters.
ExecuteFunction2(f, a) ==
    /\ InJava
    /\ class[f] = "function" /\ handles[f] > 0
    /\ a \in Passed \cup {Null} /\ Has(a)
    /\ ref' = Dup(Dup(ref, f), a)
    /\ Push(f, a)
    /\ UNCHANGED <<class, fields, list, phase, todo, handles, exc, runtime, leaked>>

\* _executeFunction: the function is a property of the object.
ExecuteFunction(o, k, a) ==
    /\ InJava
    /\ Has(o)
    /\ a \in Passed \cup {Null} /\ Has(a)
    /\ IsFunction(fields[o][k])
    /\ ref' = Dup(Dup(ref, fields[o][k]), a)
    /\ Push(fields[o][k], a)
    /\ UNCHANGED <<class, fields, list, phase, todo, handles, exc, runtime, leaked>>

\* The property is no function: JS_Call throws a TypeError e, the references
\* taken for the call are freed, null is returned.
ExecuteNoFunction(o, k, e) ==
    /\ InJava
    /\ Has(o)
    /\ ~IsFunction(fields[o][k])
    /\ Allocate(e, "error")
    /\ FreeValues(AllocatedRef(e, Null), AllocatedFields(e, Null), AllocatedList(e), <<exc>>)
    /\ exc' = e
    /\ UNCHANGED <<handles, stack, runtime, leaked>>

\* _getException: JS_GetException moves the exception out of the runtime; an
\* Error is freed, another object is not.
GetException ==
    /\ InJava
    /\ exc # Null
    /\ exc' = Null
    /\ IF class[exc] = "error"
         THEN /\ FreeValues(ref, fields, list, <<exc>>)
              /\ UNCHANGED <<class, leaked>>
         ELSE /\ NoneLost
              /\ leaked' = [leaked EXCEPT ![exc] = @ + 1]
              /\ UNCHANGED heapVars
    /\ UNCHANGED <<handles, stack, runtime>>

-----------------------------------------------------------------------------
(***************************************************************************)
(* What a script does: it assigns properties of the objects it can name,   *)
(* creates objects, and calls Java.                                        *)
(***************************************************************************)

Named == {Global, Top.func, Top.arg} \ {Null}
Near == Named \cup ({fields[o][k] : o \in Named, k \in Keys} \ {Null})

ScriptStore(o, k, v) ==
    /\ InScript
    /\ o \in Near
    /\ v \in Near \cup {Null}
    /\ FreeValues(Dup(ref, v), [fields EXCEPT ![o][k] = v], list, <<fields[o][k]>>)
    /\ UNCHANGED <<class, ownVars>>

ScriptNew(o, k, n) ==
    /\ InScript
    /\ o \in Near
    /\ \E c \in Classes[n] : Allocate(n, c)
    /\ LET realm == IF class'[n] = "function" THEN Ctx ELSE Null
       IN  FreeValues(AllocatedRef(n, realm),
                      [AllocatedFields(n, realm) EXCEPT ![o][k] = n],
                      AllocatedList(n), <<fields[o][k]>>)
    /\ UNCHANGED ownVars

\* callJavaCallback, js_worker_constructor: the arguments are copied to a new
\* array, and it and this become handles.  this gets a reference for its
\* handle unless it is the global object.
ThisRefUncounted(this) == Null
ThisRef(this) == IF this = Global THEN Null ELSE this

CallJava(this, v, args, k) ==
    /\ InScript
    /\ Len(stack) < MaxDepth
    /\ this \in (Near \cap Receivers) \cup {Null}
    /\ v \in {Top.arg, Null}
    /\ this # Null => handles[this] < MaxHandles
    /\ Allocate(args, "object")
    /\ ref' = Dup(Dup(Dup(Dup(AllocatedRef(args, Null), v), ThisRef(this)), this), v)
    /\ fields' = [AllocatedFields(args, Null) EXCEPT ![args][k] = v]
    /\ list' = AllocatedList(args)
    /\ handles' = [o \in Objects |-> handles[o] + (IF o \in {args, this} THEN 1 ELSE 0)]
    /\ stack' = Append(stack, [kind |-> "java", func |-> this, arg |-> v])
    /\ UNCHANGED <<phase, todo, exc, runtime, leaked>>

\* The callback returns v: JobjectToJSValue makes a reference for the script,
\* which drops the result or assigns it to a property of the global object.
ReturnToScript(v, k, keep) ==
    /\ InJava
    /\ stack # << >>
    /\ Has(v)
    /\ IF keep
         THEN FreeValues(Dup(ref, v), [fields EXCEPT ![Global][k] = v], list,
                         <<Top.func, Top.arg, fields[Global][k]>>)
         ELSE FreeValues(Dup(ref, v), fields, list, <<Top.func, Top.arg, v>>)
    /\ stack' = Pop
    /\ UNCHANGED <<class, handles, exc, runtime, leaked>>

\* The script ends with the value v: executeFunction frees the function and
\* the arguments, and the reference of the result goes to To_JObject.
ReturnToJava(v) ==
    /\ InScript
    /\ v \in Near \cup {Null}
    /\ FreeValues(Dup(ref, v), fields, list, <<Top.func, Top.arg>>)
    /\ ToJObject(v)
    /\ stack' = Pop
    /\ UNCHANGED <<class, exc, runtime>>

\* The script throws v: JS_Throw replaces the exception of the runtime.
Throw(v) ==
    /\ InScript
    /\ v \in Near \cap Passed
    /\ FreeValues(Dup(ref, v), fields, list, <<Top.func, Top.arg, exc>>)
    /\ exc' = v
    /\ stack' = Pop
    /\ UNCHANGED <<class, handles, runtime, leaked>>

-----------------------------------------------------------------------------
(***************************************************************************)
(* The end: JSContext.close closes the handles, QuickJS.close frees the    *)
(* runtime.                                                                *)
(***************************************************************************)

\* JS_NewObjectFromShape collects when the memory in use has grown.
TriggerGC ==
    /\ runtime = "open"
    /\ GcDecref
    /\ UNCHANGED ownVars

\* The handles that refs still has are released, one ReleasePtr each; what is
\* left is handles whose entry in refs is gone (HandleRelease says when), and
\* their references are never given back.  super.close() gives back the global
\* object, _releaseContext the context.
CloseContext ==
    /\ InJava
    /\ stack = << >>
    /\ FreeValues(ref, fields, list, <<Global, Ctx>>)
    /\ handles' = [o \in Objects |-> 0]
    /\ leaked' = [o \in Objects |-> leaked[o] + handles[o]]
    /\ runtime' = "closed"
    /\ UNCHANGED <<class, exc, stack>>

\* Mutant: the exception is forgotten.
FreeRuntimeKeepsException ==
    /\ phase = "run"
    /\ runtime = "closed"
    /\ exc' = Null
    /\ runtime' = "collect"
    /\ UNCHANGED <<heapVars, handles, stack, leaked>>

\* JS_FreeRuntime: the exception, then JS_RunGC, then the assertion that
\* nothing is left.
FreeRuntime ==
    /\ phase = "run"
    /\ runtime = "closed"
    /\ FreeValues(ref, fields, list, <<exc>>)
    /\ exc' = Null
    /\ runtime' = "collect"
    /\ UNCHANGED <<class, handles, stack, leaked>>

FreeRuntimeCollect ==
    /\ runtime = "collect"
    /\ GcDecref
    /\ runtime' = "assert"
    /\ UNCHANGED <<handles, exc, stack, leaked>>

FreeRuntimeDone ==
    /\ phase = "run"
    /\ runtime = "assert"
    /\ runtime' = "freed"
    /\ UNCHANGED <<heapVars, handles, exc, stack, leaked>>

Freed == runtime = "freed" /\ UNCHANGED vars

-----------------------------------------------------------------------------

JavaStep ==
    \/ \E o \in Objects : InitNew(o) \/ ReleasePtr(o)
    \/ \E o \in Objects, k \in Keys : Get(o, k)
    \/ \E o, f \in Objects, k \in Keys : RegisterJavaMethod(o, k, f) \/ ExecuteNoFunction(o, k, f)
    \/ \E o \in Objects, k \in Keys, v \in Values : Set(o, k, v) \/ ExecuteFunction(o, k, v)
    \/ ExecuteScript
    \/ \E f \in Objects, v \in Values : ExecuteFunction2(f, v)
    \/ \E v \in Values, k \in Keys, keep \in BOOLEAN : ReturnToScript(v, k, keep)
    \/ GetException

ScriptStep ==
    \/ \E o \in Objects, k \in Keys, v \in Values : ScriptStore(o, k, v)
    \/ \E o, n \in Objects, k \in Keys : ScriptNew(o, k, n)
    \/ \E this, v \in Values, args \in Objects, k \in Keys : CallJava(this, v, args, k)
    \/ \E v \in Values : ReturnToJava(v) \/ Throw(v)

End == CloseContext \/ FreeRuntime \/ FreeRuntimeCollect \/ FreeRuntimeDone \/ Freed

Next ==
    \/ JavaStep
    \/ ScriptStep
    \/ TriggerGC
    \/ HeapStep /\ UNCHANGED ownVars
    \/ End

Spec == Init /\ [][Next]_vars

-----------------------------------------------------------------------------
(***************************************************************************)
(* Properties.                                                             *)
(***************************************************************************)

\* Every variable has its type.
TypeOK ==
    /\ HeapTypeOK
    /\ handles \in [Objects -> 0 .. MaxHandles]
    /\ exc \in Values
    /\ stack \in Seq(Frames)
    /\ runtime \in {"open", "closed", "collect", "assert", "freed"}
    /\ leaked \in [Objects -> 0 .. MaxHandles + 1]

\* The owners of a reference to node n outside the heap: Java handles, the
\* exception of the runtime, calls in progress, and the Java context.
Holders(n) ==
    {<<"handle", i>> : i \in IF n = Ctx THEN {} ELSE 1 .. handles[n]}
    \cup {<<"exception", 0>> : x \in {exc} \cap {n}}
    \cup {<<"context", 0>> : x \in IF runtime = "open" THEN {Global, Ctx} \cap {n} ELSE {}}
    \cup {<<"func", i>> : i \in {i \in DOMAIN stack : stack[i].func = n}}
    \cup {<<"arg", i>> : i \in {i \in DOMAIN stack : stack[i].arg = n}}

\* ... and inside it.
InFields(n) == {e \in Nodes \X Slots : fields[e[1]][e[2]] = n}

\* References that are counted and have no owner.
Lost(n) == IF n = Ctx THEN 0 ELSE leaked[n]

\* What can be reached from the nodes that something outside the heap holds.
Roots == {n \in Nodes : Holders(n) # {} \/ Lost(n) > 0}
Closed(S) == \A n \in S, s \in Slots : fields[n][s] \in S \cup {Null}
Reachable == {n \in Nodes : \A S \in SUBSET Nodes : Roots \subseteq S /\ Closed(S) => n \in S}

\* The count of a node is the number of its references, and of the ones that
\* To_JObject, _getException and JSContext.close lost.  It is so while zero counts are freed,
\* and it is so again when gc_scan has put back what gc_decref took.
CountsExact ==
    phase # "scan" => \A n \in Nodes : list[n] # "none" =>
        ref[n] = Cardinality(Holders(n)) + Cardinality(InFields(n)) + Lost(n)

\* No memory is given back while anything refers to it, nested calls, the
\* release of handles during a callback and a collection in progress included.
NoDangling ==
    \A n \in Nodes : Holders(n) # {} \/ InFields(n) # {} => list[n] # "none"

\* When gc_scan is over, what is left for gc_free_cycles is what cannot be
\* reached, and all of it.
CollectsGarbage == phase = "cycles" => On("live") = Reachable

\* The assertions of the collector: no count is negative when it is taken
\* down, what gc_scan keeps has a count, what is freed for its zero count has
\* none, and the context is never left on the list whose memory gc_free_cycles
\* gives back.
AssertionsHold ==
    /\ \A n \in Nodes : ref[n] >= 0
    /\ phase = "scan" => \A n \in On("live") : ref[n] > 0
    /\ phase = "zero" => \A n \in On("zero") : ref[n] = 0
    /\ phase = "cycles" /\ On("tmp") = {} => Ctx \notin On("zero")

\* JS_FreeRuntime's assertion that gc_obj_list is empty: what is left on the
\* list is what lost references reach, no less and no more, so it can only fail
\* for a reference that To_JObject or _getException lost, or that a handle had
\* which was missing in refs when JSContext.close went through them.
NothingLeft ==
    runtime = "freed" =>
        /\ On("live") = Reachable
        /\ NoneLost => On("live") = {}
=============================================================================
