-------------------------- MODULE CallbackRegistry --------------------------
(***************************************************************************)
(* Java callbacks as JavaScript functions (JSObject.registerJavaMethod and *)
(* registerClass, the constructors of JSFunction, QuickJS.callJavaCallback *)
(* and their native halves).  The engine's function holds the hash code of *)
(* its callback; the callback is entered under that hash code in the       *)
(* functionRegistry of the context, by the calling thread and after the    *)
(* native call.  callJavaCallback looks the hash code up in the registry   *)
(* of the context whose script makes the call.                             *)
(*                                                                         *)
(* EventQueue's part is abstracted: native calls and scripts run one at a  *)
(* time, when the owner is not inside a registration of its own.           *)
(***************************************************************************)
EXTENDS Naturals, Sequences

CONSTANTS
    Users,      \* the threads that register callbacks
    JSThread,   \* the owner of the engine
    Contexts,   \* the contexts of one runtime
    Callbacks,  \* the callback objects
    HashCodes,
    Void,       \* the callbacks that are JavaVoidCallbacks
    Kinds,      \* how callbacks are registered
    Shares,     \* does the application put functions of one context in another?
    None

AllKinds == {"method", "function", "class"}

ASSUME CallbackRegistryAssumption ==
    /\ Void \subseteq Callbacks
    /\ Kinds \subseteq AllKinds
    /\ Shares \in BOOLEAN
    /\ None \notin Callbacks \cup AllKinds \cup Contexts
    /\ Callbacks \cap {"nothing", "NullPointerException"} = {}

VARIABLES
    hash,      \* Object.hashCode of each callback
    pc,        \* where each thread is in a registration
    arg,       \* the callback it registers
    kind,      \* how each callback was registered, None before
    home,      \* the context it was registered in
    visible,   \* the contexts whose scripts can call each callback's function
    functionRegistry,
    closed,    \* the contexts that are closed
    entered,   \* the callbacks that were entered, in this order
    call       \* the call of the last step, if it was one: what was called,
               \* in which context, and what ran

vars == <<hash, pc, arg, kind, home, visible, functionRegistry, closed, entered, call>>

Threads == Users \cup {JSThread}

Init ==
    /\ hash \in [Callbacks -> HashCodes]
    /\ pc = [t \in Threads |-> "idle"]
    /\ arg = [t \in Threads |-> None]
    /\ kind = [c \in Callbacks |-> None]
    /\ home = [c \in Callbacks |-> None]
    /\ visible = [c \in Callbacks |-> {}]
    /\ functionRegistry = [x \in Contexts |-> [k \in HashCodes |-> None]]
    /\ closed = {}
    /\ entered = << >>
    /\ call = None

\* The owner is not inside a registration of its own: scripts and the native
\* calls of other threads can run.
OwnerFree == pc[JSThread] = "idle"

\* A native call of thread t can run.
OnJSThread(t) == t = JSThread \/ OwnerFree

-----------------------------------------------------------------------------
(***************************************************************************)
(* Registration.                                                           *)
(***************************************************************************)

\* The native call: the function is made with the callback's hash code; a
\* method is set as a property in the same event.
NewFunction(t, c, k, x) ==
    /\ t \in Users
    /\ pc[t] = "idle"
    /\ OnJSThread(t)
    /\ kind[c] = None
    /\ k \in Kinds
    /\ x \notin closed
    /\ kind' = [kind EXCEPT ![c] = k]
    /\ home' = [home EXCEPT ![c] = x]
    /\ visible' = IF k = "method" THEN [visible EXCEPT ![c] = {x}] ELSE visible
    /\ pc' = [pc EXCEPT ![t] = "register"]
    /\ arg' = [arg EXCEPT ![t] = c]
    /\ call' = None
    /\ UNCHANGED <<hash, functionRegistry, closed, entered>>

\* registerJavaMethod(callback, name): _registerJavaMethod.
RegisterJavaMethod(t, c, x) == NewFunction(t, c, "method", x)

\* new JSFunction(context, callback): _initNewJSFunction.
NewJSFunction(t, c, x) == NewFunction(t, c, "function", x)

\* registerClass(callback, name): _newClass, for callbacks that return.
RegisterClass(t, c, x) == c \notin Void /\ NewFunction(t, c, "class", x)

\* Mutant: the callback is not entered.
RegisterNothing(t) ==
    /\ pc[t] = "register"
    /\ pc' = [pc EXCEPT ![t] = IF kind[arg[t]] = "method" THEN "idle" ELSE "set"]
    /\ call' = None
    /\ UNCHANGED <<hash, arg, kind, home, visible, functionRegistry, closed, entered>>

\* Mutant: putIfAbsent, the first of two callbacks keeps the entry.
RegisterFirst(t) ==
    /\ pc[t] = "register"
    /\ functionRegistry' = [functionRegistry EXCEPT
         ![home[arg[t]]][hash[arg[t]]] = IF @ = None THEN arg[t] ELSE @]
    /\ entered' = Append(entered, arg[t])
    /\ pc' = [pc EXCEPT ![t] = IF kind[arg[t]] = "method" THEN "idle" ELSE "set"]
    /\ call' = None
    /\ UNCHANGED <<hash, arg, kind, home, visible, closed>>

\* Mutant: the registry keeps the hash code.
RegisterHash(t) ==
    /\ pc[t] = "register"
    /\ functionRegistry' = [functionRegistry EXCEPT
                              ![home[arg[t]]][hash[arg[t]]] = hash[arg[t]]]
    /\ entered' = Append(entered, arg[t])
    /\ pc' = [pc EXCEPT ![t] = IF kind[arg[t]] = "method" THEN "idle" ELSE "set"]
    /\ call' = None
    /\ UNCHANGED <<hash, arg, kind, home, visible, closed>>

\* _registerCallback: functionRegistry.put(callback.hashCode(), ...).
RegisterCallback(t) ==
    /\ pc[t] = "register"
    /\ functionRegistry' = [functionRegistry EXCEPT
                              ![home[arg[t]]][hash[arg[t]]] = arg[t]]
    /\ entered' = Append(entered, arg[t])
    /\ pc' = [pc EXCEPT ![t] = IF kind[arg[t]] = "method" THEN "idle" ELSE "set"]
    /\ call' = None
    /\ UNCHANGED <<hash, arg, kind, home, visible, closed>>

\* registerClass sets the class; a JSFunction is set by the application.  A set
\* on a closed context throws.
SetFunction(t) ==
    /\ pc[t] = "set"
    /\ OnJSThread(t)
    /\ LET c == arg[t]
       IN  visible' = IF home[c] \in closed THEN visible
                      ELSE [visible EXCEPT ![c] = {home[c]}]
    /\ pc' = [pc EXCEPT ![t] = "idle"]
    /\ call' = None
    /\ UNCHANGED <<hash, arg, kind, home, functionRegistry, closed, entered>>

\* The application passes a function it can reach to another context of the
\* runtime, which checkRuntime lets pass.
Share(c, x) ==
    /\ Shares
    /\ OwnerFree
    /\ visible[c] # {}
    /\ x \notin closed \cup visible[c]
    /\ visible' = [visible EXCEPT ![c] = @ \cup {x}]
    /\ call' = None
    /\ UNCHANGED <<hash, pc, arg, kind, home, functionRegistry, closed, entered>>

-----------------------------------------------------------------------------
(***************************************************************************)
(* Calls.                                                                  *)
(***************************************************************************)

\* The context callJavaCallback is given: a class knows the context it was
\* made in, a function gets its caller's.
CalleeContext(c, x) == IF kind[c] = "class" THEN home[c] ELSE x

\* What runs when a script of context x calls the function of callback c: the
\* descriptor under the hash code, as the kind of callback the function was
\* made for; nothing, and null is returned, if there is none.
Runs(c, x) ==
    LET d == functionRegistry[CalleeContext(c, x)][hash[c]]
    IN  IF d = None THEN "nothing"
        ELSE IF (d \in Void) # (c \in Void) THEN "NullPointerException"
        ELSE d

CallJavaCallback(c, x) ==
    /\ OwnerFree
    /\ x \in visible[c]
    /\ call' = [called |-> c, context |-> CalleeContext(c, x),
                ran |-> Runs(c, x)]
    /\ UNCHANGED <<hash, pc, arg, kind, home, visible, functionRegistry, closed, entered>>

\* JSContext.close: functionRegistry.clear(), and the context's objects go.
Close(x) ==
    /\ OwnerFree
    /\ x \notin closed
    /\ closed' = closed \cup {x}
    /\ functionRegistry' = [functionRegistry EXCEPT ![x] = [k \in HashCodes |-> None]]
    /\ visible' = [c \in Callbacks |-> visible[c] \ {x}]
    /\ call' = None
    /\ UNCHANGED <<hash, pc, arg, kind, home, entered>>

-----------------------------------------------------------------------------

\* All contexts are closed and nobody is inside a registration.
Quiescent ==
    /\ closed = Contexts
    /\ \A t \in Threads : pc[t] = "idle"
    /\ UNCHANGED vars

Next ==
    \/ \E t \in Threads :
         \/ \E c \in Callbacks, x \in Contexts :
              \/ RegisterJavaMethod(t, c, x)
              \/ NewJSFunction(t, c, x)
              \/ RegisterClass(t, c, x)
         \/ RegisterCallback(t)
         \/ SetFunction(t)
    \/ \E c \in Callbacks, x \in Contexts : Share(c, x) \/ CallJavaCallback(c, x)
    \/ \E x \in Contexts : Close(x)
    \/ Quiescent

Spec == Init /\ [][Next]_vars

-----------------------------------------------------------------------------
(***************************************************************************)
(* Properties.                                                             *)
(***************************************************************************)

\* Every variable has its type.
TypeOK ==
    /\ hash \in [Callbacks -> HashCodes]
    /\ pc \in [Threads -> {"idle", "register", "set"}]
    /\ arg \in [Threads -> Callbacks \cup {None}]
    /\ kind \in [Callbacks -> Kinds \cup {None}]
    /\ home \in [Callbacks -> Contexts \cup {None}]
    /\ visible \in [Callbacks -> SUBSET Contexts]
    /\ functionRegistry \in [Contexts -> [HashCodes -> Callbacks \cup {None}]]
    /\ closed \in SUBSET Contexts
    /\ entered \in Seq(Callbacks)
    /\ call \in {None} \cup
         [called : Callbacks, context : Contexts,
          ran : Callbacks \cup {"nothing", "NullPointerException"}]

\* A call that runs anything runs, or fails to run as its own kind, a callback
\* that was entered in the context the call is made in and that has the hash
\* code of the callback the function was made for; in the context the function
\* was made in it is one that was not entered before that callback.  So a
\* function runs its own callback until another with the same hash code is
\* registered in its context, however threads and registrations interleave.
RunsItsOwn ==
    call # None /\ call.ran # "nothing" =>
        \E i \in 1 .. Len(entered) :
            LET d == entered[i]
            IN  /\ home[d] = call.context
                /\ hash[d] = hash[call.called]
                /\ home[call.called] = call.context =>
                     \A j \in i + 1 .. Len(entered) : entered[j] # call.called
                /\ \/ call.ran = d
                   \/ /\ call.ran = "NullPointerException"
                      /\ (d \in Void) # (call.called \in Void)

\* Some thread has made the function of callback c and not yet entered it.
Registering(c) == \E t \in Threads : pc[t] = "register" /\ arg[t] = c

\* A script that can reach a function and calls it runs a callback and does not
\* quietly get null, but for three cases: between the native call and the entry
\* of a registration, in a context other than the one the function was made in,
\* and when that context is closed.
NoCallLost ==
    \A c \in Callbacks : \A x \in visible[c] :
        CalleeContext(c, x) = home[c] =>
            home[c] \in closed \/ Registering(c) \/ Runs(c, x) # "nothing"
=============================================================================
