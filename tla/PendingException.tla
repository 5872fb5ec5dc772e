-------------------------- MODULE PendingException --------------------------
(***************************************************************************)
(* How a JavaScript error becomes a QuickJSException of the call that      *)
(* caused it.  The engine keeps one current_exception per runtime.  A      *)
(* checked call (executeScript, executeFunction, JSFunction.call) is two   *)
(* native calls: the first runs the script, the second, checkException,    *)
(* takes the current exception out and throws it if it is an Error.  An    *)
(* unchecked call (get, set, executeFunction2, ES6Module's                 *)
(* executeModuleScript) runs JavaScript too and leaves it alone.           *)
(*                                                                         *)
(* The owner makes its native calls inline, and its scripts may call Java  *)
(* callbacks that call the engine again.  Each native call of another      *)
(* thread is an event of its own, which runs when the owner is back in its *)
(* Looper (EventQueue).                                                    *)
(***************************************************************************)
EXTENDS Naturals, Sequences, FiniteSets

CONSTANTS
    Users,          \* the threads that use the engine
    JSThread,       \* the owner of the engine, which may be one of them
    Unchecked,      \* are unchecked calls made?
    CallbackThrows, \* do Java callbacks throw?
    MaxCalls,       \* bound on the number of calls
    MaxDepth        \* bound on how deep scripts and callbacks nest

ASSUME PendingExceptionAssumption ==
    /\ Unchecked \in BOOLEAN
    /\ CallbackThrows \in BOOLEAN
    /\ MaxCalls \in Nat
    /\ MaxDepth \in Nat

Calls == 1 .. MaxCalls
NoCall == 0
Clients == Users \ {JSThread}

VARIABLES
    count,              \* how many calls were made
    stack,              \* the calls on the owner's stack, innermost last
    waiting,            \* the call whose exception each client is to check next
    current_exception,  \* the call that raised it, and whether it is an Error
    raised,             \* the checked calls whose script ended in an Error
    checked,            \* the calls whose check is done
    thrown,             \* the call whose error each of them threw
    overtaken           \* (history) the calls between whose script and check
                        \* another call's script or check came

vars == <<count, stack, waiting, current_exception, raised, checked, thrown, overtaken>>

None == [call |-> NoCall, error |-> FALSE]

Frame(t, n, check) ==
    [thread |-> t, call |-> n, check |-> check, step |-> "script"]

Init ==
    /\ count = 0
    /\ stack = << >>
    /\ waiting = [t \in Clients |-> NoCall]
    /\ current_exception = None
    /\ raised = {}
    /\ checked = {}
    /\ thrown = [n \in Calls |-> NoCall]
    /\ overtaken = {}

Top == stack[Len(stack)]

-----------------------------------------------------------------------------

\* Thread t is not inside a call, and the owner is in its Looper.
IsFree(t) ==
    /\ t \in Users
    /\ stack = << >>
    /\ t \in Clients => waiting[t] = NoCall

\* The owner is in a callback of the script that is running.
InCallback(t) ==
    /\ t = JSThread
    /\ stack # << >>
    /\ Top.step = "script"

\* The calls that have their check to make and do not make it now.
Waiting(t) == {waiting[u] : u \in Clients \ {t}} \ {NoCall}

\* The first native call of executeScript, executeFunction, get, ...: thread t
\* begins it from its own code when the owner is in its Looper, the owner also
\* from a callback.
Begin(t, check) ==
    /\ count < MaxCalls
    /\ Len(stack) < MaxDepth
    /\ ~check => Unchecked
    /\ IsFree(t) \/ InCallback(t)
    /\ count' = count + 1
    /\ stack' = Append(stack, Frame(t, count + 1, check))
    /\ overtaken' = overtaken \cup Waiting(t)
    /\ UNCHANGED <<waiting, current_exception, raised, checked, thrown>>

\* Mutant: an Error that is pending already stays.
LeavesFirst(n, outcome) ==
    CASE outcome = "value"  -> current_exception
      [] outcome = "caught" -> None
      [] outcome = "throws" -> [call |-> n, error |-> FALSE]
      [] outcome = "error"  -> IF current_exception.error THEN current_exception
                                                          ELSE [call |-> n, error |-> TRUE]

\* What a script that ended in the given way leaves as the current exception:
\* a throw replaces it, a catch clears it.
Leaves(n, outcome) ==
    CASE outcome = "value"  -> current_exception
      [] outcome = "caught" -> None
      [] outcome = "throws" -> [call |-> n, error |-> FALSE]
      [] outcome = "error"  -> [call |-> n, error |-> TRUE]

Outcomes == {"value", "caught", "throws", "error"}

\* The innermost script ends.  A checked call of the owner goes straight on to
\* its check; a client's check is its next event.
End(outcome) ==
    /\ stack # << >>
    /\ Top.step = "script"
    /\ current_exception' = Leaves(Top.call, outcome)
    /\ raised' = IF Top.check /\ outcome = "error"
                   THEN raised \cup {Top.call} ELSE raised
    /\ IF Top.check /\ Top.thread = JSThread
         THEN stack' = [stack EXCEPT ![Len(stack)].step = "check"]
         ELSE stack' = SubSeq(stack, 1, Len(stack) - 1)
    /\ waiting' = IF Top.check /\ Top.thread # JSThread
                    THEN [waiting EXCEPT ![Top.thread] = Top.call]
                    ELSE waiting
    /\ UNCHANGED <<count, checked, thrown, overtaken>>

\* A callback of the innermost script threw.  callJavaCallback does not look:
\* the script runs on and may itself end in any way, but its native call
\* returns to Java with the callback's exception and the check is skipped.
EndThrows(outcome) ==
    /\ CallbackThrows
    /\ stack # << >>
    /\ Top.step = "script"
    /\ current_exception' = Leaves(Top.call, outcome)
    /\ stack' = SubSeq(stack, 1, Len(stack) - 1)
    /\ UNCHANGED <<count, waiting, raised, checked, thrown, overtaken>>

\* Mutant: the exception is read and not taken out.
GetExceptionKeeps(n) ==
    /\ checked' = checked \cup {n}
    /\ thrown' = IF current_exception.error
                   THEN [thrown EXCEPT ![n] = current_exception.call]
                   ELSE thrown
    /\ UNCHANGED current_exception

\* Mutant: the call is taken for one that is still to come.
GetExceptionOfNext(n) ==
    /\ checked' = checked \cup {n + 1}
    /\ current_exception' = None
    /\ UNCHANGED thrown

\* checkException for call n: JS_GetException takes the current exception out
\* whatever it is; only an Error is thrown.
GetException(n) ==
    /\ checked' = checked \cup {n}
    /\ thrown' = IF current_exception.error
                   THEN [thrown EXCEPT ![n] = current_exception.call]
                   ELSE thrown
    /\ current_exception' = None

\* The owner checks; the call returns, or throws to the code around it.
Check ==
    /\ stack # << >>
    /\ Top.step = "check"
    /\ GetException(Top.call)
    /\ stack' = SubSeq(stack, 1, Len(stack) - 1)
    /\ UNCHANGED <<count, waiting, raised, overtaken>>

\* A client's check.
ClientCheck(t) ==
    /\ waiting[t] # NoCall
    /\ stack = << >>
    /\ GetException(waiting[t])
    /\ waiting' = [waiting EXCEPT ![t] = NoCall]
    /\ overtaken' = overtaken \cup Waiting(t)
    /\ UNCHANGED <<count, stack, raised>>

-----------------------------------------------------------------------------

\* MaxCalls calls were made and all have returned.
Quiescent ==
    /\ count = MaxCalls
    /\ stack = << >>
    /\ \A t \in Clients : waiting[t] = NoCall
    /\ UNCHANGED vars

Next ==
    \/ \E t \in Clients \cup {JSThread}, check \in BOOLEAN : Begin(t, check)
    \/ \E outcome \in Outcomes : End(outcome) \/ EndThrows(outcome)
    \/ Check
    \/ \E t \in Clients : ClientCheck(t)
    \/ Quiescent

Spec == Init /\ [][Next]_vars

-----------------------------------------------------------------------------
(***************************************************************************)
(* Properties.                                                             *)
(***************************************************************************)

\* Every variable has its type.
TypeOK ==
    /\ count \in 0 .. MaxCalls
    /\ stack \in Seq([thread : Clients \cup {JSThread}, call : Calls,
                      check : BOOLEAN, step : {"script", "check"}])
    /\ waiting \in [Clients -> Calls \cup {NoCall}]
    /\ current_exception \in [call : Calls \cup {NoCall}, error : BOOLEAN]
    /\ raised \in SUBSET Calls
    /\ checked \in SUBSET Calls
    /\ thrown \in [Calls -> Calls \cup {NoCall}]
    /\ overtaken \in SUBSET Calls

\* A call throws its own script's error, or one that it found in the runtime: of
\* an unchecked call, of a call whose callback threw, or of a client's call that
\* it came before the check of.  No error is thrown twice.
ThrowsOnlyItsOwn ==
    /\ \A n \in Calls : thrown[n] \in {NoCall, n} \cup (Calls \ checked) \cup overtaken
    /\ \A m, n \in Calls : thrown[m] = thrown[n] /\ thrown[m] # NoCall => m = n

\* A checked call whose script ended in an Error throws it: whatever the scripts
\* around it and the callbacks inside it left behind, only the call of another
\* thread that comes between its script and its check takes it away.
NoErrorSwallowed ==
    \A n \in checked \cap raised : thrown[n] = n \/ n \in overtaken
=============================================================================
