----------------------- MODULE ContextLifecycleProofs -----------------------
(***************************************************************************)
(* Contexts and runtimes: for any number of them, sharing one map.         *)
(***************************************************************************)
EXTENDS ContextLifecycle, FiniteSetTheorems, TLAPS

Own == Contexts \ Foreign

\* The steps of QuickJS.close between its begin and its end.
Closing == {"close", "sized", "loop"}

\* Context c is being created by its runtime's own thread.
Creating(c) == c \in Own /\ ctx[c] \in {"native", "global"}

\* A runtime's thread creates one context at a time, does nothing else
\* meanwhile and does not fail.
CreateOK ==
    /\ \A c \in Own : ctx[c] # "failed"
    /\ \A c \in Own : Creating(c) => thread[Owner[c]] = "create"
    /\ \A c, d \in Own : Creating(c) /\ Creating(d) /\ Owner[c] = Owner[d] => c = d

\* What close has yet to find: the contexts of the runtime's own thread that
\* are open were counted, and are in the array unless it has nulls.
FindsOK ==
    \A c \in Own : ctx[c] = "open" =>
        /\ thread[Owner[c]] = "sized" => size[Owner[c]] > 0
        /\ thread[Owner[c]] = "loop" /\ ~nulls[Owner[c]] => c \in values[Owner[c]]

\* Only a close that was asked for is under way.
AskedOK == \A r \in Runtimes : thread[r] \in Closing => r \in asked

Inv ==
    /\ TypeOK
    /\ CreateOK
    /\ FindsOK
    /\ AskedOK
    /\ NoContextOutlivesRuntime
    /\ ClosedOnRequest

-----------------------------------------------------------------------------

\* The size of the map: a number, and not 0 if a context is open.
LEMMA MapSize ==
    /\ Cardinality(sContextMap) \in 0 .. Cardinality(Contexts)
    /\ \A c \in Contexts : ctx[c] = "open" => Cardinality(sContextMap) > 0
<1>1. IsFiniteSet(Contexts) /\ sContextMap \in SUBSET Contexts
  BY ContextLifecycleAssumption DEF sContextMap
<1>2. /\ IsFiniteSet(sContextMap)
      /\ Cardinality(sContextMap) <= Cardinality(Contexts)
  BY <1>1, FS_Subset
<1>3. Cardinality(sContextMap) \in Nat /\ Cardinality(Contexts) \in Nat
  BY <1>1, <1>2, FS_CardinalityType
<1>4. Cardinality(sContextMap) = 0 => sContextMap = {}
  BY <1>2, FS_EmptySet
<1> QED BY <1>2, <1>3, <1>4 DEF sContextMap

LEMMA InvInit == Init => Inv
<1>1. Cardinality(Contexts) \in Nat
  BY ContextLifecycleAssumption, FS_CardinalityType
<1> QED
  BY <1>1, ContextLifecycleAssumption
     DEF Init, Inv, TypeOK, CreateOK, FindsOK, AskedOK, NoContextOutlivesRuntime,
         ClosedOnRequest, Lives, Own, Closing, Creating

LEMMA InvStep == Inv /\ [Next]_vars => Inv'
<1> SUFFICES ASSUME Inv, [Next]_vars PROVE Inv'
  OBVIOUS
<1> USE ContextLifecycleAssumption DEF Inv, Own, Creating
<1>1. ASSUME NEW c \in Contexts, CreateNative(c)
      PROVE  Inv'
  <2>1. TypeOK' /\ AskedOK'
    BY <1>1 DEF TypeOK, AskedOK, Closing, Lives, CreateNative, Occupy
  <2>2. CreateOK'
    <3>1. CASE c \in Foreign
      BY <1>1, <3>1 DEF TypeOK, CreateOK, CreateNative, Occupy
    <3>2. CASE c \in Own
      <4>1. \A d \in Own : Creating(d) => Owner[d] # Owner[c]
        BY <1>1, <3>2 DEF CreateOK, CreateNative, Occupy
      <4>2. /\ thread' = [thread EXCEPT ![Owner[c]] = "create"]
            /\ ctx' = [ctx EXCEPT ![c] = "native"]
        BY <1>1, <3>2 DEF CreateNative, Occupy
      <4>3. \A d \in Own : Creating(d)' => d = c \/ Creating(d)
        BY <4>2 DEF TypeOK
      <4> QED BY <4>1, <4>2, <4>3 DEF TypeOK, CreateOK
    <3> QED BY <3>1, <3>2
  <2>3. FindsOK'
    BY <1>1 DEF TypeOK, FindsOK, CreateNative, Occupy
  <2>4. NoContextOutlivesRuntime' /\ ClosedOnRequest'
    BY <1>1 DEF TypeOK, NoContextOutlivesRuntime, ClosedOnRequest, CreateNative
  <2> QED BY <2>1, <2>2, <2>3, <2>4
<1>2. ASSUME NEW c \in Contexts, GetGlobal(c)
      PROVE  Inv'
  <2>1. TypeOK' /\ AskedOK'
    BY <1>2 DEF TypeOK, AskedOK, Lives, GetGlobal
  <2>2. CreateOK'
    BY <1>2 DEF TypeOK, CreateOK, GetGlobal
  <2>3. FindsOK' /\ NoContextOutlivesRuntime' /\ ClosedOnRequest'
    BY <1>2 DEF TypeOK, FindsOK, NoContextOutlivesRuntime, ClosedOnRequest, GetGlobal
  <2> QED BY <2>1, <2>2, <2>3
<1>3. ASSUME NEW c \in Contexts, GetGlobalFails(c)
      PROVE  Inv'
  <2>1. c \in Foreign
    BY <1>3 DEF NoContextOutlivesRuntime, GetGlobalFails
  <2>2. TypeOK' /\ AskedOK'
    BY <1>3, <2>1 DEF TypeOK, AskedOK, Lives, GetGlobalFails, Occupy
  <2>3. CreateOK'
    BY <1>3, <2>1 DEF TypeOK, CreateOK, GetGlobalFails, Occupy
  <2>4. FindsOK' /\ NoContextOutlivesRuntime' /\ ClosedOnRequest'
    BY <1>3, <2>1 DEF TypeOK, FindsOK, NoContextOutlivesRuntime, ClosedOnRequest,
                      GetGlobalFails, Occupy
  <2> QED BY <2>2, <2>3, <2>4
<1>4. ASSUME NEW c \in Contexts, Put(c)
      PROVE  Inv'
  <2>1. TypeOK' /\ AskedOK'
    BY <1>4 DEF TypeOK, AskedOK, Closing, Lives, Put, Occupy
  <2>2. CreateOK'
    BY <1>4 DEF TypeOK, CreateOK, Put, Occupy
  <2>3. FindsOK'
    BY <1>4 DEF TypeOK, FindsOK, CreateOK, Put, Occupy
  <2>4. NoContextOutlivesRuntime' /\ ClosedOnRequest'
    BY <1>4 DEF TypeOK, NoContextOutlivesRuntime, ClosedOnRequest, Put
  <2> QED BY <2>1, <2>2, <2>3, <2>4
<1>5. ASSUME NEW x \in Contexts \cup Runtimes, AskClose(x)
      PROVE  Inv'
  BY <1>5 DEF AskClose, TypeOK, CreateOK, FindsOK, AskedOK,
              NoContextOutlivesRuntime, ClosedOnRequest
<1>6. ASSUME NEW c \in Contexts, CloseContext(c)
      PROVE  Inv'
  <2>1. TypeOK' /\ AskedOK'
    BY <1>6 DEF TypeOK, AskedOK, Lives, CloseContext
  <2>2. CreateOK' /\ FindsOK'
    BY <1>6 DEF TypeOK, CreateOK, FindsOK, CloseContext
  <2>3. NoContextOutlivesRuntime' /\ ClosedOnRequest'
    BY <1>6 DEF TypeOK, NoContextOutlivesRuntime, ClosedOnRequest, CloseContext
  <2> QED BY <2>1, <2>2, <2>3
<1>7. ASSUME NEW r \in Runtimes, CloseBegin(r)
      PROVE  Inv'
  <2>1. TypeOK' /\ AskedOK'
    BY <1>7 DEF TypeOK, AskedOK, Closing, CloseBegin
  <2>2. CreateOK' /\ FindsOK'
    BY <1>7 DEF TypeOK, CreateOK, FindsOK, CloseBegin
  <2> QED BY <1>7, <2>1, <2>2 DEF NoContextOutlivesRuntime, ClosedOnRequest, CloseBegin
<1>8. ASSUME NEW r \in Runtimes, CloseSize(r)
      PROVE  Inv'
  <2>1. TypeOK' /\ AskedOK'
    BY <1>8, MapSize DEF TypeOK, AskedOK, Closing, CloseSize
  <2>2. CreateOK'
    BY <1>8 DEF TypeOK, CreateOK, CloseSize
  <2>3. FindsOK'
    BY <1>8, MapSize DEF TypeOK, FindsOK, CloseSize
  <2> QED BY <1>8, <2>1, <2>2, <2>3 DEF NoContextOutlivesRuntime, ClosedOnRequest, CloseSize
<1>9. ASSUME NEW r \in Runtimes, CloseToArray(r)
      PROVE  Inv'
  <2>1. sContextMap \in SUBSET Contexts
    BY DEF sContextMap
  <2>2. TypeOK' /\ AskedOK'
    BY <1>9, <2>1 DEF TypeOK, AskedOK, Closing, CloseToArray
  <2>3. CreateOK'
    BY <1>9 DEF TypeOK, CreateOK, CloseToArray
  <2>4. ASSUME NEW c \in Own, ctx[c] = "open", Owner[c] = r, ~nulls'[r]
        PROVE  c \in values'[r]
    <3>1. size[r] \in Nat /\ size[r] > 0
      BY <1>9, <2>4, MapSize DEF FindsOK, CloseToArray, TypeOK
    <3>2. Cardinality(sContextMap) = size[r]
      BY <1>9, <2>4, <3>1 DEF CloseToArray, TypeOK
    <3>3. values'[r] = sContextMap
      BY <1>9, <3>1, <3>2 DEF CloseToArray, TypeOK
    <3> QED BY <2>4, <3>3 DEF sContextMap
  <2>5. FindsOK'
    BY <1>9, <2>4 DEF TypeOK, FindsOK, CloseToArray
  <2> QED BY <1>9, <2>2, <2>3, <2>5 DEF NoContextOutlivesRuntime, ClosedOnRequest, CloseToArray
<1>10. ASSUME NEW r \in Runtimes, NEW c \in Contexts, CloseOne(r, c)
       PROVE  Inv'
  <2>1. TypeOK' /\ AskedOK'
    BY <1>10 DEF TypeOK, AskedOK, Lives, CloseOne
  <2>2. CreateOK'
    BY <1>10 DEF TypeOK, CreateOK, CloseOne
  <2>3. FindsOK'
    BY <1>10 DEF TypeOK, FindsOK, CloseOne, IsMine
  <2>4. NoContextOutlivesRuntime'
    BY <1>10 DEF TypeOK, NoContextOutlivesRuntime, CloseOne
  <2>5. ClosedOnRequest'
    BY <1>10 DEF TypeOK, AskedOK, Closing, ClosedOnRequest, CloseOne, IsMine
  <2> QED BY <2>1, <2>2, <2>3, <2>4, <2>5
<1>11. ASSUME NEW r \in Runtimes, CloseThrows(r)
       PROVE  Inv'
  <2>1. TypeOK' /\ AskedOK'
    BY <1>11 DEF TypeOK, AskedOK, CloseThrows, Closing
  <2>2. CreateOK' /\ FindsOK'
    BY <1>11 DEF TypeOK, CreateOK, FindsOK, CloseThrows
  <2> QED BY <1>11, <2>1, <2>2 DEF NoContextOutlivesRuntime, ClosedOnRequest, CloseThrows
<1>12. ASSUME NEW r \in Runtimes, CloseRelease(r)
       PROVE  Inv'
  <2>1. TypeOK' /\ AskedOK'
    BY <1>12 DEF TypeOK, AskedOK, CloseRelease, Closing
  <2>2. CreateOK' /\ FindsOK'
    BY <1>12 DEF TypeOK, CreateOK, FindsOK, CloseRelease
  <2>3. \A c \in Own : Owner[c] = r => ctx[c] \in {"none", "closed"}
    BY <1>12 DEF TypeOK, Lives, CreateOK, FindsOK, CloseRelease
  <2>4. NoContextOutlivesRuntime'
    BY <1>12, <2>3 DEF TypeOK, NoContextOutlivesRuntime, CloseRelease
  <2> QED BY <1>12, <2>1, <2>2, <2>4 DEF ClosedOnRequest, CloseRelease
<1>13. CASE UNCHANGED vars
  BY <1>13 DEF vars, TypeOK, CreateOK, FindsOK, AskedOK,
               NoContextOutlivesRuntime, ClosedOnRequest, sContextMap
<1> QED
  BY <1>1, <1>2, <1>3, <1>4, <1>5, <1>6, <1>7, <1>8, <1>9, <1>10, <1>11, <1>12, <1>13
     DEF Next, Create, CloseStep, Quiescent

-----------------------------------------------------------------------------

\* Contexts, threads, arrays and flags keep their types, the size that close
\* reads never exceeds the number of contexts.
THEOREM TypeCorrect == Spec => []TypeOK
<1>1. Inv => TypeOK
  BY DEF Inv
<1> QED BY <1>1, InvInit, InvStep, PTL DEF Spec

\* No context that a runtime's own thread created is open, or being created,
\* when JS_FreeRuntime is called, whatever other runtimes and threads do to the
\* map between the steps of close.
THEOREM RuntimeOutlivesItsContexts == Spec => []NoContextOutlivesRuntime
<1>1. Inv => NoContextOutlivesRuntime
  BY DEF Inv
<1> QED BY <1>1, InvInit, InvStep, PTL DEF Spec

\* close of one runtime never closes a context of another.
THEOREM ClosesItsOwn == Spec => []ClosedOnRequest
<1>1. Inv => ClosedOnRequest
  BY DEF Inv
<1> QED BY <1>1, InvInit, InvStep, PTL DEF Spec
=============================================================================
