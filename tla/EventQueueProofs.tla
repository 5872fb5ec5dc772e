-------------------------- MODULE EventQueueProofs --------------------------
(***************************************************************************)
(* Theorems about EventQueue, for any number of clients, any mode and any  *)
(* bound on the number of calls.                                           *)
(***************************************************************************)
EXTENDS EventQueue, TLAPS

\* What the types alone do not say about a step: a thread inside a call has
\* numbered it, unless it is the owner and handles somebody else's call, and
\* the owner that is about to notify has a message in hand.  Only the owner
\* runs close() and frees the runtime.
StepOK ==
    /\ \A c \in Clients : pc[c] # "freeing" /\ (pc[c] = "native" => call[c] # "close")
    /\ \A t \in Threads : pc[t] # "idle" =>
                            seq[t] # 0 \/ (t = JSThread /\ cur # NoMsg)
    /\ pc[JSThread] = "notify" => cur # NoMsg

TypeInv == TypeOK /\ StepOK

\* The message of a client inside a call is a message.
LEMMA MsgOfType ==
    ASSUME TypeInv, NEW c \in Clients, pc[c] # "idle"
    PROVE  MsgOf(c) \in Msg
BY EventQueueAssumption DEF TypeInv, TypeOK, StepOK, MsgOf, Msg, Threads

\* The call in hand of a thread inside the engine ends: only calls of close()
\* are entered among those that failed.
LEMMA EndsType ==
    ASSUME TypeInv, NEW m, NEW o, Ends(m, o), NEW t \in Threads, pc[t] = "native",
           (m = cur /\ cur # NoMsg) \/ (m = MsgOf(t) /\ (t = JSThread => cur = NoMsg))
    PROVE  failed' \subseteq CloseCalls
<1>1. m.call = "close" => m \in CloseCalls
  <2>1. CASE m = cur /\ cur # NoMsg
    BY <2>1 DEF TypeInv, TypeOK, Msg, CloseCalls, Threads
  <2>2. CASE m = MsgOf(t) /\ (t = JSThread => cur = NoMsg)
    <3>1. seq[t] \in 1 .. MaxCalls
      BY <2>2, EventQueueAssumption DEF TypeInv, TypeOK, StepOK
    <3> QED
      BY <2>2, <3>1 DEF MsgOf, CloseCalls
  <2> QED
    BY <2>1, <2>2
<1> QED
  BY <1>1 DEF Ends, TypeInv, TypeOK

\* Beginning a call keeps the types of the variables it writes.
LEMMA BeginType ==
    ASSUME TypeInv, NEW t \in Threads, NEW k \in Calls, Begin(t, k)
    PROVE  /\ seq' \in [Threads -> 0 .. MaxCalls]
           /\ seq'[t] # 0
           /\ \A u \in Threads : u # t => seq'[u] = seq[u] /\ call'[u] = call[u]
           /\ call' \in [Threads -> CallKinds] /\ call'[t] = k
           /\ cell' \in [Threads -> Cells]
BY EventQueueAssumption DEF TypeInv, TypeOK, Begin, EmptyCell, Cells

\* The elements of the queue are messages, and so are those left by a Take.
LEMMA TakeType ==
    ASSUME TypeInv, NEW m, Take(m)
    PROVE  m \in Msg /\ queue' \in Seq(Msg)
BY DEF TypeInv, TypeOK, Take

LEMMA TypeInit == Init => TypeInv
<1> SUFFICES ASSUME Init
             PROVE  TypeInv
  OBVIOUS
<1>1. queue \in Seq(Msg) /\ cur \in Msg \cup {NoMsg}
  BY DEF Init
<1>2. /\ pc \in [Threads -> Steps]
      /\ call \in [Threads -> CallKinds]
      /\ ret \in [Threads -> Returns]
  BY DEF Init, Steps, CallKinds, Returns
<1>3. cell \in [Threads -> Cells]
  BY DEF Init, EmptyCell, Cells
<1>4. seq \in [Threads -> 0 .. MaxCalls]
  BY EventQueueAssumption DEF Init
<1>5. StepOK
  BY DEF Init, StepOK, Threads
<1> QED
  BY <1>1, <1>2, <1>3, <1>4, <1>5 DEF Init, TypeInv, TypeOK

LEMMA TypeStep == TypeInv /\ [Next]_vars => TypeInv'
<1> SUFFICES ASSUME TypeInv, [Next]_vars
             PROVE  TypeInv'
  OBVIOUS
<1> USE EventQueueAssumption DEF engineVars
<1>1. ASSUME NEW t \in Threads, NEW k \in Calls, PassGate(t, k)
      PROVE  TypeInv'
  BY <1>1, BeginType DEF PassGate, TypeInv, TypeOK, StepOK, Steps, Returns, Threads
<1>2. ASSUME NEW t \in Threads, NEW k \in Calls, GateRefuses(t, k)
      PROVE  TypeInv'
  BY <1>2, BeginType DEF GateRefuses, TypeInv, TypeOK, StepOK, Returns, Threads, Begin
<1>3. ASSUME NEW t \in Threads, CreateContext(t)
      PROVE  TypeInv'
  <2>1. "createContext" \in Calls
    BY <1>3 DEF CreateContext, Begin
  <2> QED
    BY <1>3, <2>1, BeginType
       DEF CreateContext, TypeInv, TypeOK, StepOK, Steps, Returns, Threads
<1>4. ASSUME NEW t \in Threads, WakeEarly(t)
      PROVE  TypeInv'
  <2>1. cell' \in [Threads -> Cells]
    BY <1>4 DEF WakeEarly, TypeInv, TypeOK, Cells
  <2>2. ret' \in [Threads -> Returns]
    BY <1>4 DEF WakeEarly, TypeInv, TypeOK, Cells, Returns
  <2> QED
    BY <1>4, <2>1, <2>2 DEF WakeEarly, TypeInv, TypeOK, StepOK, Steps, Threads
<1>5. ASSUME NEW t \in Threads, RunInline(t) \/ AwaitResult(t)
      PROVE  TypeInv'
  BY <1>5 DEF RunInline, RunsInline, CheckThread, AwaitResult, TypeInv, TypeOK, StepOK,
              Steps, Threads
<1>6. ASSUME NEW t \in Threads, ReleaseRuntime(t)
      PROVE  TypeInv'
  <2>1. t = JSThread
    BY <1>6 DEF ReleaseRuntime, TaskOf, MsgOf, TypeInv, StepOK, Threads
  <2> QED
    BY <1>6, <2>1 DEF ReleaseRuntime, TypeInv, TypeOK, StepOK, Steps, Threads
<1>7. ASSUME NEW t \in Threads, ThreadError(t)
      PROVE  TypeInv'
  BY <1>7 DEF ThreadError, TypeInv, TypeOK, StepOK, Steps, Returns, Threads
<1>18. ASSUME NEW t \in Threads, Return(t)
       PROVE  TypeInv'
  <2>1. ret' \in [Threads -> Returns]
    BY <1>18 DEF Return, TypeInv, TypeOK, Cells, Returns
  <2> QED
    BY <1>18, <2>1 DEF Return, TypeInv, TypeOK, StepOK, Steps, Threads
<1>8. ASSUME NEW t \in Threads, Submit(t)
      PROVE  TypeInv'
  <2>1. t \in Clients /\ MsgOf(t) \in Msg
    BY <1>8, MsgOfType DEF Submit, Threads
  <2>2. queue' \in Seq(Msg)
    BY <1>8, <2>1 DEF Submit, TypeInv, TypeOK
  <2> QED
    BY <1>8, <2>2 DEF Submit, TypeInv, TypeOK, StepOK, Steps, Returns, Threads
<1>9. ASSUME NEW t \in Threads, NEW o \in Outcomes, InlineReturns(t, o)
      PROVE  TypeInv'
  <2>1. failed' \subseteq CloseCalls
    BY <1>9, EndsType DEF InlineReturns
  <2> QED
    BY <1>9, <2>1
       DEF InlineReturns, OutcomeKinds, TypeInv, TypeOK, StepOK, Steps, Returns, Threads
<1>10. ASSUME NEW t \in Threads, CloseFinish(t)
       PROVE  TypeInv'
  BY <1>10 DEF CloseFinish, HasHandlerThread, TypeInv, TypeOK, StepOK, Steps, Threads
<1>11. CASE DispatchRun
  <2>1. PICK m : /\ Take(m)
                 /\ pc' = [pc EXCEPT ![JSThread] = "native"]
                 /\ cur' = m
                 /\ UNCHANGED <<call, seq, cell, ret, engineVars>>
    BY <1>11 DEF DispatchRun
  <2>2. m \in Msg /\ queue' \in Seq(Msg) /\ pc[JSThread] = "idle"
    BY <2>1, TakeType DEF Take
  <2> QED
    BY <2>1, <2>2 DEF TypeInv, TypeOK, StepOK, Steps, Threads
<1>13. CASE DispatchSkip
  <2>1. PICK m : /\ Take(m)
                 /\ pc' = [pc EXCEPT ![JSThread] = IF Blocks(m.call) THEN "notify"
                                                                    ELSE "idle"]
                 /\ cur' = IF Blocks(m.call) THEN m ELSE NoMsg
                 /\ UNCHANGED <<call, seq, cell, ret, engineVars>>
    BY <1>13 DEF DispatchSkip
  <2>2. m \in Msg /\ queue' \in Seq(Msg) /\ pc[JSThread] = "idle"
    BY <2>1, TakeType DEF Take
  <2> QED
    BY <2>1, <2>2 DEF TypeInv, TypeOK, StepOK, Steps, Threads
<1>14. ASSUME NEW o \in Outcomes, EventReturns(o)
       PROVE  TypeInv'
  <2>1. o \in {"value", "exception"} /\ cur \in Msg /\ cur.caller \in Threads
    BY <1>14 DEF EventReturns, OutcomeKinds, TypeInv, TypeOK, Msg, Threads
  <2>2. [cell[cur.caller] EXCEPT !.out = o] \in Cells
    <3>1. cell[cur.caller] \in Cells
      BY <2>1 DEF TypeInv, TypeOK
    <3>2. \A x \in Cells : [x EXCEPT !.out = o] \in Cells
      BY <2>1 DEF Cells
    <3> QED BY <3>1, <3>2
  <2>3. cell' = cell \/ cell' = [cell EXCEPT ![cur.caller].out = o]
    BY <1>14 DEF EventReturns
  <2>4. cell' \in [Threads -> Cells]
    BY <2>1, <2>2, <2>3 DEF TypeInv, TypeOK
  <2>5. pc' \in [Threads -> Steps] /\ cur' \in Msg \cup {NoMsg}
    BY <1>14, <2>1 DEF EventReturns, TypeInv, TypeOK, Steps, Threads
  <2>6. StepOK'
    BY <1>14, <2>1, <2>5 DEF EventReturns, TypeInv, TypeOK, StepOK, Threads
  <2>7. failed' \subseteq CloseCalls
    BY <1>14, EndsType DEF EventReturns, Threads
  <2> QED
    BY <1>14, <2>4, <2>5, <2>6, <2>7 DEF EventReturns, TypeInv, TypeOK
<1>15. CASE EventThrowsError
  <2>1. failed' \subseteq CloseCalls
    BY <1>15, EndsType DEF EventThrowsError, Threads
  <2> QED
    BY <1>15, <2>1 DEF EventThrowsError, TypeInv, TypeOK, StepOK, Steps, Threads
<1>16. CASE Notify
  <2>1. cur \in Msg /\ cur.caller \in Threads
    BY <1>16 DEF Notify, TypeInv, TypeOK, StepOK, Msg, Threads
  <2>2. cell' \in [Threads -> Cells]
    BY <1>16, <2>1 DEF Notify, TypeInv, TypeOK, Cells
  <2>3. pc' \in [Threads -> Steps]
    BY <1>16 DEF Notify, TypeInv, TypeOK, Steps
  <2>4. StepOK'
    BY <1>16, <2>1 DEF Notify, TypeInv, TypeOK, StepOK, Msg, Threads
  <2> QED
    BY <1>16, <2>2, <2>3, <2>4 DEF Notify, TypeInv, TypeOK
<1>17. CASE UNCHANGED vars
  BY <1>17 DEF vars, TypeInv, TypeOK, StepOK
<1> QED
  BY <1>1, <1>2, <1>3, <1>4, <1>5, <1>6, <1>7, <1>8, <1>9, <1>10, <1>11,
     <1>13, <1>14, <1>15, <1>16, <1>17, <1>18
     DEF Next, Caller, Progress, Looper, Quiescent

\* Every variable keeps its type: no step of the callers or of the Looper
\* stores anything else in the cells, the queue or the flags.
THEOREM TypeCorrect == Spec => []TypeOK
<1>1. TypeInv => TypeOK
  BY DEF TypeInv
<1> QED
  BY TypeInit, TypeStep, <1>1, PTL DEF Spec

-----------------------------------------------------------------------------
(***************************************************************************)
(* No lost wakeup.                                                         *)
(***************************************************************************)

LEMMA OccursAppend ==
    ASSUME NEW S, NEW q \in Seq(S), NEW x \in S
    PROVE  /\ Occurs(x, Append(q, x))
           /\ \A m : Occurs(m, q) => Occurs(m, Append(q, x))
<1>1. Append(q, x)[Len(q) + 1] = x /\ Len(q) + 1 \in DOMAIN Append(q, x)
  OBVIOUS
<1>2. ASSUME NEW i \in DOMAIN q
      PROVE  i \in DOMAIN Append(q, x) /\ Append(q, x)[i] = q[i]
  OBVIOUS
<1> QED
  BY <1>1, <1>2 DEF Occurs

LEMMA OccursTail ==
    ASSUME NEW S, NEW q \in Seq(S), q # << >>, NEW m, Occurs(m, q), m # Head(q)
    PROVE  Occurs(m, Tail(q))
<1>1. PICK i \in DOMAIN q : q[i] = m
  BY DEF Occurs
<1>2. i # 1 /\ i - 1 \in DOMAIN Tail(q)
  BY <1>1
<1>3. Tail(q)[i - 1] = m
  BY <1>1, <1>2
<1> QED
  BY <1>2, <1>3 DEF Occurs

LEMMA ServedStep ==
    ASSUME TypeInv, TypeInv', [Next]_vars, NEW c \in Clients, Served(c)
    PROVE  Served(c)'
<1> USE EventQueueAssumption DEF engineVars
<1>0. /\ c \in Threads /\ JSThread \in Threads /\ c # JSThread
      /\ pc[c] # "idle" => MsgOf(c) # NoMsg
  BY MsgOfType DEF Threads
<1>1. ASSUME NEW t \in Threads, NEW k \in Calls, PassGate(t, k) \/ GateRefuses(t, k)
      PROVE  Served(c)'
  <2>1. CASE t = c
    <3>1. pc'[c] \in {"checked", "idle"}
      BY <1>0, <1>1, <2>1 DEF PassGate, GateRefuses, Begin, TypeInv, TypeOK
    <3> QED
      BY <3>1 DEF Served
  <2>2. CASE t # c
    <3>1. /\ pc'[c] = pc[c] /\ call'[c] = call[c]
          /\ seq'[c] = seq[c] /\ cell'[c] = cell[c]
      BY <1>0, <1>1, <2>2 DEF PassGate, GateRefuses, Begin, TypeInv, TypeOK
    <3>2. queue' = queue /\ cur' = cur
      BY <1>1 DEF PassGate, GateRefuses
    <3>3. pc'[JSThread] = pc[JSThread] \/ pc[JSThread] = "idle"
      BY <1>0, <1>1 DEF PassGate, GateRefuses, Begin, TypeInv, TypeOK
    <3> QED
      BY <3>1, <3>2, <3>3 DEF Served, Queued, MsgOf
  <2> QED
    BY <2>1, <2>2
<1>2. ASSUME NEW t \in Threads, CreateContext(t)
      PROVE  Served(c)'
  BY <1>0, <1>2 DEF CreateContext, Begin, Served, Queued, MsgOf, TypeInv, TypeOK
<1>3. ASSUME NEW t \in Threads,
             WakeEarly(t) \/ RunInline(t) \/ ThreadError(t) \/ Return(t)
      PROVE  Served(c)'
  BY <1>0, <1>3 DEF WakeEarly, RunInline, ThreadError, Return,
                    Served, Queued, MsgOf, TypeInv, TypeOK
<1>4. ASSUME NEW t \in Threads, Submit(t)
      PROVE  Served(c)'
  <2>1. t \in Clients /\ MsgOf(t) \in Msg /\ queue \in Seq(Msg)
    BY <1>4, MsgOfType DEF Submit, Threads, TypeInv, TypeOK
  <2>2. Occurs(MsgOf(t), queue') /\ \A m : Occurs(m, queue) => Occurs(m, queue')
    BY <1>4, <2>1, OccursAppend DEF Submit
  <2> QED
    BY <1>0, <1>4, <2>1, <2>2 DEF Submit, Served, Queued, MsgOf, TypeInv, TypeOK
<1>5. ASSUME NEW t \in Threads, AwaitResult(t)
      PROVE  Served(c)'
  BY <1>0, <1>5 DEF AwaitResult, Served, Queued, MsgOf, TypeInv, TypeOK
<1>6. ASSUME NEW t \in Threads, NEW o \in Outcomes, InlineReturns(t, o)
      PROVE  Served(c)'
  BY <1>0, <1>6 DEF InlineReturns, Served, Queued, MsgOf, TypeInv, TypeOK
<1>7. ASSUME NEW t \in Threads, CloseFinish(t)
      PROVE  Served(c)'
  BY <1>0, <1>7 DEF CloseFinish, Served, Queued, MsgOf, TypeInv, TypeOK, StepOK, Threads
<1>8. ASSUME NEW m, Take(m), MsgOf(c) # m
      PROVE  Queued(MsgOf(c)) => Occurs(MsgOf(c), queue')
  BY <1>8, OccursTail DEF Take, Queued, TypeInv, TypeOK
<1>9. CASE DispatchRun
  <2>1. PICK m : /\ Take(m)
                 /\ pc' = [pc EXCEPT ![JSThread] = "native"]
                 /\ cur' = m
                 /\ UNCHANGED <<call, seq, cell, ret, engineVars>>
    BY <1>9 DEF DispatchRun
  <2> QED
    BY <1>0, <1>8, <2>1 DEF Take, Served, Queued, MsgOf, TypeInv, TypeOK
<1>10. ASSUME NEW t \in Threads, ReleaseRuntime(t)
       PROVE  Served(c)'
  <2>1. t = JSThread
    BY <1>10 DEF ReleaseRuntime, TaskOf, MsgOf, TypeInv, StepOK, Threads
  <2>2. cur # MsgOf(c) \/ ~Blocks(call[c]) \/ cur = NoMsg
    BY <1>10, <2>1 DEF ReleaseRuntime, TaskOf, MsgOf, Blocks
  <2> QED
    BY <1>0, <1>10, <2>1, <2>2 DEF ReleaseRuntime, Served, Queued, MsgOf, TypeInv, TypeOK
<1>11. CASE DispatchSkip
  <2>1. PICK m : /\ Take(m)
                 /\ pc' = [pc EXCEPT ![JSThread] = IF Blocks(m.call) THEN "notify"
                                                                    ELSE "idle"]
                 /\ cur' = IF Blocks(m.call) THEN m ELSE NoMsg
                 /\ UNCHANGED <<call, seq, cell>>
    BY <1>11 DEF DispatchSkip
  <2>2. Blocks(call[c]) /\ MsgOf(c) = m => Blocks(m.call)
    BY DEF MsgOf
  <2> QED
    BY <1>0, <1>8, <2>1, <2>2 DEF Take, Served, Queued, MsgOf, TypeInv, TypeOK
<1>12. ASSUME NEW o \in Outcomes, EventReturns(o)
       PROVE  Served(c)'
  <2>1. cell'[c].done = cell[c].done
    BY <1>0, <1>12 DEF EventReturns, TypeInv, TypeOK, Msg
  <2>2. cur = MsgOf(c) /\ Blocks(call[c]) => Blocks(cur.call)
    BY DEF MsgOf
  <2> QED
    BY <1>0, <1>12, <2>1, <2>2 DEF EventReturns, Served, Queued, MsgOf, TypeInv, TypeOK
<1>13. CASE EventThrowsError
  BY <1>0, <1>13 DEF EventThrowsError, Served, Queued, MsgOf, TypeInv, TypeOK
<1>14. CASE Notify
  <2>1. cur \in Msg /\ cur.caller \in Threads
    BY <1>14 DEF Notify, TypeInv, TypeOK, StepOK, Msg, Threads
  <2>2. CASE cur.caller = c /\ IsLatest(cur)
    <3>1. cell'[c].done /\ pc'[c] # "waiting"
      BY <1>0, <1>14, <2>1, <2>2 DEF Notify, TypeInv, TypeOK
    <3> QED
      BY <1>0, <1>14, <2>2, <3>1 DEF Notify, Served, TypeInv, TypeOK
  <2>3. CASE ~(cur.caller = c /\ IsLatest(cur))
    <3>1. cell'[c] = cell[c] /\ pc'[c] = pc[c] /\ cur # MsgOf(c)
      BY <1>0, <1>14, <2>1, <2>3 DEF Notify, TypeInv, TypeOK, MsgOf, IsLatest
    <3> QED
      BY <1>0, <1>14, <3>1 DEF Notify, Served, Queued, MsgOf
  <2> QED
    BY <2>2, <2>3
<1>15. CASE UNCHANGED vars
  BY <1>15 DEF vars, Served, Queued, MsgOf
<1> QED
  BY <1>1, <1>2, <1>3, <1>4, <1>5, <1>6, <1>7, <1>9, <1>10, <1>11, <1>12,
     <1>13, <1>14, <1>15 DEF Next, Caller, Progress, Looper, Quiescent

\* No client of post or postVoid ever waits for a notifyAll that has already
\* happened or that nobody is left to make.
THEOREM NoLostWakeup == Spec => []WaiterIsServed
<1>1. Init => WaiterIsServed
  BY DEF Init, WaiterIsServed, Served, Threads
<1>2. TypeInv /\ TypeInv' /\ WaiterIsServed /\ [Next]_vars => WaiterIsServed'
  BY ServedStep DEF WaiterIsServed
<1> QED
  BY TypeInit, TypeStep, <1>1, <1>2, PTL DEF Spec

-----------------------------------------------------------------------------
(***************************************************************************)
(* What a blocking call tells its caller.                                  *)
(***************************************************************************)

\* The message waits in the Handler or is being handled.
InFlight(m) == Queued(m) \/ cur = m

\* Every message was posted once.
PostedOnce ==
    /\ \A i, j \in DOMAIN queue : queue[i] = queue[j] => i = j
    /\ ~Queued(cur)

\* The message of a caller's latest call is that call's, its event is not over,
\* and the caller is waiting for it unless it was woken early.
FlightOK ==
    \A m \in Msg : InFlight(m) =>
        /\ m.id <= seq[m.caller]
        /\ IsLatest(m) =>
             /\ m.call = call[m.caller]
             /\ pc[m.caller] # "checked"
             /\ ~cell[m.caller].done
             /\ Blocks(m.call) =>
                  pc[m.caller] \in {"submitted", "waiting"} \/ cell[m.caller].early

\* The cells of client c's call tell what happened to its event.
Told(c) == cell[c].out # "null" \/ (released /\ call[c] # "post")

ToldOK ==
    /\ \A c \in Clients : cell[c].done => Told(c) /\ pc[c] # "checked"
    /\ pc[JSThread] = "notify" /\ IsLatest(cur) => Told(cur.caller)

\* Client c's latest call blocked and has returned, and nothing woke it early.
Returned(c) == pc[c] = "idle" /\ seq[c] > 0 /\ Blocks(call[c]) /\ ~cell[c].early

ReturnedOK ==
    \A c \in Clients : Returned(c) /\ ret[c] = "null" => released /\ call[c] # "post"

CompleteInv == PostedOnce /\ FlightOK /\ ToldOK /\ ReturnedOK

\* What Handler.post adds to the queue, and what the Looper leaves of it.
LEMMA QueueAppend ==
    ASSUME NEW S, NEW q \in Seq(S), NEW x \in S, ~Occurs(x, q),
           \A i, j \in DOMAIN q : q[i] = q[j] => i = j
    PROVE  /\ \A m : Occurs(m, Append(q, x)) => Occurs(m, q) \/ m = x
           /\ \A i, j \in DOMAIN Append(q, x) : Append(q, x)[i] = Append(q, x)[j] => i = j
<1>1. /\ Len(q) \in Nat /\ DOMAIN q = 1 .. Len(q)
      /\ DOMAIN Append(q, x) = 1 .. Len(q) + 1
      /\ \A i \in 1 .. Len(q) : Append(q, x)[i] = q[i]
      /\ Append(q, x)[Len(q) + 1] = x
  OBVIOUS
<1> QED
  BY <1>1 DEF Occurs

LEMMA QueueTail ==
    ASSUME NEW S, NEW q \in Seq(S), q # << >>,
           \A i, j \in DOMAIN q : q[i] = q[j] => i = j
    PROVE  /\ Occurs(Head(q), q)
           /\ ~Occurs(Head(q), Tail(q))
           /\ \A m : Occurs(m, Tail(q)) => Occurs(m, q)
           /\ \A i, j \in DOMAIN Tail(q) : Tail(q)[i] = Tail(q)[j] => i = j
<1>1. /\ Len(q) \in Nat /\ Len(q) # 0 /\ DOMAIN q = 1 .. Len(q)
      /\ DOMAIN Tail(q) = 1 .. Len(q) - 1
      /\ \A i \in 1 .. Len(q) - 1 : Tail(q)[i] = q[i + 1]
      /\ Head(q) = q[1]
  OBVIOUS
<1> QED
  BY <1>1 DEF Occurs

\* A message names a client and a call of it.
LEMMA MsgParts ==
    ASSUME NEW m \in Msg
    PROVE  m.caller \in Clients /\ m.caller \in Threads /\ m.caller # JSThread /\ m.id \in Nat
BY EventQueueAssumption DEF Msg, Threads

\* A thread begins a call: the messages it posted before are not its latest.
LEMMA CompleteBegin ==
    ASSUME TypeInv, CompleteInv, NEW t \in Threads, NEW k \in Calls,
           PassGate(t, k) \/ GateRefuses(t, k) \/ (CreateContext(t) /\ k = "createContext")
    PROVE  CompleteInv'
<1> USE EventQueueAssumption DEF CompleteInv, engineVars
<1>1. /\ Begin(t, k) /\ UNCHANGED <<queue, cur, released>> /\ pc[t] = "idle"
      /\ \A u \in Threads : u # t => pc'[u] = pc[u] /\ call'[u] = call[u]
                                     /\ ret'[u] = ret[u] /\ cell'[u] = cell[u]
      /\ seq'[t] = seq[t] + 1 /\ seq[t] \in Nat /\ seq \in [Threads -> 0 .. MaxCalls]
      /\ \A u \in Threads : u # t => seq'[u] = seq[u]
      /\ cell'[t] = EmptyCell /\ pc'[t] \in {"idle", "checked", "native"}
      /\ pc'[t] = "idle" => ret'[t] = "refused"
  BY DEF PassGate, GateRefuses, CreateContext, Begin, TypeInv, TypeOK
<1>2. PostedOnce'
  BY <1>1 DEF PostedOnce, Queued
<1>3. FlightOK'
  <2> SUFFICES ASSUME NEW m \in Msg, InFlight(m)'
               PROVE  /\ m.id <= seq'[m.caller]
                      /\ m.id = seq'[m.caller] =>
                           /\ m.call = call'[m.caller]
                           /\ pc'[m.caller] # "checked"
                           /\ ~cell'[m.caller].done
                           /\ Blocks(m.call) => \/ pc'[m.caller] \in {"submitted", "waiting"}
                                                \/ cell'[m.caller].early
    BY DEF FlightOK, IsLatest
  <2>1. InFlight(m) /\ m.id <= seq[m.caller] /\ m.id \in Nat /\ m.caller \in Threads
    BY <1>1, MsgParts DEF InFlight, Queued, FlightOK
  <2>2. CASE m.caller = t
    BY <1>1, <2>1, <2>2
  <2>3. CASE m.caller # t
    BY <1>1, <2>1, <2>3 DEF FlightOK, IsLatest
  <2> QED
    BY <2>2, <2>3
<1>4. ToldOK'
  <2>1. \A c \in Clients : cell'[c].done => Told(c)' /\ pc'[c] # "checked"
    BY <1>1 DEF ToldOK, Told, EmptyCell, Threads
  <2>2. pc'[JSThread] = "notify" /\ IsLatest(cur)' => Told(cur.caller)'
    <3>1. SUFFICES ASSUME pc'[JSThread] = "notify", IsLatest(cur)'
                   PROVE  Told(cur.caller)'
      OBVIOUS
    <3>2. t # JSThread /\ pc[JSThread] = "notify" /\ cur \in Msg
      BY <1>1, <3>1 DEF Threads, TypeInv, TypeOK, StepOK
    <3>3. cur.caller # t
      <4>1. cur.id <= seq[cur.caller] /\ cur.id \in Nat
        BY <3>2, MsgParts DEF FlightOK, InFlight
      <4> QED
        BY <1>1, <3>1, <4>1 DEF IsLatest
    <3> QED
      BY <1>1, <3>1, <3>2, <3>3, MsgParts DEF ToldOK, Told, IsLatest
  <2> QED
    BY <2>1, <2>2 DEF ToldOK
<1>5. ReturnedOK'
  BY <1>1 DEF ReturnedOK, Returned, Threads
<1> QED
  BY <1>2, <1>3, <1>4, <1>5

\* A thread goes on in its call; the client's event is over when Return is taken.
LEMMA CompleteProgress ==
    ASSUME TypeInv, CompleteInv, NEW t \in Threads,
           \/ WakeEarly(t) \/ RunInline(t) \/ ReleaseRuntime(t) \/ ThreadError(t)
           \/ AwaitResult(t) \/ Return(t) \/ \E o \in Outcomes : InlineReturns(t, o)
    PROVE  CompleteInv'
<1> USE EventQueueAssumption DEF CompleteInv, engineVars
<1>1. /\ UNCHANGED <<queue, cur, released, seq, call>>
      /\ \A u \in Threads : u # t => pc'[u] = pc[u] /\ ret'[u] = ret[u] /\ cell'[u] = cell[u]
      /\ cell'[t].done = cell[t].done /\ cell'[t].out = cell[t].out
      /\ cell[t].early => cell'[t].early
      /\ pc'[t] \notin {"checked", "notify"}
  BY DEF WakeEarly, RunInline, ReleaseRuntime, ThreadError, AwaitResult, Return, InlineReturns,
         TypeInv, TypeOK, Cells
<1>2. \/ pc[t] = "checked"
      \/ pc[t] = "native" /\ (pc'[t] = "freeing" \/ ret'[t] # "null")
      \/ pc'[t] = "waiting"
      \/ cell'[t].early
      \/ cell[t].done /\ ret'[t] = cell[t].out
  BY DEF WakeEarly, RunInline, ReleaseRuntime, ThreadError, AwaitResult, Return, InlineReturns,
         TypeInv, TypeOK, Cells, OutcomeKinds
<1>3. pc[t] = "checked" /\ pc'[t] = "idle" => ret'[t] = "threadError"
  BY DEF WakeEarly, RunInline, ReleaseRuntime, ThreadError, AwaitResult, Return, InlineReturns,
         TypeInv, TypeOK
<1>4. PostedOnce'
  BY <1>1 DEF PostedOnce, Queued
<1>5. FlightOK'
  <2> SUFFICES ASSUME NEW m \in Msg, InFlight(m)'
               PROVE  /\ m.id <= seq'[m.caller]
                      /\ m.id = seq'[m.caller] =>
                           /\ m.call = call'[m.caller]
                           /\ pc'[m.caller] # "checked"
                           /\ ~cell'[m.caller].done
                           /\ Blocks(m.call) => \/ pc'[m.caller] \in {"submitted", "waiting"}
                                                \/ cell'[m.caller].early
    BY DEF FlightOK, IsLatest
  <2>1. InFlight(m) /\ m.caller \in Threads
    BY <1>1, MsgParts DEF InFlight, Queued
  <2>2. CASE m.caller = t
    BY <1>1, <1>2, <2>1, <2>2 DEF FlightOK, IsLatest
  <2>3. CASE m.caller # t
    BY <1>1, <2>1, <2>3 DEF FlightOK, IsLatest
  <2> QED
    BY <2>2, <2>3
<1>6. ToldOK'
  <2>1. \A c \in Clients : Told(c)' <=> Told(c)
    BY <1>1 DEF Told, Threads
  <2>2. \A c \in Clients : /\ cell'[c].done => cell[c].done
                           /\ pc'[c] = "checked" => pc[c] = "checked"
    BY <1>1 DEF Threads
  <2>3. pc'[JSThread] = "notify" => cur \in Msg /\ pc[JSThread] = "notify"
    BY <1>1 DEF TypeInv, TypeOK, StepOK, Threads
  <2>4. pc'[JSThread] = "notify" /\ IsLatest(cur)' => Told(cur.caller)'
    BY <1>1, <2>1, <2>3, MsgParts DEF ToldOK, IsLatest
  <2>5. \A c \in Clients : cell'[c].done => Told(c)' /\ pc'[c] # "checked"
    BY <1>1, <2>2 DEF ToldOK, Told, Threads
  <2> QED
    BY <2>4, <2>5 DEF ToldOK
<1>7. ReturnedOK'
  <2> SUFFICES ASSUME NEW c \in Clients, Returned(c)', ret'[c] = "null"
               PROVE  released /\ call[c] # "post"
    BY <1>1 DEF ReturnedOK
  <2>1. c \in Threads
    BY DEF Threads
  <2>2. CASE c # t
    BY <1>1, <2>1, <2>2 DEF ReturnedOK, Returned
  <2>3. CASE c = t
    <3>1. cell[c].done /\ cell[c].out = "null"
      BY <1>2, <1>3, <2>3 DEF Returned
    <3> QED
      BY <3>1 DEF ToldOK, Told
  <2> QED
    BY <2>2, <2>3
<1> QED
  BY <1>4, <1>5, <1>6, <1>7

\* Handler.post: the message is new, because its caller was between the gate
\* and the Handler.
LEMMA CompleteSubmit ==
    ASSUME TypeInv, CompleteInv, NEW t \in Threads, Submit(t)
    PROVE  CompleteInv'
<1> USE EventQueueAssumption DEF CompleteInv, engineVars
<1>1. /\ t \in Clients /\ t # JSThread /\ MsgOf(t) \in Msg /\ queue \in Seq(Msg)
      /\ pc[t] = "checked" /\ queue' = Append(queue, MsgOf(t))
      /\ UNCHANGED <<cur, released, seq, call, cell>>
      /\ \A u \in Threads : u # t => pc'[u] = pc[u] /\ ret'[u] = ret[u]
      /\ pc'[t] = IF Blocks(call[t]) THEN "submitted" ELSE "idle"
      /\ seq[t] \in Nat
  BY MsgOfType DEF Submit, Threads, TypeInv, TypeOK
<1>2. MsgOf(t).id = seq[t] /\ MsgOf(t).caller = t /\ MsgOf(t).call = call[t]
  BY DEF MsgOf
<1>3. \A m \in Msg : m.caller = t /\ m.id = seq[t] => ~InFlight(m)
  BY <1>1 DEF FlightOK, IsLatest
<1>4. ~Occurs(MsgOf(t), queue) /\ cur # MsgOf(t)
  BY <1>1, <1>2, <1>3 DEF InFlight, Queued
<1>5. /\ \A m : Occurs(m, queue') => Occurs(m, queue) \/ m = MsgOf(t)
      /\ \A i, j \in DOMAIN queue' : queue'[i] = queue'[j] => i = j
  BY <1>1, <1>4, QueueAppend DEF PostedOnce
<1>6. PostedOnce'
  BY <1>1, <1>4, <1>5 DEF PostedOnce, Queued
<1>7. FlightOK'
  <2> SUFFICES ASSUME NEW m \in Msg, InFlight(m)'
               PROVE  /\ m.id <= seq'[m.caller]
                      /\ m.id = seq'[m.caller] =>
                           /\ m.call = call'[m.caller]
                           /\ pc'[m.caller] # "checked"
                           /\ ~cell'[m.caller].done
                           /\ Blocks(m.call) => \/ pc'[m.caller] \in {"submitted", "waiting"}
                                                \/ cell'[m.caller].early
    BY DEF FlightOK, IsLatest
  <2>1. CASE m = MsgOf(t)
    BY <1>1, <1>2, <2>1 DEF ToldOK
  <2>2. CASE m # MsgOf(t)
    <3>1. InFlight(m) /\ m.caller \in Threads
      BY <1>1, <1>5, <2>2, MsgParts DEF InFlight, Queued
    <3>2. m.caller = t => m.id # seq[t]
      BY <1>3, <3>1
    <3> QED
      BY <1>1, <3>1, <3>2 DEF FlightOK, IsLatest
  <2> QED
    BY <2>1, <2>2
<1>8. ToldOK'
  <2>1. \A c \in Clients : Told(c)' <=> Told(c)
    BY <1>1 DEF Told
  <2>2. pc'[JSThread] = "notify" => cur \in Msg /\ pc[JSThread] = "notify"
    BY <1>1 DEF TypeInv, TypeOK, StepOK, Threads
  <2> QED
    BY <1>1, <2>1, <2>2, MsgParts DEF ToldOK, IsLatest, Threads
<1>9. ReturnedOK'
  BY <1>1 DEF ReturnedOK, Returned, Threads
<1> QED
  BY <1>6, <1>7, <1>8, <1>9

\* The Looper takes a message, which is handled or over.
LEMMA CompleteTake ==
    ASSUME TypeInv, CompleteInv, NEW m, Take(m), UNCHANGED <<call, seq, cell, ret, released>>,
           \A c \in Clients : pc'[c] = pc[c],
           cur' \in {m, NoMsg},
           pc'[JSThread] = "notify" => cur' = m /\ released /\ m.call # "post"
    PROVE  CompleteInv'
<1> USE EventQueueAssumption DEF CompleteInv
<1>1. /\ m \in Msg /\ queue \in Seq(Msg) /\ queue # << >> /\ m = Head(queue)
      /\ queue' = Tail(queue)
  BY TakeType DEF Take, TypeInv, TypeOK
<1>2. /\ Occurs(m, queue) /\ ~Occurs(m, queue')
      /\ \A x : Occurs(x, queue') => Occurs(x, queue)
      /\ \A i, j \in DOMAIN queue' : queue'[i] = queue'[j] => i = j
  BY <1>1, QueueTail DEF PostedOnce
<1>3. ~Occurs(NoMsg, queue')
  BY <1>1 DEF Occurs
<1>4. PostedOnce'
  BY <1>2, <1>3 DEF PostedOnce, Queued
<1>5. \A x \in Msg : InFlight(x)' => InFlight(x)
  BY <1>1, <1>2 DEF InFlight, Queued
<1>6. FlightOK'
  BY <1>5, MsgParts DEF FlightOK, IsLatest
<1>7. ToldOK'
  <2>1. \A c \in Clients : Told(c)' <=> Told(c)
    BY DEF Told
  <2>2. pc'[JSThread] = "notify" /\ IsLatest(cur)' => Told(cur.caller)'
    BY <1>1, <1>2, MsgParts DEF Told, FlightOK, InFlight, Queued, IsLatest
  <2> QED
    BY <2>1, <2>2 DEF ToldOK
<1>8. ReturnedOK'
  BY DEF ReturnedOK, Returned
<1> QED
  BY <1>4, <1>6, <1>7, <1>8

\* The message in hand is done with.
LEMMA CompleteDone ==
    ASSUME TypeInv, PostedOnce, FlightOK, queue' = queue, cur' = NoMsg
    PROVE  /\ PostedOnce'
           /\ \A m \in Msg : InFlight(m)' => InFlight(m) /\ m # cur
<1>1. ~Occurs(NoMsg, queue)
  BY EventQueueAssumption DEF Occurs, TypeInv, TypeOK
<1> QED
  BY <1>1, EventQueueAssumption DEF PostedOnce, InFlight, Queued

\* The runtime is released; the owner is done with its message.
LEMMA CompleteClose ==
    ASSUME TypeInv, CompleteInv, NEW t \in Threads, CloseFinish(t)
    PROVE  CompleteInv'
<1> USE EventQueueAssumption DEF CompleteInv
<1>1. /\ t = JSThread /\ UNCHANGED <<call, seq, cell, ret, queue>> /\ released' = TRUE
      /\ cur' = NoMsg /\ pc'[JSThread] = "idle"
      /\ \A c \in Clients : pc'[c] = pc[c]
  BY DEF CloseFinish, TypeInv, TypeOK, StepOK, Threads
<1>2. PostedOnce' /\ \A m \in Msg : InFlight(m)' => InFlight(m)
  BY <1>1, CompleteDone
<1>3. FlightOK'
  BY <1>1, <1>2, MsgParts DEF FlightOK, IsLatest
<1>4. ToldOK' /\ ReturnedOK'
  BY <1>1 DEF ToldOK, Told, ReturnedOK, Returned
<1> QED
  BY <1>2, <1>3, <1>4

\* The event ends: its outcome is in the cells, or ends the owner's thread.
LEMMA CompleteEvent ==
    ASSUME TypeInv, CompleteInv, (\E o \in Outcomes : EventReturns(o)) \/ EventThrowsError
    PROVE  CompleteInv'
<1> USE EventQueueAssumption DEF CompleteInv, engineVars
<1>1. CASE EventThrowsError
  <2>1. /\ UNCHANGED <<call, seq, cell, ret, queue, cur, released>> /\ pc'[JSThread] = "dead"
        /\ \A c \in Clients : pc'[c] = pc[c]
    BY <1>1 DEF EventThrowsError, TypeInv, TypeOK, Threads
  <2>2. PostedOnce' /\ \A m \in Msg : InFlight(m)' => InFlight(m)
    BY <2>1 DEF PostedOnce, InFlight, Queued
  <2>3. FlightOK'
    BY <2>1, <2>2, MsgParts DEF FlightOK, IsLatest
  <2>4. ToldOK' /\ ReturnedOK'
    BY <2>1 DEF ToldOK, Told, ReturnedOK, Returned
  <2> QED
    BY <2>2, <2>3, <2>4
<1>2. ASSUME NEW o \in Outcomes, EventReturns(o)
      PROVE  CompleteInv'
  <2>1. /\ UNCHANGED <<call, seq, ret, queue, released>>
        /\ \A c \in Clients : pc'[c] = pc[c]
        /\ cur \in Msg /\ cur.caller \in Clients /\ o # "null"
        /\ pc'[JSThread] = "notify" => cur' = cur
        /\ cur' \in {cur, NoMsg}
    BY <1>2, MsgParts DEF EventReturns, TypeInv, TypeOK, Threads, OutcomeKinds
  <2>2. \A c \in Clients :
           /\ cell'[c].done = cell[c].done /\ cell'[c].early = cell[c].early
           /\ cell'[c].out \in {cell[c].out, o}
    BY <1>2, <2>1 DEF EventReturns, TypeInv, TypeOK, Threads, Cells
  <2>3. IsLatest(cur) => cell'[cur.caller].out = o
    BY <1>2, <2>1 DEF EventReturns, TypeInv, TypeOK, Threads, Cells
  <2>4. PostedOnce' /\ \A m \in Msg : InFlight(m)' => InFlight(m)
    <3>1. CASE cur' = cur
      BY <2>1, <3>1 DEF PostedOnce, InFlight, Queued
    <3>2. CASE cur' = NoMsg
      BY <2>1, <3>2, CompleteDone
    <3> QED
      BY <2>1, <3>1, <3>2
  <2>5. FlightOK'
    BY <2>1, <2>2, <2>4, MsgParts DEF FlightOK, IsLatest
  <2>6. \A c \in Clients : Told(c) => Told(c)'
    BY <2>1, <2>2 DEF Told
  <2>7. ToldOK'
    BY <2>1, <2>2, <2>3, <2>6 DEF ToldOK, Told, IsLatest
  <2>8. ReturnedOK'
    BY <2>1, <2>2 DEF ReturnedOK, Returned
  <2> QED
    BY <2>4, <2>5, <2>7, <2>8
<1> QED
  BY <1>1, <1>2

\* The owner tells the caller, which finds what happened in the cells.
LEMMA CompleteNotify ==
    ASSUME TypeInv, CompleteInv, Notify
    PROVE  CompleteInv'
<1> USE EventQueueAssumption DEF CompleteInv, engineVars
<1>1. /\ UNCHANGED <<call, seq, ret, queue, released>> /\ cur \in Msg /\ cur' = NoMsg
      /\ cur.caller \in Clients /\ pc[JSThread] = "notify" /\ pc'[JSThread] = "idle"
      /\ cell \in [Threads -> Cells]
  BY MsgParts DEF Notify, TypeInv, TypeOK, StepOK, Threads
<1>2. \A c \in Clients :
         /\ pc'[c] = pc[c] \/ (pc[c] = "waiting" /\ pc'[c] = "submitted")
         /\ cell'[c].early = cell[c].early /\ cell'[c].out = cell[c].out
         /\ ~(c = cur.caller /\ IsLatest(cur)) => cell'[c].done = cell[c].done
  BY <1>1 DEF Notify, TypeInv, TypeOK, Threads, Cells
<1>3. PostedOnce' /\ \A m \in Msg : InFlight(m)' => InFlight(m) /\ m # cur
  BY <1>1, CompleteDone
<1>4. ASSUME IsLatest(cur)
      PROVE  /\ \A m \in Msg : InFlight(m)' /\ m.caller = cur.caller => m.id # seq[cur.caller]
             /\ Told(cur.caller) /\ pc[cur.caller] # "checked"
  <2>1. ASSUME NEW m \in Msg, InFlight(m)', m.caller = cur.caller, m.id = seq[cur.caller]
        PROVE  m = cur
    <3>1. m.call = call[m.caller] /\ cur.call = call[cur.caller]
      BY <1>1, <1>3, <1>4, <2>1 DEF FlightOK, IsLatest, InFlight
    <3> QED
      BY <1>1, <1>4, <2>1, <3>1 DEF Msg, IsLatest
  <2>2. \A m \in Msg : InFlight(m)' /\ m.caller = cur.caller => m.id # seq[cur.caller]
    BY <1>3, <2>1
  <2> QED
    BY <1>1, <1>4, <2>2 DEF ToldOK, FlightOK, InFlight
<1>5. FlightOK'
  <2> SUFFICES ASSUME NEW m \in Msg, InFlight(m)'
               PROVE  /\ m.id <= seq[m.caller]
                      /\ m.id = seq[m.caller] =>
                           /\ m.call = call[m.caller]
                           /\ pc'[m.caller] # "checked"
                           /\ ~cell'[m.caller].done
                           /\ Blocks(m.call) => \/ pc'[m.caller] \in {"submitted", "waiting"}
                                                \/ cell'[m.caller].early
    BY <1>1 DEF FlightOK, IsLatest
  <2>1. InFlight(m) /\ m.caller \in Clients
    BY <1>3, MsgParts
  <2>2. ~(m.caller = cur.caller /\ IsLatest(cur) /\ m.id = seq[m.caller])
    BY <1>4
  <2> QED
    BY <1>2, <2>1, <2>2 DEF FlightOK, IsLatest
<1>6. ToldOK'
  <2>1. \A c \in Clients : Told(c)' <=> Told(c)
    BY <1>1, <1>2 DEF Told
  <2> QED
    BY <1>1, <1>2, <1>4, <2>1 DEF ToldOK
<1>7. ReturnedOK'
  BY <1>1, <1>2 DEF ReturnedOK, Returned
<1> QED
  BY <1>3, <1>5, <1>6, <1>7

LEMMA CompleteStep ==
    ASSUME TypeInv, CompleteInv, [Next]_vars
    PROVE  CompleteInv'
<1> USE EventQueueAssumption DEF engineVars
<1>1. ASSUME NEW t \in Threads, NEW k \in Calls, PassGate(t, k) \/ GateRefuses(t, k)
      PROVE  CompleteInv'
  BY <1>1, CompleteBegin
<1>2. ASSUME NEW t \in Threads, CreateContext(t)
      PROVE  CompleteInv'
  <2>1. "createContext" \in Calls
    BY <1>2 DEF CreateContext, Begin
  <2> QED
    BY <1>2, <2>1, CompleteBegin
<1>3. CASE DispatchRun
  <2>1. PICK m : /\ Take(m) /\ cur' = m /\ pc' = [pc EXCEPT ![JSThread] = "native"]
                 /\ UNCHANGED <<call, seq, cell, ret, released>>
    BY <1>3 DEF DispatchRun
  <2>2. pc'[JSThread] = "native" /\ \A c \in Clients : pc'[c] = pc[c]
    BY <2>1 DEF TypeInv, TypeOK, Threads
  <2> QED
    BY <2>1, <2>2, CompleteTake
<1>5. CASE DispatchSkip
  <2>1. PICK m : /\ Take(m) /\ Rechecks(m.call) /\ released
                 /\ pc' = [pc EXCEPT ![JSThread] = IF Blocks(m.call) THEN "notify" ELSE "idle"]
                 /\ cur' = IF Blocks(m.call) THEN m ELSE NoMsg
                 /\ UNCHANGED <<call, seq, cell, ret, released>>
    BY <1>5 DEF DispatchSkip
  <2>2. \A c \in Clients : pc'[c] = pc[c]
    BY <2>1 DEF TypeInv, TypeOK, Threads
  <2>3. pc'[JSThread] = "notify" => cur' = m /\ released /\ m.call # "post"
    BY <2>1 DEF TypeInv, TypeOK, Threads, Rechecks
  <2> QED
    BY <2>1, <2>2, <2>3, CompleteTake
<1>6. CASE UNCHANGED vars
  BY <1>6 DEF vars, CompleteInv, PostedOnce, FlightOK, InFlight, Queued, IsLatest, ToldOK, Told,
              ReturnedOK, Returned
<1> QED
  BY <1>1, <1>2, <1>3, <1>5, <1>6, CompleteProgress, CompleteSubmit, CompleteClose,
     CompleteEvent, CompleteNotify DEF Next, Caller, Progress, Looper, Quiescent

\* A blocking call that nothing wakes early returns when its event is over, and
\* tells what became of it, although older messages of the same caller, whose
\* wait was interrupted, are still in the Handler.
THEOREM BlockingCallsComplete == Spec => []BlockingCallComplete
<1>1. Init => CompleteInv
  <2> SUFFICES ASSUME Init
               PROVE  CompleteInv
    OBVIOUS
  <2>1. PostedOnce /\ FlightOK
    BY EventQueueAssumption DEF Init, PostedOnce, FlightOK, InFlight, Queued, Occurs
  <2>2. ToldOK /\ ReturnedOK
    BY DEF Init, ToldOK, ReturnedOK, Returned, EmptyCell, Threads
  <2> QED
    BY <2>1, <2>2 DEF CompleteInv
<1>2. TypeInv /\ CompleteInv /\ [Next]_vars => CompleteInv'
  BY CompleteStep
<1>3. TypeInv /\ CompleteInv => BlockingCallComplete
  <2> SUFFICES ASSUME TypeInv, CompleteInv, NEW c \in Clients, Returned(c)
               PROVE  /\ ~Queued(MsgOf(c)) /\ cur # MsgOf(c)
                      /\ ret[c] = "null" => released /\ call[c] # "post"
    BY DEF BlockingCallComplete, Returned
  <2>1. MsgOf(c) \in Msg /\ MsgOf(c).caller = c /\ IsLatest(MsgOf(c)) /\ MsgOf(c).call = call[c]
    BY EventQueueAssumption DEF TypeInv, TypeOK, MsgOf, Msg, Threads, IsLatest, Returned
  <2>2. ~InFlight(MsgOf(c))
    BY <2>1 DEF CompleteInv, FlightOK, Returned
  <2> QED
    BY <2>2 DEF InFlight, CompleteInv, ReturnedOK
<1> QED
  BY TypeInit, TypeStep, <1>1, <1>2, <1>3, PTL DEF Spec

-----------------------------------------------------------------------------
(***************************************************************************)
(* One thread in the engine.  No client gets in: only createContext would  *)
(* let it.                                                                 *)
(***************************************************************************)

ClientsOut == \A c \in Clients : pc[c] \notin {"native", "freeing"}

LEMMA ClientsOutStep ==
    ASSUME "createContext" \notin Calls, TypeInv, ClientsOut, [Next]_vars
    PROVE  ClientsOut'
<1> USE EventQueueAssumption DEF ClientsOut, TypeInv, TypeOK, Threads
<1>1. ASSUME NEW t \in Threads, NEW k \in Calls, PassGate(t, k) \/ GateRefuses(t, k)
      PROVE  ClientsOut'
  BY <1>1 DEF PassGate, GateRefuses
<1>2. ASSUME NEW t \in Threads
      PROVE  ~CreateContext(t)
  BY DEF CreateContext, Begin
<1>3. ASSUME NEW t \in Threads, RunInline(t) \/ ReleaseRuntime(t)
      PROVE  ClientsOut'
  BY <1>3 DEF RunInline, ReleaseRuntime, RunsInline, CheckThread
<1>4. ASSUME NEW t \in Threads,
             WakeEarly(t) \/ ThreadError(t) \/ Submit(t) \/ AwaitResult(t)
               \/ Return(t) \/ CloseFinish(t)
      PROVE  ClientsOut'
  BY <1>4 DEF WakeEarly, ThreadError, Submit, AwaitResult, Return, CloseFinish
<1>5. ASSUME NEW t \in Threads, NEW o \in Outcomes, InlineReturns(t, o)
      PROVE  ClientsOut'
  BY <1>5 DEF InlineReturns
<1>6. CASE Looper
  <2>1. \A c \in Clients : pc'[c] = pc[c] \/ pc'[c] = "submitted"
    BY <1>6 DEF Looper, DispatchRun, DispatchSkip, EventReturns,
                EventThrowsError, Notify
  <2> QED
    BY <2>1
<1>7. CASE UNCHANGED vars
  BY <1>7 DEF vars
<1> QED
  BY <1>1, <1>2, <1>3, <1>4, <1>5, <1>6, <1>7 DEF Next, Caller, Progress, Quiescent

\* However the clients call, only the thread that owns the runtime is ever
\* inside the engine, as long as no client calls createContext: post and
\* postVoid hand over to that thread, or throw.
THEOREM OneThreadInEngine ==
    ASSUME "createContext" \notin Calls
    PROVE  Spec => []SingleNativeThread
<1>1. Init => ClientsOut
  BY DEF Init, ClientsOut, Threads
<1>2. TypeInv /\ ClientsOut /\ [Next]_vars => ClientsOut'
  BY ClientsOutStep
<1>3. ClientsOut => SingleNativeThread
  BY DEF ClientsOut, SingleNativeThread, InEngine, Threads
<1> QED
  BY TypeInit, TypeStep, <1>1, <1>2, <1>3, PTL DEF Spec

-----------------------------------------------------------------------------
(***************************************************************************)
(* Nothing runs on a freed runtime, when every call is guarded: the ones   *)
(* whose Runnable tests isReleased() again before it runs its event.       *)
(***************************************************************************)

Guarded == "post" \notin Calls /\ "createContext" \notin Calls

\* Only calls that are made are queued, and an idle owner has no message.  The
\* owner never waits for itself.
CallsOK ==
    /\ \A c \in Clients : pc[c] = "checked" => call[c] \in Calls
    /\ \A i \in DOMAIN queue : queue[i].call \in Calls
    /\ pc[JSThread] \in {"idle", "checked"} => cur = NoMsg
    /\ pc[JSThread] \notin {"submitted", "waiting"}

\* The runtime is freed before released is set: in between, and only then,
\* the owner is inside close.  An owner that passed the gate, or is in the
\* engine, has a runtime that is not released.
AliveOK ==
    /\ freed <=> released \/ pc[JSThread] = "freeing"
    /\ pc[JSThread] \in {"checked", "native", "freeing"} => ~released
    /\ pc[JSThread] = "native" => ~freed
    /\ pc[JSThread] = "freeing" => TaskOf(JSThread).call = "close"

ExecInv == TypeInv /\ ClientsOut /\ CallsOK /\ AliveOK

LEMMA ExecInit == Init => ExecInv
<1>1. Init => ClientsOut /\ CallsOK /\ AliveOK
  BY DEF Init, ClientsOut, CallsOK, AliveOK, Threads
<1> QED
  BY <1>1, TypeInit DEF ExecInv

LEMMA CallsStep ==
    ASSUME Guarded, ExecInv, [Next]_vars
    PROVE  CallsOK'
<1> USE EventQueueAssumption DEF ExecInv, CallsOK, TypeInv, TypeOK, Threads, engineVars
<1>1. ASSUME NEW t \in Threads, NEW k \in Calls, PassGate(t, k) \/ GateRefuses(t, k)
      PROVE  CallsOK'
  BY <1>1 DEF PassGate, GateRefuses, Begin
<1>2. ASSUME NEW t \in Threads
      PROVE  ~CreateContext(t)
  BY DEF CreateContext, Begin, Guarded
<1>3. ASSUME NEW t \in Threads,
             RunInline(t) \/ ReleaseRuntime(t) \/ WakeEarly(t) \/ ThreadError(t)
               \/ AwaitResult(t) \/ Return(t) \/ CloseFinish(t)
      PROVE  CallsOK'
  BY <1>3 DEF RunInline, ReleaseRuntime, WakeEarly, ThreadError, AwaitResult, Return,
              CloseFinish, CheckThread
<1>4. ASSUME NEW t \in Threads, Submit(t)
      PROVE  CallsOK'
  <2>1. t \in Clients /\ call[t] \in Calls
    BY <1>4 DEF Submit
  <2>2. \A i \in DOMAIN queue' : queue'[i].call \in Calls
    BY <1>4, <2>1 DEF Submit, MsgOf
  <2> QED
    BY <1>4, <2>2 DEF Submit
<1>5. ASSUME NEW t \in Threads, NEW o \in Outcomes, InlineReturns(t, o)
      PROVE  CallsOK'
  BY <1>5 DEF InlineReturns
<1>6. ASSUME NEW m, Take(m)
      PROVE  \A i \in DOMAIN queue' : queue'[i].call \in Calls
  BY <1>6 DEF Take
<1>7. CASE DispatchRun \/ DispatchSkip
  <2>1. /\ \A i \in DOMAIN queue' : queue'[i].call \in Calls
        /\ \A c \in Clients : pc'[c] = pc[c] /\ call'[c] = call[c]
        /\ pc'[JSThread] \in {"idle", "checked"} => cur' = NoMsg
        /\ pc'[JSThread] \notin {"submitted", "waiting"}
    BY <1>6, <1>7 DEF DispatchRun, DispatchSkip
  <2> QED
    BY <2>1
<1>8. CASE (\E o \in Outcomes : EventReturns(o)) \/ EventThrowsError \/ Notify
  BY <1>8 DEF EventReturns, EventThrowsError, Notify
<1>9. CASE UNCHANGED vars
  BY <1>9 DEF vars
<1> QED
  BY <1>1, <1>2, <1>3, <1>4, <1>5, <1>7, <1>8, <1>9
     DEF Next, Caller, Progress, Looper, Quiescent

LEMMA AliveStep ==
    ASSUME Guarded, ExecInv, [Next]_vars
    PROVE  AliveOK'
<1> USE EventQueueAssumption
    DEF ExecInv, ClientsOut, CallsOK, AliveOK, TypeInv, TypeOK, Threads, engineVars
<1>1. ASSUME NEW t \in Threads, NEW k \in Calls, PassGate(t, k) \/ GateRefuses(t, k)
      PROVE  AliveOK'
  BY <1>1 DEF PassGate, GateRefuses, Begin, TaskOf, MsgOf
<1>2. ASSUME NEW t \in Threads
      PROVE  ~CreateContext(t)
  BY DEF CreateContext, Begin, Guarded
<1>3. ASSUME NEW t \in Threads, RunInline(t)
      PROVE  AliveOK'
  BY <1>3 DEF RunInline, RunsInline, CheckThread, TaskOf, MsgOf
<1>4. ASSUME NEW t \in Threads,
             WakeEarly(t) \/ ThreadError(t) \/ Submit(t) \/ AwaitResult(t) \/ Return(t)
      PROVE  AliveOK'
  BY <1>4 DEF WakeEarly, ThreadError, Submit, AwaitResult, Return, TaskOf, MsgOf
<1>5. ASSUME NEW t \in Threads, NEW o \in Outcomes, InlineReturns(t, o)
      PROVE  AliveOK'
  BY <1>5 DEF InlineReturns, TaskOf, MsgOf
<1>6. ASSUME NEW t \in Threads, CloseFinish(t)
      PROVE  AliveOK'
  BY <1>6 DEF CloseFinish, TaskOf, MsgOf
<1>7. CASE DispatchRun
  <2>1. PICK m : /\ Take(m)
                 /\ Rechecks(m.call) => ~released
                 /\ pc' = [pc EXCEPT ![JSThread] = "native"]
                 /\ cur' = m
                 /\ UNCHANGED engineVars
    BY <1>7 DEF DispatchRun
  <2>2. m \in Msg /\ m.call \in Calls /\ pc[JSThread] = "idle"
    BY <2>1, TakeType DEF Take
  <2>3. ~released
    BY <2>1, <2>2 DEF Rechecks, Guarded
  <2> QED
    BY <2>1, <2>2, <2>3 DEF TaskOf
<1>8. ASSUME NEW t \in Threads, ReleaseRuntime(t)
      PROVE  AliveOK'
  <2>1. t = JSThread
    BY <1>8 DEF ReleaseRuntime
  <2> QED
    BY <1>8, <2>1 DEF ReleaseRuntime, TaskOf, MsgOf
<1>9. CASE DispatchSkip
  <2>1. /\ pc'[JSThread] \in {"notify", "idle"}
        /\ pc[JSThread] = "idle"
        /\ UNCHANGED engineVars
    BY <1>9 DEF DispatchSkip, Take
  <2> QED
    BY <2>1
<1>10. CASE (\E o \in Outcomes : EventReturns(o)) \/ EventThrowsError \/ Notify
  <2>1. /\ pc'[JSThread] \in {"notify", "idle", "dead"}
        /\ pc[JSThread] # "freeing"
        /\ UNCHANGED <<released, freed>>
    BY <1>10 DEF EventReturns, EventThrowsError, Notify
  <2> QED
    BY <2>1
<1>11. CASE UNCHANGED vars
  BY <1>11 DEF vars, TaskOf, MsgOf
<1> QED
  BY <1>1, <1>2, <1>3, <1>4, <1>5, <1>6, <1>7, <1>8, <1>9, <1>10, <1>11
     DEF Next, Caller, Progress, Looper, Quiescent

LEMMA ExecStep ==
    ASSUME Guarded, ExecInv, [Next]_vars
    PROVE  ExecInv'
BY TypeStep, ClientsOutStep, CallsStep, AliveStep DEF ExecInv, Guarded

\* An application that uses only guarded calls never runs an event on a
\* runtime that JS_FreeRuntime has freed, whatever it had posted by then.
THEOREM NoUseAfterFree ==
    ASSUME Guarded
    PROVE  Spec => []RuntimeAliveInNative
<1>1. ExecInv /\ [Next]_vars => ExecInv'
  BY ExecStep
<1>2. ExecInv => RuntimeAliveInNative
  BY DEF ExecInv, ClientsOut, AliveOK, RuntimeAliveInNative, Threads
<1> QED
  BY ExecInit, <1>1, <1>2, PTL DEF Spec

-----------------------------------------------------------------------------
(***************************************************************************)
(* The event queue implements SerialExecutor.                              *)
(***************************************************************************)

Active == {TaskOf(t) : t \in InEngine}

LEMMA ActiveIs ==
    ASSUME ClientsOut
    PROVE  Active = IF pc[JSThread] \in {"native", "freeing"}
                      THEN {TaskOf(JSThread)} ELSE {}
BY DEF ClientsOut, Active, InEngine, Threads

LEMMA OwnerTask ==
    ASSUME ExecInv, pc[JSThread] # "idle"
    PROVE  TaskOf(JSThread) \in [caller : Threads, id : 1 .. MaxCalls, call : CallKinds]
BY EventQueueAssumption
   DEF ExecInv, TypeInv, TypeOK, StepOK, TaskOf, MsgOf, Msg, Threads

LEMMA RefinementStep ==
    ASSUME Guarded, ExecInv, ExecInv', [Next]_vars
    PROVE  [Executor!Next]_(Executor!vars)
<1> USE EventQueueAssumption DEF engineVars
<1> DEFINE Task == [caller : Threads, id : 1 .. MaxCalls, call : CallKinds]
           Stutter == UNCHANGED <<queue, Active, released>>
           Finished == /\ Active = {TaskOf(JSThread)}
                       /\ Active' = {}
                       /\ UNCHANGED <<queue, released>>
           Closed == /\ Active = {TaskOf(JSThread)}
                     /\ TaskOf(JSThread) \in CloseCalls
                     /\ Active' = {}
                     /\ released' = TRUE
                     /\ UNCHANGED queue
<1>a. /\ Active = IF pc[JSThread] \in {"native", "freeing"} THEN {TaskOf(JSThread)} ELSE {}
      /\ Active' = IF pc'[JSThread] \in {"native", "freeing"} THEN {TaskOf(JSThread)'} ELSE {}
  <2>1. (Active = IF pc[JSThread] \in {"native", "freeing"} THEN {TaskOf(JSThread)} ELSE {})'
    BY ActiveIs, PTL DEF ExecInv
  <2> QED
    BY <2>1, ActiveIs DEF ExecInv
<1>b. /\ pc \in [Threads -> Steps]
      /\ seq \in [Threads -> 0 .. MaxCalls]
      /\ call \in [Threads -> CallKinds]
      /\ JSThread \in Threads
      /\ released \in BOOLEAN
  BY DEF ExecInv, TypeInv, TypeOK, Threads
<1>1. ASSUME NEW t \in Threads, NEW k \in Calls, PassGate(t, k) \/ GateRefuses(t, k)
      PROVE  Stutter
  BY <1>1, <1>a, <1>b DEF PassGate, GateRefuses, Begin, TaskOf, MsgOf
<1>2. ASSUME NEW t \in Threads
      PROVE  ~CreateContext(t)
  BY DEF CreateContext, Begin, Guarded
<1>3. ASSUME NEW t \in Threads,
             WakeEarly(t) \/ ThreadError(t) \/ AwaitResult(t) \/ Return(t)
      PROVE  Stutter
  BY <1>3, <1>a, <1>b DEF WakeEarly, ThreadError, AwaitResult, Return, TaskOf, MsgOf
<1>4. ASSUME NEW t \in Threads, Submit(t)
      PROVE  /\ MsgOf(t) \in Task
             /\ queue' = Append(queue, MsgOf(t))
             /\ UNCHANGED <<Active, released>>
  <2>1. t \in Clients /\ MsgOf(t) \in Task
    BY <1>4, MsgOfType DEF Submit, Msg, Threads, ExecInv
  <2> QED
    BY <1>4, <1>a, <1>b, <2>1 DEF Submit, TaskOf, MsgOf
<1>5. ASSUME NEW t \in Threads, RunInline(t)
      PROVE  /\ TaskOf(JSThread) \in Task
             /\ Active = {} /\ ~released
             /\ Active' = {TaskOf(JSThread)}
             /\ UNCHANGED <<queue, released>>
  <2>1. t = JSThread /\ pc[JSThread] = "checked"
    BY <1>5 DEF RunInline, RunsInline, CheckThread
  <2>2. TaskOf(JSThread) \in Task /\ ~released
    BY <2>1, OwnerTask DEF ExecInv, AliveOK
  <2> QED
    BY <1>5, <1>a, <1>b, <2>1, <2>2 DEF RunInline, TaskOf, MsgOf
<1>6. ASSUME NEW t \in Threads, NEW o \in Outcomes, InlineReturns(t, o)
      PROVE  Finished
  <2>1. t = JSThread /\ pc[JSThread] = "native"
    BY <1>6 DEF InlineReturns, ExecInv, ClientsOut, Threads
  <2> QED
    BY <1>6, <1>a, <1>b, <2>1 DEF InlineReturns
<1>19. ASSUME NEW t \in Threads, ReleaseRuntime(t)
       PROVE  Stutter
  <2>1. t = JSThread /\ pc[JSThread] = "native" /\ pc'[JSThread] = "freeing"
    BY <1>19, <1>b DEF ReleaseRuntime, ExecInv, ClientsOut, Threads
  <2> QED
    BY <1>19, <1>a, <2>1 DEF ReleaseRuntime, TaskOf, MsgOf
<1>7. ASSUME NEW t \in Threads, CloseFinish(t)
      PROVE  Closed
  <2>1. t = JSThread /\ pc[JSThread] = "freeing" /\ TaskOf(JSThread).call = "close"
    BY <1>7 DEF CloseFinish, ExecInv, ClientsOut, AliveOK, Threads
  <2>2. TaskOf(JSThread) \in CloseCalls
    BY <2>1, OwnerTask DEF CloseCalls
  <2> QED
    BY <1>7, <1>a, <1>b, <2>1, <2>2 DEF CloseFinish
<1>8. ASSUME DispatchRun
      PROVE  /\ Active = {} /\ ~released /\ queue # << >>
             /\ Active' = {Head(queue)} /\ queue' = Tail(queue)
             /\ UNCHANGED released
  <2>1. PICK m : /\ Take(m)
                 /\ pc' = [pc EXCEPT ![JSThread] = "native"]
                 /\ cur' = m
                 /\ UNCHANGED released
    BY <1>8 DEF DispatchRun
  <2>2. m \in Msg /\ m = Head(queue) /\ pc[JSThread] = "idle" /\ m # NoMsg
    BY <2>1, TakeType DEF Take, ExecInv
  <2>3. pc'[JSThread] \in {"native", "freeing"} /\ ~released
    BY <1>b, <2>1 DEF ExecInv, AliveOK
  <2>4. TaskOf(JSThread)' = m
    BY <2>1, <2>2 DEF TaskOf
  <2> QED
    BY <1>a, <2>1, <2>2, <2>3, <2>4 DEF Take
<1>9. ASSUME DispatchSkip
      PROVE  /\ Active = {} /\ released /\ queue # << >>
             /\ queue' = Tail(queue)
             /\ UNCHANGED <<Active, released>>
  <2>1. /\ released /\ released' = released
        /\ queue # << >> /\ queue' = Tail(queue)
        /\ pc[JSThread] = "idle" /\ pc'[JSThread] \in {"notify", "idle"}
    BY <1>9, <1>b DEF DispatchSkip, Take
  <2> QED
    BY <1>a, <2>1
<1>10. ASSUME (\E o \in Outcomes : EventReturns(o)) \/ EventThrowsError
       PROVE  Finished
  <2>1. /\ pc[JSThread] = "native" /\ pc'[JSThread] \in {"notify", "idle", "dead"}
        /\ UNCHANGED <<queue, released>>
    BY <1>10, <1>b DEF EventReturns, EventThrowsError
  <2> QED
    BY <1>a, <2>1
<1>11. ASSUME Notify
       PROVE  Stutter
  BY <1>11, <1>a, <1>b DEF Notify
<1>12. ASSUME UNCHANGED vars
       PROVE  Stutter
  BY <1>12 DEF vars, Active, InEngine, TaskOf, MsgOf
<1>13. Stutter => UNCHANGED Executor!vars
  BY DEF Executor!vars, Active
<1>14. Finished /\ pc[JSThread] # "idle" => Executor!Next
  <2>1. pc[JSThread] # "idle" => TaskOf(JSThread) \in Task
    BY OwnerTask
  <2>2. Finished => Executor!Finish(TaskOf(JSThread))
    BY DEF Executor!Finish, Active
  <2> QED
    BY <2>1, <2>2 DEF Executor!Next
<1>15. Finished => Executor!Next
  BY <1>14, <1>a
<1>20. Closed => Executor!Next
  <2>1. Closed => pc[JSThread] # "idle"
    BY <1>a
  <2>2. pc[JSThread] # "idle" => TaskOf(JSThread) \in Task
    BY OwnerTask
  <2>3. Closed => Executor!Close(TaskOf(JSThread))
    BY DEF Executor!Close, Active
  <2> QED
    BY <2>1, <2>2, <2>3 DEF Executor!Next
<1>16. ASSUME NEW t \in Threads, Submit(t)
       PROVE  Executor!Next
  BY <1>4, <1>16 DEF Executor!Next, Executor!Accept, Active
<1>17. ASSUME NEW t \in Threads, RunInline(t)
       PROVE  Executor!Next
  BY <1>5, <1>17 DEF Executor!Next, Executor!StartDirect, Active
<1>18. ASSUME DispatchRun \/ DispatchSkip
       PROVE  Executor!Next
  BY <1>8, <1>9, <1>18 DEF Executor!Next, Executor!Start, Executor!Discard, Active
<1> HIDE DEF Stutter, Finished, Closed
<1> QED
  BY <1>1, <1>2, <1>3, <1>6, <1>7, <1>10, <1>11, <1>12, <1>13, <1>15, <1>16,
     <1>17, <1>18, <1>19, <1>20 DEF Next, Caller, Progress, Looper, Quiescent

\* The event queue runs guarded calls as a serial executor would: one at a
\* time, in the order Handler.post accepted them, every one of them until a
\* close has released the runtime, also after closes that threw, and none
\* afterwards.
THEOREM EventQueueIsSerialExecutor ==
    ASSUME Guarded
    PROVE  Spec => ExecutesSerially
<1>1. Init => Executor!Init
  BY DEF Init, Executor!Init, InEngine
<1>2. ExecInv /\ [Next]_vars => ExecInv'
  BY ExecStep
<1>3. ExecInv /\ ExecInv' /\ [Next]_vars => [Executor!Next]_(Executor!vars)
  BY RefinementStep
<1> QED
  BY ExecInit, <1>1, <1>2, <1>3, PTL DEF Spec, ExecutesSerially, Executor!Spec
=============================================================================
