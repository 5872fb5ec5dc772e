----------------------- MODULE PendingExceptionProofs -----------------------
(***************************************************************************)
(* A checked call throws the Error of its own script unless a call of      *)
(* another thread comes between the script and the check, and never one    *)
(* that another call throws: for any number of threads and calls and any   *)
(* depth of callbacks.                                                     *)
(***************************************************************************)
EXTENDS PendingException, SequenceTheorems, TLAPS

Frames == [thread : Clients \cup {JSThread}, call : Calls, check : BOOLEAN,
           step : {"script", "check"}]

\* The frames are different calls that were not checked yet; only the innermost
\* may be in its check, and only the outermost may belong to a client.
StackOK ==
    \A i \in 1 .. Len(stack) :
        /\ stack[i].call <= count
        /\ stack[i].call \notin checked
        /\ \A j \in 1 .. Len(stack) : stack[i].call = stack[j].call => i = j
        /\ stack[i].step = "check" => i = Len(stack)
        /\ stack[i].step = "script" => stack[i].call \notin raised
        /\ stack[i].thread # JSThread => i = 1

\* While a client has a check to make, it is in no other call, and the owner is
\* in its Looper or the check was overtaken.
WaitOK ==
    \A t \in Clients : waiting[t] # NoCall =>
        /\ stack = << >> \/ waiting[t] \in overtaken
        /\ waiting[t] <= count /\ waiting[t] \notin checked
        /\ \A i \in 1 .. Len(stack) : stack[i].call # waiting[t] /\ stack[i].thread # t
        /\ \A u \in Clients : waiting[u] = waiting[t] => u = t

CountOK == \A n \in checked \cup raised : n <= count

\* Call n has run its script and has its check to make.
Checking(n) ==
    \/ stack # << >> /\ Top.step = "check" /\ Top.call = n
    \/ \E t \in Clients : waiting[t] = n

\* The Error of a call that is to make its check is the current exception, if no
\* other call came in between.
ErrorOK ==
    \A n \in raised \ overtaken : Checking(n) =>
        current_exception = [call |-> n, error |-> TRUE]

\* Call m is over and nobody has checked it, or ever will.
Over(m) ==
    /\ m \in Calls
    /\ m <= count
    /\ m \notin checked
    /\ \A i \in 1 .. Len(stack) : stack[i].call # m
    /\ \A t \in Clients : waiting[t] # m

\* The current exception is that of a call that is to make its check, or was
\* left by a call that nobody checks.
OwnOK ==
    current_exception.error =>
        /\ current_exception.call \in Calls
        /\ Checking(current_exception.call) \/ Over(current_exception.call)

\* An error that another call threw was left by a call that nobody checks, or was
\* overtaken.
LeftOK ==
    \A n \in Calls : thrown[n] \in {NoCall, n} \cup overtaken \/ Over(thrown[n])

\* An error that was thrown is gone, and its script does not run again.
OnceOK ==
    /\ \A n \in Calls : thrown[n] # NoCall =>
          /\ thrown[n] <= count
          /\ current_exception.error => current_exception.call # thrown[n]
          /\ \A i \in 1 .. Len(stack) : stack[i].step = "script" => stack[i].call # thrown[n]
    /\ \A m, n \in Calls : thrown[m] = thrown[n] /\ thrown[m] # NoCall => m = n

\* What is over stays over.
OverStays == \A m : Over(m) => Over(m)'

Shape == TypeOK /\ StackOK /\ WaitOK /\ CountOK

-----------------------------------------------------------------------------

\* What is left of a stack whose innermost frame is popped.
LEMMA Pop ==
    ASSUME NEW S, NEW s \in Seq(S), s # << >>,
           NEW p, p = SubSeq(s, 1, Len(s) - 1)
    PROVE  /\ p \in Seq(S)
           /\ Len(p) = Len(s) - 1
           /\ \A i \in 1 .. Len(p) : p[i] = s[i]
<1>1. Len(s) \in Nat /\ Len(s) > 0 /\ \A i \in 1 .. Len(s) : s[i] \in S
  OBVIOUS
<1>2. /\ p \in Seq(S)
      /\ Len(p) = IF 1 <= Len(s) - 1 THEN (Len(s) - 1) - 1 + 1 ELSE 0
      /\ \A i \in 1 .. (Len(s) - 1) - 1 + 1 : p[i] = s[1 + i - 1]
  BY <1>1, SubSeqProperties, 1 \in Int, Len(s) - 1 \in Int
<1>3. Len(p) = Len(s) - 1
  <2>1. CASE Len(s) = 1
    BY <2>1, <1>2
  <2>2. CASE Len(s) # 1
    <3>1. \A n \in Nat : n > 0 /\ n # 1 => 1 <= n - 1 /\ (n - 1) - 1 + 1 = n - 1
      OBVIOUS
    <3>2. 1 <= Len(s) - 1 /\ (Len(s) - 1) - 1 + 1 = Len(s) - 1
      BY <3>1, <2>2, <1>1
    <3> QED BY <3>2, <1>2
  <2> QED BY <2>1, <2>2
<1>4. ASSUME NEW i \in 1 .. Len(p)
      PROVE  p[i] = s[i]
  <2>1. i \in 1 .. (Len(s) - 1) - 1 + 1 /\ 1 + i - 1 = i
    BY <1>1, <1>3
  <2> QED BY <2>1, <1>2
<1> QED BY <1>2, <1>3, <1>4

\* What a script leaves is an exception record.
LEMMA LeavesType ==
    ASSUME TypeOK, NEW n \in Calls, NEW outcome \in Outcomes
    PROVE  Leaves(n, outcome) \in [call : Calls \cup {NoCall}, error : BOOLEAN]
BY DEF TypeOK, Leaves, Outcomes, None

\* Every state is one of the initial shape.
LEMMA InitShape == ASSUME Init PROVE Shape /\ ErrorOK /\ OwnOK
<1> USE PendingExceptionAssumption DEF Init
<1>1. TypeOK
  BY DEF TypeOK, None, Calls, NoCall
<1>2. StackOK /\ WaitOK /\ CountOK /\ ErrorOK /\ OwnOK
  BY DEF StackOK, WaitOK, CountOK, ErrorOK, OwnOK, None
<1> QED BY <1>1, <1>2 DEF Shape

\* The stack is a sequence of frames.
LEMMA StackType ==
    ASSUME TypeOK
    PROVE  /\ stack \in Seq(Frames) /\ Len(stack) \in Nat
           /\ \A i \in 1 .. Len(stack) : stack[i] \in Frames
           /\ stack # << >> => Len(stack) > 0 /\ Top \in Frames
<1>1. stack \in Seq(Frames)
  BY DEF TypeOK, Frames
<1> QED BY <1>1 DEF Top

LEMMA WaitingType ==
    ASSUME TypeOK, NEW t
    PROVE  Waiting(t) \subseteq Calls
BY DEF TypeOK, Waiting

\* A call begins.
LEMMA BeginStep ==
    ASSUME Shape, ErrorOK,
           NEW t \in Clients \cup {JSThread}, NEW check \in BOOLEAN,
           Begin(t, check)
    PROVE  Shape' /\ ErrorOK' /\ OverStays /\ (OwnOK => OwnOK')
<1> DEFINE f == Frame(t, count + 1, check)
<1>1. /\ f \in Frames /\ f.call = count + 1 /\ f.step = "script" /\ f.thread = t
  BY PendingExceptionAssumption DEF Begin, Shape, TypeOK, Frame, Frames, Calls
<1>2. /\ stack \in Seq(Frames) /\ Len(stack) \in Nat
      /\ \A i \in 1 .. Len(stack) : stack[i] \in Frames
  BY StackType DEF Shape
<1>3. /\ stack' \in Seq(Frames)
      /\ stack' # << >>
      /\ Len(stack') = Len(stack) + 1
      /\ \A i \in 1 .. Len(stack) : stack'[i] = stack[i]
      /\ stack'[Len(stack) + 1] = f
  BY <1>1, <1>2, AppendProperties DEF Begin
<1>4. TypeOK'
  <2>1. Waiting(t) \subseteq Calls
    BY WaitingType DEF Shape
  <2> QED BY <1>3, <2>1, PendingExceptionAssumption DEF Begin, Shape, TypeOK, Frames
<1>5. \A u \in Clients : waiting[u] # NoCall =>
         u # t /\ waiting[u] \in overtaken' /\ waiting[u] # f.call
  <2>1. t \in Clients => waiting[t] = NoCall
    BY DEF Begin, IsFree, InCallback, Clients
  <2>2. \A u \in Clients : waiting[u] # NoCall => waiting[u] \in Nat /\ waiting[u] <= count
    BY PendingExceptionAssumption DEF Shape, WaitOK, TypeOK, Calls
  <2>3. count \in Nat
    BY DEF Shape, TypeOK
  <2> QED BY <1>1, <2>1, <2>2, <2>3 DEF Begin, Waiting
<1>6. \A i \in 1 .. Len(stack) : stack[i].step = "script"
  <2>1. \A i \in 1 .. Len(stack) : stack[i].step \in {"script", "check"}
    BY <1>2 DEF Frames
  <2> QED BY <1>2, <2>1 DEF Begin, IsFree, InCallback, Top, Shape, StackOK
<1>7. StackOK'
  <2>1. ASSUME NEW i \in 1 .. Len(stack')
        PROVE  (i \in 1 .. Len(stack) /\ stack'[i] = stack[i])
               \/ (i = Len(stack) + 1 /\ stack'[i] = f)
    BY <1>2, <1>3
  <2>2. count + 1 \notin checked /\ count + 1 \notin raised /\ count \in Nat
    BY DEF Shape, CountOK, TypeOK
  <2>3. \A i \in 1 .. Len(stack) : stack[i].call \in Nat /\ stack[i].call <= count
    BY <1>2, PendingExceptionAssumption DEF Shape, StackOK, Frames, Calls
  <2>4. t # JSThread => Len(stack) = 0
    BY DEF Begin, IsFree, InCallback
  <2>5. count' = count + 1 /\ checked' = checked /\ raised' = raised
    BY DEF Begin
  <2>6. SUFFICES ASSUME NEW i \in 1 .. Len(stack')
                 PROVE  /\ stack'[i].call <= count + 1
                        /\ stack'[i].call \notin checked
                        /\ \A j \in 1 .. Len(stack') :
                             stack'[i].call = stack'[j].call => i = j
                        /\ stack'[i].step = "check" => i = Len(stack')
                        /\ stack'[i].step = "script" => stack'[i].call \notin raised
                        /\ stack'[i].thread # JSThread => i = 1
    BY <2>5 DEF StackOK
  <2>7. ASSUME NEW j \in 1 .. Len(stack'), stack'[i].call = stack'[j].call
        PROVE  i = j
    <3>1. ASSUME NEW k \in 1 .. Len(stack) PROVE stack[k].call # f.call
      BY <1>1, <2>2, <2>3
    <3>2. CASE i = Len(stack) + 1 /\ stack'[i] = f
      BY <2>1, <2>7, <3>1, <3>2
    <3>3. CASE i \in 1 .. Len(stack) /\ stack'[i] = stack[i]
      <4>1. j \in 1 .. Len(stack) /\ stack'[j] = stack[j]
        BY <2>1, <2>7, <3>1, <3>3
      <4> QED BY <2>7, <3>3, <4>1 DEF Shape, StackOK
    <3> QED BY <2>1, <3>2, <3>3
  <2>8. CASE i \in 1 .. Len(stack) /\ stack'[i] = stack[i]
    BY <1>6, <2>2, <2>3, <2>7, <2>8 DEF Shape, StackOK
  <2>9. CASE i = Len(stack) + 1 /\ stack'[i] = f
    BY <1>1, <1>3, <2>2, <2>4, <2>7, <2>9
  <2> QED BY <2>1, <2>8, <2>9
<1>8. WaitOK'
  <2> SUFFICES ASSUME NEW u \in Clients, waiting[u] # NoCall
               PROVE  /\ waiting[u] \in overtaken'
                      /\ waiting[u] <= count' /\ waiting[u] \notin checked
                      /\ \A i \in 1 .. Len(stack') : stack'[i].call # waiting[u] /\ stack'[i].thread # u
                      /\ \A v \in Clients : waiting[v] = waiting[u] => v = u
    BY DEF WaitOK, Begin
  <2>1. /\ waiting[u] <= count /\ waiting[u] \notin checked
        /\ \A i \in 1 .. Len(stack) : stack[i].call # waiting[u] /\ stack[i].thread # u
        /\ \A v \in Clients : waiting[v] = waiting[u] => v = u
    BY DEF Shape, WaitOK
  <2>2. waiting[u] \in Nat /\ count \in Nat /\ count' = count + 1
    BY PendingExceptionAssumption DEF Begin, Shape, TypeOK, Calls
  <2>3. waiting[u] <= count'
    BY <2>1, <2>2
  <2>4. ASSUME NEW i \in 1 .. Len(stack')
        PROVE  stack'[i].call # waiting[u] /\ stack'[i].thread # u
    <3>1. (i \in 1 .. Len(stack) /\ stack'[i] = stack[i]) \/ stack'[i] = f
      BY <1>2, <1>3
    <3> QED BY <1>1, <1>5, <2>1, <3>1
  <2> QED BY <1>5, <2>1, <2>3, <2>4
<1>9. CountOK'
  BY DEF CountOK, Begin, Shape, TypeOK, Calls
<1>10. \A n \in Calls : Checking(n)' => n \in overtaken'
  <2>1. Top'.step = "script"
    BY <1>1, <1>3 DEF Top
  <2> QED BY <2>1, <1>5, PendingExceptionAssumption DEF Checking, Begin, Calls, NoCall
<1>11. ErrorOK'
  BY <1>10 DEF ErrorOK, Begin, Shape, TypeOK
<1>12. OverStays
  <2>1. SUFFICES ASSUME NEW m, Over(m) PROVE Over(m)'
    BY DEF OverStays
  <2>2. m \in Nat /\ count \in Nat /\ m <= count /\ m <= count' /\ m # f.call
    BY <1>1, <2>1, PendingExceptionAssumption DEF Over, Calls, Begin, Shape, TypeOK
  <2>3. \A i \in 1 .. Len(stack') : stack'[i].call # m
    BY <1>2, <1>3, <2>1, <2>2 DEF Over
  <2> QED BY <2>1, <2>2, <2>3 DEF Over, Begin
<1>13. OwnOK => OwnOK'
  <2>1. \A n : Checking(n) => Checking(n)'
    BY <1>2, <1>6 DEF Checking, Top, Begin
  <2> QED BY <2>1, <1>12 DEF OwnOK, OverStays, Begin
<1> QED BY <1>4, <1>7, <1>8, <1>9, <1>11, <1>12, <1>13 DEF Shape

\* The innermost frame is popped.
LEMMA PopStack ==
    ASSUME Shape, stack # << >>, stack' = SubSeq(stack, 1, Len(stack) - 1)
    PROVE  /\ stack' \in Seq(Frames)
           /\ Len(stack') \in Nat
           /\ Len(stack') = Len(stack) - 1
           /\ \A i \in 1 .. Len(stack') :
                /\ i \in 1 .. Len(stack)
                /\ i # Len(stack)
                /\ stack'[i] = stack[i]
                /\ stack[i].step = "script"
                /\ stack[i].call # Top.call
           /\ stack' # << >> => Top'.step = "script"
           /\ Top.thread # JSThread => stack' = << >>
<1>1. /\ stack \in Seq(Frames) /\ Len(stack) \in Nat /\ Len(stack) > 0
      /\ \A i \in 1 .. Len(stack) : stack[i] \in Frames
  BY StackType DEF Shape
<1>2. /\ stack' \in Seq(Frames)
      /\ Len(stack') = Len(stack) - 1
      /\ \A i \in 1 .. Len(stack') : stack'[i] = stack[i]
  BY <1>1, Pop
<1>3. ASSUME NEW i \in 1 .. Len(stack')
      PROVE  /\ i \in 1 .. Len(stack)
             /\ i # Len(stack)
             /\ stack'[i] = stack[i]
             /\ stack[i].step = "script"
             /\ stack[i].call # Top.call
  <2>1. i \in 1 .. Len(stack) /\ i # Len(stack) /\ Len(stack) \in 1 .. Len(stack)
    BY <1>1, <1>2
  <2>2. stack[i].step \in {"script", "check"}
    BY <1>1, <2>1 DEF Frames
  <2> QED BY <1>2, <2>1, <2>2 DEF Shape, StackOK, Top
<1>4. stack' # << >> => Top'.step = "script"
  <2>1. stack' # << >> => Len(stack') \in 1 .. Len(stack')
    BY <1>2
  <2> QED BY <2>1, <1>3 DEF Top
<1>5. Top.thread # JSThread => stack' = << >>
  <2>1. Len(stack) \in 1 .. Len(stack)
    BY <1>1
  <2>2. Top.thread # JSThread => Len(stack) = 1
    BY <2>1 DEF Shape, StackOK, Top
  <2> QED BY <1>1, <1>2, <2>2, EmptySeq
<1> QED BY <1>1, <1>2, <1>3, <1>4, <1>5

\* The innermost script ends, and its check is still to come or not made.
LEMMA EndStep ==
    ASSUME Shape, ErrorOK, NEW outcome \in Outcomes, End(outcome)
    PROVE  Shape' /\ ErrorOK' /\ OverStays /\ (OwnOK => OwnOK')
<1>1. /\ stack \in Seq(Frames) /\ Len(stack) \in Nat /\ Len(stack) > 0
      /\ \A i \in 1 .. Len(stack) : stack[i] \in Frames
      /\ Top \in Frames /\ stack # << >>
  BY StackType DEF Shape, End
<1>0. PICK n \in Calls : n = Top.call
  BY <1>1 DEF Frames
<1>2. /\ Len(stack) \in 1 .. Len(stack)
      /\ n \in Calls /\ n # NoCall /\ n <= count /\ n \notin checked
      /\ n \notin raised
  BY <1>0, <1>1, PendingExceptionAssumption
     DEF Shape, StackOK, Top, Frames, Calls, NoCall, End
<1>3. \A t \in Clients : waiting[t] # NoCall =>
         waiting[t] \in overtaken /\ waiting[t] # n /\ t # Top.thread
  BY <1>0, <1>1, <1>2 DEF Shape, WaitOK, Top
<1>4. current_exception' \in [call : Calls \cup {NoCall}, error : BOOLEAN]
  BY <1>0, LeavesType DEF End, Shape
<1>5. /\ raised' \in SUBSET Calls
      /\ raised' \subseteq raised \cup {n}
      /\ n \in raised' => outcome = "error"
      /\ count' = count /\ checked' = checked /\ thrown' = thrown /\ overtaken' = overtaken
  BY <1>0, <1>2 DEF End, Shape, TypeOK
<1>6. CountOK'
  BY <1>2, <1>5 DEF CountOK, Shape
<1>7. outcome = "error" => current_exception' = [call |-> n, error |-> TRUE]
  BY <1>0 DEF End, Leaves
<1>10. /\ \A m : Checking(m) => \E t \in Clients : waiting[t] = m
       /\ \A m : Over(m) => m # n
  BY <1>0, <1>1, <1>2 DEF Checking, End, Over, Top
<1>13. ASSUME NEW m \in Calls, Checking(m)
       PROVE  Checking(m)'
  <2>1. PICK t \in Clients : waiting[t] = m
    BY <1>10, <1>13
  <2>2. t # Top.thread
    BY <1>3, <2>1, PendingExceptionAssumption DEF Calls, NoCall
  <2>3. waiting'[t] = m
    BY <2>1, <2>2 DEF End, Shape, TypeOK
  <2> QED BY <2>3 DEF Checking
<1>11. current_exception'.error =>
         \/ current_exception' = current_exception
         \/ current_exception'.call = n /\ outcome = "error"
  BY <1>0 DEF End, Leaves, Outcomes, None
<1>12. ASSUME OverStays, Checking(n)' \/ Over(n)', OwnOK
       PROVE  OwnOK'
  <2>1. CASE current_exception' = current_exception
    BY <1>12, <1>13, <2>1 DEF OwnOK, OverStays
  <2>2. CASE current_exception'.call = n
    BY <1>2, <1>12, <2>2 DEF OwnOK
  <2> QED BY <1>11, <2>1, <2>2 DEF OwnOK
<1>8. CASE Top.check /\ Top.thread = JSThread
  <2>1. /\ stack' = [stack EXCEPT ![Len(stack)].step = "check"]
        /\ waiting' = waiting
    BY <1>8 DEF End
  <2>2. /\ stack' \in Seq(Frames)
        /\ Len(stack') = Len(stack)
        /\ \A i \in 1 .. Len(stack) : i # Len(stack) => stack'[i] = stack[i]
        /\ stack'[Len(stack)] = [Top EXCEPT !.step = "check"]
    <3>1. PICK f : f = [Top EXCEPT !.step = "check"]
      OBVIOUS
    <3>2. f \in Frames
      BY <1>1, <3>1 DEF Frames
    <3>3. stack' = [stack EXCEPT ![Len(stack)] = f]
      BY <2>1, <3>1 DEF Top
    <3>4. /\ stack' \in Seq(Frames)
          /\ Len(stack') = Len(stack)
          /\ \A i \in 1 .. Len(stack) :
               stack'[i] = IF i = Len(stack) THEN f ELSE stack[i]
      BY <1>1, <1>2, <3>2, <3>3, ExceptSeq
    <3> QED BY <1>2, <3>1, <3>4
  <2>3. /\ Top'.step = "check" /\ Top'.call = n /\ Top'.thread = JSThread
        /\ Top' = stack'[Len(stack)] /\ stack' # << >>
    BY <1>0, <1>1, <1>8, <2>2 DEF Top, Frames
  <2>4. TypeOK'
    BY <1>4, <1>5, <2>1, <2>2 DEF TypeOK, Shape, Frames
  <2>5. StackOK'
    <3>1. \A i \in 1 .. Len(stack) : i # Len(stack) => stack[i].step = "script"
      BY <1>1, <1>2 DEF Shape, StackOK, Frames
    <3>2. \A i \in 1 .. Len(stack) : stack'[i].call = stack[i].call
      BY <1>0, <2>2, <2>3 DEF Top
    <3>3. \A i \in 1 .. Len(stack) : i # Len(stack) => stack[i].call # n
      BY <1>0, <1>2 DEF Shape, StackOK, Top
    <3>4. SUFFICES ASSUME NEW i \in 1 .. Len(stack)
                   PROVE  /\ stack'[i].call <= count
                          /\ stack'[i].call \notin checked
                          /\ \A j \in 1 .. Len(stack) :
                               stack'[i].call = stack'[j].call => i = j
                          /\ stack'[i].step = "check" => i = Len(stack)
                          /\ stack'[i].step = "script" => stack'[i].call \notin raised'
                          /\ stack'[i].thread # JSThread => i = 1
      BY <1>5, <2>2 DEF StackOK
    <3>5. CASE i = Len(stack)
      BY <1>1, <1>2, <1>8, <2>2, <2>3, <3>2, <3>5 DEF Shape, StackOK, Frames
    <3>6. CASE i # Len(stack)
      BY <1>2, <1>5, <2>2, <3>1, <3>2, <3>3, <3>6 DEF Shape, StackOK
    <3> QED BY <3>5, <3>6
  <2>6. WaitOK'
    <3>1. \A i \in 1 .. Len(stack) : stack'[i].call = stack[i].call /\ stack'[i].thread = stack[i].thread
      BY <1>0, <1>8, <2>2, <2>3 DEF Top
    <3> QED BY <1>3, <1>5, <2>1, <2>2, <3>1 DEF WaitOK, Shape
  <2>7. \A m : Checking(m)' => m = n \/ m = NoCall \/ m \in overtaken
    BY <1>3, <2>1, <2>3 DEF Checking
  <2>8. ErrorOK'
    BY <1>2, <1>5, <1>7, <2>7, PendingExceptionAssumption DEF ErrorOK, Calls, NoCall
  <2>9. Checking(n)'
    BY <2>3 DEF Checking
  <2>10. OverStays
    <3>1. \A i \in 1 .. Len(stack) : stack'[i].call = stack[i].call
      BY <1>0, <2>2, <2>3 DEF Top
    <3> QED BY <1>5, <2>1, <2>2, <3>1 DEF OverStays, Over
  <2> QED BY <1>6, <1>12, <2>4, <2>5, <2>6, <2>8, <2>9, <2>10 DEF Shape
<1>9. CASE ~(Top.check /\ Top.thread = JSThread)
  <2>1. stack' = SubSeq(stack, 1, Len(stack) - 1)
    BY <1>9 DEF End
  <2>2. /\ stack' \in Seq(Frames)
        /\ Len(stack') \in Nat
        /\ \A i \in 1 .. Len(stack') :
             /\ i \in 1 .. Len(stack)
             /\ i # Len(stack)
             /\ stack'[i] = stack[i]
             /\ stack[i].step = "script"
             /\ stack[i].call # n
        /\ stack' # << >> => Top'.step = "script"
        /\ Top.thread # JSThread => stack' = << >>
    BY <1>0, <1>1, <2>1, PopStack
  <2>3. /\ waiting' \in [Clients -> Calls \cup {NoCall}]
        /\ \A t \in Clients : waiting'[t] # NoCall =>
             \/ waiting'[t] = waiting[t] /\ t # Top.thread
             \/ waiting'[t] = n /\ t = Top.thread /\ Top.thread # JSThread
    BY <1>0, <1>1, <1>2, <1>3 DEF End, Shape, TypeOK, Frames
  <2>4. TypeOK'
    BY <1>4, <1>5, <2>2, <2>3 DEF TypeOK, Shape, Frames
  <2>5. StackOK'
    BY <1>5, <2>2 DEF Shape, StackOK
  <2>6. WaitOK'
    <3> SUFFICES ASSUME NEW t \in Clients, waiting'[t] # NoCall
                 PROVE  /\ stack' = << >> \/ waiting'[t] \in overtaken
                        /\ waiting'[t] <= count /\ waiting'[t] \notin checked
                        /\ \A i \in 1 .. Len(stack') :
                             stack'[i].call # waiting'[t] /\ stack'[i].thread # t
                        /\ \A u \in Clients : waiting'[u] = waiting'[t] => u = t
      BY <1>5 DEF WaitOK
    <3>1. CASE waiting'[t] = waiting[t] /\ t # Top.thread
      <4>1. /\ waiting[t] \in overtaken /\ waiting[t] # n
            /\ waiting[t] <= count /\ waiting[t] \notin checked
            /\ \A i \in 1 .. Len(stack) : stack[i].call # waiting[t] /\ stack[i].thread # t
            /\ \A u \in Clients : waiting[u] = waiting[t] => u = t
        BY <1>3, <3>1 DEF Shape, WaitOK
      <4> QED BY <2>2, <2>3, <3>1, <4>1
    <3>2. CASE waiting'[t] = n /\ t = Top.thread /\ Top.thread # JSThread
      <4>1. stack' = << >> /\ \A i \in 1 .. Len(stack') : FALSE
        BY <2>2, <3>2
      <4>2. ASSUME NEW u \in Clients, waiting'[u] = n
            PROVE  u = t
        BY <1>2, <1>3, <2>3, <3>2, <4>2
      <4> QED BY <1>2, <3>2, <4>1, <4>2
    <3> QED BY <2>3, <3>1, <3>2
  <2>7. \A m : Checking(m)' => m = n \/ m = NoCall \/ m \in overtaken
    BY <1>3, <2>2, <2>3 DEF Checking
  <2>8. ErrorOK'
    BY <1>2, <1>5, <1>7, <2>7, PendingExceptionAssumption DEF ErrorOK, Calls, NoCall
  <2>9. OverStays
    <3>1. SUFFICES ASSUME NEW m, Over(m) PROVE Over(m)'
      BY DEF OverStays
    <3>2. m \in Calls /\ m # n /\ m # NoCall
      BY <1>10, <3>1, PendingExceptionAssumption DEF Over, Calls, NoCall
    <3>3. \A t \in Clients : waiting'[t] # m
      BY <2>3, <3>1, <3>2 DEF Over
    <3> QED BY <1>5, <2>2, <3>1, <3>3 DEF Over
  <2>10. Checking(n)' \/ Over(n)'
    <3>1. CASE Top.check
      <4>1. Top.thread \in Clients
        BY <1>1, <1>9, <3>1 DEF Frames
      <4> QED BY <1>0, <1>9, <3>1, <4>1 DEF End, Checking, Shape, TypeOK
    <3>2. CASE ~Top.check
      <4>1. waiting' = waiting
        BY <3>2 DEF End
      <4>2. \A t \in Clients : waiting[t] # n
        BY <1>2, <1>3
      <4> QED BY <1>2, <1>5, <2>2, <4>1, <4>2 DEF Over
    <3> QED BY <3>1, <3>2
  <2> QED BY <1>6, <1>12, <2>4, <2>5, <2>6, <2>8, <2>9, <2>10 DEF Shape
<1> QED BY <1>8, <1>9

\* A callback threw: the innermost frame is popped and not checked.
LEMMA EndThrowsStep ==
    ASSUME Shape, ErrorOK, NEW outcome \in Outcomes, EndThrows(outcome)
    PROVE  Shape' /\ ErrorOK' /\ OverStays /\ (OwnOK => OwnOK')
<1>0. PICK n \in Calls : n = Top.call
  BY StackType DEF EndThrows, Shape, Frames
<1>1. /\ stack # << >> /\ Len(stack) \in 1 .. Len(stack)
      /\ stack' = SubSeq(stack, 1, Len(stack) - 1)
      /\ waiting' = waiting /\ raised' = raised /\ checked' = checked
      /\ count' = count /\ thrown' = thrown /\ overtaken' = overtaken
  BY StackType DEF EndThrows, Shape
<1>2. current_exception' \in [call : Calls \cup {NoCall}, error : BOOLEAN]
  BY <1>0, LeavesType DEF EndThrows, Shape
<1>3. /\ stack' \in Seq(Frames)
      /\ Len(stack') \in Nat
      /\ \A i \in 1 .. Len(stack') :
           /\ i \in 1 .. Len(stack)
           /\ i # Len(stack)
           /\ stack'[i] = stack[i]
           /\ stack[i].step = "script"
           /\ stack[i].call # n
      /\ stack' # << >> => Top'.step = "script"
  BY <1>0, <1>1, PopStack
<1>4. TypeOK'
  BY <1>1, <1>2, <1>3 DEF TypeOK, Shape, Frames
<1>5. StackOK'
  BY <1>1, <1>3 DEF Shape, StackOK
<1>6. \A t \in Clients : waiting[t] # NoCall => waiting[t] \in overtaken /\ waiting[t] # n
  BY <1>0, <1>1 DEF Shape, WaitOK, Top
<1>7. WaitOK' /\ CountOK'
  BY <1>1, <1>3, <1>6 DEF WaitOK, CountOK, Shape
<1>8. \A m \in Calls : Checking(m)' => m \in overtaken
  BY <1>1, <1>3, <1>6, PendingExceptionAssumption DEF Checking, Calls, NoCall
<1>9. ErrorOK'
  BY <1>1, <1>8 DEF ErrorOK, Shape, TypeOK
<1>10. n # NoCall /\ n <= count /\ n \notin checked
  BY <1>0, <1>1, PendingExceptionAssumption DEF Calls, NoCall, Shape, StackOK, Top
<1>11. OverStays
  BY <1>1, <1>3, <1>6, <1>10 DEF OverStays, Over
<1>12. Over(n)'
  BY <1>1, <1>3, <1>6, <1>10 DEF Over
<1>13. ASSUME OwnOK
       PROVE  OwnOK'
  <2>1. CASE current_exception' = current_exception
    <3>1. \A m : Checking(m) => Checking(m)'
      BY <1>1 DEF Checking, EndThrows
    <3> QED BY <1>11, <1>13, <2>1, <3>1 DEF OwnOK, OverStays
  <2>2. CASE current_exception'.call = n
    BY <1>12, <2>2 DEF OwnOK
  <2>3. current_exception'.error =>
          \/ current_exception' = current_exception
          \/ current_exception'.call = n
    BY <1>0 DEF EndThrows, Leaves, Outcomes, None
  <2> QED BY <2>1, <2>2, <2>3 DEF OwnOK
<1> QED BY <1>4, <1>5, <1>7, <1>9, <1>11, <1>13 DEF Shape

\* The check of the call n that has one to make.
LEMMA GetExceptionStep ==
    ASSUME Shape, ErrorOK, NEW n \in Calls, Checking(n), GetException(n)
    PROVE  /\ checked' = checked \cup {n} /\ checked' \in SUBSET Calls
           /\ thrown' \in [Calls -> Calls \cup {NoCall}]
           /\ \A m \in Calls : m # n => thrown'[m] = thrown[m]
           /\ n \in raised \ overtaken => thrown'[n] = n
           /\ ~current_exception.error => thrown' = thrown
           /\ current_exception.error => thrown'[n] = current_exception.call
           /\ current_exception' = None
<1>1. /\ current_exception \in [call : Calls \cup {NoCall}, error : BOOLEAN]
      /\ thrown \in [Calls -> Calls \cup {NoCall}]
      /\ checked \in SUBSET Calls
  BY DEF Shape, TypeOK
<1>2. n \in raised \ overtaken => current_exception.error /\ current_exception.call = n
  BY DEF ErrorOK
<1> QED BY <1>1, <1>2 DEF GetException

\* The owner's check.
LEMMA CheckStep ==
    ASSUME Shape, ErrorOK, Check
    PROVE  /\ Shape' /\ ErrorOK' /\ OwnOK' /\ OverStays
           /\ \E n \in Calls :
                /\ Checking(n) /\ n \notin checked /\ GetException(n)
                /\ \A m \in Calls : Checking(m) => m = n \/ m \in overtaken'
           /\ raised' = raised /\ overtaken' = overtaken
<1>1. /\ Top \in Frames /\ stack # << >> /\ Top.step = "check"
      /\ stack' = SubSeq(stack, 1, Len(stack) - 1)
      /\ Len(stack) \in 1 .. Len(stack)
      /\ waiting' = waiting /\ raised' = raised /\ count' = count /\ overtaken' = overtaken
  BY StackType DEF Check, Shape
<1>2. PICK n \in Calls : n = Top.call
  BY <1>1 DEF Frames
<1>3. Checking(n) /\ GetException(n) /\ n <= count /\ n \notin checked
  BY <1>1, <1>2 DEF Checking, Check, Shape, StackOK, Top
<1>4. /\ checked' = checked \cup {n} /\ checked' \in SUBSET Calls
      /\ thrown' \in [Calls -> Calls \cup {NoCall}]
      /\ current_exception' = None
  BY <1>3, GetExceptionStep
<1>5. /\ stack' \in Seq(Frames)
      /\ Len(stack') \in Nat
      /\ \A i \in 1 .. Len(stack') :
           /\ i \in 1 .. Len(stack)
           /\ i # Len(stack)
           /\ stack'[i] = stack[i]
           /\ stack[i].step = "script"
           /\ stack[i].call # n
      /\ stack' # << >> => Top'.step = "script"
  BY <1>1, <1>2, PopStack
<1>6. TypeOK'
  BY <1>1, <1>4, <1>5 DEF TypeOK, Shape, Frames, None
<1>7. StackOK'
  BY <1>1, <1>4, <1>5 DEF Shape, StackOK
<1>8. \A t \in Clients : waiting[t] # NoCall => waiting[t] \in overtaken /\ waiting[t] # n
  BY <1>1, <1>2 DEF Shape, WaitOK, Top
<1>9. WaitOK' /\ CountOK'
  BY <1>1, <1>3, <1>4, <1>5, <1>8 DEF WaitOK, CountOK, Shape
<1>10. /\ \A m \in Calls : Checking(m)' => m \in overtaken
       /\ \A m \in Calls : Checking(m) => m = n \/ m \in overtaken
  BY <1>1, <1>2, <1>5, <1>8, PendingExceptionAssumption DEF Checking, Calls, NoCall
<1>11. ErrorOK' /\ OwnOK'
  BY <1>1, <1>4, <1>10 DEF ErrorOK, OwnOK, None, Shape, TypeOK
<1>12. OverStays
  BY <1>1, <1>2, <1>4, <1>5 DEF OverStays, Over, Top
<1> QED BY <1>1, <1>3, <1>6, <1>7, <1>9, <1>10, <1>11, <1>12 DEF Shape

\* A client's check.
LEMMA ClientCheckStep ==
    ASSUME Shape, ErrorOK, NEW t \in Clients, ClientCheck(t)
    PROVE  /\ Shape' /\ ErrorOK' /\ OwnOK' /\ OverStays
           /\ \E n \in Calls :
                /\ Checking(n) /\ n \notin checked /\ GetException(n)
                /\ \A m \in Calls : Checking(m) => m = n \/ m \in overtaken'
           /\ raised' = raised /\ overtaken \subseteq overtaken'
<1>1. /\ stack = << >> /\ stack' = stack /\ waiting[t] # NoCall
      /\ waiting' = [waiting EXCEPT ![t] = NoCall]
      /\ raised' = raised /\ count' = count
      /\ overtaken' = overtaken \cup Waiting(t)
  BY DEF ClientCheck
<1>2. PICK n \in Calls : n = waiting[t]
  BY <1>1 DEF Shape, TypeOK
<1>3. Checking(n) /\ GetException(n) /\ n <= count /\ n \notin checked
  BY <1>1, <1>2 DEF Checking, ClientCheck, Shape, WaitOK
<1>4. /\ checked' = checked \cup {n} /\ checked' \in SUBSET Calls
      /\ thrown' \in [Calls -> Calls \cup {NoCall}]
      /\ current_exception' = None
  BY <1>3, GetExceptionStep
<1>5. TypeOK'
  <2>1. Waiting(t) \subseteq Calls
    BY WaitingType DEF Shape
  <2>2. stack' \in Seq(Frames) /\ waiting' \in [Clients -> Calls \cup {NoCall}]
    BY <1>1 DEF Shape, TypeOK, Frames
  <2> QED BY <1>1, <1>4, <2>1, <2>2 DEF TypeOK, Shape, None, Frames
<1>6. \A u \in Clients : waiting'[u] # NoCall =>
         u # t /\ waiting'[u] = waiting[u] /\ waiting[u] \in overtaken' /\ waiting[u] # n
  <2>1. \A u \in Clients : u # t => waiting'[u] = waiting[u]
    BY <1>1 DEF Shape, TypeOK
  <2>2. waiting'[t] = NoCall
    BY <1>1 DEF Shape, TypeOK
  <2>3. \A u \in Clients : u # t /\ waiting[u] # NoCall => waiting[u] \in overtaken' /\ waiting[u] # n
    BY <1>1, <1>2 DEF Waiting, Shape, WaitOK
  <2> QED BY <2>1, <2>2, <2>3
<1>7. StackOK' /\ WaitOK' /\ CountOK'
  <2>1. StackOK' /\ CountOK'
    BY <1>1, <1>3, <1>4 DEF StackOK, CountOK, Shape
  <2>2. WaitOK'
    BY <1>1, <1>4, <1>6 DEF WaitOK, Shape
  <2> QED BY <2>1, <2>2
<1>8. /\ \A m \in Calls : Checking(m)' => m \in overtaken'
      /\ \A m \in Calls : Checking(m) => m = n \/ m \in overtaken'
  <2>1. \A u \in Clients : u # t /\ waiting[u] # NoCall => waiting[u] \in overtaken'
    BY <1>1 DEF Waiting
  <2> QED BY <1>1, <1>2, <1>6, <2>1, PendingExceptionAssumption DEF Checking, Calls, NoCall
<1>9. ErrorOK' /\ OwnOK'
  BY <1>1, <1>4, <1>8 DEF ErrorOK, OwnOK, None, Shape, TypeOK
<1>10. OverStays
  <2>1. SUFFICES ASSUME NEW m, Over(m) PROVE Over(m)'
    BY DEF OverStays
  <2>2. m # n /\ m # NoCall
    BY <1>2, <2>1, PendingExceptionAssumption DEF Over, Calls, NoCall
  <2> QED BY <1>1, <1>4, <1>6, <2>1, <2>2 DEF Over
<1> QED BY <1>1, <1>3, <1>5, <1>7, <1>8, <1>9, <1>10 DEF Shape

-----------------------------------------------------------------------------

Inv == Shape /\ ErrorOK /\ NoErrorSwallowed

\* A checked call whose script ended in an Error throws it unless a call of
\* another thread came between the script and the check, although unchecked
\* calls and callbacks that throw leave their errors in the runtime.
THEOREM ErrorsReachTheirCaller == Spec => []NoErrorSwallowed
<1>1. Init => Inv
  BY InitShape DEF Inv, NoErrorSwallowed, Init
<1>2. Inv /\ [Next]_vars => Inv'
  <2> SUFFICES ASSUME Inv, [Next]_vars PROVE Inv'
    OBVIOUS
  <2> USE DEF Inv
  <2>1. ASSUME NEW t \in Clients \cup {JSThread}, NEW check \in BOOLEAN,
               Begin(t, check)
        PROVE  Inv'
    BY <2>1, BeginStep DEF NoErrorSwallowed, Begin
  <2>2. ASSUME NEW outcome \in Outcomes, End(outcome)
        PROVE  Inv'
    <3>1. Shape' /\ ErrorOK'
      BY <2>2, EndStep
    <3>2. Top.call \notin checked
      <4>1. Len(stack) \in 1 .. Len(stack)
        BY <2>2, StackType DEF End, Shape
      <4> QED BY <4>1 DEF Shape, StackOK, Top
    <3>3. NoErrorSwallowed'
      BY <2>2, <3>2 DEF NoErrorSwallowed, End
    <3> QED BY <3>1, <3>3
  <2>3. ASSUME NEW outcome \in Outcomes, EndThrows(outcome)
        PROVE  Inv'
    BY <2>3, EndThrowsStep DEF NoErrorSwallowed, EndThrows
  <2>4. ASSUME NEW n \in Calls, Checking(n), GetException(n), raised' = raised,
               overtaken \subseteq overtaken'
        PROVE  NoErrorSwallowed'
    <3>1. /\ checked' = checked \cup {n} /\ checked' \in SUBSET Calls
          /\ \A m \in Calls : m # n => thrown'[m] = thrown[m]
          /\ n \in raised \ overtaken => thrown'[n] = n
      BY <2>4, GetExceptionStep
    <3> QED BY <2>4, <3>1 DEF NoErrorSwallowed
  <2>5. CASE Check
    BY <2>4, <2>5, CheckStep
  <2>6. ASSUME NEW t \in Clients, ClientCheck(t)
        PROVE  Inv'
    BY <2>4, <2>6, ClientCheckStep
  <2>7. CASE UNCHANGED vars
    BY <2>7 DEF vars, Shape, TypeOK, StackOK, WaitOK, CountOK, ErrorOK,
                NoErrorSwallowed, Checking, Top
  <2> QED BY <2>1, <2>2, <2>3, <2>5, <2>6, <2>7 DEF Next, Quiescent
<1>3. Inv => NoErrorSwallowed
  BY DEF Inv
<1> QED BY <1>1, <1>2, <1>3, PTL DEF Spec

OwnInv == Shape /\ ErrorOK /\ OwnOK /\ LeftOK /\ OnceOK

\* The calls that are thrown are calls.
LEMMA OnceTypes ==
    ASSUME Shape
    PROVE  /\ thrown \in [Calls -> Calls \cup {NoCall}]
           /\ count \in Nat
           /\ \A n \in Calls : n \in Nat /\ n # NoCall
           /\ current_exception.error \in BOOLEAN
BY PendingExceptionAssumption DEF Shape, TypeOK, Calls, NoCall

\* A script begins or ends: its error was not thrown before.
LEMMA OnceBegin ==
    ASSUME Shape, OnceOK, NEW t \in Clients \cup {JSThread}, NEW check \in BOOLEAN,
           Begin(t, check)
    PROVE  OnceOK'
<1>1. /\ stack \in Seq(Frames) /\ Len(stack) \in Nat
  BY StackType DEF Shape
<1>2. PICK f : f = Frame(t, count + 1, check)
  OBVIOUS
<1>3. f \in Frames /\ f.call = count + 1
  BY <1>2, PendingExceptionAssumption DEF Begin, Shape, TypeOK, Frame, Frames, Calls
<1>4. /\ Len(stack') = Len(stack) + 1
      /\ \A i \in 1 .. Len(stack) : stack'[i] = stack[i]
      /\ stack'[Len(stack) + 1] = f
  BY <1>1, <1>2, <1>3, AppendProperties DEF Begin
<1>5. count' = count + 1 /\ thrown' = thrown /\ current_exception' = current_exception
  BY DEF Begin
<1>6. ASSUME NEW n \in Calls, thrown[n] # NoCall
      PROVE  /\ thrown[n] <= count'
             /\ \A i \in 1 .. Len(stack') : stack'[i].step = "script" => stack'[i].call # thrown[n]
  <2>1. thrown[n] \in Nat /\ count \in Nat /\ thrown[n] <= count
    BY <1>6, OnceTypes DEF OnceOK
  <2>2. thrown[n] <= count' /\ thrown[n] # f.call
    BY <1>3, <1>5, <2>1
  <2>3. ASSUME NEW i \in 1 .. Len(stack'), stack'[i].step = "script"
        PROVE  stack'[i].call # thrown[n]
    <3>1. (i \in 1 .. Len(stack) /\ stack'[i] = stack[i]) \/ stack'[i] = f
      BY <1>1, <1>4
    <3> QED BY <1>6, <2>2, <2>3, <3>1 DEF OnceOK
  <2> QED BY <2>2, <2>3
<1> QED BY <1>5, <1>6 DEF OnceOK

LEMMA OnceEnd ==
    ASSUME Shape, OnceOK, NEW outcome \in Outcomes, End(outcome) \/ EndThrows(outcome)
    PROVE  OnceOK'
<1>1. /\ stack \in Seq(Frames) /\ Len(stack) \in 1 .. Len(stack) /\ stack # << >>
      /\ Top \in Frames /\ Top.step = "script"
  BY StackType DEF Shape, End, EndThrows
<1>2. PICK n \in Calls : n = Top.call
  BY <1>1 DEF Frames
<1>3. count' = count /\ thrown' = thrown
  BY DEF End, EndThrows
<1>4. current_exception'.error =>
        \/ current_exception' = current_exception
        \/ current_exception'.call = n
  BY <1>2 DEF End, EndThrows, Leaves, Outcomes, None
<1>5. \A m \in Calls : thrown[m] # n
  <2>1. n # NoCall
    BY OnceTypes
  <2> QED BY <1>1, <1>2, <2>1 DEF OnceOK, Top
<1>6. \A i \in 1 .. Len(stack') :
         stack'[i].step = "script" => i \in 1 .. Len(stack) /\ stack'[i] = stack[i]
  <2>1. CASE stack' = SubSeq(stack, 1, Len(stack) - 1)
    BY <1>1, <2>1, PopStack
  <2>2. CASE stack' = [stack EXCEPT ![Len(stack)].step = "check"]
    <3>1. PICK f : f = [stack[Len(stack)] EXCEPT !.step = "check"]
      OBVIOUS
    <3>2. f \in Frames /\ f.step = "check"
      BY <1>1, <3>1 DEF Frames, Top
    <3>3. stack' = [stack EXCEPT ![Len(stack)] = f]
      BY <2>2, <3>1
    <3>4. /\ Len(stack') = Len(stack)
          /\ \A i \in 1 .. Len(stack) : stack'[i] = IF i = Len(stack) THEN f ELSE stack[i]
      BY <1>1, <3>2, <3>3, ExceptSeq
    <3> QED BY <3>2, <3>4
  <2> QED BY <2>1, <2>2 DEF End, EndThrows
<1> QED BY <1>3, <1>4, <1>5, <1>6 DEF OnceOK

\* A check throws what is pending, and that is gone.
LEMMA OnceCheck ==
    ASSUME Shape, ErrorOK, OwnOK, OnceOK, NEW n \in Calls, Checking(n), GetException(n),
           count' = count,
           \A i \in 1 .. Len(stack') : i \in 1 .. Len(stack) /\ stack'[i] = stack[i]
    PROVE  OnceOK'
<1>1. /\ \A m \in Calls : m # n => thrown'[m] = thrown[m]
      /\ ~current_exception.error => thrown' = thrown
      /\ current_exception.error => thrown'[n] = current_exception.call
      /\ current_exception' = None
  BY GetExceptionStep
<1>2. CASE ~current_exception.error
  BY <1>1, <1>2 DEF OnceOK, None
<1>3. CASE current_exception.error
  <2>1. PICK m \in Calls : m = current_exception.call
    BY <1>3 DEF OwnOK
  <2>2. Checking(m) \/ Over(m)
    BY <1>3, <2>1 DEF OwnOK
  <2>3. m <= count /\ \A i \in 1 .. Len(stack) : stack[i].step = "script" => stack[i].call # m
    <3>1. CASE Over(m)
      BY <3>1 DEF Over
    <3>2. CASE stack # << >> /\ Top.step = "check" /\ Top.call = m
      <4>1. Len(stack) \in 1 .. Len(stack)
        BY <3>2, StackType DEF Shape
      <4> QED BY <3>2, <4>1 DEF Shape, StackOK, Top
    <3>3. ASSUME NEW t \in Clients, waiting[t] = m
          PROVE  m <= count /\ \A i \in 1 .. Len(stack) : stack[i].call # m
      BY <3>3, OnceTypes DEF Shape, WaitOK
    <3> QED BY <2>2, <3>1, <3>2, <3>3 DEF Checking
  <2>4. \A k \in Calls : thrown[k] # m
    BY <1>3, <2>1, OnceTypes DEF OnceOK
  <2>5. \A k \in Calls : thrown'[k] = IF k = n THEN m ELSE thrown[k]
    BY <1>1, <1>3, <2>1
  <2> QED BY <1>1, <2>3, <2>4, <2>5 DEF OnceOK, None
<1> QED BY <1>2, <1>3, OnceTypes

\* A call throws its own script's error, or one that a call left which nobody
\* checks, or one that it overtook, and no error is thrown twice.
THEOREM ErrorsAreTheCallers == Spec => []ThrowsOnlyItsOwn
<1>1. Init => OwnInv
  BY InitShape DEF OwnInv, LeftOK, OnceOK, Init
<1>2. OwnInv /\ [Next]_vars => OwnInv'
  <2> SUFFICES ASSUME OwnInv, [Next]_vars PROVE OwnInv'
    OBVIOUS
  <2> USE DEF OwnInv
  <2>0. OverStays /\ thrown' = thrown /\ overtaken \subseteq overtaken' => LeftOK'
    BY DEF LeftOK, OverStays
  <2>1. ASSUME NEW t \in Clients \cup {JSThread}, NEW check \in BOOLEAN,
               Begin(t, check)
        PROVE  OwnInv'
    BY <2>0, <2>1, BeginStep, OnceBegin DEF Begin
  <2>2. ASSUME NEW outcome \in Outcomes, End(outcome)
        PROVE  OwnInv'
    BY <2>0, <2>2, EndStep, OnceEnd DEF End
  <2>3. ASSUME NEW outcome \in Outcomes, EndThrows(outcome)
        PROVE  OwnInv'
    BY <2>0, <2>3, EndThrowsStep, OnceEnd DEF EndThrows
  <2>4. ASSUME NEW n \in Calls, Checking(n), GetException(n), OverStays,
               overtaken \subseteq overtaken',
               \A m \in Calls : Checking(m) => m = n \/ m \in overtaken'
        PROVE  LeftOK'
    <3>1. /\ \A m \in Calls : m # n => thrown'[m] = thrown[m]
          /\ ~current_exception.error => thrown' = thrown
          /\ current_exception.error => thrown'[n] = current_exception.call
      BY <2>4, GetExceptionStep
    <3>2. current_exception.error =>
            \/ current_exception.call \in {n} \cup overtaken'
            \/ Over(current_exception.call)
      BY <2>4 DEF OwnOK
    <3>3. current_exception.error \in BOOLEAN
      BY DEF Shape, TypeOK
    <3>4. ASSUME NEW k \in Calls, NEW x, thrown'[k] = x
          PROVE  x \in {NoCall, k} \cup overtaken' \/ Over(x)'
      <4>1. CASE thrown'[k] = thrown[k]
        <5>1. x \in {NoCall, k} \cup overtaken \/ Over(x)
          BY <3>4, <4>1 DEF LeftOK
        <5> QED BY <2>4, <5>1 DEF OverStays
      <4>2. CASE k = n /\ current_exception.error
        <5>1. x \in {n} \cup overtaken' \/ Over(x)
          BY <3>1, <3>2, <3>4, <4>2
        <5> QED BY <2>4, <4>2, <5>1 DEF OverStays
      <4> QED BY <3>1, <3>3, <4>1, <4>2
    <3> QED BY <3>4 DEF LeftOK
  <2>5. CASE Check
    <3>1. \A i \in 1 .. Len(stack') : i \in 1 .. Len(stack) /\ stack'[i] = stack[i]
      BY <2>5, PopStack DEF Check
    <3>2. count' = count
      BY <2>5 DEF Check
    <3> QED BY <2>4, <2>5, <3>1, <3>2, CheckStep, OnceCheck
  <2>6. ASSUME NEW t \in Clients, ClientCheck(t)
        PROVE  OwnInv'
    <3>1. count' = count /\ stack' = stack
      BY <2>6 DEF ClientCheck
    <3> QED BY <2>4, <2>6, <3>1, ClientCheckStep, OnceCheck
  <2>7. CASE UNCHANGED vars
    BY <2>7 DEF vars, Shape, TypeOK, StackOK, WaitOK, CountOK, ErrorOK, OwnOK,
                LeftOK, OnceOK, Over, Checking, Top
  <2> QED BY <2>1, <2>2, <2>3, <2>5, <2>6, <2>7 DEF Next, Quiescent
<1>3. OwnInv => ThrowsOnlyItsOwn
  BY OnceTypes DEF OwnInv, LeftOK, OnceOK, Over, ThrowsOnlyItsOwn
<1> QED BY <1>1, <1>2, <1>3, PTL DEF Spec

\* A frame keeps its type when its script is over and its check comes next.
LEMMA CheckFrame ==
    ASSUME NEW s \in Seq(Frames), s # << >>
    PROVE  [s EXCEPT ![Len(s)].step = "check"] \in Seq(Frames)
<1>1. Len(s) \in Nat /\ Len(s) \in 1 .. Len(s) /\ s \in [1 .. Len(s) -> Frames]
  OBVIOUS
<1>2. [s[Len(s)] EXCEPT !.step = "check"] \in Frames
  BY <1>1 DEF Frames
<1>3. [s EXCEPT ![Len(s)].step = "check"] \in [1 .. Len(s) -> Frames]
  BY <1>1, <1>2
<1> QED BY <1>1, <1>3

\* Every variable keeps its type, whoever uses the engine.
THEOREM TypeCorrect == Spec => []TypeOK
<1>1. Init => TypeOK
  BY InitShape DEF Shape
<1>2. TypeOK /\ [Next]_vars => TypeOK'
  <2> SUFFICES ASSUME TypeOK, [Next]_vars PROVE TypeOK'
    OBVIOUS
  <2>0. /\ stack \in Seq(Frames) /\ Len(stack) \in Nat
        /\ stack # << >> => Top \in Frames
    BY StackType
  <2>1. ASSUME NEW t \in Clients \cup {JSThread}, NEW check \in BOOLEAN,
               Begin(t, check)
        PROVE  TypeOK'
    <3>1. Frame(t, count + 1, check) \in Frames /\ count' \in 0 .. MaxCalls
      BY <2>1, PendingExceptionAssumption DEF Begin, TypeOK, Frame, Frames, Calls
    <3>2. stack' \in Seq(Frames)
      BY <2>0, <2>1, <3>1 DEF Begin
    <3>3. overtaken' \in SUBSET Calls
      BY <2>1, WaitingType DEF Begin, TypeOK
    <3> QED BY <2>1, <3>1, <3>2, <3>3 DEF Begin, TypeOK, Frames
  <2>2. ASSUME stack # << >>, stack' = SubSeq(stack, 1, Len(stack) - 1)
        PROVE  stack' \in Seq(Frames)
    BY <2>0, <2>2, Pop
  <2>3. ASSUME NEW outcome \in Outcomes, stack # << >>
        PROVE  Leaves(Top.call, outcome) \in [call : Calls \cup {NoCall}, error : BOOLEAN]
    <3>1. Top.call \in Calls
      BY <2>0, <2>3 DEF Frames
    <3> QED BY <3>1, LeavesType
  <2>4. ASSUME NEW outcome \in Outcomes, End(outcome)
        PROVE  TypeOK'
    <3>1. /\ stack # << >> /\ Top \in Frames /\ Top.call \in Calls
          /\ Top.thread # JSThread => Top.thread \in Clients
      BY <2>0, <2>4 DEF End, Frames
    <3>2. stack' \in Seq(Frames)
      BY <2>0, <2>2, <2>4, <3>1, CheckFrame DEF End
    <3>3. waiting' \in [Clients -> Calls \cup {NoCall}] /\ raised' \in SUBSET Calls
      BY <2>4, <3>1 DEF End, TypeOK
    <3>4. current_exception' \in [call : Calls \cup {NoCall}, error : BOOLEAN]
      BY <2>3, <2>4, <3>1 DEF End
    <3> QED BY <2>4, <3>2, <3>3, <3>4 DEF End, TypeOK, Frames
  <2>5. ASSUME NEW outcome \in Outcomes, EndThrows(outcome)
        PROVE  TypeOK'
    <3>1. stack' \in Seq(Frames)
      BY <2>2, <2>5 DEF EndThrows
    <3>2. current_exception' \in [call : Calls \cup {NoCall}, error : BOOLEAN]
      BY <2>3, <2>5 DEF EndThrows
    <3> QED BY <2>5, <3>1, <3>2 DEF EndThrows, TypeOK, Frames
  <2>6. ASSUME NEW n \in Calls, GetException(n)
        PROVE  /\ checked' \in SUBSET Calls
               /\ thrown' \in [Calls -> Calls \cup {NoCall}]
               /\ current_exception' \in [call : Calls \cup {NoCall}, error : BOOLEAN]
    BY <2>6 DEF GetException, TypeOK, None
  <2>7. CASE Check
    <3>1. Top.call \in Calls /\ stack' \in Seq(Frames)
      BY <2>0, <2>2, <2>7 DEF Check, Frames
    <3> QED BY <2>6, <2>7, <3>1 DEF Check, TypeOK, Frames
  <2>8. ASSUME NEW t \in Clients, ClientCheck(t)
        PROVE  TypeOK'
    <3>1. waiting[t] \in Calls
      BY <2>8 DEF ClientCheck, TypeOK
    <3>2. overtaken' \in SUBSET Calls
      BY <2>8, WaitingType DEF ClientCheck, TypeOK
    <3> QED BY <2>6, <2>8, <3>1, <3>2 DEF ClientCheck, TypeOK
  <2>9. CASE UNCHANGED vars
    BY <2>9 DEF vars, TypeOK
  <2> QED BY <2>1, <2>4, <2>5, <2>7, <2>8, <2>9 DEF Next, Quiescent
<1> QED BY <1>1, <1>2, PTL DEF Spec

=============================================================================
