---------------------------- MODULE WorkersProofs ----------------------------
(***************************************************************************)
(* Messages between the application and its workers are handled in their   *)
(* order, and a Looper ends for the reasons that LooperEnds gives: for any *)
(* number of workers, timers, messages and closes.                         *)
(***************************************************************************)
EXTENDS Workers, FiniteSetTheorems, TLAPS

\* The object was not made, or its constructor threw: nobody knows the runtime.
Fresh(w) == script[w] \in {"none", "orphan"}

FreshOK ==
    \A w \in Workers : Fresh(w) =>
        /\ queue[w] = << >>
        /\ sent["toWorker"][w] = 0
        /\ heard["toWorker"][w] = << >> /\ missed["toWorker"][w] = << >>
        /\ doing[w] = "idle" /\ context[w] = "none" /\ death[w] = "no"
        /\ \A t \in Timeouts : owner[t] # w
        /\ \A x \in DOMAIN workers : workers[x] # w

\* Who is in a queue: the messages to a worker are its own, the messages to the
\* application were posted to its Looper, and a worker that is asked to close
\* was terminated.
Entries(q) == {q[i] : i \in DOMAIN q}

QueueOK ==
    /\ \A w \in Workers : \A e \in Entries(queue[w]) :
         /\ e.kind = "message" => e.arg[1] = w
         /\ e.kind = "closeRuntime" => terminate[w]
    /\ \A e \in Entries(queue[Main]) : e.kind = "message" => handler

\* What is released, and why.
EngineOK ==
    /\ \A r \in Runtimes : context[r] = "open" => engine[r] = "open"
    /\ \A w \in Workers : context[w] = "closed" \/ doing[w] = "sizing" => terminate[w]
    /\ \A w \in Workers : context[w] = "closed" /\ engine[w] = "open" => w \in broken

\* A Looper that an event ended does nothing any more.
DeadOK == \A r \in Runtimes : death[r] \notin {"no", "post"} => doing[r] = "idle"

\* Only an onmessage hears.
ListensOK == \A d \in Directions, w \in Workers : heard[d][w] # << >> => w \in listens[d]

SafeInv == FreshOK /\ QueueOK /\ EngineOK /\ DeadOK /\ ListensOK /\ LooperEnds

\* The messages of one direction and one worker are handled in their order and
\* not before they are sent; the others are waiting.
InOrder(d, w) ==
    context[Target(d, w)] = "open" =>
        /\ HandledInOrder(d, w)
        /\ Handled(d, w) <= sent[d][w]
        /\ HasInOrder(queue[Target(d, w)], w, Handled(d, w) + 1, sent[d][w])

OrderInv == \A d \in Directions, w \in Workers : InOrder(d, w)

-----------------------------------------------------------------------------
(***************************************************************************)
(* Events, and the messages in a queue.                                    *)
(***************************************************************************)

LEMMA EventParts ==
    ASSUME NEW e \in Events
    PROVE  /\ e.kind = "timer" => e.arg \in Timeouts
           /\ e.kind = "message" => /\ e.arg \in Workers \X Nat
                                    /\ e.arg[1] \in Workers /\ e.arg[2] \in Nat
                                    /\ e = Message(e.arg[1], e.arg[2])
<1>1. e.kind = "timer" => e.arg \in Timeouts
  BY DEF Events
<1>2. e.kind = "message" => /\ e.arg \in Workers \X Nat
                            /\ e = [kind |-> "message", arg |-> e.arg]
  BY DEF Events
<1>3. e.kind = "message" => /\ e.arg[1] \in Workers /\ e.arg[2] \in Nat
                            /\ e.arg = <<e.arg[1], e.arg[2]>>
  BY <1>2
<1> QED
  BY <1>1, <1>2, <1>3 DEF Message

LEMMA EventMade ==
    /\ \A w \in Workers, n \in Nat : Message(w, n) \in Events
    /\ \A t \in Timeouts : [kind |-> "timer", arg |-> t] \in Events
    /\ \A k \in {"app", "script", "exception", "closeContext", "closeRuntime"} :
          [kind |-> k, arg |-> 0] \in Events
BY DEF Events, Message

LEMMA AppendFacts ==
    ASSUME NEW q \in Seq(Events), NEW e \in Events
    PROVE  /\ Append(q, e) \in Seq(Events)
           /\ Len(q) \in Nat
           /\ DOMAIN q = 1 .. Len(q)
           /\ DOMAIN Append(q, e) = 1 .. Len(q) + 1
           /\ \A i \in 1 .. Len(q) : Append(q, e)[i] = q[i]
           /\ Append(q, e)[Len(q) + 1] = e
OBVIOUS

LEMMA TailFacts ==
    ASSUME NEW q \in Seq(Events), q # << >>
    PROVE  /\ Tail(q) \in Seq(Events) /\ Head(q) \in Events
           /\ Len(q) \in Nat /\ Len(q) > 0
           /\ DOMAIN q = 1 .. Len(q)
           /\ DOMAIN Tail(q) = 1 .. Len(q) - 1
           /\ \A i \in 1 .. Len(q) - 1 : Tail(q)[i] = q[i + 1]
           /\ Head(q) = q[1]
OBVIOUS

LEMMA OtherPosted ==
    ASSUME NEW q \in Seq(Events), NEW e \in Events, NEW w \in Workers, ~OfWorker(w, e),
           NEW from \in Nat, NEW to \in Nat, HasInOrder(q, w, from, to)
    PROVE  HasInOrder(Append(q, e), w, from, to)
<1> DEFINE p == Append(q, e)
<1>1. /\ Len(q) \in Nat /\ DOMAIN q = 1 .. Len(q) /\ DOMAIN p = 1 .. Len(q) + 1
      /\ \A i \in 1 .. Len(q) : p[i] = q[i]
      /\ p[Len(q) + 1] = e
  BY AppendFacts
<1> HIDE DEF p
<1>2. ASSUME NEW n \in from .. to
      PROVE  \E i \in DOMAIN p : p[i] = Message(w, n)
  <2>1. PICK i \in DOMAIN q : q[i] = Message(w, n)
    BY DEF HasInOrder
  <2> QED
    BY <1>1, <2>1
<1>3. \A i \in DOMAIN p : OfWorker(w, p[i]) => i \in DOMAIN q /\ p[i] = q[i]
  BY <1>1
<1>4. \A i \in DOMAIN p : OfWorker(w, p[i]) => p[i].arg[2] \in from .. to
  BY <1>3 DEF HasInOrder
<1>5. ASSUME NEW i \in DOMAIN p, NEW j \in DOMAIN p, i < j, OfWorker(w, p[i]), OfWorker(w, p[j])
      PROVE  p[i].arg[2] < p[j].arg[2]
  BY <1>3, <1>5 DEF HasInOrder
<1> QED
  BY <1>2, <1>4, <1>5 DEF HasInOrder, p

LEMMA MessagePosted ==
    ASSUME NEW q \in Seq(Events), NEW w \in Workers,
           NEW from \in Nat, NEW to \in Nat, from <= to + 1, HasInOrder(q, w, from, to)
    PROVE  HasInOrder(Append(q, Message(w, to + 1)), w, from, to + 1)
<1> DEFINE e == Message(w, to + 1)
           p == Append(q, e)
<1>0. e \in Events /\ e.arg[2] = to + 1
  BY EventMade DEF Message
<1>1. /\ Len(q) \in Nat /\ DOMAIN q = 1 .. Len(q) /\ DOMAIN p = 1 .. Len(q) + 1
      /\ \A i \in 1 .. Len(q) : p[i] = q[i]
      /\ p[Len(q) + 1] = e
  BY <1>0, AppendFacts
<1> HIDE DEF p
<1>2. ASSUME NEW n \in from .. to + 1
      PROVE  \E i \in DOMAIN p : p[i] = Message(w, n)
  <2>1. CASE n = to + 1
    BY <1>1, <2>1
  <2>2. CASE n # to + 1
    <3>1. n \in from .. to
      BY <2>2
    <3>2. PICK i \in DOMAIN q : q[i] = Message(w, n)
      BY <3>1 DEF HasInOrder
    <3> QED
      BY <1>1, <3>2
  <2> QED
    BY <2>1, <2>2
<1>3. \A i \in DOMAIN p : \/ i \in DOMAIN q /\ p[i] = q[i]
                          \/ i = Len(q) + 1 /\ p[i].arg[2] = to + 1
  <2>1. \A i \in DOMAIN p : i \in DOMAIN q \/ i = Len(q) + 1
    BY <1>1
  <2> HIDE DEF e
  <2> QED
    BY <1>0, <1>1, <2>1
<1> HIDE DEF e
<1>4. ASSUME NEW i \in DOMAIN p, OfWorker(w, p[i])
      PROVE  p[i].arg[2] \in from .. to + 1 /\ (i # Len(q) + 1 => p[i].arg[2] < to + 1)
  <2>1. CASE i \in DOMAIN q /\ p[i] = q[i]
    <3>1. p[i].arg[2] \in from .. to
      BY <1>4, <2>1 DEF HasInOrder
    <3> QED
      BY <3>1
  <2>2. CASE i = Len(q) + 1 /\ p[i].arg[2] = to + 1
    BY <2>2
  <2> QED
    BY <1>3, <2>1, <2>2
<1>5. ASSUME NEW i \in DOMAIN p, NEW j \in DOMAIN p, i < j, OfWorker(w, p[i]), OfWorker(w, p[j])
      PROVE  p[i].arg[2] < p[j].arg[2]
  <2>1. i \in DOMAIN q /\ p[i] = q[i] /\ i # Len(q) + 1
    BY <1>1, <1>5
  <2>2. CASE j \in DOMAIN q /\ p[j] = q[j]
    BY <1>5, <2>1, <2>2 DEF HasInOrder
  <2>3. CASE j = Len(q) + 1 /\ p[j].arg[2] = to + 1
    BY <1>4, <1>5, <2>1, <2>3
  <2> QED
    BY <1>3, <2>2, <2>3
<1> QED
  BY <1>2, <1>4, <1>5 DEF HasInOrder, p, e

LEMMA OtherTaken ==
    ASSUME NEW q \in Seq(Events), q # << >>, NEW w \in Workers, ~OfWorker(w, Head(q)),
           NEW from \in Nat, NEW to \in Nat, HasInOrder(q, w, from, to)
    PROVE  HasInOrder(Tail(q), w, from, to)
<1> DEFINE p == Tail(q)
<1>1. /\ Len(q) \in Nat /\ Len(q) > 0 /\ DOMAIN q = 1 .. Len(q) /\ DOMAIN p = 1 .. Len(q) - 1
      /\ \A i \in 1 .. Len(q) - 1 : p[i] = q[i + 1]
      /\ Head(q) = q[1]
  BY TailFacts
<1> HIDE DEF p
<1>2. ASSUME NEW n \in from .. to
      PROVE  \E i \in DOMAIN p : p[i] = Message(w, n)
  <2>1. PICK i \in DOMAIN q : q[i] = Message(w, n)
    BY DEF HasInOrder
  <2>2. i # 1
    BY <1>1, <2>1 DEF OfWorker, Message
  <2>3. i - 1 \in DOMAIN p /\ p[i - 1] = q[i]
    BY <1>1, <2>2
  <2> QED
    BY <2>1, <2>3
<1>3. \A i \in DOMAIN p : i + 1 \in DOMAIN q /\ p[i] = q[i + 1]
  BY <1>1
<1>4. \A i \in DOMAIN p : OfWorker(w, p[i]) => p[i].arg[2] \in from .. to
  BY <1>3 DEF HasInOrder
<1>5. ASSUME NEW i \in DOMAIN p, NEW j \in DOMAIN p, i < j, OfWorker(w, p[i]), OfWorker(w, p[j])
      PROVE  p[i].arg[2] < p[j].arg[2]
  <2>1. i + 1 < j + 1
    BY <1>1, <1>5
  <2> QED
    BY <1>3, <1>5, <2>1 DEF HasInOrder
<1> QED
  BY <1>2, <1>4, <1>5 DEF HasInOrder, p

LEMMA MessageTaken ==
    ASSUME NEW q \in Seq(Events), q # << >>, NEW w \in Workers, OfWorker(w, Head(q)),
           NEW from \in Nat, NEW to \in Nat, HasInOrder(q, w, from, to)
    PROVE  /\ Head(q).arg[2] = from /\ from <= to
           /\ HasInOrder(Tail(q), w, from + 1, to)
<1> DEFINE p == Tail(q)
<1>1. /\ Len(q) \in Nat /\ Len(q) > 0 /\ DOMAIN q = 1 .. Len(q) /\ DOMAIN p = 1 .. Len(q) - 1
      /\ \A i \in 1 .. Len(q) - 1 : p[i] = q[i + 1]
      /\ Head(q) = q[1]
  BY TailFacts
<1> HIDE DEF p
<1>2. 1 \in DOMAIN q /\ q[1].arg[2] \in from .. to
  BY <1>1 DEF HasInOrder
<1>3. from <= to /\ from \in from .. to
  BY <1>2
<1>4. \A n, i : q[i] = Message(w, n) => OfWorker(w, q[i]) /\ q[i].arg[2] = n
  BY DEF OfWorker, Message
<1>5. q[1].arg[2] = from
  <2>1. PICK i \in DOMAIN q : q[i] = Message(w, from)
    BY <1>3 DEF HasInOrder
  <2>2. CASE i = 1
    BY <1>4, <2>1, <2>2
  <2>3. CASE i # 1
    <3>1. 1 < i
      BY <1>1, <2>3
    <3>2. q[1].arg[2] < q[i].arg[2]
      BY <1>1, <1>2, <1>4, <2>1, <3>1 DEF HasInOrder
    <3> QED
      BY <1>2, <1>4, <2>1, <3>2
  <2> QED
    BY <2>2, <2>3
<1>6. ASSUME NEW n \in from + 1 .. to
      PROVE  \E i \in DOMAIN p : p[i] = Message(w, n)
  <2>1. n \in from .. to /\ n # from
    OBVIOUS
  <2>2. PICK i \in DOMAIN q : q[i] = Message(w, n)
    BY <2>1 DEF HasInOrder
  <2>3. i # 1
    BY <1>4, <1>5, <2>1, <2>2
  <2>4. i - 1 \in DOMAIN p /\ p[i - 1] = q[i]
    BY <1>1, <2>3
  <2> QED
    BY <2>2, <2>4
<1>7. \A i \in DOMAIN p : i + 1 \in DOMAIN q /\ 1 < i + 1 /\ p[i] = q[i + 1]
  BY <1>1
<1>8. ASSUME NEW i \in DOMAIN p, OfWorker(w, p[i])
      PROVE  p[i].arg[2] \in from + 1 .. to
  <2>1. p[i].arg[2] \in from .. to /\ q[1].arg[2] < p[i].arg[2]
    BY <1>1, <1>2, <1>7, <1>8 DEF HasInOrder
  <2> QED
    BY <1>5, <2>1
<1>9. ASSUME NEW i \in DOMAIN p, NEW j \in DOMAIN p, i < j, OfWorker(w, p[i]), OfWorker(w, p[j])
      PROVE  p[i].arg[2] < p[j].arg[2]
  <2>1. i + 1 < j + 1
    BY <1>1, <1>9
  <2> QED
    BY <1>7, <1>9, <2>1 DEF HasInOrder
<1> QED
  BY <1>1, <1>3, <1>5, <1>6, <1>8, <1>9 DEF HasInOrder, p
-----------------------------------------------------------------------------
(***************************************************************************)
(* Types.                                                                  *)
(***************************************************************************)

LEMMA RuntimeParts ==
    /\ Main \in Runtimes
    /\ Main \notin Workers
    /\ \A w \in Workers : w \in Runtimes /\ w # Main
    /\ \A r \in Runtimes : r = Main \/ r \in Workers
BY LoopersAssumption DEF Runtimes

\* The thread of runtime r is at an event.
LEMMA AtEvent ==
    ASSUME TypeOK, NEW r \in Runtimes, queue[r] # << >>
    PROVE  /\ queue[r] \in Seq(Events) /\ Head(queue[r]) \in Events
           /\ Popped(r) \in [Runtimes -> Seq(Events)]
           /\ Popped(r)[r] = Tail(queue[r])
           /\ \A s \in Runtimes : s # r => Popped(r)[s] = queue[s]
<1>1. queue \in [Runtimes -> Seq(Events)] /\ queue[r] \in Seq(Events)
  BY DEF TypeOK, LoopersTypeOK
<1>2. Tail(queue[r]) \in Seq(Events) /\ Head(queue[r]) \in Events
  BY <1>1, TailFacts
<1> QED
  BY <1>1, <1>2 DEF Popped

LEMMA AtPost ==
    ASSUME TypeOK, NEW r \in Runtimes, NEW e \in Events
    PROVE  /\ queue[r] \in Seq(Events)
           /\ Posted(queue, r, e) \in [Runtimes -> Seq(Events)]
           /\ Posted(queue, r, e)[r] = Append(queue[r], e)
           /\ \A s \in Runtimes : s # r => Posted(queue, r, e)[s] = queue[s]
<1>1. queue \in [Runtimes -> Seq(Events)] /\ queue[r] \in Seq(Events)
  BY DEF TypeOK, LoopersTypeOK
<1>2. Append(queue[r], e) \in Seq(Events)
  BY <1>1, AppendFacts
<1> QED
  BY <1>1, <1>2 DEF Posted

\* Worker.close posts to some of the workers.
LEMMA AtClose ==
    ASSUME TypeOK, NEW ws \in SUBSET Workers, CloseWorkers(ws)
    PROVE  /\ queue' \in [Runtimes -> Seq(Events)] /\ terminate' \in [Workers -> BOOLEAN]
           /\ \A r \in Runtimes :
                \/ queue'[r] = queue[r]
                \/ r \in ws /\ queue'[r] = Append(queue[r], [kind |-> "closeRuntime", arg |-> 0])
           /\ \A w \in Workers : terminate'[w] <=> terminate[w] \/ w \in ws
<1> DEFINE e == [kind |-> "closeRuntime", arg |-> 0]
<1>1. e \in Events
  BY EventMade
<1>2. queue \in [Runtimes -> Seq(Events)]
  BY DEF TypeOK, LoopersTypeOK
<1>3. \A r \in Runtimes : Append(queue[r], e) \in Seq(Events) /\ queue[r] \in Seq(Events)
  BY <1>1, <1>2, AppendFacts
<1> HIDE DEF e
<1>4. queue' = [r \in Runtimes |->
                  IF r \in {w \in ws : ~terminate[w]} /\ Takes(r) THEN Append(queue[r], e) ELSE queue[r]]
  BY DEF CloseWorkers, e
<1>5. queue' \in [Runtimes -> Seq(Events)]
  BY <1>3, <1>4
<1>6. \A r \in Runtimes : queue'[r] = queue[r] \/ (r \in ws /\ queue'[r] = Append(queue[r], e))
  BY <1>4
<1>7. terminate' = [w \in Workers |-> terminate[w] \/ w \in ws]
  BY DEF CloseWorkers
<1> QED
  BY <1>5, <1>6, <1>7 DEF e

\* Appending to the record of a direction and a worker changes that one only.
LEMMA AddFacts ==
    ASSUME NEW f \in [Directions -> [Workers -> Seq(Nat)]], NEW d \in Directions,
           NEW w \in Workers, NEW n \in Nat
    PROVE  /\ Add(f, d, w, n) \in [Directions -> [Workers -> Seq(Nat)]]
           /\ Add(f, d, w, n)[d][w] = Append(f[d][w], n)
<1>1. Append(f[d][w], n) \in Seq(Nat)
  OBVIOUS
<1>2. [f[d] EXCEPT ![w] = Append(@, n)] \in [Workers -> Seq(Nat)]
  BY <1>1
<1> QED
  BY <1>1, <1>2 DEF Add

LEMMA AddOther ==
    ASSUME NEW f \in [Directions -> [Workers -> Seq(Nat)]], NEW d \in Directions,
           NEW w \in Workers, NEW n \in Nat, NEW c \in Directions, NEW v \in Workers,
           c # d \/ v # w
    PROVE  Add(f, d, w, n)[c][v] = f[c][v]
BY DEF Add

\* One message is recorded in heard or in missed, or none is.
LEMMA Recorded ==
    ASSUME TypeOK, NEW d \in Directions, NEW w \in Workers, NEW n \in Nat,
           heard' = heard \/ heard' = Add(heard, d, w, n),
           missed' = missed \/ missed' = Add(missed, d, w, n)
    PROVE  \A c \in Directions, v \in Workers : c # d \/ v # w =>
               heard'[c][v] = heard[c][v] /\ missed'[c][v] = missed[c][v]
<1>1. /\ heard \in [Directions -> [Workers -> Seq(Nat)]]
      /\ missed \in [Directions -> [Workers -> Seq(Nat)]]
  BY DEF TypeOK
<1>2. SUFFICES ASSUME NEW c \in Directions, NEW v \in Workers, c # d \/ v # w
               PROVE  heard'[c][v] = heard[c][v] /\ missed'[c][v] = missed[c][v]
  OBVIOUS
<1>3. Add(heard, d, w, n)[c][v] = heard[c][v]
  BY <1>1, <1>2, AddOther
<1>4. Add(missed, d, w, n)[c][v] = missed[c][v]
  BY <1>1, <1>2, AddOther
<1> QED
  BY <1>3, <1>4

LEMMA SentFacts ==
    ASSUME NEW f \in [Directions -> [Workers -> Nat]], NEW d \in Directions, NEW w \in Workers,
           NEW g, g = [f EXCEPT ![d][w] = @ + 1]
    PROVE  /\ g \in [Directions -> [Workers -> Nat]]
           /\ g[d][w] = f[d][w] + 1
           /\ \A c \in Directions, v \in Workers : c # d \/ v # w => g[c][v] = f[c][v]
<1>1. f[d][w] + 1 \in Nat
  OBVIOUS
<1>2. [f[d] EXCEPT ![w] = @ + 1] \in [Workers -> Nat]
  BY <1>1
<1> QED
  BY <1>1, <1>2

LEMMA TypeScript ==
    ASSUME TypeOK, NEW w \in Workers,
           \/ NewWorker(w) \/ NewWorkerInterrupted(w) \/ ListenToWorker(w)
           \/ Terminate(w) \/ ListenToMain(w) \/ ScriptThread(w)
    PROVE  TypeOK'
<1> USE DEF looperVars, timerVars, workerVars, messageVars, closeVars
<1>0. w \in Runtimes
  BY RuntimeParts
<1>1. CASE NewWorker(w)
  <2>1. engine' \in [Runtimes -> Engines] /\ context' \in [Runtimes -> Contexts]
    BY <1>0, <1>1 DEF NewWorker, TypeOK, LoopersTypeOK, Engines, Contexts
  <2>2. script' \in [Workers -> Scripts]
    BY <1>1 DEF NewWorker, TypeOK, Scripts
  <2>3. /\ DOMAIN workers' \subseteq Tags
        /\ \A x \in DOMAIN workers' : workers'[x] \in Workers
    BY <1>1 DEF NewWorker, TypeOK, Tags
  <2> QED
    BY <1>1, <2>1, <2>2, <2>3 DEF NewWorker, TypeOK, LoopersTypeOK, TimersTypeOK
<1>2. CASE NewWorkerInterrupted(w)
  <2>1. engine' \in [Runtimes -> Engines] /\ script' \in [Workers -> Scripts]
    BY <1>0, <1>2 DEF NewWorkerInterrupted, TypeOK, LoopersTypeOK, Engines, Scripts
  <2> QED
    BY <1>2, <2>1 DEF NewWorkerInterrupted, TypeOK, LoopersTypeOK, TimersTypeOK
<1>3. CASE ListenToWorker(w) \/ ListenToMain(w)
  <2>0. \E d \in Directions : listens' = [listens EXCEPT ![d] = listens[d] \cup {w}]
    BY <1>3 DEF ListenToWorker, ListenToMain, Directions
  <2>1. listens' \in [Directions -> SUBSET Workers]
    BY <2>0 DEF TypeOK
  <2> QED
    BY <1>3, <2>1 DEF ListenToWorker, ListenToMain, TypeOK, LoopersTypeOK, TimersTypeOK
<1>4. CASE Terminate(w)
  <2>1. queue' \in [Runtimes -> Seq(Events)] /\ terminate' \in [Workers -> BOOLEAN]
    BY <1>4, AtClose DEF Terminate
  <2> QED
    BY <1>4, <2>1 DEF Terminate, TypeOK, LoopersTypeOK, TimersTypeOK
<1>5. CASE ScriptThread(w)
  <2>1. PICK from \in Scripts, to \in Scripts, k \in {"script", "exception"} : Ask(w, from, to, k)
    BY <1>5 DEF ScriptThread, StartScript, CheckException, Scripts
  <2>2. [kind |-> k, arg |-> 0] \in Events
    BY EventMade
  <2>3. queue' \in [Runtimes -> Seq(Events)] /\ script' \in [Workers -> Scripts]
    <3>1. CASE Takes(w)
      <4>1. queue' = Posted(queue, w, [kind |-> k, arg |-> 0])
        BY <2>1, <3>1 DEF Ask
      <4>2. queue' \in [Runtimes -> Seq(Events)]
        BY <1>0, <2>2, <4>1, AtPost
      <4> QED
        BY <2>1, <3>1, <4>2 DEF Ask, TypeOK
    <3>2. CASE ~Takes(w)
      BY <2>1, <3>2 DEF Ask, TypeOK, LoopersTypeOK, Scripts
    <3> QED
      BY <3>1, <3>2
  <2> QED
    BY <2>1, <2>3 DEF Ask, TypeOK, LoopersTypeOK, TimersTypeOK
<1> QED
  BY <1>1, <1>2, <1>3, <1>4, <1>5

LEMMA TypeSend ==
    ASSUME TypeOK, NEW w \in Workers, SendToWorker(w) \/ SendToMain(w)
    PROVE  TypeOK'
<1> USE DEF looperVars, timerVars, workerVars, messageVars, closeVars
<1>1. CASE SendToWorker(w)
  <2>1. sent' \in [Directions -> [Workers -> Nat]] /\ sent'["toWorker"][w] \in Nat
    <3>1. /\ "toWorker" \in Directions /\ sent \in [Directions -> [Workers -> Nat]]
          /\ sent' = [sent EXCEPT !["toWorker"][w] = @ + 1]
      BY <1>1 DEF SendToWorker, TypeOK, Directions
    <3> QED
      BY <3>1, SentFacts
  <2>2. Message(w, sent'["toWorker"][w]) \in Events
    BY <2>1, EventMade
  <2>3. queue' \in [Runtimes -> Seq(Events)]
    BY <1>1, <2>2, AtPost, RuntimeParts DEF SendToWorker
  <2> QED
    BY <1>1, <2>1, <2>3 DEF SendToWorker, TypeOK, LoopersTypeOK, TimersTypeOK
<1>2. CASE SendToMain(w) /\ Reachable(Main)
  <2>1. sent' \in [Directions -> [Workers -> Nat]] /\ sent'["toMain"][w] \in Nat
    <3>1. /\ "toMain" \in Directions /\ sent \in [Directions -> [Workers -> Nat]]
          /\ sent' = [sent EXCEPT !["toMain"][w] = @ + 1]
      BY <1>2 DEF SendToMain, TypeOK, Directions
    <3> QED
      BY <3>1, SentFacts
  <2>2. Message(w, sent'["toMain"][w]) \in Events
    BY <2>1, EventMade
  <2>3. queue' \in [Runtimes -> Seq(Events)]
    BY <1>2, <2>2, AtPost, RuntimeParts DEF SendToMain
  <2> QED
    BY <1>2, <2>1, <2>3 DEF SendToMain, TypeOK, LoopersTypeOK, TimersTypeOK
<1>3. CASE SendToMain(w) /\ ~Reachable(Main)
  <2>1. death' \in [Runtimes -> Deaths]
    BY <1>3 DEF SendToMain, TypeOK, LoopersTypeOK, Deaths
  <2> QED
    BY <1>3, <2>1 DEF SendToMain, TypeOK, LoopersTypeOK, TimersTypeOK
<1> QED
  BY <1>1, <1>2, <1>3

\* What an event does to its runtime: nothing, a call of a function, or an end.
LEMMA EventEnds ==
    ASSUME TypeOK, NEW r \in Runtimes, queue[r] # << >>,
           Skip(r) \/ Enter(r) \/ \E cause \in Deaths : Die(r, cause)
    PROVE  /\ LoopersTypeOK(Events)'
           /\ queue' = Popped(r)
           /\ \A s \in Runtimes : /\ s # r => doing'[s] = doing[s]
                                  /\ death'[s] # death[s] => s = r
           /\ doing'[r] \in {doing[r], "script"}
           /\ UNCHANGED <<handler, engine, context>>
<1>1. queue' = Popped(r) /\ UNCHANGED <<handler, engine, context>>
  BY DEF Skip, Enter, Die
<1>2. queue' \in [Runtimes -> Seq(Events)]
  BY <1>1, AtEvent
<1>3. doing' \in [Runtimes -> Doings] /\ death' \in [Runtimes -> Deaths]
  BY DEF Skip, Enter, Die, TypeOK, LoopersTypeOK, Doings
<1>4. /\ \A s \in Runtimes : /\ s # r => doing'[s] = doing[s]
                             /\ death'[s] # death[s] => s = r
      /\ doing'[r] \in {doing[r], "script"}
  BY DEF Skip, Enter, Die, TypeOK, LoopersTypeOK
<1> QED
  BY <1>1, <1>2, <1>3, <1>4 DEF TypeOK, LoopersTypeOK

LEMMA MapCount == MapSize \in Nat
<1>1. IsFiniteSet(Runtimes)
  BY WorkersAssumption, FS_AddElement DEF Runtimes
<1>2. IsFiniteSet({r \in Runtimes : context[r] = "open"})
  BY <1>1, FS_Subset
<1> QED
  BY <1>2, FS_CardinalityType DEF MapSize

LEMMA TypeEvent ==
    ASSUME TypeOK,
           \/ RunAppScript \/ HearFromWorker
           \/ \E w \in Workers : RunScript(w) \/ GetException(w) \/ HearFromMain(w)
           \/ \E r \in Runtimes : EndScript(r)
    PROVE  TypeOK'
<1> USE DEF looperVars, timerVars, workerVars, messageVars, closeVars
<1>0. {"message", "timer", "script", "exception", "post"} \subseteq Deaths
  BY DEF Deaths
<1>1. CASE RunAppScript
  <2>1. LoopersTypeOK(Events)'
    BY <1>1, EventEnds, RuntimeParts DEF RunAppScript, Handles
  <2> QED
    BY <1>1, <2>1 DEF RunAppScript, TypeOK, TimersTypeOK
<1>2. ASSUME NEW w \in Workers, RunScript(w) \/ GetException(w)
      PROVE  TypeOK'
  <2>1. LoopersTypeOK(Events)'
    BY <1>0, <1>2, EventEnds, RuntimeParts DEF RunScript, GetException, Handles
  <2>2. script' \in [Workers -> Scripts]
    BY <1>2 DEF RunScript, GetException, TypeOK, Scripts
  <2> QED
    BY <1>2, <2>1, <2>2 DEF RunScript, GetException, TypeOK, TimersTypeOK
<1>3. ASSUME NEW w \in Workers, HearFromMain(w)
      PROVE  TypeOK'
  <2> DEFINE n == Head(queue[w]).arg[2]
  <2>1. w \in Runtimes /\ queue[w] # << >> /\ Head(queue[w]).kind = "message"
    BY <1>3, RuntimeParts DEF HearFromMain, Handles
  <2>2. n \in Nat
    BY <2>1, AtEvent, EventParts
  <2>3. \/ (Skip(w) \/ Die(w, "message")) /\ UNCHANGED <<heard, missed>>
        \/ Enter(w) /\ heard' = Add(heard, "toWorker", w, n) /\ UNCHANGED missed
        \/ Skip(w) /\ missed' = Add(missed, "toWorker", w, n) /\ UNCHANGED heard
    BY <1>3 DEF HearFromMain
  <2>4. LoopersTypeOK(Events)'
    BY <1>0, <2>1, <2>3, EventEnds
  <2>5. /\ heard' \in [Directions -> [Workers -> Seq(Nat)]]
        /\ missed' \in [Directions -> [Workers -> Seq(Nat)]]
    <3>1. "toWorker" \in Directions
      BY DEF Directions
    <3>2. /\ heard \in [Directions -> [Workers -> Seq(Nat)]]
          /\ missed \in [Directions -> [Workers -> Seq(Nat)]]
      BY DEF TypeOK
    <3> HIDE DEF n
    <3>3. /\ Add(heard, "toWorker", w, n) \in [Directions -> [Workers -> Seq(Nat)]]
          /\ Add(missed, "toWorker", w, n) \in [Directions -> [Workers -> Seq(Nat)]]
      BY <2>2, <3>1, <3>2, AddFacts
    <3> QED
      BY <2>3, <3>2, <3>3
  <2> QED
    BY <1>3, <2>4, <2>5 DEF HearFromMain, TypeOK, TimersTypeOK
<1>4. CASE HearFromWorker
  <2> DEFINE w == Head(queue[Main]).arg[1]
             n == Head(queue[Main]).arg[2]
  <2>1. Main \in Runtimes /\ queue[Main] # << >> /\ Head(queue[Main]).kind = "message"
    BY <1>4, RuntimeParts DEF HearFromWorker, Handles
  <2>2. n \in Nat /\ w \in Workers
    BY <2>1, AtEvent, EventParts
  <2>3. \/ (Skip(Main) \/ Die(Main, "message")) /\ UNCHANGED <<heard, missed>>
        \/ Enter(Main) /\ heard' = Add(heard, "toMain", w, n) /\ UNCHANGED missed
        \/ Skip(Main) /\ missed' = Add(missed, "toMain", w, n) /\ UNCHANGED heard
    BY <1>4 DEF HearFromWorker
  <2>4. LoopersTypeOK(Events)'
    BY <1>0, <2>1, <2>3, EventEnds
  <2>5. /\ heard' \in [Directions -> [Workers -> Seq(Nat)]]
        /\ missed' \in [Directions -> [Workers -> Seq(Nat)]]
    <3>1. "toMain" \in Directions
      BY DEF Directions
    <3>2. /\ heard \in [Directions -> [Workers -> Seq(Nat)]]
          /\ missed \in [Directions -> [Workers -> Seq(Nat)]]
      BY DEF TypeOK
    <3> HIDE DEF n, w
    <3>3. /\ Add(heard, "toMain", w, n) \in [Directions -> [Workers -> Seq(Nat)]]
          /\ Add(missed, "toMain", w, n) \in [Directions -> [Workers -> Seq(Nat)]]
      BY <2>2, <3>1, <3>2, AddFacts
    <3> QED
      BY <2>3, <3>2, <3>3
  <2> QED
    BY <1>4, <2>4, <2>5 DEF HearFromWorker, TypeOK, TimersTypeOK
<1>5. ASSUME NEW r \in Runtimes, EndScript(r)
      PROVE  TypeOK'
  <2>1. LoopersTypeOK(Events)'
    BY <1>5 DEF EndScript, Return, TypeOK, LoopersTypeOK, Doings
  <2>2. script' \in [Workers -> Scripts]
    BY <1>5 DEF EndScript, TypeOK, Scripts
  <2> QED
    BY <1>5, <2>1, <2>2 DEF EndScript, TypeOK, TimersTypeOK
<1> QED
  BY <1>1, <1>2, <1>3, <1>4, <1>5

\* QuickJS.close, and JSContext.close of the application's context.
LEMMA TypeCloseRuntime ==
    ASSUME TypeOK,
           \/ \E r \in Runtimes : CloseSize(r)
           \/ \E w \in Workers : CloseWorkerRuntime(w)
           \/ CloseContext \/ CloseRuntime
    PROVE  TypeOK'
<1> USE DEF looperVars, timerVars, workerVars, messageVars, closeVars
<1>1. ASSUME NEW r \in Runtimes, CloseSize(r)
      PROVE  TypeOK'
  <2>1. queue' \in [Runtimes -> Seq(Events)]
    BY <1>1, AtEvent DEF CloseSize, Handles, Skip
  <2>2. doing' \in [Runtimes -> Doings]
    <3>1. doing \in [Runtimes -> Doings] /\ "sizing" \in Doings
      BY DEF TypeOK, LoopersTypeOK, Doings
    <3>2. doing' = doing \/ doing' = [doing EXCEPT ![r] = "sizing"]
      BY <1>1 DEF CloseSize, Skip
    <3> QED
      BY <3>1, <3>2
  <2>3. sized' \in [Runtimes -> Nat]
    BY <1>1, MapCount DEF CloseSize, TypeOK
  <2>4. UNCHANGED <<handler, engine, context, death>>
    BY <1>1 DEF CloseSize, Skip
  <2> QED
    BY <1>1, <2>1, <2>2, <2>3, <2>4 DEF CloseSize, TypeOK, LoopersTypeOK, TimersTypeOK
<1>2. ASSUME NEW w \in Workers, CloseWorkerRuntime(w)
      PROVE  TypeOK'
  <2>1. /\ engine' \in [Runtimes -> Engines] /\ context' \in [Runtimes -> Contexts]
        /\ doing' \in [Runtimes -> Doings]
    BY <1>2 DEF CloseWorkerRuntime, TypeOK, LoopersTypeOK, Engines, Contexts, Doings
  <2>2. sized' \in [Runtimes -> Nat] /\ broken' \subseteq Workers
    BY <1>2 DEF CloseWorkerRuntime, TypeOK
  <2> QED
    BY <1>2, <2>1, <2>2 DEF CloseWorkerRuntime, TypeOK, LoopersTypeOK, TimersTypeOK
<1>3. ASSUME NEW what \in {"closeContext", "closeRuntime"}, VisitPlugins(what), UNCHANGED plugins
      PROVE  /\ doing' \in [Runtimes -> Doings] /\ visiting' \subseteq plugins' /\ modified' \in BOOLEAN
             /\ closing' \in {"none", "closeContext", "closeRuntime"}
  BY <1>3 DEF VisitPlugins, TypeOK, LoopersTypeOK, Doings
<1>4. CASE CloseContext
  <2>1. queue' \in [Runtimes -> Seq(Events)]
    BY <1>4, AtEvent, RuntimeParts DEF CloseContext, Handles
  <2>2. /\ doing' \in [Runtimes -> Doings] /\ visiting' \subseteq plugins' /\ modified' \in BOOLEAN
        /\ closing' \in {"none", "closeContext", "closeRuntime"}
    BY <1>3, <1>4 DEF CloseContext, TypeOK, LoopersTypeOK
  <2> QED
    BY <1>4, <2>1, <2>2 DEF CloseContext, TypeOK, LoopersTypeOK, TimersTypeOK
<1>5. CASE CloseRuntime
  <2>1. /\ visiting' \subseteq plugins' /\ modified' \in BOOLEAN
        /\ closing' \in {"none", "closeContext", "closeRuntime"}
    BY <1>3, <1>5 DEF CloseRuntime, TypeOK
  <2>2. doing' \in [Runtimes -> Doings]
    <3>1. doing \in [Runtimes -> Doings] /\ {"idle", "closing"} \subseteq Doings
      BY DEF TypeOK, LoopersTypeOK, Doings
    <3>2. \E d \in {"idle", "closing"} : doing' = [doing EXCEPT ![Main] = d]
      BY <1>5 DEF CloseRuntime, VisitPlugins
    <3> QED
      BY <3>1, <3>2
  <2>4. engine' \in [Runtimes -> Engines]
    BY <1>5 DEF CloseRuntime, TypeOK, LoopersTypeOK, Engines
  <2>3. sized' \in [Runtimes -> Nat]
    BY <1>5 DEF CloseRuntime, TypeOK
  <2> QED
    BY <1>5, <2>1, <2>2, <2>3, <2>4 DEF CloseRuntime, TypeOK, LoopersTypeOK, TimersTypeOK
<1> QED
  BY <1>1, <1>2, <1>4, <1>5

LEMMA TypeClose ==
    ASSUME TypeOK,
           \/ \E what \in {"closeContext", "closeRuntime"} : AskClose(what)
           \/ \E p \in plugins : CloseVisit(p)
           \/ CloseThrows \/ CloseEnd \/ AppScript \/ AddPlugin
    PROVE  TypeOK'
<1> USE DEF looperVars, timerVars, workerVars, messageVars, closeVars
<1>2. ASSUME NEW what \in {"closeContext", "closeRuntime"}, AskClose(what)
      PROVE  TypeOK'
  <2>1. [kind |-> what, arg |-> 0] \in Events
    BY EventMade
  <2>2. queue' \in [Runtimes -> Seq(Events)]
    BY <1>2, <2>1, AtPost, RuntimeParts DEF AskClose
  <2>3. closes' \in 0 .. scene'.closes
    <3>1. scene.closes \in Nat
      BY WorkersAssumption DEF TypeOK, SceneType
    <3> QED
      BY <1>2, <3>1 DEF AskClose, TypeOK
  <2> QED
    BY <1>2, <2>2, <2>3 DEF AskClose, TypeOK, LoopersTypeOK, TimersTypeOK
<1>3. ASSUME NEW p \in plugins, CloseVisit(p)
      PROVE  TypeOK'
  <2>1. queue' \in [Runtimes -> Seq(Events)] /\ terminate' \in [Workers -> BOOLEAN]
    <3>1. {workers[x] : x \in DOMAIN workers} \in SUBSET Workers
      BY DEF TypeOK
    <3>2. CASE p = "WorkerPlugin"
      BY <1>3, <3>1, <3>2, AtClose DEF CloseVisit
    <3>3. CASE p # "WorkerPlugin"
      BY <1>3, <3>3 DEF CloseVisit, TypeOK, LoopersTypeOK
    <3> QED
      BY <3>2, <3>3
  <2>2. visiting' \subseteq plugins' /\ plugins' = plugins
    BY <1>3 DEF CloseVisit, TypeOK
  <2> QED
    BY <1>3, <2>1, <2>2 DEF CloseVisit, TypeOK, LoopersTypeOK, TimersTypeOK
<1>4. CASE CloseThrows
  <2>1. doing' \in [Runtimes -> Doings]
    BY <1>4 DEF CloseThrows, TypeOK, LoopersTypeOK, Doings
  <2> QED
    BY <1>4, <2>1 DEF CloseThrows, TypeOK, LoopersTypeOK, TimersTypeOK
<1>5. CASE CloseEnd
  <2>1. /\ doing' \in [Runtimes -> Doings] /\ context' \in [Runtimes -> Contexts]
        /\ engine' \in [Runtimes -> Engines]
    BY <1>5 DEF CloseEnd, TypeOK, LoopersTypeOK, Doings, Contexts, Engines
  <2> QED
    BY <1>5, <2>1 DEF CloseEnd, TypeOK, LoopersTypeOK, TimersTypeOK
<1>6. CASE AppScript
  <2>1. [kind |-> "app", arg |-> 0] \in Events
    BY EventMade
  <2>2. queue' \in [Runtimes -> Seq(Events)]
    BY <1>6, <2>1, AtPost, RuntimeParts DEF AppScript
  <2> QED
    BY <1>6, <2>2 DEF AppScript, TypeOK, LoopersTypeOK, TimersTypeOK
<1>7. CASE AddPlugin
  BY <1>7 DEF AddPlugin, TypeOK, LoopersTypeOK, TimersTypeOK
<1> QED
  BY <1>2, <1>3, <1>4, <1>5, <1>6, <1>7

LEMMA TypeTimer ==
    ASSUME TypeOK, UNCHANGED <<workerVars, messageVars, closeVars>>,
           \/ \E r \in Runtimes : Fire(r)
           \/ \E r \in Runtimes, t \in Timeouts, d \in Delays : SetTimeout(r, t, d)
           \/ \E t \in Timeouts : Wake(t)
    PROVE  TypeOK'
<1> USE DEF looperVars, timerVars, workerVars, messageVars, closeVars
<1>1. ASSUME LoopersTypeOK(Events)', TimersTypeOK'
      PROVE  TypeOK'
  BY <1>1 DEF TypeOK
<1>2. ASSUME NEW r \in Runtimes, Fire(r)
      PROVE  TypeOK'
  <2>1. LoopersTypeOK(Events)'
    BY <1>2, EventEnds DEF Fire, Handles
  <2>2. Head(queue[r]).arg \in Timeouts
    BY <1>2, AtEvent, EventParts DEF Fire, Handles
  <2>3. TimersTypeOK'
    BY <1>2, <2>2 DEF Fire, TypeOK, TimersTypeOK, Stages
  <2> QED
    BY <1>1, <2>1, <2>3
<1>3. ASSUME NEW r \in Runtimes, NEW t \in Timeouts, NEW d \in Delays, SetTimeout(r, t, d)
      PROVE  TypeOK'
  <2>1. Started(d) \in Stages
    BY WorkersAssumption DEF Started, Stages
  <2>2. TimersTypeOK' /\ LoopersTypeOK(Events)'
    BY <1>3, <2>1 DEF SetTimeout, TypeOK, TimersTypeOK, LoopersTypeOK
  <2> QED
    BY <1>1, <2>2
<1>4. ASSUME NEW t \in Timeouts, Wake(t)
      PROVE  TypeOK'
  <2>1. owner[t] \in Runtimes /\ [kind |-> "timer", arg |-> t] \in Events
    BY EventMade DEF TypeOK, TimersTypeOK
  <2>2. queue' \in [Runtimes -> Seq(Events)]
    BY <1>4, <2>1, AtPost DEF Wake, TypeOK, LoopersTypeOK
  <2>3. LoopersTypeOK(Events)'
    BY <1>4, <2>2 DEF Wake, TypeOK, LoopersTypeOK
  <2>4. \E s \in {"dropped", "dead", "posted"} : timer' = [timer EXCEPT ![t] = s]
    BY <1>4 DEF Wake
  <2>5. TimersTypeOK'
    BY <1>4, <2>4 DEF Wake, TypeOK, TimersTypeOK, Stages
  <2> QED
    BY <1>1, <2>3, <2>5
<1> QED
  BY <1>2, <1>3, <1>4

LEMMA TypeStep ==
    ASSUME TypeOK, [Next]_vars
    PROVE  TypeOK'
<1>1. CASE UNCHANGED vars
  BY <1>1 DEF vars, looperVars, timerVars, workerVars, messageVars, closeVars, TypeOK,
              LoopersTypeOK, TimersTypeOK
<1>2. ASSUME NEW r \in Runtimes, HandleEvent(r)
      PROVE  TypeOK'
  BY <1>2, TypeTimer, TypeEvent, TypeCloseRuntime, TypeClose DEF HandleEvent
<1>3. CASE ScriptStep
  BY <1>3, TypeTimer, TypeScript, TypeSend DEF ScriptStep
<1>4. ASSUME NEW t \in Timeouts, TimerThread(t)
      PROVE  TypeOK'
  BY <1>4, TypeTimer DEF TimerThread
<1> QED
  BY <1>1, <1>2, <1>3, <1>4, TypeScript, TypeClose DEF Next

\* Every variable has its type, in every reachable state of every instance.
THEOREM TypeCorrect == Spec => []TypeOK
<1>1. Init => TypeOK
  <2> SUFFICES ASSUME Init PROVE TypeOK
    OBVIOUS
  <2>1. scene \in SceneType /\ handler \in BOOLEAN
    BY WorkersAssumption DEF Init, LoopersInit, SceneType
  <2>2. LoopersTypeOK(Events) /\ TimersTypeOK
    BY <2>1, RuntimeParts DEF Init, LoopersInit, LoopersTypeOK, Engines, Contexts, Doings, Deaths,
                              TimersInit, TimersTypeOK, Stages
  <2>3. closes \in 0 .. scene.closes
    BY <2>1 DEF Init, SceneType
  <2>4. DOMAIN workers = {}
    BY DEF Init
  <2>5. /\ heard \in [Directions -> [Workers -> Seq(Nat)]]
        /\ missed \in [Directions -> [Workers -> Seq(Nat)]]
    BY DEF Init
  <2> QED
    BY <2>2, <2>3, <2>4, <2>5 DEF Init, TypeOK, Scripts
<1>2. TypeOK /\ [Next]_vars => TypeOK'
  BY TypeStep
<1> QED
  BY <1>1, <1>2, PTL DEF Spec

-----------------------------------------------------------------------------
(***************************************************************************)
(* What is in a queue, what is released, and what ends a Looper.           *)
(***************************************************************************)

LEMMA Posting ==
    ASSUME TypeOK, NEW r \in Runtimes, NEW e \in Events, queue' = Posted(queue, r, e)
    PROVE  /\ \A s \in Runtimes : s # r => queue'[s] = queue[s]
           /\ Entries(queue'[r]) = Entries(queue[r]) \cup {e}
<1>1. queue[r] \in Seq(Events) /\ queue'[r] = Append(queue[r], e)
  BY AtPost
<1>2. /\ Len(queue[r]) \in Nat /\ DOMAIN queue[r] = 1 .. Len(queue[r])
      /\ DOMAIN queue'[r] = 1 .. Len(queue[r]) + 1
      /\ \A i \in 1 .. Len(queue[r]) : queue'[r][i] = queue[r][i]
      /\ queue'[r][Len(queue[r]) + 1] = e
  BY <1>1, AppendFacts
<1>3. \A i \in 1 .. Len(queue[r]) + 1 : i \in 1 .. Len(queue[r]) \/ i = Len(queue[r]) + 1
  BY <1>2
<1>4. Entries(queue'[r]) \subseteq Entries(queue[r]) \cup {e}
  BY <1>2, <1>3 DEF Entries
<1>5. Entries(queue[r]) \cup {e} \subseteq Entries(queue'[r])
  BY <1>2 DEF Entries
<1> QED
  BY <1>4, <1>5, AtPost

LEMMA Popping ==
    ASSUME TypeOK, NEW r \in Runtimes, queue[r] # << >>, queue' = Popped(r)
    PROVE  /\ \A s \in Runtimes : s # r => queue'[s] = queue[s]
           /\ Entries(queue'[r]) \subseteq Entries(queue[r])
           /\ Head(queue[r]) \in Entries(queue[r])
<1>1. queue[r] \in Seq(Events) /\ queue'[r] = Tail(queue[r])
  BY AtEvent
<1>2. /\ Len(queue[r]) \in Nat /\ Len(queue[r]) > 0
      /\ DOMAIN queue[r] = 1 .. Len(queue[r]) /\ DOMAIN queue'[r] = 1 .. Len(queue[r]) - 1
      /\ \A i \in 1 .. Len(queue[r]) - 1 : queue'[r][i] = queue[r][i + 1]
      /\ Head(queue[r]) = queue[r][1]
  BY <1>1, TailFacts
<1>3. Entries(queue'[r]) \subseteq Entries(queue[r])
  <2>1. \A i \in 1 .. Len(queue[r]) - 1 : i + 1 \in 1 .. Len(queue[r])
    BY <1>2
  <2> QED
    BY <1>2, <2>1 DEF Entries
<1>4. 1 \in DOMAIN queue[r]
  BY <1>2
<1> QED
  BY <1>2, <1>3, <1>4, AtEvent DEF Entries

LEMMA SafeScript ==
    ASSUME TypeOK, SafeInv, NEW w \in Workers,
           \/ NewWorker(w) \/ NewWorkerInterrupted(w) \/ ListenToWorker(w)
           \/ ListenToMain(w) \/ ScriptThread(w)
    PROVE  SafeInv'
<1> USE RuntimeParts DEF looperVars, timerVars, workerVars, messageVars, closeVars
<1>0. /\ script \in [Workers -> Scripts] /\ engine \in [Runtimes -> Engines]
      /\ context \in [Runtimes -> Contexts] /\ listens \in [Directions -> SUBSET Workers]
  BY DEF TypeOK, LoopersTypeOK
<1>1. CASE NewWorker(w)
  <2>1. \A v \in Workers : Fresh(v)' => Fresh(v) /\ v # w
    BY <1>0, <1>1 DEF NewWorker, Fresh
  <2>2. \A x \in DOMAIN workers' : workers'[x] = w \/ (x \in DOMAIN workers /\ workers'[x] = workers[x])
    BY <1>1 DEF NewWorker
  <2>3. FreshOK'
    BY <1>1, <2>1, <2>2 DEF NewWorker, SafeInv, FreshOK
  <2>4. EngineOK'
    BY <1>0, <1>1 DEF NewWorker, SafeInv, EngineOK
  <2>5. death[w] = "no"
    BY <1>1 DEF NewWorker, Fresh, SafeInv, FreshOK
  <2>6. LooperEnds'
    BY <1>0, <1>1, <2>5 DEF NewWorker, SafeInv, LooperEnds
  <2> QED
    BY <1>1, <2>3, <2>4, <2>6 DEF NewWorker, SafeInv, QueueOK, DeadOK, ListensOK
<1>2. CASE NewWorkerInterrupted(w)
  <2>1. \A v \in Workers : Fresh(v)' => Fresh(v)
    BY <1>0, <1>2 DEF NewWorkerInterrupted, Fresh
  <2>2. FreshOK'
    BY <1>2, <2>1 DEF NewWorkerInterrupted, SafeInv, FreshOK
  <2>3. context[w] = "none" /\ death[w] = "no"
    BY <1>2 DEF NewWorkerInterrupted, Fresh, SafeInv, FreshOK
  <2>4. EngineOK'
    BY <1>0, <1>2, <2>3 DEF NewWorkerInterrupted, SafeInv, EngineOK
  <2>5. LooperEnds'
    BY <1>0, <1>2, <2>3 DEF NewWorkerInterrupted, SafeInv, LooperEnds
  <2> QED
    BY <1>2, <2>2, <2>4, <2>5 DEF NewWorkerInterrupted, SafeInv, QueueOK, DeadOK, ListensOK
<1>3. CASE ListenToWorker(w) \/ ListenToMain(w)
  <2>1. \E d \in Directions : listens' = [listens EXCEPT ![d] = listens[d] \cup {w}]
    BY <1>3 DEF ListenToWorker, ListenToMain, Directions
  <2>2. ListensOK'
    <3>1. \A d \in Directions : listens[d] \subseteq listens'[d]
      BY <1>0, <2>1
    <3> QED
      BY <1>3, <3>1 DEF ListenToWorker, ListenToMain, SafeInv, ListensOK
  <2>3. UNCHANGED <<handler, queue, engine, context, doing, death, timer, owner, workers, terminate,
                    script, sent, heard, missed, broken>>
    BY <1>3 DEF ListenToWorker, ListenToMain
  <2> QED
    BY <2>2, <2>3 DEF SafeInv, FreshOK, Fresh, QueueOK, EngineOK, DeadOK, LooperEnds
<1>4. CASE ScriptThread(w)
  <2>0. PICK from \in Scripts, to \in Scripts, k \in {"script", "exception"} :
            Ask(w, from, to, k) /\ to \notin {"none", "orphan"}
    BY <1>4 DEF ScriptThread, StartScript, CheckException, Scripts
  <2>1. [kind |-> k, arg |-> 0] \in Events
    BY EventMade
  <2>2. /\ \A r \in Runtimes : r # w => queue'[r] = queue[r]
        /\ Entries(queue'[w]) \subseteq Entries(queue[w]) \cup {[kind |-> k, arg |-> 0]}
    BY <2>0, <2>1, Posting DEF Ask
  <2>3. \A v \in Workers : Fresh(v)' => Fresh(v) /\ v # w
    BY <1>0, <2>0 DEF Ask, Fresh
  <2>4. FreshOK'
    BY <2>0, <2>2, <2>3 DEF Ask, SafeInv, FreshOK
  <2>5. QueueOK'
    BY <2>0, <2>2 DEF Ask, SafeInv, QueueOK
  <2> QED
    BY <2>0, <2>4, <2>5 DEF Ask, SafeInv, EngineOK, DeadOK, ListensOK, LooperEnds
<1> QED
  BY <1>1, <1>2, <1>3, <1>4

LEMMA SafeSend ==
    ASSUME TypeOK, SafeInv, NEW w \in Workers, SendToWorker(w) \/ SendToMain(w)
    PROVE  SafeInv'
<1> USE RuntimeParts DEF looperVars, timerVars, workerVars, messageVars, closeVars
<1>0. sent \in [Directions -> [Workers -> Nat]] /\ {"toWorker", "toMain"} \subseteq Directions
  BY DEF TypeOK, Directions
<1>1. CASE SendToWorker(w)
  <2>1. /\ sent'["toWorker"][w] \in Nat
        /\ \A v \in Workers : v # w => sent'["toWorker"][v] = sent["toWorker"][v]
    <3>1. sent' = [sent EXCEPT !["toWorker"][w] = @ + 1]
      BY <1>1 DEF SendToWorker
    <3> QED
      BY <1>0, <3>1, SentFacts
  <2>2. Message(w, sent'["toWorker"][w]) \in Events
    BY <2>1, EventMade
  <2>3. /\ \A r \in Runtimes : r # w => queue'[r] = queue[r]
        /\ Entries(queue'[w]) = Entries(queue[w]) \cup {Message(w, sent'["toWorker"][w])}
    BY <1>1, <2>2, Posting DEF SendToWorker
  <2>4. \A v \in Workers : Fresh(v)' => Fresh(v) /\ v # w
    BY <1>1 DEF SendToWorker, Fresh, Made
  <2>5. FreshOK'
    BY <1>1, <2>1, <2>3, <2>4 DEF SendToWorker, SafeInv, FreshOK
  <2>6. QueueOK'
    BY <1>1, <2>3 DEF SendToWorker, SafeInv, QueueOK, Message
  <2> QED
    BY <1>1, <2>5, <2>6 DEF SendToWorker, SafeInv, EngineOK, DeadOK, ListensOK, LooperEnds
<1>2. CASE SendToMain(w) /\ Reachable(Main)
  <2>1. /\ sent'["toMain"][w] \in Nat
        /\ \A v \in Workers : sent'["toWorker"][v] = sent["toWorker"][v]
    <3>1. sent' = [sent EXCEPT !["toMain"][w] = @ + 1]
      BY <1>2 DEF SendToMain
    <3> QED
      BY <1>0, <3>1, SentFacts
  <2>2. Message(w, sent'["toMain"][w]) \in Events
    BY <2>1, EventMade
  <2>3. /\ \A r \in Runtimes : r # Main => queue'[r] = queue[r]
        /\ Entries(queue'[Main]) = Entries(queue[Main]) \cup {Message(w, sent'["toMain"][w])}
    BY <1>2, <2>2, Posting DEF SendToMain
  <2>4. FreshOK'
    BY <1>2, <2>1, <2>3 DEF SendToMain, SafeInv, FreshOK, Fresh
  <2>5. QueueOK'
    BY <1>2, <2>3 DEF SendToMain, SafeInv, QueueOK, Reachable
  <2> QED
    BY <1>2, <2>4, <2>5 DEF SendToMain, SafeInv, EngineOK, DeadOK, ListensOK, LooperEnds
<1>3. CASE SendToMain(w) /\ ~Reachable(Main)
  <2>1. death' = [death EXCEPT ![w] = "post"] /\ ~handler /\ death \in [Runtimes -> Deaths]
    BY <1>3 DEF SendToMain, Reachable, TypeOK, LoopersTypeOK
  <2>2. LooperEnds' /\ DeadOK'
    BY <1>3, <2>1 DEF SendToMain, SafeInv, LooperEnds, DeadOK
  <2>3. FreshOK'
    BY <1>3, <2>1 DEF SendToMain, SafeInv, FreshOK, Fresh
  <2> QED
    BY <1>3, <2>2, <2>3 DEF SendToMain, SafeInv, QueueOK, EngineOK, ListensOK
<1> QED
  BY <1>1, <1>2, <1>3

\* An event that does nothing or calls a function leaves all of this as it is.
LEMMA SafeTake ==
    ASSUME TypeOK, SafeInv, NEW r \in Runtimes, queue[r] # << >>, death[r] = "no",
           Skip(r) \/ Enter(r),
           UNCHANGED <<owner, terminate, workers, listens, sent, broken>>,
           \A w \in Workers : Fresh(w)' => Fresh(w),
           \A d \in Directions, w \in Workers :
               /\ heard'[d][w] # heard[d][w] => Target(d, w) = r /\ w \in listens[d]
               /\ missed'[d][w] # missed[d][w] => Target(d, w) = r
    PROVE  SafeInv'
<1> USE RuntimeParts
<1>1. /\ \A s \in Runtimes : s # r => queue'[s] = queue[s]
      /\ Entries(queue'[r]) \subseteq Entries(queue[r])
  BY Popping DEF Skip, Enter
<1>2. /\ UNCHANGED <<handler, engine, context, death>>
      /\ \A s \in Runtimes : s # r => doing'[s] = doing[s]
      /\ doing'[r] \in {doing[r], "script"}
  BY EventEnds DEF Skip, Enter
<1>3. \A w \in Workers : Fresh(w)' => Fresh(w) /\ w # r
  BY DEF SafeInv, FreshOK
<1>4. FreshOK'
  <2> SUFFICES ASSUME NEW w \in Workers, Fresh(w)'
               PROVE  /\ queue'[w] = << >>
                      /\ sent'["toWorker"][w] = 0
                      /\ heard'["toWorker"][w] = << >> /\ missed'["toWorker"][w] = << >>
                      /\ doing'[w] = "idle" /\ context'[w] = "none" /\ death'[w] = "no"
                      /\ \A t \in Timeouts : owner'[t] # w
                      /\ \A x \in DOMAIN workers' : workers'[x] # w
    BY DEF FreshOK
  <2>1. heard'["toWorker"][w] = heard["toWorker"][w] /\ missed'["toWorker"][w] = missed["toWorker"][w]
    BY <1>3 DEF Target, Directions
  <2> QED
    BY <1>1, <1>2, <1>3, <2>1 DEF SafeInv, FreshOK
<1>5. QueueOK'
  BY <1>1, <1>2 DEF SafeInv, QueueOK
<1>6. EngineOK' /\ DeadOK' /\ LooperEnds'
  BY <1>2 DEF SafeInv, EngineOK, DeadOK, LooperEnds
<1>7. ListensOK'
  BY DEF SafeInv, ListensOK
<1> QED
  BY <1>4, <1>5, <1>6, <1>7 DEF SafeInv

\* An event ends the Looper in one of the ways of LooperEnds.
LEMMA SafeDie ==
    ASSUME TypeOK, SafeInv, NEW r \in Runtimes, queue[r] # << >>, doing[r] = "idle",
           NEW cause \in {"message", "script", "exception"}, Die(r, cause),
           IF cause = "message"
             THEN /\ context[r] = "closed" /\ engine[r] = "open"
                  /\ IF r = Main THEN handler ELSE r \in broken
             ELSE r \in Workers /\ terminate[r] /\ context[r] = "closed",
           UNCHANGED <<owner, terminate, workers, script, listens, sent, heard, missed, broken>>
    PROVE  SafeInv'
<1> USE RuntimeParts
<1>1. /\ \A s \in Runtimes : s # r => queue'[s] = queue[s]
      /\ Entries(queue'[r]) \subseteq Entries(queue[r])
  BY Popping DEF Die
<1>2. /\ UNCHANGED <<handler, engine, context, doing>>
      /\ death' = [death EXCEPT ![r] = cause] /\ death \in [Runtimes -> Deaths]
  BY DEF Die, TypeOK, LoopersTypeOK
<1>3. \A w \in Workers : Fresh(w)' => Fresh(w) /\ w # r
  BY DEF SafeInv, FreshOK, Fresh
<1>4. FreshOK'
  BY <1>1, <1>2, <1>3 DEF SafeInv, FreshOK
<1>5. QueueOK'
  BY <1>1, <1>2 DEF SafeInv, QueueOK
<1>6. DeadOK' /\ LooperEnds'
  BY <1>2 DEF SafeInv, DeadOK, LooperEnds
<1> QED
  BY <1>2, <1>4, <1>5, <1>6 DEF SafeInv, EngineOK, ListensOK

LEMMA SafeEvent ==
    ASSUME TypeOK, SafeInv,
           \/ RunAppScript \/ HearFromWorker
           \/ \E w \in Workers : RunScript(w) \/ GetException(w) \/ HearFromMain(w)
           \/ \E r \in Runtimes : EndScript(r)
           \/ \E r \in Runtimes : Fire(r) /\ UNCHANGED <<workerVars, messageVars, closeVars>>
    PROVE  SafeInv'
<1> USE RuntimeParts DEF looperVars, timerVars, workerVars, messageVars, closeVars
<1>0. /\ heard \in [Directions -> [Workers -> Seq(Nat)]]
      /\ missed \in [Directions -> [Workers -> Seq(Nat)]]
      /\ "toWorker" \in Directions /\ "toMain" \in Directions
  BY DEF TypeOK, Directions
<1>1. CASE RunAppScript
  BY <1>1, SafeTake DEF RunAppScript, Handles, Fresh
<1>2. ASSUME NEW w \in Workers, RunScript(w) \/ GetException(w)
      PROVE  SafeInv'
  <2>1. queue[w] # << >> /\ doing[w] = "idle" /\ death[w] = "no" /\ script \in [Workers -> Scripts]
    BY <1>2 DEF RunScript, GetException, Handles, TypeOK
  <2>2. \/ /\ Skip(w) \/ Enter(w)
           /\ \E s \in {"running", "returned", "done"} : script' = [script EXCEPT ![w] = s]
        \/ \E cause \in {"script", "exception"} :
              context[w] = "closed" /\ Die(w, cause) /\ UNCHANGED script
    BY <1>2 DEF RunScript, GetException
  <2>3. UNCHANGED <<owner, terminate, workers, listens, sent, heard, missed, broken>>
    BY <1>2 DEF RunScript, GetException
  <2>4. CASE /\ Skip(w) \/ Enter(w)
             /\ \E s \in {"running", "returned", "done"} : script' = [script EXCEPT ![w] = s]
    <3>1. \A v \in Workers : Fresh(v)' => Fresh(v)
      BY <2>1, <2>4 DEF Fresh
    <3> QED
      BY <2>1, <2>3, <2>4, <3>1, SafeTake
  <2>5. ASSUME NEW cause \in {"script", "exception"}, context[w] = "closed", Die(w, cause),
               UNCHANGED script
        PROVE  SafeInv'
    <3>1. terminate[w]
      BY <2>5 DEF SafeInv, EngineOK
    <3> QED
      BY <2>1, <2>3, <2>5, <3>1, SafeDie
  <2> QED
    BY <2>2, <2>4, <2>5
<1>3. ASSUME NEW w \in Workers, HearFromMain(w)
      PROVE  SafeInv'
  <2> DEFINE n == Head(queue[w]).arg[2]
  <2>1. /\ w \in Runtimes /\ queue[w] # << >> /\ Head(queue[w]).kind = "message"
        /\ doing[w] = "idle" /\ death[w] = "no"
    BY <1>3 DEF HearFromMain, Handles
  <2>2. n \in Nat
    BY <2>1, AtEvent, EventParts
  <2>3. \/ Skip(w) /\ UNCHANGED <<heard, missed>>
        \/ /\ Die(w, "message") /\ context[w] = "closed" /\ engine[w] = "open"
           /\ UNCHANGED <<heard, missed>>
        \/ /\ Enter(w) /\ w \in listens["toWorker"]
           /\ heard' = Add(heard, "toWorker", w, n) /\ UNCHANGED missed
        \/ Skip(w) /\ missed' = Add(missed, "toWorker", w, n) /\ UNCHANGED heard
    BY <1>3 DEF HearFromMain
  <2> HIDE DEF n
  <2>4. \A d \in Directions, v \in Workers : d # "toWorker" \/ v # w =>
           heard'[d][v] = heard[d][v] /\ missed'[d][v] = missed[d][v]
    BY <1>0, <2>2, <2>3, Recorded
  <2>5. heard'["toWorker"][w] # heard["toWorker"][w] => w \in listens["toWorker"]
    BY <2>3
  <2>6. \A d \in Directions, v \in Workers :
           /\ heard'[d][v] # heard[d][v] => Target(d, v) = w /\ v \in listens[d]
           /\ missed'[d][v] # missed[d][v] => Target(d, v) = w
    BY <2>4, <2>5 DEF Target
  <2>7. CASE Skip(w) \/ Enter(w)
    BY <1>3, <2>1, <2>6, <2>7, SafeTake DEF HearFromMain, Fresh
  <2>8. CASE /\ Die(w, "message") /\ context[w] = "closed" /\ engine[w] = "open"
             /\ UNCHANGED <<heard, missed>>
    <3>1. w \in broken
      BY <2>8 DEF SafeInv, EngineOK
    <3> QED
      BY <1>3, <2>1, <2>8, <3>1, SafeDie DEF HearFromMain
  <2> QED
    BY <2>3, <2>7, <2>8
<1>4. CASE HearFromWorker
  <2> DEFINE w == Head(queue[Main]).arg[1]
             n == Head(queue[Main]).arg[2]
  <2>1. /\ Main \in Runtimes /\ queue[Main] # << >> /\ Head(queue[Main]).kind = "message"
        /\ doing[Main] = "idle" /\ death[Main] = "no"
    BY <1>4 DEF HearFromWorker, Handles
  <2>2. n \in Nat /\ w \in Workers
    BY <2>1, AtEvent, EventParts
  <2>3. \/ Skip(Main) /\ UNCHANGED <<heard, missed>>
        \/ /\ Die(Main, "message") /\ context[Main] = "closed" /\ engine[Main] = "open"
           /\ UNCHANGED <<heard, missed>>
        \/ /\ Enter(Main) /\ w \in listens["toMain"]
           /\ heard' = Add(heard, "toMain", w, n) /\ UNCHANGED missed
        \/ Skip(Main) /\ missed' = Add(missed, "toMain", w, n) /\ UNCHANGED heard
    BY <1>4 DEF HearFromWorker
  <2> HIDE DEF n, w
  <2>4. CASE /\ Die(Main, "message") /\ context[Main] = "closed" /\ engine[Main] = "open"
             /\ UNCHANGED <<heard, missed>>
    <3>1. Head(queue[Main]) \in Entries(queue[Main])
      BY <2>1, <2>4, Popping DEF Die
    <3>2. handler
      BY <2>1, <3>1 DEF SafeInv, QueueOK
    <3> QED
      BY <1>4, <2>1, <2>4, <3>2, SafeDie DEF HearFromWorker
  <2>5. CASE Skip(Main) \/ Enter(Main)
    <3>1. \A d \in Directions, v \in Workers : d # "toMain" \/ v # w =>
             heard'[d][v] = heard[d][v] /\ missed'[d][v] = missed[d][v]
      BY <1>0, <2>2, <2>3, Recorded
    <3>2. heard'["toMain"][w] # heard["toMain"][w] => w \in listens["toMain"]
      BY <2>3
    <3>3. \A d \in Directions, v \in Workers :
             /\ heard'[d][v] # heard[d][v] => Target(d, v) = Main /\ v \in listens[d]
             /\ missed'[d][v] # missed[d][v] => Target(d, v) = Main
      BY <3>1, <3>2 DEF Target
    <3> QED
      BY <1>4, <2>1, <2>5, <3>3, SafeTake DEF HearFromWorker, Fresh
  <2> QED
    BY <2>3, <2>4, <2>5
<1>5. ASSUME NEW r \in Runtimes, EndScript(r)
      PROVE  SafeInv'
  <2>1. script \in [Workers -> Scripts] /\ doing \in [Runtimes -> Doings]
    BY DEF TypeOK, LoopersTypeOK
  <2>2. \A v \in Workers : Fresh(v)' => Fresh(v)
    BY <1>5, <2>1 DEF EndScript, Answers, Fresh
  <2>3. FreshOK'
    BY <1>5, <2>1, <2>2 DEF EndScript, Return, SafeInv, FreshOK
  <2>4. EngineOK' /\ DeadOK'
    BY <1>5, <2>1 DEF EndScript, Return, SafeInv, EngineOK, DeadOK
  <2> QED
    BY <1>5, <2>3, <2>4 DEF EndScript, Return, SafeInv, QueueOK, ListensOK, LooperEnds
<1>6. ASSUME NEW r \in Runtimes, Fire(r), UNCHANGED <<workerVars, messageVars, closeVars>>
      PROVE  SafeInv'
  <2>1. queue[r] # << >> /\ death[r] = "no" /\ (Skip(r) \/ Enter(r)) /\ UNCHANGED owner
    BY <1>6 DEF Fire, Handles
  <2> QED
    BY <1>6, <2>1, SafeTake DEF Fresh
<1> QED
  BY <1>1, <1>2, <1>3, <1>4, <1>5, <1>6

\* QuickJS.close, and JSContext.close of the application's context.
LEMMA SafeCloseRuntime ==
    ASSUME TypeOK, SafeInv,
           \/ \E r \in Runtimes : CloseSize(r)
           \/ \E w \in Workers : CloseWorkerRuntime(w)
           \/ CloseContext \/ CloseRuntime
    PROVE  SafeInv'
<1> USE RuntimeParts DEF looperVars, timerVars, workerVars, messageVars, closeVars
<1>0. /\ engine \in [Runtimes -> Engines] /\ context \in [Runtimes -> Contexts]
      /\ doing \in [Runtimes -> Doings] /\ sized \in [Runtimes -> Nat]
  BY DEF TypeOK, LoopersTypeOK
<1>1. ASSUME NEW r \in Runtimes, CloseSize(r)
      PROVE  SafeInv'
  <2>1. /\ queue[r] # << >> /\ Head(queue[r]).kind = "closeRuntime" /\ queue' = Popped(r)
        /\ death[r] = "no"
    BY <1>1 DEF CloseSize, Handles, Skip
  <2>2. /\ \A s \in Runtimes : s # r => queue'[s] = queue[s]
        /\ Entries(queue'[r]) \subseteq Entries(queue[r])
        /\ Head(queue[r]) \in Entries(queue[r])
    BY <2>1, Popping
  <2>3. /\ UNCHANGED <<handler, engine, context, death, owner, workers, terminate, script, listens,
                       sent, heard, missed, broken>>
        /\ \A s \in Runtimes : s # r => doing'[s] = doing[s]
        /\ doing'[r] \in {doing[r], "sizing"}
    BY <1>0, <1>1 DEF CloseSize, Skip
  <2>4. r \in Workers => terminate[r] /\ ~Fresh(r)
    BY <2>1, <2>2 DEF SafeInv, QueueOK, FreshOK
  <2>5. FreshOK'
    BY <2>2, <2>3, <2>4 DEF SafeInv, FreshOK, Fresh
  <2>6. QueueOK'
    BY <2>2, <2>3 DEF SafeInv, QueueOK
  <2>7. EngineOK' /\ DeadOK'
    BY <2>1, <2>3, <2>4 DEF SafeInv, EngineOK, DeadOK
  <2> QED
    BY <2>3, <2>5, <2>6, <2>7 DEF SafeInv, ListensOK, LooperEnds
<1>2. ASSUME NEW w \in Workers, CloseWorkerRuntime(w)
      PROVE  SafeInv'
  <2>1. terminate[w] /\ death[w] \in {"no", "post"} /\ ~Fresh(w)
    BY <1>2 DEF CloseWorkerRuntime, SafeInv, EngineOK, DeadOK, FreshOK
  <2>2. Fits(w) => Filled(w)
    BY <1>0, MapCount DEF Fits, Filled
  <2>3. /\ \A s \in Runtimes : s # w =>
             doing'[s] = doing[s] /\ engine'[s] = engine[s] /\ context'[s] = context[s]
        /\ doing'[w] = "idle" /\ broken \subseteq broken'
        /\ UNCHANGED <<handler, queue, death, owner, workers, terminate, script, listens,
                       sent, heard, missed>>
    BY <1>0, <1>2 DEF CloseWorkerRuntime
  <2>4. \/ context'[w] = "closed" /\ engine'[w] = "freed"
        \/ context'[w] = "closed" /\ w \in broken'
        \/ context'[w] = context[w] /\ engine'[w] = engine[w]
    BY <1>0, <1>2, <2>2 DEF CloseWorkerRuntime
  <2>5. FreshOK'
    BY <2>1, <2>3 DEF SafeInv, FreshOK, Fresh
  <2>6. EngineOK' /\ DeadOK'
    <3>1. context'[w] = "closed" /\ engine'[w] = "open" => w \in broken'
      BY <2>3, <2>4 DEF SafeInv, EngineOK
    <3>2. context'[w] = "open" => engine'[w] = "open"
      BY <2>4 DEF SafeInv, EngineOK
    <3> QED
      BY <2>1, <2>3, <3>1, <3>2 DEF SafeInv, EngineOK, DeadOK
  <2>7. LooperEnds'
    BY <2>1, <2>3 DEF SafeInv, LooperEnds
  <2> QED
    BY <2>3, <2>5, <2>6, <2>7 DEF SafeInv, QueueOK, ListensOK
<1>3. ASSUME \A s \in Runtimes : s # Main =>
               queue'[s] = queue[s] /\ doing'[s] = doing[s] /\ engine'[s] = engine[s],
             Entries(queue'[Main]) \subseteq Entries(queue[Main]),
             context[Main] = "open" => engine'[Main] = engine[Main],
             death[Main] \in {"no", "post"},
             UNCHANGED <<handler, context, death, owner, workers, terminate, script, listens,
                         sent, heard, missed, broken>>
      PROVE  SafeInv'
  <2>1. FreshOK' /\ QueueOK'
    BY <1>3 DEF SafeInv, FreshOK, Fresh, QueueOK
  <2>2. EngineOK' /\ DeadOK'
    BY <1>3 DEF SafeInv, EngineOK, DeadOK
  <2>3. LooperEnds'
    BY <1>3 DEF SafeInv, LooperEnds
  <2> QED
    BY <1>3, <2>1, <2>2, <2>3 DEF SafeInv, ListensOK
<1>4. CASE CloseContext
  <2>1. /\ \A s \in Runtimes : s # Main => queue'[s] = queue[s]
        /\ Entries(queue'[Main]) \subseteq Entries(queue[Main])
    BY <1>4, Popping DEF CloseContext, Handles
  <2>2. /\ \A s \in Runtimes : s # Main => doing'[s] = doing[s]
        /\ death[Main] = "no"
    BY <1>0, <1>4 DEF CloseContext, VisitPlugins, Handles
  <2> QED
    BY <1>3, <1>4, <2>1, <2>2 DEF CloseContext
<1>5. CASE CloseRuntime
  <2>1. /\ \A s \in Runtimes : s # Main => doing'[s] = doing[s] /\ engine'[s] = engine[s]
        /\ context[Main] = "open" => engine'[Main] = engine[Main]
    BY <1>0, <1>5 DEF CloseRuntime, VisitPlugins
  <2>2. death[Main] \in {"no", "post"}
    BY <1>5 DEF CloseRuntime, SafeInv, DeadOK
  <2> QED
    BY <1>3, <1>5, <2>1, <2>2 DEF CloseRuntime
<1> QED
  BY <1>1, <1>2, <1>4, <1>5

LEMMA SafeClose ==
    ASSUME TypeOK, SafeInv,
           \/ \E what \in {"closeContext", "closeRuntime"} : AskClose(what)
           \/ \E p \in plugins : CloseVisit(p)
           \/ \E w \in Workers : Terminate(w)
           \/ CloseThrows \/ CloseEnd \/ AppScript \/ AddPlugin
    PROVE  SafeInv'
<1> USE RuntimeParts DEF looperVars, timerVars, workerVars, messageVars, closeVars
<1>0. /\ engine \in [Runtimes -> Engines] /\ context \in [Runtimes -> Contexts]
      /\ doing \in [Runtimes -> Doings]
  BY DEF TypeOK, LoopersTypeOK
<1>2. ASSUME NEW k \in {"app", "closeContext", "closeRuntime"},
             queue' = Posted(queue, Main, [kind |-> k, arg |-> 0]),
             UNCHANGED <<handler, engine, context, doing, death, timerVars, workerVars, messageVars,
                         broken>>
      PROVE  SafeInv'
  <2>1. [kind |-> k, arg |-> 0] \in Events
    BY EventMade
  <2>2. /\ \A s \in Runtimes : s # Main => queue'[s] = queue[s]
        /\ Entries(queue'[Main]) = Entries(queue[Main]) \cup {[kind |-> k, arg |-> 0]}
    BY <1>2, <2>1, Posting
  <2>3. QueueOK'
    BY <1>2, <2>2 DEF SafeInv, QueueOK
  <2> QED
    BY <1>2, <2>2, <2>3 DEF SafeInv, FreshOK, Fresh, EngineOK, DeadOK, ListensOK, LooperEnds
<1>3. ASSUME NEW ws \in SUBSET Workers, CloseWorkers(ws), \A w \in ws : ~Fresh(w),
             UNCHANGED <<handler, engine, context, doing, death, timerVars, scene, workers, script,
                         listens, messageVars, broken>>
      PROVE  SafeInv'
  <2> DEFINE e == [kind |-> "closeRuntime", arg |-> 0]
  <2>1. /\ \A r \in Runtimes :
             queue'[r] = queue[r] \/ (r \in ws /\ queue'[r] = Append(queue[r], e))
        /\ \A w \in Workers : terminate'[w] <=> terminate[w] \/ w \in ws
    BY <1>3, AtClose
  <2>2. e \in Events /\ queue \in [Runtimes -> Seq(Events)]
    BY EventMade DEF TypeOK, LoopersTypeOK
  <2>3. ASSUME NEW r \in Runtimes, queue'[r] = Append(queue[r], e)
        PROVE  Entries(queue'[r]) \subseteq Entries(queue[r]) \cup {e}
    <3>1. /\ Len(queue[r]) \in Nat /\ DOMAIN queue[r] = 1 .. Len(queue[r])
          /\ DOMAIN queue'[r] = 1 .. Len(queue[r]) + 1
          /\ \A i \in 1 .. Len(queue[r]) : queue'[r][i] = queue[r][i]
          /\ queue'[r][Len(queue[r]) + 1] = e
      BY <2>2, <2>3, AppendFacts
    <3>2. \A i \in 1 .. Len(queue[r]) + 1 : i \in 1 .. Len(queue[r]) \/ i = Len(queue[r]) + 1
      BY <3>1
    <3> HIDE DEF e
    <3> QED
      BY <3>1, <3>2 DEF Entries
  <2>4. FreshOK'
    <3> HIDE DEF e
    <3> QED
      BY <1>3, <2>1 DEF SafeInv, FreshOK, Fresh
  <2>5. QueueOK'
    <3>1. ASSUME NEW w \in Workers, NEW x \in Entries(queue'[w])
          PROVE  /\ x.kind = "message" => x.arg[1] = w
                 /\ x.kind = "closeRuntime" => terminate'[w]
      <4>1. CASE queue'[w] = queue[w]
        BY <2>1, <3>1, <4>1 DEF SafeInv, QueueOK
      <4>2. CASE w \in ws /\ queue'[w] = Append(queue[w], e)
        <5>1. x \in Entries(queue[w]) \/ x = e
          BY <2>3, <3>1, <4>2
        <5> QED
          BY <2>1, <4>2, <5>1 DEF SafeInv, QueueOK
      <4> QED
        BY <2>1, <4>1, <4>2
    <3>2. queue'[Main] = queue[Main]
      BY <2>1
    <3> QED
      BY <1>3, <3>1, <3>2 DEF SafeInv, QueueOK
  <2>6. EngineOK' /\ DeadOK' /\ LooperEnds'
    BY <1>3, <2>1 DEF SafeInv, EngineOK, DeadOK, LooperEnds
  <2> QED
    BY <1>3, <2>4, <2>5, <2>6 DEF SafeInv, ListensOK
<1>4. ASSUME NEW p \in plugins, CloseVisit(p)
      PROVE  SafeInv'
  <2>1. CASE p = "WorkerPlugin"
    <3>1. /\ {workers[x] : x \in DOMAIN workers} \in SUBSET Workers
          /\ \A w \in {workers[x] : x \in DOMAIN workers} : ~Fresh(w)
      BY DEF TypeOK, SafeInv, FreshOK
    <3> QED
      BY <1>3, <1>4, <2>1, <3>1 DEF CloseVisit
  <2>2. CASE p # "WorkerPlugin"
    BY <1>4, <2>2 DEF CloseVisit, SafeInv, FreshOK, Fresh, QueueOK, EngineOK, DeadOK, ListensOK,
                      LooperEnds
  <2> QED
    BY <2>1, <2>2
<1>5. ASSUME NEW w \in Workers, Terminate(w)
      PROVE  SafeInv'
  BY <1>3, <1>5 DEF Terminate, Made, Fresh
<1>6. CASE CloseThrows \/ CloseEnd
  <2>1. /\ \A s \in Runtimes : s # Main =>
             doing'[s] = doing[s] /\ engine'[s] = engine[s] /\ context'[s] = context[s]
        /\ context'[Main] = "closed" \/ (context'[Main] = context[Main] /\ engine'[Main] = engine[Main])
        /\ UNCHANGED <<handler, queue, death, owner, workers, terminate, script, listens,
                       sent, heard, missed, broken>>
    BY <1>0, <1>6 DEF CloseThrows, CloseEnd
  <2>2. doing'[Main] = "idle" /\ death[Main] \in {"no", "post"}
    BY <1>0, <1>6 DEF CloseThrows, CloseEnd, SafeInv, DeadOK
  <2>3. FreshOK' /\ QueueOK'
    BY <2>1 DEF SafeInv, FreshOK, Fresh, QueueOK
  <2>4. EngineOK' /\ DeadOK' /\ LooperEnds'
    BY <2>1, <2>2 DEF SafeInv, EngineOK, DeadOK, LooperEnds
  <2> QED
    BY <2>1, <2>3, <2>4 DEF SafeInv, ListensOK
<1>7. CASE AddPlugin
  BY <1>7 DEF AddPlugin, SafeInv, FreshOK, Fresh, QueueOK, EngineOK, DeadOK, ListensOK, LooperEnds
<1>8. CASE AppScript
  BY <1>2, <1>8 DEF AppScript
<1>9. ASSUME NEW what \in {"closeContext", "closeRuntime"}, AskClose(what)
      PROVE  SafeInv'
  BY <1>2, <1>9 DEF AskClose
<1> QED
  BY <1>4, <1>5, <1>6, <1>7, <1>8, <1>9

LEMMA SafeTimer ==
    ASSUME TypeOK, SafeInv, UNCHANGED <<workerVars, messageVars, closeVars>>,
           \/ \E r \in Runtimes, t \in Timeouts, d \in Delays : SetTimeout(r, t, d)
           \/ \E t \in Timeouts : Wake(t)
    PROVE  SafeInv'
<1> USE RuntimeParts DEF looperVars, timerVars, workerVars, messageVars, closeVars
<1>0. doing \in [Runtimes -> Doings] /\ owner \in [Timeouts -> Runtimes]
  BY DEF TypeOK, LoopersTypeOK, TimersTypeOK
<1>1. ASSUME NEW r \in Runtimes, NEW t \in Timeouts, NEW d \in Delays, SetTimeout(r, t, d)
      PROVE  SafeInv'
  <2>1. FreshOK'
    BY <1>0, <1>1 DEF SetTimeout, SafeInv, FreshOK, Fresh
  <2> QED
    BY <1>1, <2>1 DEF SetTimeout, SafeInv, QueueOK, EngineOK, DeadOK, ListensOK, LooperEnds
<1>2. ASSUME NEW t \in Timeouts, Wake(t)
      PROVE  SafeInv'
  <2>0. owner[t] \in Runtimes /\ [kind |-> "timer", arg |-> t] \in Events
    BY <1>0, EventMade
  <2>1. /\ \A s \in Runtimes : s # owner[t] => queue'[s] = queue[s]
        /\ Entries(queue'[owner[t]]) \subseteq
             Entries(queue[owner[t]]) \cup {[kind |-> "timer", arg |-> t]}
    <3>1. CASE Takes(owner[t]) /\ Reachable(owner[t])
      BY <1>2, <2>0, <3>1, Posting DEF Wake
    <3>2. CASE ~(Takes(owner[t]) /\ Reachable(owner[t]))
      BY <1>2, <3>2 DEF Wake
    <3> QED
      BY <3>1, <3>2
  <2>2. FreshOK'
    BY <1>2, <2>1 DEF Wake, SafeInv, FreshOK, Fresh
  <2>3. QueueOK'
    BY <1>2, <2>0, <2>1 DEF Wake, SafeInv, QueueOK
  <2> QED
    BY <1>2, <2>2, <2>3 DEF Wake, SafeInv, EngineOK, DeadOK, ListensOK, LooperEnds
<1> QED
  BY <1>1, <1>2

LEMMA SafeStep ==
    ASSUME TypeOK, SafeInv, [Next]_vars
    PROVE  SafeInv'
<1>1. CASE UNCHANGED vars
  BY <1>1 DEF vars, looperVars, timerVars, workerVars, messageVars, closeVars,
              SafeInv, FreshOK, Fresh, QueueOK, EngineOK, DeadOK, ListensOK, LooperEnds
<1>2. ASSUME NEW r \in Runtimes, HandleEvent(r)
      PROVE  SafeInv'
  BY <1>2, SafeTimer, SafeEvent, SafeCloseRuntime, SafeClose DEF HandleEvent
<1>3. CASE ScriptStep
  BY <1>3, SafeTimer, SafeScript, SafeSend, SafeClose DEF ScriptStep
<1>4. ASSUME NEW t \in Timeouts, TimerThread(t)
      PROVE  SafeInv'
  BY <1>4, SafeTimer DEF TimerThread
<1> QED
  BY <1>1, <1>2, <1>3, <1>4, SafeScript, SafeClose DEF Next

LEMMA SafeStart ==
    ASSUME Init
    PROVE  SafeInv
<1>1. FreshOK
  BY RuntimeParts DEF Init, LoopersInit, TimersInit, FreshOK, Directions
<1>2. QueueOK
  BY RuntimeParts DEF Init, LoopersInit, QueueOK, Entries
<1>3. EngineOK /\ DeadOK
  BY RuntimeParts DEF Init, LoopersInit, EngineOK, DeadOK
<1>4. ListensOK
  BY DEF Init, ListensOK
<1>5. LooperEnds
  BY DEF Init, LoopersInit, LooperEnds
<1> QED
  BY <1>1, <1>2, <1>3, <1>4, <1>5 DEF SafeInv

\* A Looper ends in the ways that LooperEnds gives and in no other, and a timer
\* ends none: for any number of workers, timers, messages and closes.
THEOREM LoopersEnd == Spec => []LooperEnds
<1>1. Init => SafeInv
  BY SafeStart
<1>2. TypeOK /\ SafeInv /\ [Next]_vars => SafeInv'
  BY SafeStep
<1>3. SafeInv => LooperEnds
  BY DEF SafeInv
<1> QED
  BY <1>1, <1>2, <1>3, TypeCorrect, PTL DEF Spec

-----------------------------------------------------------------------------
(***************************************************************************)
(* The order of messages.                                                  *)
(***************************************************************************)

LEMMA MessageTypes ==
    ASSUME TypeOK, NEW d \in Directions, NEW w \in Workers
    PROVE  /\ Target(d, w) \in Runtimes /\ queue[Target(d, w)] \in Seq(Events)
           /\ sent[d][w] \in Nat /\ heard[d][w] \in Seq(Nat) /\ missed[d][w] \in Seq(Nat)
           /\ Handled(d, w) \in Nat
<1>1. Target(d, w) \in Runtimes
  BY RuntimeParts DEF Target
<1>2. queue[Target(d, w)] \in Seq(Events)
  BY <1>1 DEF TypeOK, LoopersTypeOK
<1>3. sent[d][w] \in Nat /\ heard[d][w] \in Seq(Nat) /\ missed[d][w] \in Seq(Nat)
  BY DEF TypeOK
<1>5. Handled(d, w) \in Nat
  <2> DEFINE m == Len(missed[d][w])
             h == Len(heard[d][w])
  <2>1. m \in Nat /\ h \in Nat /\ Handled(d, w) = m + h
    BY <1>3 DEF Handled
  <2> HIDE DEF m, h
  <2> QED
    BY <2>1
<1> QED
  BY <1>1, <1>2, <1>3, <1>5

\* Nothing happens to the messages of w, whatever happens to other events.
LEMMA OrderKept ==
    ASSUME TypeOK, NEW d \in Directions, NEW w \in Workers, InOrder(d, w),
           NEW r, r = Target(d, w),
           sent'[d][w] = sent[d][w], heard'[d][w] = heard[d][w], missed'[d][w] = missed[d][w],
           context'[r] = "open" => context[r] = "open",
           \/ queue'[r] = queue[r]
           \/ \E e \in Events : ~OfWorker(w, e) /\ queue'[r] = Append(queue[r], e)
           \/ queue[r] # << >> /\ ~OfWorker(w, Head(queue[r])) /\ queue'[r] = Tail(queue[r])
    PROVE  InOrder(d, w)'
<1> SUFFICES ASSUME context'[r] = "open"
             PROVE  /\ HandledInOrder(d, w)'
                    /\ Handled(d, w)' <= sent'[d][w]
                    /\ HasInOrder(queue'[r], w, Handled(d, w)' + 1, sent'[d][w])
  BY DEF InOrder, Target
<1>1. /\ HandledInOrder(d, w) /\ Handled(d, w) <= sent[d][w]
      /\ HasInOrder(queue[r], w, Handled(d, w) + 1, sent[d][w])
  BY DEF InOrder
<1>2. HandledInOrder(d, w)' /\ Handled(d, w)' = Handled(d, w)
  BY <1>1 DEF HandledInOrder, Handled
<1>3. queue[r] \in Seq(Events) /\ Handled(d, w) + 1 \in Nat /\ sent[d][w] \in Nat
  BY MessageTypes
<1>4. HasInOrder(queue'[r], w, Handled(d, w) + 1, sent[d][w])
  BY <1>1, <1>3, OtherPosted, OtherTaken
<1> QED
  BY <1>1, <1>2, <1>4

\* The next message of w is posted.
LEMMA OrderSent ==
    ASSUME TypeOK, NEW d \in Directions, NEW w \in Workers, InOrder(d, w),
           NEW r, r = Target(d, w),
           sent'[d][w] = sent[d][w] + 1, heard'[d][w] = heard[d][w], missed'[d][w] = missed[d][w],
           context'[r] = context[r],
           queue'[r] = Append(queue[r], Message(w, sent[d][w] + 1))
    PROVE  InOrder(d, w)'
<1> SUFFICES ASSUME context'[r] = "open"
             PROVE  /\ HandledInOrder(d, w)'
                    /\ Handled(d, w)' <= sent'[d][w]
                    /\ HasInOrder(queue'[r], w, Handled(d, w)' + 1, sent'[d][w])
  BY DEF InOrder, Target
<1>1. /\ HandledInOrder(d, w) /\ Handled(d, w) <= sent[d][w]
      /\ HasInOrder(queue[r], w, Handled(d, w) + 1, sent[d][w])
  BY DEF InOrder
<1>2. HandledInOrder(d, w)' /\ Handled(d, w)' = Handled(d, w)
  BY <1>1 DEF HandledInOrder, Handled
<1>3. queue[r] \in Seq(Events) /\ Handled(d, w) \in Nat /\ sent[d][w] \in Nat
  BY MessageTypes
<1>4. Handled(d, w) + 1 \in Nat /\ Handled(d, w) + 1 <= sent[d][w] + 1
  BY <1>1, <1>3
<1>5. HasInOrder(queue'[r], w, Handled(d, w) + 1, sent[d][w] + 1)
  BY <1>1, <1>3, <1>4, MessagePosted
<1>6. Handled(d, w)' <= sent'[d][w]
  BY <1>1, <1>2, <1>3
<1> QED
  BY <1>2, <1>5, <1>6

\* The next message of w is handled.
LEMMA OrderHeard ==
    ASSUME TypeOK, NEW d \in Directions, NEW w \in Workers, InOrder(d, w),
           NEW r, r = Target(d, w),
           queue[r] # << >>, OfWorker(w, Head(queue[r])), queue'[r] = Tail(queue[r]),
           sent'[d][w] = sent[d][w], context'[r] = context[r],
           \/ context[r] # "open"
           \/ /\ heard'[d][w] = Append(heard[d][w], Head(queue[r]).arg[2])
              /\ missed'[d][w] = missed[d][w]
           \/ /\ heard[d][w] = << >> /\ heard'[d][w] = << >>
              /\ missed'[d][w] = Append(missed[d][w], Head(queue[r]).arg[2])
    PROVE  InOrder(d, w)'
<1> DEFINE n == Head(queue[r]).arg[2]
<1> SUFFICES ASSUME context'[r] = "open"
             PROVE  /\ HandledInOrder(d, w)'
                    /\ Handled(d, w)' <= sent'[d][w]
                    /\ HasInOrder(queue'[r], w, Handled(d, w)' + 1, sent'[d][w])
  BY DEF InOrder, Target
<1>1. /\ HandledInOrder(d, w) /\ Handled(d, w) <= sent[d][w]
      /\ HasInOrder(queue[r], w, Handled(d, w) + 1, sent[d][w])
  BY DEF InOrder
<1>2. /\ queue[r] \in Seq(Events) /\ Handled(d, w) \in Nat /\ sent[d][w] \in Nat
      /\ heard[d][w] \in Seq(Nat) /\ missed[d][w] \in Seq(Nat)
  BY MessageTypes
<1> DEFINE from == Handled(d, w) + 1
<1>3. from \in Nat /\ HasInOrder(queue[r], w, from, sent[d][w])
  BY <1>1, <1>2
<1> HIDE DEF from, n
<1>4. n = from /\ from <= sent[d][w] /\ HasInOrder(queue'[r], w, from + 1, sent[d][w])
  <2>1. /\ Head(queue[r]).arg[2] = from /\ from <= sent[d][w]
        /\ HasInOrder(Tail(queue[r]), w, from + 1, sent[d][w])
    BY <1>2, <1>3, MessageTaken
  <2> QED
    BY <2>1 DEF n
<1>5. HandledInOrder(d, w)' /\ Handled(d, w)' = Handled(d, w) + 1
  <2> DEFINE m == Len(missed[d][w])
             h == Len(heard[d][w])
  <2>0. /\ m \in Nat /\ h \in Nat /\ from = m + h + 1 /\ Handled(d, w) = m + h
        /\ DOMAIN missed[d][w] = 1 .. m /\ DOMAIN heard[d][w] = 1 .. h
    BY <1>2 DEF from, Handled
  <2>1. CASE heard'[d][w] = Append(heard[d][w], n) /\ missed'[d][w] = missed[d][w]
    <3>1. /\ Len(heard'[d][w]) = h + 1 /\ DOMAIN heard'[d][w] = 1 .. h + 1
          /\ \A i \in 1 .. h : heard'[d][w][i] = heard[d][w][i]
          /\ heard'[d][w][h + 1] = n
      BY <1>2, <1>3, <1>4, <2>1
    <3>2. \A i \in 1 .. h : heard[d][w][i] = m + i
      BY <1>1, <2>0 DEF HandledInOrder
    <3>3. Handled(d, w)' = m + (h + 1)
      BY <2>1, <3>1 DEF Handled
    <3> HIDE DEF m, h
    <3>4. \A i \in 1 .. h + 1 : i \in 1 .. h \/ i = h + 1
      BY <2>0
    <3>5. heard'[d][w][h + 1] = m + (h + 1)
      BY <1>4, <2>0, <3>1
    <3>6. \A i \in DOMAIN heard'[d][w] : heard'[d][w][i] = m + i
      BY <3>1, <3>2, <3>4, <3>5
    <3>7. Handled(d, w)' = Handled(d, w) + 1
      BY <2>0, <3>3
    <3> QED
      BY <1>1, <2>1, <3>6, <3>7 DEF HandledInOrder, m
  <2>2. CASE /\ heard[d][w] = << >> /\ heard'[d][w] = << >>
             /\ missed'[d][w] = Append(missed[d][w], n)
    <3>1. /\ Len(missed'[d][w]) = m + 1 /\ DOMAIN missed'[d][w] = 1 .. m + 1
          /\ \A i \in 1 .. m : missed'[d][w][i] = missed[d][w][i]
          /\ missed'[d][w][m + 1] = n
          /\ h = 0 /\ Len(heard'[d][w]) = 0 /\ DOMAIN heard'[d][w] = {}
      BY <1>2, <1>3, <1>4, <2>2
    <3>2. \A i \in 1 .. m : missed[d][w][i] = i
      BY <1>1, <2>0 DEF HandledInOrder
    <3>3. Handled(d, w)' = (m + 1) + 0
      BY <3>1 DEF Handled
    <3> HIDE DEF m, h
    <3>4. \A i \in 1 .. m + 1 : i \in 1 .. m \/ i = m + 1
      BY <2>0
    <3>5. missed'[d][w][m + 1] = m + 1
      BY <1>4, <2>0, <3>1
    <3>6. \A i \in DOMAIN missed'[d][w] : missed'[d][w][i] = i
      BY <3>1, <3>2, <3>4, <3>5
    <3>7. Handled(d, w)' = Handled(d, w) + 1
      BY <2>0, <3>1, <3>3
    <3> QED
      BY <3>1, <3>6, <3>7 DEF HandledInOrder
  <2> QED
    BY <2>1, <2>2 DEF n
<1>6. Handled(d, w)' = from
  BY <1>5 DEF from
<1> QED
  BY <1>4, <1>5, <1>6

\* Steps without messages.
LEMMA OrderQuiet ==
    ASSUME TypeOK, OrderInv, UNCHANGED messageVars,
           \A r \in Runtimes :
              /\ context'[r] = "open" => context[r] = "open"
              /\ \/ queue'[r] = queue[r]
                 \/ \E e \in Events : e.kind # "message" /\ queue'[r] = Append(queue[r], e)
                 \/ queue[r] # << >> /\ Head(queue[r]).kind # "message" /\ queue'[r] = Tail(queue[r])
    PROVE  OrderInv'
<1> SUFFICES ASSUME NEW d \in Directions, NEW w \in Workers
             PROVE  InOrder(d, w)'
  BY DEF OrderInv
<1> DEFINE r == Target(d, w)
<1>1. r \in Runtimes /\ InOrder(d, w)
  BY MessageTypes DEF OrderInv
<1>2. \A e : e.kind # "message" => ~OfWorker(w, e)
  BY DEF OfWorker
<1>3. sent'[d][w] = sent[d][w] /\ heard'[d][w] = heard[d][w] /\ missed'[d][w] = missed[d][w]
  BY DEF messageVars
<1> HIDE DEF r
<1>4. /\ context'[r] = "open" => context[r] = "open"
      /\ \/ queue'[r] = queue[r]
         \/ \E e \in Events : ~OfWorker(w, e) /\ queue'[r] = Append(queue[r], e)
         \/ queue[r] # << >> /\ ~OfWorker(w, Head(queue[r])) /\ queue'[r] = Tail(queue[r])
  BY <1>1, <1>2
<1> QED
  BY <1>1, <1>3, <1>4, OrderKept DEF r

LEMMA OrderScript ==
    ASSUME TypeOK, SafeInv, OrderInv, NEW w \in Workers,
           \/ NewWorker(w) \/ NewWorkerInterrupted(w) \/ ListenToWorker(w)
           \/ ListenToMain(w) \/ ScriptThread(w)
    PROVE  OrderInv'
<1> USE RuntimeParts DEF looperVars, timerVars, workerVars, messageVars, closeVars
<1>1. CASE NewWorker(w)
  <2> SUFFICES ASSUME NEW d \in Directions, NEW v \in Workers
               PROVE  InOrder(d, v)'
    BY DEF OrderInv
  <2>1. CASE d = "toWorker" /\ v = w
    <3>1. Fresh(w) /\ UNCHANGED <<queue, sent, heard, missed>>
      BY <1>1 DEF NewWorker, Fresh
    <3>2. /\ queue'[w] = << >> /\ sent'[d][w] = 0
          /\ heard'[d][w] = << >> /\ missed'[d][w] = << >>
      BY <2>1, <3>1 DEF SafeInv, FreshOK
    <3>3. HandledInOrder(d, w)' /\ Handled(d, w)' = 0
      BY <3>2 DEF HandledInOrder, Handled
    <3>4. HasInOrder(queue'[w], w, 0 + 1, 0)
      BY <3>2 DEF HasInOrder
    <3>5. Target(d, w) = w
      BY <2>1 DEF Target
    <3> QED
      BY <2>1, <3>2, <3>3, <3>4, <3>5 DEF InOrder, Target
  <2>2. CASE ~(d = "toWorker" /\ v = w)
    <3>1. Target(d, v) \in Runtimes /\ Target(d, v) # w
      BY <2>2 DEF Target
    <3>2. context'[Target(d, v)] = context[Target(d, v)]
      BY <1>1, <3>1 DEF NewWorker, TypeOK, LoopersTypeOK
    <3>3. UNCHANGED <<queue, sent, heard, missed>> /\ InOrder(d, v)
      BY <1>1 DEF NewWorker, OrderInv
    <3> QED
      BY <3>2, <3>3, OrderKept
  <2> QED
    BY <2>1, <2>2
<1>2. CASE NewWorkerInterrupted(w)
  BY <1>2, OrderQuiet DEF NewWorkerInterrupted
<1>3. CASE ListenToWorker(w) \/ ListenToMain(w)
  BY <1>3, OrderQuiet DEF ListenToWorker, ListenToMain
<1>4. CASE ScriptThread(w)
  <2>0. PICK from \in Scripts, to \in Scripts, k \in {"script", "exception"} : Ask(w, from, to, k)
    BY <1>4 DEF ScriptThread, StartScript, CheckException, Scripts
  <2> DEFINE e == [kind |-> k, arg |-> 0]
  <2>1. e \in Events /\ e.kind # "message"
    BY EventMade
  <2>2. queue' = queue \/ queue' = Posted(queue, w, e)
    BY <2>0 DEF Ask
  <2> HIDE DEF e
  <2>3. \A r \in Runtimes : queue'[r] = queue[r] \/ queue'[r] = Append(queue[r], e)
    <3>1. /\ Posted(queue, w, e)[w] = Append(queue[w], e)
          /\ \A s \in Runtimes : s # w => Posted(queue, w, e)[s] = queue[s]
      BY <2>1, AtPost
    <3> QED
      BY <2>2, <3>1
  <2> QED
    BY <2>0, <2>1, <2>3, OrderQuiet DEF Ask
<1> QED
  BY <1>1, <1>2, <1>3, <1>4

\* A message from w to d's other end is posted.
LEMMA OrderPosted ==
    ASSUME TypeOK, OrderInv, NEW d \in Directions, NEW w \in Workers,
           sent' = [sent EXCEPT ![d][w] = @ + 1],
           queue' = Posted(queue, Target(d, w), Message(w, sent'[d][w])),
           UNCHANGED <<context, heard, missed>>
    PROVE  OrderInv'
<1> DEFINE r == Target(d, w)
           e == Message(w, sent[d][w] + 1)
<1>1. r \in Runtimes /\ sent[d][w] \in Nat
  BY MessageTypes
<1>2. /\ sent'[d][w] = sent[d][w] + 1
      /\ \A c \in Directions, v \in Workers : c # d \/ v # w => sent'[c][v] = sent[c][v]
  <2>1. sent \in [Directions -> [Workers -> Nat]]
    BY DEF TypeOK
  <2> QED
    BY <2>1, SentFacts
<1>3. e \in Events
  BY <1>1, EventMade
<1>4. queue'[r] = Append(queue[r], e) /\ \A s \in Runtimes : s # r => queue'[s] = queue[s]
  BY <1>1, <1>2, <1>3, AtPost
<1>5. SUFFICES ASSUME NEW c \in Directions, NEW v \in Workers
               PROVE  InOrder(c, v)'
  BY DEF OrderInv
<1>6. InOrder(c, v) /\ Target(c, v) \in Runtimes
  BY MessageTypes DEF OrderInv
<1>7. CASE c = d /\ v = w
  BY <1>2, <1>4, <1>6, <1>7, OrderSent
<1>8. CASE c # d \/ v # w
  <2>1. sent'[c][v] = sent[c][v]
    BY <1>2, <1>8
  <2>2. CASE Target(c, v) = r
    <3>1. v # w
      BY <1>8, <2>2, RuntimeParts DEF Target, Directions
    <3>2. ~OfWorker(v, e)
      BY <3>1 DEF OfWorker, Message
    <3> HIDE DEF e
    <3> QED
      BY <1>3, <1>4, <1>6, <2>1, <2>2, <3>2, OrderKept
  <2>3. CASE Target(c, v) # r
    BY <1>4, <1>6, <2>1, <2>3, OrderKept
  <2> QED
    BY <2>2, <2>3
<1> QED
  BY <1>7, <1>8

LEMMA OrderSend ==
    ASSUME TypeOK, SafeInv, OrderInv, NEW w \in Workers, SendToWorker(w) \/ SendToMain(w)
    PROVE  OrderInv'
<1> USE DEF looperVars, timerVars, workerVars, messageVars, closeVars
<1>0. /\ "toWorker" \in Directions /\ "toMain" \in Directions
      /\ Target("toWorker", w) = w /\ Target("toMain", w) = Main
  BY DEF Directions, Target
<1>1. CASE SendToWorker(w)
  BY <1>0, <1>1, OrderPosted DEF SendToWorker
<1>2. CASE SendToMain(w) /\ Reachable(Main)
  BY <1>0, <1>2, OrderPosted DEF SendToMain
<1>3. CASE SendToMain(w) /\ ~Reachable(Main)
  BY <1>3, OrderQuiet DEF SendToMain
<1> QED
  BY <1>1, <1>2, <1>3

\* The event of a message of w.
LEMMA OrderTaken ==
    ASSUME TypeOK, OrderInv, NEW d \in Directions, NEW w \in Workers, NEW r, r = Target(d, w),
           queue[r] # << >>, OfWorker(w, Head(queue[r])), Head(queue[r]).arg[2] \in Nat,
           queue' = Popped(r), UNCHANGED <<context, sent>>,
           \/ context[r] # "open" /\ UNCHANGED <<heard, missed>>
           \/ heard' = Add(heard, d, w, Head(queue[r]).arg[2]) /\ UNCHANGED missed
           \/ /\ heard[d][w] = << >> \/ context[r] # "open"
              /\ missed' = Add(missed, d, w, Head(queue[r]).arg[2]) /\ UNCHANGED heard
    PROVE  OrderInv'
<1> DEFINE n == Head(queue[r]).arg[2]
<1>1. /\ heard \in [Directions -> [Workers -> Seq(Nat)]]
      /\ missed \in [Directions -> [Workers -> Seq(Nat)]]
  BY DEF TypeOK
<1>2. r \in Runtimes
  BY MessageTypes
<1>3. queue'[r] = Tail(queue[r]) /\ \A s \in Runtimes : s # r => queue'[s] = queue[s]
  BY <1>2, AtEvent
<1>4. n \in Nat
  OBVIOUS
<1> HIDE DEF n
<1>5. \A c \in Directions, v \in Workers : c # d \/ v # w =>
         heard'[c][v] = heard[c][v] /\ missed'[c][v] = missed[c][v]
  BY <1>4, Recorded DEF n
<1>6. \/ context[r] # "open"
      \/ heard'[d][w] = Append(heard[d][w], n) /\ missed'[d][w] = missed[d][w]
      \/ /\ heard[d][w] = << >> /\ heard'[d][w] = << >>
         /\ missed'[d][w] = Append(missed[d][w], n)
  <2>1. /\ Add(heard, d, w, n)[d][w] = Append(heard[d][w], n)
        /\ Add(missed, d, w, n)[d][w] = Append(missed[d][w], n)
    BY <1>1, <1>4, AddFacts
  <2> QED
    BY <2>1 DEF n
<1>7. SUFFICES ASSUME NEW c \in Directions, NEW v \in Workers
               PROVE  InOrder(c, v)'
  BY DEF OrderInv
<1>8. InOrder(c, v) /\ Target(c, v) \in Runtimes
  BY MessageTypes DEF OrderInv
<1>9. CASE c = d /\ v = w
  BY <1>3, <1>6, <1>8, <1>9, OrderHeard DEF n
<1>10. CASE c # d \/ v # w
  <2>1. heard'[c][v] = heard[c][v] /\ missed'[c][v] = missed[c][v] /\ sent'[c][v] = sent[c][v]
    BY <1>5, <1>10
  <2>2. CASE Target(c, v) = r
    <3>1. v # w
      BY <1>10, <2>2, RuntimeParts DEF Target, Directions
    <3>2. ~OfWorker(v, Head(queue[r]))
      BY <3>1 DEF OfWorker
    <3> QED
      BY <1>3, <1>8, <2>1, <2>2, <3>2, OrderKept
  <2>3. CASE Target(c, v) # r
    BY <1>3, <1>8, <2>1, <2>3, OrderKept
  <2> QED
    BY <2>2, <2>3
<1> QED
  BY <1>9, <1>10

LEMMA OrderEvent ==
    ASSUME TypeOK, SafeInv, OrderInv,
           \/ RunAppScript \/ HearFromWorker
           \/ \E w \in Workers : RunScript(w) \/ GetException(w) \/ HearFromMain(w)
           \/ \E w \in Workers : CloseWorkerRuntime(w)
           \/ \E r \in Runtimes : EndScript(r) \/ CloseSize(r)
           \/ \E r \in Runtimes : Fire(r) /\ UNCHANGED <<workerVars, messageVars, closeVars>>
    PROVE  OrderInv'
<1> USE RuntimeParts DEF looperVars, timerVars, workerVars, messageVars, closeVars
<1>0. context \in [Runtimes -> Contexts]
  BY DEF TypeOK, LoopersTypeOK
<1>1. ASSUME NEW r \in Runtimes, queue[r] # << >>, Head(queue[r]).kind # "message",
             queue' = Popped(r), UNCHANGED messageVars,
             \A s \in Runtimes : context'[s] = "open" => context[s] = "open"
      PROVE  OrderInv'
  <2>1. queue'[r] = Tail(queue[r]) /\ \A s \in Runtimes : s # r => queue'[s] = queue[s]
    BY <1>1, AtEvent
  <2>2. \A s \in Runtimes :
           \/ queue'[s] = queue[s]
           \/ queue[s] # << >> /\ Head(queue[s]).kind # "message" /\ queue'[s] = Tail(queue[s])
    BY <1>1, <2>1
  <2> QED
    BY <1>1, <2>2, OrderQuiet
<1>2. CASE RunAppScript
  BY <1>1, <1>2 DEF RunAppScript, Handles, Enter
<1>3. ASSUME NEW w \in Workers, RunScript(w) \/ GetException(w)
      PROVE  OrderInv'
  <2>1. queue[w] # << >> /\ Head(queue[w]).kind # "message"
    BY <1>3 DEF RunScript, GetException, Handles
  <2>2. queue' = Popped(w) /\ UNCHANGED <<context, messageVars>>
    BY <1>3 DEF RunScript, GetException, Skip, Enter, Die
  <2> QED
    BY <1>1, <2>1, <2>2
<1>4. ASSUME NEW w \in Workers, CloseWorkerRuntime(w)
      PROVE  OrderInv'
  <2>1. \A s \in Runtimes : context'[s] = "open" => context[s] = "open"
    BY <1>0, <1>4 DEF CloseWorkerRuntime
  <2> QED
    BY <1>4, <2>1, OrderQuiet DEF CloseWorkerRuntime
<1>8. ASSUME NEW r \in Runtimes, EndScript(r)
      PROVE  OrderInv'
  BY <1>8, OrderQuiet DEF EndScript, Return
<1>9. ASSUME NEW r \in Runtimes, CloseSize(r)
      PROVE  OrderInv'
  <2>1. queue[r] # << >> /\ Head(queue[r]).kind # "message"
    BY <1>9 DEF CloseSize, Handles
  <2>2. queue' = Popped(r) /\ UNCHANGED <<context, messageVars>>
    BY <1>9 DEF CloseSize, Skip
  <2> QED
    BY <1>1, <2>1, <2>2
<1>5. ASSUME NEW r \in Runtimes, Fire(r), UNCHANGED <<workerVars, messageVars, closeVars>>
      PROVE  OrderInv'
  <2>1. queue[r] # << >> /\ Head(queue[r]).kind # "message" /\ queue' = Popped(r) /\ UNCHANGED context
    BY <1>5 DEF Fire, Handles, Skip, Enter
  <2> QED
    BY <1>1, <1>5, <2>1
<1>6. ASSUME NEW w \in Workers, HearFromMain(w)
      PROVE  OrderInv'
  <2> DEFINE n == Head(queue[w]).arg[2]
  <2>1. w \in Runtimes /\ queue[w] # << >> /\ Head(queue[w]).kind = "message" /\ queue' = Popped(w)
    BY <1>6 DEF HearFromMain, Handles, Skip, Enter, Die
  <2>2. Head(queue[w]) \in Entries(queue[w]) /\ n \in Nat
    BY <2>1, AtEvent, EventParts, Popping
  <2>3. OfWorker(w, Head(queue[w]))
    BY <2>1, <2>2 DEF OfWorker, SafeInv, QueueOK
  <2>4. "toWorker" \in Directions /\ Target("toWorker", w) = w /\ UNCHANGED <<context, sent>>
    BY <1>6 DEF HearFromMain, Skip, Enter, Die, Directions, Target
  <2>5. context[w] = "open" => engine[w] = "open"
    BY <2>1 DEF SafeInv, EngineOK
  <2>6. heard["toWorker"][w] = << >> \/ w \in listens["toWorker"]
    BY <2>4 DEF SafeInv, ListensOK
  <2>7. \/ context[w] # "open" /\ UNCHANGED <<heard, missed>>
        \/ heard' = Add(heard, "toWorker", w, n) /\ UNCHANGED missed
        \/ /\ heard["toWorker"][w] = << >> \/ context[w] # "open"
           /\ missed' = Add(missed, "toWorker", w, n) /\ UNCHANGED heard
    BY <1>6, <2>5, <2>6 DEF HearFromMain
  <2> QED
    BY <2>1, <2>2, <2>3, <2>4, <2>7, OrderTaken
<1>7. CASE HearFromWorker
  <2> DEFINE w == Head(queue[Main]).arg[1]
             n == Head(queue[Main]).arg[2]
  <2>1. /\ Main \in Runtimes /\ queue[Main] # << >> /\ Head(queue[Main]).kind = "message"
        /\ queue' = Popped(Main)
    BY <1>7 DEF HearFromWorker, Handles, Skip, Enter, Die
  <2>2. n \in Nat /\ w \in Workers
    BY <2>1, AtEvent, EventParts
  <2>3. OfWorker(w, Head(queue[Main]))
    BY <2>1 DEF OfWorker
  <2>4. UNCHANGED <<context, sent>>
    BY <1>7 DEF HearFromWorker, Skip, Enter, Die
  <2>5. context[Main] = "open" => engine[Main] = "open"
    BY <2>1 DEF SafeInv, EngineOK
  <2>6. "toMain" \in Directions /\ Target("toMain", w) = Main
    BY DEF Directions, Target
  <2>7. heard["toMain"][w] = << >> \/ w \in listens["toMain"]
    BY <2>2, <2>6 DEF SafeInv, ListensOK
  <2>8. \/ context[Main] # "open" /\ UNCHANGED <<heard, missed>>
        \/ heard' = Add(heard, "toMain", w, n) /\ UNCHANGED missed
        \/ /\ heard["toMain"][w] = << >> \/ context[Main] # "open"
           /\ missed' = Add(missed, "toMain", w, n) /\ UNCHANGED heard
    BY <1>7, <2>5, <2>7 DEF HearFromWorker
  <2> HIDE DEF w
  <2> QED
    BY <2>1, <2>2, <2>3, <2>4, <2>6, <2>8, OrderTaken
<1> QED
  BY <1>2, <1>3, <1>4, <1>5, <1>6, <1>7, <1>8, <1>9

LEMMA OrderClose ==
    ASSUME TypeOK, SafeInv, OrderInv,
           \/ CloseContext \/ CloseRuntime
           \/ \E what \in {"closeContext", "closeRuntime"} : AskClose(what)
           \/ \E p \in plugins : CloseVisit(p)
           \/ \E w \in Workers : Terminate(w)
           \/ CloseThrows \/ CloseEnd \/ AppScript \/ AddPlugin
    PROVE  OrderInv'
<1> USE RuntimeParts DEF looperVars, timerVars, workerVars, messageVars, closeVars
<1>0. context \in [Runtimes -> Contexts]
  BY DEF TypeOK, LoopersTypeOK
<1>1. CASE CloseContext
  <2>1. queue[Main] # << >> /\ Head(queue[Main]).kind # "message" /\ queue' = Popped(Main)
    BY <1>1 DEF CloseContext, Handles
  <2>2. queue'[Main] = Tail(queue[Main]) /\ \A s \in Runtimes : s # Main => queue'[s] = queue[s]
    BY <2>1, AtEvent
  <2>3. \A s \in Runtimes :
           \/ queue'[s] = queue[s]
           \/ queue[s] # << >> /\ Head(queue[s]).kind # "message" /\ queue'[s] = Tail(queue[s])
    BY <2>1, <2>2
  <2>4. UNCHANGED <<context, messageVars>>
    BY <1>1 DEF CloseContext
  <2> QED
    BY <2>3, <2>4, OrderQuiet
<1>10. CASE CloseRuntime
  BY <1>10, OrderQuiet DEF CloseRuntime
<1>2. ASSUME NEW k \in {"app", "closeContext", "closeRuntime"},
             queue' = Posted(queue, Main, [kind |-> k, arg |-> 0]),
             UNCHANGED <<context, messageVars>>
      PROVE  OrderInv'
  <2> DEFINE e == [kind |-> k, arg |-> 0]
  <2>1. e \in Events /\ e.kind # "message"
    BY EventMade
  <2>2. \A s \in Runtimes : queue'[s] = queue[s] \/ queue'[s] = Append(queue[s], e)
    BY <1>2, <2>1, AtPost
  <2> HIDE DEF e
  <2> QED
    BY <1>2, <2>1, <2>2, OrderQuiet
<1>3. ASSUME NEW ws \in SUBSET Workers, CloseWorkers(ws), UNCHANGED <<context, messageVars>>
      PROVE  OrderInv'
  <2> DEFINE e == [kind |-> "closeRuntime", arg |-> 0]
  <2>1. e \in Events /\ e.kind # "message"
    BY EventMade
  <2>2. \A s \in Runtimes : queue'[s] = queue[s] \/ queue'[s] = Append(queue[s], e)
    BY <1>3, AtClose
  <2> HIDE DEF e
  <2> QED
    BY <1>3, <2>1, <2>2, OrderQuiet
<1>4. ASSUME NEW p \in plugins, CloseVisit(p)
      PROVE  OrderInv'
  <2>1. CASE p = "WorkerPlugin"
    <3>1. {workers[x] : x \in DOMAIN workers} \in SUBSET Workers
      BY DEF TypeOK
    <3> QED
      BY <1>3, <1>4, <2>1, <3>1 DEF CloseVisit
  <2>2. CASE p # "WorkerPlugin"
    BY <1>4, <2>2, OrderQuiet DEF CloseVisit
  <2> QED
    BY <2>1, <2>2
<1>5. ASSUME NEW w \in Workers, Terminate(w)
      PROVE  OrderInv'
  BY <1>3, <1>5 DEF Terminate
<1>6. CASE CloseThrows \/ CloseEnd
  <2>1. /\ \A s \in Runtimes : context'[s] = "open" => context[s] = "open"
        /\ UNCHANGED <<queue, messageVars>>
    BY <1>0, <1>6 DEF CloseThrows, CloseEnd
  <2> QED
    BY <2>1, OrderQuiet
<1>7. CASE AddPlugin
  BY <1>7, OrderQuiet DEF AddPlugin
<1>8. CASE AppScript
  BY <1>2, <1>8 DEF AppScript
<1>9. ASSUME NEW what \in {"closeContext", "closeRuntime"}, AskClose(what)
      PROVE  OrderInv'
  BY <1>2, <1>9 DEF AskClose
<1> QED
  BY <1>1, <1>4, <1>5, <1>6, <1>7, <1>8, <1>9, <1>10

LEMMA OrderTimer ==
    ASSUME TypeOK, OrderInv, UNCHANGED <<workerVars, messageVars, closeVars>>,
           \/ \E r \in Runtimes, t \in Timeouts, d \in Delays : SetTimeout(r, t, d)
           \/ \E t \in Timeouts : Wake(t)
    PROVE  OrderInv'
<1> USE DEF looperVars, timerVars, workerVars, messageVars, closeVars
<1>1. ASSUME NEW r \in Runtimes, NEW t \in Timeouts, NEW d \in Delays, SetTimeout(r, t, d)
      PROVE  OrderInv'
  BY <1>1, OrderQuiet DEF SetTimeout
<1>2. ASSUME NEW t \in Timeouts, Wake(t)
      PROVE  OrderInv'
  <2> DEFINE e == [kind |-> "timer", arg |-> t]
  <2>1. owner[t] \in Runtimes /\ e \in Events /\ e.kind # "message"
    BY EventMade DEF TypeOK, TimersTypeOK
  <2>2. queue' = queue \/ queue' = Posted(queue, owner[t], e)
    BY <1>2 DEF Wake
  <2> HIDE DEF e
  <2>3. \A s \in Runtimes : queue'[s] = queue[s] \/ queue'[s] = Append(queue[s], e)
    <3>1. /\ Posted(queue, owner[t], e)[owner[t]] = Append(queue[owner[t]], e)
          /\ \A s \in Runtimes : s # owner[t] => Posted(queue, owner[t], e)[s] = queue[s]
      BY <2>1, AtPost
    <3> QED
      BY <2>2, <3>1
  <2> QED
    BY <1>2, <2>1, <2>3, OrderQuiet DEF Wake
<1> QED
  BY <1>1, <1>2

LEMMA OrderStep ==
    ASSUME TypeOK, SafeInv, OrderInv, [Next]_vars
    PROVE  OrderInv'
<1>1. CASE UNCHANGED vars
  BY <1>1, OrderQuiet DEF vars, looperVars
<1>2. ASSUME NEW r \in Runtimes, HandleEvent(r)
      PROVE  OrderInv'
  BY <1>2, OrderTimer, OrderEvent, OrderClose DEF HandleEvent
<1>3. CASE ScriptStep
  BY <1>3, OrderTimer, OrderScript, OrderSend, OrderClose DEF ScriptStep
<1>4. ASSUME NEW t \in Timeouts, TimerThread(t)
      PROVE  OrderInv'
  BY <1>4, OrderTimer DEF TimerThread
<1> QED
  BY <1>1, <1>2, <1>3, <1>4, OrderScript, OrderClose DEF Next

\* Messages are handled in the order in which they were sent, each once, in
\* both directions, and none is lost once onmessage is set: for any number of
\* workers, timers, messages and closes.
THEOREM MessagesInOrder == Spec => []HeardInOrder
<1>1. Init => OrderInv
  <2> SUFFICES ASSUME Init, NEW d \in Directions, NEW w \in Workers
               PROVE  InOrder(d, w)
    BY DEF OrderInv
  <2>1. /\ queue[Target(d, w)] = << >> /\ sent[d][w] = 0
        /\ heard[d][w] = << >> /\ missed[d][w] = << >>
    BY RuntimeParts DEF Init, LoopersInit, Target
  <2>2. HandledInOrder(d, w) /\ Handled(d, w) = 0
    BY <2>1 DEF HandledInOrder, Handled
  <2>3. HasInOrder(queue[Target(d, w)], w, 0 + 1, 0)
    BY <2>1 DEF HasInOrder
  <2> QED
    BY <2>1, <2>2, <2>3 DEF InOrder
<1>2. Init => SafeInv
  BY SafeStart
<1>3. TypeOK /\ SafeInv /\ OrderInv /\ [Next]_vars => SafeInv' /\ OrderInv'
  BY SafeStep, OrderStep
<1>4. OrderInv => HeardInOrder
  BY DEF OrderInv, InOrder, HeardInOrder
<1> QED
  BY <1>1, <1>2, <1>3, <1>4, TypeCorrect, PTL DEF Spec
==============================================================================
