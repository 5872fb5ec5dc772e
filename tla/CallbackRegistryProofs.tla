----------------------- MODULE CallbackRegistryProofs -----------------------
(***************************************************************************)
(* Which callback a JavaScript call runs: for any number of threads,       *)
(* contexts and callbacks.                                                 *)
(***************************************************************************)
EXTENDS CallbackRegistry, TLAPS

\* A callback that was registered has a context, and so has one that a thread
\* is registering.
ArgOK ==
    /\ \A c \in Callbacks : kind[c] # None => home[c] \in Contexts
    /\ \A t \in Threads : pc[t] # "idle" =>
        /\ arg[t] \in Callbacks
        /\ kind[arg[t]] # None
        /\ pc[t] = "set" => kind[arg[t]] # "method"

\* Only callbacks that were registered are entered.
EnteredOK == \A i \in 1 .. Len(entered) : kind[entered[i]] # None

\* The i-th entry was made under hash code k in context x.
Under(i, x, k) == home[entered[i]] = x /\ hash[entered[i]] = k

\* The registry has the last callback that was entered under a hash code.
LatestOK ==
    \A x \in Contexts, k \in HashCodes : functionRegistry[x][k] # None =>
        \E i \in 1 .. Len(entered) :
            /\ entered[i] = functionRegistry[x][k]
            /\ Under(i, x, k)
            /\ \A j \in i + 1 .. Len(entered) : ~Under(j, x, k)

OtherInv == TypeOK /\ ArgOK /\ EnteredOK /\ LatestOK /\ RunsItsOwn

\* A call runs its own callback until one with the same hash code is registered
\* in its context, for any threads, contexts, callbacks and hash codes, whatever
\* the threads do and however functions are passed between contexts.
THEOREM OnlyItsOwnCallback == Spec => []RunsItsOwn
<1> USE CallbackRegistryAssumption
<1>1. Init => OtherInv
  BY DEF Init, OtherInv, TypeOK, ArgOK, EnteredOK, LatestOK, RunsItsOwn, Threads
<1>2. OtherInv /\ [Next]_vars => OtherInv'
  <2> SUFFICES ASSUME OtherInv, [Next]_vars PROVE OtherInv'
    OBVIOUS
  <2> USE DEF OtherInv
  <2>0. /\ call' = None => RunsItsOwn'
        /\ UNCHANGED <<hash, home, functionRegistry, entered>> => LatestOK'
        /\ UNCHANGED <<kind, entered>> => EnteredOK'
    BY DEF RunsItsOwn, LatestOK, EnteredOK, Under
  <2>1. ASSUME NEW t \in Threads, NEW c \in Callbacks, NEW k \in AllKinds,
               NEW x \in Contexts, NewFunction(t, c, k, x)
        PROVE  OtherInv'
    <3>1. TypeOK'
      BY <2>1 DEF TypeOK, NewFunction, AllKinds
    <3>2. ArgOK'
      BY <2>1 DEF TypeOK, ArgOK, NewFunction, AllKinds
    <3>3. ASSUME NEW i \in 1 .. Len(entered)
          PROVE  /\ entered'[i] = entered[i]
                 /\ kind'[entered[i]] # None
                 /\ home'[entered[i]] = home[entered[i]]
      <4>1. kind[entered[i]] # None /\ entered[i] \in Callbacks
        BY DEF TypeOK, EnteredOK
      <4> QED BY <2>1, <4>1 DEF TypeOK, NewFunction
    <3>4. EnteredOK'
      BY <2>1, <3>3 DEF EnteredOK, NewFunction
    <3>5. \A i \in 1 .. Len(entered), y \in Contexts, h \in HashCodes :
            Under(i, y, h)' <=> Under(i, y, h)
      BY <2>1, <3>3 DEF Under, NewFunction
    <3>6. LatestOK'
      <4>1. entered' = entered /\ functionRegistry' = functionRegistry
        BY <2>1 DEF NewFunction
      <4>2. Len(entered) \in Nat
        BY DEF TypeOK
      <4> QED BY <3>5, <4>1, <4>2 DEF LatestOK
    <3> QED BY <2>0, <2>1, <3>1, <3>2, <3>4, <3>6 DEF NewFunction
  <2>2. ASSUME NEW t \in Threads, RegisterCallback(t)
        PROVE  OtherInv'
    <3>1. arg[t] \in Callbacks /\ home[arg[t]] \in Contexts /\ kind[arg[t]] # None
      BY <2>2 DEF ArgOK, RegisterCallback
    <3>2. TypeOK'
      BY <2>2, <3>1 DEF TypeOK, RegisterCallback
    <3>3. ArgOK'
      BY <2>2 DEF TypeOK, ArgOK, RegisterCallback
    <3>4. /\ Len(entered) \in Nat /\ Len(entered') = Len(entered) + 1
          /\ entered'[Len(entered')] = arg[t]
          /\ \A i \in 1 .. Len(entered) : i \in 1 .. Len(entered') /\ entered'[i] = entered[i]
          /\ \A i \in 1 .. Len(entered') : i = Len(entered') \/ i \in 1 .. Len(entered)
      BY <2>2, <3>1 DEF TypeOK, RegisterCallback
    <3>5. EnteredOK'
      BY <2>2, <3>1, <3>4 DEF EnteredOK, RegisterCallback
    <3>6. \A y \in Contexts, h \in HashCodes :
            /\ \A i \in 1 .. Len(entered) : Under(i, y, h)' <=> Under(i, y, h)
            /\ \A i \in 1 .. Len(entered') : i = Len(entered) + 1 =>
                 (Under(i, y, h)' <=> (y = home[arg[t]] /\ h = hash[arg[t]]))
      BY <2>2, <3>4 DEF Under, RegisterCallback
    <3>7. ASSUME NEW y \in Contexts, NEW h \in HashCodes,
                 functionRegistry'[y][h] # None
          PROVE  \E i \in 1 .. Len(entered') :
                   /\ entered'[i] = functionRegistry'[y][h]
                   /\ Under(i, y, h)'
                   /\ \A j \in i + 1 .. Len(entered') : ~Under(j, y, h)'
      <4>1. CASE y = home[arg[t]] /\ h = hash[arg[t]]
        <5>1. functionRegistry'[y][h] = arg[t]
          BY <2>2, <4>1 DEF TypeOK, RegisterCallback
        <5>2. Len(entered') \in 1 .. Len(entered')
          BY <3>4
        <5>3. \A j \in Len(entered') + 1 .. Len(entered') : FALSE
          BY <3>4
        <5>4. PICK i \in 1 .. Len(entered') : i = Len(entered')
          BY <5>2
        <5>5. Under(i, y, h)'
          BY <3>4, <3>6, <4>1, <5>4
        <5>6. \A j \in i + 1 .. Len(entered') : FALSE
          BY <5>3, <5>4
        <5> QED BY <3>4, <5>1, <5>4, <5>5, <5>6
      <4>2. CASE ~(y = home[arg[t]] /\ h = hash[arg[t]])
        <5>1. functionRegistry'[y][h] = functionRegistry[y][h]
          BY <2>2, <3>1, <4>2 DEF TypeOK, RegisterCallback
        <5>2. PICK i \in 1 .. Len(entered) :
                /\ entered[i] = functionRegistry[y][h]
                /\ Under(i, y, h)
                /\ \A j \in i + 1 .. Len(entered) : ~Under(j, y, h)
          BY <3>7, <5>1 DEF LatestOK
        <5>3. ASSUME NEW j \in i + 1 .. Len(entered')
              PROVE  ~Under(j, y, h)'
          <6>1. \/ j = Len(entered) + 1 /\ j \in 1 .. Len(entered')
                \/ j \in 1 .. Len(entered) /\ j \in i + 1 .. Len(entered)
            BY <3>4
          <6>2. CASE j = Len(entered) + 1 /\ j \in 1 .. Len(entered')
            BY <3>6, <4>2, <6>2
          <6>3. CASE j \in 1 .. Len(entered) /\ j \in i + 1 .. Len(entered)
            BY <3>6, <5>2, <6>3
          <6> QED BY <6>1, <6>2, <6>3
        <5> QED BY <3>4, <3>6, <5>1, <5>2, <5>3
      <4> QED BY <4>1, <4>2
    <3>8. LatestOK'
      BY <3>7 DEF LatestOK
    <3> QED BY <2>0, <2>2, <3>2, <3>3, <3>5, <3>8 DEF RegisterCallback
  <2>3. ASSUME NEW t \in Threads, SetFunction(t)
        PROVE  OtherInv'
    <3>1. TypeOK'
      BY <2>3 DEF TypeOK, ArgOK, SetFunction
    <3>2. ArgOK'
      BY <2>3 DEF TypeOK, ArgOK, SetFunction
    <3> QED BY <2>0, <2>3, <3>1, <3>2 DEF SetFunction
  <2>4. ASSUME NEW c \in Callbacks, NEW x \in Contexts, Share(c, x)
        PROVE  OtherInv'
    <3>1. TypeOK'
      BY <2>4 DEF TypeOK, Share
    <3> QED BY <2>0, <2>4, <3>1 DEF ArgOK, Share
  <2>5. ASSUME NEW c \in Callbacks, NEW x \in Contexts, CallJavaCallback(c, x)
        PROVE  OtherInv'
    <3>1. CalleeContext(c, x) \in Contexts
      BY DEF CalleeContext, ArgOK, AllKinds
    <3>2. PICK y \in Contexts : y = CalleeContext(c, x)
      BY <3>1
    <3>3. PICK h \in HashCodes : h = hash[c]
      BY DEF TypeOK
    <3>4. PICK d \in Callbacks \cup {None} : d = functionRegistry[y][h]
      BY DEF TypeOK
    <3>5. Runs(c, x) = IF d = None THEN "nothing"
                       ELSE IF (d \in Void) # (c \in Void) THEN "NullPointerException"
                       ELSE d
      BY <3>2, <3>3, <3>4 DEF Runs
    <3>6. PICK r \in Callbacks \cup {"nothing", "NullPointerException"} : r = Runs(c, x)
      BY <3>5
    <3>7. call' = [called |-> c, context |-> y, ran |-> r]
      BY <2>5, <3>2, <3>6 DEF CallJavaCallback
    <3>8. TypeOK'
      BY <2>5, <3>7 DEF TypeOK, CallJavaCallback
    <3>9. RunsItsOwn'
      <4>1. CASE d = None
        BY <3>5, <3>6, <3>7, <4>1 DEF RunsItsOwn
      <4>2. CASE d # None
        <5>1. PICK i \in 1 .. Len(entered) :
                /\ entered[i] = d
                /\ Under(i, y, h)
                /\ \A j \in i + 1 .. Len(entered) : ~Under(j, y, h)
          BY <3>4, <4>2 DEF LatestOK
        <5>2. home[c] = y => \A j \in i + 1 .. Len(entered) : entered[j] # c
          BY <3>3, <5>1 DEF Under
        <5>3. home[d] = y /\ hash[d] = hash[c]
          BY <3>3, <5>1 DEF Under
        <5>4. r = d \/ (r = "NullPointerException" /\ (d \in Void) # (c \in Void))
          BY <3>5, <3>6, <4>2
        <5>5. hash' = hash /\ home' = home /\ entered' = entered
          BY <2>5 DEF CallJavaCallback
        <5>6. call'.called = c /\ call'.context = y /\ call'.ran = r
          BY <3>7
        <5> QED BY <5>1, <5>2, <5>3, <5>4, <5>5, <5>6 DEF RunsItsOwn
      <4> QED BY <4>1, <4>2
    <3> QED BY <2>0, <2>5, <3>8, <3>9 DEF ArgOK, CallJavaCallback
  <2>6. ASSUME NEW x \in Contexts, Close(x)
        PROVE  OtherInv'
    <3>1. TypeOK'
      BY <2>6 DEF TypeOK, Close
    <3>2. \A y \in Contexts, h \in HashCodes :
            functionRegistry'[y][h] \in {None, functionRegistry[y][h]}
      BY <2>6 DEF TypeOK, Close
    <3>3. LatestOK'
      BY <2>6, <3>2 DEF LatestOK, Under, Close
    <3> QED BY <2>0, <2>6, <3>1, <3>3 DEF ArgOK, Close
  <2>7. CASE UNCHANGED vars
    BY <2>7 DEF vars, TypeOK, ArgOK, EnteredOK, LatestOK, Under, RunsItsOwn
  <2>8. ASSUME NEW t \in Threads, NEW c \in Callbacks, NEW x \in Contexts,
               RegisterJavaMethod(t, c, x) \/ NewJSFunction(t, c, x)
                 \/ RegisterClass(t, c, x)
        PROVE  \E k \in AllKinds : NewFunction(t, c, k, x)
    BY <2>8 DEF RegisterJavaMethod, NewJSFunction, RegisterClass, AllKinds
  <2> QED BY <2>1, <2>2, <2>3, <2>4, <2>5, <2>6, <2>7, <2>8 DEF Next, Quiescent
<1>3. OtherInv => RunsItsOwn
  BY DEF OtherInv
<1> QED BY <1>1, <1>2, <1>3, PTL DEF Spec

\* The entry that a call of callback c from its own context looks up.
Entry(c) == functionRegistry[home[c]][hash[c]]

\* Scripts reach only functions that were made.
VisibleOK == \A c \in Callbacks : visible[c] # {} => kind[c] # None

\* The entry of a function that was made is there as long as its context is
\* open, once its thread has entered it.
EntryOK ==
    \A c \in Callbacks : kind[c] # None =>
        home[c] \in closed \/ Registering(c) \/ Entry(c) # None

LostInv == TypeOK /\ ArgOK /\ VisibleOK /\ EntryOK

\* The entries of functions are there, whatever the threads, contexts, callbacks
\* and hash codes.
LEMMA EntriesAreThere == Spec => []LostInv
<1> USE CallbackRegistryAssumption
<1>1. Init => LostInv
  BY DEF Init, LostInv, TypeOK, ArgOK, VisibleOK, EntryOK, Threads
<1>2. LostInv /\ [Next]_vars => LostInv'
  <2> SUFFICES ASSUME LostInv, [Next]_vars PROVE LostInv'
    OBVIOUS
  <2> USE DEF LostInv
  <2>1. ASSUME NEW t \in Threads, NEW c \in Callbacks, NEW k \in AllKinds,
               NEW x \in Contexts, NewFunction(t, c, k, x)
        PROVE  LostInv'
    <3>1. TypeOK'
      BY <2>1 DEF TypeOK, NewFunction, AllKinds
    <3>2. ArgOK'
      BY <2>1 DEF TypeOK, ArgOK, NewFunction, AllKinds
    <3>3. VisibleOK'
      BY <2>1 DEF TypeOK, VisibleOK, NewFunction, AllKinds
    <3>4. ASSUME NEW d \in Callbacks, kind'[d] # None
          PROVE  home'[d] \in closed' \/ Registering(d)' \/ (Entry(d)' # None)
      <4>1. CASE d = c
        BY <2>1, <4>1 DEF TypeOK, Registering, NewFunction
      <4>2. CASE d # c
        <5>1. kind[d] # None /\ home'[d] = home[d] /\ Entry(d)' = Entry(d)
          BY <2>1, <3>4, <4>2 DEF TypeOK, Entry, NewFunction
        <5>2. Registering(d) => Registering(d)'
          BY <2>1 DEF TypeOK, Registering, NewFunction
        <5> QED BY <2>1, <5>1, <5>2 DEF EntryOK, NewFunction
      <4> QED BY <4>1, <4>2
    <3> QED BY <3>1, <3>2, <3>3, <3>4 DEF EntryOK
  <2>2. ASSUME NEW t \in Threads, RegisterCallback(t)
        PROVE  LostInv'
    <3>1. arg[t] \in Callbacks /\ home[arg[t]] \in Contexts
      BY <2>2 DEF ArgOK, RegisterCallback
    <3>2. TypeOK'
      BY <2>2, <3>1 DEF TypeOK, RegisterCallback
    <3>3. ArgOK' /\ VisibleOK'
      BY <2>2 DEF TypeOK, ArgOK, VisibleOK, RegisterCallback
    <3>4. \A y \in Contexts, k \in HashCodes :
            /\ functionRegistry[y][k] # None => functionRegistry'[y][k] # None
            /\ y = home[arg[t]] /\ k = hash[arg[t]] => functionRegistry'[y][k] # None
      BY <2>2, <3>1 DEF TypeOK, RegisterCallback
    <3>5. ASSUME NEW d \in Callbacks, kind'[d] # None
          PROVE  home'[d] \in closed' \/ Registering(d)' \/ (Entry(d)' # None)
      <4>1. kind[d] # None /\ home[d] \in Contexts /\ home' = home /\ closed' = closed
        BY <2>2, <3>5 DEF ArgOK, RegisterCallback
      <4>2. hash[d] \in HashCodes /\ hash' = hash
        BY <2>2 DEF TypeOK, RegisterCallback
      <4>4. /\ Entry(d) # None => Entry(d)' # None
            /\ d = arg[t] => Entry(d)' # None
        BY <3>4, <4>1, <4>2 DEF Entry
      <4>3. Registering(d) /\ d # arg[t] => Registering(d)'
        BY <2>2 DEF TypeOK, Registering, RegisterCallback
      <4> QED BY <4>1, <4>3, <4>4 DEF EntryOK
    <3> QED BY <3>2, <3>3, <3>5 DEF EntryOK
  <2>3. ASSUME NEW t \in Threads, SetFunction(t)
        PROVE  LostInv'
    <3>1. TypeOK' /\ ArgOK'
      BY <2>3 DEF TypeOK, ArgOK, SetFunction
    <3>2. VisibleOK'
      BY <2>3 DEF TypeOK, ArgOK, VisibleOK, SetFunction
    <3>3. \A d \in Callbacks : Registering(d) => Registering(d)'
      BY <2>3 DEF TypeOK, Registering, SetFunction
    <3> QED BY <2>3, <3>1, <3>2, <3>3 DEF EntryOK, Entry, SetFunction
  <2>4. ASSUME NEW c \in Callbacks, NEW x \in Contexts, Share(c, x)
        PROVE  LostInv'
    <3>1. TypeOK' /\ VisibleOK'
      BY <2>4 DEF TypeOK, VisibleOK, Share
    <3> QED BY <2>4, <3>1 DEF ArgOK, EntryOK, Entry, Registering, Share
  <2>5. ASSUME NEW c \in Callbacks, NEW x \in Contexts, CallJavaCallback(c, x)
        PROVE  LostInv'
    <3>1. CalleeContext(c, x) \in Contexts
      BY DEF CalleeContext, ArgOK, AllKinds
    <3>2. PICK d : d = functionRegistry[CalleeContext(c, x)][hash[c]]
      OBVIOUS
    <3>3. d \in Callbacks \cup {None}
      BY <3>1, <3>2 DEF TypeOK
    <3>4. Runs(c, x) \in Callbacks \cup {"nothing", "NullPointerException"}
      BY <3>2, <3>3 DEF Runs
    <3>5. PICK r \in Callbacks \cup {"nothing", "NullPointerException"} : r = Runs(c, x)
      BY <3>4
    <3>6. PICK y \in Contexts : y = CalleeContext(c, x)
      BY <3>1
    <3>7. call' = [called |-> c, context |-> y, ran |-> r]
      BY <2>5, <3>5, <3>6 DEF CallJavaCallback
    <3>8. TypeOK'
      BY <2>5, <3>7 DEF TypeOK, CallJavaCallback
    <3> QED BY <2>5, <3>8
            DEF ArgOK, VisibleOK, EntryOK, Entry, Registering, CallJavaCallback
  <2>6. ASSUME NEW x \in Contexts, Close(x)
        PROVE  LostInv'
    <3>1. TypeOK' /\ ArgOK' /\ VisibleOK'
      BY <2>6 DEF TypeOK, ArgOK, VisibleOK, Close
    <3>2. /\ pc' = pc /\ arg' = arg /\ kind' = kind /\ home' = home /\ hash' = hash
          /\ closed' = closed \cup {x}
          /\ \A y \in Contexts : y # x => functionRegistry'[y] = functionRegistry[y]
      BY <2>6 DEF TypeOK, Close
    <3>3. \A d \in Callbacks : kind[d] # None => home[d] \in Contexts
      BY DEF ArgOK
    <3> QED BY <3>1, <3>2, <3>3 DEF EntryOK, Entry, Registering
  <2>7. CASE UNCHANGED vars
    BY <2>7 DEF vars, TypeOK, ArgOK, VisibleOK, EntryOK, Entry, Registering
  <2>8. ASSUME NEW t \in Threads, NEW c \in Callbacks, NEW x \in Contexts,
               RegisterJavaMethod(t, c, x) \/ NewJSFunction(t, c, x)
                 \/ RegisterClass(t, c, x)
        PROVE  \E k \in AllKinds : NewFunction(t, c, k, x)
    BY <2>8 DEF RegisterJavaMethod, NewJSFunction, RegisterClass, AllKinds
  <2> QED BY <2>1, <2>2, <2>3, <2>4, <2>5, <2>6, <2>7, <2>8 DEF Next, Quiescent
<1> QED BY <1>1, <1>2, PTL DEF Spec

\* registerCallback, the functions and the registry of every context keep their
\* types: in particular what a call runs is a callback or one of the two ways
\* of failing.
THEOREM TypeCorrect == Spec => []TypeOK
<1>1. LostInv => TypeOK
  BY DEF LostInv
<1> QED BY <1>1, EntriesAreThere, PTL

\* No call is lost but for the three cases that NoCallLost names, whatever the
\* threads, contexts, callbacks and hash codes.
THEOREM EveryCallRuns == Spec => []NoCallLost
<1> USE CallbackRegistryAssumption
<1>1. LostInv => NoCallLost
  <2> SUFFICES ASSUME LostInv, NEW c \in Callbacks, NEW x \in visible[c],
                      CalleeContext(c, x) = home[c],
                      home[c] \notin closed, ~Registering(c)
               PROVE  Runs(c, x) # "nothing"
    BY DEF NoCallLost
  <2>1. kind[c] # None /\ Entry(c) # None
    BY DEF LostInv, VisibleOK, EntryOK
  <2>2. Entry(c) \in Callbacks
    BY <2>1 DEF LostInv, TypeOK, ArgOK, Entry
  <2> QED BY <2>1, <2>2 DEF Runs, Entry
<1> QED BY <1>1, EntriesAreThere, PTL

=============================================================================
