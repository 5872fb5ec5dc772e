------------------------ MODULE HandleReleaseProofs -------------------------
(***************************************************************************)
(* No reference is freed twice, and none is freed under the application,   *)
(* when one thread uses the context: for any number of references, any     *)
(* hash function, with the collector and its finalizer thread running.     *)
(* While the context is not closed, none is freed under the application by *)
(* any number of threads.                                                  *)
(***************************************************************************)
EXTENDS HandleRelease, TLAPS

InPool(r) == \E i \in DOMAIN pool : pool[i] = r

NoRepeats(q) == \A i, j \in DOMAIN q : q[i] = q[j] => i = j

\* The handle is in charge of its reference.
InCharge(h) == h \in made /\ h \notin released

\* The finalizer is between released = true and the pool.
Carried(r) == finalizing.step = "add" /\ finalizing.handle[1] = r

\* Where the only thread is in its loop over the pool.
LoopOK ==
    /\ pc[JSThread] \in {"free", "remove"} =>
         pool # << >> /\ local[JSThread] = Head(pool)
    /\ pc[JSThread] = "get" => pool # << >>

\* The only thread is past the mark in a constructor.
Moving ==
    \/ pc[JSThread] \in {"unlink", "link"}
    \/ /\ pc[JSThread] \in {"test", "get", "free", "remove"}
       /\ task[JSThread] = "construct"

\* The handles known to refs, to close and to the application exist; what a
\* constructor is about to move has not been moved.
KnownOK ==
    /\ \A k \in HashCodes : refs[k] # NoHandle => refs[k] \in made
    /\ snapshot \subseteq made
    /\ held \subseteq made
    /\ released \subseteq made
    /\ \A r \in Refs : <<r, 1>> \in made => <<r, 0>> \in made
    /\ pc[JSThread] = "mark" =>
         /\ arg[JSThread] \in Refs
         /\ InCharge(<<arg[JSThread], 0>>)
         /\ <<arg[JSThread], 1>> \notin made
    /\ Moving => arg[JSThread] \in Refs /\ <<arg[JSThread], 1>> \in made
    /\ finalizing.step # "none" => finalizing.handle \in made

\* Each reference is in one place: with one handle, with the finalizer, in the
\* pool or freed; only the entry being removed is in the pool and freed.
TokenOK ==
    /\ NoRepeats(pool)
    /\ \A r \in Refs :
        /\ frees[r] \in {0, 1}
        /\ InCharge(<<r, 0>>) => <<r, 1>> \notin made
        /\ \A i \in {0, 1} : InCharge(<<r, i>>) =>
             frees[r] = 0 /\ ~InPool(r) /\ ~Carried(r)
        /\ Carried(r) => frees[r] = 0 /\ ~InPool(r)
        /\ frees[r] = 1 /\ InPool(r) =>
             pc[JSThread] = "remove" /\ r = Head(pool)
        /\ frees[r] = 1 \/ InPool(r) \/ Carried(r) => <<r, 0>> \in made

Inv == TypeOK /\ LoopOK /\ KnownOK /\ TokenOK

\* The only thread that uses the context is the owner of its engine.
SingleUser == Users = {JSThread}

-----------------------------------------------------------------------------
(***************************************************************************)
(* Handles, and membership in the pool.                                    *)
(***************************************************************************)

LEMMA HandleParts ==
    ASSUME NEW h \in Handles
    PROVE  h[1] \in Refs /\ h[2] \in {0, 1} /\ h = <<h[1], h[2]>>
BY DEF Handles

LEMMA HandleMade ==
    ASSUME NEW r \in Refs, NEW i \in {0, 1}
    PROVE  <<r, i>> \in Handles /\ <<r, i>>[1] = r
BY DEF Handles

LEMMA AppendFacts ==
    ASSUME NEW q \in Seq(Refs), NEW x \in Refs
    PROVE  /\ Append(q, x) \in Seq(Refs)
           /\ Append(q, x) # << >>
           /\ q # << >> => Head(Append(q, x)) = Head(q)
           /\ \A r : (\E i \in DOMAIN Append(q, x) : Append(q, x)[i] = r)
                       <=> r = x \/ \E i \in DOMAIN q : q[i] = r
           /\ NoRepeats(q) /\ ~(\E i \in DOMAIN q : q[i] = x) => NoRepeats(Append(q, x))
<1>1. /\ DOMAIN q = 1 .. Len(q)
      /\ DOMAIN Append(q, x) = 1 .. Len(q) + 1
      /\ Len(q) \in Nat
      /\ \A i \in 1 .. Len(q) : Append(q, x)[i] = q[i]
      /\ Append(q, x)[Len(q) + 1] = x
  OBVIOUS
<1>2. q # << >> => Head(Append(q, x)) = Head(q)
  OBVIOUS
<1>3. \A r : (\E i \in DOMAIN Append(q, x) : Append(q, x)[i] = r)
               <=> r = x \/ \E i \in DOMAIN q : q[i] = r
  BY <1>1
<1>4. NoRepeats(q) /\ ~(\E i \in DOMAIN q : q[i] = x) => NoRepeats(Append(q, x))
  BY <1>1 DEF NoRepeats
<1> QED
  BY <1>2, <1>3, <1>4

LEMMA TailFacts ==
    ASSUME NEW q \in Seq(Refs), q # << >>, NoRepeats(q)
    PROVE  /\ Tail(q) \in Seq(Refs)
           /\ NoRepeats(Tail(q))
           /\ \A r : (\E i \in DOMAIN Tail(q) : Tail(q)[i] = r)
                       => r # Head(q) /\ \E i \in DOMAIN q : q[i] = r
<1>1. /\ DOMAIN q = 1 .. Len(q)
      /\ DOMAIN Tail(q) = 1 .. Len(q) - 1
      /\ Len(q) \in Nat /\ Len(q) # 0
      /\ \A i \in 1 .. Len(q) - 1 : Tail(q)[i] = q[i + 1]
      /\ Head(q) = q[1]
  OBVIOUS
<1> QED
  BY <1>1 DEF NoRepeats

LEMMA HeadFacts ==
    ASSUME NEW q \in Seq(Refs), q # << >>
    PROVE  Head(q) \in Refs /\ \E i \in DOMAIN q : q[i] = Head(q)
<1>1. 1 \in DOMAIN q /\ q[1] = Head(q)
  OBVIOUS
<1> QED
  BY <1>1

\* addObjRef and removeObjRef keep the types of refs and of the history.
LEMMA ObjRefType ==
    ASSUME TypeOK, NEW h \in Handles, AddObjRef(h) \/ RemoveObjRef(h)
    PROVE  /\ refs' \in [HashCodes -> Handles \cup {NoHandle}]
           /\ lost' \in SUBSET Handles
<1>1. Hash[h] \in HashCodes /\ refs[Hash[h]] \in Handles \cup {NoHandle}
  BY HandleReleaseAssumption DEF TypeOK
<1> QED
  BY <1>1 DEF TypeOK, AddObjRef, RemoveObjRef

-----------------------------------------------------------------------------

LEMMA InvInit ==
    ASSUME SingleUser, Init
    PROVE  Inv
<1> USE HandleReleaseAssumption DEF Init
<1>1. TypeOK
  <2>1. pc \in [Threads -> Steps] /\ task \in [Threads -> Tasks]
    BY DEF Steps, Tasks
  <2>2. frees \in [Refs -> Nat] /\ pool \in Seq(Refs)
    OBVIOUS
  <2>3. finalizing \in [handle : Handles \cup {NoHandle}, step : FinalizerSteps]
    BY DEF FinalizerSteps
  <2> QED
    BY <2>1, <2>2, <2>3 DEF TypeOK
<1>2. LoopOK /\ KnownOK
  BY DEF LoopOK, KnownOK, Threads, InCharge, Moving
<1>3. TokenOK
  BY DEF TokenOK, NoRepeats, InCharge, InPool, Carried
<1> QED
  BY <1>1, <1>2, <1>3 DEF Inv

LEMMA InvStep ==
    ASSUME SingleUser, Inv, [Next]_vars
    PROVE  Inv'
<1> USE HandleReleaseAssumption DEF Inv
<1>a. /\ Threads = {JSThread}
      /\ pc \in [{JSThread} -> Steps] /\ pc[JSThread] \in Steps
  BY DEF SingleUser, Threads, TypeOK
<1>1. ASSUME NEW t \in Threads, NEW r \in Refs, NewHandle(t, r)
      PROVE  /\ t = JSThread /\ pc[JSThread] = "idle"
             /\ <<r, 0>> \in Handles /\ <<r, 0>> \notin made
             /\ <<r, 1>> \notin made
             /\ refs' \in [HashCodes -> Handles \cup {NoHandle}]
             /\ lost' \in SUBSET Handles
             /\ \A k \in HashCodes : refs'[k] = refs[k] \/ refs'[k] = <<r, 0>>
             /\ TokenOK'
  <2>1. /\ t = JSThread /\ pc[JSThread] = "idle"
        /\ <<r, 0>> \in Handles /\ <<r, 0>> \notin made /\ <<r, 1>> \notin made
    BY <1>1, <1>a, HandleMade DEF NewHandle, KnownOK
  <2>2. /\ refs' \in [HashCodes -> Handles \cup {NoHandle}]
        /\ lost' \in SUBSET Handles
        /\ \A k \in HashCodes : refs'[k] = refs[k] \/ refs'[k] = <<r, 0>>
    <3>1. AddObjRef(<<r, 0>>)
      BY <1>1 DEF NewHandle
    <3>2. \A k \in HashCodes : refs'[k] = refs[k] \/ refs'[k] = <<r, 0>>
      BY <3>1 DEF AddObjRef, TypeOK
    <3> QED
      BY <2>1, <3>1, <3>2, ObjRefType
  <2>3. TokenOK'
    <3>1. /\ made' = made \cup {<<r, 0>>} /\ released' = released
          /\ frees' = frees /\ pool' = pool /\ finalizing' = finalizing
          /\ <<r, 0>> \notin released
      BY <1>1, <2>1 DEF NewHandle, KnownOK
    <3>2. frees[r] = 0 /\ ~InPool(r) /\ ~Carried(r)
      BY <2>1 DEF TokenOK
    <3>3. \A x \in Refs : frees[x] = 1 /\ InPool(x) => FALSE
      BY <2>1 DEF TokenOK
    <3> QED
      BY <2>1, <3>1, <3>2, <3>3 DEF TokenOK, InCharge, InPool, Carried
  <2> QED
    BY <2>1, <2>2, <2>3
<1>b. ASSUME NEW t \in Threads, NEW r \in Refs, Obtain(t, r)
      PROVE  Inv'
  <2> USE <1>a, <1>b, <1>1 DEF Obtain
  <2>1. NewHandle(t, r)
    OBVIOUS
  <2>5. /\ made' = made \cup {<<r, 0>>} /\ held' = held \cup {<<r, 0>>}
        /\ <<r, 0>> \in Handles /\ pc' = pc /\ arg' = arg
    BY <2>1 DEF NewHandle
  <2>6. made' \in SUBSET Handles /\ held' \in SUBSET Handles
    BY <2>5 DEF TypeOK
  <2>2. TypeOK'
    BY <2>1, <2>5, <2>6 DEF NewHandle, TypeOK
  <2>3. LoopOK'
    BY <2>1 DEF NewHandle, LoopOK
  <2>4. KnownOK'
    BY <2>1 DEF NewHandle, KnownOK, InCharge, Moving
  <2> QED
    BY <2>1, <2>2, <2>3, <2>4
<1>c. ASSUME NEW t \in Threads, NEW r \in Refs, Construct(t, r)
      PROVE  Inv'
  <2> USE <1>a, <1>c, <1>1 DEF Construct
  <2>1. NewHandle(t, r)
    OBVIOUS
  <2>5. pc' \in [Threads -> Steps] /\ arg' \in [Threads -> Refs \cup {NoHandle}]
    BY DEF TypeOK, Steps
  <2>7. made' = made \cup {<<r, 0>>} /\ held' = held /\ <<r, 0>> \in Handles
    BY <2>1 DEF NewHandle
  <2>6. made' \in SUBSET Handles /\ held' \in SUBSET Handles
    BY <2>7 DEF TypeOK
  <2>2. TypeOK'
    BY <2>1, <2>5, <2>6 DEF NewHandle, TypeOK
  <2>3. LoopOK'
    BY <2>1 DEF NewHandle, LoopOK
  <2>4. KnownOK'
    <3>1. /\ arg'[JSThread] = r /\ pc'[JSThread] = "mark"
          /\ made' = made \cup {<<r, 0>>} /\ released' = released
          /\ snapshot' = snapshot /\ held' = held /\ finalizing' = finalizing
      BY <2>1 DEF NewHandle, TypeOK
    <3>2. <<r, 0>> \notin released /\ <<r, 1>> \notin made'
      BY <2>1, <3>1 DEF KnownOK
    <3> QED
      BY <2>1, <3>1, <3>2 DEF KnownOK, InCharge, Moving
  <2> QED
    BY <2>1, <2>2, <2>3, <2>4
<1>2. ASSUME NEW t \in Threads, ConstructMark(t)
      PROVE  Inv'
  <2>1. t = JSThread /\ arg[JSThread] \in Refs /\ pc[JSThread] = "mark"
    BY <1>2, <1>a DEF ConstructMark, KnownOK
  <2>2. <<arg[JSThread], 0>> \in Handles /\ <<arg[JSThread], 1>> \in Handles
    BY <2>1, HandleMade
  <2>3. TypeOK'
    BY <1>2, <2>1, <2>2, <1>a DEF ConstructMark, TypeOK, Steps
  <2>4. LoopOK'
    BY <1>2, <2>1, <1>a DEF ConstructMark, LoopOK, TypeOK
  <2>5. KnownOK'
    BY <1>2, <2>1, <2>2, <1>a DEF ConstructMark, KnownOK, TypeOK, InCharge, Moving
  <2>6. TokenOK'
    BY <1>2, <2>1, <2>2, <1>a
       DEF ConstructMark, TokenOK, KnownOK, TypeOK, InCharge, InPool, Carried
  <2> QED
    BY <2>3, <2>4, <2>5, <2>6
<1>3. ASSUME NEW t \in Threads, ConstructUnlink(t)
      PROVE  Inv'
  <2>1. /\ t = JSThread /\ pc[JSThread] = "unlink" /\ arg[JSThread] \in Refs
        /\ <<arg[JSThread], 0>> \in Handles
    BY <1>3, <1>a, HandleMade DEF ConstructUnlink, KnownOK, Moving
  <2>2. TypeOK'
    BY <1>3, <2>1, <1>a, ObjRefType DEF ConstructUnlink, TypeOK, Steps
  <2>3. LoopOK' /\ KnownOK'
    BY <1>3, <2>1, <1>a DEF ConstructUnlink, RemoveObjRef, LoopOK, KnownOK, TypeOK, InCharge, Moving
  <2>4. TokenOK'
    BY <1>3, <2>1, <1>a DEF ConstructUnlink, TokenOK, InCharge, InPool, Carried
  <2> QED
    BY <2>2, <2>3, <2>4
<1>4. ASSUME NEW t \in Threads, ConstructLink(t)
      PROVE  Inv'
  <2>1. /\ t = JSThread /\ pc[JSThread] = "link" /\ arg[JSThread] \in Refs
        /\ <<arg[JSThread], 1>> \in Handles /\ <<arg[JSThread], 1>> \in made
    BY <1>4, <1>a, HandleMade DEF ConstructLink, KnownOK, Moving
  <2>2. TypeOK'
    BY <1>4, <2>1, <1>a, ObjRefType DEF ConstructLink, TypeOK, Steps, Tasks
  <2>3. LoopOK' /\ KnownOK'
    BY <1>4, <2>1, <1>a DEF ConstructLink, AddObjRef, LoopOK, KnownOK, TypeOK, InCharge, Moving
  <2>4. TokenOK'
    BY <1>4, <2>1, <1>a DEF ConstructLink, TokenOK, InCharge, InPool, Carried
  <2> QED
    BY <2>2, <2>3, <2>4
<1>5. ASSUME NEW t \in Threads, Use(t) \/ PoolTest(t)
      PROVE  Inv'
  <2>1. t = JSThread /\ pc[JSThread] \in {"idle", "test"}
    BY <1>5, <1>a DEF Use, PoolTest
  <2>2. TypeOK'
    BY <1>5, <2>1, <1>a DEF Use, PoolTest, TypeOK, Steps, Tasks
  <2>3. LoopOK' /\ KnownOK'
    BY <1>5, <2>1, <1>a DEF Use, PoolTest, LoopOK, KnownOK, TypeOK, InCharge, Moving
  <2>4. TokenOK'
    BY <1>5, <2>1, <1>a DEF Use, PoolTest, TokenOK, InCharge, InPool, Carried
  <2> QED
    BY <2>2, <2>3, <2>4
<1>6. ASSUME NEW t \in Threads, PoolDone(t)
      PROVE  Inv'
  <2>1. /\ t = JSThread /\ pc[JSThread] = "test"
        /\ task[JSThread] = "construct" => <<arg[JSThread], 1>> \in made \cap Handles
    <3>1. /\ t = JSThread /\ pc[JSThread] = "test"
          /\ task[JSThread] = "construct" =>
               arg[JSThread] \in Refs /\ <<arg[JSThread], 1>> \in made
      BY <1>6, <1>a DEF PoolDone, KnownOK, Moving
    <3> QED
      BY <3>1 DEF TypeOK
  <2>2. held' \in SUBSET Handles /\ held' \subseteq made
    <3>1. CASE held' = held
      BY <3>1 DEF TypeOK, KnownOK
    <3>2. CASE task[JSThread] = "construct" /\ held' = held \cup {<<arg[JSThread], 1>>}
      BY <2>1, <3>2 DEF TypeOK, KnownOK
    <3> QED
      BY <1>6, <2>1, <3>1, <3>2 DEF PoolDone
  <2>3. TypeOK'
    BY <1>6, <2>1, <2>2, <1>a DEF PoolDone, TypeOK, Steps
  <2>4. LoopOK' /\ KnownOK'
    BY <1>6, <2>1, <2>2, <1>a DEF PoolDone, LoopOK, KnownOK, InCharge, Moving
  <2>5. TokenOK'
    BY <1>6, <2>1, <1>a DEF PoolDone, TokenOK, InCharge, InPool, Carried
  <2> QED
    BY <2>3, <2>4, <2>5
<1>7. ASSUME NEW t \in Threads, PoolGet(t)
      PROVE  Inv'
  <2>1. t = JSThread /\ pc[JSThread] = "get" /\ Head(pool) \in Refs
    BY <1>7, <1>a, HeadFacts DEF PoolGet, TypeOK
  <2>2. TypeOK'
    BY <1>7, <2>1, <1>a DEF PoolGet, TypeOK, Steps
  <2>3. LoopOK' /\ KnownOK'
    BY <1>7, <2>1, <1>a DEF PoolGet, LoopOK, KnownOK, TypeOK, InCharge, Moving
  <2>4. TokenOK'
    BY <1>7, <2>1, <1>a DEF PoolGet, TokenOK, InCharge, InPool, Carried
  <2> QED
    BY <2>2, <2>3, <2>4
<1>8. ASSUME NEW t \in Threads, PoolFree(t)
      PROVE  Inv'
  <2> DEFINE r == Head(pool)
  <2>1. /\ t = JSThread /\ pc[JSThread] = "free" /\ pool # << >>
        /\ local[JSThread] = r /\ r \in Refs /\ InPool(r)
    BY <1>8, <1>a, HeadFacts DEF PoolFree, LoopOK, TypeOK, InPool
  <2>2. frees[r] = 0 /\ \A x \in Refs : ~(frees[x] = 1 /\ InPool(x))
    BY <2>1 DEF TokenOK
  <2>3. frees' = frees \/ frees' = [frees EXCEPT ![r] = 1]
    BY <1>8, <2>1, <2>2 DEF PoolFree, TypeOK
  <2>4. TypeOK'
    BY <1>8, <2>1, <2>3, <1>a DEF PoolFree, TypeOK, Steps
  <2>5. LoopOK' /\ KnownOK'
    BY <1>8, <2>1, <1>a DEF PoolFree, LoopOK, KnownOK, TypeOK, InCharge, Moving
  <2>6. TokenOK'
    BY <1>8, <2>1, <2>2, <2>3, <1>a DEF PoolFree, TokenOK, TypeOK, InCharge, InPool, Carried
  <2> QED
    BY <2>4, <2>5, <2>6
<1>9. ASSUME NEW t \in Threads, PoolRemove(t)
      PROVE  Inv'
  <2>1. /\ t = JSThread /\ pc[JSThread] = "remove" /\ pool # << >>
        /\ pool \in Seq(Refs) /\ NoRepeats(pool) /\ pool' = Tail(pool)
    BY <1>9, <1>a DEF PoolRemove, TypeOK, TokenOK
  <2>2. /\ pool' \in Seq(Refs) /\ NoRepeats(pool')
        /\ \A r : InPool(r)' => r # Head(pool) /\ InPool(r)
    BY <2>1, TailFacts DEF InPool
  <2>3. TypeOK'
    BY <1>9, <2>1, <2>2, <1>a DEF PoolRemove, TypeOK, Steps
  <2>4. LoopOK' /\ KnownOK'
    BY <1>9, <2>1, <1>a DEF PoolRemove, LoopOK, KnownOK, TypeOK, InCharge, Moving
  <2>5. TokenOK'
    BY <1>9, <2>1, <2>2, <1>a DEF PoolRemove, TokenOK, InCharge, Carried
  <2> QED
    BY <2>3, <2>4, <2>5
<1>10. ASSUME NEW t \in Threads
       PROVE  ~PoolThrows(t)
  BY <1>a DEF PoolThrows, LoopOK
<1>11. ASSUME NEW h \in Handles, Drop(h)
       PROVE  Inv'
  <2>1. TypeOK' /\ LoopOK' /\ KnownOK'
    BY <1>11, <1>a DEF Drop, TypeOK, LoopOK, KnownOK, InCharge, Moving
  <2>2. TokenOK'
    BY <1>11 DEF Drop, TokenOK, InCharge, InPool, Carried
  <2> QED
    BY <2>1, <2>2
<1>12. CASE CloseBegin
  <2>1. snapshot' \in SUBSET Handles /\ snapshot' \subseteq made /\ pc[JSThread] = "idle"
    BY <1>12 DEF CloseBegin, KnownOK
  <2>2. TypeOK'
    BY <1>12, <1>a, <2>1 DEF CloseBegin, TypeOK, Steps
  <2>3. LoopOK' /\ KnownOK'
    BY <1>12, <1>a, <2>1 DEF CloseBegin, LoopOK, KnownOK, InCharge, Moving
  <2>4. TokenOK'
    BY <1>12, <1>a, <2>1 DEF CloseBegin, TokenOK, InCharge, InPool, Carried
  <2> QED
    BY <2>2, <2>3, <2>4
<1>13. ASSUME NEW h \in Handles, CloseHandle(h)
       PROVE  Inv'
  <2>1. /\ pc[JSThread] = "closing" /\ pc' = pc
        /\ h \in made /\ h[1] \in Refs /\ h[2] \in {0, 1} /\ h = <<h[1], h[2]>>
    BY <1>13, HandleParts DEF CloseHandle, KnownOK
  <2>2. CASE h \in released
    <3>1. TypeOK' /\ LoopOK' /\ KnownOK'
      BY <1>13, <2>2 DEF CloseHandle, TypeOK, LoopOK, KnownOK, InCharge, Moving
    <3>2. TokenOK'
      BY <1>13, <2>2 DEF CloseHandle, TokenOK, InCharge, InPool, Carried
    <3> QED
      BY <3>1, <3>2
  <2>3. CASE h \notin released
    <3>1. /\ InCharge(h) /\ frees[h[1]] = 0 /\ ~InPool(h[1]) /\ ~Carried(h[1])
      BY <2>1, <2>3 DEF TokenOK, InCharge
    <3>2. /\ frees' = [frees EXCEPT ![h[1]] = 1]
          /\ released' = released \cup {h}
          /\ refs' = [refs EXCEPT ![Hash[h]] = NoHandle]
      BY <1>13, <2>1, <2>3, <3>1 DEF CloseHandle, RemoveObjRef, TypeOK
    <3>7. lost' \in SUBSET Handles
      BY <1>13, <2>3, ObjRefType DEF CloseHandle
    <3>3. TypeOK'
      BY <1>13, <2>1, <3>2, <3>7 DEF CloseHandle, TypeOK
    <3>4. LoopOK' /\ KnownOK'
      BY <1>13, <2>1, <3>2 DEF CloseHandle, LoopOK, KnownOK, TypeOK, InCharge, Moving
    <3>5. <<h[1], 0>> \in made /\ ~InCharge(<<h[1], 0>>)' /\ ~InCharge(<<h[1], 1>>)'
      BY <1>13, <2>1, <3>1, <3>2 DEF CloseHandle, KnownOK, TokenOK, InCharge
    <3>6. TokenOK'
      BY <1>13, <2>1, <3>1, <3>2, <3>5
         DEF CloseHandle, TokenOK, TypeOK, InCharge, InPool, Carried
    <3> QED
      BY <3>3, <3>4, <3>6
  <2> QED
    BY <2>2, <2>3
<1>14. CASE CloseDrain \/ CloseEnd
  <2>1. pc[JSThread] \in {"closing", "test"} /\ pc' \in [{JSThread} -> Steps]
    BY <1>14, <1>a DEF CloseDrain, CloseEnd, Steps
  <2>2. TypeOK'
    BY <1>14, <1>a, <2>1 DEF CloseDrain, CloseEnd, TypeOK, Tasks
  <2>3. LoopOK' /\ KnownOK'
    BY <1>14, <1>a, <2>1 DEF CloseDrain, CloseEnd, TypeOK, LoopOK, KnownOK, InCharge, Moving
  <2>4. TokenOK'
    BY <1>14, <1>a, <2>1 DEF CloseDrain, CloseEnd, TokenOK, InCharge, InPool, Carried
  <2> QED
    BY <2>2, <2>3, <2>4
<1>15. CASE FreeRuntime \/ \E k \in HashCodes : ClearKey(k)
  <2>0. CASE FreeRuntime
    BY <2>0 DEF FreeRuntime, TypeOK, LoopOK, KnownOK, TokenOK, InCharge, Moving,
            InPool, Carried
  <2>1. ASSUME NEW k \in HashCodes, ClearKey(k)
        PROVE  TypeOK' /\ LoopOK' /\ KnownOK'
    <3>1. TypeOK'
      BY <2>1 DEF ClearKey, TypeOK
    <3>2. \A j \in HashCodes : refs'[j] \in {refs[j], NoHandle}
      BY <2>1 DEF ClearKey, TypeOK
    <3>3. KnownOK'
      BY <2>1, <3>2 DEF ClearKey, KnownOK, InCharge, Moving
    <3> QED
      BY <2>1, <3>1, <3>3 DEF ClearKey, LoopOK
  <2>2. TokenOK'
    BY <1>15 DEF FreeRuntime, ClearKey, TokenOK, InCharge, InPool, Carried
  <2> QED
    BY <1>15, <2>0, <2>1, <2>2
<1>16. ASSUME NEW h \in Handles, Finalize(h)
       PROVE  Inv'
  <2>1. /\ h \in made /\ h \notin released /\ finalizing.step = "none"
        /\ h[1] \in Refs /\ h[2] \in {0, 1} /\ h = <<h[1], h[2]>>
        /\ released' = released \cup {h}
        /\ finalizing' = [handle |-> h, step |-> "add"]
        /\ UNCHANGED <<pc, arg, task, local, made, held, refs, pool, snapshot,
                       frees, closed, rtFreed, lost>>
    BY <1>16, HandleParts DEF Finalize
  <2>2. pc[JSThread] = "mark" => h # <<arg[JSThread], 0>>
    BY <1>16, <1>a DEF Finalize, Reachable, Constructing
  <2>3. TypeOK' /\ LoopOK'
    BY <2>1 DEF TypeOK, LoopOK, FinalizerSteps
  <2>4. KnownOK'
    BY <2>1, <2>2 DEF KnownOK, InCharge, Moving
  <2>5. /\ InCharge(h) /\ frees[h[1]] = 0 /\ ~InPool(h[1])
        /\ <<h[1], 0>> \in made /\ ~InCharge(<<h[1], 0>>)' /\ ~InCharge(<<h[1], 1>>)'
    BY <2>1 DEF KnownOK, TokenOK, InCharge
  <2>6. \A r \in Refs : Carried(r)' => r = h[1]
    BY <2>1 DEF Carried
  <2>7. TokenOK'
    BY <2>1, <2>5, <2>6 DEF TokenOK, InCharge, InPool
  <2> QED
    BY <2>3, <2>4, <2>7
<1>17. CASE FinalizeAdd
  <2> DEFINE r == finalizing.handle[1]
  <2>1. finalizing.step = "add" /\ finalizing.handle \in made
    BY <1>17 DEF FinalizeAdd, KnownOK
  <2>2. r \in Refs /\ Carried(r) /\ frees[r] = 0 /\ ~InPool(r) /\ <<r, 0>> \in made
    BY <2>1, HandleParts DEF TypeOK, Carried, TokenOK
  <2>3. pool \in Seq(Refs) /\ NoRepeats(pool) /\ pool' = Append(pool, r)
    BY <1>17 DEF FinalizeAdd, TypeOK, TokenOK
  <2>4. /\ pool' \in Seq(Refs) /\ pool' # << >> /\ NoRepeats(pool')
        /\ pool # << >> => Head(pool') = Head(pool)
        /\ \A x : InPool(x)' <=> x = r \/ InPool(x)
    <3> HIDE DEF r
    <3>1. ~(\E i \in DOMAIN pool : pool[i] = r)
      BY <2>2 DEF InPool
    <3>2. /\ pool' \in Seq(Refs) /\ pool' # << >> /\ NoRepeats(pool')
          /\ pool # << >> => Head(pool') = Head(pool)
          /\ \A x : (\E i \in DOMAIN pool' : pool'[i] = x)
                      <=> x = r \/ \E i \in DOMAIN pool : pool[i] = x
      <4> DEFINE q == Append(pool, r)
      <4>1. /\ q \in Seq(Refs) /\ q # << >> /\ NoRepeats(q)
            /\ pool # << >> => Head(q) = Head(pool)
            /\ \A x : (\E i \in DOMAIN q : q[i] = x)
                        <=> x = r \/ \E i \in DOMAIN pool : pool[i] = x
        BY <2>2, <2>3, <3>1, AppendFacts, Zenon
      <4> HIDE DEF q
      <4> QED
        BY <2>3, <4>1, Zenon DEF q
    <3> QED
      BY <3>2 DEF InPool
  <2>5. TypeOK' /\ LoopOK' /\ KnownOK'
    BY <1>17, <2>1, <2>4
       DEF FinalizeAdd, TypeOK, FinalizerSteps, LoopOK, KnownOK, InCharge, Moving
  <2>6. \A x : ~Carried(x)'
    BY <1>17 DEF FinalizeAdd, Carried, TypeOK
  <2>7. \A i \in {0, 1} : ~InCharge(<<r, i>>)
    BY <2>2 DEF TokenOK
  <2>8. TokenOK'
    BY <1>17, <2>2, <2>4, <2>6, <2>7 DEF FinalizeAdd, TokenOK, LoopOK, InCharge
  <2> QED
    BY <2>5, <2>8
<1>18. CASE FinalizeRemove
  <2>1. TypeOK' /\ LoopOK' /\ KnownOK'
    BY <1>18 DEF FinalizeRemove, RemoveObjRef, TypeOK, FinalizerSteps, LoopOK, KnownOK,
                 InCharge, Moving
  <2>2. \A x : ~Carried(x)' /\ ~Carried(x)
    BY <1>18 DEF FinalizeRemove, Carried
  <2>3. TokenOK'
    BY <1>18, <2>2 DEF FinalizeRemove, TokenOK, InCharge, InPool
  <2> QED
    BY <2>1, <2>3
<1>19. CASE UNCHANGED vars
  <2>1. TypeOK' /\ LoopOK' /\ KnownOK'
    BY <1>19 DEF vars, TypeOK, LoopOK, KnownOK, InCharge, Moving
  <2>2. TokenOK'
    BY <1>19 DEF vars, TokenOK, InCharge, InPool, Carried
  <2> QED
    BY <2>1, <2>2
<1> QED
  BY <1>b, <1>c, <1>2, <1>3, <1>4, <1>5, <1>6, <1>7, <1>8, <1>9, <1>10, <1>11,
     <1>12, <1>13, <1>14, <1>15, <1>16, <1>17, <1>18, <1>19
     DEF Next, User, Close, Collector, Quiescent

-----------------------------------------------------------------------------
(***************************************************************************)
(* Types, whoever uses the context.                                        *)
(***************************************************************************)

\* What a thread is working on, when it is working on something.
ArgOK ==
    /\ \A t \in Threads : pc[t] \in {"mark", "unlink", "link"} => arg[t] \in Refs
    /\ \A t \in Threads :
         pc[t] \in {"test", "get", "free", "remove"} /\ task[t] = "construct" => arg[t] \in Refs
    /\ \A t \in Threads : pc[t] \in {"free", "remove"} => local[t] \in Refs
    /\ finalizing.step # "none" => finalizing.handle \in Handles

TypeInv == TypeOK /\ ArgOK

LEMMA TypeInit ==
    ASSUME Init
    PROVE  TypeInv
<1> USE HandleReleaseAssumption DEF Init
<1>1. pc \in [Threads -> Steps] /\ task \in [Threads -> Tasks]
  BY DEF Steps, Tasks
<1>2. frees \in [Refs -> Nat] /\ pool \in Seq(Refs)
  OBVIOUS
<1>3. finalizing \in [handle : Handles \cup {NoHandle}, step : FinalizerSteps]
  BY DEF FinalizerSteps
<1>4. ArgOK
  BY DEF ArgOK
<1> QED
  BY <1>1, <1>2, <1>3, <1>4 DEF TypeInv, TypeOK

LEMMA TypeStep ==
    ASSUME TypeInv, [Next]_vars
    PROVE  TypeInv'
<1> USE HandleReleaseAssumption DEF TypeInv
<1>a. JSThread \in Threads
  BY DEF Threads
<1>1. ASSUME NEW t \in Threads, NEW r \in Refs, NewHandle(t, r), Obtain(t, r) \/ Construct(t, r)
      PROVE  TypeInv'
  <2>1. <<r, 0>> \in Handles
    BY HandleMade
  <2>2. refs' \in [HashCodes -> Handles \cup {NoHandle}] /\ lost' \in SUBSET Handles
    BY <1>1, <2>1, ObjRefType DEF NewHandle
  <2>3. made' \in SUBSET Handles /\ held' \in SUBSET Handles
    <3>1. made' = made \cup {<<r, 0>>} /\ (held' = held \/ held' = held \cup {<<r, 0>>})
      BY <1>1 DEF NewHandle, Obtain, Construct
    <3> QED
      BY <2>1, <3>1 DEF TypeOK
  <2>4. /\ pc' \in [Threads -> Steps] /\ arg' \in [Threads -> Refs \cup {NoHandle}]
        /\ \/ pc' = pc /\ arg' = arg
           \/ pc' = [pc EXCEPT ![t] = "mark"] /\ arg' = [arg EXCEPT ![t] = r]
    <3>1. \/ pc' = pc /\ arg' = arg
          \/ pc' = [pc EXCEPT ![t] = "mark"] /\ arg' = [arg EXCEPT ![t] = r]
      BY <1>1 DEF Obtain, Construct
    <3> QED
      BY <3>1 DEF TypeOK, Steps
  <2>5. TypeOK'
    BY <1>1, <2>2, <2>3, <2>4 DEF NewHandle, TypeOK
  <2>6. ArgOK'
    <3>1. /\ task' = task /\ local' = local /\ finalizing' = finalizing
      BY <1>1 DEF NewHandle
    <3>2. CASE pc' = pc /\ arg' = arg
      BY <3>1, <3>2 DEF ArgOK
    <3>3. CASE pc' = [pc EXCEPT ![t] = "mark"] /\ arg' = [arg EXCEPT ![t] = r]
      BY <3>1, <3>3 DEF ArgOK, TypeOK
    <3> QED
      BY <2>4, <3>2, <3>3
  <2> QED
    BY <2>5, <2>6
<1>2. ASSUME NEW t \in Threads, ConstructMark(t) \/ ConstructUnlink(t) \/ ConstructLink(t)
      PROVE  TypeInv'
  <2>1. arg[t] \in Refs
    BY <1>2 DEF ConstructMark, ConstructUnlink, ConstructLink, ArgOK
  <2>2. <<arg[t], 0>> \in Handles /\ <<arg[t], 1>> \in Handles
    BY <2>1, HandleMade
  <2>3. /\ refs' \in [HashCodes -> Handles \cup {NoHandle}] /\ lost' \in SUBSET Handles
        /\ made' \in SUBSET Handles /\ released' \in SUBSET Handles
    <3>1. CASE ConstructMark(t)
      BY <2>2, <3>1 DEF ConstructMark, TypeOK
    <3>2. CASE ConstructUnlink(t) \/ ConstructLink(t)
      BY <2>2, <3>2, ObjRefType DEF ConstructUnlink, ConstructLink, TypeOK
    <3> QED
      BY <1>2, <3>1, <3>2
  <2>4. TypeOK'
    BY <1>2, <2>3 DEF ConstructMark, ConstructUnlink, ConstructLink, TypeOK, Steps, Tasks
  <2>5. ArgOK'
    BY <1>2, <2>1 DEF ConstructMark, ConstructUnlink, ConstructLink, ArgOK, TypeOK
  <2> QED
    BY <2>4, <2>5
<1>3. ASSUME NEW t \in Threads, Use(t) \/ PoolTest(t) \/ PoolThrows(t)
      PROVE  TypeInv'
  <2>1. TypeOK'
    BY <1>3 DEF Use, PoolTest, PoolThrows, TypeOK, Steps, Tasks
  <2>2. ArgOK'
    BY <1>3 DEF Use, PoolTest, PoolThrows, ArgOK, TypeOK
  <2> QED
    BY <2>1, <2>2
<1>4. ASSUME NEW t \in Threads, PoolDone(t)
      PROVE  TypeInv'
  <2>1. task[t] = "construct" => <<arg[t], 1>> \in Handles
    BY <1>4, HandleMade DEF PoolDone, ArgOK
  <2>2. held' \in SUBSET Handles
    BY <1>4, <2>1 DEF PoolDone, TypeOK
  <2>3. TypeOK'
    BY <1>4, <2>2 DEF PoolDone, TypeOK, Steps
  <2>4. ArgOK'
    BY <1>4 DEF PoolDone, ArgOK, TypeOK
  <2> QED
    BY <2>3, <2>4
<1>5. ASSUME NEW t \in Threads, PoolGet(t)
      PROVE  TypeInv'
  <2>1. Head(pool) \in Refs
    BY <1>5, HeadFacts DEF PoolGet, TypeOK
  <2>2. TypeOK' /\ ArgOK'
    BY <1>5, <2>1 DEF PoolGet, TypeOK, ArgOK, Steps
  <2> QED
    BY <2>2
<1>6. ASSUME NEW t \in Threads, PoolFree(t)
      PROVE  TypeInv'
  <2>1. local[t] \in Refs
    BY <1>6 DEF PoolFree, ArgOK
  <2>2. frees' \in [Refs -> Nat]
    BY <1>6, <2>1 DEF PoolFree, TypeOK
  <2>3. TypeOK' /\ ArgOK'
    BY <1>6, <2>1, <2>2 DEF PoolFree, TypeOK, ArgOK, Steps
  <2> QED
    BY <2>3
<1>7. ASSUME NEW t \in Threads, PoolRemove(t)
      PROVE  TypeInv'
  <2>1. Tail(pool) \in Seq(Refs)
    BY <1>7 DEF PoolRemove, TypeOK
  <2>2. TypeOK' /\ ArgOK'
    BY <1>7, <2>1 DEF PoolRemove, TypeOK, ArgOK, Steps
  <2> QED
    BY <2>2
<1>8. ASSUME NEW h \in Handles, Drop(h)
      PROVE  TypeInv'
  BY <1>8 DEF Drop, TypeOK, ArgOK
<1>9. CASE CloseBegin \/ CloseDrain \/ CloseEnd \/ FreeRuntime
  <2>1. TypeOK'
    BY <1>9, <1>a DEF CloseBegin, CloseDrain, CloseEnd, FreeRuntime, TypeOK, Steps, Tasks
  <2>2. ArgOK'
    BY <1>9, <1>a DEF CloseBegin, CloseDrain, CloseEnd, FreeRuntime, ArgOK, TypeOK
  <2> QED
    BY <2>1, <2>2
<1>10. ASSUME NEW h \in Handles, CloseHandle(h)
       PROVE  TypeInv'
  <2>1. h[1] \in Refs
    BY HandleParts
  <2>2. /\ refs' \in [HashCodes -> Handles \cup {NoHandle}] /\ lost' \in SUBSET Handles
        /\ released' \in SUBSET Handles /\ frees' \in [Refs -> Nat]
    BY <1>10, <2>1, ObjRefType DEF CloseHandle, TypeOK
  <2>3. TypeOK' /\ ArgOK'
    BY <1>10, <2>2 DEF CloseHandle, TypeOK, ArgOK
  <2> QED
    BY <2>3
<1>11. ASSUME NEW k \in HashCodes, ClearKey(k)
       PROVE  TypeInv'
  BY <1>11 DEF ClearKey, TypeOK, ArgOK
<1>12. ASSUME NEW h \in Handles, Finalize(h)
       PROVE  TypeInv'
  BY <1>12 DEF Finalize, TypeOK, ArgOK, FinalizerSteps
<1>13. CASE FinalizeAdd
  <2>1. finalizing.handle[1] \in Refs
    BY <1>13, HandleParts DEF FinalizeAdd, ArgOK
  <2>2. TypeOK' /\ ArgOK'
    BY <1>13, <2>1 DEF FinalizeAdd, TypeOK, ArgOK, FinalizerSteps
  <2> QED
    BY <2>2
<1>14. CASE FinalizeRemove
  <2>1. refs' \in [HashCodes -> Handles \cup {NoHandle}] /\ lost' \in SUBSET Handles
    BY <1>14, ObjRefType DEF FinalizeRemove, ArgOK
  <2>2. TypeOK' /\ ArgOK'
    BY <1>14, <2>1 DEF FinalizeRemove, TypeOK, ArgOK, FinalizerSteps
  <2> QED
    BY <2>2
<1>15. CASE UNCHANGED vars
  BY <1>15 DEF vars, TypeOK, ArgOK
<1>16. \A t \in Threads, r \in Refs : Obtain(t, r) \/ Construct(t, r) => NewHandle(t, r)
  BY DEF Obtain, Construct
<1> QED
  BY <1>1, <1>2, <1>3, <1>4, <1>5, <1>6, <1>7, <1>8, <1>9, <1>10, <1>11, <1>12,
     <1>13, <1>14, <1>15, <1>16 DEF Next, User, Close, Collector, Quiescent

-----------------------------------------------------------------------------
(***************************************************************************)
(* What close finds.                                                       *)
(***************************************************************************)

\* A handle of the reference lost its entry in refs.
Lost(r) == <<r, 0>> \in lost \/ <<r, 1>> \in lost

\* The only thread is in the last loop of close.
Draining ==
    /\ pc[JSThread] \in {"test", "get", "free", "remove"}
    /\ task[JSThread] = "close"

\* close will find the handle: in refs, unless a constructor is about to enter
\* it, and once close has begun in its copy of refs.
Kept(h) ==
    /\ ~closed
    /\ ~Draining
    /\ \/ pc[JSThread] = "closing" /\ h \in snapshot
       \/ pc[JSThread] # "closing" /\ refs[Hash[h]] = h
       \/ pc[JSThread] \in {"unlink", "link"} /\ h = <<arg[JSThread], 1>>

\* A reference that was not given back has a handle that close will find,
\* unless that handle's entry was lost.
KeptOK ==
    /\ closed => pc[JSThread] \in {"idle", "test", "get", "free", "remove"}
    /\ rtFreed => closed
    /\ finalizing.step # "none" => finalizing.handle \in released
    /\ \A r \in Refs : <<r, 0>> \in made =>
         \/ frees[r] = 1
         \/ Lost(r)
         \/ \E i \in {0, 1} : InCharge(<<r, i>>) /\ Kept(<<r, i>>)

\* addObjRef and removeObjRef remember whose entry they take.
LEMMA EntryStays ==
    ASSUME TypeOK, NEW h \in Handles, NEW g \in Handles, g # h,
           AddObjRef(h) \/ RemoveObjRef(h), refs[Hash[g]] = g
    PROVE  refs'[Hash[g]] = g \/ g \in lost'
<1>1. Hash[h] \in HashCodes /\ Hash[g] \in HashCodes /\ g # NoHandle
  BY HandleReleaseAssumption
<1>2. CASE Hash[g] = Hash[h]
  BY <1>1, <1>2 DEF AddObjRef, RemoveObjRef
<1>3. CASE Hash[g] # Hash[h]
  BY <1>1, <1>3 DEF AddObjRef, RemoveObjRef, TypeOK
<1> QED
  BY <1>2, <1>3

\* Nothing that was lost is forgotten.
LEMMA LostStays ==
    ASSUME [Next]_vars
    PROVE  lost \subseteq lost'
<1>1. \A h : AddObjRef(h) \/ RemoveObjRef(h) => lost \subseteq lost'
  BY DEF AddObjRef, RemoveObjRef
<1>2. \A h : CloseHandle(h) => lost \subseteq lost'
  BY <1>1 DEF CloseHandle
<1>3. \A t, r : NewHandle(t, r) => lost \subseteq lost'
  BY <1>1 DEF NewHandle
<1> QED
  BY <1>1, <1>2, <1>3 DEF Next, vars, User, Close, Collector, Quiescent, Obtain, Construct,
     ConstructMark, ConstructUnlink, ConstructLink, Use, PoolTest, PoolDone, PoolGet,
     PoolFree, PoolRemove, PoolThrows, Drop, CloseBegin, CloseDrain, CloseEnd, FreeRuntime,
     ClearKey, Finalize, FinalizeAdd, FinalizeRemove

\* A reference keeps a handle that close will find when its handle stays in
\* charge and is still found, or has lost its entry.
LEMMA KeptReferences ==
    ASSUME Inv, KeptOK, lost \subseteq lost', made' \subseteq made,
           \A r \in Refs : frees[r] = 1 => frees'[r] = 1,
           \A r \in Refs, i \in {0, 1} : InCharge(<<r, i>>) /\ Kept(<<r, i>>) =>
               \/ InCharge(<<r, i>>)' /\ Kept(<<r, i>>)'
               \/ frees'[r] = 1
               \/ Lost(r)'
    PROVE  \A r \in Refs : <<r, 0>> \in made' =>
               \/ frees'[r] = 1
               \/ Lost(r)'
               \/ \E i \in {0, 1} : InCharge(<<r, i>>)' /\ Kept(<<r, i>>)'
<1> SUFFICES ASSUME NEW r \in Refs, <<r, 0>> \in made
             PROVE  \/ frees'[r] = 1
                    \/ Lost(r)'
                    \/ \E i \in {0, 1} : InCharge(<<r, i>>)' /\ Kept(<<r, i>>)'
  OBVIOUS
<1>1. CASE frees[r] = 1
  BY <1>1
<1>2. CASE Lost(r)
  BY <1>2 DEF Lost
<1>3. CASE \E i \in {0, 1} : InCharge(<<r, i>>) /\ Kept(<<r, i>>)
  BY <1>3
<1> QED
  BY <1>1, <1>2, <1>3 DEF KeptOK

LEMMA KeptStep ==
    ASSUME SingleUser, Inv, KeptOK, [Next]_vars
    PROVE  KeptOK'
<1> USE HandleReleaseAssumption DEF Inv
<1>a. /\ Threads = {JSThread}
      /\ pc \in [{JSThread} -> Steps] /\ pc[JSThread] \in Steps
  BY DEF SingleUser, Threads, TypeOK
<1>b. lost \subseteq lost'
  BY LostStays
<1>c. \A r \in Refs, i \in {0, 1} : <<r, i>> \in Handles
  BY HandleMade
<1>1. ASSUME NEW t \in Threads, NEW r \in Refs, NewHandle(t, r), Obtain(t, r) \/ Construct(t, r)
      PROVE  KeptOK'
  <2>1. /\ t = JSThread /\ pc[JSThread] = "idle" /\ pc'[JSThread] \in {"idle", "mark"}
        /\ ~closed /\ closed' = closed /\ rtFreed' = rtFreed /\ frees' = frees
        /\ made' = made \cup {<<r, 0>>} /\ released' = released /\ <<r, 0>> \notin made
        /\ AddObjRef(<<r, 0>>) /\ <<r, 0>> \in Handles /\ finalizing' = finalizing
    BY <1>1, <1>a, <1>c DEF NewHandle, Obtain, Construct
  <2>2. refs'[Hash[<<r, 0>>]] = <<r, 0>>
    BY <2>1 DEF AddObjRef, TypeOK
  <2>3. InCharge(<<r, 0>>)' /\ Kept(<<r, 0>>)'
    BY <2>1, <2>2 DEF InCharge, KnownOK, Kept, Draining
  <2>4. ASSUME NEW x \in Refs, x # r, <<x, 0>> \in made
        PROVE  \/ frees'[x] = 1
               \/ Lost(x)'
               \/ \E i \in {0, 1} : InCharge(<<x, i>>)' /\ Kept(<<x, i>>)'
    <3>1. CASE frees[x] = 1 \/ Lost(x)
      BY <1>b, <2>1, <3>1 DEF Lost
    <3>2. ASSUME NEW i \in {0, 1}, InCharge(<<x, i>>), Kept(<<x, i>>)
          PROVE  Lost(x)' \/ (InCharge(<<x, i>>)' /\ Kept(<<x, i>>)')
      <4>1. refs[Hash[<<x, i>>]] = <<x, i>> /\ <<x, i>> # <<r, 0>>
        BY <2>1, <2>4, <3>2 DEF Kept
      <4>2. refs'[Hash[<<x, i>>]] = <<x, i>> \/ <<x, i>> \in lost'
        BY <1>c, <2>1, <4>1, EntryStays
      <4> QED
        BY <2>1, <3>2, <4>2 DEF InCharge, Kept, Draining, Lost
    <3> QED
      BY <2>4, <3>1, <3>2 DEF KeptOK
  <2>5. ASSUME NEW x \in Refs, <<x, 0>> \in made'
        PROVE  x = r \/ <<x, 0>> \in made
    BY <2>1, <2>5
  <2> QED
    BY <2>1, <2>3, <2>4, <2>5 DEF KeptOK
<1>2. ASSUME NEW t \in Threads, ConstructMark(t)
      PROVE  KeptOK'
  <2> DEFINE a == arg[JSThread]
  <2>1. /\ t = JSThread /\ pc[JSThread] = "mark" /\ pc'[JSThread] = "unlink" /\ a \in Refs
        /\ InCharge(<<a, 0>>) /\ <<a, 1>> \notin made
        /\ made' = made \cup {<<a, 1>>} /\ released' = released \cup {<<a, 0>>}
        /\ UNCHANGED <<arg, task, refs, snapshot, frees, closed, rtFreed, lost, finalizing>>
    BY <1>2, <1>a DEF ConstructMark, KnownOK
  <2>2. ~closed
    BY <2>1 DEF KeptOK
  <2>3. InCharge(<<a, 1>>)' /\ Kept(<<a, 1>>)'
    BY <2>1, <2>2 DEF InCharge, Kept, Draining, KnownOK
  <2>4. ASSUME NEW x \in Refs, x # a, NEW i \in {0, 1}, InCharge(<<x, i>>), Kept(<<x, i>>)
        PROVE  InCharge(<<x, i>>)' /\ Kept(<<x, i>>)'
    BY <2>1, <2>2, <2>4 DEF InCharge, Kept, Draining
  <2>5. \A x \in Refs : <<x, 0>> \in made' => <<x, 0>> \in made
    BY <2>1
  <2> QED
    BY <2>1, <2>2, <2>3, <2>4, <2>5 DEF KeptOK, Lost
<1>3. ASSUME NEW t \in Threads, ConstructUnlink(t)
      PROVE  KeptOK'
  <2> DEFINE a == arg[JSThread]
  <2>1. /\ t = JSThread /\ pc[JSThread] = "unlink" /\ pc'[JSThread] = "link" /\ a \in Refs
        /\ <<a, 1>> \in made /\ <<a, 0>> \in Handles /\ RemoveObjRef(<<a, 0>>)
        /\ UNCHANGED <<arg, task, made, released, snapshot, frees, closed, rtFreed, finalizing>>
    BY <1>3, <1>a, <1>c DEF ConstructUnlink, KnownOK, Moving
  <2>2. ASSUME NEW x \in Refs, NEW i \in {0, 1}, InCharge(<<x, i>>), Kept(<<x, i>>)
        PROVE  (InCharge(<<x, i>>)' /\ Kept(<<x, i>>)') \/ Lost(x)'
    <3>1. CASE refs[Hash[<<x, i>>]] = <<x, i>>
      <4>1. <<x, i>> # <<a, 0>>
        BY <2>1, <2>2 DEF TokenOK, InCharge
      <4>2. refs'[Hash[<<x, i>>]] = <<x, i>> \/ <<x, i>> \in lost'
        BY <1>c, <2>1, <3>1, <4>1, EntryStays
      <4> QED
        BY <2>1, <2>2, <4>2 DEF InCharge, Kept, Draining, Lost
    <3>2. CASE <<x, i>> = <<a, 1>>
      BY <2>1, <2>2, <3>2 DEF InCharge, Kept, Draining
    <3> QED
      BY <2>1, <2>2, <3>1, <3>2 DEF Kept
  <2>3. \A r \in Refs : frees[r] = 1 => frees'[r] = 1
    BY <2>1
  <2>4. made' \subseteq made
    BY <2>1
  <2> QED
    BY <1>b, <2>1, <2>2, <2>3, <2>4, KeptReferences DEF KeptOK
<1>4. ASSUME NEW t \in Threads, ConstructLink(t)
      PROVE  KeptOK'
  <2> DEFINE a == arg[JSThread]
  <2>1. /\ t = JSThread /\ pc[JSThread] = "link" /\ pc'[JSThread] = "test" /\ a \in Refs
        /\ task'[JSThread] = "construct" /\ <<a, 1>> \in Handles /\ AddObjRef(<<a, 1>>)
        /\ UNCHANGED <<arg, made, released, snapshot, frees, closed, rtFreed, finalizing>>
    BY <1>4, <1>a, <1>c DEF ConstructLink, KnownOK, Moving, TypeOK
  <2>2. ASSUME NEW x \in Refs, NEW i \in {0, 1}, InCharge(<<x, i>>), Kept(<<x, i>>)
        PROVE  (InCharge(<<x, i>>)' /\ Kept(<<x, i>>)') \/ Lost(x)'
    <3>1. CASE <<x, i>> = <<a, 1>>
      <4>1. refs'[Hash[<<x, i>>]] = <<x, i>>
        BY <2>1, <3>1 DEF AddObjRef, TypeOK
      <4> QED
        BY <2>1, <2>2, <4>1 DEF InCharge, Kept, Draining
    <3>2. CASE <<x, i>> # <<a, 1>>
      <4>1. refs[Hash[<<x, i>>]] = <<x, i>>
        BY <2>1, <2>2, <3>2 DEF Kept
      <4>2. refs'[Hash[<<x, i>>]] = <<x, i>> \/ <<x, i>> \in lost'
        BY <1>c, <2>1, <3>2, <4>1, EntryStays
      <4> QED
        BY <2>1, <2>2, <4>2 DEF InCharge, Kept, Draining, Lost
    <3> QED
      BY <3>1, <3>2
  <2>3. \A r \in Refs : frees[r] = 1 => frees'[r] = 1
    BY <2>1
  <2>4. ~closed
    BY <2>1 DEF KeptOK
  <2> QED
    BY <1>b, <2>1, <2>2, <2>3, <2>4, KeptReferences DEF KeptOK
<1>5. ASSUME NEW t \in Threads, Use(t) \/ PoolTest(t) \/ PoolGet(t) \/ PoolRemove(t)
      PROVE  KeptOK'
  <2>1. /\ t = JSThread /\ UNCHANGED <<arg, made, released, refs, snapshot, frees, closed, rtFreed, finalizing>>
        /\ pc[JSThread] \in {"idle", "test", "get", "remove"}
        /\ pc'[JSThread] \in {"test", "get", "free"}
        /\ pc[JSThread] = "idle" => task'[JSThread] # "close"
        /\ pc[JSThread] # "idle" => task' = task
    BY <1>5, <1>a DEF Use, PoolTest, PoolGet, PoolRemove, TypeOK
  <2>2. \A x \in Refs, i \in {0, 1} : InCharge(<<x, i>>) /\ Kept(<<x, i>>) =>
           InCharge(<<x, i>>)' /\ Kept(<<x, i>>)'
    BY <2>1 DEF InCharge, Kept, Draining
  <2> QED
    BY <1>b, <2>1, <2>2, KeptReferences DEF KeptOK
<1>6. ASSUME NEW t \in Threads, PoolDone(t)
      PROVE  KeptOK'
  <2>1. /\ t = JSThread /\ UNCHANGED <<arg, task, made, released, refs, snapshot, frees, closed, rtFreed, finalizing>>
        /\ pc[JSThread] = "test" /\ pc'[JSThread] = "idle"
    BY <1>6, <1>a DEF PoolDone
  <2>2. \A x \in Refs, i \in {0, 1} : InCharge(<<x, i>>) /\ Kept(<<x, i>>) =>
           InCharge(<<x, i>>)' /\ Kept(<<x, i>>)'
    BY <2>1 DEF InCharge, Kept, Draining
  <2> QED
    BY <1>b, <2>1, <2>2, KeptReferences DEF KeptOK
<1>7. ASSUME NEW t \in Threads, PoolFree(t)
      PROVE  KeptOK'
  <2>1. /\ t = JSThread /\ UNCHANGED <<arg, task, made, released, refs, snapshot, closed, rtFreed, finalizing>>
        /\ pc[JSThread] = "free" /\ pc'[JSThread] = "remove"
    BY <1>7, <1>a DEF PoolFree
  <2>2. \A x \in Refs, i \in {0, 1} : InCharge(<<x, i>>) /\ Kept(<<x, i>>) =>
           InCharge(<<x, i>>)' /\ Kept(<<x, i>>)'
    BY <2>1 DEF InCharge, Kept, Draining
  <2>3. \A r \in Refs : frees[r] = 1 => frees'[r] = 1
    <3>1. /\ pool # << >> /\ local[JSThread] = Head(pool) /\ Head(pool) \in Refs
          /\ InPool(Head(pool))
      BY <2>1, HeadFacts DEF LoopOK, TypeOK, InPool
    <3>2. frees[Head(pool)] # 1
      BY <2>1, <3>1 DEF TokenOK
    <3> QED
      BY <1>7, <2>1, <3>1, <3>2 DEF PoolFree, TypeOK
  <2> QED
    BY <1>b, <2>1, <2>2, <2>3, KeptReferences DEF KeptOK
<1>8. CASE \/ \E h \in Handles : Drop(h)
           \/ FinalizeAdd
           \/ UNCHANGED vars
  <2>1. /\ UNCHANGED <<pc, arg, task, made, released, refs, snapshot, frees, closed, rtFreed>>
        /\ finalizing'.handle = finalizing.handle
        /\ finalizing'.step # "none" => finalizing.step # "none"
    BY <1>8 DEF Drop, FinalizeAdd, vars, TypeOK
  <2>2. \A x \in Refs, i \in {0, 1} : InCharge(<<x, i>>) /\ Kept(<<x, i>>) =>
           InCharge(<<x, i>>)' /\ Kept(<<x, i>>)'
    BY <2>1 DEF InCharge, Kept, Draining
  <2> QED
    BY <1>b, <2>1, <2>2, KeptReferences DEF KeptOK
<1>9. ASSUME NEW t \in Threads
      PROVE  ~PoolThrows(t)
  BY <1>a DEF PoolThrows, LoopOK
<1>10. CASE CloseBegin
  <2>1. /\ pc[JSThread] = "idle" /\ pc'[JSThread] = "closing" /\ ~closed
        /\ UNCHANGED <<arg, task, made, released, refs, frees, closed, rtFreed, finalizing>>
        /\ snapshot' = {h \in Handles : \E k \in HashCodes : refs[k] = h}
    BY <1>10, <1>a DEF CloseBegin
  <2>2. \A x \in Refs, i \in {0, 1} : Hash[<<x, i>>] \in HashCodes
    BY <1>c
  <2>3. \A x \in Refs, i \in {0, 1} : InCharge(<<x, i>>) /\ Kept(<<x, i>>) =>
           InCharge(<<x, i>>)' /\ Kept(<<x, i>>)'
    BY <1>c, <2>1, <2>2 DEF InCharge, Kept, Draining
  <2> QED
    BY <1>b, <2>1, <2>3, KeptReferences DEF KeptOK
<1>11. ASSUME NEW h \in Handles, CloseHandle(h)
       PROVE  KeptOK'
  <2>1. /\ pc[JSThread] = "closing" /\ pc' = pc /\ snapshot' = snapshot \ {h}
        /\ UNCHANGED <<arg, task, made, closed, rtFreed, finalizing>>
        /\ h[1] \in Refs /\ h[2] \in {0, 1} /\ h = <<h[1], h[2]>> /\ h \in snapshot
    BY <1>11, HandleParts DEF CloseHandle
  <2>2. /\ h \in released => released' = released /\ frees' = frees
        /\ h \notin released => released' = released \cup {h} /\ frees' = [frees EXCEPT ![h[1]] = @ + 1]
    BY <1>11 DEF CloseHandle
  <2>3. h \notin released => frees[h[1]] = 0
    <3>1. h \notin released => InCharge(<<h[1], h[2]>>)
      BY <2>1 DEF KnownOK, InCharge
    <3> QED
      BY <2>1, <3>1 DEF TokenOK
  <2>4. \A r \in Refs : frees[r] = 1 => frees'[r] = 1
    BY <2>1, <2>2, <2>3 DEF TypeOK
  <2>5. ASSUME NEW x \in Refs, NEW i \in {0, 1}, InCharge(<<x, i>>), Kept(<<x, i>>)
        PROVE  (InCharge(<<x, i>>)' /\ Kept(<<x, i>>)') \/ frees'[x] = 1
    <3>1. CASE <<x, i>> = h
      <4>1. x = h[1] /\ h \notin released
        BY <2>5, <3>1 DEF InCharge
      <4> QED
        BY <2>1, <2>2, <2>3, <4>1 DEF TypeOK
    <3>2. CASE <<x, i>> # h
      BY <2>1, <2>2, <2>5, <3>2 DEF InCharge, Kept, Draining
    <3> QED
      BY <3>1, <3>2
  <2>6. made' \subseteq made
    BY <2>1
  <2>7. \A r \in Refs : <<r, 0>> \in made' =>
           \/ frees'[r] = 1
           \/ Lost(r)'
           \/ \E i \in {0, 1} : InCharge(<<r, i>>)' /\ Kept(<<r, i>>)'
    BY <1>b, <2>4, <2>5, <2>6, KeptReferences
  <2>8. released \subseteq released'
    BY <2>2
  <2> QED
    BY <2>1, <2>7, <2>8 DEF KeptOK
<1>12. CASE CloseDrain
  <2>1. /\ pc[JSThread] = "closing" /\ pc'[JSThread] = "test" /\ snapshot = {}
        /\ UNCHANGED <<arg, made, released, refs, snapshot, frees, closed, rtFreed, finalizing>>
    BY <1>12, <1>a DEF CloseDrain
  <2>2. \A x \in Refs, i \in {0, 1} : ~Kept(<<x, i>>)
    BY <2>1 DEF Kept
  <2> QED
    BY <1>b, <2>1, <2>2, KeptReferences DEF KeptOK
<1>13. CASE CloseEnd
  <2>1. /\ pc[JSThread] = "test" /\ pc'[JSThread] = "idle" /\ task[JSThread] = "close"
        /\ closed' = TRUE
        /\ UNCHANGED <<arg, made, released, refs, snapshot, frees, rtFreed, finalizing>>
    BY <1>13, <1>a DEF CloseEnd
  <2>2. \A x \in Refs, i \in {0, 1} : ~Kept(<<x, i>>)
    BY <2>1 DEF Kept, Draining
  <2> QED
    BY <1>b, <2>1, <2>2, KeptReferences DEF KeptOK
<1>14. CASE FreeRuntime
  BY <1>14 DEF FreeRuntime, KeptOK, InCharge, Kept, Draining, Lost
<1>15. ASSUME NEW k \in HashCodes, ClearKey(k)
       PROVE  KeptOK'
  <2>1. /\ refs' = [refs EXCEPT ![k] = NoHandle] /\ lost' = lost \cup {refs[k]}
        /\ UNCHANGED <<pc, arg, task, made, released, snapshot, frees, closed, rtFreed, finalizing>>
    BY <1>15 DEF ClearKey
  <2>2. ASSUME NEW x \in Refs, NEW i \in {0, 1}, InCharge(<<x, i>>), Kept(<<x, i>>)
        PROVE  (InCharge(<<x, i>>)' /\ Kept(<<x, i>>)') \/ Lost(x)'
    <3>1. refs[Hash[<<x, i>>]] = <<x, i>> =>
             refs'[Hash[<<x, i>>]] = <<x, i>> \/ <<x, i>> \in lost'
      BY <2>1, <1>c DEF TypeOK
    <3> QED
      BY <2>1, <2>2, <3>1 DEF InCharge, Kept, Draining, Lost
  <2> QED
    BY <1>b, <2>1, <2>2, KeptReferences DEF KeptOK
<1>16. ASSUME NEW h \in Handles, Finalize(h)
       PROVE  KeptOK'
  <2>1. /\ ~Reachable(h) /\ released' = released \cup {h} /\ finalizing'.handle = h
        /\ UNCHANGED <<pc, arg, task, made, refs, snapshot, frees, closed, rtFreed>>
        /\ Hash[h] \in HashCodes
    BY <1>16 DEF Finalize
  <2>2. ~Kept(h)
    BY <1>a, <2>1 DEF Kept, Reachable, Constructing
  <2>3. ASSUME NEW x \in Refs, NEW i \in {0, 1}, InCharge(<<x, i>>), Kept(<<x, i>>)
        PROVE  InCharge(<<x, i>>)' /\ Kept(<<x, i>>)'
    BY <2>1, <2>2, <2>3 DEF InCharge, Kept, Draining
  <2> QED
    BY <1>b, <2>1, <2>3, KeptReferences DEF KeptOK
<1>17. CASE FinalizeRemove
  <2>1. /\ RemoveObjRef(finalizing.handle) /\ finalizing.handle \in Handles
        /\ finalizing.handle \in released
        /\ finalizing'.step = "none"
        /\ UNCHANGED <<pc, arg, task, made, released, snapshot, frees, closed, rtFreed>>
    BY <1>17 DEF FinalizeRemove, KnownOK, KeptOK, TypeOK
  <2>2. ASSUME NEW x \in Refs, NEW i \in {0, 1}, InCharge(<<x, i>>), Kept(<<x, i>>)
        PROVE  (InCharge(<<x, i>>)' /\ Kept(<<x, i>>)') \/ Lost(x)'
    <3>1. refs[Hash[<<x, i>>]] = <<x, i>> =>
             refs'[Hash[<<x, i>>]] = <<x, i>> \/ <<x, i>> \in lost'
      BY <1>c, <2>1, <2>2, EntryStays DEF InCharge
    <3> QED
      BY <2>1, <2>2, <3>1 DEF InCharge, Kept, Draining, Lost
  <2> QED
    BY <1>b, <2>1, <2>2, KeptReferences DEF KeptOK
<1>18. \A t \in Threads, r \in Refs : Obtain(t, r) \/ Construct(t, r) => NewHandle(t, r)
  BY DEF Obtain, Construct
<1> QED
  BY <1>1, <1>2, <1>3, <1>4, <1>5, <1>6, <1>7, <1>8, <1>9, <1>10, <1>11, <1>12,
     <1>13, <1>14, <1>15, <1>16, <1>17, <1>18
     DEF Next, User, Close, Collector, Quiescent

-----------------------------------------------------------------------------
(***************************************************************************)
(* Any number of threads, while the context is not closed.                 *)
(***************************************************************************)

\* Thread t is past the mark in a constructor.
MovingBy(t) ==
    \/ pc[t] \in {"unlink", "link"}
    \/ pc[t] \in {"test", "get", "free", "remove"} /\ task[t] = "construct"

\* The reference is on its way to JS_FreeValue, or was given to it: two threads
\* may have taken it out of the pool.
Going(r) ==
    \/ frees[r] > 0
    \/ InPool(r)
    \/ Carried(r)
    \/ \E t \in Threads : pc[t] = "free" /\ local[t] = r

\* Its handles are not in charge of it any more.
Lapsed(r) ==
    /\ <<r, 0>> \in made \cap released
    /\ <<r, 1>> \in made => <<r, 1>> \in released

ClientsOK ==
    /\ snapshot = {}
    /\ held \subseteq made
    /\ released \subseteq made
    /\ \A r \in Refs : <<r, 1>> \in made => <<r, 0>> \in made \cap released
    /\ \A t \in Threads :
         /\ pc[t] # "closing"
         /\ pc[t] = "mark" => <<arg[t], 0>> \in made \ released
         /\ MovingBy(t) => <<arg[t], 1>> \in made
    /\ \A t, u \in Threads :
         pc[t] = "mark" /\ pc[u] = "mark" /\ t # u => arg[t] # arg[u]
    /\ \A r \in Refs : Going(r) => Lapsed(r)

\* Steps that make no handle: a handle may only be released when no thread is
\* about to move its reference.
LEMMA CalmStep ==
    ASSUME ClientsOK, UNCHANGED <<made, arg, snapshot>>,
           released \subseteq released', released' \subseteq made, held' \subseteq made,
           \A t \in Threads :
              /\ pc'[t] # "closing"
              /\ pc'[t] = "mark" => pc[t] = "mark" /\ <<arg[t], 0>> \notin released'
              /\ MovingBy(t)' => MovingBy(t),
           \A r \in Refs : Going(r)' => Going(r) \/ Lapsed(r)'
    PROVE  ClientsOK'
<1>1. \A r \in Refs : Lapsed(r) => Lapsed(r)'
  BY DEF Lapsed
<1>2. \A r \in Refs : Going(r)' => Lapsed(r)'
  BY <1>1 DEF ClientsOK
<1>3. \A t \in Threads : MovingBy(t)' => <<arg[t], 1>> \in made
  BY DEF ClientsOK
<1> QED
  BY <1>2, <1>3 DEF ClientsOK

\* Those that free nothing either, and take nothing from the pool.
LEMMA QuietStep ==
    ASSUME TypeInv, ClientsOK,
           UNCHANGED <<made, arg, snapshot, released, frees, pool, finalizing>>,
           held' \subseteq made,
           \A t \in Threads :
              /\ pc'[t] # "closing"
              /\ pc'[t] = "mark" => pc[t] = "mark"
              /\ pc'[t] = "free" => pc[t] = "free" /\ local'[t] = local[t]
              /\ MovingBy(t)' => MovingBy(t)
    PROVE  ClientsOK'
<1>1. \A r \in Refs : Going(r)' => Going(r)
  BY DEF Going, InPool, Carried
<1>2. \A t \in Threads : pc'[t] = "mark" => <<arg[t], 0>> \notin released'
  BY DEF ClientsOK
<1>3. released' \subseteq made /\ released \subseteq released'
  BY DEF ClientsOK
<1> QED
  BY <1>1, <1>2, <1>3, CalmStep

LEMMA ClientsStep ==
    ASSUME ~MayClose, TypeInv, ClientsOK, [Next]_vars
    PROVE  ClientsOK'
<1> USE HandleReleaseAssumption
<1>a. /\ JSThread \in Threads /\ pc \in [Threads -> Steps] /\ arg \in [Threads -> Refs \cup {NoHandle}]
      /\ task \in [Threads -> Tasks] /\ local \in [Threads -> Refs \cup {NoHandle}]
      /\ frees \in [Refs -> Nat] /\ pool \in Seq(Refs) /\ made \subseteq Handles
      /\ held \subseteq made /\ released \subseteq made
  BY DEF TypeInv, TypeOK, Threads, ClientsOK
<1>1. ASSUME NEW t \in Threads, NEW r \in Refs, Obtain(t, r) \/ Construct(t, r)
      PROVE  ClientsOK'
  <2>1. /\ pc[t] = "idle" /\ <<r, 0>> \notin made /\ made' = made \cup {<<r, 0>>}
        /\ UNCHANGED <<task, local, released, pool, finalizing, snapshot, frees>>
        /\ held' \subseteq made'
    BY <1>1, <1>a DEF Obtain, Construct, NewHandle
  <2>2. \/ pc' = pc /\ arg' = arg
        \/ pc' = [pc EXCEPT ![t] = "mark"] /\ arg' = [arg EXCEPT ![t] = r]
    BY <1>1 DEF Obtain, Construct
  <2>3. <<r, 1>> \notin made /\ <<r, 0>> \notin released /\ ~Lapsed(r) /\ ~Going(r)
    BY <2>1, <1>a DEF ClientsOK, Lapsed
  <2>4. \A x \in Refs : Going(x)' => Lapsed(x)'
    <3>1. \A x \in Refs : Going(x)' => Going(x)
      BY <2>1, <2>2, <1>a DEF Going, InPool, Carried
    <3>2. \A x \in Refs : Going(x) => Lapsed(x) /\ x # r
      BY <2>3 DEF ClientsOK
    <3>3. \A x \in Refs : x # r /\ Lapsed(x) => Lapsed(x)'
      BY <2>1 DEF Lapsed
    <3> QED
      BY <3>1, <3>2, <3>3
  <2>5. ASSUME NEW u \in Threads
        PROVE  /\ pc'[u] # "closing"
               /\ pc'[u] = "mark" => <<arg'[u], 0>> \in made' \ released'
               /\ MovingBy(u)' => <<arg'[u], 1>> \in made'
    BY <2>1, <2>2, <2>3, <1>a DEF ClientsOK, MovingBy
  <2>6. ASSUME NEW u \in Threads, NEW v \in Threads, pc'[u] = "mark", pc'[v] = "mark", u # v
        PROVE  arg'[u] # arg'[v]
    <3>1. \A w \in Threads : pc[w] = "mark" => arg[w] # r
      BY <2>1 DEF ClientsOK
    <3> QED
      BY <2>1, <2>2, <2>6, <3>1, <1>a DEF ClientsOK
  <2> QED
    BY <2>1, <2>3, <2>4, <2>5, <2>6 DEF ClientsOK
<1>2. ASSUME NEW t \in Threads, ConstructMark(t)
      PROVE  ClientsOK'
  <2>1. PICK r : r = arg[t]
    OBVIOUS
  <2>2. /\ pc[t] = "mark" /\ r \in Refs /\ pc' = [pc EXCEPT ![t] = "unlink"]
        /\ made' = made \cup {<<r, 1>>} /\ released' = released \cup {<<r, 0>>}
        /\ UNCHANGED <<arg, task, local, held, pool, finalizing, snapshot, frees>>
        /\ <<r, 0>> \in made \ released
    BY <1>2, <2>1 DEF ConstructMark, TypeInv, ArgOK, ClientsOK
  <2>3. \A x \in Refs : Going(x)' => Lapsed(x)'
    <3>1. \A x \in Refs : Going(x)' => Going(x)
      BY <2>2, <1>a DEF Going, InPool, Carried
    <3>2. \A x \in Refs : Going(x) => Lapsed(x) /\ x # r
      BY <2>2 DEF ClientsOK, Lapsed
    <3>3. \A x \in Refs : x # r /\ Lapsed(x) => Lapsed(x)'
      BY <2>2 DEF Lapsed
    <3> QED
      BY <3>1, <3>2, <3>3
  <2>4. ASSUME NEW u \in Threads
        PROVE  /\ pc'[u] # "closing"
               /\ pc'[u] = "mark" => <<arg'[u], 0>> \in made' \ released'
               /\ MovingBy(u)' => <<arg'[u], 1>> \in made'
    <3>1. CASE u = t
      BY <2>1, <2>2, <3>1, <1>a
    <3>2. CASE u # t
      <4>1. pc'[u] = pc[u] /\ (pc[u] = "mark" => arg[u] # r)
        BY <2>1, <2>2, <3>2, <1>a DEF ClientsOK
      <4> QED
        BY <4>1, <2>2 DEF ClientsOK, MovingBy
    <3> QED
      BY <3>1, <3>2
  <2>5. \A u, v \in Threads : pc'[u] = "mark" /\ pc'[v] = "mark" /\ u # v => arg'[u] # arg'[v]
    BY <2>2, <1>a DEF ClientsOK
  <2>6. \A x \in Refs : <<x, 1>> \in made' => <<x, 0>> \in made' \cap released'
    BY <2>2 DEF ClientsOK
  <2> QED
    BY <2>2, <2>3, <2>4, <2>5, <2>6, <1>a DEF ClientsOK
<1>3. ASSUME NEW t \in Threads,
             \/ ConstructUnlink(t) \/ ConstructLink(t) \/ Use(t) \/ PoolTest(t) \/ PoolThrows(t)
      PROVE  ClientsOK'
  <2>1. /\ UNCHANGED <<made, arg, snapshot, released, frees, pool, finalizing, local, held>>
        /\ \A u \in Threads : u # t => pc'[u] = pc[u] /\ task'[u] = task[u]
        /\ pc'[t] \in {"link", "test", "get", "idle"}
        /\ MovingBy(t)' => MovingBy(t)
    BY <1>3, <1>a DEF ConstructUnlink, ConstructLink, Use, PoolTest, PoolThrows, MovingBy
  <2>2. \A u \in Threads : /\ pc'[u] # "closing"
                           /\ pc'[u] = "mark" => pc[u] = "mark"
                           /\ pc'[u] = "free" => pc[u] = "free" /\ local'[u] = local[u]
                           /\ MovingBy(u)' => MovingBy(u)
    BY <2>1 DEF ClientsOK, MovingBy
  <2> QED
    BY <2>1, <2>2, <1>a, QuietStep
<1>4. ASSUME NEW t \in Threads, PoolDone(t)
      PROVE  ClientsOK'
  <2>1. /\ UNCHANGED <<made, arg, snapshot, released, frees, pool, finalizing, local, task>>
        /\ pc' = [pc EXCEPT ![t] = "idle"]
        /\ held' = held \/ (MovingBy(t) /\ held' = held \cup {<<arg[t], 1>>})
    BY <1>4 DEF PoolDone, MovingBy
  <2>2. held' \subseteq made
    BY <2>1, <1>a DEF ClientsOK
  <2>3. \A u \in Threads : /\ pc'[u] # "closing"
                           /\ pc'[u] = "mark" => pc[u] = "mark"
                           /\ pc'[u] = "free" => pc[u] = "free" /\ local'[u] = local[u]
                           /\ MovingBy(u)' => MovingBy(u)
    BY <2>1, <1>a DEF ClientsOK, MovingBy
  <2> QED
    BY <2>1, <2>2, <2>3, QuietStep
<1>5. ASSUME NEW t \in Threads, PoolGet(t) \/ PoolFree(t) \/ PoolRemove(t)
      PROVE  ClientsOK'
  <2>1. /\ UNCHANGED <<made, arg, snapshot, released, finalizing, task, held>>
        /\ \A u \in Threads : u # t => pc'[u] = pc[u] /\ local'[u] = local[u]
        /\ pc'[t] \in {"free", "remove", "test"} /\ pc[t] \in {"get", "free", "remove"}
    BY <1>5, <1>a DEF PoolGet, PoolFree, PoolRemove
  <2>2. \A u \in Threads : /\ pc'[u] # "closing"
                           /\ pc'[u] = "mark" => pc[u] = "mark" /\ <<arg[u], 0>> \notin released'
                           /\ MovingBy(u)' => MovingBy(u)
    BY <2>1 DEF ClientsOK, MovingBy
  <2>3. \A r \in Refs : Going(r)' => Going(r)
    <3>1. CASE PoolGet(t)
      <4>1. /\ frees' = frees /\ pool' = pool /\ local'[t] = Head(pool) /\ pool # << >>
        BY <3>1, <1>a DEF PoolGet
      <4>2. InPool(Head(pool))
        BY <4>1, <1>a, HeadFacts DEF InPool
      <4> QED
        BY <4>1, <4>2, <2>1 DEF Going, InPool, Carried
    <3>2. CASE PoolFree(t)
      <4>1. /\ pool' = pool /\ local' = local /\ pc[t] = "free" /\ pc'[t] = "remove"
            /\ \A r \in Refs : frees'[r] = frees[r] \/ r = local[t]
        BY <3>2, <1>a DEF PoolFree
      <4> QED
        BY <4>1, <2>1 DEF Going, InPool, Carried
    <3>3. CASE PoolRemove(t)
      <4>1. /\ frees' = frees /\ local' = local /\ pool' = Tail(pool) /\ pool # << >>
            /\ pc'[t] = "test"
        BY <3>3, <1>a DEF PoolRemove
      <4>2. \A r \in Refs : InPool(r)' => InPool(r)
        <5>1. /\ DOMAIN pool = 1 .. Len(pool) /\ Len(pool) \in Nat
              /\ DOMAIN pool' = 1 .. Len(pool) - 1
              /\ \A i \in 1 .. Len(pool) - 1 : pool'[i] = pool[i + 1]
          BY <4>1, <1>a
        <5> QED
          BY <5>1 DEF InPool
      <4> QED
        BY <4>1, <4>2, <2>1 DEF Going, Carried
    <3> QED
      BY <1>5, <3>1, <3>2, <3>3
  <2> QED
    BY <2>1, <2>2, <2>3, <1>a, CalmStep
<1>6. ASSUME NEW h, Drop(h)
      PROVE  ClientsOK'
  <2>1. /\ UNCHANGED <<pc, task, made, arg, snapshot, released, frees, pool, finalizing, local>>
        /\ held' \subseteq made
    BY <1>6, <1>a DEF Drop
  <2>2. \A u \in Threads : MovingBy(u)' => MovingBy(u)
    BY <2>1 DEF MovingBy
  <2>3. \A u \in Threads : pc[u] # "closing"
    BY DEF ClientsOK
  <2> QED
    BY <2>1, <2>2, <2>3, QuietStep
<1>7. ASSUME Close
      PROVE  ClientsOK'
  <2>1. CloseEnd \/ FreeRuntime
    BY <1>7, <1>a DEF Close, CloseBegin, CloseHandle, CloseDrain, ClientsOK
  <2>2. /\ UNCHANGED <<task, made, arg, snapshot, released, frees, pool, finalizing, local, held>>
        /\ pc' = pc \/ pc' = [pc EXCEPT ![JSThread] = "idle"]
    BY <2>1 DEF CloseEnd, FreeRuntime
  <2>3. \A u \in Threads : /\ pc'[u] # "closing"
                           /\ pc'[u] = "mark" => pc[u] = "mark"
                           /\ pc'[u] = "free" => pc[u] = "free" /\ local'[u] = local[u]
                           /\ MovingBy(u)' => MovingBy(u)
    BY <2>2, <1>a DEF ClientsOK, MovingBy
  <2> QED
    BY <2>2, <2>3, <1>a, QuietStep
<1>8. ASSUME NEW h \in Handles, Finalize(h)
      PROVE  ClientsOK'
  <2>1. PICK r \in Refs, i \in {0, 1} : h = <<r, i>>
    BY HandleParts
  <2>2. /\ UNCHANGED <<pc, task, made, arg, snapshot, frees, pool, local, held>>
        /\ released' = released \cup {h} /\ h \in made \ released /\ ~Reachable(h)
        /\ finalizing'.handle = h /\ finalizing'.step = "add"
    BY <1>8 DEF Finalize
  <2>3. \A u \in Threads : pc[u] = "mark" => <<arg[u], 0>> \notin released'
    <3>1. \A u \in Threads : pc[u] = "mark" => <<arg[u], 0>> \in Constructing(u)
      BY DEF Constructing
    <3>2. \A u \in Threads : pc[u] = "mark" => <<arg[u], 0>> # h
      BY <2>2, <3>1 DEF Reachable
    <3> QED
      BY <2>2, <3>2 DEF ClientsOK
  <2>4. Lapsed(r)'
    <3>1. CASE i = 0
      <4>1. <<r, 1>> \notin made
        BY <3>1, <2>1, <2>2 DEF ClientsOK
      <4> QED
        BY <4>1, <3>1, <2>1, <2>2 DEF Lapsed
    <3>2. CASE i = 1
      BY <3>2, <2>1, <2>2 DEF Lapsed, ClientsOK
    <3> QED
      BY <2>1, <3>1, <3>2
  <2>5. \A x \in Refs : Going(x)' => Going(x) \/ Lapsed(x)'
    <3>1. \A x \in Refs : Going(x)' => Going(x) \/ x = r
      <4>1. \A x : Carried(x)' => x = r
        BY <2>1, <2>2 DEF Carried
      <4> QED
        BY <4>1, <2>2 DEF Going, InPool
    <3> QED
      BY <3>1, <2>4
  <2>6. \A u \in Threads : pc'[u] # "closing" /\ (MovingBy(u)' => MovingBy(u))
    BY <2>2 DEF ClientsOK, MovingBy
  <2>7. released' \subseteq made /\ held' \subseteq made
    BY <2>2, <1>a
  <2> QED
    BY <2>2, <2>3, <2>5, <2>6, <2>7, CalmStep
<1>9. CASE FinalizeAdd
  <2>1. PICK r \in Refs : r = finalizing.handle[1]
    BY <1>9, HandleParts DEF FinalizeAdd, TypeInv, ArgOK
  <2>2. /\ UNCHANGED <<pc, task, made, arg, snapshot, released, frees, local, held>>
        /\ pool' = Append(pool, r) /\ finalizing'.step = "remove" /\ Carried(r)
    BY <1>9, <2>1 DEF FinalizeAdd, Carried, TypeInv, TypeOK
  <2>3. \A x \in Refs : InPool(x)' => InPool(x) \/ x = r
    BY <2>2, <1>a, AppendFacts DEF InPool
  <2>4. \A x \in Refs : Going(x)' => Going(x)
    BY <2>2, <2>3 DEF Going, Carried
  <2>5. \A u \in Threads : /\ pc'[u] # "closing"
                           /\ pc'[u] = "mark" => pc[u] = "mark" /\ <<arg[u], 0>> \notin released'
                           /\ MovingBy(u)' => MovingBy(u)
    BY <2>2 DEF ClientsOK, MovingBy
  <2> QED
    BY <2>2, <2>4, <2>5, <1>a, CalmStep
<1>10. CASE FinalizeRemove \/ (\E k \in HashCodes : ClearKey(k)) \/ UNCHANGED vars
  <2>1. /\ UNCHANGED <<pc, task, made, arg, snapshot, released, frees, pool, local, held>>
        /\ finalizing' = finalizing \/ finalizing'.step = "none"
    BY <1>10 DEF FinalizeRemove, ClearKey, vars
  <2>2. \A x \in Refs : Going(x)' => Going(x)
    BY <2>1 DEF Going, InPool, Carried
  <2>3. \A u \in Threads : /\ pc'[u] # "closing"
                           /\ pc'[u] = "mark" => pc[u] = "mark" /\ <<arg[u], 0>> \notin released'
                           /\ MovingBy(u)' => MovingBy(u)
    BY <2>1 DEF ClientsOK, MovingBy
  <2> QED
    BY <2>1, <2>2, <2>3, <1>a, CalmStep
<1> QED
  BY <1>1, <1>2, <1>3, <1>4, <1>5, <1>6, <1>7, <1>8, <1>9, <1>10
     DEF Next, User, Collector, Quiescent

-----------------------------------------------------------------------------

\* With one thread using the context, no reference is given to JS_FreeValue
\* twice, although finalizers fill the pool concurrently.
THEOREM FreedOnce ==
    ASSUME SingleUser
    PROVE  Spec => []NoDoubleFree
<1>1. Init => Inv
  BY InvInit
<1>2. Inv /\ [Next]_vars => Inv'
  BY InvStep
<1>3. Inv => NoDoubleFree
  <2>1. Inv => \A r \in Refs : frees[r] \in {0, 1}
    BY DEF Inv, TokenOK
  <2> QED
    BY <2>1 DEF NoDoubleFree
<1> QED
  BY <1>1, <1>2, <1>3, PTL DEF Spec

\* Nor is one freed, or queued for it, while the application holds a handle
\* that close has not closed.
THEOREM HeldStaysAlive ==
    ASSUME SingleUser
    PROVE  Spec => []HeldIsAlive
<1>1. Init => Inv
  BY InvInit
<1>2. Inv /\ [Next]_vars => Inv'
  BY InvStep
<1>3. Inv => HeldIsAlive
  <2> SUFFICES ASSUME Inv, NEW h \in held \ released
               PROVE  frees[h[1]] = 0 /\ \A i \in DOMAIN pool : pool[i] # h[1]
    BY DEF HeldIsAlive
  <2>1. h \in Handles /\ InCharge(h)
    BY DEF Inv, TypeOK, KnownOK, InCharge
  <2>2. h[1] \in Refs /\ h[2] \in {0, 1} /\ InCharge(<<h[1], h[2]>>)
    BY <2>1, HandleParts
  <2>3. frees[h[1]] = 0 /\ ~InPool(h[1])
    BY <2>2 DEF Inv, TokenOK
  <2> QED
    BY <2>3 DEF InPool
<1> QED
  BY <1>1, <1>2, <1>3, PTL DEF Spec

\* While the context is not closed, the same holds with any number of threads,
\* although two of them may drain one entry of the pool and free it twice: what
\* is in the pool was never the reference of a handle that is in charge of it.
THEOREM HeldStaysAliveForAll ==
    ASSUME ~MayClose
    PROVE  Spec => []HeldIsAlive
<1>1. Init => TypeInv /\ ClientsOK
  <2>1. ASSUME Init
        PROVE  ClientsOK
    BY <2>1 DEF Init, ClientsOK, MovingBy, Going, InPool, Carried
  <2> QED
    BY <2>1, TypeInit
<1>2. TypeInv /\ ClientsOK /\ [Next]_vars => TypeInv' /\ ClientsOK'
  BY TypeStep, ClientsStep
<1>3. TypeInv /\ ClientsOK => HeldIsAlive
  <2> SUFFICES ASSUME TypeInv, ClientsOK, NEW h \in held \ released
               PROVE  frees[h[1]] = 0 /\ \A i \in DOMAIN pool : pool[i] # h[1]
    BY DEF HeldIsAlive
  <2>1. PICK r \in Refs, i \in {0, 1} : h = <<r, i>> /\ h[1] = r
    BY HandleParts DEF TypeInv, TypeOK
  <2>2. h \in made
    BY DEF ClientsOK
  <2>3. ~Lapsed(r)
    BY <2>1, <2>2 DEF Lapsed
  <2>4. ~(frees[r] > 0) /\ ~InPool(r) /\ frees[r] \in Nat
    BY <2>3 DEF ClientsOK, Going, TypeInv, TypeOK
  <2> QED
    BY <2>1, <2>4 DEF InPool
<1> QED
  BY <1>1, <1>2, <1>3, PTL DEF Spec

\* Every variable keeps its type, whatever the number of threads that use the
\* context.
THEOREM TypeCorrect == Spec => []TypeOK
<1>1. Init => TypeInv
  BY TypeInit
<1>2. TypeInv /\ [Next]_vars => TypeInv'
  BY TypeStep
<1>3. TypeInv => TypeOK
  BY DEF TypeInv
<1> QED
  BY <1>1, <1>2, <1>3, PTL DEF Spec

\* With one thread using the context, every reference has been given back when
\* the runtime is freed, unless its handle had lost its entry in refs.
THEOREM ReleasedAtFree ==
    ASSUME SingleUser
    PROVE  Spec => []AllReleasedAtFree
<1>1. Init => Inv /\ KeptOK
  <2>1. Init => KeptOK
    BY DEF Init, KeptOK
  <2> QED
    BY <2>1, InvInit
<1>2. Inv /\ KeptOK /\ [Next]_vars => Inv' /\ KeptOK'
  BY InvStep, KeptStep
<1>3. Inv /\ KeptOK => AllReleasedAtFree
  <2> SUFFICES ASSUME Inv, KeptOK, rtFreed, NEW h \in made
               PROVE  frees[h[1]] > 0 \/ {<<h[1], 0>>, <<h[1], 1>>} \cap lost # {}
    BY DEF AllReleasedAtFree
  <2>1. h \in Handles
    BY DEF Inv, TypeOK
  <2>2. h[1] \in Refs /\ <<h[1], 0>> \in made
    <3>1. h[1] \in Refs /\ h[2] \in {0, 1} /\ h = <<h[1], h[2]>>
      BY <2>1, HandleParts
    <3>2. h = <<h[1], 0>> \/ h = <<h[1], 1>>
      BY <3>1
    <3> QED
      BY <3>1, <3>2 DEF Inv, KnownOK
  <2>3. frees[h[1]] = 1 \/ Lost(h[1])
    BY <2>2 DEF KeptOK, Kept
  <2> QED
    BY <2>2, <2>3 DEF Lost
<1> QED
  BY <1>1, <1>2, <1>3, PTL DEF Spec
=============================================================================
