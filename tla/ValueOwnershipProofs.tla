------------------------ MODULE ValueOwnershipProofs ------------------------
(***************************************************************************)
(* Reference counts are exact, no memory is given back while something     *)
(* refers to it, and the collector frees what cannot be reached and        *)
(* nothing else: for every heap, every nesting of calls and every number   *)
(* of handles.                                                             *)
(***************************************************************************)
EXTENDS ValueOwnership, FiniteSetTheorems, TLAPS

\* The references to n from outside the heap, and all of them.
Ext(n) == Cardinality(Holders(n)) + Lost(n)
Total(n) == Ext(n) + Cardinality(InFields(n))

\* The counts.  While gc_scan runs they are those of the references from
\* outside and from the nodes that it has come to.
CountOK ==
    \A n \in Nodes :
        ref[n] = IF phase = "scan" THEN Ext(n) + FieldsIn(On("live") \ todo, n) ELSE Total(n)

\* What is not allocated refers to nothing and nothing refers to it; something
\* refers to everything on gc_obj_list, and to the context on whichever list.
ListOK ==
    \A n \in Nodes :
        /\ list[n] = "none" => Total(n) = 0 /\ fields[n] = NoFields
        /\ list[n] = "live" \/ (n = Ctx /\ list[n] # "none") => Total(n) > 0

\* The context refers to the global object.
CtxOK == \A s \in Slots : fields[Ctx][s] \in {Null, Global}

\* What the lists are for in each phase.
RunOK == phase = "run" => \A n \in Nodes : list[n] \in {"none", "live"}

ZeroOK ==
    phase = "zero" => \A n \in Nodes :
        /\ list[n] \in {"none", "live", "zero"}
        /\ list[n] = "zero" => n \in Objects /\ Total(n) = 0

ScanOK ==
    phase = "scan" => \A n \in Nodes :
        /\ list[n] \in {"none", "live", "tmp"}
        /\ list[n] = "live" => ref[n] > 0 /\ n \in Reachable
        /\ list[n] = "tmp" => ref[n] = 0
        /\ n \in todo => list[n] = "live"

\* What stays is held from outside or by something else that stays.
CyclesOK ==
    phase = "cycles" =>
        /\ On("live") = Reachable
        /\ \A n \in On("live") :
              Ext(n) > 0 \/ \E m \in On("live"), s \in Slots : fields[m][s] = n
        /\ \A n \in Objects : list[n] = "zero" => fields[n] = NoFields

TodoOK == phase # "scan" => todo = {}

\* The last collection leaves what lost references reach, and nothing else is
\* freed after it.
EndOK ==
    /\ runtime \in {"assert", "freed"} =>
         phase # "zero" /\ (phase = "run" => On("live") = Reachable)
    /\ runtime = "freed" => phase = "run"

\* How far the runtime is.
RuntimeOK ==
    /\ runtime = "open" => leaked \in [Objects -> 0 .. 1]
    /\ runtime # "open" => stack = << >> /\ \A o \in Objects : handles[o] = 0
    /\ runtime \in {"collect", "assert", "freed"} => exc = Null
    /\ runtime \in {"assert", "freed"} /\ NoneLost => On("live") = {}
    /\ EndOK

\* Scripts and Java store objects only; a function refers to its context in
\* the field "internal".
KeysOK == \A o \in Objects, k \in Keys : fields[o][k] \in Values

HeapInv ==
    /\ CountOK /\ ListOK /\ CtxOK /\ RunOK /\ ZeroOK /\ ScanOK /\ CyclesOK /\ TodoOK

Inv == TypeOK /\ HeapInv /\ KeysOK /\ RuntimeOK

-----------------------------------------------------------------------------
(***************************************************************************)
(* Counting the references in fields.                                      *)
(***************************************************************************)

FieldMaps == [Nodes -> [Slots -> Nodes \cup {Null}]]

\* How often a is n: once or not at all.
Ind(a, n) == IF a = n THEN 1 ELSE 0

\* The number of references to n in the fields fl.
In(fl, n) == Cardinality({e \in Nodes \X Slots : fl[e[1]][e[2]] = n})

LEMMA FiniteParts ==
    IsFiniteSet(Nodes) /\ IsFiniteSet(Slots) /\ IsFiniteSet(Nodes \X Slots)
<1>1. IsFiniteSet(Nodes)
  BY HeapAssumption, FS_AddElement DEF Nodes
<1>2. IsFiniteSet(Slots)
  <2>1. IsFiniteSet(Keys \cup {"internal"})
    BY HeapAssumption, FS_AddElement
  <2>2. IsFiniteSet((Keys \cup {"internal"}) \cup {"globalThis"})
    BY <2>1, FS_AddElement
  <2>3. Slots = (Keys \cup {"internal"}) \cup {"globalThis"}
    BY DEF Slots
  <2> QED
    BY <2>2, <2>3
<1> QED
  BY <1>1, <1>2, FS_Product

LEMMA InFinite ==
    ASSUME NEW fl, NEW n
    PROVE  /\ IsFiniteSet({e \in Nodes \X Slots : fl[e[1]][e[2]] = n})
           /\ In(fl, n) \in Nat
<1>1. {e \in Nodes \X Slots : fl[e[1]][e[2]] = n} \in SUBSET (Nodes \X Slots)
  OBVIOUS
<1> QED
  BY <1>1, FiniteParts, FS_Subset, FS_CardinalityType DEF In

\* A field gets another value.
LEMMA InSet ==
    ASSUME NEW fl \in FieldMaps, NEW o \in Nodes, NEW k \in Slots, NEW v, NEW n,
           NEW g, g = [fl EXCEPT ![o][k] = v]
    PROVE  In(g, n) = In(fl, n) - Ind(fl[o][k], n) + Ind(v, n)
<1> DEFINE A == {e \in Nodes \X Slots : fl[e[1]][e[2]] = n}
           B == {e \in Nodes \X Slots : g[e[1]][e[2]] = n}
           x == <<o, k>>
<1>1. /\ g[o][k] = v
      /\ \A m \in Nodes, s \in Slots : m # o \/ s # k => g[m][s] = fl[m][s]
  BY DEF FieldMaps
<1>2. \A e \in Nodes \X Slots : /\ e[1] \in Nodes /\ e[2] \in Slots
                                /\ e # x => e[1] # o \/ e[2] # k
  OBVIOUS
<1>3. x \in Nodes \X Slots /\ x[1] = o /\ x[2] = k
  OBVIOUS
<1>4. IsFiniteSet(A) /\ Cardinality(A) \in Nat
  BY InFinite DEF In
<1> HIDE DEF x
<1>5. x \in A <=> fl[o][k] = n
  BY <1>3
<1>6. B = IF v = n THEN (A \ {x}) \cup {x} ELSE A \ {x}
  <2>1. \A e \in Nodes \X Slots : e # x => (e \in B <=> e \in A)
    BY <1>1, <1>2
  <2>2. x \in B <=> v = n
    BY <1>1, <1>3
  <2> QED
    BY <2>1, <2>2, <1>3
<1> HIDE DEF A, B
<1>7. IsFiniteSet(A \ {x}) /\ Cardinality(A \ {x}) = Cardinality(A) - Ind(fl[o][k], n)
  BY <1>4, <1>5, FS_RemoveElement DEF Ind
<1>8. Cardinality((A \ {x}) \cup {x}) = Cardinality(A \ {x}) + 1
  BY <1>7, FS_AddElement
<1>9. Cardinality(B) = Cardinality(A) - Ind(fl[o][k], n) + Ind(v, n)
  BY <1>4, <1>6, <1>7, <1>8 DEF Ind
<1> QED
  BY <1>9 DEF In, A, B

\* Pairing the members of a set with t does not change how many there are.
LEMMA Tagged ==
    ASSUME NEW t, NEW S, IsFiniteSet(S)
    PROVE  /\ IsFiniteSet({<<t, i>> : i \in S})
           /\ Cardinality({<<t, i>> : i \in S}) = Cardinality(S)
<1> DEFINE T == {<<t, i>> : i \in S}
           f == [i \in S |-> <<t, i>>]
<1>1. f \in Bijection(S, T)
  BY DEF Bijection, Injection, Surjection, IsInjective
<1> QED
  BY <1>1, FS_Bijection DEF ExistsBijection

\* All fields of a node are emptied.
LEMMA InEmptied ==
    ASSUME NEW fl \in FieldMaps, NEW o \in Nodes, NEW n \in Nodes,
           NEW g, g = [fl EXCEPT ![o] = NoFields]
    PROVE  In(g, n) = In(fl, n) - Cardinality({s \in Slots : fl[o][s] = n})
<1> DEFINE A == {e \in Nodes \X Slots : fl[e[1]][e[2]] = n}
           B == {e \in Nodes \X Slots : g[e[1]][e[2]] = n}
           E == {s \in Slots : fl[o][s] = n}
           T == {<<o, s>> : s \in E}
<1>1. /\ \A s \in Slots : g[o][s] = Null
      /\ \A m \in Nodes : m # o => g[m] = fl[m]
  BY DEF FieldMaps, NoFields
<1>2. n # Null
  BY HeapAssumption
<1>3. T \subseteq A
  OBVIOUS
<1>4. \A e \in Nodes \X Slots : /\ e[1] \in Nodes /\ e[2] \in Slots
                                /\ e = <<e[1], e[2]>>
  OBVIOUS
<1>5. B = A \ T
  <2>1. \A e \in Nodes \X Slots : e \in B <=> e \in A /\ e[1] # o
    BY <1>1, <1>2, <1>4
  <2>2. \A e \in A : e \in T <=> e[1] = o
    BY <1>4
  <2> QED
    BY <2>1, <2>2
<1>6. IsFiniteSet(A)
  BY InFinite
<1>7. IsFiniteSet(E)
  BY FiniteParts, FS_Subset
<1>8. IsFiniteSet(T) /\ Cardinality(T) = Cardinality(E)
  BY <1>7, Tagged
<1>9. A \cap T = T
  BY <1>3
<1> HIDE DEF A, B, T, E
<1>10. Cardinality(A \ T) = Cardinality(A) - Cardinality(A \cap T)
  BY <1>6, FS_Difference
<1>11. Cardinality(B) = Cardinality(A) - Cardinality(E)
  BY <1>5, <1>8, <1>9, <1>10
<1> QED
  BY <1>11 DEF In, A, B, E

\* The references from two sets of nodes, from one node, and from all.
LEMMA FieldsInTypes ==
    ASSUME NEW S \in SUBSET Nodes, NEW c
    PROVE  /\ IsFiniteSet({e \in S \X Slots : fields[e[1]][e[2]] = c})
           /\ FieldsIn(S, c) \in Nat
<1>1. {e \in S \X Slots : fields[e[1]][e[2]] = c} \in SUBSET (Nodes \X Slots)
  OBVIOUS
<1> QED
  BY <1>1, FiniteParts, FS_Subset, FS_CardinalityType DEF FieldsIn

LEMMA FieldsInUnion ==
    ASSUME NEW S \in SUBSET Nodes, NEW T \in SUBSET Nodes, S \cap T = {}, NEW c
    PROVE  FieldsIn(S \cup T, c) = FieldsIn(S, c) + FieldsIn(T, c)
<1> DEFINE A == {e \in S \X Slots : fields[e[1]][e[2]] = c}
           B == {e \in T \X Slots : fields[e[1]][e[2]] = c}
           D == {e \in (S \cup T) \X Slots : fields[e[1]][e[2]] = c}
<1>1. IsFiniteSet(A) /\ IsFiniteSet(B) /\ Cardinality(A) \in Nat /\ Cardinality(B) \in Nat
  BY FieldsInTypes DEF FieldsIn
<1>2. D = A \cup B
  OBVIOUS
<1>3. A \cap B = {}
  OBVIOUS
<1> HIDE DEF A, B, D
<1>4. Cardinality(A \cup B) = Cardinality(A) + Cardinality(B) - Cardinality(A \cap B)
  BY <1>1, FS_Union
<1>5. Cardinality(A \cap B) = 0
  BY <1>3, FS_EmptySet
<1>6. Cardinality(D) = Cardinality(A) + Cardinality(B)
  BY <1>1, <1>2, <1>4, <1>5
<1> QED
  BY <1>6 DEF FieldsIn, A, B, D

LEMMA FieldsInOne ==
    ASSUME NEW p \in Nodes, NEW c
    PROVE  FieldsIn({p}, c) = Edges(p, c) /\ Edges(p, c) \in Nat
<1> DEFINE E == {s \in Slots : fields[p][s] = c}
<1>1. IsFiniteSet(E) /\ Cardinality(E) \in Nat
  BY FiniteParts, FS_Subset, FS_CardinalityType
<1>2. {e \in {p} \X Slots : fields[e[1]][e[2]] = c} = {<<p, s>> : s \in E}
  OBVIOUS
<1>3. Cardinality({<<p, s>> : s \in E}) = Cardinality(E)
  BY <1>1, Tagged
<1>4. FieldsIn({p}, c) = Cardinality(E)
  BY <1>2, <1>3 DEF FieldsIn
<1>5. Edges(p, c) = Cardinality(E)
  BY DEF Edges
<1> QED
  BY <1>1, <1>4, <1>5

LEMMA FieldsInAll ==
    ASSUME NEW S \in SUBSET Nodes, NEW c \in Nodes, \A m \in Nodes \ S : fields[m] = NoFields
    PROVE  FieldsIn(S, c) = Cardinality(InFields(c))
<1>1. c # Null
  BY HeapAssumption
<1>2. \A m \in Nodes \ S, s \in Slots : fields[m][s] = Null
  BY DEF NoFields
<1>3. InFields(c) = {e \in S \X Slots : fields[e[1]][e[2]] = c}
  BY <1>1, <1>2 DEF InFields
<1> QED
  BY <1>3 DEF FieldsIn

\* Whether there is a reference.
LEMMA Referred ==
    ASSUME NEW S \in SUBSET Nodes, NEW c
    PROVE  /\ FieldsIn(S, c) > 0 <=> \E m \in S, s \in Slots : fields[m][s] = c
           /\ Cardinality(InFields(c)) \in Nat
           /\ Cardinality(InFields(c)) > 0 <=> \E m \in Nodes, s \in Slots : fields[m][s] = c
           /\ Cardinality(InFields(c)) > 0 <=> InFields(c) # {}
<1>1. ASSUME NEW T \in SUBSET Nodes
      PROVE  /\ FieldsIn(T, c) \in Nat
             /\ FieldsIn(T, c) > 0 <=> {e \in T \X Slots : fields[e[1]][e[2]] = c} # {}
  <2> DEFINE A == {e \in T \X Slots : fields[e[1]][e[2]] = c}
  <2>1. IsFiniteSet(A) /\ Cardinality(A) \in Nat /\ FieldsIn(T, c) = Cardinality(A)
    BY FieldsInTypes DEF FieldsIn
  <2> HIDE DEF A
  <2>2. Cardinality(A) > 0 <=> A # {}
    BY <2>1, FS_EmptySet
  <2> QED
    BY <2>1, <2>2 DEF A
<1>2. ASSUME NEW T \in SUBSET Nodes
      PROVE  {e \in T \X Slots : fields[e[1]][e[2]] = c} # {}
                <=> \E m \in T, s \in Slots : fields[m][s] = c
  <2>1. ASSUME NEW m \in T, NEW s \in Slots, fields[m][s] = c
        PROVE  <<m, s>> \in {e \in T \X Slots : fields[e[1]][e[2]] = c}
    BY <2>1
  <2>2. \A e \in T \X Slots : e[1] \in T /\ e[2] \in Slots
    OBVIOUS
  <2> QED
    BY <2>1, <2>2
<1>3. Cardinality(InFields(c)) = FieldsIn(Nodes, c)
  BY DEF InFields, FieldsIn
<1> QED
  BY <1>1, <1>2, <1>3 DEF InFields

-----------------------------------------------------------------------------
(***************************************************************************)
(* Counting the references from outside the heap.                          *)
(***************************************************************************)

HandlesOf(h, n) == IF n = Ctx THEN 0 ELSE h[n]
ContextOf(rt, n) == IF rt = "open" /\ n \in {Global, Ctx} THEN 1 ELSE 0
Funcs(st, n) == Cardinality({i \in DOMAIN st : st[i].func = n})
Args(st, n) == Cardinality({i \in DOMAIN st : st[i].arg = n})

HoldersOf(h, x, rt, st, n) ==
    {<<"handle", i>> : i \in IF n = Ctx THEN {} ELSE 1 .. h[n]}
    \cup {<<"exception", 0>> : y \in {x} \cap {n}}
    \cup {<<"context", 0>> : y \in IF rt = "open" THEN {Global, Ctx} \cap {n} ELSE {}}
    \cup {<<"func", i>> : i \in {i \in DOMAIN st : st[i].func = n}}
    \cup {<<"arg", i>> : i \in {i \in DOMAIN st : st[i].arg = n}}

ExtOf(h, x, rt, st, lk, n) ==
    HandlesOf(h, n) + Ind(x, n) + ContextOf(rt, n) + Funcs(st, n) + Args(st, n) + HandlesOf(lk, n)

LEMMA StackFinite ==
    ASSUME NEW st \in Seq(Frames), NEW n
    PROVE  /\ IsFiniteSet({i \in DOMAIN st : st[i].func = n}) /\ Funcs(st, n) \in Nat
           /\ IsFiniteSet({i \in DOMAIN st : st[i].arg = n}) /\ Args(st, n) \in Nat
<1>1. DOMAIN st = 1 .. Len(st) /\ Len(st) \in Nat
  OBVIOUS
<1>2. IsFiniteSet(DOMAIN st)
  BY <1>1, FS_Interval
<1>3. /\ {i \in DOMAIN st : st[i].func = n} \in SUBSET DOMAIN st
      /\ {i \in DOMAIN st : st[i].arg = n} \in SUBSET DOMAIN st
  OBVIOUS
<1> QED
  BY <1>2, <1>3, FS_Subset, FS_CardinalityType DEF Funcs, Args

\* Disjoint sets.
LEMMA Joined ==
    ASSUME NEW S, NEW T, IsFiniteSet(S), IsFiniteSet(T), S \cap T = {}
    PROVE  IsFiniteSet(S \cup T) /\ Cardinality(S \cup T) = Cardinality(S) + Cardinality(T)
<1>1. /\ IsFiniteSet(S \cup T)
      /\ Cardinality(S \cup T) = Cardinality(S) + Cardinality(T) - Cardinality(S \cap T)
  BY FS_Union
<1>2. Cardinality(S \cap T) = 0
  BY FS_EmptySet
<1>3. Cardinality(S) \in Nat /\ Cardinality(T) \in Nat
  BY FS_CardinalityType
<1> QED
  BY <1>1, <1>2, <1>3

LEMMA HoldersCount ==
    ASSUME NEW h \in [Objects -> Nat], NEW x, NEW rt, NEW st \in Seq(Frames), NEW n \in Nodes
    PROVE  /\ IsFiniteSet(HoldersOf(h, x, rt, st, n))
           /\ Cardinality(HoldersOf(h, x, rt, st, n)) =
                HandlesOf(h, n) + Ind(x, n) + ContextOf(rt, n) + Funcs(st, n) + Args(st, n)
<1> DEFINE H0 == IF n = Ctx THEN {} ELSE 1 .. h[n]
           F0 == {i \in DOMAIN st : st[i].func = n}
           A0 == {i \in DOMAIN st : st[i].arg = n}
           H == {<<"handle", i>> : i \in H0}
           X == {<<"exception", 0>> : y \in {x} \cap {n}}
           C == {<<"context", 0>> : y \in IF rt = "open" THEN {Global, Ctx} \cap {n} ELSE {}}
           F == {<<"func", i>> : i \in F0}
           A == {<<"arg", i>> : i \in A0}
<1>1. IsFiniteSet(H0) /\ Cardinality(H0) = HandlesOf(h, n)
  <2>1. CASE n = Ctx
    BY <2>1, FS_EmptySet DEF HandlesOf
  <2>2. CASE n # Ctx
    <3>1. h[n] \in Nat
      BY <2>2 DEF Nodes
    <3>2. \A m \in Nat : IsFiniteSet(1 .. m) /\ Cardinality(1 .. m) = m
      <4> SUFFICES ASSUME NEW m \in Nat
                   PROVE  IsFiniteSet(1 .. m) /\ Cardinality(1 .. m) = m
        OBVIOUS
      <4>1. IsFiniteSet(1 .. m) /\ Cardinality(1 .. m) = IF 1 > m THEN 0 ELSE m - 1 + 1
        BY FS_Interval
      <4> QED
        BY <4>1
    <3>3. IsFiniteSet(1 .. h[n]) /\ Cardinality(1 .. h[n]) = h[n]
      BY <3>1, <3>2
    <3> QED
      BY <2>2, <3>3 DEF HandlesOf
  <2> QED
    BY <2>1, <2>2
<1>2. IsFiniteSet(H) /\ Cardinality(H) = HandlesOf(h, n)
  BY <1>1, Tagged
<1>3. IsFiniteSet(X) /\ Cardinality(X) = Ind(x, n)
  <2>1. CASE x = n
    <3>1. X = {<<"exception", 0>>}
      BY <2>1
    <3> QED
      BY <2>1, <3>1, FS_Singleton DEF Ind
  <2>2. CASE x # n
    <3>1. X = {}
      BY <2>2
    <3> QED
      BY <2>2, <3>1, FS_EmptySet DEF Ind
  <2> QED
    BY <2>1, <2>2
<1>4. IsFiniteSet(C) /\ Cardinality(C) = ContextOf(rt, n)
  <2>1. CASE rt = "open" /\ n \in {Global, Ctx}
    <3>1. C = {<<"context", 0>>}
      BY <2>1
    <3> QED
      BY <2>1, <3>1, FS_Singleton DEF ContextOf
  <2>2. CASE ~(rt = "open" /\ n \in {Global, Ctx})
    <3>1. C = {}
      BY <2>2
    <3> QED
      BY <2>2, <3>1, FS_EmptySet DEF ContextOf
  <2> QED
    BY <2>1, <2>2
<1>5. IsFiniteSet(F) /\ Cardinality(F) = Funcs(st, n)
  <2>1. IsFiniteSet(F0) /\ Funcs(st, n) = Cardinality(F0)
    BY StackFinite DEF Funcs
  <2> HIDE DEF F0
  <2> QED
    BY <2>1, Tagged
<1>6. IsFiniteSet(A) /\ Cardinality(A) = Args(st, n)
  <2>1. IsFiniteSet(A0) /\ Args(st, n) = Cardinality(A0)
    BY StackFinite DEF Args
  <2> HIDE DEF A0
  <2> QED
    BY <2>1, Tagged
<1>7. /\ H \cap X = {} /\ (H \cup X) \cap C = {} /\ (H \cup X \cup C) \cap F = {}
      /\ (H \cup X \cup C \cup F) \cap A = {}
  OBVIOUS
<1>8. HoldersOf(h, x, rt, st, n) = H \cup X \cup C \cup F \cup A
  BY DEF HoldersOf
<1> HIDE DEF H, X, C, F, A
<1>9. IsFiniteSet(H \cup X) /\ Cardinality(H \cup X) = Cardinality(H) + Cardinality(X)
  BY <1>2, <1>3, <1>7, Joined
<1>10. /\ IsFiniteSet(H \cup X \cup C)
       /\ Cardinality(H \cup X \cup C) = Cardinality(H \cup X) + Cardinality(C)
  BY <1>4, <1>7, <1>9, Joined
<1>11. /\ IsFiniteSet(H \cup X \cup C \cup F)
       /\ Cardinality(H \cup X \cup C \cup F) = Cardinality(H \cup X \cup C) + Cardinality(F)
  BY <1>5, <1>7, <1>10, Joined
<1>12. /\ IsFiniteSet(H \cup X \cup C \cup F \cup A)
       /\ Cardinality(H \cup X \cup C \cup F \cup A) =
            Cardinality(H \cup X \cup C \cup F) + Cardinality(A)
  BY <1>6, <1>7, <1>11, Joined
<1> QED
  BY <1>2, <1>3, <1>4, <1>5, <1>6, <1>8, <1>9, <1>10, <1>11, <1>12

LEMMA ExtNat ==
    ASSUME NEW h \in [Objects -> Nat], NEW x, NEW rt, NEW st \in Seq(Frames),
           NEW lk \in [Objects -> Nat], NEW n \in Nodes
    PROVE  /\ HandlesOf(h, n) \in Nat /\ Ind(x, n) \in Nat /\ ContextOf(rt, n) \in Nat
           /\ Funcs(st, n) \in Nat /\ Args(st, n) \in Nat /\ HandlesOf(lk, n) \in Nat
           /\ ExtOf(h, x, rt, st, lk, n) \in Nat
<1>1. HandlesOf(h, n) \in Nat /\ HandlesOf(lk, n) \in Nat
  BY DEF HandlesOf, Nodes
<1>2. Ind(x, n) \in Nat /\ ContextOf(rt, n) \in Nat
  BY DEF Ind, ContextOf
<1>3. Funcs(st, n) \in Nat /\ Args(st, n) \in Nat
  BY StackFinite
<1>4. ExtOf(h, x, rt, st, lk, n) \in Nat
  BY <1>1, <1>2, <1>3 DEF ExtOf
<1> QED
  BY <1>1, <1>2, <1>3, <1>4

LEMMA OwnTypes ==
    ASSUME TypeOK
    PROVE  /\ handles \in [Objects -> Nat] /\ leaked \in [Objects -> Nat] /\ stack \in Seq(Frames)
           /\ fields \in FieldMaps
<1>1. \A i \in 0 .. MaxHandles : i \in Nat
  BY ValueOwnershipAssumption
<1>2. \A i \in 0 .. MaxHandles + 1 : i \in Nat
  BY ValueOwnershipAssumption
<1>3. handles \in [Objects -> Nat]
  BY <1>1 DEF TypeOK
<1>4. leaked \in [Objects -> Nat]
  BY <1>2 DEF TypeOK
<1> QED
  BY <1>3, <1>4 DEF TypeOK, HeapTypeOK, FieldMaps

LEMMA ExtIs ==
    ASSUME TypeOK, NEW n \in Nodes
    PROVE  /\ Ext(n) = ExtOf(handles, exc, runtime, stack, leaked, n)
           /\ Ext(n) \in Nat
           /\ Ext(n) > 0 <=> Holders(n) # {} \/ Lost(n) > 0
<1>0. handles \in [Objects -> Nat] /\ leaked \in [Objects -> Nat] /\ stack \in Seq(Frames)
  BY OwnTypes
<1>1. Holders(n) = HoldersOf(handles, exc, runtime, stack, n)
  BY DEF Holders, HoldersOf
<1>2. /\ IsFiniteSet(Holders(n))
      /\ Cardinality(Holders(n)) = HandlesOf(handles, n) + Ind(exc, n) + ContextOf(runtime, n)
                                     + Funcs(stack, n) + Args(stack, n)
  BY <1>0, <1>1, HoldersCount
<1>3. Lost(n) = HandlesOf(leaked, n)
  BY DEF Lost, HandlesOf
<1>4. Ext(n) = ExtOf(handles, exc, runtime, stack, leaked, n)
  BY <1>2, <1>3 DEF Ext, ExtOf
<1>5. Ext(n) \in Nat /\ HandlesOf(leaked, n) \in Nat
  BY <1>0, <1>4, ExtNat
<1>6. Cardinality(Holders(n)) \in Nat /\ (Cardinality(Holders(n)) = 0 <=> Holders(n) = {})
  BY <1>2, FS_CardinalityType, FS_EmptySet
<1>7. Ext(n) > 0 <=> Holders(n) # {} \/ Lost(n) > 0
  BY <1>3, <1>5, <1>6 DEF Ext
<1> QED
  BY <1>4, <1>5, <1>7

\* A call begins, a call ends.
LEMMA StackPush ==
    ASSUME NEW st \in Seq(Frames), NEW fr \in Frames, NEW n
    PROVE  /\ Funcs(Append(st, fr), n) = Funcs(st, n) + Ind(fr.func, n)
           /\ Args(Append(st, fr), n) = Args(st, n) + Ind(fr.arg, n)
<1> DEFINE l == Len(st)
           q == Append(st, fr)
<1>1. /\ l \in Nat /\ DOMAIN st = 1 .. l /\ DOMAIN q = 1 .. l + 1
      /\ q[l + 1] = fr /\ \A i \in 1 .. l : q[i] = st[i]
  OBVIOUS
<1> HIDE DEF l, q
<1>2. \A i \in 1 .. l + 1 : i \in 1 .. l \/ i = l + 1
  BY <1>1
<1>3. l + 1 \notin 1 .. l /\ l + 1 \in 1 .. l + 1 /\ 1 .. l \subseteq 1 .. l + 1
  BY <1>1
<1>4. Funcs(q, n) = Funcs(st, n) + Ind(fr.func, n)
  <2> DEFINE S == {i \in DOMAIN st : st[i].func = n}
             T == {i \in DOMAIN q : q[i].func = n}
  <2>1. T = IF fr.func = n THEN S \cup {l + 1} ELSE S
    BY <1>1, <1>2, <1>3
  <2>2. l + 1 \notin S /\ IsFiniteSet(S) /\ Cardinality(S) \in Nat
    BY <1>1, <1>3, StackFinite DEF Funcs
  <2> HIDE DEF S, T
  <2>3. Cardinality(S \cup {l + 1}) = Cardinality(S) + 1
    BY <2>2, FS_AddElement
  <2>4. Cardinality(T) = Cardinality(S) + Ind(fr.func, n)
    BY <2>1, <2>2, <2>3 DEF Ind
  <2> QED
    BY <2>4 DEF Funcs, S, T
<1>5. Args(q, n) = Args(st, n) + Ind(fr.arg, n)
  <2> DEFINE S == {i \in DOMAIN st : st[i].arg = n}
             T == {i \in DOMAIN q : q[i].arg = n}
  <2>1. T = IF fr.arg = n THEN S \cup {l + 1} ELSE S
    BY <1>1, <1>2, <1>3
  <2>2. l + 1 \notin S /\ IsFiniteSet(S) /\ Cardinality(S) \in Nat
    BY <1>1, <1>3, StackFinite DEF Args
  <2> HIDE DEF S, T
  <2>3. Cardinality(S \cup {l + 1}) = Cardinality(S) + 1
    BY <2>2, FS_AddElement
  <2>4. Cardinality(T) = Cardinality(S) + Ind(fr.arg, n)
    BY <2>1, <2>2, <2>3 DEF Ind
  <2> QED
    BY <2>4 DEF Args, S, T
<1> QED
  BY <1>4, <1>5 DEF q

LEMMA StackPop ==
    ASSUME TypeOK, stack # << >>
    PROVE  /\ Top \in Frames /\ Pop \in Seq(Frames) /\ stack = Append(Pop, Top)
           /\ \A n : /\ Funcs(Pop, n) = Funcs(stack, n) - Ind(Top.func, n)
                     /\ Args(Pop, n) = Args(stack, n) - Ind(Top.arg, n)
                     /\ Funcs(stack, n) >= Ind(Top.func, n)
                     /\ Args(stack, n) >= Ind(Top.arg, n)
<1>1. stack \in Seq(Frames) /\ Len(stack) \in Nat /\ Len(stack) > 0
  BY DEF TypeOK
<1>2. Top \in Frames /\ Pop \in Seq(Frames)
  BY <1>1 DEF Top, Pop
<1>3. stack = Append(Pop, Top)
  BY <1>1 DEF Top, Pop
<1> SUFFICES ASSUME NEW n
             PROVE  /\ Funcs(Pop, n) = Funcs(stack, n) - Ind(Top.func, n)
                    /\ Args(Pop, n) = Args(stack, n) - Ind(Top.arg, n)
                    /\ Funcs(stack, n) >= Ind(Top.func, n)
                    /\ Args(stack, n) >= Ind(Top.arg, n)
  BY <1>2, <1>3
<1>4. /\ Funcs(stack, n) = Funcs(Pop, n) + Ind(Top.func, n)
      /\ Args(stack, n) = Args(Pop, n) + Ind(Top.arg, n)
  BY <1>2, <1>3, StackPush
<1>5. /\ Funcs(Pop, n) \in Nat /\ Args(Pop, n) \in Nat
      /\ Ind(Top.func, n) \in Nat /\ Ind(Top.arg, n) \in Nat
  BY <1>2, StackFinite DEF Ind
<1> QED
  BY <1>4, <1>5

-----------------------------------------------------------------------------
(***************************************************************************)
(* Giving up references: what JS_FreeValue and free_object do to exact     *)
(* counts.  X is the number of references to each node from outside the    *)
(* heap, afterwards.                                                       *)
(***************************************************************************)

LEMMA HeapParts ==
    /\ Ctx \in Nodes /\ Global \in Nodes /\ Global # Ctx /\ Ctx # Null
    /\ \A o \in Objects : o \in Nodes /\ o # Ctx /\ o # Null
    /\ \A n \in Nodes : n # Null /\ (n = Ctx \/ n \in Objects)
    /\ NoFields \in [Slots -> Nodes \cup {Null}]
    /\ \A s \in Slots : NoFields[s] = Null
    /\ "internal" \in Slots /\ "globalThis" \in Slots /\ \A k \in Keys : k \in Slots
BY HeapAssumption DEF Nodes, Slots, NoFields

\* One node's fields are emptied.
LEMMA Emptying ==
    ASSUME NEW fl \in FieldMaps, NEW o \in Nodes, NEW g, g = [fl EXCEPT ![o] = NoFields]
    PROVE  /\ g \in FieldMaps
           /\ \A n \in Nodes :
                /\ Cardinality({s \in Slots : fl[o][s] = n}) \in Nat
                /\ In(g, n) = In(fl, n) - Cardinality({s \in Slots : fl[o][s] = n})
                /\ In(g, n) <= In(fl, n)
<1>1. g \in FieldMaps
  BY HeapParts DEF FieldMaps
<1>2. ASSUME NEW n \in Nodes
      PROVE  /\ Cardinality({s \in Slots : fl[o][s] = n}) \in Nat
             /\ In(g, n) = In(fl, n) - Cardinality({s \in Slots : fl[o][s] = n})
             /\ In(g, n) <= In(fl, n)
  <2>1. In(g, n) = In(fl, n) - Cardinality({s \in Slots : fl[o][s] = n})
    BY InEmptied
  <2>2. {s \in Slots : fl[o][s] = n} \in SUBSET Slots
    OBVIOUS
  <2>3. Cardinality({s \in Slots : fl[o][s] = n}) \in Nat
    BY <2>2, FiniteParts, FS_Subset, FS_CardinalityType
  <2>4. In(fl, n) \in Nat
    BY InFinite
  <2> QED
    BY <2>1, <2>3, <2>4
<1> QED
  BY <1>1, <1>2

\* The counts are exact.
Exact(r1, X, fl) == r1 = [n \in Nodes |-> X[n] + In(fl, n)]

\* The fields and lists once the context has died of the counts r1, or not, and
\* what reached zero is on gc_zero_ref_count_list.
SettledFields(fl, r1) == IF CtxDies(r1) THEN [fl EXCEPT ![Ctx] = NoFields] ELSE fl
SettledList(l, r1) ==
    [n \in Nodes |-> IF n \in Objects /\ l[n] = "live" /\ Settle(r1)[n] <= 0 THEN "zero"
                     ELSE IF n = Ctx /\ CtxDies(r1) THEN "none" ELSE l[n]]

LEMMA Settling ==
    ASSUME NEW X \in [Nodes -> Nat], NEW fl \in FieldMaps, NEW r1,
           fl[Ctx] = fields[Ctx], Exact(r1, X, fl),
           ref' = Settle(r1), fields' = SettledFields(fl, r1)
    PROVE  /\ ref' \in [Nodes -> Int] /\ fields' \in FieldMaps
           /\ \A n \in Nodes : /\ ref'[n] = X[n] + In(fields', n) /\ ref'[n] >= 0
                               /\ In(fields', n) \in Nat /\ In(fields', n) <= In(fl, n)
                               /\ n # Ctx => fields'[n] = fl[n]
                               /\ fields'[n] \in {fl[n], NoFields}
           /\ CtxDies(r1) => ref'[Ctx] = 0 /\ fields'[Ctx] = NoFields
           /\ ~CtxDies(r1) /\ list[Ctx] # "none" => ref'[Ctx] > 0
<1>1. /\ \A n \in Nodes : In(fl, n) \in Nat /\ X[n] \in Nat /\ r1[n] = X[n] + In(fl, n)
      /\ DOMAIN r1 = Nodes /\ r1 = [n \in Nodes |-> r1[n]]
  BY InFinite DEF Exact
<1>2. CASE ~CtxDies(r1)
  <2>1. ref' = r1 /\ fields' = fl
    BY <1>2 DEF Settle, SettledFields
  <2>2. \A n \in Nodes : r1[n] \in Int /\ r1[n] >= 0
    BY <1>1
  <2>3. r1 \in [Nodes -> Int]
    BY <1>1, <2>2
  <2>4. list[Ctx] # "none" => r1[Ctx] > 0
    BY <1>2, <2>2, HeapParts DEF CtxDies
  <2>5. \A n \in Nodes : In(fields', n) = In(fl, n)
    BY <2>1
  <2>6. \A n \in Nodes : /\ ref'[n] = X[n] + In(fields', n) /\ ref'[n] >= 0
                         /\ In(fields', n) \in Nat /\ In(fields', n) <= In(fl, n)
    BY <1>1, <2>1, <2>2, <2>5
  <2> QED
    BY <1>2, <2>1, <2>3, <2>4, <2>6
<1>3. CASE CtxDies(r1)
  <2>1. ref' = [c \in Nodes |-> r1[c] - Edges(Ctx, c)] /\ fields' = [fl EXCEPT ![Ctx] = NoFields]
    BY <1>3 DEF Settle, LessFields, SettledFields
  <2>0. \A n \in Nodes : Edges(Ctx, n) = Cardinality({s \in Slots : fl[Ctx][s] = n})
    BY DEF Edges
  <2>2. /\ fields' \in FieldMaps
        /\ \A n \in Nodes : /\ Edges(Ctx, n) \in Nat /\ In(fields', n) = In(fl, n) - Edges(Ctx, n)
                            /\ In(fields', n) <= In(fl, n)
    <3> DEFINE g == [fl EXCEPT ![Ctx] = NoFields]
    <3>1. /\ g \in FieldMaps
          /\ \A n \in Nodes :
                /\ Cardinality({s \in Slots : fl[Ctx][s] = n}) \in Nat
                /\ In(g, n) = In(fl, n) - Cardinality({s \in Slots : fl[Ctx][s] = n})
                /\ In(g, n) <= In(fl, n)
      BY Emptying, HeapParts
    <3> HIDE DEF g
    <3>2. fields' = g
      BY <2>1 DEF g
    <3> QED
      BY <2>0, <3>1, <3>2
  <2>3. \A n \in Nodes : In(fields', n) \in Nat
    BY InFinite
  <2>4. \A n \in Nodes : /\ ref'[n] = X[n] + In(fields', n) /\ ref'[n] >= 0 /\ ref'[n] \in Int
                         /\ ref'[n] <= r1[n]
    <3> SUFFICES ASSUME NEW n \in Nodes
                 PROVE  /\ ref'[n] = X[n] + In(fields', n) /\ ref'[n] >= 0 /\ ref'[n] \in Int
                        /\ ref'[n] <= r1[n]
      OBVIOUS
    <3>1. ref'[n] = r1[n] - Edges(Ctx, n) /\ r1[n] = X[n] + In(fl, n)
      BY <1>1, <2>1
    <3>2. In(fields', n) = In(fl, n) - Edges(Ctx, n) /\ Edges(Ctx, n) \in Nat
      BY <2>2
    <3>3. X[n] \in Nat /\ In(fl, n) \in Nat /\ In(fields', n) \in Nat
      BY <1>1, <2>3
    <3> QED
      BY <3>1, <3>2, <3>3
  <2>5. ref' \in [Nodes -> Int]
    BY <2>1, <2>4
  <2>6. ref'[Ctx] = 0
    BY <1>1, <1>3, <2>4, HeapParts DEF CtxDies
  <2>7. /\ \A n \in Nodes : n # Ctx => fields'[n] = fl[n]
        /\ fields'[Ctx] = NoFields
    BY <2>1, HeapParts DEF FieldMaps
  <2> QED
    BY <1>3, <2>2, <2>3, <2>4, <2>5, <2>6, <2>7
<1> QED
  BY <1>2, <1>3

\* What reaches zero goes to gc_zero_ref_count_list.
LEMMA Listing ==
    ASSUME NEW X \in [Nodes -> Nat], NEW fl \in FieldMaps, NEW r1, NEW l \in [Nodes -> Lists],
           fl[Ctx] = fields[Ctx], l[Ctx] = list[Ctx],
           \A s \in Slots : fl[Ctx][s] \in {Null, Global},
           \A n \in Nodes :
              /\ l[n] \in {"none", "live", "zero"}
              /\ l[n] = "none" => X[n] + In(fl, n) = 0 /\ fl[n] = NoFields
              /\ l[n] = "zero" => X[n] + In(fl, n) = 0 /\ n \in Objects,
           Exact(r1, X, fl),
           ref' = Settle(r1), fields' = SettledFields(fl, r1), list' = SettledList(l, r1)
    PROVE  /\ ref' \in [Nodes -> Int] /\ fields' \in FieldMaps /\ list' \in [Nodes -> Lists]
           /\ \A n \in Nodes :
                /\ ref'[n] = X[n] + In(fields', n)
                /\ list'[n] \in {"none", "live", "zero"}
                /\ list'[n] = "none" => ref'[n] = 0 /\ fields'[n] = NoFields
                /\ list'[n] = "live" => ref'[n] > 0 /\ l[n] = "live"
                /\ list'[n] = "zero" => ref'[n] = 0 /\ n \in Objects
           /\ \A s \in Slots : fields'[Ctx][s] \in {Null, Global}
<1>1. /\ ref' \in [Nodes -> Int] /\ fields' \in FieldMaps
      /\ \A n \in Nodes : /\ ref'[n] = X[n] + In(fields', n) /\ ref'[n] >= 0
                          /\ In(fields', n) \in Nat /\ In(fields', n) <= In(fl, n)
                          /\ n # Ctx => fields'[n] = fl[n]
                          /\ fields'[n] \in {fl[n], NoFields}
      /\ CtxDies(r1) => ref'[Ctx] = 0 /\ fields'[Ctx] = NoFields
      /\ ~CtxDies(r1) /\ list[Ctx] # "none" => ref'[Ctx] > 0
  BY Settling
<1>0. \A n \in Nodes :
         list'[n] = IF n \in Objects /\ l[n] = "live" /\ ref'[n] <= 0 THEN "zero"
                    ELSE IF n = Ctx /\ CtxDies(r1) THEN "none" ELSE l[n]
  BY DEF SettledList
<1>2. list' \in [Nodes -> Lists]
  BY DEF Lists, SettledList
<1>3. \A n \in Nodes : In(fl, n) \in Nat
  BY InFinite
<1>4. ASSUME NEW n \in Nodes
      PROVE  /\ list'[n] \in {"none", "live", "zero"}
             /\ list'[n] = "none" => ref'[n] = 0 /\ fields'[n] = NoFields
             /\ list'[n] = "live" => ref'[n] > 0 /\ l[n] = "live"
             /\ list'[n] = "zero" => ref'[n] = 0 /\ n \in Objects
  <2>0. /\ ref'[n] = X[n] + In(fields', n) /\ ref'[n] >= 0 /\ ref'[n] \in Int
        /\ In(fields', n) \in Nat /\ In(fields', n) <= In(fl, n) /\ X[n] \in Nat /\ In(fl, n) \in Nat
    BY <1>1, <1>3
  <2>1. X[n] + In(fl, n) = 0 => ref'[n] = 0
    BY <2>0
  <2>2. CASE n = Ctx
    <3>1. list'[n] = IF CtxDies(r1) THEN "none" ELSE l[n]
      BY <1>0, <2>2, HeapParts
    <3>2. CASE CtxDies(r1)
      BY <1>1, <2>2, <3>1, <3>2
    <3>3. CASE ~CtxDies(r1)
      BY <1>1, <2>1, <2>2, <3>1, <3>3
    <3> QED
      BY <3>2, <3>3
  <2>3. CASE n # Ctx
    <3>1. n \in Objects /\ fields'[n] = fl[n]
      BY <1>1, <2>3, HeapParts
    <3>2. CASE l[n] = "live" /\ ref'[n] <= 0
      BY <1>0, <2>0, <3>1, <3>2
    <3>3. CASE l[n] = "live" /\ ~(ref'[n] <= 0)
      <4>1. list'[n] = "live"
        BY <1>0, <2>3, <3>3
      <4> QED
        BY <2>0, <3>3, <4>1
    <3>4. CASE l[n] # "live"
      BY <1>0, <2>1, <2>3, <3>1, <3>4
    <3> QED
      BY <3>2, <3>3, <3>4
  <2> QED
    BY <2>2, <2>3
<1>5. \A s \in Slots : fields'[Ctx][s] \in {Null, Global}
  BY <1>1, HeapParts
<1> QED
  BY <1>1, <1>2, <1>4, <1>5

-----------------------------------------------------------------------------
(***************************************************************************)
(* Steps that end outside the collector.                                   *)
(***************************************************************************)

OwnTypesOK(h, st, lk) == h \in [Objects -> Nat] /\ st \in Seq(Frames) /\ lk \in [Objects -> Nat]

\* The references from outside the heap after a step.
After(n) == ExtOf(handles', exc', runtime', stack', leaked', n)

LEMMA ExtNext ==
    ASSUME OwnTypesOK(handles', stack', leaked'), NEW n \in Nodes
    PROVE  /\ Ext(n)' = After(n)
           /\ After(n) \in Nat
           /\ After(n) > 0 <=> Holders(n)' # {} \/ Lost(n)' > 0
<1>0. handles' \in [Objects -> Nat] /\ leaked' \in [Objects -> Nat] /\ stack' \in Seq(Frames)
  BY DEF OwnTypesOK
<1>1. Holders(n)' = HoldersOf(handles', exc', runtime', stack', n)
  BY DEF Holders, HoldersOf
<1>2. /\ IsFiniteSet(HoldersOf(handles', exc', runtime', stack', n))
      /\ Cardinality(HoldersOf(handles', exc', runtime', stack', n)) =
           HandlesOf(handles', n) + Ind(exc', n) + ContextOf(runtime', n)
             + Funcs(stack', n) + Args(stack', n)
  BY <1>0, HoldersCount
<1>3. Lost(n)' = HandlesOf(leaked', n)
  BY DEF Lost, HandlesOf
<1>4. Ext(n)' = Cardinality(Holders(n)') + Lost(n)'
  BY DEF Ext
<1>5. Ext(n)' = After(n)
  BY <1>1, <1>2, <1>3, <1>4 DEF After, ExtOf
<1>6. After(n) \in Nat /\ HandlesOf(leaked', n) \in Nat
  BY <1>0, ExtNat DEF After
<1>7. /\ Cardinality(Holders(n)') \in Nat
      /\ Cardinality(Holders(n)') = 0 <=> Holders(n)' = {}
  BY <1>1, <1>2, FS_CardinalityType, FS_EmptySet
<1>8. After(n) > 0 <=> Holders(n)' # {} \/ Lost(n)' > 0
  BY <1>3, <1>4, <1>5, <1>6, <1>7
<1> QED
  BY <1>5, <1>6, <1>8

LEMMA TotalNext ==
    ASSUME OwnTypesOK(handles', stack', leaked'), NEW n \in Nodes
    PROVE  /\ Total(n)' = After(n) + In(fields', n)
           /\ After(n) \in Nat /\ In(fields', n) \in Nat
<1>1. Ext(n)' = After(n) /\ After(n) \in Nat
  BY ExtNext
<1>2. Cardinality(InFields(n))' = In(fields', n)
  BY DEF InFields, In
<1>3. In(fields', n) \in Nat
  BY InFinite
<1> QED
  BY <1>1, <1>2, <1>3 DEF Total

LEMMA TotalIs ==
    ASSUME TypeOK, NEW n \in Nodes
    PROVE  /\ Total(n) = Ext(n) + In(fields, n)
           /\ Ext(n) \in Nat /\ In(fields, n) \in Nat /\ Total(n) \in Nat
           /\ Cardinality(InFields(n)) = In(fields, n)
<1>1. Cardinality(InFields(n)) = In(fields, n)
  BY DEF InFields, In
<1>2. In(fields, n) \in Nat /\ Ext(n) \in Nat
  BY InFinite, ExtIs
<1> QED
  BY <1>1, <1>2 DEF Total

LEMMA Rebuild ==
    ASSUME OwnTypesOK(handles', stack', leaked'),
           phase' \in {"run", "zero"}, todo' = {},
           \A n \in Nodes :
              /\ ref'[n] = After(n) + In(fields', n)
              /\ list'[n] \in {"none", "live", "zero"}
              /\ list'[n] = "none" => ref'[n] = 0 /\ fields'[n] = NoFields
              /\ list'[n] = "live" => ref'[n] > 0
              /\ list'[n] = "zero" => ref'[n] = 0 /\ n \in Objects /\ phase' = "zero",
           \A s \in Slots : fields'[Ctx][s] \in {Null, Global}
    PROVE  HeapInv'
<1>1. \A n \in Nodes : Total(n)' = ref'[n]
  BY TotalNext
<1>2. CountOK'
  BY <1>1 DEF CountOK
<1>3. ListOK'
  BY <1>1, HeapParts DEF ListOK
<1>4. CtxOK' /\ RunOK' /\ ScanOK' /\ CyclesOK' /\ TodoOK'
  BY DEF CtxOK, RunOK, ScanOK, CyclesOK, TodoOK
<1>5. ZeroOK'
  BY <1>1 DEF ZeroOK
<1> QED
  BY <1>2, <1>3, <1>4, <1>5 DEF HeapInv

\* How many of vals are n.
Given(vals, n) == Cardinality({i \in DOMAIN vals : vals[i] = n})

\* Lists, counts and fields that a caller of FreeValues has brought up to date:
\* nothing refers to what is not allocated, and it refers to nothing.
RunList(l) ==
    /\ l \in [Nodes -> Lists] /\ l[Ctx] = list[Ctx]
    /\ \A n \in Nodes : l[n] \in {"none", "live"}
Sound(r, l) == r \in [Nodes -> Int] /\ \A n \in Nodes : l[n] = "none" => r[n] = 0
KeysIn(fl) == \A o \in Objects, k \in Keys : fl[o][k] \in Values
Shaped(fl, l) ==
    /\ fl \in FieldMaps /\ fl[Ctx] = fields[Ctx] /\ KeysIn(fl)
    /\ \A n \in Nodes : l[n] = "none" => fl[n] = NoFields

\* They count what refers to each node once vals are given up.
Balanced(r, fl, vals) ==
    \A n \in Nodes : r[n] - Given(vals, n) = After(n) + In(fl, n)

\* JS_FreeValue of vals.
LEMMA FreeingInv ==
    ASSUME OwnTypesOK(handles', stack', leaked'), TodoOK, phase = "run",
           NEW r, NEW fl, NEW l, NEW vals, FreeValues(r, fl, l, vals),
           \A n \in Nodes : Given(vals, n) \in Nat,
           RunList(l), Sound(r, l), Shaped(fl, l), Balanced(r, fl, vals), CtxOK
    PROVE  /\ HeapInv'
           /\ ref' \in [Nodes -> Int] /\ fields' \in FieldMaps /\ list' \in [Nodes -> Lists]
           /\ phase' \in {"run", "zero"} /\ todo' = {}
           /\ KeysIn(fields')
<1> DEFINE X == [n \in Nodes |-> After(n)]
           r1 == Less(r, vals)
<1>1. X \in [Nodes -> Nat]
  BY ExtNext
<1>2. Exact(r1, X, fl)
  BY DEF Exact, Less, Balanced, Given
<1>3. ref' = Settle(r1) /\ fields' = SettledFields(fl, r1)
  BY DEF FreeValues, SettledFields
<1>4. list' = SettledList(l, r1)
  <2> DEFINE zero == {o \in Objects : l[o] = "live" /\ Settle(r1)[o] <= 0}
  <2>1. list' = [n \in Nodes |-> CASE n \in zero -> "zero"
                                   [] n = Ctx /\ CtxDies(r1) -> "none"
                                   [] OTHER -> l[n]]
    BY DEF FreeValues
  <2>2. \A n \in Nodes : n \in zero => n # Ctx
    BY HeapParts
  <2>3. \A n \in Nodes : (CASE n \in zero -> "zero"
                            [] n = Ctx /\ CtxDies(r1) -> "none"
                            [] OTHER -> l[n])
                         = IF n \in zero THEN "zero"
                           ELSE IF n = Ctx /\ CtxDies(r1) THEN "none" ELSE l[n]
    BY <2>2
  <2> HIDE DEF zero
  <2>4. list' = [n \in Nodes |-> IF n \in zero THEN "zero"
                                 ELSE IF n = Ctx /\ CtxDies(r1) THEN "none" ELSE l[n]]
    BY <2>1, <2>3
  <2> QED
    BY <2>4 DEF zero, SettledList
<1>5. /\ todo' = {}
      /\ phase' = IF {o \in Objects : l[o] = "live" /\ ref'[o] <= 0} = {} THEN "run" ELSE "zero"
  BY <1>3 DEF FreeValues, TodoOK
<1>6. \A n \in Nodes : X[n] = After(n)
  OBVIOUS
<1> HIDE DEF X, r1
<1>7. ASSUME NEW n \in Nodes
      PROVE  /\ l[n] \in {"none", "live", "zero"}
             /\ l[n] = "none" => X[n] + In(fl, n) = 0 /\ fl[n] = NoFields
             /\ l[n] = "zero" => X[n] + In(fl, n) = 0 /\ n \in Objects
  <2>1. l[n] \in {"none", "live"} /\ (l[n] = "none" => fl[n] = NoFields)
    BY DEF RunList, Shaped
  <2>2. CASE l[n] = "none"
    <3>1. r[n] = 0 /\ r[n] - Given(vals, n) = X[n] + In(fl, n)
      BY <1>6, <2>2 DEF Sound, Balanced
    <3>2. X[n] \in Nat /\ In(fl, n) \in Nat /\ Given(vals, n) \in Nat
      BY <1>1, InFinite
    <3>3. X[n] + In(fl, n) = 0
      BY <3>1, <3>2
    <3> QED
      BY <2>1, <2>2, <3>3
  <2> QED
    BY <2>1, <2>2
<1>8. /\ \A s \in Slots : fl[Ctx][s] \in {Null, Global}
      /\ fl \in FieldMaps /\ fl[Ctx] = fields[Ctx]
      /\ l \in [Nodes -> Lists] /\ l[Ctx] = list[Ctx]
  BY DEF CtxOK, Shaped, RunList
<1>9. /\ ref' \in [Nodes -> Int] /\ fields' \in FieldMaps /\ list' \in [Nodes -> Lists]
      /\ \A n \in Nodes :
           /\ ref'[n] = X[n] + In(fields', n)
           /\ list'[n] \in {"none", "live", "zero"}
           /\ list'[n] = "none" => ref'[n] = 0 /\ fields'[n] = NoFields
           /\ list'[n] = "live" => ref'[n] > 0 /\ l[n] = "live"
           /\ list'[n] = "zero" => ref'[n] = 0 /\ n \in Objects
      /\ \A s \in Slots : fields'[Ctx][s] \in {Null, Global}
  BY <1>1, <1>2, <1>3, <1>4, <1>7, <1>8, Listing
<1>10. \A n \in Nodes : list'[n] = "zero" => phase' = "zero"
  <2> SUFFICES ASSUME NEW n \in Nodes, list'[n] = "zero"
               PROVE  phase' = "zero"
    OBVIOUS
  <2>1. n \in Objects /\ l[n] # "zero" /\ n # Ctx /\ ref'[n] = Settle(r1)[n]
    BY <1>3, <1>9, HeapParts DEF RunList
  <2>2. l[n] = "live" /\ ref'[n] <= 0
    BY <1>4, <2>1 DEF SettledList
  <2> QED
    BY <1>5, <2>1, <2>2
<1>11. HeapInv'
  BY <1>5, <1>6, <1>9, <1>10, Rebuild
<1>12. KeysIn(fields')
  <2>1. \A o \in Objects : fields'[o] \in {fl[o], NoFields}
    BY <1>3, <1>8, HeapParts DEF SettledFields, FieldMaps
  <2> QED
    BY <2>1, HeapParts DEF KeysIn, Shaped, Values
<1> QED
  BY <1>5, <1>9, <1>11, <1>12

LEMMA Given1 ==
    ASSUME NEW a, NEW n
    PROVE  Given(<<a>>, n) = Ind(a, n) /\ Ind(a, n) \in Nat
<1> DEFINE S == {i \in DOMAIN <<a>> : <<a>>[i] = n}
<1>1. CASE a = n
  <2>1. S = {1}
    BY <1>1
  <2> QED
    BY <1>1, <2>1, FS_Singleton DEF Given, Ind
<1>2. CASE a # n
  <2>1. S = {}
    BY <1>2
  <2> QED
    BY <1>2, <2>1, FS_EmptySet DEF Given, Ind
<1> QED
  BY <1>1, <1>2

LEMMA Given2 ==
    ASSUME NEW a, NEW b, NEW n
    PROVE  /\ Given(<<a, b>>, n) = Ind(a, n) + Ind(b, n)
           /\ IsFiniteSet({i \in DOMAIN <<a, b>> : <<a, b>>[i] = n})
<1> DEFINE A == {i \in {1} : a = n}
           B == {i \in {2} : b = n}
<1>1. {i \in DOMAIN <<a, b>> : <<a, b>>[i] = n} = A \cup B
  OBVIOUS
<1>2. IsFiniteSet(A) /\ Cardinality(A) = Ind(a, n)
  <2>1. CASE a = n
    <3>1. A = {1}
      BY <2>1
    <3> QED
      BY <2>1, <3>1, FS_Singleton DEF Ind
  <2>2. CASE a # n
    <3>1. A = {}
      BY <2>2
    <3> QED
      BY <2>2, <3>1, FS_EmptySet DEF Ind
  <2> QED
    BY <2>1, <2>2
<1>3. IsFiniteSet(B) /\ Cardinality(B) = Ind(b, n)
  <2>1. CASE b = n
    <3>1. B = {2}
      BY <2>1
    <3> QED
      BY <2>1, <3>1, FS_Singleton DEF Ind
  <2>2. CASE b # n
    <3>1. B = {}
      BY <2>2
    <3> QED
      BY <2>2, <3>1, FS_EmptySet DEF Ind
  <2> QED
    BY <2>1, <2>2
<1>4. A \cap B = {}
  OBVIOUS
<1>5. IsFiniteSet(A \cup B) /\ Cardinality(A \cup B) = Cardinality(A) + Cardinality(B)
  BY <1>2, <1>3, <1>4, Joined
<1> QED
  BY <1>1, <1>2, <1>3, <1>5 DEF Given

LEMMA Given3 ==
    ASSUME NEW a, NEW b, NEW c, NEW n
    PROVE  Given(<<a, b, c>>, n) = Ind(a, n) + Ind(b, n) + Ind(c, n)
<1> DEFINE A == {i \in DOMAIN <<a, b>> : <<a, b>>[i] = n}
           B == {i \in {3} : c = n}
<1>1. {i \in DOMAIN <<a, b, c>> : <<a, b, c>>[i] = n} = A \cup B
  OBVIOUS
<1>2. IsFiniteSet(A) /\ Cardinality(A) = Ind(a, n) + Ind(b, n)
  BY Given2 DEF Given
<1>3. IsFiniteSet(B) /\ Cardinality(B) = Ind(c, n)
  <2>1. CASE c = n
    <3>1. B = {3}
      BY <2>1
    <3> QED
      BY <2>1, <3>1, FS_Singleton DEF Ind
  <2>2. CASE c # n
    <3>1. B = {}
      BY <2>2
    <3> QED
      BY <2>2, <3>1, FS_EmptySet DEF Ind
  <2> QED
    BY <2>1, <2>2
<1>4. A \cap B = {}
  OBVIOUS
<1>5. IsFiniteSet(A \cup B) /\ Cardinality(A \cup B) = Cardinality(A) + Cardinality(B)
  BY <1>2, <1>3, <1>4, Joined
<1> QED
  BY <1>1, <1>2, <1>3, <1>5 DEF Given

\* What holds while no loop of the engine runs.
LEMMA RunFacts ==
    ASSUME Inv, phase = "run"
    PROVE  /\ OwnTypesOK(handles, stack, leaked) /\ todo = {} /\ CtxOK
           /\ RunList(list) /\ Sound(ref, list) /\ Shaped(fields, list)
           /\ \A n \in Nodes :
                /\ ref[n] = ExtOf(handles, exc, runtime, stack, leaked, n) + In(fields, n)
                /\ ExtOf(handles, exc, runtime, stack, leaked, n) \in Nat
                /\ In(fields, n) \in Nat
                /\ list[n] = "live" => ref[n] > 0
<1>1. OwnTypesOK(handles, stack, leaked) /\ todo = {} /\ CtxOK
  BY OwnTypes DEF OwnTypesOK, Inv, HeapInv, TodoOK
<1>2. /\ list \in [Nodes -> Lists] /\ ref \in [Nodes -> Int] /\ fields \in FieldMaps
      /\ KeysIn(fields)
  BY DEF Inv, TypeOK, HeapTypeOK, FieldMaps, KeysOK, KeysIn
<1>3. \A n \in Nodes : list[n] \in {"none", "live"}
  BY DEF Inv, HeapInv, RunOK
<1>4. ASSUME NEW n \in Nodes
      PROVE  /\ ref[n] = ExtOf(handles, exc, runtime, stack, leaked, n) + In(fields, n)
             /\ ExtOf(handles, exc, runtime, stack, leaked, n) \in Nat
             /\ In(fields, n) \in Nat
             /\ list[n] = "live" => ref[n] > 0
             /\ list[n] = "none" => ref[n] = 0 /\ fields[n] = NoFields
  <2>1. ref[n] = Total(n)
    BY DEF Inv, HeapInv, CountOK
  <2>2. /\ Total(n) = Ext(n) + In(fields, n) /\ Ext(n) \in Nat /\ In(fields, n) \in Nat
    BY TotalIs DEF Inv
  <2>3. Ext(n) = ExtOf(handles, exc, runtime, stack, leaked, n)
    BY ExtIs DEF Inv
  <2>4. /\ list[n] = "none" => Total(n) = 0 /\ fields[n] = NoFields
        /\ list[n] = "live" => Total(n) > 0
    BY DEF Inv, HeapInv, ListOK
  <2> QED
    BY <2>1, <2>2, <2>3, <2>4
<1> QED
  BY <1>1, <1>2, <1>3, <1>4 DEF RunList, Sound, Shaped

\* A value that may be stored or counted: no object, or one that is allocated.
Alive(l, v) == v = Null \/ (v \in Nodes /\ l[v] = "live")

\* Nothing outside the heap and no field refers to what is not allocated.
LEMMA Unheld ==
    ASSUME Inv, phase = "run", NEW n \in Nodes, list[n] # "live"
    PROVE  /\ list[n] = "none" /\ ref[n] = 0 /\ fields[n] = NoFields
           /\ \A m \in Nodes, s \in Slots : fields[m][s] # n
           /\ n # Ctx => handles[n] = 0 /\ leaked[n] = 0
           /\ n # exc
           /\ \A i \in DOMAIN stack : stack[i].func # n /\ stack[i].arg # n
           /\ runtime = "open" => n \notin {Global, Ctx}
<1>1. list[n] = "none" /\ ref[n] = 0 /\ fields[n] = NoFields
  BY RunFacts DEF RunList, Sound, Shaped
<1>2. Total(n) = 0
  BY <1>1 DEF Inv, HeapInv, ListOK
<1>3. Ext(n) = 0 /\ Cardinality(InFields(n)) = 0
  BY <1>2, TotalIs DEF Inv
<1>4. Holders(n) = {} /\ ~(Lost(n) > 0)
  BY <1>3, ExtIs DEF Inv
<1>5. \A m \in Nodes, s \in Slots : fields[m][s] # n
  <2>1. Nodes \in SUBSET Nodes
    OBVIOUS
  <2>2. Cardinality(InFields(n)) > 0 <=> \E m \in Nodes, s \in Slots : fields[m][s] = n
    BY <2>1, Referred
  <2> QED
    BY <1>3, <2>2
<1>6. ASSUME n # Ctx
      PROVE  handles[n] = 0 /\ leaked[n] = 0
  <2>1. n \in Objects /\ handles[n] \in Nat /\ leaked[n] \in Nat
    BY <1>6, OwnTypes, HeapParts DEF Inv
  <2>2. ASSUME handles[n] > 0
        PROVE  FALSE
    <3>1. 1 \in 1 .. handles[n]
      BY <2>1, <2>2
    <3>2. <<"handle", 1>> \in Holders(n)
      BY <1>6, <3>1 DEF Holders
    <3> QED
      BY <1>4, <3>2
  <2>3. Lost(n) = leaked[n]
    BY <1>6 DEF Lost
  <2> QED
    BY <1>4, <2>1, <2>2, <2>3
<1>7. n # exc
  <2> SUFFICES ASSUME n = exc
               PROVE  FALSE
    OBVIOUS
  <2>1. <<"exception", 0>> \in Holders(n)
    BY DEF Holders
  <2> QED
    BY <1>4, <2>1
<1>8. ASSUME NEW i \in DOMAIN stack
      PROVE  stack[i].func # n /\ stack[i].arg # n
  <2>1. ASSUME stack[i].func = n
        PROVE  FALSE
    <3>1. <<"func", i>> \in Holders(n)
      BY <2>1 DEF Holders
    <3> QED
      BY <1>4, <3>1
  <2>2. ASSUME stack[i].arg = n
        PROVE  FALSE
    <3>1. <<"arg", i>> \in Holders(n)
      BY <2>2 DEF Holders
    <3> QED
      BY <1>4, <3>1
  <2> QED
    BY <2>1, <2>2
<1>9. runtime = "open" => n \notin {Global, Ctx}
  <2> SUFFICES ASSUME runtime = "open", n \in {Global, Ctx}
               PROVE  FALSE
    OBVIOUS
  <2>1. <<"context", 0>> \in Holders(n)
    BY DEF Holders
  <2> QED
    BY <1>4, <2>1
<1> QED
  BY <1>1, <1>5, <1>6, <1>7, <1>8, <1>9

\* What something refers to is allocated.
LEMMA HeldLive ==
    ASSUME Inv, phase = "run"
    PROVE  /\ \A m \in Nodes, s \in Slots : Alive(list, fields[m][s])
           /\ \A o \in Objects : handles[o] > 0 => Alive(list, o)
           /\ Alive(list, exc)
           /\ stack # << >> => Alive(list, Top.func) /\ Alive(list, Top.arg)
           /\ runtime = "open" => /\ Alive(list, Ctx) /\ Alive(list, Global)
                                  /\ \A v \in Values : Has(v) => Alive(list, v)
                                  /\ stack # << >> => \A v \in Near : Alive(list, v)
<1> USE DEF Alive
<1>1. \A m \in Nodes, s \in Slots : Alive(list, fields[m][s])
  <2>1. \A m \in Nodes, s \in Slots : fields[m][s] \in Nodes \cup {Null}
    BY DEF Inv, TypeOK, HeapTypeOK
  <2> QED
    BY <2>1, Unheld
<1>2. \A o \in Objects : handles[o] > 0 => Alive(list, o)
  BY Unheld, HeapParts
<1>3. Alive(list, exc)
  <2>1. exc \in Nodes \cup {Null}
    BY HeapParts DEF Inv, TypeOK, Values
  <2> QED
    BY <2>1, Unheld
<1>4. stack # << >> => Alive(list, Top.func) /\ Alive(list, Top.arg)
  <2> SUFFICES ASSUME stack # << >>
               PROVE  Alive(list, Top.func) /\ Alive(list, Top.arg)
    OBVIOUS
  <2>1. Top \in Frames
    BY StackPop DEF Inv
  <2>2. Top.func \in Nodes \cup {Null} /\ Top.arg \in Nodes \cup {Null}
    BY <2>1, HeapParts DEF Frames, Values
  <2>3. Len(stack) \in DOMAIN stack
    BY DEF Inv, TypeOK
  <2>4. \A n \in Nodes : list[n] # "live" => Top.func # n /\ Top.arg # n
    BY <2>3, Unheld DEF Top
  <2> QED
    BY <2>2, <2>4
<1>5. ASSUME runtime = "open"
      PROVE  Alive(list, Ctx) /\ Alive(list, Global)
  BY <1>5, Unheld, HeapParts
<1>6. ASSUME runtime = "open"
      PROVE  \A v \in Values : Has(v) => Alive(list, v)
  <2> SUFFICES ASSUME NEW v \in Values, Has(v)
               PROVE  Alive(list, v)
    OBVIOUS
  <2> QED
    BY <1>2, <1>5, <1>6 DEF Has, Values
<1>7. ASSUME runtime = "open", stack # << >>
      PROVE  \A v \in Near : Alive(list, v)
  <2>1. \A v \in Named : Alive(list, v) /\ v # Null
    BY <1>4, <1>5, <1>7 DEF Named
  <2>2. \A v \in Named : v \in Nodes
    BY <2>1
  <2>3. \A o \in Named, k \in Keys : Alive(list, fields[o][k])
    BY <1>1, <2>2, HeapParts
  <2> QED
    BY <2>1, <2>3 DEF Near
<1> QED
  BY <1>1, <1>2, <1>3, <1>4, <1>5, <1>6, <1>7

\* JS_DupValue of something allocated.
LEMMA DupIs ==
    ASSUME NEW r, NEW l, Sound(r, l), NEW v, Alive(l, v)
    PROVE  /\ Sound(Dup(r, v), l)
           /\ \A n \in Nodes : Dup(r, v)[n] = r[n] + Ind(v, n)
<1>1. r \in [Nodes -> Int]
  BY DEF Sound
<1>2. CASE v = Null
  <2>1. Dup(r, v) = r
    BY <1>2 DEF Dup
  <2>2. \A n \in Nodes : Ind(v, n) = 0
    BY <1>2, HeapParts DEF Ind
  <2>3. \A n \in Nodes : r[n] + 0 = r[n]
    BY <1>1
  <2> QED
    BY <2>1, <2>2, <2>3
<1>3. CASE v # Null
  <2>1. Dup(r, v) = [r EXCEPT ![v] = @ + 1] /\ v \in Nodes /\ l[v] = "live"
    BY <1>3 DEF Dup, Alive
  <2>2. ASSUME NEW n \in Nodes
        PROVE  Dup(r, v)[n] = r[n] + Ind(v, n)
    BY <1>1, <2>1 DEF Ind
  <2>3. Dup(r, v) \in [Nodes -> Int]
    BY <1>1, <2>1
  <2>4. ASSUME NEW n \in Nodes, l[n] = "none"
        PROVE  Dup(r, v)[n] = 0
    BY <1>1, <2>1, <2>4 DEF Sound
  <2> QED
    BY <2>2, <2>3, <2>4 DEF Sound
<1> QED
  BY <1>2, <1>3

\* A property gets another value.
Stored(fl, o, k, v) == [fl EXCEPT ![o][k] = v]

LEMMA StoreIs ==
    ASSUME NEW fl, NEW l, Shaped(fl, l), NEW o \in Objects, l[o] = "live", NEW k \in Keys,
           NEW v \in Values
    PROVE  /\ Shaped(Stored(fl, o, k, v), l)
           /\ \A n \in Nodes :
                In(Stored(fl, o, k, v), n) = In(fl, n) - Ind(fl[o][k], n) + Ind(v, n)
<1> DEFINE g == [fl EXCEPT ![o][k] = v]
<1>1. fl \in FieldMaps /\ o \in Nodes /\ k \in Slots /\ o # Ctx
  BY HeapParts DEF Shaped
<1>2. v \in Nodes \cup {Null}
  BY HeapParts DEF Values
<1>3. g \in FieldMaps
  BY <1>1, <1>2 DEF FieldMaps
<1>4. /\ g[Ctx] = fl[Ctx]
      /\ \A n \in Nodes : n # o => g[n] = fl[n]
      /\ \A s \in Slots : g[o][s] = IF s = k THEN v ELSE fl[o][s]
  BY <1>1, HeapParts DEF FieldMaps
<1> HIDE DEF g
<1>5. KeysIn(g)
  BY <1>4, HeapParts DEF KeysIn, Shaped
<1>6. Shaped(g, l)
  BY <1>3, <1>4, <1>5 DEF Shaped
<1>7. \A n \in Nodes : In(g, n) = In(fl, n) - Ind(fl[o][k], n) + Ind(v, n)
  BY <1>1, InSet DEF g
<1> QED
  BY <1>6, <1>7 DEF g, Stored

\* A function gets its realm.
LEMMA InRealm ==
    ASSUME NEW fl \in FieldMaps, NEW o \in Nodes, NEW v, NEW n
    PROVE  In([fl EXCEPT ![o]["internal"] = v], n)
             = In(fl, n) - Ind(fl[o]["internal"], n) + Ind(v, n)
<1> DEFINE k == "internal"
<1>1. k \in Slots
  BY HeapParts
<1> HIDE DEF k
<1> DEFINE g == [fl EXCEPT ![o][k] = v]
<1>2. In(g, n) = In(fl, n) - Ind(fl[o][k], n) + Ind(v, n)
  BY <1>1, InSet
<1> QED
  BY <1>2 DEF k

\* JS_NewObjectFromShape.
LEMMA AllocIs ==
    ASSUME Inv, phase = "run", NEW o \in Objects, list[o] = "none",
           NEW realm \in {Null, Ctx}, Alive(list, realm)
    PROVE  /\ RunList(AllocatedList(o)) /\ AllocatedList(o)[o] = "live"
           /\ \A v : Alive(list, v) => Alive(AllocatedList(o), v) /\ v # o
           /\ \A n \in Nodes : n # o => AllocatedList(o)[n] = list[n]
           /\ Sound(AllocatedRef(o, realm), AllocatedList(o))
           /\ Shaped(AllocatedFields(o, realm), AllocatedList(o))
           /\ \A n \in Nodes :
                /\ AllocatedRef(o, realm)[n] = ref[n] + Ind(o, n) + Ind(realm, n)
                /\ In(AllocatedFields(o, realm), n) = In(fields, n) + Ind(realm, n)
                /\ n # o => AllocatedFields(o, realm)[n] = fields[n]
           /\ \A k \in Keys : AllocatedFields(o, realm)[o][k] = Null
           /\ handles[o] = 0 /\ fields[o] = NoFields
<1>1. /\ o \in Nodes /\ o # Ctx /\ o # Null
      /\ RunList(list) /\ Sound(ref, list) /\ Shaped(fields, list)
      /\ \A n \in Nodes : In(fields, n) \in Nat
  BY RunFacts, HeapParts
<1>2. list[o] = "none" /\ ref[o] = 0 /\ fields[o] = NoFields /\ handles[o] = 0
  BY <1>1, Unheld
<1> DEFINE l == AllocatedList(o)
<1>3. RunList(l) /\ l[o] = "live" /\ \A n \in Nodes : n # o => l[n] = list[n]
  BY <1>1 DEF RunList, AllocatedList, Lists
<1>4. \A v : Alive(list, v) => Alive(l, v) /\ v # o
  BY <1>1, <1>2, <1>3 DEF Alive
<1> HIDE DEF l
<1> DEFINE r0 == [ref EXCEPT ![o] = 1]
<1>5. Sound(r0, l) /\ AllocatedRef(o, realm) = Dup(r0, realm)
  BY <1>1, <1>3 DEF Sound, AllocatedRef
<1>6. \A n \in Nodes : r0[n] = ref[n] + Ind(o, n)
  BY <1>1, <1>2 DEF Sound, Ind
<1> HIDE DEF r0
<1>7. /\ Sound(AllocatedRef(o, realm), l)
      /\ \A n \in Nodes : AllocatedRef(o, realm)[n] = r0[n] + Ind(realm, n)
  <2>1. Alive(l, realm)
    BY <1>4
  <2> QED
    BY <1>5, <2>1, DupIs
<1>8. \A n \in Nodes : AllocatedRef(o, realm)[n] = ref[n] + Ind(o, n) + Ind(realm, n)
  BY <1>6, <1>7
<1> DEFINE g == AllocatedFields(o, realm)
<1>9. g = [fields EXCEPT ![o]["internal"] = realm]
  BY DEF AllocatedFields
<1>10. /\ fields \in FieldMaps /\ "internal" \in Slots /\ realm \in Nodes \cup {Null}
       /\ "internal" \notin Keys
  BY <1>1, HeapParts, HeapAssumption DEF Shaped
<1> HIDE DEF g
<1>11. /\ g \in FieldMaps
       /\ \A n \in Nodes : n # o => g[n] = fields[n]
       /\ \A k \in Keys : g[o][k] = Null
  BY <1>1, <1>2, <1>9, <1>10, HeapParts DEF FieldMaps
<1>12. KeysIn(g)
  BY <1>1, <1>11, HeapParts DEF KeysIn, Shaped, Values
<1>13. Shaped(g, l)
  BY <1>1, <1>3, <1>11, <1>12, HeapParts DEF Shaped
<1>14. ASSUME NEW n \in Nodes
       PROVE  In(g, n) = In(fields, n) + Ind(realm, n)
  <2>1. In(g, n) = In(fields, n) - Ind(fields[o]["internal"], n) + Ind(realm, n)
    <3>1. In([fields EXCEPT ![o]["internal"] = realm], n)
            = In(fields, n) - Ind(fields[o]["internal"], n) + Ind(realm, n)
      BY <1>1, <1>10, InRealm
    <3> QED
      BY <1>9, <3>1
  <2>2. Ind(fields[o]["internal"], n) = 0
    BY <1>2, <1>10, HeapParts DEF Ind
  <2>3. In(fields, n) \in Nat
    BY <1>1
  <2> QED
    BY <2>1, <2>2, <2>3
<1> QED
  BY <1>2, <1>3, <1>4, <1>7, <1>8, <1>11, <1>13, <1>14 DEF l, g

-----------------------------------------------------------------------------
(***************************************************************************)
(* The steps of Java and of scripts.                                       *)
(***************************************************************************)

OwnOK ==
    /\ handles \in [Objects -> 0 .. MaxHandles]
    /\ exc \in Values
    /\ stack \in Seq(Frames)
    /\ runtime \in {"open", "closed", "collect", "assert", "freed"}
    /\ leaked \in [Objects -> 0 .. MaxHandles + 1]

ClassOK == class \in [Objects -> {"object", "function", "error"}]

LEMMA OwnOKTypes ==
    ASSUME OwnOK'
    PROVE  OwnTypesOK(handles', stack', leaked')
<1>1. \A i \in 0 .. MaxHandles : i \in Nat
  BY ValueOwnershipAssumption
<1>2. \A i \in 0 .. MaxHandles + 1 : i \in Nat
  BY ValueOwnershipAssumption
<1> QED
  BY <1>1, <1>2 DEF OwnTypesOK, OwnOK

\* A step that gives up references.
LEMMA FreeingStep ==
    ASSUME Inv, phase = "run", OwnOK', ClassOK', RuntimeOK',
           NEW r, NEW fl, NEW l, NEW vals, FreeValues(r, fl, l, vals),
           \A n \in Nodes : Given(vals, n) \in Nat,
           RunList(l), Sound(r, l), Shaped(fl, l), Balanced(r, fl, vals)
    PROVE  Inv'
<1>1. OwnTypesOK(handles', stack', leaked')
  BY OwnOKTypes
<1>2. TodoOK /\ CtxOK
  BY DEF Inv, HeapInv
<1>3. /\ HeapInv'
      /\ ref' \in [Nodes -> Int] /\ fields' \in FieldMaps /\ list' \in [Nodes -> Lists]
      /\ phase' \in {"run", "zero"} /\ todo' = {}
      /\ KeysIn(fields')
  BY <1>1, <1>2, FreeingInv
<1>4. TypeOK'
  BY <1>3 DEF TypeOK, HeapTypeOK, OwnOK, ClassOK, FieldMaps, Phases
<1>5. KeysOK'
  BY <1>3 DEF KeysOK, KeysIn, Values
<1> QED
  BY <1>3, <1>4, <1>5 DEF Inv

\* A step that gives up none.
LEMMA KeepingStep ==
    ASSUME Inv, phase = "run", OwnOK', ClassOK', RuntimeOK',
           phase' = phase, todo' = todo,
           RunList(list'), Sound(ref', list'), Shaped(fields', list'),
           \A n \in Nodes : ref'[n] = After(n) + In(fields', n),
           \A n \in Nodes : list'[n] = "live" => ref'[n] > 0
    PROVE  Inv'
<1>1. OwnTypesOK(handles', stack', leaked')
  BY OwnOKTypes
<1>2. todo' = {} /\ phase' = "run" /\ \A s \in Slots : fields'[Ctx][s] \in {Null, Global}
  BY DEF Inv, HeapInv, TodoOK, CtxOK, Shaped
<1>3. ASSUME NEW n \in Nodes
      PROVE  /\ list'[n] \in {"none", "live", "zero"}
             /\ list'[n] = "none" => ref'[n] = 0 /\ fields'[n] = NoFields
             /\ list'[n] = "live" => ref'[n] > 0
             /\ list'[n] # "zero"
  BY DEF RunList, Sound, Shaped
<1>4. HeapInv'
  BY <1>1, <1>2, <1>3, Rebuild
<1>5. TypeOK'
  BY <1>2 DEF TypeOK, HeapTypeOK, OwnOK, ClassOK, FieldMaps, Phases, RunList, Sound, Shaped
<1>6. KeysOK'
  BY DEF KeysOK, KeysIn, Values, Shaped
<1> QED
  BY <1>4, <1>5, <1>6 DEF Inv

\* The references that the count of a node adds up to.
LEMMA Parts ==
    ASSUME Inv, phase = "run", NEW n \in Nodes
    PROVE  /\ ref[n] = HandlesOf(handles, n) + Ind(exc, n) + ContextOf(runtime, n)
                         + Funcs(stack, n) + Args(stack, n) + HandlesOf(leaked, n) + In(fields, n)
           /\ HandlesOf(handles, n) \in Nat /\ Ind(exc, n) \in Nat /\ ContextOf(runtime, n) \in Nat
           /\ Funcs(stack, n) \in Nat /\ Args(stack, n) \in Nat /\ HandlesOf(leaked, n) \in Nat
           /\ In(fields, n) \in Nat
           /\ list[n] = "live" => ref[n] > 0
<1>1. handles \in [Objects -> Nat] /\ leaked \in [Objects -> Nat] /\ stack \in Seq(Frames)
  BY OwnTypes DEF Inv
<1>2. ref[n] = ExtOf(handles, exc, runtime, stack, leaked, n) + In(fields, n)
  BY RunFacts
<1>3. list[n] = "live" => ref[n] > 0
  BY RunFacts
<1> QED
  BY <1>1, <1>2, <1>3, ExtNat, InFinite DEF ExtOf

PartsOf(n) ==
    /\ ref[n] = HandlesOf(handles, n) + Ind(exc, n) + ContextOf(runtime, n)
                  + Funcs(stack, n) + Args(stack, n) + HandlesOf(leaked, n) + In(fields, n)
    /\ HandlesOf(handles, n) \in Nat /\ Ind(exc, n) \in Nat /\ ContextOf(runtime, n) \in Nat
    /\ Funcs(stack, n) \in Nat /\ Args(stack, n) \in Nat /\ HandlesOf(leaked, n) \in Nat
    /\ In(fields, n) \in Nat

LEMMA PartsHold ==
    ASSUME Inv, phase = "run", NEW n \in Nodes
    PROVE  PartsOf(n)
BY Parts DEF PartsOf

LEMMA IndNat ==
    \A a, n : Ind(a, n) \in {0, 1} /\ Ind(a, n) \in Nat
BY DEF Ind

\* One handle more or less.
LEMMA HandleCounts ==
    ASSUME NEW h \in [Objects -> Nat], NEW o \in Objects, NEW n \in Nodes
    PROVE  /\ HandlesOf([h EXCEPT ![o] = @ + 1], n) = HandlesOf(h, n) + Ind(o, n)
           /\ HandlesOf([h EXCEPT ![o] = @ - 1], n) = HandlesOf(h, n) - Ind(o, n)
           /\ h[o] = 0 => HandlesOf([h EXCEPT ![o] = 1], n) = HandlesOf(h, n) + Ind(o, n)
<1>1. CASE n = Ctx
  <2>1. Ind(o, n) = 0
    BY <1>1, HeapParts DEF Ind
  <2>2. \A g : HandlesOf(g, n) = 0
    BY <1>1 DEF HandlesOf
  <2> QED
    BY <2>1, <2>2
<1>2. CASE n # Ctx
  <2>1. n \in Objects
    BY <1>2, HeapParts
  <2> QED
    BY <1>2, <2>1 DEF HandlesOf, Ind
<1> QED
  BY <1>1, <1>2

LEMMA StayOpen ==
    ASSUME runtime' = "open", leaked' \in [Objects -> 0 .. 1]
    PROVE  RuntimeOK'
BY DEF RuntimeOK, EndOK

LEMMA OwnParts ==
    ASSUME Inv
    PROVE  /\ OwnOK /\ ClassOK /\ handles \in [Objects -> Nat] /\ leaked \in [Objects -> Nat]
           /\ runtime = "open" => leaked \in [Objects -> 0 .. 1]
<1>1. runtime = "open" => leaked \in [Objects -> 0 .. 1]
  BY DEF Inv, RuntimeOK
<1>2. OwnOK /\ ClassOK
  BY DEF Inv, TypeOK, HeapTypeOK, OwnOK, ClassOK
<1> QED
  BY <1>1, <1>2, OwnTypes DEF Inv

\* The bound on the references that are lost while the runtime is open.
LEMMA LeakedRange ==
    ASSUME NEW l \in [Objects -> 0 .. 1]
    PROVE  l \in [Objects -> 0 .. MaxHandles + 1]
<1>1. \A i \in 0 .. 1 : i \in 0 .. MaxHandles + 1
  BY ValueOwnershipAssumption
<1> QED
  BY <1>1

LEMMA ReleasePtrInv ==
    ASSUME Inv, NEW o \in Objects, ReleasePtr(o)
    PROVE  Inv'
<1>1. /\ phase = "run" /\ runtime = "open" /\ handles[o] > 0
      /\ handles' = [handles EXCEPT ![o] = @ - 1]
      /\ FreeValues(ref, fields, list, <<o>>)
      /\ class' = class /\ exc' = exc /\ stack' = stack /\ runtime' = runtime /\ leaked' = leaked
  BY DEF ReleasePtr, InJava
<1>2. OwnOK' /\ ClassOK' /\ RuntimeOK'
  <2>1. handles[o] - 1 \in 0 .. MaxHandles
    BY <1>1, OwnParts, ValueOwnershipAssumption DEF OwnOK
  <2>2. handles' \in [Objects -> 0 .. MaxHandles]
    BY <1>1, <2>1, OwnParts DEF OwnOK
  <2> QED
    BY <1>1, <2>2, OwnParts, StayOpen DEF OwnOK, ClassOK
<1>3. RunList(list) /\ Sound(ref, list) /\ Shaped(fields, list)
  BY <1>1, RunFacts
<1>4. \A n \in Nodes : Given(<<o>>, n) \in Nat
  BY Given1
<1>5. ASSUME NEW n \in Nodes
      PROVE  ref[n] - Given(<<o>>, n) = After(n) + In(fields, n)
  <2>1. HandlesOf(handles', n) = HandlesOf(handles, n) - Ind(o, n)
    BY <1>1, OwnParts, HandleCounts
  <2>2. After(n) = HandlesOf(handles, n) - Ind(o, n) + Ind(exc, n) + ContextOf(runtime, n)
                     + Funcs(stack, n) + Args(stack, n) + HandlesOf(leaked, n)
    BY <1>1, <2>1 DEF After, ExtOf
  <2> QED
    BY <1>1, <2>2, Parts, Given1, IndNat
<1> QED
  BY <1>1, <1>2, <1>3, <1>4, <1>5, FreeingStep DEF Balanced

LEMMA InitNewInv ==
    ASSUME Inv, NEW o \in Objects, InitNew(o)
    PROVE  Inv'
<1>1. /\ phase = "run" /\ runtime = "open" /\ list[o] = "none"
      /\ handles' = [handles EXCEPT ![o] = 1]
      /\ list' = AllocatedList(o)
      /\ phase' = phase /\ todo' = todo /\ exc' = exc /\ stack' = stack /\ runtime' = runtime
      /\ leaked' = leaked
  BY DEF InitNew, InJava, Allocate
<1>2. PICK c \in Classes[o] : class' = [class EXCEPT ![o] = c]
  BY DEF InitNew, Allocate
<1>3. PICK realm \in {Null, Ctx} : ref' = AllocatedRef(o, realm) /\ fields' = AllocatedFields(o, realm)
  BY DEF InitNew, Realms
<1>4. Alive(list, realm)
  BY <1>1, HeldLive DEF Alive
<1>5. c \in {"object", "function", "error"}
  BY HeapAssumption
<1>6. OwnOK' /\ ClassOK' /\ RuntimeOK'
  <2>1. 1 \in 0 .. MaxHandles
    BY ValueOwnershipAssumption
  <2>2. handles' \in [Objects -> 0 .. MaxHandles]
    BY <1>1, <2>1, OwnParts DEF OwnOK
  <2> QED
    BY <1>1, <1>2, <1>5, <2>2, OwnParts, StayOpen DEF OwnOK, ClassOK
<1>7. /\ RunList(list') /\ Sound(ref', list') /\ Shaped(fields', list')
      /\ \A n \in Nodes :
           /\ n # o => list'[n] = list[n]
           /\ ref'[n] = ref[n] + Ind(o, n) + Ind(realm, n)
           /\ In(fields', n) = In(fields, n) + Ind(realm, n)
      /\ handles[o] = 0
  BY <1>1, <1>3, <1>4, AllocIs
<1>8. ASSUME NEW n \in Nodes
      PROVE  ref'[n] = After(n) + In(fields', n) /\ (list'[n] = "live" => ref'[n] > 0)
  <2>1. HandlesOf(handles', n) = HandlesOf(handles, n) + Ind(o, n)
    BY <1>1, <1>7, OwnParts, HandleCounts
  <2>2. After(n) = HandlesOf(handles, n) + Ind(o, n) + Ind(exc, n) + ContextOf(runtime, n)
                     + Funcs(stack, n) + Args(stack, n) + HandlesOf(leaked, n)
    BY <1>1, <2>1 DEF After, ExtOf
  <2>3. ref'[n] = ref[n] + Ind(o, n) + Ind(realm, n) /\ In(fields', n) = In(fields, n) + Ind(realm, n)
    BY <1>7
  <2>4. ref'[n] = After(n) + In(fields', n)
    BY <1>1, <2>2, <2>3, Parts, IndNat
  <2>5. list'[n] = "live" => Ind(o, n) = 1 \/ ref[n] > 0
    BY <1>1, <1>7, Parts DEF Ind
  <2>6. ref[n] \in Nat
    BY <1>1, Parts
  <2> QED
    BY <2>3, <2>4, <2>5, <2>6, IndNat
<1> QED
  BY <1>1, <1>6, <1>7, <1>8, KeepingStep

LEMMA IndNull ==
    \A n \in Nodes : Ind(Null, n) = 0
BY HeapParts DEF Ind

\* To_JObject: the reference belongs to a handle, or to nobody.
LEMMA ToJObjectIs ==
    ASSUME Inv, runtime = "open", NEW v \in Values, ToJObject(v)
    PROVE  /\ handles' \in [Objects -> 0 .. MaxHandles] /\ leaked' \in [Objects -> 0 .. 1]
           /\ \A n \in Nodes :
                HandlesOf(handles', n) + HandlesOf(leaked', n)
                  = HandlesOf(handles, n) + HandlesOf(leaked, n) + Ind(v, n)
<1>1. /\ handles \in [Objects -> 0 .. MaxHandles] /\ leaked \in [Objects -> 0 .. 1]
      /\ handles \in [Objects -> Nat] /\ leaked \in [Objects -> Nat]
  BY OwnParts DEF OwnOK
<1>2. \A n \in Nodes : HandlesOf(handles, n) \in Nat /\ HandlesOf(leaked, n) \in Nat
  BY <1>1, HeapParts DEF HandlesOf
<1>3. CASE v = Null /\ UNCHANGED <<handles, leaked>>
  <2>1. \A n \in Nodes : Ind(v, n) = 0
    BY <1>3, IndNull
  <2>2. handles' = handles /\ leaked' = leaked
    BY <1>3
  <2>3. ASSUME NEW n \in Nodes
        PROVE  HandlesOf(handles, n) + HandlesOf(leaked, n)
                 = HandlesOf(handles, n) + HandlesOf(leaked, n) + Ind(v, n)
    BY <1>2, <2>1
  <2> QED
    BY <1>1, <2>2, <2>3
<1>4. CASE /\ v # Null /\ handles[v] < MaxHandles
           /\ handles' = [handles EXCEPT ![v] = @ + 1]
           /\ UNCHANGED leaked
  <2>1. v \in Objects /\ handles[v] + 1 \in 0 .. MaxHandles
    BY <1>1, <1>4, ValueOwnershipAssumption DEF Values
  <2>2. handles' \in [Objects -> 0 .. MaxHandles]
    BY <1>1, <1>4, <2>1
  <2>3. ASSUME NEW n \in Nodes
        PROVE  HandlesOf(handles', n) + HandlesOf(leaked', n)
                 = HandlesOf(handles, n) + HandlesOf(leaked, n) + Ind(v, n)
    <3>1. HandlesOf(handles', n) = HandlesOf(handles, n) + Ind(v, n) /\ leaked' = leaked
      BY <1>1, <1>4, <2>1, HandleCounts
    <3> QED
      BY <1>2, <3>1, IndNat
  <2> QED
    BY <1>1, <1>4, <2>2, <2>3
<1>5. CASE /\ v # Null /\ NoneLost
           /\ leaked' = [leaked EXCEPT ![v] = @ + 1]
           /\ UNCHANGED handles
  <2>1. v \in Objects /\ leaked[v] + 1 \in 0 .. 1
    BY <1>1, <1>5 DEF Values, NoneLost
  <2>2. leaked' \in [Objects -> 0 .. 1]
    BY <1>1, <1>5, <2>1
  <2>3. ASSUME NEW n \in Nodes
        PROVE  HandlesOf(handles', n) + HandlesOf(leaked', n)
                 = HandlesOf(handles, n) + HandlesOf(leaked, n) + Ind(v, n)
    <3>1. HandlesOf(leaked', n) = HandlesOf(leaked, n) + Ind(v, n) /\ handles' = handles
      BY <1>1, <1>5, <2>1, HandleCounts
    <3> QED
      BY <1>2, <3>1, IndNat
  <2> QED
    BY <1>1, <1>5, <2>2, <2>3
<1> QED
  BY <1>3, <1>4, <1>5 DEF ToJObject

\* A call is pushed on the stack.
LEMMA PushIs ==
    ASSUME Inv, NEW kd \in {"js", "java"}, NEW f \in Values, NEW a \in Values,
           stack' = Append(stack, [kind |-> kd, func |-> f, arg |-> a])
    PROVE  /\ stack' \in Seq(Frames)
           /\ \A n \in Nodes : /\ Funcs(stack', n) = Funcs(stack, n) + Ind(f, n)
                               /\ Args(stack', n) = Args(stack, n) + Ind(a, n)
<1> DEFINE fr == [kind |-> kd, func |-> f, arg |-> a]
<1>1. fr \in Frames /\ fr.func = f /\ fr.arg = a
  BY DEF Frames
<1>2. stack \in Seq(Frames)
  BY DEF Inv, TypeOK
<1> HIDE DEF fr
<1>3. stack' = Append(stack, fr)
  BY DEF fr
<1> QED
  BY <1>1, <1>2, <1>3, StackPush

LEMMA RegisterJavaMethodInv ==
    ASSUME Inv, NEW o \in Objects, NEW k \in Keys, NEW f \in Objects, RegisterJavaMethod(o, k, f)
    PROVE  Inv'
<1> DEFINE r0 == AllocatedRef(f, Null)
           f0 == AllocatedFields(f, Null)
           l == AllocatedList(f)
           old == fields[o][k]
           r == Dup(r0, f)
           fl == Stored(f0, o, k, f)
<1>1. /\ phase = "run" /\ runtime = "open" /\ Has(o) /\ list[f] = "none"
      /\ "function" \in Classes[f]
      /\ class' = [class EXCEPT ![f] = "function"]
      /\ FreeValues(r, fl, l, <<old>>)
      /\ handles' = [handles EXCEPT ![f] = 1]
      /\ exc' = exc /\ stack' = stack /\ runtime' = runtime /\ leaked' = leaked
  BY DEF RegisterJavaMethod, InJava, Allocate, Stored
<1>2. Alive(list, o) /\ Alive(list, Null) /\ o # Null /\ f # Null /\ f \in Nodes
  BY <1>1, HeldLive, HeapParts DEF Alive, Values
<1>3. /\ RunList(l) /\ l[f] = "live" /\ Alive(l, o) /\ o # f
      /\ Sound(r0, l) /\ Shaped(f0, l)
      /\ \A n \in Nodes : /\ r0[n] = ref[n] + Ind(f, n) + Ind(Null, n)
                          /\ In(f0, n) = In(fields, n) + Ind(Null, n)
      /\ f0[o] = fields[o] /\ handles[f] = 0
  BY <1>1, <1>2, AllocIs, HeapParts
<1> HIDE DEF r0, f0, l, old
<1>4. Sound(r, l) /\ \A n \in Nodes : r[n] = r0[n] + Ind(f, n)
  BY <1>2, <1>3, DupIs DEF Alive
<1>5. /\ Shaped(fl, l)
      /\ \A n \in Nodes : In(fl, n) = In(f0, n) - Ind(f0[o][k], n) + Ind(f, n)
  <2>1. l[o] = "live" /\ f \in Values
    BY <1>2, <1>3 DEF Alive, Values
  <2> QED
    BY <1>3, <2>1, StoreIs
<1> HIDE DEF r, fl
<1>6. OwnOK' /\ ClassOK' /\ RuntimeOK'
  <2>1. 1 \in 0 .. MaxHandles
    BY ValueOwnershipAssumption
  <2>2. handles' \in [Objects -> 0 .. MaxHandles]
    BY <1>1, <2>1, OwnParts DEF OwnOK
  <2> QED
    BY <1>1, <2>2, OwnParts, StayOpen DEF OwnOK, ClassOK
<1>7. ASSUME NEW n \in Nodes
      PROVE  r[n] - Given(<<old>>, n) = After(n) + In(fl, n)
  <2>1. HandlesOf(handles', n) = HandlesOf(handles, n) + Ind(f, n)
    BY <1>1, <1>3, OwnParts, HandleCounts
  <2>2. After(n) = HandlesOf(handles, n) + Ind(f, n) + Ind(exc, n) + ContextOf(runtime, n)
                     + Funcs(stack, n) + Args(stack, n) + HandlesOf(leaked, n)
    BY <1>1, <2>1 DEF After, ExtOf
  <2>3. In(fl, n) = In(fields, n) + Ind(Null, n) - Ind(old, n) + Ind(f, n)
    <3>1. Ind(f0[o][k], n) = Ind(old, n)
      BY <1>3 DEF old
    <3>2. In(fl, n) = In(f0, n) - Ind(f0[o][k], n) + Ind(f, n)
      BY <1>5
    <3>3. In(f0, n) = In(fields, n) + Ind(Null, n)
      BY <1>3
    <3>4. In(fields, n) \in Nat
      BY InFinite
    <3> QED
      BY <3>1, <3>2, <3>3, <3>4, IndNat
  <2>4. r[n] = ref[n] + Ind(f, n) + Ind(Null, n) + Ind(f, n)
    BY <1>3, <1>4
  <2> QED
    BY <1>1, <2>2, <2>3, <2>4, Parts, Given1, IndNat
<1> QED
  BY <1>1, <1>3, <1>4, <1>5, <1>6, <1>7, Given1, FreeingStep DEF Balanced

LEMMA GetInv ==
    ASSUME Inv, NEW o \in Objects, NEW k \in Keys, Get(o, k)
    PROVE  Inv'
<1> DEFINE v == fields[o][k]
<1>1. /\ phase = "run" /\ runtime = "open" /\ ref' = Dup(ref, v) /\ ToJObject(v)
      /\ class' = class /\ fields' = fields /\ list' = list /\ phase' = phase /\ todo' = todo
      /\ exc' = exc /\ stack' = stack /\ runtime' = runtime
  BY DEF Get, InJava
<1>2. v \in Values /\ Alive(list, v)
  BY <1>1, HeldLive, HeapParts DEF Inv, KeysOK
<1> HIDE DEF v
<1>3. /\ handles' \in [Objects -> 0 .. MaxHandles] /\ leaked' \in [Objects -> 0 .. 1]
      /\ \A n \in Nodes : HandlesOf(handles', n) + HandlesOf(leaked', n)
                            = HandlesOf(handles, n) + HandlesOf(leaked, n) + Ind(v, n)
  BY <1>1, <1>2, ToJObjectIs
<1>4. RunList(list) /\ Sound(ref, list) /\ Shaped(fields, list)
  BY <1>1, RunFacts
<1>5. Sound(ref', list) /\ \A n \in Nodes : ref'[n] = ref[n] + Ind(v, n)
  BY <1>1, <1>2, <1>4, DupIs
<1>6. OwnOK' /\ ClassOK' /\ RuntimeOK'
  BY <1>1, <1>3, OwnParts, StayOpen, LeakedRange DEF OwnOK, ClassOK
<1>7. ASSUME NEW n \in Nodes
      PROVE  ref'[n] = After(n) + In(fields', n) /\ (list'[n] = "live" => ref'[n] > 0)
  <2>0. HandlesOf(handles', n) \in Nat /\ HandlesOf(leaked', n) \in Nat
    BY <1>6, OwnOKTypes, HeapParts DEF OwnTypesOK, HandlesOf
  <2>1. After(n) = HandlesOf(handles', n) + Ind(exc, n) + ContextOf(runtime, n)
                     + Funcs(stack, n) + Args(stack, n) + HandlesOf(leaked', n)
    BY <1>1 DEF After, ExtOf
  <2>2. In(fields', n) = In(fields, n) /\ list'[n] = list[n]
    BY <1>1
  <2>3. /\ HandlesOf(handles', n) + HandlesOf(leaked', n)
             = HandlesOf(handles, n) + HandlesOf(leaked, n) + Ind(v, n)
        /\ ref'[n] = ref[n] + Ind(v, n)
    BY <1>3, <1>5
  <2>4. ref'[n] = After(n) + In(fields, n)
    BY <1>1, <2>0, <2>1, <2>3, Parts, IndNat
  <2>5. list[n] = "live" => ref'[n] > 0
    BY <1>1, <2>3, Parts, IndNat
  <2> QED
    BY <2>2, <2>4, <2>5
<1> QED
  BY <1>1, <1>4, <1>5, <1>6, <1>7, KeepingStep DEF RunList

LEMMA SetInv ==
    ASSUME Inv, NEW o \in Objects, NEW k \in Keys, NEW v \in Values,
           phase = "run", runtime = "open", Alive(list, o), Alive(list, v),
           FreeValues(Dup(ref, v), [fields EXCEPT ![o][k] = v], list, <<fields[o][k]>>),
           UNCHANGED <<class, ownVars>>
    PROVE  Inv'
<1> DEFINE old == fields[o][k]
           r == Dup(ref, v)
           fl == Stored(fields, o, k, v)
<1>1. /\ FreeValues(r, fl, list, <<old>>)
      /\ class' = class /\ handles' = handles /\ exc' = exc /\ stack' = stack
      /\ runtime' = runtime /\ leaked' = leaked
  BY DEF ownVars, Stored
<1>2. RunList(list) /\ Sound(ref, list) /\ Shaped(fields, list)
  BY RunFacts
<1>3. list[o] = "live"
  BY HeapParts DEF Alive
<1>4. Sound(r, list) /\ \A n \in Nodes : r[n] = ref[n] + Ind(v, n)
  BY <1>2, DupIs
<1>5. /\ Shaped(fl, list)
      /\ \A n \in Nodes : In(fl, n) = In(fields, n) - Ind(old, n) + Ind(v, n)
  BY <1>2, <1>3, StoreIs
<1> HIDE DEF r, fl, old
<1>6. OwnOK' /\ ClassOK' /\ RuntimeOK'
  BY <1>1, OwnParts, StayOpen DEF OwnOK, ClassOK
<1>7. ASSUME NEW n \in Nodes
      PROVE  r[n] - Given(<<old>>, n) = After(n) + In(fl, n)
  <2>1. After(n) = HandlesOf(handles, n) + Ind(exc, n) + ContextOf(runtime, n)
                     + Funcs(stack, n) + Args(stack, n) + HandlesOf(leaked, n)
    BY <1>1 DEF After, ExtOf
  <2> QED
    BY <1>4, <1>5, <2>1, Parts, Given1, IndNat
<1> QED
  BY <1>1, <1>2, <1>4, <1>5, <1>6, <1>7, Given1, FreeingStep DEF Balanced

\* executeFunction and JS_Eval: a script begins.
Calling(f, a) ==
    /\ ref' = Dup(Dup(ref, f), a)
    /\ stack' = Append(stack, [kind |-> "js", func |-> f, arg |-> a])
    /\ UNCHANGED <<class, fields, list, phase, todo, handles, exc, runtime, leaked>>

LEMMA CallingInv ==
    ASSUME Inv, phase = "run", runtime = "open", NEW f \in Values, NEW a \in Values,
           Alive(list, f), Alive(list, a), Calling(f, a)
    PROVE  Inv'
<1> DEFINE r == Dup(ref, f)
<1>0. /\ stack' = Append(stack, [kind |-> "js", func |-> f, arg |-> a])
      /\ class' = class /\ fields' = fields /\ list' = list /\ phase' = phase /\ todo' = todo
      /\ handles' = handles /\ exc' = exc /\ runtime' = runtime /\ leaked' = leaked
  BY DEF Calling
<1>1. RunList(list) /\ Sound(ref, list) /\ Shaped(fields, list)
  BY RunFacts
<1>2. Sound(r, list) /\ \A n \in Nodes : r[n] = ref[n] + Ind(f, n)
  BY <1>1, DupIs
<1> HIDE DEF r
<1>3. ref' = Dup(r, a)
  BY DEF r, Calling
<1>4. Sound(ref', list) /\ \A n \in Nodes : ref'[n] = r[n] + Ind(a, n)
  BY <1>2, <1>3, DupIs
<1>5. /\ stack' \in Seq(Frames)
      /\ \A n \in Nodes : /\ Funcs(stack', n) = Funcs(stack, n) + Ind(f, n)
                          /\ Args(stack', n) = Args(stack, n) + Ind(a, n)
  BY <1>0, PushIs
<1>6. OwnOK' /\ ClassOK' /\ RuntimeOK'
  BY <1>0, <1>5, OwnParts, StayOpen DEF OwnOK, ClassOK
<1>7. ASSUME NEW n \in Nodes
      PROVE  ref'[n] = After(n) + In(fields', n) /\ (list'[n] = "live" => ref'[n] > 0)
  <2>1. After(n) = HandlesOf(handles, n) + Ind(exc, n) + ContextOf(runtime, n)
                     + (Funcs(stack, n) + Ind(f, n)) + (Args(stack, n) + Ind(a, n))
                     + HandlesOf(leaked, n)
    BY <1>0, <1>5 DEF After, ExtOf
  <2>2. In(fields', n) = In(fields, n) /\ list'[n] = list[n]
    BY <1>0
  <2>3. ref'[n] = ref[n] + Ind(f, n) + Ind(a, n)
    BY <1>2, <1>4
  <2>4. ref'[n] = After(n) + In(fields, n)
    BY <2>1, <2>3, Parts, IndNat
  <2>5. list[n] = "live" => ref'[n] > 0
    BY <2>3, Parts, IndNat
  <2> QED
    BY <2>2, <2>4, <2>5
<1> QED
  BY <1>0, <1>1, <1>4, <1>6, <1>7, KeepingStep DEF RunList

LEMMA ExecuteNoFunctionInv ==
    ASSUME Inv, NEW o \in Objects, NEW k \in Keys, NEW e \in Objects, ExecuteNoFunction(o, k, e)
    PROVE  Inv'
<1> DEFINE r == AllocatedRef(e, Null)
           fl == AllocatedFields(e, Null)
           l == AllocatedList(e)
<1>1. /\ phase = "run" /\ runtime = "open" /\ list[e] = "none"
      /\ class' = [class EXCEPT ![e] = "error"]
      /\ FreeValues(r, fl, l, <<exc>>)
      /\ exc' = e /\ handles' = handles /\ stack' = stack /\ runtime' = runtime
      /\ leaked' = leaked
  BY DEF ExecuteNoFunction, InJava, Allocate
<1>2. /\ RunList(l) /\ Sound(r, l) /\ Shaped(fl, l)
      /\ \A n \in Nodes : /\ r[n] = ref[n] + Ind(e, n) + Ind(Null, n)
                          /\ In(fl, n) = In(fields, n) + Ind(Null, n)
  <2>1. Alive(list, Null)
    BY DEF Alive
  <2> QED
    BY <1>1, <2>1, AllocIs
<1> HIDE DEF r, fl, l
<1>3. OwnOK' /\ ClassOK' /\ RuntimeOK'
  BY <1>1, OwnParts, StayOpen DEF OwnOK, ClassOK, Values
<1>4. ASSUME NEW n \in Nodes
      PROVE  r[n] - Given(<<exc>>, n) = After(n) + In(fl, n)
  <2>1. After(n) = HandlesOf(handles, n) + Ind(e, n) + ContextOf(runtime, n)
                     + Funcs(stack, n) + Args(stack, n) + HandlesOf(leaked, n)
    BY <1>1 DEF After, ExtOf
  <2> QED
    BY <1>1, <1>2, <2>1, Parts, Given1, IndNat
<1> QED
  BY <1>1, <1>2, <1>3, <1>4, Given1, FreeingStep DEF Balanced

LEMMA GetExceptionInv ==
    ASSUME Inv, GetException
    PROVE  Inv'
<1>1. /\ phase = "run" /\ runtime = "open" /\ exc # Null /\ exc' = Null
      /\ handles' = handles /\ stack' = stack /\ runtime' = runtime
  BY DEF GetException, InJava
<1>2. exc \in Objects /\ Null \in Values
  BY <1>1 DEF Inv, TypeOK, Values
<1>3. RunList(list) /\ Sound(ref, list) /\ Shaped(fields, list)
  BY <1>1, RunFacts
<1>4. CASE class[exc] = "error"
  <2>1. FreeValues(ref, fields, list, <<exc>>) /\ class' = class /\ leaked' = leaked
    BY <1>4 DEF GetException
  <2>2. OwnOK' /\ ClassOK' /\ RuntimeOK'
    BY <1>1, <1>2, <2>1, OwnParts, StayOpen DEF OwnOK, ClassOK
  <2>3. ASSUME NEW n \in Nodes
        PROVE  ref[n] - Given(<<exc>>, n) = After(n) + In(fields, n)
    <3>1. After(n) = HandlesOf(handles, n) + Ind(Null, n) + ContextOf(runtime, n)
                       + Funcs(stack, n) + Args(stack, n) + HandlesOf(leaked, n)
      BY <1>1, <2>1 DEF After, ExtOf
    <3> QED
      BY <1>1, <3>1, Parts, Given1, IndNat, IndNull
  <2> QED
    BY <1>1, <1>3, <2>1, <2>2, <2>3, Given1, FreeingStep DEF Balanced
<1>5. CASE class[exc] # "error"
  <2>1. /\ NoneLost /\ leaked' = [leaked EXCEPT ![exc] = @ + 1]
        /\ ref' = ref /\ class' = class /\ fields' = fields /\ list' = list /\ phase' = phase
        /\ todo' = todo
    BY <1>5 DEF GetException, heapVars
  <2>2. leaked' \in [Objects -> 0 .. 1]
    <3>1. leaked[exc] + 1 \in 0 .. 1
      BY <1>2, <2>1 DEF NoneLost
    <3> QED
      BY <1>1, <1>2, <2>1, <3>1, OwnParts
  <2>3. OwnOK' /\ ClassOK' /\ RuntimeOK'
    BY <1>1, <1>2, <2>1, <2>2, OwnParts, StayOpen, LeakedRange DEF OwnOK, ClassOK
  <2>4. ASSUME NEW n \in Nodes
        PROVE  ref'[n] = After(n) + In(fields', n) /\ (list'[n] = "live" => ref'[n] > 0)
    <3>1. HandlesOf(leaked', n) = HandlesOf(leaked, n) + Ind(exc, n)
      BY <1>2, <2>1, OwnParts, HandleCounts
    <3>2. After(n) = HandlesOf(handles, n) + Ind(Null, n) + ContextOf(runtime, n)
                       + Funcs(stack, n) + Args(stack, n) + (HandlesOf(leaked, n) + Ind(exc, n))
      BY <1>1, <3>1 DEF After, ExtOf
    <3>3. In(fields', n) = In(fields, n) /\ list'[n] = list[n] /\ ref'[n] = ref[n]
      BY <2>1
    <3>4. ref[n] = After(n) + In(fields, n) /\ (list[n] = "live" => ref[n] > 0)
      BY <1>1, <3>2, Parts, IndNat, IndNull
    <3> QED
      BY <3>3, <3>4
  <2> QED
    BY <1>1, <1>3, <2>1, <2>3, <2>4, KeepingStep DEF RunList
<1> QED
  BY <1>4, <1>5

LEMMA ReturnToScriptInv ==
    ASSUME Inv, NEW v \in Values, NEW k \in Keys, NEW keep \in BOOLEAN, ReturnToScript(v, k, keep)
    PROVE  Inv'
<1> DEFINE r == Dup(ref, v)
           f == Top.func
           a == Top.arg
           old == fields[Global][k]
           fl == Stored(fields, Global, k, v)
<1>1. /\ phase = "run" /\ runtime = "open" /\ stack # << >> /\ Has(v) /\ stack' = Pop
      /\ class' = class /\ handles' = handles /\ exc' = exc /\ runtime' = runtime
      /\ leaked' = leaked
  BY DEF ReturnToScript, InJava
<1>2. \/ FreeValues(r, fl, list, <<f, a, old>>)
      \/ FreeValues(r, fields, list, <<f, a, v>>)
  BY DEF ReturnToScript, Stored
<1>3. /\ RunList(list) /\ Sound(ref, list) /\ Shaped(fields, list)
      /\ Alive(list, v) /\ list[Global] = "live" /\ Global \in Objects
  BY <1>1, RunFacts, HeldLive, HeapParts, HeapAssumption DEF Alive
<1>4. Sound(r, list) /\ \A n \in Nodes : r[n] = ref[n] + Ind(v, n)
  BY <1>3, DupIs
<1>5. /\ Shaped(fl, list)
      /\ \A n \in Nodes : In(fl, n) = In(fields, n) - Ind(old, n) + Ind(v, n)
  BY <1>3, StoreIs
<1>6. /\ Pop \in Seq(Frames)
      /\ \A n : /\ Funcs(Pop, n) = Funcs(stack, n) - Ind(f, n)
                /\ Args(Pop, n) = Args(stack, n) - Ind(a, n)
  BY <1>1, StackPop DEF Inv
<1> HIDE DEF r, f, a, old, fl
<1>7. OwnOK' /\ ClassOK' /\ RuntimeOK'
  BY <1>1, <1>6, OwnParts, StayOpen DEF OwnOK, ClassOK
<1>8. ASSUME NEW n \in Nodes
      PROVE  /\ r[n] - Given(<<f, a, old>>, n) = After(n) + In(fl, n)
             /\ r[n] - Given(<<f, a, v>>, n) = After(n) + In(fields, n)
             /\ Given(<<f, a, old>>, n) \in Nat /\ Given(<<f, a, v>>, n) \in Nat
  <2>1. After(n) = HandlesOf(handles, n) + Ind(exc, n) + ContextOf(runtime, n)
                     + (Funcs(stack, n) - Ind(f, n)) + (Args(stack, n) - Ind(a, n))
                     + HandlesOf(leaked, n)
    BY <1>1, <1>6 DEF After, ExtOf
  <2>2. /\ Given(<<f, a, old>>, n) = Ind(f, n) + Ind(a, n) + Ind(old, n)
        /\ Given(<<f, a, v>>, n) = Ind(f, n) + Ind(a, n) + Ind(v, n)
    BY Given3
  <2>3. /\ Given(<<f, a, old>>, n) \in Nat /\ Given(<<f, a, v>>, n) \in Nat
    BY <2>2, IndNat
  <2>4. r[n] = ref[n] + Ind(v, n) /\ In(fl, n) = In(fields, n) - Ind(old, n) + Ind(v, n)
    BY <1>4, <1>5
  <2>0. Ind(f, n) \in Nat /\ Ind(a, n) \in Nat /\ Ind(old, n) \in Nat /\ Ind(v, n) \in Nat
    BY IndNat
  <2>7. PartsOf(n)
    BY <1>1, PartsHold
  <2>5. r[n] - (Ind(f, n) + Ind(a, n) + Ind(old, n)) = After(n) + In(fl, n)
    BY <2>0, <2>1, <2>4, <2>7 DEF PartsOf
  <2>6. r[n] - (Ind(f, n) + Ind(a, n) + Ind(v, n)) = After(n) + In(fields, n)
    BY <2>0, <2>1, <2>4, <2>7 DEF PartsOf
  <2> QED
    BY <2>2, <2>3, <2>5, <2>6
<1>9. Balanced(r, fl, <<f, a, old>>) /\ Balanced(r, fields, <<f, a, v>>)
  BY <1>8 DEF Balanced
<1> QED
  BY <1>1, <1>2, <1>3, <1>4, <1>5, <1>7, <1>8, <1>9, FreeingStep

LEMMA ScriptNewInv ==
    ASSUME Inv, NEW o \in Objects, NEW k \in Keys, NEW e \in Objects, ScriptNew(o, k, e)
    PROVE  Inv'
<1>1. /\ phase = "run" /\ runtime = "open" /\ stack # << >> /\ o \in Near /\ list[e] = "none"
      /\ handles' = handles /\ exc' = exc /\ stack' = stack /\ runtime' = runtime
      /\ leaked' = leaked
  BY DEF ScriptNew, InScript, Allocate, ownVars
<1>2. PICK c \in Classes[e] : class' = [class EXCEPT ![e] = c]
  BY DEF ScriptNew, Allocate
<1>3. PICK realm \in {Null, Ctx} :
         FreeValues(AllocatedRef(e, realm), Stored(AllocatedFields(e, realm), o, k, e),
                    AllocatedList(e), <<fields[o][k]>>)
  BY DEF ScriptNew, Stored
<1> DEFINE r == AllocatedRef(e, realm)
           f0 == AllocatedFields(e, realm)
           l == AllocatedList(e)
           old == fields[o][k]
           fl == Stored(f0, o, k, e)
<1>4. FreeValues(r, fl, l, <<old>>)
  BY <1>3
<1>5. Alive(list, realm) /\ Alive(list, o) /\ o # Null /\ o \in Nodes
  BY <1>1, HeldLive, HeapParts DEF Alive
<1>6. /\ RunList(l) /\ l[e] = "live" /\ Alive(l, o) /\ o # e
      /\ Sound(r, l) /\ Shaped(f0, l)
      /\ \A n \in Nodes : /\ r[n] = ref[n] + Ind(e, n) + Ind(realm, n)
                          /\ In(f0, n) = In(fields, n) + Ind(realm, n)
      /\ f0[o] = fields[o]
  BY <1>1, <1>5, AllocIs
<1> HIDE DEF r, f0, l, old
<1>7. l[o] = "live" /\ e \in Values
  BY <1>5, <1>6 DEF Alive, Values
<1>8. /\ Shaped(fl, l)
      /\ \A n \in Nodes : In(fl, n) = In(f0, n) - Ind(f0[o][k], n) + Ind(e, n)
  BY <1>6, <1>7, StoreIs
<1> HIDE DEF fl
<1>9. OwnOK' /\ ClassOK' /\ RuntimeOK'
  <2>1. c \in {"object", "function", "error"}
    BY HeapAssumption
  <2> QED
    BY <1>1, <1>2, <2>1, OwnParts, StayOpen DEF OwnOK, ClassOK
<1>10. ASSUME NEW n \in Nodes
       PROVE  r[n] - Given(<<old>>, n) = After(n) + In(fl, n)
  <2>1. After(n) = HandlesOf(handles, n) + Ind(exc, n) + ContextOf(runtime, n)
                     + Funcs(stack, n) + Args(stack, n) + HandlesOf(leaked, n)
    BY <1>1 DEF After, ExtOf
  <2>2. Ind(f0[o][k], n) = Ind(old, n)
    BY <1>6 DEF old
  <2>3. In(fl, n) = In(f0, n) - Ind(f0[o][k], n) + Ind(e, n)
    BY <1>8
  <2>4. In(f0, n) = In(fields, n) + Ind(realm, n) /\ r[n] = ref[n] + Ind(e, n) + Ind(realm, n)
    BY <1>6
  <2>5. Ind(old, n) \in Nat /\ Ind(e, n) \in Nat /\ Ind(realm, n) \in Nat
    BY IndNat
  <2>7. PartsOf(n)
    BY <1>1, PartsHold
  <2>6. r[n] - Ind(old, n) = After(n) + In(fl, n)
    BY <2>1, <2>2, <2>3, <2>4, <2>5, <2>7 DEF PartsOf
  <2> QED
    BY <2>6, Given1
<1>11. Balanced(r, fl, <<old>>)
  BY <1>10 DEF Balanced
<1> QED
  BY <1>1, <1>4, <1>6, <1>8, <1>9, <1>11, Given1, FreeingStep

\* this and the arguments become handles, and the interpreter holds both.
LEMMA CallJavaInv ==
    ASSUME Inv, Global \notin Receivers,
           NEW this \in Values, NEW v \in Values, NEW args \in Objects, NEW k \in Keys,
           CallJava(this, v, args, k)
    PROVE  Inv'
<1> DEFINE r0 == AllocatedRef(args, Null)
           r1 == Dup(r0, v)
           r2 == Dup(r1, this)
           r3 == Dup(r2, this)
           f0 == AllocatedFields(args, Null)
           l == AllocatedList(args)
<1>1. /\ phase = "run" /\ runtime = "open" /\ stack # << >> /\ list[args] = "none"
      /\ this \in Near \cup {Null} /\ v \in {Top.arg, Null}
      /\ this # Null => handles[this] < MaxHandles
      /\ class' = [class EXCEPT ![args] = "object"]
      /\ fields' = Stored(f0, args, k, v) /\ list' = l
      /\ handles' = [o \in Objects |-> handles[o] + (IF o \in {args, this} THEN 1 ELSE 0)]
      /\ stack' = Append(stack, [kind |-> "java", func |-> this, arg |-> v])
      /\ phase' = phase /\ todo' = todo /\ exc' = exc /\ runtime' = runtime /\ leaked' = leaked
  BY DEF CallJava, InScript, Allocate, Stored
<1>2. ref' = Dup(r3, v)
  <2>1. this # Global
    BY HeapParts DEF CallJava
  <2>2. ThisRef(this) = this
    BY <2>1 DEF ThisRef
  <2> QED
    BY <2>2 DEF CallJava
<1>3. Alive(list, Null) /\ Alive(list, this) /\ Alive(list, v)
  <2>1. Alive(list, Null)
    BY DEF Alive
  <2> QED
    BY <1>1, <2>1, HeldLive
<1>4. /\ RunList(l) /\ l[args] = "live" /\ Alive(l, this) /\ Alive(l, v) /\ this # args
      /\ Sound(r0, l) /\ Shaped(f0, l)
      /\ \A n \in Nodes : /\ r0[n] = ref[n] + Ind(args, n) + Ind(Null, n)
                          /\ In(f0, n) = In(fields, n) + Ind(Null, n)
                          /\ n # args => l[n] = list[n]
      /\ f0[args][k] = Null /\ handles[args] = 0
  BY <1>1, <1>3, AllocIs
<1> HIDE DEF r0, f0, l
<1>5. Sound(r1, l) /\ \A n \in Nodes : r1[n] = r0[n] + Ind(v, n)
  BY <1>4, DupIs
<1> HIDE DEF r1
<1>6. Sound(r2, l) /\ \A n \in Nodes : r2[n] = r1[n] + Ind(this, n)
  BY <1>4, <1>5, DupIs
<1> HIDE DEF r2
<1>7. Sound(r3, l) /\ \A n \in Nodes : r3[n] = r2[n] + Ind(this, n)
  BY <1>4, <1>6, DupIs
<1> HIDE DEF r3
<1>8. Sound(ref', l) /\ \A n \in Nodes : ref'[n] = r3[n] + Ind(v, n)
  BY <1>2, <1>4, <1>7, DupIs
<1>9. /\ Shaped(fields', l)
      /\ \A n \in Nodes : In(fields', n) = In(f0, n) - Ind(f0[args][k], n) + Ind(v, n)
  BY <1>1, <1>4, StoreIs
<1>10. /\ stack' \in Seq(Frames)
       /\ \A n \in Nodes : /\ Funcs(stack', n) = Funcs(stack, n) + Ind(this, n)
                           /\ Args(stack', n) = Args(stack, n) + Ind(v, n)
  BY <1>1, PushIs
<1>11. handles' \in [Objects -> 0 .. MaxHandles]
  <2> SUFFICES ASSUME NEW o \in Objects
               PROVE  handles[o] + (IF o \in {args, this} THEN 1 ELSE 0) \in 0 .. MaxHandles
    BY <1>1
  <2>1. handles[o] \in 0 .. MaxHandles /\ MaxHandles \in Nat \ {0}
    BY OwnParts, ValueOwnershipAssumption DEF OwnOK
  <2>2. o \in {args, this} => handles[o] < MaxHandles
    BY <1>1, <1>4, <2>1, HeapParts
  <2> QED
    BY <2>1, <2>2
<1>12. OwnOK' /\ ClassOK' /\ RuntimeOK'
  BY <1>1, <1>10, <1>11, OwnParts, StayOpen DEF OwnOK, ClassOK
<1>13. ASSUME NEW n \in Nodes
       PROVE  ref'[n] = After(n) + In(fields', n) /\ (list'[n] = "live" => ref'[n] > 0)
  <2>0. Ind(args, n) \in Nat /\ Ind(this, n) \in Nat /\ Ind(v, n) \in Nat /\ Ind(Null, n) = 0
    BY IndNat, IndNull
  <2>1. HandlesOf(handles', n) = HandlesOf(handles, n) + Ind(args, n) + Ind(this, n)
    <3>1. CASE n = Ctx
      <4>1. HandlesOf(handles', n) = 0 /\ HandlesOf(handles, n) = 0
        BY <3>1 DEF HandlesOf
      <4>2. Ind(args, n) = 0 /\ Ind(this, n) = 0
        BY <3>1, HeapParts DEF Ind, Values
      <4> QED
        BY <4>1, <4>2
    <3>2. CASE n # Ctx
      <4>1. n \in Objects
        BY <3>2, HeapParts
      <4>2. (IF n \in {args, this} THEN 1 ELSE 0) = Ind(args, n) + Ind(this, n)
        BY <1>4 DEF Ind
      <4>3. HandlesOf(handles', n) = handles[n] + (Ind(args, n) + Ind(this, n))
        BY <1>1, <3>2, <4>1, <4>2 DEF HandlesOf
      <4>4. HandlesOf(handles, n) = handles[n] /\ handles[n] \in Nat
        BY <3>2, <4>1, OwnParts DEF HandlesOf
      <4> QED
        BY <2>0, <4>3, <4>4
    <3> QED
      BY <3>1, <3>2
  <2>2. After(n) = (HandlesOf(handles, n) + Ind(args, n) + Ind(this, n)) + Ind(exc, n)
                     + ContextOf(runtime, n) + (Funcs(stack, n) + Ind(this, n))
                     + (Args(stack, n) + Ind(v, n)) + HandlesOf(leaked, n)
    BY <1>1, <1>10, <2>1 DEF After, ExtOf
  <2>3. In(fields', n) = In(fields, n) + Ind(v, n)
    <3>1. In(fields', n) = In(f0, n) - Ind(f0[args][k], n) + Ind(v, n)
      BY <1>9
    <3>2. In(f0, n) = In(fields, n) + Ind(Null, n) /\ Ind(f0[args][k], n) = 0
      BY <1>4, <2>0
    <3>3. In(fields, n) \in Nat
      BY InFinite
    <3> QED
      BY <2>0, <3>1, <3>2, <3>3
  <2>4. ref'[n] = ref[n] + Ind(args, n) + Ind(v, n) + Ind(this, n) + Ind(this, n) + Ind(v, n)
    <3>1. r0[n] = ref[n] + Ind(args, n) + Ind(Null, n) /\ r1[n] = r0[n] + Ind(v, n)
      BY <1>4, <1>5
    <3>2. r2[n] = r1[n] + Ind(this, n) /\ r3[n] = r2[n] + Ind(this, n)
      BY <1>6, <1>7
    <3>3. ref'[n] = r3[n] + Ind(v, n)
      BY <1>8
    <3>4. ref[n] \in Nat
      BY <1>1, Parts
    <3> QED
      BY <2>0, <3>1, <3>2, <3>3, <3>4
  <2>9. PartsOf(n)
    BY <1>1, PartsHold
  <2>5. ref'[n] = After(n) + In(fields', n)
    BY <2>0, <2>2, <2>3, <2>4, <2>9 DEF PartsOf
  <2>6. list'[n] = "live" => Ind(args, n) = 1 \/ ref[n] > 0
    BY <1>1, <1>4, Parts DEF Ind
  <2>7. ref[n] \in Nat
    BY <1>1, Parts
  <2>8. list'[n] = "live" => ref'[n] > 0
    BY <2>0, <2>4, <2>6, <2>7
  <2> QED
    BY <2>5, <2>8
<1>14. RunList(list') /\ Sound(ref', list') /\ Shaped(fields', list')
  BY <1>1, <1>4, <1>8, <1>9
<1> QED
  BY <1>1, <1>12, <1>13, <1>14, KeepingStep

LEMMA ReturnToJavaInv ==
    ASSUME Inv, NEW v \in Values, ReturnToJava(v)
    PROVE  Inv'
<1> DEFINE r == Dup(ref, v)
           f == Top.func
           a == Top.arg
<1>1. /\ phase = "run" /\ runtime = "open" /\ stack # << >> /\ v \in Near \cup {Null}
      /\ FreeValues(r, fields, list, <<f, a>>)
      /\ ToJObject(v) /\ stack' = Pop
      /\ class' = class /\ exc' = exc /\ runtime' = runtime
  BY DEF ReturnToJava, InScript
<1>2. RunList(list) /\ Sound(ref, list) /\ Shaped(fields, list) /\ Alive(list, v)
  BY <1>1, RunFacts, HeldLive DEF Alive
<1>3. Sound(r, list) /\ \A n \in Nodes : r[n] = ref[n] + Ind(v, n)
  BY <1>2, DupIs
<1>4. /\ Pop \in Seq(Frames)
      /\ \A n : /\ Funcs(Pop, n) = Funcs(stack, n) - Ind(f, n)
                /\ Args(Pop, n) = Args(stack, n) - Ind(a, n)
  BY <1>1, StackPop DEF Inv
<1>5. /\ handles' \in [Objects -> 0 .. MaxHandles] /\ leaked' \in [Objects -> 0 .. 1]
      /\ \A n \in Nodes : HandlesOf(handles', n) + HandlesOf(leaked', n)
                            = HandlesOf(handles, n) + HandlesOf(leaked, n) + Ind(v, n)
  BY <1>1, ToJObjectIs
<1> HIDE DEF r, f, a
<1>6. OwnOK' /\ ClassOK' /\ RuntimeOK'
  BY <1>1, <1>4, <1>5, OwnParts, StayOpen, LeakedRange DEF OwnOK, ClassOK
<1>7. ASSUME NEW n \in Nodes
      PROVE  r[n] - Given(<<f, a>>, n) = After(n) + In(fields, n) /\ Given(<<f, a>>, n) \in Nat
  <2>0. Ind(f, n) \in Nat /\ Ind(a, n) \in Nat /\ Ind(v, n) \in Nat
    BY IndNat
  <2>1. HandlesOf(handles', n) \in Nat /\ HandlesOf(leaked', n) \in Nat
    BY <1>6, OwnOKTypes, HeapParts DEF OwnTypesOK, HandlesOf
  <2>2. After(n) = HandlesOf(handles', n) + Ind(exc, n) + ContextOf(runtime, n)
                     + (Funcs(stack, n) - Ind(f, n)) + (Args(stack, n) - Ind(a, n))
                     + HandlesOf(leaked', n)
    BY <1>1, <1>4 DEF After, ExtOf
  <2>3. Given(<<f, a>>, n) = Ind(f, n) + Ind(a, n)
    BY Given2
  <2>4. PartsOf(n)
    BY <1>1, PartsHold
  <2>5. /\ r[n] = ref[n] + Ind(v, n)
        /\ HandlesOf(handles', n) + HandlesOf(leaked', n)
             = HandlesOf(handles, n) + HandlesOf(leaked, n) + Ind(v, n)
    BY <1>3, <1>5
  <2>6. r[n] - (Ind(f, n) + Ind(a, n)) = After(n) + In(fields, n)
    BY <2>0, <2>1, <2>2, <2>4, <2>5 DEF PartsOf
  <2> QED
    BY <2>0, <2>3, <2>6
<1>8. Balanced(r, fields, <<f, a>>)
  BY <1>7 DEF Balanced
<1> QED
  BY <1>1, <1>2, <1>3, <1>6, <1>7, <1>8, FreeingStep

LEMMA ThrowInv ==
    ASSUME Inv, NEW v \in Values, Throw(v)
    PROVE  Inv'
<1> DEFINE r == Dup(ref, v)
           f == Top.func
           a == Top.arg
<1>1. /\ phase = "run" /\ runtime = "open" /\ stack # << >> /\ v \in Near
      /\ FreeValues(r, fields, list, <<f, a, exc>>)
      /\ exc' = v /\ stack' = Pop
      /\ class' = class /\ handles' = handles /\ runtime' = runtime /\ leaked' = leaked
  BY DEF Throw, InScript
<1>2. RunList(list) /\ Sound(ref, list) /\ Shaped(fields, list) /\ Alive(list, v)
  BY <1>1, RunFacts, HeldLive
<1>3. Sound(r, list) /\ \A n \in Nodes : r[n] = ref[n] + Ind(v, n)
  BY <1>2, DupIs
<1>4. /\ Pop \in Seq(Frames)
      /\ \A n : /\ Funcs(Pop, n) = Funcs(stack, n) - Ind(f, n)
                /\ Args(Pop, n) = Args(stack, n) - Ind(a, n)
  BY <1>1, StackPop DEF Inv
<1> HIDE DEF r, f, a
<1>5. OwnOK' /\ ClassOK' /\ RuntimeOK'
  BY <1>1, <1>4, OwnParts, StayOpen DEF OwnOK, ClassOK
<1>6. ASSUME NEW n \in Nodes
      PROVE  /\ r[n] - Given(<<f, a, exc>>, n) = After(n) + In(fields, n)
             /\ Given(<<f, a, exc>>, n) \in Nat
  <2>0. Ind(f, n) \in Nat /\ Ind(a, n) \in Nat /\ Ind(v, n) \in Nat /\ Ind(exc, n) \in Nat
    BY IndNat
  <2>1. After(n) = HandlesOf(handles, n) + Ind(v, n) + ContextOf(runtime, n)
                     + (Funcs(stack, n) - Ind(f, n)) + (Args(stack, n) - Ind(a, n))
                     + HandlesOf(leaked, n)
    BY <1>1, <1>4 DEF After, ExtOf
  <2>2. Given(<<f, a, exc>>, n) = Ind(f, n) + Ind(a, n) + Ind(exc, n)
    BY Given3
  <2>3. PartsOf(n) /\ r[n] = ref[n] + Ind(v, n)
    BY <1>1, <1>3, PartsHold
  <2>4. r[n] - (Ind(f, n) + Ind(a, n) + Ind(exc, n)) = After(n) + In(fields, n)
    BY <2>0, <2>1, <2>3 DEF PartsOf
  <2> QED
    BY <2>0, <2>2, <2>4
<1>7. Balanced(r, fields, <<f, a, exc>>)
  BY <1>6 DEF Balanced
<1> QED
  BY <1>1, <1>2, <1>3, <1>5, <1>6, <1>7, FreeingStep

\* The Java context gives back the global object and the context.
LEMMA CloseContextInv ==
    ASSUME Inv, CloseContext
    PROVE  Inv'
<1>1. /\ phase = "run" /\ runtime = "open" /\ stack = << >>
      /\ FreeValues(ref, fields, list, <<Global, Ctx>>)
      /\ runtime' = "closed" /\ class' = class /\ exc' = exc /\ stack' = stack
      /\ handles' = [o \in Objects |-> 0]
      /\ leaked' = [o \in Objects |-> leaked[o] + handles[o]]
  BY DEF CloseContext, InJava
<1>2. RunList(list) /\ Sound(ref, list) /\ Shaped(fields, list)
  BY <1>1, RunFacts
<1>3. OwnOK' /\ ClassOK' /\ RuntimeOK'
  <2>1. leaked' \in [Objects -> 0 .. MaxHandles + 1]
    <3>1. \A o \in Objects : leaked[o] \in 0 .. 1 /\ handles[o] \in 0 .. MaxHandles
      BY <1>1, OwnParts DEF OwnOK
    <3>2. \A o \in Objects : leaked[o] + handles[o] \in 0 .. MaxHandles + 1
      BY <3>1, ValueOwnershipAssumption
    <3> QED
      BY <1>1, <3>2
  <2>2. handles' \in [Objects -> 0 .. MaxHandles] /\ \A o \in Objects : handles'[o] = 0
    BY <1>1, ValueOwnershipAssumption
  <2>3. OwnOK' /\ ClassOK'
    BY <1>1, <2>1, <2>2, OwnParts DEF OwnOK, ClassOK
  <2> QED
    BY <1>1, <2>2, <2>3 DEF RuntimeOK, EndOK
<1>4. ASSUME NEW n \in Nodes
      PROVE  /\ ref[n] - Given(<<Global, Ctx>>, n) = After(n) + In(fields, n)
             /\ Given(<<Global, Ctx>>, n) \in Nat
  <2>1. After(n) = 0 + Ind(exc, n) + 0 + Funcs(stack, n) + Args(stack, n)
                     + (HandlesOf(leaked, n) + HandlesOf(handles, n))
    <3>1. ContextOf(runtime', n) = 0
      BY <1>1 DEF ContextOf
    <3>2. HandlesOf(handles', n) = 0
      BY <1>1, HeapParts DEF HandlesOf
    <3>3. HandlesOf(leaked', n) = HandlesOf(leaked, n) + HandlesOf(handles, n)
      <4>1. CASE n = Ctx
        BY <4>1 DEF HandlesOf
      <4>2. CASE n # Ctx
        BY <1>1, <4>2, HeapParts DEF HandlesOf
      <4> QED
        BY <4>1, <4>2
    <3> QED
      BY <1>1, <3>1, <3>2, <3>3 DEF After, ExtOf
  <2>2. Given(<<Global, Ctx>>, n) = Ind(Global, n) + Ind(Ctx, n)
    BY Given2
  <2>3. ContextOf(runtime, n) = Ind(Global, n) + Ind(Ctx, n)
    BY <1>1, HeapParts DEF ContextOf, Ind
  <2>4. PartsOf(n) /\ Ind(Global, n) \in Nat /\ Ind(Ctx, n) \in Nat
    BY <1>1, PartsHold, IndNat
  <2>5. ref[n] - (Ind(Global, n) + Ind(Ctx, n)) = After(n) + In(fields, n)
    BY <2>1, <2>3, <2>4 DEF PartsOf
  <2> QED
    BY <2>2, <2>4, <2>5
<1>5. Balanced(ref, fields, <<Global, Ctx>>)
  BY <1>4 DEF Balanced
<1> QED
  BY <1>1, <1>2, <1>3, <1>4, <1>5, FreeingStep

LEMMA FreeRuntimeInv ==
    ASSUME Inv, FreeRuntime
    PROVE  Inv'
<1>1. /\ phase = "run" /\ runtime = "closed"
      /\ FreeValues(ref, fields, list, <<exc>>)
      /\ exc' = Null /\ runtime' = "collect" /\ class' = class /\ handles' = handles
      /\ stack' = stack /\ leaked' = leaked
  BY DEF FreeRuntime
<1>2. RunList(list) /\ Sound(ref, list) /\ Shaped(fields, list)
  BY <1>1, RunFacts
<1>3. OwnOK' /\ ClassOK' /\ RuntimeOK'
  <2>1. stack = << >> /\ \A o \in Objects : handles[o] = 0
    BY <1>1 DEF Inv, RuntimeOK
  <2>2. OwnOK' /\ ClassOK'
    BY <1>1, OwnParts DEF OwnOK, ClassOK, Values
  <2> QED
    BY <1>1, <2>1, <2>2 DEF RuntimeOK, EndOK
<1>4. ASSUME NEW n \in Nodes
      PROVE  ref[n] - Given(<<exc>>, n) = After(n) + In(fields, n)
  <2>1. ContextOf(runtime', n) = ContextOf(runtime, n)
    BY <1>1 DEF ContextOf
  <2>2. After(n) = HandlesOf(handles, n) + Ind(Null, n) + ContextOf(runtime, n)
                     + Funcs(stack, n) + Args(stack, n) + HandlesOf(leaked, n)
    BY <1>1, <2>1 DEF After, ExtOf
  <2>3. PartsOf(n) /\ Ind(Null, n) = 0 /\ Given(<<exc>>, n) = Ind(exc, n)
    BY <1>1, PartsHold, IndNull, Given1
  <2> QED
    BY <2>2, <2>3 DEF PartsOf
<1>5. Balanced(ref, fields, <<exc>>)
  BY <1>4 DEF Balanced
<1> QED
  BY <1>1, <1>2, <1>3, <1>5, Given1, FreeingStep

LEMMA JavaStepInv ==
    ASSUME Inv, JavaStep
    PROVE  Inv'
<1>1. ASSUME NEW o \in Objects, InitNew(o) \/ ReleasePtr(o)
      PROVE  Inv'
  BY <1>1, InitNewInv, ReleasePtrInv
<1>2. ASSUME NEW o \in Objects, NEW k \in Keys, Get(o, k)
      PROVE  Inv'
  BY <1>2, GetInv
<1>3. ASSUME NEW o \in Objects, NEW f \in Objects, NEW k \in Keys,
             RegisterJavaMethod(o, k, f) \/ ExecuteNoFunction(o, k, f)
      PROVE  Inv'
  BY <1>3, RegisterJavaMethodInv, ExecuteNoFunctionInv
<1>4. ASSUME NEW o \in Objects, NEW k \in Keys, NEW v \in Values, Set(o, k, v)
      PROVE  Inv'
  <2>1. phase = "run" /\ runtime = "open" /\ Has(o) /\ Has(v) /\ o \in Values
    BY <1>4 DEF Set, InJava, Values
  <2>2. Alive(list, o) /\ Alive(list, v)
    BY <2>1, HeldLive
  <2> QED
    BY <1>4, <2>1, <2>2, SetInv DEF Set
<1>5. ASSUME NEW o \in Objects, NEW k \in Keys, NEW a \in Values, ExecuteFunction(o, k, a)
      PROVE  Inv'
  <2>1. phase = "run" /\ runtime = "open" /\ Has(a) /\ Calling(fields[o][k], a)
    BY <1>5 DEF ExecuteFunction, InJava, Push, Calling
  <2>2. Alive(list, a) /\ Alive(list, fields[o][k]) /\ fields[o][k] \in Values
    BY <2>1, HeldLive, HeapParts DEF Inv, KeysOK
  <2> QED
    BY <2>1, <2>2, CallingInv
<1>6. ASSUME NEW f \in Objects, NEW a \in Values, ExecuteFunction2(f, a)
      PROVE  Inv'
  <2>1. phase = "run" /\ runtime = "open" /\ Has(a) /\ handles[f] > 0 /\ Calling(f, a)
    BY <1>6 DEF ExecuteFunction2, InJava, Push, Calling
  <2>2. Alive(list, a) /\ Alive(list, f) /\ f \in Values
    BY <2>1, HeldLive DEF Values
  <2> QED
    BY <2>1, <2>2, CallingInv
<1>7. ASSUME ExecuteScript
      PROVE  Inv'
  <2>1. phase = "run" /\ runtime = "open" /\ Calling(Null, Null)
    BY <1>7 DEF ExecuteScript, InJava, Push, Calling, Dup, heapVars
  <2>2. Alive(list, Null) /\ Null \in Values
    BY DEF Alive, Values
  <2> QED
    BY <2>1, <2>2, CallingInv
<1>8. ASSUME NEW v \in Values, NEW k \in Keys, NEW keep \in BOOLEAN, ReturnToScript(v, k, keep)
      PROVE  Inv'
  BY <1>8, ReturnToScriptInv
<1> QED
  BY <1>1, <1>2, <1>3, <1>4, <1>5, <1>6, <1>7, <1>8, GetExceptionInv DEF JavaStep

LEMMA ScriptStepInv ==
    ASSUME Inv, Global \notin Receivers, ScriptStep
    PROVE  Inv'
<1>1. ASSUME NEW o \in Objects, NEW k \in Keys, NEW v \in Values, ScriptStore(o, k, v)
      PROVE  Inv'
  <2>1. /\ phase = "run" /\ runtime = "open" /\ stack # << >>
        /\ o \in Near /\ v \in Near \cup {Null}
    BY <1>1 DEF ScriptStore, InScript
  <2>2. Alive(list, o) /\ Alive(list, v)
    <3>1. Alive(list, Null)
      BY DEF Alive
    <3> QED
      BY <2>1, <3>1, HeldLive
  <2> QED
    BY <1>1, <2>1, <2>2, SetInv DEF ScriptStore
<1>2. ASSUME NEW o \in Objects, NEW e \in Objects, NEW k \in Keys, ScriptNew(o, k, e)
      PROVE  Inv'
  BY <1>2, ScriptNewInv
<1>3. ASSUME NEW this \in Values, NEW v \in Values, NEW args \in Objects, NEW k \in Keys,
             CallJava(this, v, args, k)
      PROVE  Inv'
  BY <1>3, CallJavaInv
<1>4. ASSUME NEW v \in Values, ReturnToJava(v) \/ Throw(v)
      PROVE  Inv'
  BY <1>4, ReturnToJavaInv, ThrowInv
<1> QED
  BY <1>1, <1>2, <1>3, <1>4 DEF ScriptStep

-----------------------------------------------------------------------------
(***************************************************************************)
(* The steps of free_zero_refcount and of JS_RunGC.                        *)
(***************************************************************************)

\* Nothing outside the heap takes or gives up a reference.
OutsideSame ==
    /\ handles' = handles /\ exc' = exc /\ stack' = stack /\ leaked' = leaked
    /\ runtime' = "open" <=> runtime = "open"

LEMMA RootsSame ==
    ASSUME OutsideSame
    PROVE  /\ \A n \in Nodes : Ext(n)' = Ext(n) /\ Holders(n)' = Holders(n) /\ Lost(n)' = Lost(n)
           /\ Roots' = Roots
<1>1. \A n \in Nodes : Holders(n)' = Holders(n) /\ Lost(n)' = Lost(n)
  BY DEF OutsideSame, Holders, Lost
<1>2. \A n \in Nodes : Ext(n)' = Ext(n)
  BY <1>1 DEF Ext
<1>3. Roots' = Roots
  BY <1>1 DEF Roots
<1> QED
  BY <1>1, <1>2, <1>3

\* Ext and the fields determine Total.
LEMMA TotalSame ==
    ASSUME OutsideSame, NEW n \in Nodes
    PROVE  /\ Total(n)' = Ext(n) + In(fields', n)
           /\ fields' = fields => Total(n)' = Total(n)
<1>1. Ext(n)' = Ext(n)
  BY RootsSame
<1>2. Cardinality(InFields(n))' = In(fields', n) /\ Cardinality(InFields(n)) = In(fields, n)
  BY DEF InFields, In
<1> QED
  BY <1>1, <1>2 DEF Total

\* What is reachable.
LEMMA Reaching ==
    /\ Roots \subseteq Reachable /\ Reachable \subseteq Nodes
    /\ \A p \in Reachable, s \in Slots : fields[p][s] \in Nodes => fields[p][s] \in Reachable
    /\ \A S \in SUBSET Nodes : Roots \subseteq S /\ Closed(S) => Reachable \subseteq S
<1>1. Roots \subseteq Reachable /\ Reachable \subseteq Nodes
  BY DEF Reachable, Roots
<1>2. ASSUME NEW p \in Reachable, NEW s \in Slots, fields[p][s] \in Nodes
      PROVE  fields[p][s] \in Reachable
  <2> SUFFICES ASSUME NEW S \in SUBSET Nodes, Roots \subseteq S, Closed(S)
               PROVE  fields[p][s] \in S
    BY <1>2 DEF Reachable
  <2>1. p \in S
    BY DEF Reachable
  <2> QED
    BY <1>2, <2>1, HeapParts DEF Closed
<1>3. \A S \in SUBSET Nodes : Roots \subseteq S /\ Closed(S) => Reachable \subseteq S
  BY DEF Reachable
<1> QED
  BY <1>1, <1>2, <1>3

\* It stays so while the fields of what is reachable stay.
LEMMA ReachSame ==
    ASSUME Roots' = Roots, \A n \in Reachable : fields'[n] = fields[n],
           fields \in FieldMaps
    PROVE  Reachable' = Reachable
<1>1. ASSUME NEW S \in SUBSET Nodes, Roots \subseteq S, Closed(S)'
      PROVE  Reachable \subseteq S
  <2> DEFINE T == S \cap Reachable
  <2>1. T \in SUBSET Nodes /\ Roots \subseteq T
    BY <1>1, Reaching
  <2>2. Closed(T)
    <3> SUFFICES ASSUME NEW n \in T, NEW s \in Slots
                 PROVE  fields[n][s] \in T \cup {Null}
      BY DEF Closed
    <3>1. fields[n][s] \in S \cup {Null}
      BY <1>1 DEF Closed
    <3>2. fields[n][s] \in Nodes => fields[n][s] \in Reachable
      BY Reaching
    <3> QED
      BY <3>1, <3>2
  <2>3. Reachable \subseteq T
    BY <2>1, <2>2, Reaching
  <2> QED
    BY <2>3
<1>2. PICK U \in SUBSET Nodes : U = Reachable
  BY Reaching
<1>3. Closed(U)'
  <2>1. \A n \in U, s \in Slots : fields[n][s] \in U \cup {Null}
    BY <1>2, Reaching DEF FieldMaps
  <2>2. \A n \in U, s \in Slots : fields'[n][s] \in U \cup {Null}
    BY <1>2, <2>1
  <2> QED
    BY <2>2 DEF Closed
<1>4. Reachable' = {n \in Nodes : \A S \in SUBSET Nodes : Roots \subseteq S /\ Closed(S)' => n \in S}
  BY DEF Reachable
<1>5. Roots \subseteq U
  BY <1>2, Reaching
<1> QED
  BY <1>1, <1>2, <1>3, <1>4, <1>5

\* The collector does not bring back to life what a runtime without
\* references from outside has left behind.
LEMMA RuntimeSame ==
    ASSUME Inv, UNCHANGED ownVars, On("live") = {} => On("live")' = {}, EndOK'
    PROVE  /\ RuntimeOK' /\ OwnOK' /\ OutsideSame
           /\ OwnTypesOK(handles', stack', leaked')
           /\ \A n \in Nodes : After(n) = Ext(n)
<1>1. /\ handles' = handles /\ exc' = exc /\ stack' = stack /\ runtime' = runtime
      /\ leaked' = leaked
  BY DEF ownVars
<1>2. RuntimeOK'
  BY <1>1 DEF Inv, RuntimeOK, NoneLost
<1>3. OwnOK'
  BY <1>1, OwnParts DEF OwnOK
<1>4. \A n \in Nodes : After(n) = Ext(n)
  BY <1>1, ExtIs DEF After, Inv
<1> QED
  BY <1>1, <1>2, <1>3, <1>4, OwnOKTypes DEF OutsideSame

LEMMA FreeZeroInv ==
    ASSUME Inv, NEW o \in Objects, FreeZero(o), UNCHANGED ownVars
    PROVE  Inv'
<1> DEFINE X == [n \in Nodes |-> Ext(n)]
           fl == [fields EXCEPT ![o] = NoFields]
           l == [list EXCEPT ![o] = "none"]
           r1 == LessFields(ref, o)
<1>1. /\ phase = "zero" /\ list[o] = "zero" /\ phase' = phase /\ todo' = todo
      /\ class' = [class EXCEPT ![o] = "object"]
      /\ ref' = Settle(r1)
      /\ fields' = [fields EXCEPT ![o] = NoFields, ![Ctx] = IF CtxDies(r1) THEN NoFields ELSE @]
  BY DEF FreeZero, FreeFields, On
<1>2. /\ o \in Nodes /\ o # Ctx /\ Ctx \in Nodes
      /\ list \in [Nodes -> Lists] /\ fields \in FieldMaps
  BY HeapParts DEF Inv, TypeOK, HeapTypeOK, FieldMaps
<1>3. /\ \A n \in Nodes : X[n] = Ext(n) /\ ref[n] = Total(n)
      /\ X \in [Nodes -> Nat]
      /\ \A n \in Nodes : Total(n) = X[n] + In(fields, n) /\ In(fields, n) \in Nat
  <2>1. \A n \in Nodes : ref[n] = Total(n)
    BY <1>1 DEF Inv, HeapInv, CountOK
  <2>2. \A n \in Nodes : Total(n) = Ext(n) + In(fields, n) /\ In(fields, n) \in Nat /\ Ext(n) \in Nat
    BY TotalIs DEF Inv
  <2> QED
    BY <2>1, <2>2
<1>4. /\ fl \in FieldMaps
      /\ \A n \in Nodes :
           /\ Cardinality({s \in Slots : fields[o][s] = n}) \in Nat
           /\ In(fl, n) = In(fields, n) - Cardinality({s \in Slots : fields[o][s] = n})
           /\ In(fl, n) <= In(fields, n)
  BY <1>2, Emptying
<1>5. /\ fl[Ctx] = fields[Ctx] /\ fl[o] = NoFields
      /\ \A n \in Nodes : n # o => fl[n] = fields[n]
  BY <1>2 DEF FieldMaps
<1>6. /\ l \in [Nodes -> Lists] /\ l[Ctx] = list[Ctx] /\ l[o] = "none"
      /\ \A n \in Nodes : n # o => l[n] = list[n]
  BY <1>2 DEF Lists
<1>7. fields' = SettledFields(fl, r1)
  BY <1>1, <1>2 DEF SettledFields, FieldMaps
<1>8. list' = SettledList(l, r1)
  <2>1. list' = [n \in Nodes |->
                  CASE n = o -> "none"
                    [] n = Ctx /\ CtxDies(r1) -> "none"
                    [] n \in Objects \ {o} /\ list[n] = "live" /\ ref'[n] <= 0 -> "zero"
                    [] OTHER -> list[n]]
    BY DEF FreeZero
  <2> HIDE DEF r1, l
  <2>2. ASSUME NEW n \in Nodes
        PROVE  (CASE n = o -> "none"
                  [] n = Ctx /\ CtxDies(r1) -> "none"
                  [] n \in Objects \ {o} /\ list[n] = "live" /\ ref'[n] <= 0 -> "zero"
                  [] OTHER -> list[n])
               = IF n \in Objects /\ l[n] = "live" /\ Settle(r1)[n] <= 0 THEN "zero"
                 ELSE IF n = Ctx /\ CtxDies(r1) THEN "none" ELSE l[n]
    <3>1. CASE n = o
      BY <1>2, <1>6, <3>1
    <3>2. CASE n = Ctx
      BY <1>2, <1>6, <3>2, HeapParts
    <3>3. CASE n # o /\ n # Ctx
      BY <1>1, <1>6, <3>3
    <3> QED
      BY <3>1, <3>2, <3>3
  <2> QED
    BY <2>1, <2>2 DEF SettledList
<1>9. Exact(r1, X, fl)
  <2>1. ASSUME NEW n \in Nodes
        PROVE  ref[n] - Edges(o, n) = X[n] + In(fl, n)
    <3>1. Edges(o, n) = Cardinality({s \in Slots : fields[o][s] = n})
      BY DEF Edges
    <3>2. X[n] \in Nat
      BY <1>3
    <3> HIDE DEF X, fl
    <3> QED
      BY <1>3, <1>4, <3>1, <3>2
  <2> QED
    BY <2>1 DEF Exact, LessFields
<1>10. ASSUME NEW n \in Nodes
       PROVE  /\ l[n] \in {"none", "live", "zero"}
              /\ l[n] = "none" => X[n] + In(fl, n) = 0 /\ fl[n] = NoFields
              /\ l[n] = "zero" => X[n] + In(fl, n) = 0 /\ n \in Objects
  <2>1. /\ list[n] \in {"none", "live", "zero"}
        /\ list[n] = "zero" => n \in Objects /\ Total(n) = 0
        /\ list[n] = "none" => Total(n) = 0 /\ fields[n] = NoFields
    BY <1>1 DEF Inv, HeapInv, ZeroOK, ListOK
  <2>2. Total(n) = 0 => X[n] + In(fl, n) = 0
    <3>1. In(fl, n) \in Nat /\ X[n] \in Nat
      BY <1>3, InFinite
    <3>2. Total(n) = X[n] + In(fields, n) /\ In(fields, n) \in Nat /\ In(fl, n) <= In(fields, n)
      BY <1>3, <1>4
    <3> HIDE DEF X, fl
    <3> QED
      BY <3>1, <3>2
  <2>3. CASE n = o
    BY <1>1, <1>5, <1>6, <2>1, <2>2, <2>3
  <2>4. CASE n # o
    <3>1. l[n] = list[n] /\ fl[n] = fields[n]
      BY <1>5, <1>6, <2>4
    <3> QED
      BY <2>1, <2>2, <3>1
  <2> QED
    BY <2>3, <2>4
<1>11. \A s \in Slots : fl[Ctx][s] \in {Null, Global}
  BY <1>5 DEF Inv, HeapInv, CtxOK
<1> HIDE DEF X, fl, l, r1
<1>12. /\ ref' \in [Nodes -> Int] /\ fields' \in FieldMaps /\ list' \in [Nodes -> Lists]
       /\ \A n \in Nodes :
            /\ ref'[n] = X[n] + In(fields', n)
            /\ list'[n] \in {"none", "live", "zero"}
            /\ list'[n] = "none" => ref'[n] = 0 /\ fields'[n] = NoFields
            /\ list'[n] = "live" => ref'[n] > 0 /\ l[n] = "live"
            /\ list'[n] = "zero" => ref'[n] = 0 /\ n \in Objects
       /\ \A s \in Slots : fields'[Ctx][s] \in {Null, Global}
  BY <1>1, <1>3, <1>4, <1>5, <1>6, <1>7, <1>8, <1>9, <1>10, <1>11, Listing
<1>13. (On("live") = {} => On("live")' = {}) /\ EndOK'
  BY <1>1, <1>6, <1>12 DEF On, Inv, RuntimeOK, EndOK, ownVars
<1>14. RuntimeOK' /\ OwnOK' /\ OwnTypesOK(handles', stack', leaked') /\ \A n \in Nodes : After(n) = X[n]
  BY <1>3, <1>13, RuntimeSame
<1>15. todo' = {} /\ phase' = "zero"
  BY <1>1 DEF Inv, HeapInv, TodoOK
<1>16. HeapInv'
  BY <1>12, <1>14, <1>15, Rebuild
<1>17. TypeOK'
  BY <1>1, <1>12, <1>14, <1>15, OwnParts
  DEF TypeOK, HeapTypeOK, OwnOK, ClassOK, FieldMaps, Phases
<1>18. KeysOK'
  <2>1. \A n \in Objects : fields'[n] \in {fields[n], NoFields}
    BY <1>1, <1>2, HeapParts DEF FieldMaps
  <2> QED
    BY <2>1, HeapParts DEF KeysOK, Inv, Values
<1> QED
  BY <1>14, <1>16, <1>17, <1>18 DEF Inv

LEMMA FreeZeroDoneInv ==
    ASSUME Inv, FreeZeroDone, UNCHANGED ownVars
    PROVE  Inv'
<1>1. /\ phase = "zero" /\ phase' = "run" /\ ref' = ref /\ class' = class /\ fields' = fields
      /\ list' = list /\ todo' = todo
      /\ \A n \in Nodes : list[n] # "zero"
  BY DEF FreeZeroDone, On
<1>2. /\ RuntimeOK' /\ OwnOK' /\ OwnTypesOK(handles', stack', leaked')
      /\ \A n \in Nodes : After(n) = Ext(n)
  <2>1. (On("live") = {} => On("live")' = {}) /\ EndOK'
    BY <1>1 DEF On, Inv, RuntimeOK, EndOK, ownVars
  <2> QED
    BY <2>1, RuntimeSame
<1>3. ASSUME NEW n \in Nodes
      PROVE  /\ ref'[n] = After(n) + In(fields', n)
             /\ list'[n] \in {"none", "live", "zero"}
             /\ list'[n] = "none" => ref'[n] = 0 /\ fields'[n] = NoFields
             /\ list'[n] = "live" => ref'[n] > 0
             /\ list'[n] # "zero"
  <2>1. ref[n] = Total(n) /\ list[n] \in {"none", "live", "zero"}
    BY <1>1 DEF Inv, HeapInv, CountOK, ZeroOK
  <2>2. /\ list[n] = "none" => Total(n) = 0 /\ fields[n] = NoFields
        /\ list[n] = "live" => Total(n) > 0
    BY DEF Inv, HeapInv, ListOK
  <2>3. Total(n) = Ext(n) + In(fields, n)
    BY TotalIs DEF Inv
  <2> QED
    BY <1>1, <1>2, <2>1, <2>2, <2>3
<1>4. todo' = {} /\ \A s \in Slots : fields'[Ctx][s] \in {Null, Global}
  BY <1>1 DEF Inv, HeapInv, TodoOK, CtxOK
<1>5. HeapInv'
  BY <1>1, <1>2, <1>3, <1>4, Rebuild
<1>6. TypeOK' /\ KeysOK'
  BY <1>1, <1>2 DEF TypeOK, HeapTypeOK, OwnOK, Inv, Phases, KeysOK, Values
<1> QED
  BY <1>2, <1>5, <1>6 DEF Inv

\* gc_decref leaves the references from outside the heap.
LEMMA GcDecrefInv ==
    ASSUME Inv, GcDecref, OutsideSame, OwnOK', runtime' # "freed",
           runtime' = runtime \/ (runtime = "collect" /\ runtime' = "assert")
    PROVE  Inv'
<1>1. /\ phase = "run" /\ phase' = "scan" /\ class' = class /\ fields' = fields
      /\ ref' = [c \in Nodes |-> ref[c] - FieldsIn(On("live"), c)]
      /\ list' = [n \in Nodes |-> IF list[n] = "live" /\ ref'[n] = 0 THEN "tmp" ELSE list[n]]
      /\ todo' = {n \in On("live") : ref'[n] # 0}
  BY DEF GcDecref
<1>2. /\ \A n \in Nodes : list[n] \in {"none", "live"}
      /\ \A n \in Nodes : list[n] = "none" => fields[n] = NoFields
  BY <1>1 DEF Inv, HeapInv, RunOK, ListOK
<1>3. ASSUME NEW n \in Nodes
      PROVE  ref'[n] = Ext(n) /\ Ext(n) \in Nat
  <2>1. ref[n] = Total(n)
    BY <1>1 DEF Inv, HeapInv, CountOK
  <2>2. On("live") \in SUBSET Nodes /\ \A m \in Nodes \ On("live") : fields[m] = NoFields
    BY <1>2 DEF On
  <2>3. FieldsIn(On("live"), n) = Cardinality(InFields(n))
    BY <2>2, FieldsInAll
  <2>4. Total(n) = Ext(n) + Cardinality(InFields(n)) /\ Ext(n) \in Nat
        /\ Cardinality(InFields(n)) \in Nat
    BY TotalIs DEF Inv, Total
  <2>5. ref'[n] = ref[n] - FieldsIn(On("live"), n)
    BY <1>1
  <2> QED
    BY <2>1, <2>3, <2>4, <2>5
<1>4. /\ Roots' = Roots
      /\ \A n \in Nodes : Ext(n)' = Ext(n) /\ Total(n)' = Total(n)
  BY <1>1, RootsSame, TotalSame
<1>5. Reachable' = Reachable
  BY <1>1, <1>4 DEF Reachable, Closed
<1>6. \A n \in Nodes : /\ list'[n] \in {"none", "live", "tmp"}
                       /\ list'[n] = "none" <=> list[n] = "none"
                       /\ list'[n] = "live" <=> list[n] = "live" /\ Ext(n) # 0
                       /\ list'[n] = "tmp" => Ext(n) = 0
                       /\ n \in todo' <=> list'[n] = "live"
  BY <1>1, <1>2, <1>3 DEF On
<1>7. CountOK'
  <2>1. On("live")' \ todo' = {}
    BY <1>6 DEF On
  <2>2. ASSUME NEW n \in Nodes
        PROVE  FieldsIn({}, n)' = 0
    <3>1. {e \in {} \X Slots : fields'[e[1]][e[2]] = n} = {}
      OBVIOUS
    <3> QED
      BY <3>1, FS_EmptySet DEF FieldsIn
  <2>3. ASSUME NEW n \in Nodes
        PROVE  FieldsIn(On("live") \ todo, n)' = 0
    BY <2>1, <2>2 DEF FieldsIn
  <2> QED
    BY <1>1, <1>3, <1>4, <2>3 DEF CountOK
<1>8. ListOK'
  BY <1>1, <1>4, <1>6 DEF Inv, HeapInv, ListOK
<1>9. ScanOK'
  <2>1. \A n \in Nodes : Ext(n) # 0 => n \in Reachable
    BY <1>3, ExtIs, Reaching DEF Roots, Inv
  <2> QED
    BY <1>3, <1>5, <1>6, <2>1 DEF ScanOK
<1>10. CtxOK' /\ RunOK' /\ ZeroOK' /\ CyclesOK' /\ TodoOK'
  BY <1>1 DEF Inv, HeapInv, CtxOK, RunOK, ZeroOK, CyclesOK, TodoOK
<1>11. TypeOK' /\ KeysOK'
  <2>1. ref' \in [Nodes -> Int] /\ list' \in [Nodes -> Lists] /\ todo' \in SUBSET Nodes
    BY <1>1, <1>3, <1>6 DEF Lists, On
  <2> QED
    BY <1>1, <2>1 DEF TypeOK, HeapTypeOK, OwnOK, Inv, Phases, KeysOK, Values
<1>12. RuntimeOK'
  <2>0. EndOK'
    BY <1>1 DEF EndOK
  <2>1. CASE runtime' = runtime
    <3>1. On("live") = {} => On("live")' = {}
      BY <1>6 DEF On
    <3> QED
      BY <2>0, <2>1, <3>1 DEF Inv, RuntimeOK, OutsideSame, NoneLost
  <2>2. CASE runtime = "collect" /\ runtime' = "assert"
    <3>1. stack = << >> /\ (\A o \in Objects : handles[o] = 0) /\ exc = Null
      BY <2>2 DEF Inv, RuntimeOK
    <3>2. ASSUME NoneLost, NEW n \in Nodes
          PROVE  Ext(n) = 0
      <4>1. PartsOf(n) /\ Ext(n) = ExtOf(handles, exc, runtime, stack, leaked, n)
        BY <1>1, PartsHold, ExtIs DEF Inv
      <4>2. HandlesOf(handles, n) = 0 /\ HandlesOf(leaked, n) = 0
        BY <3>1, <3>2, HeapParts DEF HandlesOf, NoneLost
      <4>3. Ind(exc, n) = 0 /\ ContextOf(runtime, n) = 0
        BY <2>2, <3>1, IndNull DEF ContextOf
      <4>4. Funcs(stack, n) = 0 /\ Args(stack, n) = 0
        <5>1. {i \in DOMAIN stack : stack[i].func = n} = {} /\ {i \in DOMAIN stack : stack[i].arg = n} = {}
          BY <3>1
        <5> QED
          BY <5>1, FS_EmptySet DEF Funcs, Args
      <4> QED
        BY <4>1, <4>2, <4>3, <4>4 DEF ExtOf
    <3>3. NoneLost' => On("live")' = {}
      BY <1>6, <3>2 DEF On, NoneLost, OutsideSame
    <3> QED
      BY <2>0, <2>2, <3>1, <3>3 DEF RuntimeOK, OutsideSame
  <2> QED
    BY <2>1, <2>2
<1> QED
  BY <1>7, <1>8, <1>9, <1>10, <1>11, <1>12 DEF Inv, HeapInv

\* gc_scan comes to a node: the references from it count again, and what it
\* saves is reachable.
LEMMA GcScanInv ==
    ASSUME Inv, NEW p \in Nodes, GcScan(p), UNCHANGED ownVars
    PROVE  Inv'
<1> DEFINE saved == {c \in Nodes : ref[c] = 0 /\ Edges(p, c) > 0}
           L == On("live")
           D == L \ todo
<1>1. /\ phase = "scan" /\ p \in todo /\ class' = class /\ fields' = fields /\ phase' = phase
      /\ ref' = [c \in Nodes |-> ref[c] + Edges(p, c)]
      /\ list' = [n \in Nodes |-> IF n \in saved THEN "live" ELSE list[n]]
      /\ todo' = (todo \ {p}) \cup saved
  BY DEF GcScan
<1>2. \A n \in Nodes :
        /\ list[n] \in {"none", "live", "tmp"}
        /\ list[n] = "live" => ref[n] > 0 /\ n \in Reachable
        /\ list[n] = "tmp" => ref[n] = 0
        /\ n \in todo => list[n] = "live"
  BY <1>1 DEF Inv, HeapInv, ScanOK
<1>3. todo \subseteq L /\ L \in SUBSET Nodes /\ p \in L /\ D \in SUBSET Nodes
  BY <1>1, <1>2 DEF On, Inv, TypeOK, HeapTypeOK
<1>4. \A n \in Nodes : /\ ref[n] = Ext(n) + FieldsIn(D, n)
                       /\ Ext(n) \in Nat /\ FieldsIn(D, n) \in Nat /\ Edges(p, n) \in Nat
  <2>1. \A n \in Nodes : FieldsIn(D, n) \in Nat
    BY <1>3, FieldsInTypes
  <2> QED
    BY <1>1, <2>1, ExtIs, FieldsInOne DEF Inv, HeapInv, CountOK
<1>5. ASSUME NEW n \in Nodes, Edges(p, n) > 0
      PROVE  list[n] # "none" /\ n \in Reachable
  <2>1. FieldsIn({p}, n) > 0 /\ {p} \in SUBSET Nodes
    BY <1>5, FieldsInOne
  <2>2. PICK s \in Slots : fields[p][s] = n
    BY <2>1, Referred
  <2>3. Cardinality(InFields(n)) > 0
    BY <2>1, <2>2, Referred
  <2>4. Total(n) = Ext(n) + Cardinality(InFields(n))
    BY DEF Total
  <2>5. Total(n) > 0
    BY <1>4, <2>3, <2>4, TotalIs DEF Inv
  <2>6. list[n] # "none"
    BY <2>5 DEF Inv, HeapInv, ListOK
  <2>7. p \in Reachable
    BY <1>2, <1>3 DEF On
  <2> QED
    BY <2>2, <2>6, <2>7, Reaching
<1>6. saved \subseteq Nodes /\ \A n \in saved : list[n] = "tmp" /\ n \in Reachable /\ Edges(p, n) > 0
  <2> SUFFICES ASSUME NEW n \in saved
               PROVE  list[n] = "tmp" /\ n \in Reachable
    OBVIOUS
  <2>1. n \in Nodes /\ ref[n] = 0 /\ Edges(p, n) > 0
    OBVIOUS
  <2> QED
    BY <1>2, <1>5, <2>1
<1>7. \A n \in Nodes \ saved : ref[n] # 0 \/ Edges(p, n) = 0
  BY <1>4
<1> HIDE DEF saved
<1>8. On("live")' = L \cup saved
  BY <1>1, <1>6 DEF On
<1>9. p \notin saved
  BY <1>3, <1>6 DEF On
<1>10. On("live")' \ todo' = D \cup {p}
  BY <1>1, <1>3, <1>6, <1>8, <1>9 DEF On
<1>11. D \cap {p} = {}
  BY <1>1
<1>12. \A n \in Nodes : Ext(n)' = Ext(n) /\ Total(n)' = Total(n)
  <2>1. OutsideSame
    BY DEF OutsideSame, ownVars
  <2> QED
    BY <1>1, <2>1, RootsSame, TotalSame
<1>13. Reachable' = Reachable
  <2>1. Roots' = Roots
    <3>1. OutsideSame
      BY DEF OutsideSame, ownVars
    <3> QED
      BY <3>1, RootsSame
  <2> QED
    BY <1>1, <2>1 DEF Reachable, Closed
<1>14. CountOK'
  <2> SUFFICES ASSUME NEW n \in Nodes
               PROVE  ref'[n] = Ext(n) + FieldsIn(On("live") \ todo, n)'
    BY <1>1, <1>12 DEF CountOK
  <2>1. FieldsIn(D \cup {p}, n) = FieldsIn(D, n) + FieldsIn({p}, n)
    BY <1>3, <1>11, FieldsInUnion
  <2>2. FieldsIn({p}, n) = Edges(p, n)
    BY FieldsInOne
  <2>3. FieldsIn(On("live") \ todo, n)' = FieldsIn(D \cup {p}, n)
    <3> HIDE DEF D
    <3> QED
      BY <1>1, <1>10 DEF FieldsIn
  <2>4. ref'[n] = ref[n] + Edges(p, n)
    BY <1>1
  <2> HIDE DEF D
  <2> QED
    BY <1>4, <2>1, <2>2, <2>3, <2>4
<1>15. \A n \in Nodes : /\ list'[n] \in {"none", "live", "tmp"}
                        /\ list'[n] = "none" <=> list[n] = "none"
                        /\ list'[n] = "live" <=> list[n] = "live" \/ n \in saved
                        /\ list'[n] = "tmp" <=> list[n] = "tmp" /\ n \notin saved
  BY <1>1, <1>2, <1>6
<1>16. ListOK'
  <2> SUFFICES ASSUME NEW n \in Nodes
               PROVE  /\ list'[n] = "none" => Total(n) = 0 /\ fields[n] = NoFields
                      /\ list'[n] = "live" \/ (n = Ctx /\ list'[n] # "none") => Total(n) > 0
    BY <1>1, <1>12 DEF ListOK
  <2>1. /\ list[n] = "none" => Total(n) = 0 /\ fields[n] = NoFields
        /\ list[n] = "live" \/ (n = Ctx /\ list[n] # "none") => Total(n) > 0
    BY DEF Inv, HeapInv, ListOK
  <2>2. n \in saved => Total(n) > 0
    <3> SUFFICES ASSUME n \in saved
                 PROVE  Total(n) > 0
      OBVIOUS
    <3>1. FieldsIn({p}, n) > 0 /\ {p} \in SUBSET Nodes
      BY <1>6, FieldsInOne
    <3>2. Cardinality(InFields(n)) > 0
      BY <3>1, Referred
    <3> QED
      BY <1>4, <3>2, TotalIs DEF Inv, Total
  <2> QED
    BY <1>15, <2>1, <2>2
<1>17. ScanOK'
  <2> SUFFICES ASSUME NEW n \in Nodes
               PROVE  /\ list'[n] = "live" => ref'[n] > 0 /\ n \in Reachable
                      /\ list'[n] = "tmp" => ref'[n] = 0
                      /\ n \in todo' => list'[n] = "live"
    BY <1>13, <1>15 DEF ScanOK
  <2>1. ref'[n] = ref[n] + Edges(p, n) /\ Edges(p, n) \in Nat /\ ref[n] \in Nat
    BY <1>1, <1>4
  <2>2. list'[n] = "live" => ref'[n] > 0 /\ n \in Reachable
    BY <1>2, <1>6, <1>15, <2>1
  <2>3. list'[n] = "tmp" => ref'[n] = 0
    BY <1>2, <1>7, <1>15, <2>1
  <2>4. n \in todo' => list'[n] = "live"
    BY <1>1, <1>2, <1>15
  <2> QED
    BY <2>2, <2>3, <2>4
<1>18. CtxOK' /\ RunOK' /\ ZeroOK' /\ CyclesOK' /\ TodoOK'
  BY <1>1 DEF Inv, HeapInv, CtxOK, RunOK, ZeroOK, CyclesOK, TodoOK
<1>19. RuntimeOK' /\ OwnOK'
  <2>1. On("live") # {} /\ EndOK'
    BY <1>1, <1>3 DEF Inv, RuntimeOK, EndOK, ownVars
  <2> QED
    BY <2>1, RuntimeSame
<1>20. TypeOK' /\ KeysOK'
  <2>1. ref' \in [Nodes -> Int]
    <3>1. \A n \in Nodes : ref[n] + Edges(p, n) \in Int
      BY <1>4
    <3> QED
      BY <1>1, <3>1
  <2>2. list' \in [Nodes -> Lists] /\ todo' \in SUBSET Nodes
    BY <1>1, <1>3, <1>6, <1>15 DEF Lists
  <2> QED
    BY <1>1, <1>19, <2>1, <2>2 DEF TypeOK, HeapTypeOK, OwnOK, Inv, Phases, KeysOK, Values
<1> QED
  BY <1>14, <1>16, <1>17, <1>18, <1>19, <1>20 DEF Inv, HeapInv

\* What gc_scan has left on gc_obj_list is what can be reached.
LEMMA GcScanDoneInv ==
    ASSUME Inv, GcScanDone, UNCHANGED ownVars
    PROVE  Inv'
<1> DEFINE L == On("live")
           T == On("tmp")
<1>1. /\ phase = "scan" /\ todo = {} /\ phase' = "cycles" /\ class' = class /\ fields' = fields
      /\ ref' = [c \in Nodes |-> ref[c] + FieldsIn(T, c)]
      /\ list' = list /\ todo' = todo
  BY DEF GcScanDone
<1>2. \A n \in Nodes :
        /\ list[n] \in {"none", "live", "tmp"}
        /\ list[n] = "live" => ref[n] > 0 /\ n \in Reachable
        /\ list[n] = "tmp" => ref[n] = 0
  BY <1>1 DEF Inv, HeapInv, ScanOK
<1>3. L \in SUBSET Nodes /\ T \in SUBSET Nodes /\ L \cup T \in SUBSET Nodes /\ L \cap T = {}
  BY DEF On
<1>4. \A n \in Nodes : /\ ref[n] = Ext(n) + FieldsIn(L, n)
                       /\ Ext(n) \in Nat /\ FieldsIn(L, n) \in Nat /\ FieldsIn(T, n) \in Nat
  <2>1. L \ todo = L
    BY <1>1
  <2>2. \A n \in Nodes : FieldsIn(L, n) \in Nat /\ FieldsIn(T, n) \in Nat
    BY <1>3, FieldsInTypes
  <2> QED
    BY <1>1, <2>1, <2>2, ExtIs DEF Inv, HeapInv, CountOK
<1>5. \A n \in Nodes \ (L \cup T) : fields[n] = NoFields
  BY <1>2 DEF On, Inv, HeapInv, ListOK
<1>6. ASSUME NEW n \in Nodes
      PROVE  ref'[n] = Total(n)
  <2>1. FieldsIn(L \cup T, n) = FieldsIn(L, n) + FieldsIn(T, n)
    BY <1>3, FieldsInUnion
  <2>2. FieldsIn(L \cup T, n) = Cardinality(InFields(n))
    BY <1>3, <1>5, FieldsInAll
  <2>3. ref'[n] = ref[n] + FieldsIn(T, n)
    BY <1>1
  <2>4. Total(n) = Ext(n) + Cardinality(InFields(n))
    BY DEF Total
  <2> HIDE DEF L, T
  <2> QED
    BY <1>4, <2>1, <2>2, <2>3, <2>4
<1>7. OutsideSame
  BY DEF OutsideSame, ownVars
<1>8. /\ \A n \in Nodes : Ext(n)' = Ext(n) /\ Total(n)' = Total(n)
      /\ Roots' = Roots
  BY <1>1, <1>7, RootsSame, TotalSame
<1>9. Reachable' = Reachable
  BY <1>1, <1>8 DEF Reachable, Closed
<1>10. ASSUME NEW n \in Nodes, Ext(n) > 0 \/ FieldsIn(L, n) > 0
       PROVE  n \in L
  <2>1. ref[n] > 0
    BY <1>4, <1>10
  <2>2. Total(n) > 0
    <3>1. FieldsIn(L, n) > 0 => Cardinality(InFields(n)) > 0
      BY <1>3, Referred
    <3>2. Total(n) = Ext(n) + Cardinality(InFields(n)) /\ Cardinality(InFields(n)) \in Nat
      BY TotalIs DEF Inv, Total
    <3> QED
      BY <1>4, <1>10, <3>1, <3>2
  <2>3. list[n] # "none"
    BY <2>2 DEF Inv, HeapInv, ListOK
  <2> QED
    BY <1>2, <2>1, <2>3 DEF On
<1>11. Roots \subseteq L /\ Closed(L)
  <2>1. Roots \subseteq L
    BY <1>10, ExtIs DEF Roots, Inv
  <2>2. ASSUME NEW m \in L, NEW s \in Slots
        PROVE  fields[m][s] \in L \cup {Null}
    <3>1. fields[m][s] \in Nodes \cup {Null}
      BY <1>3 DEF Inv, TypeOK, HeapTypeOK
    <3>2. fields[m][s] \in Nodes => FieldsIn(L, fields[m][s]) > 0
      BY <1>3, Referred
    <3> QED
      BY <1>10, <3>1, <3>2
  <2> QED
    BY <2>1, <2>2 DEF Closed
<1>12. L = Reachable
  <2>1. Reachable \subseteq L
    BY <1>3, <1>11, Reaching
  <2>2. L \subseteq Reachable
    BY <1>2 DEF On
  <2> QED
    BY <2>1, <2>2
<1>13. ASSUME NEW n \in L
       PROVE  Ext(n) > 0 \/ \E m \in L, s \in Slots : fields[m][s] = n
  <2>1. n \in Nodes /\ ref[n] > 0
    BY <1>2 DEF On
  <2>2. Ext(n) > 0 \/ FieldsIn(L, n) > 0
    BY <1>4, <2>1
  <2> QED
    BY <1>3, <2>2, Referred
<1>14. On("live")' = L
  BY <1>1 DEF On
<1>15. CyclesOK'
  <2>1. \A n \in Objects : list'[n] # "zero"
    BY <1>1, <1>2, HeapParts
  <2>2. \A n \in L : n \in Nodes
    BY <1>3
  <2>3. \A n \in L : Ext(n)' > 0 \/ \E m \in L, s \in Slots : fields'[m][s] = n
    BY <1>1, <1>8, <1>13, <2>2
  <2> HIDE DEF L
  <2> QED
    BY <1>9, <1>12, <1>14, <2>1, <2>3 DEF CyclesOK
<1>16. CountOK'
  BY <1>1, <1>6, <1>8 DEF CountOK
<1>17. ListOK'
  BY <1>1, <1>8 DEF Inv, HeapInv, ListOK
<1>18. CtxOK' /\ RunOK' /\ ZeroOK' /\ ScanOK' /\ TodoOK'
  BY <1>1 DEF Inv, HeapInv, CtxOK, RunOK, ZeroOK, ScanOK, TodoOK
<1>19. RuntimeOK' /\ OwnOK'
  <2>1. EndOK'
    BY <1>1 DEF Inv, RuntimeOK, EndOK, ownVars
  <2> QED
    BY <1>14, <2>1, RuntimeSame
<1>20. TypeOK' /\ KeysOK'
  <2>1. ref' \in [Nodes -> Int]
    <3>1. \A n \in Nodes : ref[n] + FieldsIn(T, n) \in Int
      BY <1>4
    <3> QED
      BY <1>1, <3>1
  <2> QED
    BY <1>1, <1>19, <2>1 DEF TypeOK, HeapTypeOK, OwnOK, Inv, Phases, KeysOK, Values
<1> QED
  BY <1>15, <1>16, <1>17, <1>18, <1>19, <1>20 DEF Inv, HeapInv

\* gc_free_cycles: what can be reached keeps its fields, and the context does
\* not die while it can be reached.
LEMMA GcFreeObjectInv ==
    ASSUME Inv, NEW p \in Objects, GcFree(p), UNCHANGED ownVars
    PROVE  Inv'
<1> DEFINE X == [n \in Nodes |-> Ext(n)]
           fl == [fields EXCEPT ![p] = NoFields]
           r1 == LessFields(ref, p)
           L == On("live")
<1>1. /\ p # Ctx /\ p \in Nodes /\ Ctx \in Nodes
      /\ list \in [Nodes -> Lists] /\ fields \in FieldMaps
  BY HeapParts DEF Inv, TypeOK, HeapTypeOK, FieldMaps
<1>2. /\ phase = "cycles" /\ list[p] = "tmp" /\ phase' = phase /\ todo' = todo
      /\ class' = [class EXCEPT ![p] = "object"]
      /\ ref' = Settle(r1)
      /\ fields' = [fields EXCEPT ![p] = NoFields, ![Ctx] = IF CtxDies(r1) THEN NoFields ELSE @]
      /\ list' = [list EXCEPT ![p] = IF ref'[p] # 0 THEN "zero" ELSE "none",
                              ![Ctx] = IF CtxDies(r1) THEN "none" ELSE @]
  BY <1>1 DEF GcFree, FreeFields, On
<1>3. /\ L = Reachable /\ L \in SUBSET Nodes
      /\ \A n \in L : Ext(n) > 0 \/ \E m \in L, s \in Slots : fields[m][s] = n
      /\ \A n \in Objects : list[n] = "zero" => fields[n] = NoFields
  BY <1>2 DEF Inv, HeapInv, CyclesOK, On
<1>4. /\ \A n \in Nodes : X[n] = Ext(n) /\ ref[n] = Total(n)
      /\ X \in [Nodes -> Nat]
      /\ \A n \in Nodes : Total(n) = X[n] + In(fields, n) /\ In(fields, n) \in Nat
  <2>1. \A n \in Nodes : ref[n] = Total(n)
    BY <1>2 DEF Inv, HeapInv, CountOK
  <2>2. \A n \in Nodes : Total(n) = Ext(n) + In(fields, n) /\ In(fields, n) \in Nat /\ Ext(n) \in Nat
    BY TotalIs DEF Inv
  <2> QED
    BY <2>1, <2>2
<1>5. /\ fl \in FieldMaps
      /\ \A n \in Nodes :
           /\ Cardinality({s \in Slots : fields[p][s] = n}) \in Nat
           /\ In(fl, n) = In(fields, n) - Cardinality({s \in Slots : fields[p][s] = n})
           /\ In(fl, n) <= In(fields, n)
  BY <1>1, Emptying
<1>6. /\ fl[Ctx] = fields[Ctx] /\ fl[p] = NoFields
      /\ \A n \in Nodes : n # p => fl[n] = fields[n]
  BY <1>1 DEF FieldMaps
<1>7. fields' = SettledFields(fl, r1)
  BY <1>1, <1>2 DEF SettledFields, FieldMaps
<1>8. Exact(r1, X, fl)
  <2>1. ASSUME NEW n \in Nodes
        PROVE  ref[n] - Edges(p, n) = X[n] + In(fl, n)
    <3>1. Edges(p, n) = Cardinality({s \in Slots : fields[p][s] = n})
      BY DEF Edges
    <3>2. X[n] \in Nat
      BY <1>4
    <3> HIDE DEF X, fl
    <3> QED
      BY <1>4, <1>5, <3>1, <3>2
  <2> QED
    BY <2>1 DEF Exact, LessFields
<1> HIDE DEF X, fl, r1
<1>9. /\ ref' \in [Nodes -> Int] /\ fields' \in FieldMaps
      /\ \A n \in Nodes : /\ ref'[n] = X[n] + In(fields', n) /\ ref'[n] >= 0
                          /\ In(fields', n) \in Nat /\ In(fields', n) <= In(fl, n)
                          /\ n # Ctx => fields'[n] = fl[n]
                          /\ fields'[n] \in {fl[n], NoFields}
      /\ CtxDies(r1) => ref'[Ctx] = 0 /\ fields'[Ctx] = NoFields
      /\ ~CtxDies(r1) /\ list[Ctx] # "none" => ref'[Ctx] > 0
  BY <1>2, <1>4, <1>5, <1>6, <1>7, <1>8, Settling
<1>10. /\ \A n \in Nodes : n # p /\ n # Ctx => list'[n] = list[n]
       /\ list'[p] = IF ref'[p] # 0 THEN "zero" ELSE "none"
       /\ list'[Ctx] = IF CtxDies(r1) THEN "none" ELSE list[Ctx]
       /\ list' \in [Nodes -> Lists]
  BY <1>1, <1>2 DEF Lists
<1>11. CtxDies(r1) => Ctx \notin L
  <2> SUFFICES ASSUME Ctx \in L
               PROVE  ~CtxDies(r1)
    OBVIOUS
  <2>1. r1[Ctx] = X[Ctx] + In(fl, Ctx) /\ X[Ctx] \in Nat /\ In(fl, Ctx) \in Nat
    BY <1>1, <1>4, <1>8, InFinite DEF Exact
  <2>2. CASE Ext(Ctx) > 0
    <3>1. r1[Ctx] > 0
      BY <1>1, <1>4, <2>1, <2>2
    <3> QED
      BY <2>1, <3>1 DEF CtxDies
  <2>3. CASE \E m \in L, s \in Slots : fields[m][s] = Ctx
    <3>1. PICK m \in L, s \in Slots : fields[m][s] = Ctx
      BY <2>3
    <3>2. m \in Nodes /\ m # p
      BY <1>2, <1>3 DEF On
    <3>3. fl[m][s] = Ctx
      BY <1>6, <3>1, <3>2
    <3>4. In(fl, Ctx) > 0
      <4>1. <<m, s>> \in {e \in Nodes \X Slots : fl[e[1]][e[2]] = Ctx}
        BY <3>2, <3>3
      <4>2. IsFiniteSet({e \in Nodes \X Slots : fl[e[1]][e[2]] = Ctx})
        BY InFinite
      <4>3. Cardinality({e \in Nodes \X Slots : fl[e[1]][e[2]] = Ctx}) # 0
        BY <4>1, <4>2, FS_EmptySet
      <4> QED
        BY <2>1, <4>3 DEF In
    <3>5. r1[Ctx] > 0
      BY <2>1, <3>4
    <3> QED
      BY <2>1, <3>5 DEF CtxDies
  <2> QED
    BY <1>3, <2>2, <2>3
<1>12. On("live")' = L
  <2> SUFFICES ASSUME NEW n \in Nodes
               PROVE  list'[n] = "live" <=> list[n] = "live"
    BY DEF On
  <2>1. CASE n = p
    BY <1>2, <1>10, <2>1
  <2>2. CASE n = Ctx
    BY <1>10, <1>11, <2>2 DEF On
  <2>3. CASE n # p /\ n # Ctx
    BY <1>10, <2>3
  <2> QED
    BY <2>1, <2>2, <2>3
<1>13. \A n \in L : fields'[n] = fields[n]
  <2> SUFFICES ASSUME NEW n \in L
               PROVE  fields'[n] = fields[n]
    OBVIOUS
  <2>1. n \in Nodes /\ n # p
    BY <1>2, <1>3 DEF On
  <2>2. fl[n] = fields[n]
    BY <1>6, <2>1
  <2>3. CASE n # Ctx
    BY <1>9, <2>1, <2>2, <2>3
  <2>4. CASE n = Ctx
    <3>1. fields' = fl
      BY <1>7, <1>11, <2>4 DEF SettledFields
    <3> QED
      BY <2>2, <3>1
  <2> QED
    BY <2>3, <2>4
<1>14. OutsideSame
  BY DEF OutsideSame, ownVars
<1>15. /\ \A n \in Nodes : Ext(n)' = Ext(n) /\ Total(n)' = ref'[n]
       /\ Roots' = Roots
  BY <1>4, <1>9, <1>14, RootsSame, TotalSame
<1>16. Reachable' = Reachable
  BY <1>1, <1>3, <1>13, <1>15, ReachSame
<1>17. \A n \in Nodes : Total(n) = 0 => ref'[n] = 0
  <2> SUFFICES ASSUME NEW n \in Nodes, Total(n) = 0
               PROVE  ref'[n] = 0
    OBVIOUS
  <2>1. /\ Total(n) = X[n] + In(fields, n) /\ In(fields, n) \in Nat /\ X[n] \in Nat
        /\ In(fl, n) <= In(fields, n) /\ In(fl, n) \in Nat
    BY <1>4, <1>5, InFinite
  <2>2. ref'[n] = X[n] + In(fields', n) /\ In(fields', n) \in Nat /\ In(fields', n) <= In(fl, n)
    BY <1>9
  <2> QED
    BY <2>1, <2>2
<1>18. ASSUME NEW n \in L
       PROVE  ref'[n] > 0 /\ (Ext(n)' > 0 \/ \E m \in L, s \in Slots : fields'[m][s] = n)
  <2>1. n \in Nodes /\ X[n] \in Nat /\ In(fields', n) \in Nat /\ ref'[n] = X[n] + In(fields', n)
    BY <1>3, <1>4, <1>9
  <2>2. CASE Ext(n) > 0
    BY <1>4, <1>15, <2>1, <2>2
  <2>3. CASE \E m \in L, s \in Slots : fields[m][s] = n
    <3>1. PICK m \in L, s \in Slots : fields'[m][s] = n
      BY <1>13, <2>3
    <3>2. In(fields', n) > 0
      <4>1. <<m, s>> \in {e \in Nodes \X Slots : fields'[e[1]][e[2]] = n}
        BY <1>3, <3>1
      <4>2. IsFiniteSet({e \in Nodes \X Slots : fields'[e[1]][e[2]] = n})
        BY InFinite
      <4>3. Cardinality({e \in Nodes \X Slots : fields'[e[1]][e[2]] = n}) # 0
        BY <4>1, <4>2, FS_EmptySet
      <4> QED
        BY <2>1, <4>3 DEF In
    <3> QED
      BY <2>1, <3>1, <3>2
  <2> QED
    BY <1>3, <2>2, <2>3
<1>19. ListOK'
  <2> SUFFICES ASSUME NEW n \in Nodes
               PROVE  /\ list'[n] = "none" => ref'[n] = 0 /\ fields'[n] = NoFields
                      /\ list'[n] = "live" \/ (n = Ctx /\ list'[n] # "none") => ref'[n] > 0
    BY <1>15 DEF ListOK
  <2>1. list'[n] = "live" => ref'[n] > 0
    BY <1>12, <1>18 DEF On
  <2>2. list[n] = "none" => ref'[n] = 0 /\ fields[n] = NoFields
    BY <1>17 DEF Inv, HeapInv, ListOK
  <2>3. CASE n = p
    BY <1>1, <1>6, <1>9, <1>10, <2>1, <2>3
  <2>4. CASE n = Ctx
    <3>1. CASE CtxDies(r1)
      BY <1>9, <1>10, <2>1, <2>4, <3>1
    <3>2. CASE ~CtxDies(r1)
      <4>1. list'[n] = list[n] /\ fields' = fl
        BY <1>7, <1>10, <2>4, <3>2 DEF SettledFields
      <4> QED
        BY <1>6, <1>9, <2>1, <2>2, <2>4, <3>2, <4>1
    <3> QED
      BY <3>1, <3>2
  <2>5. CASE n # p /\ n # Ctx
    BY <1>6, <1>9, <1>10, <2>1, <2>2, <2>5
  <2> QED
    BY <2>3, <2>4, <2>5
<1>20. CyclesOK'
  <2>1. \A n \in Objects : list'[n] = "zero" => fields'[n] = NoFields
    <3> SUFFICES ASSUME NEW n \in Objects, list'[n] = "zero"
                 PROVE  fields'[n] = NoFields
      OBVIOUS
    <3>1. n \in Nodes /\ n # Ctx /\ fields'[n] = fl[n]
      BY <1>9, HeapParts
    <3>2. CASE n = p
      BY <1>6, <3>1, <3>2
    <3>3. CASE n # p
      BY <1>3, <1>6, <1>10, <3>1, <3>3
    <3> QED
      BY <3>2, <3>3
  <2> HIDE DEF L
  <2> QED
    BY <1>3, <1>12, <1>16, <1>18, <2>1 DEF CyclesOK
<1>21. CountOK'
  BY <1>2, <1>15 DEF CountOK
<1>22. CtxOK'
  <2>1. fields'[Ctx] \in {fields[Ctx], NoFields}
    BY <1>1, <1>6, <1>9
  <2> QED
    BY <2>1, HeapParts DEF CtxOK, Inv, HeapInv
<1>23. RunOK' /\ ZeroOK' /\ ScanOK' /\ TodoOK'
  BY <1>2 DEF Inv, HeapInv, RunOK, ZeroOK, ScanOK, TodoOK
<1>24. RuntimeOK' /\ OwnOK'
  <2>1. EndOK'
    BY <1>2 DEF Inv, RuntimeOK, EndOK, ownVars
  <2> QED
    BY <1>12, <2>1, RuntimeSame
<1>25. TypeOK' /\ KeysOK'
  <2>1. \A n \in Objects : fields'[n] \in {fields[n], NoFields}
    BY <1>6, <1>9, HeapParts
  <2>2. KeysOK'
    BY <2>1, HeapParts DEF KeysOK, Inv, Values
  <2>3. ClassOK'
    BY <1>2, OwnParts DEF ClassOK
  <2> QED
    BY <1>2, <1>9, <1>10, <1>24, <2>2, <2>3
    DEF TypeOK, HeapTypeOK, OwnOK, ClassOK, Inv, FieldMaps
<1> QED
  BY <1>19, <1>20, <1>21, <1>22, <1>23, <1>24, <1>25 DEF Inv, HeapInv

\* The context is only moved.
LEMMA GcFreeContextInv ==
    ASSUME Inv, GcFree(Ctx), UNCHANGED ownVars
    PROVE  Inv'
<1>1. /\ phase = "cycles" /\ list[Ctx] = "tmp" /\ phase' = phase /\ todo' = todo
      /\ list' = [list EXCEPT ![Ctx] = "zero"]
      /\ ref' = ref /\ class' = class /\ fields' = fields
  BY DEF GcFree, On
<1>2. Ctx \in Nodes /\ Ctx \notin Objects /\ list \in [Nodes -> Lists]
  BY HeapParts DEF Inv, TypeOK, HeapTypeOK
<1>3. /\ \A n \in Nodes : n # Ctx => list'[n] = list[n]
      /\ list'[Ctx] = "zero" /\ list' \in [Nodes -> Lists]
  BY <1>1, <1>2 DEF Lists
<1>4. On("live")' = On("live")
  BY <1>1, <1>3 DEF On
<1>5. OutsideSame
  BY DEF OutsideSame, ownVars
<1>6. /\ \A n \in Nodes : Ext(n)' = Ext(n) /\ Total(n)' = Total(n)
      /\ Roots' = Roots
  BY <1>1, <1>5, RootsSame, TotalSame
<1>7. Reachable' = Reachable
  BY <1>1, <1>6 DEF Reachable, Closed
<1>8. CountOK'
  BY <1>1, <1>6 DEF Inv, HeapInv, CountOK
<1>9. ListOK'
  <2> SUFFICES ASSUME NEW n \in Nodes
               PROVE  /\ list'[n] = "none" => Total(n) = 0 /\ fields[n] = NoFields
                      /\ list'[n] = "live" \/ (n = Ctx /\ list'[n] # "none") => Total(n) > 0
    BY <1>1, <1>6 DEF ListOK
  <2>1. /\ list[n] = "none" => Total(n) = 0 /\ fields[n] = NoFields
        /\ list[n] = "live" \/ (n = Ctx /\ list[n] # "none") => Total(n) > 0
    BY DEF Inv, HeapInv, ListOK
  <2> QED
    BY <1>1, <1>3, <2>1
<1>10. CyclesOK'
  <2>1. /\ On("live") = Reachable
        /\ \A n \in On("live") :
              Ext(n) > 0 \/ \E m \in On("live"), s \in Slots : fields[m][s] = n
        /\ \A n \in Objects : list[n] = "zero" => fields[n] = NoFields
    BY <1>1 DEF Inv, HeapInv, CyclesOK
  <2>2. \A n \in On("live") : n \in Nodes
    BY DEF On
  <2>3. \A n \in On("live")' :
           Ext(n)' > 0 \/ \E m \in On("live")', s \in Slots : fields'[m][s] = n
    BY <1>1, <1>4, <1>6, <2>1, <2>2
  <2>4. \A n \in Objects : list'[n] = "zero" => fields'[n] = NoFields
    BY <1>1, <1>2, <1>3, <2>1, HeapParts
  <2> QED
    BY <1>4, <1>7, <2>1, <2>3, <2>4 DEF CyclesOK
<1>11. CtxOK' /\ RunOK' /\ ZeroOK' /\ ScanOK' /\ TodoOK'
  BY <1>1 DEF Inv, HeapInv, CtxOK, RunOK, ZeroOK, ScanOK, TodoOK
<1>12. RuntimeOK' /\ OwnOK'
  <2>1. EndOK'
    BY <1>1 DEF Inv, RuntimeOK, EndOK, ownVars
  <2> QED
    BY <1>4, <2>1, RuntimeSame
<1>13. TypeOK' /\ KeysOK'
  BY <1>1, <1>3, <1>12 DEF TypeOK, HeapTypeOK, OwnOK, Inv, KeysOK, Values
<1> QED
  BY <1>8, <1>9, <1>10, <1>11, <1>12, <1>13 DEF Inv, HeapInv

\* When gc_free_cycles has come to the end of tmp_obj_list nothing refers to
\* what it kept, and the context is not among it.
LEMMA Kept ==
    ASSUME Inv, phase = "cycles", On("tmp") = {}
    PROVE  list[Ctx] # "zero" /\ \A n \in Nodes : list[n] = "zero" => Total(n) = 0
<1> DEFINE L == On("live")
<1>1. /\ L = Reachable
      /\ \A n \in Objects : list[n] = "zero" => fields[n] = NoFields
      /\ \A n \in Nodes : list[n] = "none" => fields[n] = NoFields
      /\ \A n \in Nodes : list[n] \in {"none", "live", "zero"}
  BY DEF Inv, HeapInv, CyclesOK, ListOK, On, TypeOK, HeapTypeOK, Lists
<1>2. ASSUME NEW n \in Nodes, list[n] = "zero"
      PROVE  /\ Ext(n) = 0 /\ \A m \in L, s \in Slots : fields[m][s] # n
  <2>1. n \notin Reachable
    BY <1>1, <1>2 DEF On
  <2>2. n \notin Roots /\ Ext(n) \in Nat
    BY <2>1, Reaching, ExtIs DEF Inv
  <2>3. Ext(n) = 0
    BY <2>2, ExtIs DEF Roots, Inv
  <2> QED
    BY <1>1, <2>1, <2>3, Reaching
<1>3. ASSUME NEW n \in Nodes, list[n] = "zero", \A s \in Slots : fields[Ctx][s] # n
      PROVE  Total(n) = 0
  <2>1. ASSUME NEW m \in Nodes, NEW s \in Slots
        PROVE  fields[m][s] # n
    <3>1. CASE m \in L
      BY <1>2, <1>3, <3>1
    <3>2. CASE m = Ctx
      BY <1>3, <3>2
    <3>3. CASE m \notin L /\ m # Ctx
      <4>1. m \in Objects /\ list[m] # "live"
        BY <3>3, HeapParts DEF On
      <4>2. fields[m] = NoFields
        BY <1>1, <4>1
      <4> QED
        BY <4>2, HeapParts
    <3> QED
      BY <3>1, <3>2, <3>3
  <2>2. Nodes \in SUBSET Nodes
    OBVIOUS
  <2>3. ~(Cardinality(InFields(n)) > 0) /\ Cardinality(InFields(n)) \in Nat
    BY <2>1, <2>2, Referred
  <2>4. Total(n) = Ext(n) + Cardinality(InFields(n)) /\ Ext(n) = 0
    BY <1>2, <1>3 DEF Total
  <2> QED
    BY <2>3, <2>4
<1>4. list[Ctx] # "zero"
  <2> SUFFICES ASSUME list[Ctx] = "zero"
               PROVE  FALSE
    OBVIOUS
  <2>1. \A s \in Slots : fields[Ctx][s] # Ctx
    BY HeapParts DEF Inv, HeapInv, CtxOK
  <2>2. Total(Ctx) = 0
    BY <1>3, <2>1, HeapParts
  <2>3. Total(Ctx) > 0
    BY HeapParts DEF Inv, HeapInv, ListOK
  <2> QED
    BY <2>2, <2>3
<1>5. ASSUME NEW n \in Nodes, list[n] = "zero"
      PROVE  Total(n) = 0
  <2>1. \A s \in Slots : fields[Ctx][s] # n
    <3>1. CASE Ctx \in L
      BY <1>2, <1>5, <3>1
    <3>2. CASE Ctx \notin L
      <4>1. fields[Ctx] = NoFields
        BY <1>1, <1>4, <3>2, HeapParts DEF On
      <4> QED
        BY <4>1, HeapParts
    <3> QED
      BY <3>1, <3>2
  <2> QED
    BY <1>3, <1>5, <2>1
<1> QED
  BY <1>4, <1>5

LEMMA GcFreeDoneInv ==
    ASSUME Inv, GcFreeDone, UNCHANGED ownVars
    PROVE  Inv'
<1>1. /\ phase = "cycles" /\ On("tmp") = {} /\ phase' = "run"
      /\ list' = [n \in Nodes |-> IF list[n] = "zero" THEN "none" ELSE list[n]]
      /\ ref' = ref /\ class' = class /\ fields' = fields /\ todo' = todo
  BY DEF GcFreeDone
<1>2. list[Ctx] # "zero" /\ \A n \in Nodes : list[n] = "zero" => Total(n) = 0
  BY <1>1, Kept
<1>3. On("live")' = On("live")
  BY <1>1 DEF On
<1>4. /\ RuntimeOK' /\ OwnOK' /\ OwnTypesOK(handles', stack', leaked')
      /\ \A n \in Nodes : After(n) = Ext(n)
  <2>1. Roots' = Roots
    BY RootsSame DEF OutsideSame, ownVars
  <2>2. Reachable' = Reachable
    BY <1>1, <2>1 DEF Reachable, Closed
  <2>3. On("live") = Reachable
    BY <1>1 DEF Inv, HeapInv, CyclesOK
  <2>4. EndOK'
    BY <1>1, <1>3, <2>2, <2>3 DEF Inv, RuntimeOK, EndOK, ownVars
  <2> QED
    BY <1>3, <2>4, RuntimeSame
<1>5. ASSUME NEW n \in Nodes
      PROVE  /\ ref'[n] = After(n) + In(fields', n)
             /\ list'[n] \in {"none", "live"}
             /\ list'[n] = "none" => ref'[n] = 0 /\ fields'[n] = NoFields
             /\ list'[n] = "live" => ref'[n] > 0
  <2>1. ref[n] = Total(n) /\ Total(n) = Ext(n) + In(fields, n)
    BY <1>1, TotalIs DEF Inv, HeapInv, CountOK
  <2>2. /\ list[n] \in {"none", "live", "zero"}
        /\ list[n] = "none" => Total(n) = 0 /\ fields[n] = NoFields
        /\ list[n] = "live" => Total(n) > 0
    BY <1>1 DEF Inv, HeapInv, ListOK, On, TypeOK, HeapTypeOK, Lists
  <2>3. list[n] = "zero" => fields[n] = NoFields
    BY <1>1, <1>2, HeapParts DEF Inv, HeapInv, CyclesOK
  <2> QED
    BY <1>1, <1>2, <1>4, <2>1, <2>2, <2>3
<1>6. todo' = {} /\ \A s \in Slots : fields'[Ctx][s] \in {Null, Global}
  BY <1>1 DEF Inv, HeapInv, TodoOK, CtxOK
<1>7. HeapInv'
  BY <1>1, <1>4, <1>5, <1>6, Rebuild
<1>8. TypeOK' /\ KeysOK'
  <2>1. list' \in [Nodes -> Lists]
    BY <1>1, <1>5 DEF Lists
  <2> QED
    BY <1>1, <1>4, <2>1 DEF TypeOK, HeapTypeOK, OwnOK, Inv, Phases, KeysOK, Values
<1> QED
  BY <1>4, <1>7, <1>8 DEF Inv

LEMMA HeapStepInv ==
    ASSUME Inv, HeapStep, UNCHANGED ownVars
    PROVE  Inv'
<1>1. ASSUME NEW p \in Nodes, GcFree(p)
      PROVE  Inv'
  BY <1>1, GcFreeObjectInv, GcFreeContextInv, HeapParts
<1> QED
  BY <1>1, FreeZeroInv, FreeZeroDoneInv, GcScanInv, GcScanDoneInv, GcFreeDoneInv DEF HeapStep

-----------------------------------------------------------------------------
(***************************************************************************)
(* The theorems.                                                           *)
(***************************************************************************)

LEMMA InitInv ==
    ASSUME Init
    PROVE  Inv
<1> DEFINE f0 == [n \in Nodes |-> NoFields]
           f1 == [f0 EXCEPT ![Ctx]["internal"] = Global]
           f2 == [f1 EXCEPT ![Global]["internal"] = Ctx]
           f3 == [f2 EXCEPT ![Global]["globalThis"] = Global]
<1>1. /\ ref = [n \in Nodes |-> CASE n = Ctx -> 2 [] n = Global -> 3 [] OTHER -> 0]
      /\ class = [o \in Objects |-> "object"]
      /\ fields = InitialFields
      /\ list = [n \in Nodes |-> IF n \in {Ctx, Global} THEN "live" ELSE "none"]
      /\ phase = "run" /\ todo = {}
      /\ handles = [o \in Objects |-> 0] /\ exc = Null /\ stack = << >> /\ runtime = "open"
      /\ leaked = [o \in Objects |-> 0]
  BY DEF Init, HeapInit
<1>2. /\ f0 \in FieldMaps /\ f1 \in FieldMaps /\ f2 \in FieldMaps /\ f3 \in FieldMaps
      /\ \A n \in Nodes, s \in Slots : f0[n][s] = Null
      /\ f1[Global]["internal"] = Null /\ f2[Global]["globalThis"] = Null
  <2>1. f0 \in FieldMaps /\ \A n \in Nodes, s \in Slots : f0[n][s] = Null
    BY HeapParts DEF FieldMaps
  <2>2. f1 \in FieldMaps /\ f1[Global] = f0[Global]
    BY <2>1, HeapParts DEF FieldMaps
  <2>3. f2 \in FieldMaps /\ f2[Global] = [f1[Global] EXCEPT !["internal"] = Ctx]
    BY <2>2, HeapParts DEF FieldMaps
  <2>4. f3 \in FieldMaps
    BY <2>3, HeapParts DEF FieldMaps
  <2>5. f1[Global] \in [Slots -> Nodes \cup {Null}] /\ "internal" # "globalThis"
    BY <2>2, HeapParts DEF FieldMaps
  <2>6. f1[Global]["internal"] = Null /\ f1[Global]["globalThis"] = Null
    BY <2>1, <2>2, HeapParts
  <2>7. f2[Global]["globalThis"] = Null
    BY <2>3, <2>5, <2>6, HeapParts
  <2> QED
    BY <2>1, <2>2, <2>3, <2>4, <2>6, <2>7
<1>3. /\ fields \in FieldMaps
      /\ \A n \in Nodes : n \notin {Ctx, Global} => fields[n] = NoFields
      /\ fields[Ctx] = [NoFields EXCEPT !["internal"] = Global]
      /\ fields[Global] = [NoFields EXCEPT !["internal"] = Ctx, !["globalThis"] = Global]
  <2>1. /\ \A n \in Nodes : n \notin {Ctx, Global} => fields[n] = NoFields
        /\ fields[Ctx] = [NoFields EXCEPT !["internal"] = Global]
        /\ fields[Global] = [NoFields EXCEPT !["internal"] = Ctx, !["globalThis"] = Global]
    BY <1>1, HeapParts DEF InitialFields
  <2>2. ASSUME NEW n \in Nodes
        PROVE  fields[n] \in [Slots -> Nodes \cup {Null}]
    <3>1. CASE n = Ctx
      BY <2>1, <3>1, HeapParts
    <3>2. CASE n = Global
      BY <2>1, <3>2, HeapParts
    <3>3. CASE n \notin {Ctx, Global}
      BY <2>1, <3>3, HeapParts
    <3> QED
      BY <3>1, <3>2, <3>3
  <2>3. fields = [n \in Nodes |-> fields[n]]
    BY <1>1 DEF InitialFields
  <2> QED
    BY <2>1, <2>2, <2>3 DEF FieldMaps
<1>f. fields = f3
  <2>1. f3 = [n \in Nodes |-> f3[n]] /\ fields = [n \in Nodes |-> fields[n]]
    <3>1. \A g \in FieldMaps : g = [n \in Nodes |-> g[n]]
      BY DEF FieldMaps
    <3> HIDE DEF f3
    <3> QED
      BY <1>2, <1>3, <3>1
  <2>2. ASSUME NEW n \in Nodes
        PROVE  f3[n] = fields[n]
    <3>1. CASE n = Ctx
      <4>1. f3[Ctx] = [NoFields EXCEPT !["internal"] = Global]
        BY HeapParts
      <4> QED
        BY <1>3, <3>1, <4>1
    <3>2. CASE n = Global
      <4>1. f1[Global] = NoFields
        BY HeapParts
      <4>2. f2[Global] = [NoFields EXCEPT !["internal"] = Ctx]
        BY <1>2, <4>1, HeapParts DEF FieldMaps
      <4>3. f3[Global] = [f2[Global] EXCEPT !["globalThis"] = Global]
        BY <1>2, HeapParts DEF FieldMaps
      <4>4. f3[Global] = [NoFields EXCEPT !["internal"] = Ctx, !["globalThis"] = Global]
        BY <4>2, <4>3
      <4> QED
        BY <1>3, <3>2, <4>4
    <3>3. CASE n \notin {Ctx, Global}
      <4>1. f3[n] = NoFields
        BY <3>3, HeapParts
      <4> QED
        BY <1>3, <3>3, <4>1
    <3> QED
      BY <3>1, <3>2, <3>3
  <2> QED
    BY <2>1, <2>2
<1>4. TypeOK
  <2>1. ref \in [Nodes -> Int]
    BY <1>1
  <2>2. handles \in [Objects -> 0 .. MaxHandles] /\ leaked \in [Objects -> 0 .. MaxHandles + 1]
    BY <1>1, ValueOwnershipAssumption
  <2>3. stack \in Seq(Frames)
    BY <1>1
  <2> QED
    BY <1>1, <1>3, <2>1, <2>2, <2>3
    DEF TypeOK, HeapTypeOK, FieldMaps, Lists, Phases, Values
<1>5. ASSUME NEW n \in Nodes
      PROVE  In(fields, n) = Ind(Global, n) + Ind(Ctx, n) + Ind(Global, n)
  <2> DEFINE k == "globalThis"
  <2>k. k \in Slots
    BY HeapParts
  <2> HIDE DEF f0, f1, f2, f3, k
  <2>1. In(f1, n) = In(f0, n) - Ind(f0[Ctx]["internal"], n) + Ind(Global, n)
    <3>1. In([f0 EXCEPT ![Ctx]["internal"] = Global], n)
            = In(f0, n) - Ind(f0[Ctx]["internal"], n) + Ind(Global, n)
      BY <1>2, HeapParts, InRealm
    <3> QED
      BY <3>1 DEF f1
  <2>2. In(f2, n) = In(f1, n) - Ind(f1[Global]["internal"], n) + Ind(Ctx, n)
    <3>1. In([f1 EXCEPT ![Global]["internal"] = Ctx], n)
            = In(f1, n) - Ind(f1[Global]["internal"], n) + Ind(Ctx, n)
      BY <1>2, HeapParts, InRealm
    <3> QED
      BY <3>1 DEF f2
  <2>3. In(f3, n) = In(f2, n) - Ind(f2[Global][k], n) + Ind(Global, n)
    <3>1. f3 = [f2 EXCEPT ![Global][k] = Global]
      BY DEF f3, k
    <3>2. f2 \in FieldMaps /\ Global \in Nodes
      BY <1>2, HeapParts
    <3> DEFINE g == [f2 EXCEPT ![Global][k] = Global]
    <3>3. In(g, n) = In(f2, n) - Ind(f2[Global][k], n) + Ind(Global, n)
      BY <2>k, <3>2, InSet
    <3> QED
      BY <3>1, <3>3
  <2>4. /\ Ind(f0[Ctx]["internal"], n) = 0 /\ Ind(f1[Global]["internal"], n) = 0
        /\ Ind(f2[Global][k], n) = 0
    BY <1>2, IndNull, HeapParts DEF k
  <2>5. In(f0, n) = 0
    <3>1. \A e \in Nodes \X Slots : f0[e[1]][e[2]] = Null
      BY <1>2, HeapParts
    <3>2. {e \in Nodes \X Slots : f0[e[1]][e[2]] = n} = {}
      BY <3>1, HeapParts
    <3> QED
      BY <3>2, FS_EmptySet DEF In
  <2>6. Ind(Global, n) \in Nat /\ Ind(Ctx, n) \in Nat
    BY IndNat
  <2>7. In(f3, n) = Ind(Global, n) + Ind(Ctx, n) + Ind(Global, n)
    BY <2>1, <2>2, <2>3, <2>4, <2>5, <2>6
  <2> QED
    BY <1>f, <2>7
<1>6. ASSUME NEW n \in Nodes
      PROVE  Ext(n) = ContextOf(runtime, n)
  <2>1. Ext(n) = ExtOf(handles, exc, runtime, stack, leaked, n)
    BY <1>4, ExtIs
  <2>2. HandlesOf(handles, n) = 0 /\ HandlesOf(leaked, n) = 0 /\ Ind(exc, n) = 0
    BY <1>1, IndNull, HeapParts DEF HandlesOf
  <2>3. Funcs(stack, n) = 0 /\ Args(stack, n) = 0
    <3>1. {i \in DOMAIN stack : stack[i].func = n} = {} /\ {i \in DOMAIN stack : stack[i].arg = n} = {}
      BY <1>1
    <3> QED
      BY <3>1, FS_EmptySet DEF Funcs, Args
  <2>4. ContextOf(runtime, n) \in Nat
    BY DEF ContextOf
  <2> QED
    BY <2>1, <2>2, <2>3, <2>4 DEF ExtOf
<1>7. ASSUME NEW n \in Nodes
      PROVE  Total(n) = ref[n] /\ (list[n] = "live" <=> ref[n] > 0) /\ (list[n] = "none" <=> ref[n] = 0)
  <2>1. Total(n) = Ext(n) + In(fields, n)
    BY <1>4, TotalIs
  <2>2. Total(n) = ContextOf(runtime, n) + (Ind(Global, n) + Ind(Ctx, n) + Ind(Global, n))
    BY <1>5, <1>6, <2>1
  <2>3. CASE n = Ctx
    BY <1>1, <2>2, <2>3, HeapParts DEF ContextOf, Ind
  <2>4. CASE n = Global
    BY <1>1, <2>2, <2>4, HeapParts DEF ContextOf, Ind
  <2>5. CASE n # Ctx /\ n # Global
    BY <1>1, <2>2, <2>5 DEF ContextOf, Ind
  <2> QED
    BY <2>3, <2>4, <2>5
<1>8. CountOK
  BY <1>1, <1>7 DEF CountOK
<1>9. ListOK
  <2>1. \A n \in Nodes : list[n] = "none" => fields[n] = NoFields
    BY <1>1, <1>3
  <2>2. list[Ctx] = "live"
    BY <1>1, HeapParts
  <2> QED
    BY <1>7, <2>1, <2>2 DEF ListOK
<1>10. CtxOK /\ RunOK /\ ZeroOK /\ ScanOK /\ CyclesOK /\ TodoOK
  <2>1. CtxOK
    BY <1>3, HeapParts DEF CtxOK
  <2> QED
    BY <1>1, <2>1 DEF RunOK, ZeroOK, ScanOK, CyclesOK, TodoOK
<1>11. KeysOK
  <2> SUFFICES ASSUME NEW o \in Objects, NEW k \in Keys
               PROVE  fields[o][k] = Null
    BY DEF KeysOK, Values
  <2>1. k \notin {"internal", "globalThis"} /\ k \in Slots /\ o \in Nodes /\ o # Ctx
    BY HeapAssumption, HeapParts
  <2>2. NoFields \in [Slots -> Nodes \cup {Null}] /\ NoFields[k] = Null
    BY <2>1, HeapParts
  <2>3. fields[o][k] = NoFields[k]
    BY <1>3, <2>1, <2>2
  <2> QED
    BY <2>2, <2>3
<1>12. RuntimeOK
  BY <1>1 DEF RuntimeOK, EndOK
<1> QED
  BY <1>4, <1>8, <1>9, <1>10, <1>11, <1>12 DEF Inv, HeapInv

LEMMA StepInv ==
    ASSUME Global \notin Receivers, Inv, [Next]_vars
    PROVE  Inv'
<1>1. CASE JavaStep
  BY <1>1, JavaStepInv
<1>2. CASE ScriptStep
  BY <1>2, ScriptStepInv
<1>3. CASE TriggerGC
  <2>1. GcDecref /\ UNCHANGED ownVars
    BY <1>3 DEF TriggerGC
  <2>2. OutsideSame /\ OwnOK' /\ runtime' = runtime /\ runtime = "open"
    BY <1>3, <2>1, OwnParts DEF ownVars, OutsideSame, OwnOK, TriggerGC
  <2> QED
    BY <2>1, <2>2, GcDecrefInv
<1>4. CASE HeapStep /\ UNCHANGED ownVars
  BY <1>4, HeapStepInv
<1>5. CASE CloseContext \/ FreeRuntime
  BY <1>5, CloseContextInv, FreeRuntimeInv
<1>6. CASE FreeRuntimeCollect
  <2>1. /\ GcDecref /\ runtime = "collect" /\ runtime' = "assert"
        /\ handles' = handles /\ exc' = exc /\ stack' = stack /\ leaked' = leaked
    BY <1>6 DEF FreeRuntimeCollect
  <2>2. OutsideSame /\ OwnOK'
    BY <2>1, OwnParts DEF OutsideSame, OwnOK
  <2> QED
    BY <2>1, <2>2, GcDecrefInv
<1>7. CASE FreeRuntimeDone
  <2>1. /\ phase = "run" /\ runtime = "assert" /\ runtime' = "freed"
        /\ ref' = ref /\ class' = class /\ fields' = fields /\ list' = list /\ phase' = phase
        /\ todo' = todo
        /\ handles' = handles /\ exc' = exc /\ stack' = stack /\ leaked' = leaked
    BY <1>7 DEF FreeRuntimeDone, heapVars
  <2>2. OutsideSame /\ OwnOK' /\ ClassOK'
    BY <2>1, OwnParts DEF OutsideSame, OwnOK, ClassOK
  <2>3. RuntimeOK'
    <3>1. Reachable' = Reachable /\ On("live")' = On("live")
      BY <2>1, <2>2, RootsSame DEF Reachable, Closed, On
    <3>2. EndOK'
      BY <2>1, <3>1 DEF Inv, RuntimeOK, EndOK
    <3> QED
      BY <2>1, <3>1, <3>2 DEF RuntimeOK, Inv, NoneLost
  <2>4. RunList(list) /\ Sound(ref, list) /\ Shaped(fields, list)
    BY <2>1, RunFacts
  <2>5. ASSUME NEW n \in Nodes
        PROVE  ref'[n] = After(n) + In(fields', n) /\ (list'[n] = "live" => ref'[n] > 0)
    <3>1. Ext(n)' = Ext(n) /\ Ext(n)' = After(n)
      BY <2>2, RootsSame, ExtNext, OwnOKTypes
    <3>2. ref[n] = Ext(n) + In(fields, n) /\ (list[n] = "live" => ref[n] > 0)
      BY <2>1, RunFacts, ExtIs DEF Inv
    <3> QED
      BY <2>1, <3>1, <3>2
  <2> QED
    BY <2>1, <2>2, <2>3, <2>4, <2>5, KeepingStep DEF RunList
<1>8. CASE UNCHANGED vars
  <2>1. /\ ref' = ref /\ class' = class /\ fields' = fields /\ list' = list /\ phase' = phase
        /\ todo' = todo /\ UNCHANGED ownVars /\ runtime' = runtime
    BY <1>8 DEF vars, heapVars, ownVars
  <2>2. RuntimeOK' /\ OwnOK' /\ OutsideSame
    <3>1. Roots' = Roots
      BY <2>1, RootsSame DEF OutsideSame, ownVars
    <3>2. Reachable' = Reachable /\ On("live")' = On("live")
      BY <2>1, <3>1 DEF Reachable, Closed, On
    <3>3. EndOK'
      BY <2>1, <3>2 DEF Inv, RuntimeOK, EndOK
    <3> QED
      BY <2>1, <3>2, <3>3, RuntimeSame
  <2>3. /\ \A n \in Nodes : Ext(n)' = Ext(n) /\ Total(n)' = Total(n)
        /\ Roots' = Roots
    BY <2>1, <2>2, RootsSame, TotalSame
  <2>4. Reachable' = Reachable /\ On("live")' = On("live")
    BY <2>1, <2>3 DEF Reachable, Closed, On
  <2>5. HeapInv'
    <3>1. CountOK' /\ ListOK'
      BY <2>1, <2>3, <2>4 DEF Inv, HeapInv, CountOK, ListOK, FieldsIn
    <3>2. CtxOK' /\ RunOK' /\ TodoOK'
      BY <2>1 DEF Inv, HeapInv, CtxOK, RunOK, TodoOK
    <3>3. ZeroOK' /\ ScanOK'
      BY <2>1, <2>3, <2>4 DEF Inv, HeapInv, ZeroOK, ScanOK
    <3>4. CyclesOK'
      <4>1. \A n \in On("live") : n \in Nodes
        BY DEF On
      <4> QED
        BY <2>1, <2>3, <2>4, <4>1 DEF Inv, HeapInv, CyclesOK
    <3> QED
      BY <3>1, <3>2, <3>3, <3>4 DEF HeapInv
  <2> QED
    BY <2>1, <2>2, <2>5 DEF Inv, TypeOK, HeapTypeOK, OwnOK, KeysOK, Values
<1> QED
  BY <1>1, <1>2, <1>3, <1>4, <1>5, <1>6, <1>7, <1>8 DEF Next, End, Freed

LEMMA Invariant ==
    ASSUME Global \notin Receivers
    PROVE  Spec => []Inv
<1>1. Init => Inv
  BY InitInv
<1>2. Inv /\ [Next]_vars => Inv'
  BY StepInv
<1> QED
  BY <1>1, <1>2, PTL DEF Spec

\* Every variable has its type: in particular a handle, a field and the stack
\* never hold anything but an object or nothing, whatever a callback returns.
THEOREM TypeCorrect ==
    ASSUME Global \notin Receivers
    PROVE  Spec => []TypeOK
<1>1. Inv => TypeOK
  BY DEF Inv
<1> QED
  BY <1>1, Invariant, PTL

\* The reference counts are exact: header.ref_count of everything allocated is
\* the number of handles, fields, calls in progress, the exception and the
\* context that refer to it, and of the references that To_JObject and
\* _getException lose, for every program of Java and scripts in which no
\* callback has the global object as this.
THEOREM ExactCounts ==
    ASSUME Global \notin Receivers
    PROVE  Spec => []CountsExact
<1>1. ASSUME Inv
      PROVE  CountsExact
  <2> SUFFICES ASSUME phase # "scan", NEW n \in Nodes
               PROVE  ref[n] = Cardinality(Holders(n)) + Cardinality(InFields(n)) + Lost(n)
    BY DEF CountsExact
  <2>1. ref[n] = Total(n)
    BY <1>1 DEF Inv, HeapInv, CountOK
  <2>2. Cardinality(Holders(n)) \in Nat /\ Lost(n) \in Nat /\ Cardinality(InFields(n)) \in Nat
    <3>1. handles \in [Objects -> Nat] /\ leaked \in [Objects -> Nat] /\ stack \in Seq(Frames)
      BY <1>1, OwnTypes DEF Inv
    <3>2. IsFiniteSet(HoldersOf(handles, exc, runtime, stack, n))
      BY <3>1, HoldersCount
    <3>3. Holders(n) = HoldersOf(handles, exc, runtime, stack, n)
      BY DEF Holders, HoldersOf
    <3>4. Lost(n) \in Nat
      BY <3>1, HeapParts DEF Lost
    <3>5. Cardinality(InFields(n)) \in Nat
      BY <1>1, TotalIs DEF Inv
    <3> QED
      BY <3>2, <3>3, <3>4, <3>5, FS_CardinalityType
  <2> QED
    BY <2>1, <2>2 DEF Total, Ext
<1> QED
  BY <1>1, Invariant, PTL

\* Nothing that Java, a call in progress, the runtime or another object refers
\* to is freed, while free_zero_refcount or the collector are at work too.
THEOREM NothingDangles ==
    ASSUME Global \notin Receivers
    PROVE  Spec => []NoDangling
<1>1. ASSUME Inv
      PROVE  NoDangling
  <2> SUFFICES ASSUME NEW n \in Nodes, Holders(n) # {} \/ InFields(n) # {}
               PROVE  list[n] # "none"
    BY DEF NoDangling
  <2>1. Nodes \in SUBSET Nodes
    OBVIOUS
  <2>2. Ext(n) > 0 \/ Cardinality(InFields(n)) > 0
    BY <1>1, <2>1, ExtIs, Referred DEF Inv
  <2>3. Total(n) > 0
    BY <1>1, <2>2, TotalIs DEF Total, Inv
  <2> QED
    BY <1>1, <2>3 DEF Inv, HeapInv, ListOK
<1> QED
  BY <1>1, Invariant, PTL

\* gc_decref and gc_scan separate what can be reached from what cannot, whatever
\* the cycles of the heap are and in whichever order gc_scan comes to the nodes.
THEOREM GarbageFound ==
    ASSUME Global \notin Receivers
    PROVE  Spec => []CollectsGarbage
<1>1. Inv => CollectsGarbage
  BY DEF Inv, HeapInv, CyclesOK, CollectsGarbage
<1> QED
  BY <1>1, Invariant, PTL

\* The assertions of gc_decref_child, gc_scan and free_zero_refcount hold, and
\* gc_free_cycles never frees the memory of a context that is referred to.
THEOREM CollectorAssertions ==
    ASSUME Global \notin Receivers
    PROVE  Spec => []AssertionsHold
<1>1. ASSUME Inv
      PROVE  AssertionsHold
  <2>1. \A n \in Nodes : ref[n] >= 0
    <3> SUFFICES ASSUME NEW n \in Nodes
                 PROVE  ref[n] >= 0
      OBVIOUS
    <3>1. Total(n) \in Nat /\ Ext(n) \in Nat
      BY <1>1, TotalIs DEF Inv
    <3>2. FieldsIn(On("live") \ todo, n) \in Nat
      <4>1. On("live") \ todo \in SUBSET Nodes
        BY DEF On
      <4> QED
        BY <4>1, FieldsInTypes
    <3>3. ref[n] = IF phase = "scan" THEN Ext(n) + FieldsIn(On("live") \ todo, n) ELSE Total(n)
      BY <1>1 DEF Inv, HeapInv, CountOK
    <3> QED
      BY <3>1, <3>2, <3>3
  <2>2. phase = "scan" => \A n \in On("live") : ref[n] > 0
    BY <1>1 DEF Inv, HeapInv, ScanOK, On
  <2>3. phase = "zero" => \A n \in On("zero") : ref[n] = 0
    BY <1>1 DEF Inv, HeapInv, ZeroOK, CountOK, On
  <2>4. phase = "cycles" /\ On("tmp") = {} => Ctx \notin On("zero")
    BY <1>1, Kept DEF On
  <2> QED
    BY <2>1, <2>2, <2>3, <2>4 DEF AssertionsHold
<1> QED
  BY <1>1, Invariant, PTL

\* JS_FreeRuntime finds on gc_obj_list what lost references reach and nothing
\* else: closing the context frees every other object, cycles and closures over
\* the context too, whichever handles JSContext.close has missed.
THEOREM NothingRemains ==
    ASSUME Global \notin Receivers
    PROVE  Spec => []NothingLeft
<1>1. Inv => NothingLeft
  BY DEF Inv, RuntimeOK, EndOK, NothingLeft
<1> QED
  BY <1>1, Invariant, PTL
=============================================================================
