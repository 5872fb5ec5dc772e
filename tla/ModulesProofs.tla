---------------------------- MODULE ModulesProofs ----------------------------
(***************************************************************************)
(* The two module systems, for any scripts, names and nesting.             *)
(*                                                                         *)
(* CommonJS: require shares modules.  Nothing is assumed of                *)
(* convertModuleName.                                                      *)
(*                                                                         *)
(* ES6: the records that the engine frees, the order of evaluation and the *)
(* files that imports lead to.  Only the last rests on what                *)
(* convertModuleName does, as Resolves states it.                          *)
(***************************************************************************)
EXTENDS CommonJS, ES6Modules, TLAPS

(***************************************************************************)
(* CommonJS: the invariant.                                                *)
(***************************************************************************)


Paths == UNION {Scripts[f] : f \in DOMAIN Scripts}
RunNames == EntryNames \cup {convertModuleName(Empty, p) : p \in Paths}
Run == [name : RunNames, path : Paths \cup {Java}, ended : BOOLEAN]

\* The stack has runs in the order in which they began.  None of them has
\* ended, and there is none once the context is closed.
ActiveOK ==
    /\ runs \in Seq(Run)
    /\ active \in Seq(Nat)
    /\ \A i \in DOMAIN active :
          /\ active[i] \in DOMAIN runs
          /\ ~runs[active[i]].ended
          /\ File(runs[active[i]].name) \in DOMAIN Scripts
    /\ \A i, j \in DOMAIN active : i < j => active[i] < active[j]
    /\ closed => active = << >>

\* The run r has a name and its script has ended: its module can be given to a
\* script, and until the context is closed it, or another one of its name, is
\* in the map.
Finished(r) == r.ended /\ ~(r.name = Empty /\ r.path = Java)
KeyOf(r) == convertModuleName(Empty, r.name)

MapOK ==
    /\ \A k \in DOMAIN modules : modules[k] \in DOMAIN runs /\ Finished(runs[modules[k]])
    /\ \A r \in got : r \in DOMAIN runs /\ Finished(runs[r])
    /\ ~closed => \A r \in DOMAIN runs : Finished(runs[r]) => KeyOf(runs[r]) \in DOMAIN modules

\* A run requires those that it waits for.
Leads(q, r) == File(r.name) \in RequiredFrom(File(q.name))

ChainOK == \A i, j \in DOMAIN active : i < j => Leads(runs[active[i]], runs[active[j]])

\* A module is executed again, by a require with its name, only while a run of
\* it is in progress.
Again(q, r) == KeyOf(q) = KeyOf(r) /\ r.path = KeyOf(r)

InProgress(q) == \E i \in DOMAIN active : active[i] = q

ShareOK ==
    \A q, r \in DOMAIN runs :
        q < r /\ Again(runs[q], runs[r]) /\ (Finished(runs[q]) \/ InProgress(q))
            => Leads(runs[q], runs[r])

SharingInv == ActiveOK /\ MapOK /\ ChainOK /\ ShareOK

-----------------------------------------------------------------------------
(***************************************************************************)
(* Requiring.                                                              *)
(***************************************************************************)

\* A required file is required; what it requires is required too.
LEMMA RequireClosed ==
    ASSUME NEW f, NEW p \in Scripts[f], HasScript(p)
    PROVE  /\ File(convertModuleName(Empty, p)) \in DOMAIN Scripts
           /\ File(convertModuleName(Empty, p)) \in RequiredFrom(f)
           /\ \A e : f \in RequiredFrom(e) => File(convertModuleName(Empty, p)) \in RequiredFrom(e)
<1> DEFINE g == File(convertModuleName(Empty, p))
<1>1. g \in DOMAIN Scripts
  BY DEF HasScript, IsExecutable
<1>2. g \in RequiredBy(f)
  BY DEF RequiredBy
<1> HIDE DEF g
<1>3. g \in RequiredFrom(f)
  BY <1>1, <1>2 DEF RequiredFrom
<1>4. ASSUME NEW e, f \in RequiredFrom(e)
      PROVE  g \in RequiredFrom(e)
  <2> SUFFICES ASSUME NEW S \in SUBSET DOMAIN Scripts,
                      RequiredBy(e) \cup UNION {RequiredBy(h) : h \in S} \subseteq S
               PROVE  g \in S
    BY <1>1 DEF RequiredFrom
  <2>1. f \in S
    BY <1>4 DEF RequiredFrom
  <2> QED
    BY <2>1, <1>2
<1> QED
  BY <1>1, <1>3, <1>4 DEF g

-----------------------------------------------------------------------------
(***************************************************************************)
(* Steps.                                                                  *)
(***************************************************************************)

\* A script begins: r is its run.
Began(r, name, path) ==
    /\ runs' \in Seq(Run) /\ active' \in Seq(Nat)
    /\ DOMAIN runs' = DOMAIN runs \cup {r} /\ r \notin DOMAIN runs
    /\ \A q \in DOMAIN runs : q < r /\ runs'[q] = runs[q]
    /\ runs'[r] = [name |-> name, path |-> path, ended |-> FALSE]
    /\ DOMAIN active' = 1 .. Len(active) + 1 /\ DOMAIN active = 1 .. Len(active)
    /\ \A i \in DOMAIN active : active'[i] = active[i]
    /\ active'[Len(active) + 1] = r

LEMMA Begins ==
    ASSUME ActiveOK, NEW name \in RunNames, NEW path \in Paths \cup {Java}, Execute(name, path)
    PROVE  Began(Len(runs) + 1, name, path)
<1>1. PICK new : new = [name |-> name, path |-> path, ended |-> FALSE]
  OBVIOUS
<1>2. new \in Run
  BY <1>1 DEF Run
<1>3. runs \in Seq(Run) /\ active \in Seq(Nat)
  BY DEF ActiveOK
<1>4. runs' = Append(runs, new) /\ active' = Append(active, Len(runs) + 1)
  BY <1>1 DEF Execute
<1>5. /\ runs' \in Seq(Run)
      /\ DOMAIN runs' = DOMAIN runs \cup {Len(runs) + 1} /\ Len(runs) + 1 \notin DOMAIN runs
      /\ \A q \in DOMAIN runs : q < Len(runs) + 1 /\ runs'[q] = runs[q]
      /\ runs'[Len(runs) + 1] = new
  BY <1>2, <1>3, <1>4
<1>6. /\ active' \in Seq(Nat)
      /\ DOMAIN active' = 1 .. Len(active) + 1 /\ DOMAIN active = 1 .. Len(active)
      /\ \A i \in DOMAIN active : active'[i] = active[i]
      /\ active'[Len(active) + 1] = Len(runs) + 1
  BY <1>3, <1>4
<1> QED
  BY <1>1, <1>5, <1>6 DEF Began

\* Java starts a script.
LEMMA ExecuteSharing ==
    ASSUME SharingInv, NEW name \in EntryNames, ExecuteModuleScript(name)
    PROVE  SharingInv'
<1>1. name \in RunNames /\ Java \in Paths \cup {Java} /\ Execute(name, Java)
  BY DEF RunNames, ExecuteModuleScript
<1>2. PICK r : r = Len(runs) + 1
  OBVIOUS
<1>3. /\ runs' \in Seq(Run) /\ active' \in Seq(Nat)
      /\ DOMAIN runs' = DOMAIN runs \cup {r} /\ r \notin DOMAIN runs
      /\ \A q \in DOMAIN runs : q < r /\ runs'[q] = runs[q]
      /\ runs'[r] = [name |-> name, path |-> Java, ended |-> FALSE]
      /\ DOMAIN active' = 1 .. Len(active) + 1
      /\ active'[Len(active) + 1] = r
  <2>1. Began(r, name, Java)
    BY <1>1, <1>2, Begins DEF SharingInv
  <2> QED
    BY <2>1 DEF Began
<1>4. /\ active = << >> /\ DOMAIN active = {} /\ DOMAIN active' = {1} /\ active'[1] = r
      /\ ~closed /\ closed' = closed /\ modules' = modules /\ got' = got
      /\ File(name) \in DOMAIN Scripts /\ convertModuleName(Empty, name) # Throws
  <2>1. active = << >> /\ Len(active) = 0
    BY DEF ExecuteModuleScript
  <2> QED
    BY <2>1, <1>3 DEF ExecuteModuleScript, IsExecutable
<1>5. ActiveOK'
  BY <1>3, <1>4 DEF ActiveOK
<1>6. ~Finished(runs'[r]) /\ KeyOf(runs'[r]) # runs'[r].path
  BY <1>3, <1>4 DEF Finished, KeyOf, Java, Throws
<1>7. MapOK'
  BY <1>3, <1>4, <1>6 DEF SharingInv, MapOK
<1>8. ChainOK'
  BY <1>4 DEF ChainOK
<1>9. ShareOK'
  <2> SUFFICES ASSUME NEW q \in DOMAIN runs', NEW t \in DOMAIN runs',
                      q < t, Again(runs'[q], runs'[t]), Finished(runs'[q]) \/ InProgress(q)'
               PROVE  Leads(runs'[q], runs'[t])
    BY DEF ShareOK
  <2>1. t # r
    BY <1>6 DEF Again
  <2>2. t \in DOMAIN runs /\ t < r
    BY <1>3, <2>1
  <2>3. q # r
    BY <2>2, <1>2 DEF SharingInv, ActiveOK
  <2>4. q \in DOMAIN runs
    BY <1>3, <2>3
  <2>5. Finished(runs[q])
    BY <1>3, <1>4, <2>3, <2>4 DEF InProgress
  <2> QED
    BY <1>3, <2>2, <2>4, <2>5 DEF SharingInv, ShareOK
<1> QED
  BY <1>5, <1>7, <1>8, <1>9 DEF SharingInv

\* A script starts another one, of which the map has no module.
LEMMA RequireSharing ==
    ASSUME SharingInv, NEW path \in Paths, RequireExecutes(path)
    PROVE  SharingInv'
<1>1. PICK name : name = convertModuleName(Empty, path)
  OBVIOUS
<1>2. PICK r, n : r = Len(runs) + 1 /\ n = Len(active)
  OBVIOUS
<1>3. name \in RunNames /\ path \in Paths \cup {Java} /\ Execute(name, path)
  BY <1>1 DEF RunNames, RequireExecutes
<1>4. /\ runs' \in Seq(Run) /\ active' \in Seq(Nat)
      /\ DOMAIN runs' = DOMAIN runs \cup {r} /\ r \notin DOMAIN runs
      /\ \A q \in DOMAIN runs : q < r /\ runs'[q] = runs[q]
      /\ runs'[r] = [name |-> name, path |-> path, ended |-> FALSE]
      /\ DOMAIN active' = 1 .. n + 1 /\ DOMAIN active = 1 .. n
      /\ \A i \in DOMAIN active : active'[i] = active[i]
      /\ active'[n + 1] = r
  <2>1. Began(r, name, path)
    BY <1>2, <1>3, Begins DEF SharingInv
  <2> QED
    BY <2>1, <1>2 DEF Began
<1>5. /\ path \notin DOMAIN modules /\ HasScript(path)
      /\ closed' = closed /\ modules' = modules /\ got' = got
      /\ n \in Nat \ {0}
      /\ path \in Scripts[File(runs[active[n]].name)]
      /\ ~closed
  BY <1>2 DEF RequireExecutes, Requires, Current, Last, SharingInv, ActiveOK
<1>6. /\ n \in DOMAIN active
      /\ \A i \in DOMAIN active : i # n => i < n
      /\ \A i \in DOMAIN active' : i \in DOMAIN active \/ i = n + 1
      /\ \A i, j \in DOMAIN active' : i < j => i \in DOMAIN active
  BY <1>4, <1>5
<1>7. /\ File(name) \in DOMAIN Scripts
      /\ File(name) \in RequiredFrom(File(runs[active[n]].name))
      /\ \A e : File(runs[active[n]].name) \in RequiredFrom(e) => File(name) \in RequiredFrom(e)
  BY <1>1, <1>5, RequireClosed
<1>8. ActiveOK'
  <2>1. \A i \in DOMAIN active' : /\ active'[i] \in DOMAIN runs'
                                 /\ ~runs'[active'[i]].ended
                                 /\ File(runs'[active'[i]].name) \in DOMAIN Scripts
    BY <1>4, <1>6, <1>7 DEF SharingInv, ActiveOK
  <2>2. ASSUME NEW i \in DOMAIN active', NEW j \in DOMAIN active', i < j
        PROVE  active'[i] < active'[j]
    BY <2>2, <1>4, <1>6 DEF SharingInv, ActiveOK
  <2> QED
    BY <2>1, <2>2, <1>4, <1>5 DEF ActiveOK
<1>9. ~Finished(runs'[r])
  BY <1>4 DEF Finished
<1>10. MapOK'
  BY <1>4, <1>5, <1>9 DEF SharingInv, MapOK
<1>11. ASSUME NEW i \in DOMAIN active
       PROVE  Leads(runs[active[i]], runs'[r])
  <2>1. CASE i = n
    BY <2>1, <1>4, <1>7 DEF Leads
  <2>2. CASE i # n
    <3>1. Leads(runs[active[i]], runs[active[n]])
      BY <2>2, <1>6 DEF SharingInv, ChainOK
    <3> QED
      BY <3>1, <1>4, <1>7 DEF Leads
  <2> QED
    BY <2>1, <2>2
<1>12. ChainOK'
  <2> SUFFICES ASSUME NEW i \in DOMAIN active', NEW j \in DOMAIN active', i < j
               PROVE  Leads(runs'[active'[i]], runs'[active'[j]])
    BY DEF ChainOK
  <2>1. i \in DOMAIN active /\ runs'[active'[i]] = runs[active[i]]
    BY <1>4, <1>6 DEF SharingInv, ActiveOK
  <2>2. CASE j = n + 1
    BY <2>1, <2>2, <1>4, <1>11
  <2>3. CASE j \in DOMAIN active
    <3>1. runs'[active'[j]] = runs[active[j]]
      BY <2>3, <1>4 DEF SharingInv, ActiveOK
    <3> QED
      BY <3>1, <2>1, <2>3 DEF SharingInv, ChainOK
  <2> QED
    BY <2>2, <2>3, <1>6
<1>13. ShareOK'
  <2> SUFFICES ASSUME NEW q \in DOMAIN runs', NEW t \in DOMAIN runs',
                      q < t, Again(runs'[q], runs'[t]), Finished(runs'[q]) \/ InProgress(q)'
               PROVE  Leads(runs'[q], runs'[t])
    BY DEF ShareOK
  <2>1. q \in DOMAIN runs
    <3>1. t \in Nat /\ r \in Nat /\ t <= r
      BY <1>2, <1>4 DEF SharingInv, ActiveOK
    <3> QED
      BY <3>1, <1>4
  <2>2. Finished(runs[q]) \/ InProgress(q)
    BY <2>1, <1>4, <1>6 DEF InProgress
  <2>3. CASE t = r
    <3>1. KeyOf(runs[q]) = path
      BY <2>1, <2>3, <1>4 DEF Again
    <3>2. ~Finished(runs[q])
      BY <3>1, <2>1, <1>5 DEF SharingInv, MapOK
    <3> QED
      BY <3>2, <2>1, <2>2, <2>3, <1>4, <1>11 DEF InProgress
  <2>4. CASE t # r
    <3>1. t \in DOMAIN runs
      BY <2>4, <1>4
    <3> QED
      BY <3>1, <2>1, <2>2, <1>4 DEF SharingInv, ShareOK
  <2> QED
    BY <2>3, <2>4
<1> QED
  BY <1>8, <1>10, <1>12, <1>13 DEF SharingInv

\* The innermost script leaves the stack.
LEMMA Leaves ==
    ASSUME ActiveOK, active # << >>, active' = Front(active), NEW n, n = Len(active)
    PROVE  /\ n \in Nat \ {0} /\ Current = active[n] /\ n \in DOMAIN active
           /\ active' \in Seq(Nat)
           /\ \A i \in DOMAIN active' :
                 i \in DOMAIN active /\ active'[i] = active[i] /\ active[i] # active[n]
<1>1. /\ n \in Nat \ {0} /\ Current = active[n] /\ n \in DOMAIN active
      /\ DOMAIN active = 1 .. n
  BY DEF ActiveOK, Current, Last
<1>2. active' = SubSeq(active, 1, n - 1)
  BY DEF Front
<1>3. /\ active' \in Seq(Nat) /\ DOMAIN active' = 1 .. n - 1
      /\ \A i \in 1 .. n - 1 : active'[i] = active[i]
  BY <1>1, <1>2 DEF ActiveOK
<1>4. \A i \in 1 .. n - 1 : i \in DOMAIN active /\ active[i] < active[n] /\ active[i] \in Nat
  BY <1>1 DEF ActiveOK
<1> QED
  BY <1>1, <1>3, <1>4 DEF ActiveOK

\* A script ends, and its module is kept.
LEMMA EndsSharing ==
    ASSUME SharingInv, ScriptEnds
    PROVE  SharingInv'
<1>1. PICK n, t : n = Len(active) /\ t = active[n]
  OBVIOUS
<1>2. /\ n \in DOMAIN active /\ Current = t
      /\ active' \in Seq(Nat)
      /\ \A i \in DOMAIN active' : i \in DOMAIN active /\ active'[i] = active[i] /\ active[i] # t
  BY <1>1, Leaves DEF SharingInv, ScriptEnds
<1>3. t \in DOMAIN runs /\ ~closed /\ active # << >>
  BY <1>1, <1>2 DEF SharingInv, ActiveOK, ScriptEnds
<1>4. /\ runs' \in Seq(Run) /\ DOMAIN runs' = DOMAIN runs
      /\ runs'[t].name = runs[t].name /\ runs'[t].path = runs[t].path /\ runs'[t].ended
      /\ \A q \in DOMAIN runs : q # t => runs'[q] = runs[q]
  <2>1. runs \in Seq(Run)
    BY DEF SharingInv, ActiveOK
  <2>2. runs' = [runs EXCEPT ![t] = [runs[t] EXCEPT !.ended = TRUE]]
    BY <1>2 DEF ScriptEnds
  <2>3. runs[t] \in Run
    BY <1>3, <2>1
  <2>4. PICK a : a = [runs[t] EXCEPT !.ended = TRUE]
    OBVIOUS
  <2>5. a \in Run /\ a.name = runs[t].name /\ a.path = runs[t].path /\ a.ended
    BY <2>3, <2>4 DEF Run
  <2>6. runs' = [runs EXCEPT ![t] = a]
    BY <2>2, <2>4
  <2> QED
    BY <1>3, <2>1, <2>5, <2>6
<1>5. \A q \in DOMAIN runs : runs'[q].name = runs[q].name /\ runs'[q].path = runs[q].path
  BY <1>3, <1>4
<1>6. /\ \A q \in DOMAIN runs : KeyOf(runs'[q]) = KeyOf(runs[q])
      /\ \A q \in DOMAIN runs : q # t => (Finished(runs'[q]) <=> Finished(runs[q]))
      /\ Finished(runs'[t]) <=> ~IsAnonymous(t)
      /\ \A q \in DOMAIN runs : Finished(runs[q]) => Finished(runs'[q])
  BY <1>3, <1>4, <1>5 DEF KeyOf, IsAnonymous, Finished
<1>7. Key(t) = KeyOf(runs[t])
  BY DEF Key, KeyOf
<1>8. /\ IsAnonymous(t) => modules' = modules
      /\ ~IsAnonymous(t) => modules' = Put(KeyOf(runs[t]), t)
      /\ \A r \in got' : r \in got \/ (r = t /\ ~IsAnonymous(t))
      /\ closed' = closed
  BY <1>2, <1>7 DEF ScriptEnds, IsAnonymous
<1>9. /\ \A k \in DOMAIN modules' :
            \/ modules'[k] = t /\ ~IsAnonymous(t)
            \/ k \in DOMAIN modules /\ modules'[k] = modules[k]
      /\ DOMAIN modules \subseteq DOMAIN modules'
      /\ ~IsAnonymous(t) => KeyOf(runs[t]) \in DOMAIN modules'
  BY <1>8 DEF Put
<1>10. ActiveOK'
  BY <1>2, <1>3, <1>4, <1>8 DEF SharingInv, ActiveOK
<1>11. MapOK'
  <2>1. \A k \in DOMAIN modules' : modules'[k] \in DOMAIN runs' /\ Finished(runs'[modules'[k]])
    BY <1>3, <1>4, <1>6, <1>9 DEF SharingInv, MapOK
  <2>2. \A r \in got' : r \in DOMAIN runs' /\ Finished(runs'[r])
    BY <1>3, <1>4, <1>6, <1>8 DEF SharingInv, MapOK
  <2>3. \A r \in DOMAIN runs' : Finished(runs'[r]) => KeyOf(runs'[r]) \in DOMAIN modules'
    BY <1>3, <1>4, <1>6, <1>9 DEF SharingInv, MapOK
  <2> QED
    BY <2>1, <2>2, <2>3 DEF MapOK
<1>12. \A q, r \in DOMAIN runs : /\ Leads(runs'[q], runs'[r]) <=> Leads(runs[q], runs[r])
                                 /\ Again(runs'[q], runs'[r]) <=> Again(runs[q], runs[r])
  BY <1>5, <1>6 DEF Leads, Again
<1>13. ChainOK'
  BY <1>2, <1>12 DEF SharingInv, ChainOK, ActiveOK
<1>14. ShareOK'
  <2> SUFFICES ASSUME NEW q \in DOMAIN runs, NEW r \in DOMAIN runs,
                      q < r, Again(runs[q], runs[r]), Finished(runs'[q]) \/ InProgress(q)'
               PROVE  Leads(runs[q], runs[r])
    BY <1>4, <1>12 DEF ShareOK
  <2>1. Finished(runs[q]) \/ InProgress(q)
    BY <1>1, <1>2, <1>6 DEF InProgress
  <2> QED
    BY <2>1 DEF SharingInv, ShareOK
<1> QED
  BY <1>10, <1>11, <1>13, <1>14 DEF SharingInv

\* A script throws.
LEMMA ThrowsSharing ==
    ASSUME SharingInv, ScriptThrows
    PROVE  SharingInv'
<1>1. /\ active' \in Seq(Nat)
      /\ \A i \in DOMAIN active' : i \in DOMAIN active /\ active'[i] = active[i]
      /\ runs' = runs /\ modules' = modules /\ got' = got /\ closed' = closed
      /\ active # << >>
  BY Leaves DEF SharingInv, ScriptThrows
<1>2. ActiveOK' /\ MapOK' /\ ChainOK'
  BY <1>1 DEF SharingInv, ActiveOK, MapOK, ChainOK
<1>3. ShareOK'
  BY <1>1 DEF SharingInv, ShareOK, InProgress
<1> QED
  BY <1>2, <1>3 DEF SharingInv

\* The other steps leave the runs and the stack alone.
LEMMA OtherSharing ==
    ASSUME SharingInv, UNCHANGED <<runs, active>>,
           \/ UNCHANGED <<modules, got, closed>>
           \/ UNCHANGED <<modules, closed>> /\ \E k \in DOMAIN modules : got' = got \cup {modules[k]}
           \/ CloseModules
    PROVE  SharingInv'
<1>1. ActiveOK'
  BY DEF SharingInv, ActiveOK, CloseModules
<1>2. MapOK'
  <2>1. /\ \A k \in DOMAIN modules' : k \in DOMAIN modules /\ modules'[k] = modules[k]
        /\ \A r \in got' : r \in got \/ \E k \in DOMAIN modules : r = modules[k]
        /\ ~closed' => modules' = modules /\ ~closed
    BY DEF CloseModules
  <2> QED
    BY <2>1 DEF SharingInv, MapOK
<1>3. ChainOK' /\ ShareOK'
  BY DEF SharingInv, ChainOK, ShareOK, InProgress
<1> QED
  BY <1>1, <1>2, <1>3 DEF SharingInv

LEMMA SharingStep ==
    ASSUME SharingInv, [CommonJSNext]_commonJSVars
    PROVE  SharingInv'
<1>1. CASE \E name \in EntryNames : ExecuteModuleScript(name)
  BY <1>1, ExecuteSharing
<1>2. CASE \E path \in Paths : RequireExecutes(path)
  BY <1>2, RequireSharing
<1>3. CASE \E path \in Paths : RequireCached(path)
  BY <1>3, OtherSharing DEF RequireCached
<1>4. CASE \E path \in Paths : RequireThrows(path)
  BY <1>4, OtherSharing DEF RequireThrows
<1>5. CASE ScriptEnds
  BY <1>5, EndsSharing
<1>6. CASE ScriptThrows
  BY <1>6, ThrowsSharing
<1>7. CASE CloseModules
  BY <1>7, OtherSharing DEF CloseModules
<1>8. CASE UNCHANGED commonJSVars
  BY <1>8, OtherSharing DEF commonJSVars
<1> QED
  BY <1>1, <1>2, <1>3, <1>4, <1>5, <1>6, <1>7, <1>8 DEF CommonJSNext, Paths

\* require returns modules whose script has ended, and all scripts get the same
\* module of a name, but for the ways around the map that RequireSharesModules
\* names: whatever the scripts require, however deep they nest and wherever they
\* throw.
THEOREM ModulesAreShared == CommonJSSpec => []RequireSharesModules
<1>1. CommonJSInit => SharingInv
  <2> SUFFICES ASSUME CommonJSInit
               PROVE  SharingInv
    OBVIOUS
  <2>1. runs = << >> /\ active = << >> /\ modules = << >> /\ got = {}
        /\ DOMAIN runs = {} /\ DOMAIN active = {} /\ DOMAIN modules = {}
    BY DEF CommonJSInit
  <2> QED
    BY <2>1 DEF SharingInv, ActiveOK, MapOK, ChainOK, ShareOK
<1>2. SharingInv /\ [CommonJSNext]_commonJSVars => SharingInv'
  BY SharingStep
<1>3. SharingInv => RequireSharesModules
  <2> SUFFICES ASSUME SharingInv
               PROVE  RequireSharesModules
    OBVIOUS
  <2>1. \A r \in got : r \in DOMAIN runs /\ Finished(runs[r]) /\ runs[r].ended
    BY DEF SharingInv, MapOK, Finished
  <2>2. \A q, r \in got : q < r /\ Again(runs[q], runs[r]) => Leads(runs[q], runs[r])
    BY <2>1 DEF SharingInv, ShareOK
  <2> QED
    BY <2>1, <2>2 DEF RequireSharesModules, Again, Leads, Key, KeyOf
<1> QED
  BY <1>1, <1>2, <1>3, PTL DEF CommonJSSpec


-----------------------------------------------------------------------------
(***************************************************************************)
(* ES6: sequences.                                                         *)
(***************************************************************************)

Sequence(s) == \E S : s \in Seq(S)

LEMMA Appended ==
    ASSUME NEW s, Sequence(s), NEW x
    PROVE  /\ Len(s) \in Nat /\ DOMAIN s = 1 .. Len(s)
           /\ Sequence(Append(s, x)) /\ Len(Append(s, x)) = Len(s) + 1
           /\ DOMAIN Append(s, x) = 1 .. Len(s) + 1
           /\ \A i \in 1 .. Len(s) : Append(s, x)[i] = s[i]
           /\ Append(s, x)[Len(s) + 1] = x
<1>1. PICK S : s \in Seq(S)
  BY DEF Sequence
<1>2. s \in Seq(S \cup {x})
  BY <1>1
<1>3. Append(s, x) \in Seq(S \cup {x})
  BY <1>2
<1> QED
  BY <1>2, <1>3 DEF Sequence

LEMMA Changed ==
    ASSUME NEW s, Sequence(s), NEW k \in DOMAIN s, NEW x
    PROVE  /\ Sequence([s EXCEPT ![k] = x]) /\ Len([s EXCEPT ![k] = x]) = Len(s)
           /\ DOMAIN [s EXCEPT ![k] = x] = DOMAIN s
           /\ \A i \in DOMAIN s : [s EXCEPT ![k] = x][i] = IF i = k THEN x ELSE s[i]
<1>1. PICK S : s \in Seq(S)
  BY DEF Sequence
<1>2. s \in Seq(S \cup {x})
  BY <1>1
<1>3. [s EXCEPT ![k] = x] \in Seq(S \cup {x})
  BY <1>2
<1> QED
  BY <1>2, <1>3 DEF Sequence

\* What the engine's functions do to the stack.
Call == [op : {"resolve", "link", "evaluate", "body"}, m : Nat, i : Nat \ {0}, root : Nat]

LEMMA Pushed ==
    ASSUME NEW s \in Seq(Call), NEW f \in Call
    PROVE  /\ Append(s, f) \in Seq(Call)
           /\ Len(Append(s, f)) = Len(s) + 1 /\ DOMAIN Append(s, f) = 1 .. Len(s) + 1
           /\ \A p \in 1 .. Len(s) : Append(s, f)[p] = s[p]
           /\ Append(s, f)[Len(s) + 1] = f
  OBVIOUS

LEMMA Cut ==
    ASSUME NEW s \in Seq(Call), NEW k \in 0 .. Len(s)
    PROVE  /\ SubSeq(s, 1, k) \in Seq(Call)
           /\ Len(SubSeq(s, 1, k)) = k /\ DOMAIN SubSeq(s, 1, k) = 1 .. k
           /\ \A p \in 1 .. k : SubSeq(s, 1, k)[p] = s[p]
  OBVIOUS

LEMMA Replaced ==
    ASSUME NEW s \in Seq(Call), s # << >>, NEW f \in Call
    PROVE  /\ Append(Front(s), f) \in Seq(Call)
           /\ Len(Append(Front(s), f)) = Len(s) /\ DOMAIN Append(Front(s), f) = 1 .. Len(s)
           /\ \A p \in 1 .. Len(s) - 1 : Append(Front(s), f)[p] = s[p]
           /\ Append(Front(s), f)[Len(s)] = f
<1>1. Len(s) \in Nat \ {0} /\ Len(s) - 1 \in 0 .. Len(s)
  OBVIOUS
<1>2. PICK t : t = SubSeq(s, 1, Len(s) - 1)
  OBVIOUS
<1>3. Front(s) = t /\ t \in Seq(Call) /\ Len(t) = Len(s) - 1 /\ \A p \in 1 .. Len(s) - 1 : t[p] = s[p]
  BY <1>1, <1>2, Cut DEF Front
<1> QED
  BY <1>1, <1>3, Pushed

\* The call at k goes on to its next request.
Advanced(s, t, k) ==
    /\ t \in Seq(Call) /\ Len(t) = k /\ DOMAIN t = 1 .. k
    /\ \A p \in 1 .. k : t[p].op = s[p].op /\ t[p].m = s[p].m /\ t[p].root = s[p].root
    /\ \A p \in 1 .. k - 1 : t[p] = s[p]
    /\ t[k].i = s[k].i + 1

LEMMA Advances ==
    ASSUME NEW s \in Seq(Call), NEW k \in 1 .. Len(s)
    PROVE  Advanced(s, [SubSeq(s, 1, k) EXCEPT ![k].i = @ + 1], k)
<1>1. PICK t : t = SubSeq(s, 1, k)
  OBVIOUS
<1>2. t \in Seq(Call) /\ Len(t) = k /\ DOMAIN t = 1 .. k /\ \A p \in 1 .. k : t[p] = s[p]
  BY <1>1, Cut
<1>3. PICK g : g = t[k]
  OBVIOUS
<1>4. g = s[k] /\ g \in Call
  BY <1>2, <1>3
<1>5. PICK f : f = [g EXCEPT !.i = g.i + 1]
  OBVIOUS
<1>6. /\ f \in Call /\ f.op = g.op /\ f.m = g.m /\ f.root = g.root /\ f.i = g.i + 1
      /\ [t EXCEPT ![k].i = @ + 1] = [t EXCEPT ![k] = f]
  <2>1. g.i + 1 \in Nat \ {0}
    BY <1>4 DEF Call
  <2>2. f \in Call /\ f.op = g.op /\ f.m = g.m /\ f.root = g.root /\ f.i = g.i + 1
    BY <2>1, <1>4, <1>5 DEF Call
  <2>3. [t EXCEPT ![k].i = @ + 1] = [t EXCEPT ![k] = f]
    BY <1>3, <1>5
  <2> QED
    BY <2>2, <2>3
<1>7. Advanced(s, [t EXCEPT ![k] = f], k)
  BY <1>2, <1>4, <1>6 DEF Advanced
<1> QED
  BY <1>1, <1>6, <1>7

-----------------------------------------------------------------------------
(***************************************************************************)
(* Importing.                                                              *)
(***************************************************************************)

\* A module's import is imported from it, and from whatever it is imported from.
LEMMA ImportIsImported ==
    ASSUME NEW k \in DOMAIN defs, NEW m \in DOMAIN defs, NEW j \in DOMAIN Requested(m),
           defs[k].module_name = convertModuleName(defs[m].module_name, Requested(m)[j])
    PROVE  /\ IsImportedFrom(k, m)
           /\ \A d : IsImportedFrom(m, d) => IsImportedFrom(k, d)
<1>1. PICK a, b : a = defs[m].module_name /\ b = defs[k].module_name
  OBVIOUS
<1>2. b \in Names /\ b \in ImportedBy(a)
  BY <1>1 DEF Names, ImportedBy, Requested, Range
<1>3. b \in ImportedFrom(a)
  BY <1>2 DEF ImportedFrom
<1>4. ASSUME NEW c, a \in ImportedFrom(c)
      PROVE  b \in ImportedFrom(c)
  <2> SUFFICES ASSUME NEW S \in SUBSET Names,
                      ImportedBy(c) \cup UNION {ImportedBy(s) : s \in S} \subseteq S
               PROVE  b \in S
    BY <1>2 DEF ImportedFrom
  <2>1. a \in S
    BY <1>4 DEF ImportedFrom
  <2> QED
    BY <2>1, <1>2
<1> QED
  BY <1>1, <1>3, <1>4 DEF IsImportedFrom

\* More records make no difference to what is imported from what.
Keeps ==
    /\ scripts' = scripts
    /\ DOMAIN defs \subseteq DOMAIN defs'
    /\ \A m \in DOMAIN defs : defs'[m] = defs[m]

LEMMA ImportedStays ==
    ASSUME Keeps, NEW k \in DOMAIN defs, NEW m \in DOMAIN defs, IsImportedFrom(k, m)
    PROVE  IsImportedFrom(k, m)'
<1>1. PICK a, b : a = defs[m].module_name /\ b = defs[k].module_name
  OBVIOUS
<1>2. Names \subseteq Names'
  BY DEF Names, Keeps
<1>3. \A n : ImportedBy(n) \subseteq ImportedBy(n)' /\ ImportedBy(n) \subseteq Names
  BY <1>2 DEF ImportedBy, Keeps
<1>4. b \in ImportedFrom(a)
  BY <1>1 DEF IsImportedFrom
<1>5. b \in ImportedFrom(a)'
  <2>1. b \in Names'
    BY <1>2, <1>4 DEF ImportedFrom
  <2> SUFFICES ASSUME NEW S \in SUBSET Names',
                      ImportedBy(a)' \cup UNION {ImportedBy(s)' : s \in S} \subseteq S
               PROVE  b \in S
    BY <2>1 DEF ImportedFrom
  <2>2. ImportedBy(a) \cup UNION {ImportedBy(s) : s \in S \cap Names} \subseteq S \cap Names
    BY <1>3
  <2> QED
    BY <2>2, <1>4 DEF ImportedFrom
<1> QED
  BY <1>1, <1>5 DEF IsImportedFrom, Keeps

-----------------------------------------------------------------------------
(***************************************************************************)
(* The invariant.                                                          *)
(***************************************************************************)

\* A request is answered with a record of the name that its path converts to.
RequestOK(m, j) ==
    module[m][j] # NoDef =>
       /\ module[m][j] \in DOMAIN defs
       /\ defs[module[m][j]].module_name
            = convertModuleName(defs[m].module_name, Requested(m)[j])
       /\ defs[module[m][j]].module_name # Throws

RecordsOK ==
    /\ scripts \in Worlds
    /\ Sequence(defs) /\ Sequence(module) /\ Len(module) = Len(defs)
    /\ \A m \in DOMAIN defs :
          /\ File(defs[m].module_name) \in DOMAIN scripts
          /\ DOMAIN module[m] = DOMAIN Requested(m)
          /\ \A j \in DOMAIN module[m] : RequestOK(m, j)

FlagsOK ==
    /\ loaded_modules \subseteq DOMAIN defs
    /\ instantiated \subseteq DOMAIN defs
    /\ evaluated \subseteq instantiated
    /\ eval_has_exception \subseteq evaluated

\* An execution is started by a body.  Only the innermost one resolves or links.
Shape(s) ==
    /\ s \in Seq(Call)
    /\ \A p \in DOMAIN s :
          /\ s[p].root \in 1 .. p
          /\ s[p].root > 1 => s[s[p].root - 1].op = "body"
          /\ s[p].op = "link" => p = Len(s) /\ s[p].root = p
    /\ \A p, q \in DOMAIN s :
          q \in s[p].root .. p =>
             s[q].root = s[p].root /\ (s[p].op = "resolve" => s[q].op = "resolve")
    /\ \A p, q \in DOMAIN s :
          p < q /\ s[p].op = "resolve" => s[q].op = "resolve" /\ s[q].root = s[p].root

StackOK ==
    /\ Shape(stack)
    /\ \A p \in DOMAIN stack : stack[p].m \in DOMAIN defs
    /\ \A p, q \in DOMAIN stack : p < q => stack[p].m # stack[q].m

IsEval(f) == f.op \in {"evaluate", "body"}

\* The records of a stack that are loaded and linked, and those evaluated.
Opened(s) == {s[p].m : p \in {q \in DOMAIN s : ~IsEval(s[q])}}
Evals(s) == {s[p].m : p \in {q \in DOMAIN s : IsEval(s[q])}}

\* While a record is loaded and linked, the records after it are there because
\* it imports them, and only they have requests that it answers.
OpenOK ==
    /\ \A d \in Opened(stack) :
          /\ d \notin instantiated
          /\ \A k \in DOMAIN defs : k > d => IsImportedFrom(k, d)
          /\ \A k \in DOMAIN defs : d \in Requests(k) => k >= d
    /\ \A p, q \in DOMAIN stack :
          p < q /\ stack[p].op = "resolve" => stack[p].m < stack[q].m

\* The request that the call at p of s is at is for the record of the next one.
Awaits(s, p) ==
    /\ s[p].i \in DOMAIN module[s[p].m]
    /\ defs[s[p + 1].m].module_name
         = convertModuleName(defs[s[p].m].module_name, Requested(s[p].m)[s[p].i])
    /\ defs[s[p + 1].m].module_name # Throws

\* Requests without an answer are those that are being resolved.
AnswersOK ==
    /\ \A k \in loaded_modules : \A j \in DOMAIN module[k] :
          module[k][j] = NoDef =>
             \E p \in DOMAIN stack : /\ stack[p].op = "resolve"
                                     /\ stack[p].m = k
                                     /\ stack[p].i <= j
    /\ \A p \in DOMAIN stack :
          stack[p].op = "resolve" /\ p < Len(stack) => Awaits(stack, p)

\* The request j of the call at p of s is done.
Done(s, p, j) ==
    \/ module[s[p].m][j] \in evaluated \ eval_has_exception
    \/ \E q \in 1 .. p : s[q].m = module[s[p].m][j]

EvalOK ==
    /\ eval_mark = Evals(stack)
    /\ eval_mark \subseteq instantiated \ evaluated
    /\ \A p, q \in DOMAIN stack :
          p < q /\ IsEval(stack[p]) /\ stack[q].root = stack[p].root =>
             IsImportedFrom(stack[q].m, stack[p].m)
    /\ \A p \in DOMAIN stack : IsEval(stack[p]) =>
          /\ \A j \in DOMAIN module[stack[p].m] :
                j < stack[p].i \/ stack[p].op = "body" => Done(stack, p, j)
          /\ stack[p].op = "evaluate" /\ p < Len(stack) =>
                /\ stack[p].i \in DOMAIN module[stack[p].m]
                /\ stack[p + 1].m = module[stack[p].m][stack[p].i]

\* A record whose request leads to a freed one, or would if what is not
\* evaluated were freed, is imported by it.
FreedOK ==
    /\ \A k \in loaded_modules : \A d \in Requests(k) \ loaded_modules :
          d = NoDef \/ d \in interrupted \/ IsImportedFrom(k, d)
    /\ \A k \in evaluated : \A d \in Requests(k) \ evaluated :
          d \in interrupted \/ IsImportedFrom(k, d)
    /\ \A k \in instantiated : Requests(k) \subseteq instantiated
    /\ \A k \in (loaded_modules \cap instantiated) \ evaluated :
          Requests(k) \subseteq loaded_modules

\* A body may find its record freed, no other call may.
AliveOK ==
    /\ \A p \in DOMAIN stack : \A q \in 1 .. stack[p].root - 1 : stack[q].m \in interrupted
    /\ \/ \A p \in DOMAIN stack : stack[p].m \in loaded_modules
       \/ stack # << >> /\ Top.op = "body" /\ Top.m \in interrupted \ loaded_modules

FaultOK == fault = None \/ fault.of \in interrupted \/ IsImportedFrom(fault.by, fault.of)

UniqueOK ==
    \A k, m \in loaded_modules :
       k # m /\ ~defs[k].executed /\ ~defs[m].executed =>
          defs[k].module_name # defs[m].module_name

Inv ==
    /\ RecordsOK /\ FlagsOK /\ StackOK /\ OpenOK /\ AnswersOK /\ EvalOK
    /\ FreedOK /\ AliveOK /\ FaultOK /\ UniqueOK

-----------------------------------------------------------------------------

\* The innermost call.
LEMMA TopIsLast ==
    ASSUME StackOK, stack # << >>
    PROVE  /\ Len(stack) \in Nat \ {0} /\ Len(stack) \in DOMAIN stack
           /\ DOMAIN stack = 1 .. Len(stack)
           /\ Top = stack[Len(stack)] /\ Top \in Call /\ Top.m \in DOMAIN defs
           /\ Top.root \in 1 .. Len(stack)
<1>1. stack \in Seq(Call)
  BY DEF StackOK, Shape
<1>2. Len(stack) \in Nat \ {0} /\ Len(stack) \in DOMAIN stack /\ DOMAIN stack = 1 .. Len(stack)
  BY <1>1
<1>3. Top = stack[Len(stack)] /\ Top \in Call
  BY <1>1, <1>2 DEF Top, Last
<1> QED
  BY <1>2, <1>3 DEF StackOK, Shape

\* Records are numbered from one.
LEMMA Numbers ==
    ASSUME RecordsOK
    PROVE  /\ Len(defs) \in Nat /\ DOMAIN defs = 1 .. Len(defs) /\ DOMAIN module = DOMAIN defs
           /\ NoDef \notin DOMAIN defs /\ DOMAIN defs \subseteq Nat
           /\ \A m \in DOMAIN defs :
                 /\ Len(Requested(m)) \in Nat /\ DOMAIN Requested(m) = 1 .. Len(Requested(m))
                 /\ DOMAIN module[m] = 1 .. Len(Requested(m)) /\ Len(module[m]) = Len(Requested(m))
                 /\ Requests(m) \subseteq DOMAIN defs \cup {NoDef}
<1>1. Len(defs) \in Nat /\ DOMAIN defs = 1 .. Len(defs)
  BY Appended DEF RecordsOK
<1>2. DOMAIN module = DOMAIN defs
  BY <1>1, Appended DEF RecordsOK
<1>3. ASSUME NEW m \in DOMAIN defs
      PROVE  /\ Len(Requested(m)) \in Nat /\ DOMAIN Requested(m) = 1 .. Len(Requested(m))
             /\ DOMAIN module[m] = 1 .. Len(Requested(m)) /\ Len(module[m]) = Len(Requested(m))
             /\ Requests(m) \subseteq DOMAIN defs \cup {NoDef}
  <2>1. Len(Requested(m)) \in Nat /\ DOMAIN Requested(m) = 1 .. Len(Requested(m))
    BY ES6ModulesAssumption DEF RecordsOK, Requested
  <2>2. DOMAIN module[m] = 1 .. Len(Requested(m))
    BY <2>1 DEF RecordsOK
  <2>3. Len(module[m]) = Len(Requested(m))
    BY <2>1, <2>2
  <2>4. Requests(m) \subseteq DOMAIN defs \cup {NoDef}
    BY DEF RecordsOK, RequestOK, Requests, Range
  <2> QED
    BY <2>1, <2>2, <2>3, <2>4
<1> QED
  BY <1>1, <1>2, <1>3 DEF NoDef

-----------------------------------------------------------------------------
(***************************************************************************)
(* The shape of the stack.                                                 *)
(***************************************************************************)

\* A body starts an execution, or the innermost call makes another one.
LEMMA PushShape ==
    ASSUME NEW s, Shape(s), NEW f \in Call, f.op # "link", f.op # "body",
           \/ /\ s # << >> => s[Len(s)].op = "body"
              /\ f.root = Len(s) + 1
           \/ /\ s # << >>
              /\ f.op = s[Len(s)].op
              /\ f.root = s[Len(s)].root
    PROVE  Shape(Append(s, f))
<1>1. s \in Seq(Call) /\ Len(s) \in Nat /\ DOMAIN s = 1 .. Len(s)
  BY DEF Shape
<1>2. PICK n, t : n = Len(s) /\ t = Append(s, f)
  OBVIOUS
<1>3. /\ n \in Nat /\ DOMAIN s = 1 .. n
      /\ t \in Seq(Call) /\ Len(t) = n + 1 /\ DOMAIN t = 1 .. n + 1
      /\ \A p \in 1 .. n : t[p] = s[p]
      /\ t[n + 1] = f
  BY <1>1, <1>2, Pushed
<1>4. n > 0 => n \in DOMAIN s /\ s # << >>
  BY <1>1, <1>2
<1>5. s # << >> => n > 0
  BY <1>1, <1>2
<1>6. \A p \in 1 .. n : s[p].op # "link" /\ s[p].root \in 1 .. p /\ (p = n => s[p].op = "body" \/ s[p].op = f.op)
  BY <1>2, <1>3, <1>4 DEF Shape
<1>7. ASSUME NEW p \in DOMAIN t
      PROVE  /\ t[p].root \in 1 .. p
             /\ t[p].root > 1 => t[t[p].root - 1].op = "body"
             /\ t[p].op = "link" => p = Len(t) /\ t[p].root = p
  <2>1. CASE p \in 1 .. n
    <3>1. s[p].root \in 1 .. p /\ (s[p].root > 1 => s[s[p].root - 1].op = "body")
      BY <2>1, <1>3 DEF Shape
    <3>2. s[p].root > 1 => s[p].root - 1 \in 1 .. n
      BY <2>1, <1>3, <3>1
    <3> QED
      BY <2>1, <3>1, <3>2, <1>3, <1>6
  <2>2. CASE p = n + 1
    <3>1. CASE f.root = n + 1 /\ (n > 0 => s[n].op = "body")
      BY <2>2, <3>1, <1>3
    <3>2. CASE n > 0 /\ f.root = s[n].root
      <4>1. s[n].root \in 1 .. n /\ (s[n].root > 1 => s[s[n].root - 1].op = "body")
        BY <3>2, <1>3, <1>4 DEF Shape
      <4>2. s[n].root > 1 => s[n].root - 1 \in 1 .. n
        BY <4>1, <1>3
      <4> QED
        BY <2>2, <3>2, <4>1, <4>2, <1>3
    <3> QED
      BY <3>1, <3>2, <1>2, <1>4, <1>5
  <2> QED
    BY <2>1, <2>2, <1>3
<1>8. ASSUME NEW p \in DOMAIN t, NEW q \in DOMAIN t, q \in t[p].root .. p
      PROVE  t[q].root = t[p].root /\ (t[p].op = "resolve" => t[q].op = "resolve")
  <2>1. CASE p \in 1 .. n
    <3>1. q \in 1 .. n
      BY <2>1, <1>3, <1>8
    <3> QED
      BY <2>1, <3>1, <1>3, <1>8 DEF Shape
  <2>2. CASE p = n + 1 /\ q = n + 1
    BY <2>2
  <2>3. CASE p = n + 1 /\ q # n + 1
    <3>1. q \in 1 .. n /\ f.root <= n /\ f.root = s[n].root /\ f.op = s[n].op /\ n > 0
      <4>1. q \in 1 .. n /\ f.root <= n /\ n > 0
        BY <2>3, <1>3, <1>7, <1>8
      <4> QED
        BY <4>1, <1>2, <1>4
    <3>2. q \in s[n].root .. n /\ n \in DOMAIN s
      BY <2>3, <3>1, <1>3, <1>8
    <3>3. s[q].root = s[n].root /\ (s[n].op = "resolve" => s[q].op = "resolve")
      BY <3>1, <3>2, <1>3 DEF Shape
    <3> QED
      BY <2>3, <3>1, <3>3, <1>3
  <2> QED
    BY <2>1, <2>2, <2>3, <1>3
<1>9. ASSUME NEW p \in DOMAIN t, NEW q \in DOMAIN t, p < q, t[p].op = "resolve"
      PROVE  t[q].op = "resolve" /\ t[q].root = t[p].root
  <2>1. p \in 1 .. n
    BY <1>3, <1>9
  <2>2. CASE q \in 1 .. n
    BY <2>1, <2>2, <1>3, <1>9 DEF Shape
  <2>3. CASE q = n + 1
    <3>1. n \in DOMAIN s /\ s[n].op = "resolve" /\ s[n].root = s[p].root
      BY <2>1, <1>3, <1>9 DEF Shape
    <3>2. f.op = s[n].op /\ f.root = s[n].root
      BY <3>1, <1>2, <1>4, <2>1
    <3> QED
      BY <2>1, <2>3, <3>1, <3>2, <1>3
  <2> QED
    BY <2>2, <2>3, <1>3
<1> QED
  BY <1>2, <1>3, <1>7, <1>8, <1>9 DEF Shape

\* Calls return, and the one at k may go on.
LEMMA CutShape ==
    ASSUME NEW s, Shape(s), NEW k \in 0 .. Len(s), NEW t,
           t \in Seq(Call) /\ Len(t) = k /\ DOMAIN t = 1 .. k,
           \A p \in 1 .. k : t[p].op = s[p].op /\ t[p].root = s[p].root
    PROVE  Shape(t)
<1>1. s \in Seq(Call) /\ DOMAIN s = 1 .. Len(s) /\ Len(s) \in Nat
  BY DEF Shape
<1>2. \A p \in 1 .. k : p \in DOMAIN s /\ s[p].root \in 1 .. p
  BY <1>1 DEF Shape
<1>3. ASSUME NEW p \in DOMAIN t
      PROVE  /\ t[p].root \in 1 .. p
             /\ t[p].root > 1 => t[t[p].root - 1].op = "body"
             /\ t[p].op = "link" => p = Len(t) /\ t[p].root = p
  <2>1. t[p].root > 1 => t[p].root - 1 \in 1 .. k
    BY <1>2
  <2>2. t[p].root > 1 => t[t[p].root - 1].op = "body"
    <3>1. PICK r : r = s[p].root
      OBVIOUS
    <3>2. t[p].root = r /\ (r > 1 => s[r - 1].op = "body")
      BY <3>1, <1>2 DEF Shape
    <3> QED
      BY <3>2, <2>1
  <2>3. t[p].op = "link" => p = Len(t) /\ t[p].root = p
    BY <1>1, <1>2 DEF Shape
  <2> QED
    BY <2>2, <2>3, <1>2
<1>4. ASSUME NEW p \in DOMAIN t, NEW q \in DOMAIN t
      PROVE  /\ q \in t[p].root .. p =>
                   t[q].root = t[p].root /\ (t[p].op = "resolve" => t[q].op = "resolve")
             /\ p < q /\ t[p].op = "resolve" => t[q].op = "resolve" /\ t[q].root = t[p].root
  BY <1>2 DEF Shape
<1> QED
  BY <1>3, <1>4 DEF Shape

\* The innermost call goes on to the next phase.
LEMMA PhaseShape ==
    ASSUME NEW s, Shape(s), s # << >>, NEW t, t \in Seq(Call), Len(t) = Len(s), DOMAIN t = DOMAIN s,
           \A p \in 1 .. Len(s) - 1 : t[p] = s[p],
           t[Len(s)].root = s[Len(s)].root,
           t[Len(s)].op # "resolve",
           \/ s[Len(s)].op # "resolve"
           \/ s[Len(s)].root = Len(s),
           t[Len(s)].op = "link" => s[Len(s)].root = Len(s)
    PROVE  Shape(t)
<1>1. PICK n : n = Len(s)
  OBVIOUS
<1>2. s \in Seq(Call) /\ n \in Nat \ {0} /\ DOMAIN s = 1 .. n /\ n \in DOMAIN s
  BY <1>1 DEF Shape
<1>3. \A p \in 1 .. n : s[p].root \in 1 .. p /\ t[p].root = s[p].root /\ (p # n => t[p] = s[p])
  <2>1. \A p \in 1 .. n : s[p].root \in 1 .. p
    BY <1>2 DEF Shape
  <2>2. \A p \in 1 .. n : p # n => t[p] = s[p]
    BY <1>1, <1>2
  <2> QED
    BY <2>1, <2>2, <1>1
<1>4. ASSUME NEW p \in 1 .. n, p # n
      PROVE  s[p].op # "resolve" /\ s[p].op # "link"
  <2>1. p < n /\ p \in DOMAIN s
    BY <1>2, <1>4
  <2>2. s[p].op # "link"
    BY <2>1, <1>1 DEF Shape
  <2>3. s[p].op = "resolve" => s[n].op = "resolve" /\ s[n].root = s[p].root
    BY <2>1, <1>2 DEF Shape
  <2>4. s[p].root < n /\ s[p].root \in Nat
    BY <2>1, <1>2, <1>3
  <2> QED
    BY <2>2, <2>3, <2>4, <1>1
<1>5. ASSUME NEW p \in DOMAIN t
      PROVE  /\ t[p].root \in 1 .. p
             /\ t[p].root > 1 => t[t[p].root - 1].op = "body"
             /\ t[p].op = "link" => p = Len(t) /\ t[p].root = p
  <2>1. s[p].root > 1 => s[p].root - 1 \in 1 .. n - 1 /\ s[s[p].root - 1].op = "body"
    BY <1>2, <1>3 DEF Shape
  <2> QED
    BY <2>1, <1>1, <1>2, <1>3, <1>4
<1>6. ASSUME NEW p \in DOMAIN t, NEW q \in DOMAIN t
      PROVE  /\ q \in t[p].root .. p =>
                   t[q].root = t[p].root /\ (t[p].op = "resolve" => t[q].op = "resolve")
             /\ p < q /\ t[p].op = "resolve" => t[q].op = "resolve" /\ t[q].root = t[p].root
  <2>1. t[p].op # "resolve"
    BY <1>1, <1>2, <1>3, <1>4
  <2> QED
    BY <2>1, <1>2, <1>3 DEF Shape
<1> QED
  BY <1>5, <1>6 DEF Shape

-----------------------------------------------------------------------------
(***************************************************************************)
(* A record is created.                                                    *)
(***************************************************************************)

LEMMA ImportIsImportedNext ==
    ASSUME NEW k \in DOMAIN defs', NEW m \in DOMAIN defs', NEW path,
           path \in Range(scripts'[File(defs'[m].module_name)]),
           defs'[k].module_name = convertModuleName(defs'[m].module_name, path)
    PROVE  /\ IsImportedFrom(k, m)'
           /\ \A d : IsImportedFrom(m, d)' => IsImportedFrom(k, d)'
<1>1. PICK a, b : a = defs'[m].module_name /\ b = defs'[k].module_name
  OBVIOUS
<1>2. b \in Names' /\ b \in ImportedBy(a)'
  BY <1>1 DEF Names, ImportedBy
<1>3. b \in ImportedFrom(a)'
  BY <1>2 DEF ImportedFrom
<1>4. ASSUME NEW c, a \in ImportedFrom(c)'
      PROVE  b \in ImportedFrom(c)'
  <2> SUFFICES ASSUME NEW S \in SUBSET Names',
                      ImportedBy(c)' \cup UNION {ImportedBy(s)' : s \in S} \subseteq S
               PROVE  b \in S
    BY <1>2 DEF ImportedFrom
  <2>1. a \in S
    BY <1>4 DEF ImportedFrom
  <2> QED
    BY <2>1, <1>2
<1> QED
  BY <1>1, <1>3, <1>4 DEF IsImportedFrom

\* The record d is new.
Created(d, name, executed) ==
    /\ Keeps
    /\ d = Len(defs) + 1 /\ d \in Nat /\ d # NoDef /\ d \notin DOMAIN defs
    /\ DOMAIN defs' = DOMAIN defs \cup {d}
    /\ \A k \in DOMAIN defs : k \in Nat /\ k < d /\ module'[k] = module[k]
    /\ defs'[d] = [module_name |-> name, executed |-> executed]
    /\ DOMAIN module'[d] = DOMAIN scripts[File(name)]
    /\ \A j \in DOMAIN module'[d] : module'[d][j] = NoDef
    /\ loaded_modules' = loaded_modules \cup {d}
    /\ flags' = flags /\ fault' = fault

LEMMA RecordCreated ==
    ASSUME RecordsOK, NEW name, NEW executed, NewModuleDef(name, executed),
           File(name) \in DOMAIN scripts
    PROVE  Created(Len(defs) + 1, name, executed) /\ RecordsOK'
<1>1. PICK d : d = Len(defs) + 1
  OBVIOUS
<1>2. PICK r : r = [i \in DOMAIN scripts[File(name)] |-> NoDef]
  OBVIOUS
<1>3. /\ Sequence(defs) /\ Sequence(module) /\ Len(module) = Len(defs)
      /\ DOMAIN defs \subseteq Nat /\ DOMAIN module = DOMAIN defs
      /\ DOMAIN defs = 1 .. Len(defs) /\ Len(defs) \in Nat
  BY Numbers DEF RecordsOK
<1>4. /\ defs' = Append(defs, [module_name |-> name, executed |-> executed])
      /\ module' = Append(module, r)
      /\ scripts' = scripts
  BY <1>2 DEF NewModuleDef
<1>5. /\ Sequence(defs') /\ Len(defs') = d /\ DOMAIN defs' = 1 .. d
      /\ \A i \in 1 .. Len(defs) : defs'[i] = defs[i]
      /\ defs'[d] = [module_name |-> name, executed |-> executed]
  BY <1>1, <1>3, <1>4, Appended
<1>6. /\ Sequence(module') /\ Len(module') = d
      /\ \A i \in 1 .. Len(defs) : module'[i] = module[i]
      /\ module'[d] = r
  BY <1>1, <1>3, <1>4, Appended
<1>7. /\ d \in Nat /\ d # NoDef /\ d \notin DOMAIN defs
      /\ DOMAIN defs' = DOMAIN defs \cup {d}
      /\ \A k \in DOMAIN defs : k \in Nat /\ k < d /\ module'[k] = module[k] /\ defs'[k] = defs[k]
  BY <1>1, <1>3, <1>5, <1>6 DEF NoDef
<1>8. Created(d, name, executed)
  BY <1>1, <1>2, <1>4, <1>5, <1>6, <1>7 DEF Created, Keeps, NewModuleDef, flags
<1>9. RecordsOK'
  <2> SUFFICES ASSUME NEW m \in DOMAIN defs'
               PROVE  /\ File(defs'[m].module_name) \in DOMAIN scripts
                      /\ DOMAIN module'[m] = DOMAIN Requested(m)'
                      /\ \A j \in DOMAIN module'[m] : RequestOK(m, j)'
    BY <1>4, <1>5, <1>6 DEF RecordsOK
  <2>1. CASE m = d
    BY <2>1, <1>2, <1>4, <1>5, <1>6 DEF Requested, RequestOK
  <2>2. CASE m \in DOMAIN defs
    <3>1. /\ defs'[m] = defs[m] /\ module'[m] = module[m]
          /\ Requested(m)' = Requested(m) /\ DOMAIN module[m] = DOMAIN Requested(m)
      BY <2>2, <1>4, <1>7 DEF Requested, RecordsOK
    <3>2. ASSUME NEW j \in DOMAIN module[m]
          PROVE  RequestOK(m, j)'
      <4>1. RequestOK(m, j)
        BY <2>2, <3>2 DEF RecordsOK
      <4> QED
        BY <4>1, <3>1, <1>7 DEF RequestOK
    <3> QED
      BY <2>2, <3>1, <3>2 DEF RecordsOK
  <2> QED
    BY <2>1, <2>2, <1>7
<1> QED
  BY <1>1, <1>8, <1>9

\* What the others keep.
LEMMA OthersKept ==
    ASSUME RecordsOK, NEW d, NEW name, NEW executed, Created(d, name, executed)
    PROVE  /\ \A k \in DOMAIN defs : Requests(k)' = Requests(k) /\ Requested(k)' = Requested(k)
           /\ \A k, m \in DOMAIN defs : IsImportedFrom(k, m) => IsImportedFrom(k, m)'
           /\ Requests(d)' \subseteq {NoDef}
<1>1. \A k \in DOMAIN defs : module'[k] = module[k] /\ defs'[k] = defs[k] /\ scripts' = scripts
  BY DEF Created, Keeps
<1>2. \A k \in DOMAIN defs : Requests(k)' = Requests(k) /\ Requested(k)' = Requested(k)
  BY <1>1 DEF Requests, Requested
<1>3. \A k, m \in DOMAIN defs : IsImportedFrom(k, m) => IsImportedFrom(k, m)'
  BY ImportedStays DEF Created
<1>4. Requests(d)' \subseteq {NoDef}
  BY DEF Created, Requests, Range
<1> QED
  BY <1>2, <1>3, <1>4

\* Java executes a module, or a request loads one.
Starts(executed, root) ==
    /\ executed /\ root = Len(stack) + 1
    /\ stack # << >> => Top.op = "body" /\ Top.m \in loaded_modules
    /\ interrupted' = interrupted \cup {stack[k].m : k \in DOMAIN stack}

Loads(name, executed, root) ==
    /\ ~executed /\ stack # << >> /\ Top.op = "resolve" /\ root = Top.root
    /\ Top.i \in DOMAIN Requested(Top.m)
    /\ name = convertModuleName(defs[Top.m].module_name, Requested(Top.m)[Top.i])
    /\ name # Throws
    /\ \A m \in loaded_modules : defs[m].module_name # name
    /\ interrupted' = interrupted

LEMMA LoadInv ==
    ASSUME Inv, fault = None, NEW name, NEW executed \in BOOLEAN, NEW root \in Nat,
           File(name) \in DOMAIN scripts, NewModuleDef(name, executed),
           stack' = Append(stack, Frame("resolve", Len(defs) + 1, root)),
           Starts(executed, root) \/ Loads(name, executed, root)
    PROVE  Inv'
<1>1. PICK d, n, f : d = Len(defs) + 1 /\ n = Len(stack) /\ f = Frame("resolve", d, root)
  OBVIOUS
<1>2. Created(d, name, executed) /\ RecordsOK'
  BY <1>1, RecordCreated DEF Inv
<1>3. /\ d \in Nat /\ d # NoDef /\ d \notin DOMAIN defs /\ DOMAIN defs' = DOMAIN defs \cup {d}
      /\ \A k \in DOMAIN defs : k \in Nat /\ k < d /\ module'[k] = module[k] /\ defs'[k] = defs[k]
      /\ defs'[d] = [module_name |-> name, executed |-> executed]
      /\ DOMAIN module'[d] = DOMAIN scripts[File(name)]
      /\ \A j \in DOMAIN module'[d] : module'[d][j] = NoDef
      /\ loaded_modules' = loaded_modules \cup {d} /\ scripts' = scripts
      /\ instantiated' = instantiated /\ eval_mark' = eval_mark /\ evaluated' = evaluated
      /\ eval_has_exception' = eval_has_exception /\ fault' = None
  BY <1>2 DEF Created, Keeps, flags
<1>4. /\ \A k \in DOMAIN defs : Requests(k)' = Requests(k) /\ Requested(k)' = Requested(k)
      /\ \A k, m \in DOMAIN defs : IsImportedFrom(k, m) => IsImportedFrom(k, m)'
      /\ Requests(d)' \subseteq {NoDef}
  BY <1>2, OthersKept DEF Inv
<1>5. /\ Shape(stack) /\ stack \in Seq(Call) /\ n \in Nat /\ DOMAIN stack = 1 .. n
      /\ \A p \in 1 .. n : stack[p].m \in DOMAIN defs /\ stack[p] \in Call /\ stack[p].root \in 1 .. p
  BY <1>1 DEF Inv, StackOK, Shape
<1>6. f \in Call /\ f.op = "resolve" /\ f.m = d /\ f.i = 1 /\ f.root = root
  BY <1>1, <1>3 DEF Frame, Call
<1>7. /\ stack' \in Seq(Call) /\ Len(stack') = n + 1 /\ DOMAIN stack' = 1 .. n + 1
      /\ \A p \in 1 .. n : stack'[p] = stack[p]
      /\ stack'[n + 1] = f
  BY <1>1, <1>5, <1>6, Pushed
<1>8. /\ n > 0 => stack # << >> /\ Top = stack[n] /\ n \in DOMAIN stack
      /\ stack # << >> => n > 0
  BY <1>1, <1>5, TopIsLast DEF Inv
<1>9. \/ /\ Starts(executed, root) /\ executed /\ root = n + 1
         /\ n > 0 => stack[n].op = "body"
      \/ /\ Loads(name, executed, root) /\ ~executed /\ n > 0
         /\ stack[n].op = "resolve" /\ root = stack[n].root
  BY <1>1, <1>8 DEF Starts, Loads
<1>10. n > 0 => stack[n].op \in {"body", "resolve"} /\ stack[n].m \in loaded_modules
  <2>1. CASE Starts(executed, root)
    BY <2>1, <1>8, <1>9 DEF Starts
  <2>2. CASE Loads(name, executed, root)
    BY <2>2, <1>8, <1>9 DEF Loads, Inv, AliveOK
  <2> QED
    BY <2>1, <2>2
<1>11. FlagsOK'
  BY <1>3 DEF Inv, FlagsOK
<1>12. StackOK'
  <2>1. Shape(Append(stack, f))
    <3>1. f.op # "link" /\ f.op # "body"
      BY <1>6
    <3>2. \/ /\ stack # << >> => stack[Len(stack)].op = "body"
             /\ f.root = Len(stack) + 1
          \/ /\ stack # << >>
             /\ f.op = stack[Len(stack)].op
             /\ f.root = stack[Len(stack)].root
      BY <1>1, <1>6, <1>8, <1>9
    <3> QED
      BY <1>5, <1>6, <3>1, <3>2, PushShape
  <2>2. Shape(stack')
    BY <2>1, <1>1
  <2>3. \A p \in DOMAIN stack' : stack'[p].m \in DOMAIN defs'
    BY <1>3, <1>5, <1>6, <1>7
  <2>4. ASSUME NEW p \in DOMAIN stack', NEW q \in DOMAIN stack', p < q
        PROVE  stack'[p].m # stack'[q].m
    <3>1. p \in 1 .. n
      BY <2>4, <1>5, <1>7
    <3>2. CASE q = n + 1
      BY <3>1, <3>2, <1>3, <1>5, <1>6, <1>7
    <3>3. CASE q \in 1 .. n
      BY <3>1, <3>3, <2>4, <1>5, <1>7 DEF Inv, StackOK
    <3> QED
      BY <3>2, <3>3, <1>5, <1>7
  <2> QED
    BY <2>2, <2>3, <2>4 DEF StackOK
<1>13. OpenOK'
  <2>1. \A e : e \in Opened(stack') => e = d \/ e \in Opened(stack)
    BY <1>5, <1>6, <1>7 DEF Opened
  <2>2. \A e \in Opened(stack) : e \in DOMAIN defs /\ e \in Nat
    BY <1>3, <1>5 DEF Opened
  <2>3. ASSUME NEW e \in Opened(stack)
        PROVE  IsImportedFrom(d, e)'
    <3>1. PICK p \in 1 .. n : stack[p].m = e /\ ~IsEval(stack[p])
      BY <2>3, <1>5 DEF Opened
    <3>2. stack[p].op = "resolve" /\ stack[n].op = "resolve" /\ n > 0
      <4>1. stack[p].op \in {"resolve", "link"}
        BY <3>1, <1>5 DEF Call, IsEval
      <4>2. p # n => p < n
        BY <3>1, <1>5
      <4> QED
        BY <4>1, <4>2, <1>1, <1>5, <1>10 DEF Shape
    <3>3. PICK k : k = stack[n].m
      OBVIOUS
    <3>4. /\ k \in DOMAIN defs
          /\ Loads(name, executed, root)
          /\ stack[n].i \in DOMAIN Requested(k)
          /\ name = convertModuleName(defs[k].module_name, Requested(k)[stack[n].i])
      BY <3>2, <3>3, <1>5, <1>8, <1>9 DEF Loads
    <3>5. IsImportedFrom(d, k)' /\ \A c : IsImportedFrom(k, c)' => IsImportedFrom(d, c)'
      <4>1. PICK path : path = Requested(k)[stack[n].i]
        OBVIOUS
      <4>2. path \in Range(scripts'[File(defs'[k].module_name)])
        BY <4>1, <3>4, <1>3 DEF Requested, Range
      <4>3. k \in DOMAIN defs' /\ d \in DOMAIN defs'
            /\ defs'[d].module_name = convertModuleName(defs'[k].module_name, path)
        BY <4>1, <3>4, <1>3
      <4> QED
        BY <4>2, <4>3, ImportIsImportedNext
    <3>6. CASE p = n
      BY <3>1, <3>3, <3>5, <3>6
    <3>7. CASE p # n
      <4>1. p < n /\ e < k
        BY <3>1, <3>2, <3>3, <3>7, <1>5 DEF Inv, OpenOK
      <4>2. IsImportedFrom(k, e)
        BY <4>1, <3>4, <2>2, <1>3 DEF Inv, OpenOK
      <4> QED
        BY <4>2, <3>4, <3>5, <2>2, <1>4
    <3> QED
      BY <3>6, <3>7
  <2>4. ASSUME NEW e \in Opened(stack')
        PROVE  /\ e \notin instantiated'
               /\ \A k \in DOMAIN defs' : k > e => IsImportedFrom(k, e)'
               /\ \A k \in DOMAIN defs' : e \in Requests(k)' => k >= e
    <3>1. CASE e = d
      <4>1. e \notin instantiated'
        BY <3>1, <1>3 DEF Inv, FlagsOK
      <4>2. \A k \in DOMAIN defs' : ~(k > e)
        BY <3>1, <1>3
      <4>3. \A k \in DOMAIN defs : e \notin Requests(k)'
        BY <3>1, <1>3, <1>4, Numbers DEF Inv
      <4>4. e \notin Requests(d)'
        BY <3>1, <1>3, <1>4
      <4> QED
        BY <4>1, <4>2, <4>3, <4>4, <1>3
    <3>2. CASE e \in Opened(stack)
      <4>1. /\ e \notin instantiated
            /\ \A k \in DOMAIN defs : k > e => IsImportedFrom(k, e)
            /\ \A k \in DOMAIN defs : e \in Requests(k) => k >= e
        BY <3>2 DEF Inv, OpenOK
      <4>2. \A k \in DOMAIN defs : k > e => IsImportedFrom(k, e)'
        BY <4>1, <2>2, <3>2, <1>4
      <4>3. e < d /\ e \in DOMAIN defs /\ e \in Nat /\ e # NoDef
        BY <2>2, <3>2, <1>3, Numbers DEF Inv
      <4>4. e \notin Requests(d)'
        BY <4>3, <1>4
      <4> QED
        BY <4>1, <4>2, <4>3, <4>4, <2>3, <3>2, <1>3, <1>4
    <3> QED
      BY <3>1, <3>2, <2>1
  <2>5. ASSUME NEW p \in DOMAIN stack', NEW q \in DOMAIN stack', p < q, stack'[p].op = "resolve"
        PROVE  stack'[p].m < stack'[q].m
    <3>1. p \in 1 .. n
      BY <2>5, <1>5, <1>7
    <3>2. CASE q = n + 1
      BY <3>1, <3>2, <1>3, <1>5, <1>6, <1>7
    <3>3. CASE q \in 1 .. n
      BY <3>1, <3>3, <2>5, <1>5, <1>7 DEF Inv, OpenOK
    <3> QED
      BY <3>2, <3>3, <1>5, <1>7
  <2> QED
    BY <2>4, <2>5 DEF OpenOK
<1>14. AnswersOK'
  <2>1. ASSUME NEW k \in loaded_modules', NEW j \in DOMAIN module'[k], module'[k][j] = NoDef
        PROVE  \E p \in DOMAIN stack' : /\ stack'[p].op = "resolve"
                                        /\ stack'[p].m = k
                                        /\ stack'[p].i <= j
    <3>1. CASE k = d
      <4>1. 1 <= j
        BY <3>1, <2>1, <1>3, ES6ModulesAssumption DEF Inv, RecordsOK
      <4> QED
        BY <4>1, <3>1, <1>5, <1>6, <1>7
    <3>2. CASE k # d
      <4>1. k \in loaded_modules /\ k \in DOMAIN defs /\ module'[k] = module[k]
        BY <3>2, <1>3 DEF Inv, FlagsOK
      <4>2. PICK p \in DOMAIN stack : stack[p].op = "resolve" /\ stack[p].m = k /\ stack[p].i <= j
        BY <4>1, <2>1 DEF Inv, AnswersOK
      <4> QED
        BY <4>2, <1>5, <1>7
    <3> QED
      BY <3>1, <3>2
  <2>2. ASSUME NEW p \in DOMAIN stack', stack'[p].op = "resolve", p < Len(stack')
        PROVE  Awaits(stack, p)'
    <3>1. p \in 1 .. n /\ stack'[p] = stack[p] /\ stack[p].m \in DOMAIN defs /\ stack[p].op = "resolve"
      BY <2>2, <1>5, <1>7
    <3>2. PICK k, i : k = stack[p].m /\ i = stack[p].i
      OBVIOUS
    <3>3. defs'[k] = defs[k] /\ module'[k] = module[k] /\ Requested(k)' = Requested(k)
          /\ k \in DOMAIN defs /\ stack'[p].m = k /\ stack'[p].i = i
      BY <3>1, <3>2, <1>3, <1>4
    <3>4. DOMAIN module[k] = DOMAIN Requested(k)
      BY <3>3 DEF Inv, RecordsOK
    <3>5. PICK c : c = stack'[p + 1].m
      OBVIOUS
    <3>6. CASE p = n
      <4>1. Loads(name, executed, root)
        BY <3>1, <3>6, <1>5, <1>9
      <4>2. /\ i \in DOMAIN Requested(k)
            /\ name = convertModuleName(defs[k].module_name, Requested(k)[i])
            /\ name # Throws
        BY <4>1, <3>1, <3>2, <3>6, <1>5, <1>8 DEF Loads
      <4>3. c = d
        BY <3>5, <3>6, <1>6, <1>7
      <4>4. defs'[c].module_name = name /\ i \in DOMAIN module'[k]
        BY <4>2, <4>3, <3>3, <3>4, <1>3
      <4> QED
        BY <4>2, <4>4, <3>3, <3>5 DEF Awaits, Requested
    <3>7. CASE p # n
      <4>1. p < Len(stack) /\ p \in DOMAIN stack
        BY <3>1, <3>7, <1>1, <1>5
      <4>2. Awaits(stack, p)
        BY <4>1, <3>1 DEF Inv, AnswersOK
      <4>3. p + 1 \in 1 .. n /\ stack'[p + 1] = stack[p + 1] /\ stack[p + 1].m \in DOMAIN defs
        BY <4>1, <1>1, <1>5, <1>7
      <4>4. c \in DOMAIN defs /\ defs'[c] = defs[c] /\ c = stack[p + 1].m
        BY <4>3, <3>5, <1>3
      <4> QED
        BY <4>2, <4>4, <3>2, <3>3, <3>5 DEF Awaits, Requested
    <3> QED
      BY <3>6, <3>7
  <2> QED
    BY <2>1, <2>2 DEF AnswersOK
<1>15. EvalOK'
  <2>1. Evals(stack') = Evals(stack)
    BY <1>5, <1>6, <1>7 DEF Evals, IsEval
  <2>2. ASSUME NEW p \in DOMAIN stack', NEW q \in DOMAIN stack', p < q,
               IsEval(stack'[p]), stack'[q].root = stack'[p].root
        PROVE  IsImportedFrom(stack[q].m, stack[p].m)'
    <3>1. p \in 1 .. n /\ stack'[p] = stack[p]
      BY <2>2, <1>5, <1>7
    <3>2. q # n + 1
      <4> SUFFICES ASSUME q = n + 1
                   PROVE  FALSE
        OBVIOUS
      <4>1. root = stack[p].root
        BY <2>2, <3>1, <1>6, <1>7
      <4>2. root = stack[n].root /\ stack[n].op = "resolve"
        BY <4>1, <3>1, <1>5, <1>9
      <4>3. p \in stack[n].root .. n /\ n \in DOMAIN stack /\ p \in DOMAIN stack
        <5>1. stack[p].root \in 1 .. p /\ n \in 1 .. n
          BY <3>1, <1>5
        <5> QED
          BY <5>1, <4>1, <4>2, <3>1, <1>5
      <4>4. stack[p].op = "resolve"
        BY <4>2, <4>3, <1>5 DEF Shape
      <4> QED
        BY <4>4, <3>1, <2>2 DEF IsEval
    <3>3. q \in 1 .. n /\ stack'[q] = stack[q]
      BY <3>2, <1>5, <1>7
    <3>4. PICK a, b : a = stack'[p].m /\ b = stack'[q].m
      OBVIOUS
    <3>5. IsImportedFrom(b, a) /\ a \in DOMAIN defs /\ b \in DOMAIN defs
      BY <2>2, <3>1, <3>3, <3>4, <1>5 DEF Inv, EvalOK
    <3>6. IsImportedFrom(b, a)'
      BY <3>5, <1>4
    <3> QED
      BY <3>4, <3>6 DEF IsImportedFrom
  <2>3. ASSUME NEW p \in DOMAIN stack', IsEval(stack'[p])
        PROVE  /\ \A j \in DOMAIN module'[stack'[p].m] :
                     j < stack'[p].i \/ stack'[p].op = "body" => Done(stack, p, j)'
               /\ stack'[p].op = "evaluate" /\ p < Len(stack') =>
                     /\ stack'[p].i \in DOMAIN module'[stack'[p].m]
                     /\ stack'[p + 1].m = module'[stack'[p].m][stack'[p].i]
    <3>1. p \in 1 .. n /\ stack'[p] = stack[p] /\ p \in DOMAIN stack /\ IsEval(stack[p])
      BY <2>3, <1>5, <1>6, <1>7 DEF IsEval
    <3>2. PICK k : k = stack[p].m
      OBVIOUS
    <3>3. k \in DOMAIN defs /\ module'[k] = module[k] /\ stack'[p].m = k
      BY <3>1, <3>2, <1>3, <1>5
    <3>4. ASSUME NEW j \in DOMAIN module[k], j < stack[p].i \/ stack[p].op = "body"
          PROVE  Done(stack, p, j)'
      <4>1. Done(stack, p, j)
        BY <3>1, <3>2, <3>4 DEF Inv, EvalOK
      <4>2. \A q \in 1 .. p : stack'[q] = stack[q]
        BY <3>1, <1>5, <1>7
      <4> QED
        BY <4>1, <4>2, <3>2, <3>3, <1>3 DEF Done
    <3>5. ASSUME stack[p].op = "evaluate"
          PROVE  /\ p < Len(stack) /\ stack'[p + 1] = stack[p + 1]
                 /\ stack[p].i \in DOMAIN module[k]
                 /\ stack[p + 1].m = module[k][stack[p].i]
      <4>1. p # n
        BY <3>1, <3>5, <1>5, <1>10
      <4>2. p < Len(stack) /\ p + 1 \in 1 .. n
        BY <4>1, <3>1, <1>1, <1>5
      <4> QED
        BY <4>2, <3>1, <3>2, <3>5, <1>7 DEF Inv, EvalOK
    <3> QED
      BY <3>1, <3>3, <3>4, <3>5
  <2> QED
    BY <2>1, <2>2, <2>3, <1>3 DEF Inv, EvalOK
<1>16. interrupted \subseteq interrupted'
  BY DEF Starts, Loads
<1>17. FreedOK'
  <2>1. loaded_modules \subseteq DOMAIN defs /\ evaluated \subseteq DOMAIN defs /\ instantiated \subseteq DOMAIN defs
    BY DEF Inv, FlagsOK
  <2>2. \A k \in DOMAIN defs : \A e \in Requests(k) : e \in DOMAIN defs \/ e = NoDef
    BY Numbers DEF Inv
  <2>3. ASSUME NEW k \in loaded_modules', NEW e \in Requests(k)', e \notin loaded_modules'
        PROVE  e = NoDef \/ e \in interrupted' \/ IsImportedFrom(k, e)'
    <3>1. CASE k = d
      BY <2>3, <3>1, <1>4
    <3>2. CASE k \in loaded_modules
      <4>1. k \in DOMAIN defs /\ e \in Requests(k) /\ e \notin loaded_modules
        BY <2>1, <2>3, <3>2, <1>3, <1>4
      <4>2. e = NoDef \/ e \in interrupted \/ IsImportedFrom(k, e)
        BY <4>1, <3>2 DEF Inv, FreedOK
      <4> QED
        BY <4>1, <4>2, <2>2, <1>4, <1>16
    <3> QED
      BY <3>1, <3>2, <1>3
  <2>4. ASSUME NEW k \in evaluated', NEW e \in Requests(k)', e \notin evaluated'
        PROVE  e \in interrupted' \/ IsImportedFrom(k, e)'
    <3>1. k \in evaluated /\ k \in DOMAIN defs /\ e \in Requests(k) /\ e \notin evaluated
      BY <2>1, <2>4, <1>3, <1>4
    <3>2. e \in interrupted \/ IsImportedFrom(k, e)
      BY <3>1 DEF Inv, FreedOK
    <3>3. e # NoDef
      BY <3>1, <2>1, Numbers DEF Inv, FreedOK, FlagsOK
    <3> QED
      BY <3>1, <3>2, <3>3, <2>2, <1>4, <1>16
  <2>5. \A k \in instantiated' : Requests(k)' \subseteq instantiated'
    BY <2>1, <1>3, <1>4 DEF Inv, FreedOK
  <2>6. \A k \in (loaded_modules' \cap instantiated') \ evaluated' : Requests(k)' \subseteq loaded_modules'
    BY <2>1, <1>3, <1>4 DEF Inv, FreedOK
  <2> QED
    BY <2>3, <2>4, <2>5, <2>6 DEF FreedOK
<1>18. AliveOK'
  <2>1. ASSUME NEW p \in DOMAIN stack', NEW q \in 1 .. stack'[p].root - 1
        PROVE  stack'[q].m \in interrupted'
    <3>1. CASE p \in 1 .. n
      <4>1. stack'[p] = stack[p] /\ q \in 1 .. stack[p].root - 1 /\ stack[p].root \in 1 .. p
        BY <2>1, <3>1, <1>5, <1>7
      <4>2. stack[q].m \in interrupted /\ q \in 1 .. n
        BY <3>1, <4>1, <1>5 DEF Inv, AliveOK
      <4> QED
        BY <4>2, <1>7, <1>16
    <3>2. CASE p = n + 1
      <4>1. CASE Starts(executed, root)
        <5>1. root = n + 1
          BY <4>1, <1>1 DEF Starts
        <5>2. q \in 1 .. n
          BY <5>1, <2>1, <3>2, <1>5, <1>6, <1>7
        <5> QED
          BY <4>1, <5>2, <1>5, <1>7 DEF Starts
      <4>2. CASE Loads(name, executed, root)
        <5>1. n > 0 /\ root = stack[n].root
          BY <4>2, <1>8 DEF Loads
        <5>2. n \in DOMAIN stack /\ q \in 1 .. stack[n].root - 1 /\ q \in 1 .. n
          BY <5>1, <2>1, <3>2, <1>5, <1>6, <1>7
        <5>3. stack[q].m \in interrupted
          BY <5>2 DEF Inv, AliveOK
        <5> QED
          BY <5>2, <5>3, <1>7, <1>16
      <4> QED
        BY <4>1, <4>2
    <3>3. p \in 1 .. n \/ p = n + 1
      BY <1>5, <1>7
    <3> QED
      BY <3>1, <3>2, <3>3
  <2>2. \A p \in 1 .. n : stack[p].m \in loaded_modules
    <3>1. stack # << >> => Top.m \in loaded_modules
      BY <1>8, <1>10
    <3> QED
      BY <3>1, <1>5 DEF Inv, AliveOK
  <2>3. \A p \in DOMAIN stack' : stack'[p].m \in loaded_modules'
    <3>1. \A p \in DOMAIN stack' : p \in 1 .. n \/ p = n + 1
      BY <1>5, <1>7
    <3> QED
      BY <2>2, <3>1, <1>3, <1>6, <1>7
  <2> QED
    BY <2>1, <2>3 DEF AliveOK
<1>19. FaultOK'
  BY <1>3 DEF FaultOK
<1>20. UniqueOK'
  <2>1. \A k \in loaded_modules : k \in DOMAIN defs /\ defs'[k] = defs[k]
    BY <1>3 DEF Inv, FlagsOK
  <2>2. executed \/ \A m \in loaded_modules : defs[m].module_name # name
    BY DEF Starts, Loads
  <2>3. defs'[d].module_name = name /\ defs'[d].executed = executed
    BY <1>3
  <2> QED
    BY <2>1, <2>2, <2>3, <1>3 DEF Inv, UniqueOK
<1> QED
  BY <1>2, <1>11, <1>12, <1>13, <1>14, <1>15, <1>17, <1>18, <1>19, <1>20 DEF Inv

-----------------------------------------------------------------------------
(***************************************************************************)
(* A request is answered.                                                  *)
(***************************************************************************)

LEMMA SameImports ==
    ASSUME defs' = defs, scripts' = scripts
    PROVE  \A k, m : IsImportedFrom(k, m)' <=> IsImportedFrom(k, m)
  BY DEF IsImportedFrom, ImportedFrom, ImportedBy, Names

\* The record m answers the request i of the record r.
Answered(r, i, m) ==
    /\ DOMAIN module' = DOMAIN module /\ DOMAIN module'[r] = DOMAIN module[r]
    /\ module'[r][i] = m
    /\ \A j \in DOMAIN module[r] : j # i => module'[r][j] = module[r][j]
    /\ \A k \in DOMAIN module : k # r => module'[k] = module[k]
    /\ \A k \in DOMAIN module : k # r => Requests(k)' = Requests(k)
    /\ \A e \in Requests(r)' : e \in Requests(r) \/ e = m

LEMMA RequestAnswered ==
    ASSUME RecordsOK, defs' = defs, scripts' = scripts, NEW r \in DOMAIN defs,
           NEW i \in DOMAIN module[r], NEW m \in DOMAIN defs,
           module' = [module EXCEPT ![r][i] = m],
           defs[m].module_name = convertModuleName(defs[r].module_name, Requested(r)[i]),
           defs[m].module_name # Throws
    PROVE  Answered(r, i, m) /\ RecordsOK'
<1>1. PICK a : a = [module[r] EXCEPT ![i] = m]
  OBVIOUS
<1>2. module' = [module EXCEPT ![r] = a]
  BY <1>1
<1>3. Sequence(module) /\ DOMAIN module = DOMAIN defs
  BY Numbers DEF RecordsOK
<1>4. /\ Sequence(module') /\ Len(module') = Len(module) /\ DOMAIN module' = DOMAIN module
      /\ \A k \in DOMAIN module : module'[k] = IF k = r THEN a ELSE module[k]
  <2>1. r \in DOMAIN module
    BY <1>3
  <2>2. PICK b : b = [module EXCEPT ![r] = a]
    OBVIOUS
  <2>3. /\ Sequence(b) /\ Len(b) = Len(module) /\ DOMAIN b = DOMAIN module
        /\ \A k \in DOMAIN module : b[k] = IF k = r THEN a ELSE module[k]
    BY <2>1, <2>2, <1>3, Changed
  <2> QED
    BY <2>2, <2>3, <1>2
<1>5. /\ DOMAIN a = DOMAIN module[r] /\ a[i] = m
      /\ \A j \in DOMAIN module[r] : j # i => a[j] = module[r][j]
  BY <1>1
<1>6. module'[r] = a /\ \A k \in DOMAIN module : k # r => module'[k] = module[k]
  BY <1>3, <1>4
<1>7. \A k \in DOMAIN module : k # r => Requests(k)' = Requests(k)
  BY <1>6 DEF Requests
<1>8. \A e \in Requests(r)' : e \in Requests(r) \/ e = m
  BY <1>5, <1>6 DEF Requests, Range
<1>9. Answered(r, i, m)
  BY <1>4, <1>5, <1>6, <1>7, <1>8 DEF Answered
<1>10. RecordsOK'
  <2>1. \A k : Requested(k)' = Requested(k)
    BY DEF Requested
  <2> SUFFICES ASSUME NEW k \in DOMAIN defs
               PROVE  /\ DOMAIN module'[k] = DOMAIN Requested(k)
                      /\ \A j \in DOMAIN module'[k] : RequestOK(k, j)'
    BY <2>1, <1>4 DEF RecordsOK
  <2>2. CASE k = r
    <3>1. ASSUME NEW j \in DOMAIN module[r]
          PROVE  RequestOK(r, j)'
      <4>1. CASE j = i
        BY <4>1, <2>1, <1>5, <1>6 DEF RequestOK
      <4>2. CASE j # i
        BY <4>2, <2>1, <1>5, <1>6 DEF RequestOK, RecordsOK
      <4> QED
        BY <4>1, <4>2
    <3> QED
      BY <2>2, <3>1, <1>5, <1>6 DEF RecordsOK
  <2>3. CASE k # r
    BY <2>1, <2>3, <1>3, <1>6 DEF RequestOK, RecordsOK
  <2> QED
    BY <2>2, <2>3
<1> QED
  BY <1>9, <1>10

\* The call at k gets its answer; the calls above it, if any, have all of theirs.
LEMMA AnswerInv ==
    ASSUME Inv, fault = None, NEW k \in DOMAIN stack, NEW m \in loaded_modules, Answer(k, m),
           stack[k].op = "resolve",
           stack[k].i \in DOMAIN module[stack[k].m],
           defs[m].module_name
             = convertModuleName(defs[stack[k].m].module_name, Requested(stack[k].m)[stack[k].i]),
           defs[m].module_name # Throws,
           \A q \in DOMAIN stack : q > k => \A j \in DOMAIN module[stack[q].m] : j < stack[q].i,
           UNCHANGED <<scripts, defs, flags, loaded_modules, fault, interrupted, released>>
    PROVE  Inv'
<1>1. PICK n, r, i : n = Len(stack) /\ r = stack[k].m /\ i = stack[k].i
  OBVIOUS
<1>2. /\ Shape(stack) /\ stack \in Seq(Call) /\ n \in Nat /\ DOMAIN stack = 1 .. n
      /\ \A p \in 1 .. n : stack[p].m \in DOMAIN defs /\ stack[p] \in Call /\ stack[p].root \in 1 .. p
  BY <1>1 DEF Inv, StackOK, Shape
<1>3. Advanced(stack, stack', k)
  BY <1>1, <1>2, Advances DEF Answer
<1>4. /\ stack' \in Seq(Call) /\ Len(stack') = k /\ DOMAIN stack' = 1 .. k
      /\ \A p \in 1 .. k : /\ stack'[p].op = stack[p].op /\ stack'[p].m = stack[p].m
                           /\ stack'[p].root = stack[p].root
      /\ \A p \in 1 .. k - 1 : stack'[p] = stack[p]
      /\ stack'[k].i = i + 1
  BY <1>1, <1>3 DEF Advanced
<1>5. k \in 1 .. n /\ i \in Nat /\ r \in DOMAIN defs /\ m \in DOMAIN defs
  BY <1>1, <1>2 DEF Call, Inv, FlagsOK
<1>6. /\ defs' = defs /\ scripts' = scripts /\ loaded_modules' = loaded_modules
      /\ instantiated' = instantiated /\ eval_mark' = eval_mark /\ evaluated' = evaluated
      /\ eval_has_exception' = eval_has_exception /\ fault' = fault /\ interrupted' = interrupted
  BY DEF flags
<1>7. Answered(r, i, m) /\ RecordsOK'
  BY <1>1, <1>5, <1>6, RequestAnswered DEF Inv, Answer
<1>8. /\ DOMAIN module' = DOMAIN module /\ DOMAIN module'[r] = DOMAIN module[r]
      /\ module'[r][i] = m
      /\ \A j \in DOMAIN module[r] : j # i => module'[r][j] = module[r][j]
      /\ \A c \in DOMAIN defs : c # r => module'[c] = module[c]
      /\ \A c \in DOMAIN defs : c # r => Requests(c)' = Requests(c)
      /\ \A e \in Requests(r)' : e \in Requests(r) \/ e = m
  BY <1>7, Numbers DEF Answered, Inv
<1>9. \A a, b : IsImportedFrom(a, b)' <=> IsImportedFrom(a, b)
  BY <1>6, SameImports
<1>10. /\ r \in Opened(stack) /\ r \notin instantiated /\ r \notin evaluated
       /\ \A p \in 1 .. n : p >= k => stack[p].op = "resolve"
       /\ \A p \in 1 .. n : IsEval(stack[p]) => p \in 1 .. k - 1
  <2>1. r \in Opened(stack)
    BY <1>1 DEF Opened, IsEval
  <2>2. r \notin instantiated /\ r \notin evaluated
    BY <2>1 DEF Inv, OpenOK, FlagsOK
  <2>3. \A p \in 1 .. n : p >= k => stack[p].op = "resolve"
    BY <1>2, <1>5 DEF Shape
  <2>4. \A p \in 1 .. n : IsEval(stack[p]) => p \in 1 .. k - 1
    BY <2>3, <1>2, <1>5 DEF IsEval
  <2> QED
    BY <2>1, <2>2, <2>3, <2>4
<1>11. FlagsOK'
  BY <1>6 DEF Inv, FlagsOK
<1>12. StackOK'
  <2>1. Shape(stack')
    <3>1. k \in 0 .. Len(stack)
      BY <1>1, <1>2, <1>5
    <3>2. \A p \in 1 .. k : stack'[p].op = stack[p].op /\ stack'[p].root = stack[p].root
      BY <1>4
    <3> QED
      BY <3>1, <3>2, <1>2, <1>4, CutShape
  <2>2. \A p \in 1 .. k : p \in 1 .. n
    BY <1>2, <1>5
  <2> QED
    BY <2>1, <2>2, <1>2, <1>4, <1>6 DEF Inv, StackOK
<1>13. OpenOK'
  <2>1. \A e \in Opened(stack') : e \in Opened(stack) /\ \E p \in 1 .. k : stack[p].m = e /\ ~IsEval(stack[p])
    BY <1>2, <1>4, <1>5 DEF Opened, IsEval
  <2>2. ASSUME m \in Opened(stack')
        PROVE  r >= m
    <3>1. PICK p \in 1 .. k : stack[p].m = m /\ ~IsEval(stack[p])
      BY <2>1, <2>2
    <3>2. CASE p = k
      BY <3>1, <3>2, <1>1, <1>5, Numbers DEF Inv
    <3>3. CASE p # k
      <4>1. p \in DOMAIN stack /\ p < k /\ p # n
        BY <3>3, <1>2, <1>5
      <4>2. stack[p].op \in {"resolve", "link"}
        BY <3>1, <4>1, <1>2 DEF IsEval, Call
      <4>3. stack[p].op = "resolve"
        BY <4>1, <4>2, <1>1, <1>2 DEF Shape
      <4>4. m < r
        BY <4>1, <4>3, <3>1, <1>1 DEF Inv, OpenOK
      <4> QED
        BY <4>4, <1>5, Numbers DEF Inv
    <3> QED
      BY <3>2, <3>3
  <2>3. ASSUME NEW e \in Opened(stack')
        PROVE  /\ e \notin instantiated'
               /\ \A c \in DOMAIN defs' : c > e => IsImportedFrom(c, e)'
               /\ \A c \in DOMAIN defs' : e \in Requests(c)' => c >= e
    <3>1. /\ e \notin instantiated
          /\ \A c \in DOMAIN defs : c > e => IsImportedFrom(c, e)
          /\ \A c \in DOMAIN defs : e \in Requests(c) => c >= e
      BY <2>1, <2>3 DEF Inv, OpenOK
    <3>2. \A c \in DOMAIN defs : e \in Requests(c)' => c >= e
      BY <3>1, <2>2, <2>3, <1>5, <1>8
    <3> QED
      BY <3>1, <3>2, <1>6, <1>9
  <2>4. \A p, q \in DOMAIN stack' :
           p < q /\ stack'[p].op = "resolve" => stack'[p].m < stack'[q].m
    <3>1. \A p \in 1 .. k : p \in 1 .. n
      BY <1>2, <1>5
    <3> QED
      BY <3>1, <1>2, <1>4 DEF Inv, OpenOK
  <2> QED
    BY <2>3, <2>4 DEF OpenOK
<1>14. AnswersOK'
  <2>1. ASSUME NEW c \in loaded_modules, NEW j \in DOMAIN module'[c], module'[c][j] = NoDef
        PROVE  \E p \in DOMAIN stack' : /\ stack'[p].op = "resolve"
                                        /\ stack'[p].m = c
                                        /\ stack'[p].i <= j
    <3>1. c \in DOMAIN defs /\ m # NoDef
      BY <1>5, Numbers DEF Inv, FlagsOK
    <3>2. j \in DOMAIN module[c] /\ module[c][j] = NoDef /\ (c = r => j # i)
      BY <2>1, <3>1, <1>8
    <3>3. PICK p \in 1 .. n : stack[p].op = "resolve" /\ stack[p].m = c /\ stack[p].i <= j
      BY <3>2, <1>2 DEF Inv, AnswersOK
    <3>4. j \in Nat
      BY <3>1, <3>2, Numbers DEF Inv
    <3>5. p <= k
      <4>1. ~(p > k)
        <5> SUFFICES ASSUME p > k
                     PROVE  FALSE
          OBVIOUS
        <5>1. p \in DOMAIN stack
          BY <1>2
        <5>2. j < stack[p].i
          BY <5>1, <3>2, <3>3
        <5>3. stack[p].i \in Nat
          BY <1>2 DEF Call
        <5> QED
          BY <5>2, <5>3, <3>3, <3>4
      <4> QED
        BY <4>1, <1>5, <1>2
    <3>6. CASE p = k
      <4>1. j # i /\ i <= j
        BY <3>2, <3>3, <3>6, <1>1
      <4>2. i + 1 <= j
        BY <4>1, <3>4, <1>5
      <4> QED
        BY <4>2, <3>3, <3>6, <1>4, <1>5
    <3>7. CASE p # k
      <4>1. p \in 1 .. k - 1 /\ p \in 1 .. k
        BY <3>5, <3>7, <1>2, <1>5
      <4> QED
        BY <4>1, <3>3, <1>4
    <3> QED
      BY <3>6, <3>7
  <2>2. ASSUME NEW p \in DOMAIN stack', stack'[p].op = "resolve", p < Len(stack')
        PROVE  Awaits(stack, p)'
    <3>1. /\ p \in 1 .. k - 1 /\ p \in 1 .. n /\ p < n /\ p + 1 \in 1 .. k
          /\ p \in DOMAIN stack /\ stack[p].op = "resolve" /\ stack'[p] = stack[p]
      BY <2>2, <1>2, <1>4, <1>5
    <3>2. Awaits(stack, p)
      BY <3>1, <1>1 DEF Inv, AnswersOK
    <3>3. stack'[p + 1].m = stack[p + 1].m
      BY <3>1, <1>4
    <3>4. DOMAIN module'[stack[p].m] = DOMAIN module[stack[p].m]
      BY <3>1, <1>2, <1>8
    <3> QED
      BY <3>1, <3>2, <3>3, <3>4, <1>6 DEF Awaits, Requested
  <2> QED
    BY <2>1, <2>2, <1>6 DEF AnswersOK
<1>15. EvalOK'
  <2>1. \A p \in 1 .. k : p \in 1 .. n
    BY <1>2, <1>5
  <2>2. \A p \in 1 .. n : IsEval(stack[p]) => p \in 1 .. k /\ IsEval(stack'[p]) /\ stack'[p] = stack[p] /\ stack[p].m # r
    BY <1>1, <1>2, <1>4, <1>5, <1>10 DEF IsEval, Inv, StackOK
  <2>3. \A p \in 1 .. k : IsEval(stack'[p]) => IsEval(stack[p])
    BY <1>4 DEF IsEval
  <2>4. Evals(stack') = Evals(stack)
    BY <2>1, <2>2, <2>3, <1>2, <1>4 DEF Evals
  <2>5. \A p, q \in DOMAIN stack' :
           p < q /\ IsEval(stack'[p]) /\ stack'[q].root = stack'[p].root =>
              IsImportedFrom(stack'[q].m, stack'[p].m)
    BY <2>1, <2>2, <2>3, <1>2, <1>4 DEF Inv, EvalOK
  <2>6. ASSUME NEW p \in DOMAIN stack', NEW q \in DOMAIN stack', p < q,
               IsEval(stack'[p]), stack'[q].root = stack'[p].root
        PROVE  IsImportedFrom(stack[q].m, stack[p].m)'
    <3>1. PICK a, b : a = stack'[p].m /\ b = stack'[q].m
      OBVIOUS
    <3>2. IsImportedFrom(b, a)'
      BY <2>5, <2>6, <3>1, <1>9
    <3> QED
      BY <3>1, <3>2 DEF IsImportedFrom
  <2>7. ASSUME NEW p \in DOMAIN stack', IsEval(stack'[p])
        PROVE  /\ \A j \in DOMAIN module'[stack'[p].m] :
                     j < stack'[p].i \/ stack'[p].op = "body" => Done(stack, p, j)'
               /\ stack'[p].op = "evaluate" /\ p < Len(stack') =>
                     /\ stack'[p].i \in DOMAIN module'[stack'[p].m]
                     /\ stack'[p + 1].m = module'[stack'[p].m][stack'[p].i]
    <3>1. p \in 1 .. k /\ p \in DOMAIN stack /\ IsEval(stack[p]) /\ stack'[p] = stack[p] /\ p \in 1 .. k - 1
      BY <2>1, <2>2, <2>3, <2>7, <1>2, <1>4, <1>10
    <3>2. module'[stack[p].m] = module[stack[p].m]
      BY <3>1, <2>2, <1>2, <1>8
    <3>3. ASSUME NEW j \in DOMAIN module[stack[p].m], j < stack[p].i \/ stack[p].op = "body"
          PROVE  Done(stack, p, j)'
      <4>1. Done(stack, p, j)
        BY <3>1, <3>3 DEF Inv, EvalOK
      <4>2. \A q \in 1 .. p : q \in 1 .. k /\ stack'[q].m = stack[q].m
        BY <3>1, <1>4, <1>5
      <4> QED
        BY <4>1, <4>2, <3>1, <3>2, <1>6 DEF Done
    <3>4. ASSUME stack[p].op = "evaluate"
          PROVE  /\ stack[p].i \in DOMAIN module[stack[p].m]
                 /\ stack'[p + 1].m = module[stack[p].m][stack[p].i]
      <4>1. p < Len(stack) /\ p + 1 \in 1 .. k
        BY <3>1, <1>1, <1>2, <1>5
      <4> QED
        BY <4>1, <3>1, <3>4, <1>4 DEF Inv, EvalOK
    <3> QED
      BY <3>1, <3>2, <3>3, <3>4
  <2> QED
    BY <2>4, <2>6, <2>7, <1>6 DEF Inv, EvalOK
<1>16. FreedOK'
  <2>1. loaded_modules \subseteq DOMAIN defs /\ evaluated \subseteq DOMAIN defs /\ instantiated \subseteq DOMAIN defs
    BY DEF Inv, FlagsOK
  <2>2. ASSUME NEW c \in loaded_modules, NEW e \in Requests(c)', e \notin loaded_modules
        PROVE  e = NoDef \/ e \in interrupted \/ IsImportedFrom(c, e)
    <3>1. e \in Requests(c)
      BY <2>1, <2>2, <1>8
    <3> QED
      BY <3>1, <2>2 DEF Inv, FreedOK
  <2>3. \A c \in instantiated : Requests(c)' = Requests(c)
    BY <2>1, <1>8, <1>10
  <2>4. \A c \in evaluated : Requests(c)' = Requests(c)
    BY <2>1, <1>8, <1>10
  <2> QED
    BY <2>2, <2>3, <2>4, <1>6, <1>9 DEF Inv, FreedOK
<1>17. AliveOK'
  <2>1. \A p \in 1 .. k : p \in 1 .. n
    BY <1>2, <1>5
  <2>2. \A p \in 1 .. n : stack[p].m \in loaded_modules
    <3>1. stack # << >> => Top.op = "resolve"
      BY <1>1, <1>2, <1>5, <1>10, TopIsLast DEF Inv
    <3> QED
      BY <3>1, <1>2 DEF Inv, AliveOK
  <2>3. ASSUME NEW p \in DOMAIN stack', NEW q \in 1 .. stack'[p].root - 1
        PROVE  stack'[q].m \in interrupted
    <3>1. p \in DOMAIN stack /\ p \in 1 .. k /\ stack'[p].root = stack[p].root /\ stack[p].root \in 1 .. p
      BY <2>1, <1>2, <1>4
    <3>2. q \in 1 .. k /\ stack'[q].m = stack[q].m
      BY <3>1, <1>4, <1>5
    <3> QED
      BY <3>1, <3>2 DEF Inv, AliveOK
  <2> QED
    BY <2>1, <2>2, <2>3, <1>4, <1>6 DEF AliveOK
<1>18. FaultOK' /\ UniqueOK'
  BY <1>6 DEF Inv, FaultOK, UniqueOK
<1> QED
  BY <1>7, <1>11, <1>12, <1>13, <1>14, <1>15, <1>16, <1>17, <1>18 DEF Inv

-----------------------------------------------------------------------------
(***************************************************************************)
(* An execution fails.                                                     *)
(***************************************************************************)

\* The calls below the innermost execution are evaluations, of other records.
LEMMA Below ==
    ASSUME StackOK, stack # << >>, NEW n, n = Len(stack), NEW k, k = Top.root - 1
    PROVE  /\ k \in 0 .. n /\ k + 1 = Top.root
           /\ \A p \in 1 .. k : /\ p \in DOMAIN stack
                                /\ IsEval(stack[p])
                                /\ stack[p].m \notin Frames
           /\ k > 0 => stack[k].op = "body"
           /\ \A p \in DOMAIN stack : p \in 1 .. k \/ stack[p].m \in Frames
<1>1. /\ n \in Nat \ {0} /\ n \in DOMAIN stack /\ DOMAIN stack = 1 .. n
      /\ Top = stack[n] /\ Top.root \in 1 .. n
  BY TopIsLast
<1>2. k \in 0 .. n /\ k + 1 = Top.root /\ k < n
  BY <1>1
<1>3. ASSUME NEW p \in 1 .. k
      PROVE  p \in DOMAIN stack /\ IsEval(stack[p]) /\ stack[p].m \notin Frames
  <2>1. p \in DOMAIN stack /\ p < n /\ p < Top.root
    BY <1>1, <1>2
  <2>2. stack[p].op # "link"
    BY <2>1 DEF StackOK, Shape
  <2>3. stack[p].op # "resolve"
    <3>1. stack[p].op = "resolve" => stack[n].root = stack[p].root
      BY <2>1, <1>1 DEF StackOK, Shape
    <3>2. stack[p].root \in 1 .. p
      BY <2>1 DEF StackOK, Shape
    <3> QED
      BY <3>1, <3>2, <2>1, <1>1
  <2>4. stack[p] \in Call
    BY <2>1 DEF StackOK, Shape
  <2>5. IsEval(stack[p])
    BY <2>2, <2>3, <2>4 DEF IsEval, Call
  <2>6. \A q \in Top.root .. n : q \in DOMAIN stack /\ p < q
    BY <2>1, <1>1
  <2>7. stack[p].m \notin Frames
    BY <2>1, <2>6 DEF Frames, StackOK
  <2> QED
    BY <2>1, <2>5, <2>7
<1>4. k > 0 => stack[k].op = "body"
  BY <1>1 DEF StackOK, Shape
<1>5. \A p \in DOMAIN stack : p \in 1 .. k \/ stack[p].m \in Frames
  <2>1. \A p \in DOMAIN stack : p \in 1 .. k \/ p \in Top.root .. Len(stack)
    BY <1>1, <1>2
  <2> QED
    BY <2>1 DEF Frames
<1> QED
  BY <1>2, <1>3, <1>4, <1>5

\* The execution's calls return.  Each kind of failure frees what it frees, and
\* T is the record whose body threw, if one did.
LEMMA AbortInv ==
    ASSUME Inv, fault = None, stack # << >>, stack' = SubSeq(stack, 1, Top.root - 1),
           UNCHANGED <<records, instantiated, interrupted, fault>>,
           loaded_modules' \subseteq loaded_modules, eval_mark' = eval_mark \ Frames,
           NEW T \in SUBSET {Top.m}, T \subseteq instantiated, T \cap evaluated = {},
           evaluated' = evaluated \cup T, eval_has_exception' = eval_has_exception \cup T,
           \A p \in DOMAIN stack : stack[p].op = "resolve" => stack[p].m \notin loaded_modules',
           \A k \in loaded_modules' : \A d \in Requests(k) :
              d \in loaded_modules \ loaded_modules' => d \in interrupted \/ IsImportedFrom(k, d),
           \A k \in T : \A d \in Requests(k) \ evaluated' :
              d \in interrupted \/ IsImportedFrom(k, d),
           \A k \in (loaded_modules' \cap instantiated) \ evaluated' :
              Requests(k) \subseteq loaded_modules',
           \/ \A p \in 1 .. Top.root - 1 : stack[p].m \in loaded_modules'
           \/ \A p \in 1 .. Top.root - 1 : stack[p].m \notin loaded_modules'
    PROVE  Inv'
<1>1. PICK n, k : n = Len(stack) /\ k = Top.root - 1
  OBVIOUS
<1>2. /\ Shape(stack) /\ stack \in Seq(Call) /\ n \in Nat \ {0} /\ DOMAIN stack = 1 .. n
      /\ \A p \in 1 .. n : stack[p].m \in DOMAIN defs /\ stack[p].root \in 1 .. p
      /\ Top.root \in 1 .. n
  BY <1>1, TopIsLast DEF Inv, StackOK, Shape
<1>3. /\ k \in 0 .. n /\ k + 1 = Top.root
      /\ \A p \in 1 .. k : p \in DOMAIN stack /\ IsEval(stack[p]) /\ stack[p].m \notin Frames
      /\ k > 0 => stack[k].op = "body"
      /\ \A p \in DOMAIN stack : p \in 1 .. k \/ stack[p].m \in Frames
  BY <1>1, Below DEF Inv
<1>4. /\ stack' \in Seq(Call) /\ Len(stack') = k /\ DOMAIN stack' = 1 .. k
      /\ \A p \in 1 .. k : stack'[p] = stack[p]
  BY <1>1, <1>2, <1>3, Cut
<1>5. /\ defs' = defs /\ scripts' = scripts /\ module' = module /\ instantiated' = instantiated
      /\ interrupted' = interrupted /\ fault' = fault
  BY DEF records
<1>6. \A a, b : IsImportedFrom(a, b)' <=> IsImportedFrom(a, b)
  BY <1>5, SameImports
<1>7. \A c : Requests(c)' = Requests(c) /\ Requested(c)' = Requested(c)
  BY <1>5 DEF Requests, Requested
<1>8. Top.m \in Frames
  BY <1>1, <1>2, TopIsLast DEF Frames, Inv
<1>9. RecordsOK'
  BY <1>5, <1>7 DEF Inv, RecordsOK, RequestOK
<1>10. FlagsOK'
  BY <1>5 DEF Inv, FlagsOK
<1>11. StackOK'
  <2>1. Shape(stack')
    BY <1>1, <1>2, <1>3, <1>4, CutShape
  <2> QED
    BY <2>1, <1>2, <1>3, <1>4, <1>5 DEF Inv, StackOK
<1>12. \A p \in 1 .. k : IsEval(stack'[p]) /\ stack'[p].op # "resolve"
  BY <1>3, <1>4 DEF IsEval
<1>13. OpenOK'
  BY <1>4, <1>12 DEF OpenOK, Opened
<1>14. AnswersOK'
  <2>1. ASSUME NEW c \in loaded_modules', NEW j \in DOMAIN module[c], module[c][j] = NoDef
        PROVE  FALSE
    BY <2>1 DEF Inv, AnswersOK
  <2> QED
    BY <2>1, <1>4, <1>5, <1>12 DEF AnswersOK
<1>15. EvalOK'
  <2>1. Evals(stack') = eval_mark'
    <3>1. Evals(stack') = {stack[p].m : p \in 1 .. k}
      <4>1. {q \in DOMAIN stack' : IsEval(stack'[q])} = 1 .. k
        BY <1>4, <1>12
      <4> QED
        BY <4>1, <1>4 DEF Evals
    <3>2. Evals(stack) \ Frames = {stack[p].m : p \in 1 .. k}
      BY <1>3 DEF Evals
    <3> QED
      BY <3>1, <3>2 DEF Inv, EvalOK
  <2>2. eval_mark' \subseteq instantiated' \ evaluated'
    BY <1>5, <1>8 DEF Inv, EvalOK
  <2>3. ASSUME NEW p \in DOMAIN stack', NEW q \in DOMAIN stack', p < q,
               IsEval(stack'[p]), stack'[q].root = stack'[p].root
        PROVE  IsImportedFrom(stack[q].m, stack[p].m)'
    <3>1. PICK a, b : a = stack'[p].m /\ b = stack'[q].m
      OBVIOUS
    <3>2. IsImportedFrom(b, a)'
      BY <2>3, <3>1, <1>3, <1>4, <1>6 DEF Inv, EvalOK
    <3> QED
      BY <3>1, <3>2 DEF IsImportedFrom
  <2>4. ASSUME NEW p \in DOMAIN stack', IsEval(stack'[p])
        PROVE  /\ \A j \in DOMAIN module'[stack'[p].m] :
                     j < stack'[p].i \/ stack'[p].op = "body" => Done(stack, p, j)'
               /\ stack'[p].op = "evaluate" /\ p < Len(stack') =>
                     /\ stack'[p].i \in DOMAIN module'[stack'[p].m]
                     /\ stack'[p + 1].m = module'[stack'[p].m][stack'[p].i]
    <3>1. p \in DOMAIN stack /\ stack'[p] = stack[p] /\ IsEval(stack[p]) /\ p \in 1 .. k
      BY <1>3, <1>4
    <3>2. ASSUME NEW j \in DOMAIN module[stack[p].m], j < stack[p].i \/ stack[p].op = "body"
          PROVE  Done(stack, p, j)'
      <4>1. Done(stack, p, j)
        BY <3>1, <3>2 DEF Inv, EvalOK
      <4>2. \A q \in 1 .. p : stack'[q] = stack[q]
        BY <3>1, <1>3, <1>4
      <4>3. evaluated \ eval_has_exception \subseteq evaluated' \ eval_has_exception'
        OBVIOUS
      <4> QED
        BY <4>1, <4>2, <4>3, <3>1, <1>5 DEF Done
    <3>3. ASSUME stack[p].op = "evaluate", p < k
          PROVE  /\ stack[p].i \in DOMAIN module[stack[p].m]
                 /\ stack'[p + 1].m = module[stack[p].m][stack[p].i]
      <4>1. p < Len(stack) /\ p + 1 \in 1 .. k
        BY <3>1, <3>3, <1>1, <1>2, <1>3
      <4> QED
        BY <4>1, <3>1, <3>3, <1>4 DEF Inv, EvalOK
    <3> QED
      BY <3>1, <3>2, <3>3, <1>4, <1>5
  <2> QED
    BY <2>1, <2>2, <2>3, <2>4 DEF EvalOK
<1>16. FreedOK'
  <2>1. \A c \in loaded_modules' : \A d \in Requests(c) \ loaded_modules' :
           d = NoDef \/ d \in interrupted \/ IsImportedFrom(c, d)
    BY DEF Inv, FreedOK
  <2>2. \A c \in evaluated' : \A d \in Requests(c) \ evaluated' :
           d \in interrupted \/ IsImportedFrom(c, d)
    BY DEF Inv, FreedOK
  <2> QED
    BY <2>1, <2>2, <1>5, <1>6, <1>7 DEF Inv, FreedOK
<1>17. AliveOK'
  <2>1. ASSUME NEW p \in DOMAIN stack', NEW q \in 1 .. stack'[p].root - 1
        PROVE  stack'[q].m \in interrupted'
    <3>1. p \in DOMAIN stack /\ p \in 1 .. k /\ stack'[p] = stack[p] /\ stack[p].root \in 1 .. p
      BY <1>2, <1>3, <1>4
    <3>2. q \in 1 .. k /\ stack'[q] = stack[q]
      BY <3>1, <1>3, <1>4
    <3> QED
      BY <3>1, <3>2, <1>5 DEF Inv, AliveOK
  <2>2. CASE \A p \in 1 .. k : stack[p].m \in loaded_modules'
    BY <2>1, <2>2, <1>4 DEF AliveOK
  <2>3. CASE k > 0 /\ stack[k].m \notin loaded_modules'
    <3>1. k \in 1 .. k /\ stack' # << >> /\ Top' = stack[k]
      BY <2>3, <1>3, <1>4 DEF Top, Last
    <3>2. k \in 1 .. Top.root - 1 /\ n \in DOMAIN stack /\ Top = stack[n]
      BY <3>1, <1>1, <1>2, <1>3, TopIsLast DEF Inv
    <3>3. stack[k].m \in interrupted
      BY <3>2 DEF Inv, AliveOK
    <3>4. Top.op' = "body" /\ Top.m' \in interrupted' \ loaded_modules'
      BY <3>1, <3>3, <2>3, <1>3, <1>5
    <3> QED
      BY <2>1, <3>1, <3>4 DEF AliveOK
  <2>4. CASE k = 0
    BY <2>1, <2>4, <1>4 DEF AliveOK
  <2> QED
    BY <2>2, <2>3, <2>4, <1>1, <1>3
<1>18. FaultOK' /\ UniqueOK'
  BY <1>5 DEF Inv, FaultOK, UniqueOK
<1> QED
  BY <1>9, <1>10, <1>11, <1>13, <1>14, <1>15, <1>16, <1>17, <1>18 DEF Inv

\* js_resolve_module fails: the records that are freed have requests only of
\* records that they import.
LEMMA ResolveFailsInv ==
    ASSUME Inv, ResolveFails
    PROVE  Inv'
<1>1. PICK n, k : n = Len(stack) /\ k = Top.root - 1
  OBVIOUS
<1>2. /\ fault = None /\ stack # << >> /\ Top.op = "resolve"
      /\ loaded_modules' = loaded_modules \ Frames
      /\ stack' = SubSeq(stack, 1, Top.root - 1)
      /\ UNCHANGED <<records, interrupted, fault, flags>>
  BY DEF ResolveFails, Requesting, Resolving, Running, FreeDefs
<1>3. /\ n \in Nat \ {0} /\ DOMAIN stack = 1 .. n /\ Top = stack[n] /\ Top.root \in 1 .. n
      /\ n \in DOMAIN stack
  BY <1>1, <1>2, TopIsLast DEF Inv
<1>4. /\ k \in 0 .. n /\ k + 1 = Top.root
      /\ \A p \in 1 .. k : p \in DOMAIN stack /\ IsEval(stack[p]) /\ stack[p].m \notin Frames
      /\ \A p \in DOMAIN stack : p \in 1 .. k \/ stack[p].m \in Frames
  BY <1>1, <1>2, Below DEF Inv
<1>5. Frames \subseteq Opened(stack)
  <2>1. \A p \in Top.root .. n : p \in DOMAIN stack /\ stack[p].op = "resolve"
    BY <1>2, <1>3 DEF Inv, StackOK, Shape
  <2> QED
    BY <2>1, <1>1 DEF Frames, Opened, IsEval
<1>6. \A d \in Frames : /\ d \notin instantiated
                        /\ \A c \in DOMAIN defs : c > d => IsImportedFrom(c, d)
                        /\ \A c \in DOMAIN defs : d \in Requests(c) => c >= d
                        /\ d \in Nat
  <2>1. \A d \in Opened(stack) : d \in Nat
    BY <1>3, Numbers DEF Inv, StackOK, Opened
  <2> QED
    BY <2>1, <1>5 DEF Inv, OpenOK
<1>7. eval_mark' = eval_mark \ Frames
  BY <1>2, <1>6 DEF flags, Inv, EvalOK
<1>8. \A p \in DOMAIN stack : stack[p].op = "resolve" => stack[p].m \notin loaded_modules'
  BY <1>2, <1>4 DEF IsEval
<1>9. ASSUME NEW c \in loaded_modules', NEW d \in Requests(c), d \in loaded_modules \ loaded_modules'
      PROVE  IsImportedFrom(c, d)
  <2>1. d \in Frames /\ c \notin Frames /\ c \in DOMAIN defs /\ c \in Nat
    BY <1>2, <1>9, Numbers DEF Inv, FlagsOK
  <2>2. c >= d /\ c # d
    BY <2>1, <1>6
  <2>3. c > d
    BY <2>1, <2>2, <1>6
  <2> QED
    BY <2>1, <2>3, <1>6
<1>10. \A c \in (loaded_modules' \cap instantiated) \ evaluated : Requests(c) \subseteq loaded_modules'
  BY <1>2, <1>6 DEF Inv, FreedOK
<1>11. \A p \in 1 .. Top.root - 1 : stack[p].m \in loaded_modules'
  <2>1. \A p \in DOMAIN stack : stack[p].m \in loaded_modules
    BY <1>2 DEF Inv, AliveOK
  <2> QED
    BY <2>1, <1>1, <1>2, <1>4
<1>12. PICK T : T = {}
  OBVIOUS
<1>13. /\ T \in SUBSET {Top.m} /\ T \subseteq instantiated /\ T \cap evaluated = {}
       /\ evaluated' = evaluated \cup T /\ instantiated' = instantiated
       /\ eval_has_exception' = eval_has_exception \cup T /\ loaded_modules' \subseteq loaded_modules
       /\ UNCHANGED <<records, instantiated, interrupted, fault>>
       /\ \A c \in T : \A d \in Requests(c) \ evaluated' : d \in interrupted \/ IsImportedFrom(c, d)
  BY <1>2, <1>12 DEF flags
<1>14. \A c \in (loaded_modules' \cap instantiated) \ evaluated' : Requests(c) \subseteq loaded_modules'
  BY <1>10, <1>12, <1>13
<1> QED
  BY <1>2, <1>7, <1>8, <1>9, <1>11, <1>13, <1>14, AbortInv

\* What is not evaluated is freed.
LEMMA FreeInv ==
    ASSUME Inv, fault = None, stack # << >>, Top.op # "resolve",
           stack' = SubSeq(stack, 1, Top.root - 1),
           UNCHANGED <<records, instantiated, interrupted, fault>>,
           eval_mark' = eval_mark \ Frames,
           NEW T \in SUBSET {Top.m}, T \subseteq instantiated, T \cap evaluated = {},
           evaluated' = evaluated \cup T, eval_has_exception' = eval_has_exception \cup T,
           loaded_modules' = loaded_modules \ (loaded_modules \ (evaluated \cup T)),
           \A k \in T : \A d \in Requests(k) \ evaluated' :
              d \in interrupted \/ IsImportedFrom(k, d)
    PROVE  Inv'
<1>1. PICK n, k : n = Len(stack) /\ k = Top.root - 1
  OBVIOUS
<1>2. /\ n \in Nat \ {0} /\ DOMAIN stack = 1 .. n /\ Top = stack[n] /\ Top.root \in 1 .. n
      /\ n \in DOMAIN stack
  BY <1>1, TopIsLast DEF Inv
<1>3. \A p \in 1 .. k : p \in DOMAIN stack /\ IsEval(stack[p]) /\ stack[p].m \notin Frames
  BY <1>1, Below DEF Inv
<1>4. \A p \in DOMAIN stack : stack[p].op # "resolve"
  <2>1. \A p \in DOMAIN stack : p = n \/ p < n
    BY <1>2
  <2> QED
    BY <2>1, <1>2 DEF Inv, StackOK, Shape
<1>5. ASSUME NEW c \in loaded_modules', NEW d \in Requests(c), d \in loaded_modules \ loaded_modules'
      PROVE  d \in interrupted \/ IsImportedFrom(c, d)
  <2>1. d \notin evaluated' /\ d \notin evaluated /\ (c \in evaluated \/ c \in T)
    BY <1>5
  <2> QED
    BY <2>1, <1>5 DEF Inv, FreedOK
<1>6. \A c \in (loaded_modules' \cap instantiated) \ evaluated' : Requests(c) \subseteq loaded_modules'
  OBVIOUS
<1>7. \A p \in 1 .. Top.root - 1 : stack[p].m \notin loaded_modules'
  <2>1. Top.m \in Frames
    BY <1>1, <1>2 DEF Frames
  <2>2. \A p \in 1 .. k : stack[p].m \notin evaluated
    BY <1>3 DEF Inv, EvalOK, Evals
  <2> QED
    BY <2>1, <2>2, <1>1, <1>3
<1>8. loaded_modules' \subseteq loaded_modules
  OBVIOUS
<1> QED
  BY <1>4, <1>5, <1>6, <1>7, <1>8, AbortInv

LEMMA LinkFailsInv ==
    ASSUME Inv, LinkFails
    PROVE  Inv'
<1>1. PICK n : n = Len(stack)
  OBVIOUS
<1>2. /\ fault = None /\ stack # << >> /\ Top.op = "link"
      /\ loaded_modules' = loaded_modules \ (loaded_modules \ evaluated)
      /\ stack' = Front(stack)
      /\ UNCHANGED <<records, interrupted, fault, flags>>
  BY DEF LinkFails, Running, FreeNotEvaluated, FreeDefs
<1>3. /\ n \in Nat \ {0} /\ DOMAIN stack = 1 .. n /\ Top = stack[n] /\ n \in DOMAIN stack
  BY <1>1, <1>2, TopIsLast DEF Inv
<1>4. Top.root = n
  BY <1>2, <1>3 DEF Inv, StackOK, Shape
<1>5. stack' = SubSeq(stack, 1, Top.root - 1)
  BY <1>1, <1>2, <1>4 DEF Front
<1>6. Frames = {Top.m} /\ Top.m \in Opened(stack)
  <2>1. Top.root .. Len(stack) = {n}
    BY <1>1, <1>3, <1>4
  <2> QED
    BY <2>1, <1>2, <1>3 DEF Frames, Opened, IsEval
<1>7. eval_mark' = eval_mark \ Frames
  BY <1>2, <1>6 DEF flags, Inv, EvalOK, OpenOK
<1>8. /\ {} \in SUBSET {Top.m} /\ evaluated' = evaluated \cup {} /\ instantiated' = instantiated
      /\ eval_has_exception' = eval_has_exception \cup {}
      /\ loaded_modules' = loaded_modules \ (loaded_modules \ (evaluated \cup {}))
  BY <1>2 DEF flags
<1> QED
  BY <1>2, <1>5, <1>7, <1>8, FreeInv

-----------------------------------------------------------------------------
(***************************************************************************)
(* Modules are evaluated.                                                  *)
(***************************************************************************)

\* The imports of a module all of whose requests are done.
LEMMA RequestsDone ==
    ASSUME Inv, stack # << >>, IsEval(Top),
           \A j \in DOMAIN module[Top.m] : Done(stack, Len(stack), j)
    PROVE  \A d \in Requests(Top.m) :
              \/ d \in evaluated \ eval_has_exception
              \/ d \in Outer /\ d \in interrupted
              \/ d \in Frames /\ IsImportedFrom(Top.m, d)
<1>1. PICK n : n = Len(stack)
  OBVIOUS
<1>2. /\ n \in Nat \ {0} /\ DOMAIN stack = 1 .. n /\ Top = stack[n] /\ n \in DOMAIN stack
      /\ Top.root \in 1 .. n /\ Top.m \in DOMAIN defs
  BY <1>1, TopIsLast DEF Inv
<1> SUFFICES ASSUME NEW j \in DOMAIN module[Top.m], NEW d, d = module[Top.m][j],
                    d \notin evaluated \ eval_has_exception
             PROVE  \/ d \in Outer /\ d \in interrupted
                    \/ d \in Frames /\ IsImportedFrom(Top.m, d)
  BY DEF Requests, Range
<1>3. PICK q \in 1 .. n : stack[q].m = d
  BY <1>1, <1>2 DEF Done
<1>4. CASE q \in 1 .. Top.root - 1
  BY <1>2, <1>3, <1>4 DEF Outer, Inv, AliveOK
<1>5. CASE q = n
  <2>1. d = Top.m /\ d # NoDef
    BY <1>2, <1>3, <1>5, Numbers DEF Inv
  <2>2. RequestOK(Top.m, j) /\ j \in DOMAIN Requested(Top.m)
    BY <1>2 DEF Inv, RecordsOK
  <2>3. defs[d].module_name = convertModuleName(defs[Top.m].module_name, Requested(Top.m)[j])
    BY <2>1, <2>2 DEF RequestOK
  <2>4. IsImportedFrom(Top.m, d)
    BY <2>1, <2>2, <2>3, <1>2, ImportIsImported
  <2> QED
    BY <2>1, <2>4, <1>1, <1>2 DEF Frames
<1>6. CASE q # n /\ q \in Top.root .. n
  <2>1. q < n /\ q \in DOMAIN stack
    BY <1>2, <1>6
  <2>2. stack[q].root = stack[n].root
    BY <2>1, <1>2, <1>6 DEF Inv, StackOK, Shape
  <2>3. stack[q].op # "resolve" /\ stack[q].op # "link" /\ stack[q] \in Call
    BY <2>1, <1>1, <1>2 DEF Inv, StackOK, Shape, IsEval
  <2>4. IsEval(stack[q])
    BY <2>3 DEF IsEval, Call
  <2>5. IsImportedFrom(stack[n].m, stack[q].m)
    BY <2>1, <2>2, <2>4, <1>2 DEF Inv, EvalOK
  <2> QED
    BY <2>5, <1>1, <1>2, <1>3, <1>6 DEF Frames
<1>7. q \in 1 .. Top.root - 1 \/ q \in Top.root .. n
  BY <1>2
<1> QED
  BY <1>4, <1>5, <1>6, <1>7

\* An import had thrown before.
LEMMA EvaluationFailsInv ==
    ASSUME Inv, Evaluating, EvaluationFails(evaluated), UNCHANGED <<evaluated, eval_has_exception>>
    PROVE  Inv'
<1>1. PICK T : T = {}
  OBVIOUS
<1>2. /\ fault = None /\ stack # << >> /\ Top.op # "resolve"
      /\ stack' = SubSeq(stack, 1, Top.root - 1)
      /\ UNCHANGED <<records, instantiated, interrupted, fault>>
      /\ eval_mark' = eval_mark \ Frames
  BY DEF Evaluating, Running, EvaluationFails, FreeNotEvaluated, FreeDefs
<1>3. /\ T \in SUBSET {Top.m} /\ T \subseteq instantiated /\ T \cap evaluated = {}
      /\ evaluated' = evaluated \cup T /\ eval_has_exception' = eval_has_exception \cup T
      /\ loaded_modules' = loaded_modules \ (loaded_modules \ (evaluated \cup T))
      /\ \A k \in T : \A d \in Requests(k) \ evaluated' : d \in interrupted \/ IsImportedFrom(k, d)
  BY <1>1 DEF EvaluationFails, FreeNotEvaluated, FreeDefs
<1> QED
  BY <1>2, <1>3, FreeInv

LEMMA BodyThrowsInv ==
    ASSUME Inv, BodyThrows
    PROVE  Inv'
<1>1. PICK T : T = {Top.m}
  OBVIOUS
<1>2. /\ fault = None /\ stack # << >> /\ Top.op = "body"
      /\ stack' = SubSeq(stack, 1, Top.root - 1)
      /\ UNCHANGED <<records, instantiated, interrupted, fault>>
      /\ eval_mark' = eval_mark \ Frames
      /\ evaluated' = evaluated \cup T /\ eval_has_exception' = eval_has_exception \cup T
      /\ loaded_modules' = loaded_modules \ (loaded_modules \ (evaluated \cup T))
  BY <1>1 DEF BodyThrows, InBody, Running, EvaluationFails, FreeNotEvaluated, FreeDefs
<1>3. Len(stack) \in DOMAIN stack /\ Top = stack[Len(stack)] /\ IsEval(Top)
  BY <1>2, TopIsLast DEF Inv, IsEval
<1>4. T \in SUBSET {Top.m} /\ T \subseteq instantiated /\ T \cap evaluated = {}
  BY <1>1, <1>3 DEF Inv, EvalOK, Evals
<1>5. \A j \in DOMAIN module[Top.m] : Done(stack, Len(stack), j)
  BY <1>2, <1>3 DEF Inv, EvalOK
<1>6. \A d \in Requests(Top.m) : \/ d \in evaluated
                                 \/ d \in interrupted
                                 \/ IsImportedFrom(Top.m, d)
  BY <1>2, <1>3, <1>5, RequestsDone
<1>7. \A k \in T : \A d \in Requests(k) \ evaluated' : d \in interrupted \/ IsImportedFrom(k, d)
  BY <1>1, <1>2, <1>6
<1> QED
  BY <1>2, <1>4, <1>7, FreeInv

\* While a module is evaluated, nothing is loaded.
LEMMA AllEvaluate ==
    ASSUME StackOK, stack # << >>, IsEval(Top)
    PROVE  \A p \in DOMAIN stack : IsEval(stack[p]) /\ stack[p].op # "resolve"
<1>1. PICK n : n = Len(stack)
  OBVIOUS
<1>2. n \in Nat \ {0} /\ DOMAIN stack = 1 .. n /\ Top = stack[n] /\ n \in DOMAIN stack
  BY <1>1, TopIsLast
<1> SUFFICES ASSUME NEW p \in DOMAIN stack
             PROVE  IsEval(stack[p]) /\ stack[p].op # "resolve"
  OBVIOUS
<1>3. CASE p = n
  BY <1>2, <1>3 DEF IsEval
<1>4. CASE p # n
  <2>1. p < n
    BY <1>2, <1>4
  <2>2. stack[p].op # "resolve" /\ stack[p].op # "link" /\ stack[p] \in Call
    BY <2>1, <1>1, <1>2 DEF StackOK, Shape, IsEval
  <2> QED
    BY <2>2 DEF IsEval, Call
<1> QED
  BY <1>3, <1>4

\* Steps of js_evaluate_module that fail nothing: what they leave alone.
LEMMA EvaluateKeeps ==
    ASSUME Inv, fault = None, stack # << >>, IsEval(Top),
           UNCHANGED <<records, loaded_modules, instantiated, eval_has_exception,
                       interrupted, fault>>,
           evaluated' = evaluated, \A p \in DOMAIN stack' : IsEval(stack'[p])
    PROVE  RecordsOK' /\ FlagsOK' /\ OpenOK' /\ AnswersOK' /\ FreedOK' /\ FaultOK' /\ UniqueOK'
<1>1. /\ defs' = defs /\ scripts' = scripts /\ module' = module /\ fault' = None
  BY DEF records
<1>2. \A c : Requests(c)' = Requests(c) /\ Requested(c)' = Requested(c)
  BY <1>1 DEF Requests, Requested
<1>3. \A a, b : IsImportedFrom(a, b)' <=> IsImportedFrom(a, b)
  BY <1>1, SameImports
<1>4. RecordsOK' /\ FlagsOK'
  BY <1>1, <1>2 DEF Inv, RecordsOK, RequestOK, FlagsOK
<1>5. OpenOK'
  BY DEF OpenOK, Opened, IsEval
<1>6. AnswersOK'
  <2>1. \A p \in DOMAIN stack : stack[p].op # "resolve"
    BY AllEvaluate DEF Inv
  <2>2. \A p \in DOMAIN stack' : stack'[p].op # "resolve"
    BY DEF IsEval
  <2> QED
    BY <2>1, <2>2, <1>1 DEF Inv, AnswersOK
<1>7. FreedOK'
  BY <1>1, <1>2, <1>3 DEF Inv, FreedOK
<1>8. FaultOK' /\ UniqueOK'
  BY <1>1 DEF Inv, FaultOK, UniqueOK
<1> QED
  BY <1>4, <1>5, <1>6, <1>7, <1>8

\* Everything that the module at the top of the stack requests exists and is linked.
LEMMA RequestsExist ==
    ASSUME Inv, Evaluating
    PROVE  /\ Top.m \in loaded_modules /\ Top.m \in instantiated
           /\ Requests(Top.m) \subseteq loaded_modules
           /\ Requests(Top.m) \subseteq instantiated
<1>1. /\ stack # << >> /\ Top.op = "evaluate" /\ Len(stack) \in DOMAIN stack
      /\ Top = stack[Len(stack)] /\ IsEval(Top)
  BY TopIsLast DEF Inv, Evaluating, Running, IsEval
<1>2. Top.m \in loaded_modules
  BY <1>1 DEF Inv, AliveOK
<1>3. Top.m \in instantiated /\ Top.m \notin evaluated
  BY <1>1 DEF Inv, EvalOK, Evals
<1> QED
  BY <1>2, <1>3 DEF Inv, FreedOK

\* A request is evaluated.
LEMMA EvaluatePushInv ==
    ASSUME Inv, EvaluatingRequest, Request \notin eval_mark \cup evaluated,
           eval_mark' = eval_mark \cup {Request},
           stack' = Append(stack, Frame("evaluate", Request, Top.root)),
           UNCHANGED <<records, instantiated, loaded_modules, fault, interrupted,
                       evaluated, eval_has_exception>>
    PROVE  Inv'
<1>1. PICK n, k, i, r, f : n = Len(stack) /\ k = Top.m /\ i = Top.i /\ r = Request
                           /\ f = Frame("evaluate", r, Top.root)
  OBVIOUS
<1>2. /\ fault = None /\ stack # << >> /\ Top.op = "evaluate" /\ IsEval(Top) /\ Evaluating
      /\ i <= Len(module[k]) /\ r = module[k][i]
  BY <1>1 DEF EvaluatingRequest, Evaluating, Running, IsEval, Request
<1>3. /\ n \in Nat \ {0} /\ DOMAIN stack = 1 .. n /\ Top = stack[n] /\ n \in DOMAIN stack
      /\ Top.root \in 1 .. n /\ k \in DOMAIN defs /\ Top \in Call /\ stack \in Seq(Call)
      /\ Shape(stack)
  BY <1>1, <1>2, TopIsLast DEF Inv, StackOK, Shape
<1>4. /\ i \in DOMAIN module[k] /\ i \in DOMAIN Requested(k) /\ r \in Requests(k)
  <2>1. i \in Nat \ {0}
    BY <1>1, <1>3 DEF Call
  <2>2. DOMAIN module[k] = 1 .. Len(module[k]) /\ Len(module[k]) \in Nat
        /\ DOMAIN Requested(k) = DOMAIN module[k]
    BY <1>3, Numbers DEF Inv
  <2> QED
    BY <2>1, <2>2, <1>2 DEF Requests, Range
<1>5. r \in loaded_modules /\ r \in instantiated /\ r \in DOMAIN defs /\ k \in loaded_modules
  BY <1>1, <1>2, <1>4, RequestsExist DEF Inv, FlagsOK
<1>6. f \in Call /\ f.op = "evaluate" /\ f.m = r /\ f.i = 1 /\ f.root = Top.root
  BY <1>1, <1>3, <1>5, Numbers DEF Frame, Call, Inv
<1>7. /\ stack' \in Seq(Call) /\ Len(stack') = n + 1 /\ DOMAIN stack' = 1 .. n + 1
      /\ \A p \in 1 .. n : stack'[p] = stack[p]
      /\ stack'[n + 1] = f
  BY <1>1, <1>3, <1>6, Pushed
<1>8. \A p \in DOMAIN stack : IsEval(stack[p]) /\ stack[p].op # "resolve"
  BY <1>2, AllEvaluate DEF Inv
<1>9. \A p \in DOMAIN stack' : p \in 1 .. n \/ p = n + 1
  BY <1>3, <1>7
<1>10. \A p \in DOMAIN stack' : IsEval(stack'[p])
  BY <1>3, <1>6, <1>7, <1>8, <1>9 DEF IsEval
<1>11. RecordsOK' /\ FlagsOK' /\ OpenOK' /\ AnswersOK' /\ FreedOK' /\ FaultOK' /\ UniqueOK'
  BY <1>2, <1>10, EvaluateKeeps
<1>12. /\ defs' = defs /\ scripts' = scripts /\ module' = module
       /\ \A a, b : IsImportedFrom(a, b)' <=> IsImportedFrom(a, b)
  BY SameImports DEF records
<1>13. \A p \in 1 .. n : stack[p].m # r /\ stack[p].m \in DOMAIN defs
  BY <1>1, <1>3, <1>8 DEF Inv, EvalOK, Evals, StackOK
<1>14. StackOK'
  <2>1. Shape(stack')
    BY <1>1, <1>2, <1>3, <1>6, PushShape
  <2>2. \A p \in DOMAIN stack' : stack'[p].m \in DOMAIN defs'
    BY <1>5, <1>6, <1>7, <1>9, <1>12, <1>13
  <2>3. \A p, q \in DOMAIN stack' : p < q => stack'[p].m # stack'[q].m
    <3> SUFFICES ASSUME NEW p \in DOMAIN stack', NEW q \in DOMAIN stack', p < q
                 PROVE  stack'[p].m # stack'[q].m
      OBVIOUS
    <3>1. p \in 1 .. n
      BY <1>3, <1>7
    <3>2. CASE q \in 1 .. n
      BY <3>1, <3>2, <1>3, <1>7 DEF Inv, StackOK
    <3>3. CASE q = n + 1
      BY <3>1, <3>3, <1>6, <1>7, <1>13
    <3> QED
      BY <3>2, <3>3, <1>9
  <2> QED
    BY <2>1, <2>2, <2>3 DEF StackOK
<1>15. EvalOK'
  <2>1. Evals(stack') = Evals(stack) \cup {r}
    <3>1. {q \in DOMAIN stack' : IsEval(stack'[q])} = 1 .. n + 1
      BY <1>7, <1>10
    <3>2. {q \in DOMAIN stack : IsEval(stack[q])} = 1 .. n
      BY <1>3, <1>8
    <3>3. 1 .. n + 1 = (1 .. n) \cup {n + 1}
      BY <1>3
    <3> QED
      BY <3>1, <3>2, <3>3, <1>6, <1>7 DEF Evals
  <2>2. eval_mark' = Evals(stack') /\ eval_mark' \subseteq instantiated' \ evaluated'
    BY <2>1, <1>1, <1>5 DEF Inv, EvalOK
  <2>3. IsImportedFrom(r, k) /\ \A c : IsImportedFrom(k, c) => IsImportedFrom(r, c)
    <3>1. RequestOK(k, i) /\ r # NoDef
      BY <1>3, <1>4, <1>5, Numbers DEF Inv, RecordsOK
    <3>2. defs[r].module_name = convertModuleName(defs[k].module_name, Requested(k)[i])
      BY <3>1, <1>2 DEF RequestOK
    <3> QED
      BY <3>2, <1>3, <1>4, <1>5, ImportIsImported
  <2>4. ASSUME NEW p \in DOMAIN stack', NEW q \in DOMAIN stack', p < q,
               IsEval(stack'[p]), stack'[q].root = stack'[p].root
        PROVE  IsImportedFrom(stack[q].m, stack[p].m)'
    <3>1. PICK a, b : a = stack'[p].m /\ b = stack'[q].m
      OBVIOUS
    <3>2. p \in 1 .. n /\ stack'[p] = stack[p]
      BY <2>4, <1>3, <1>7
    <3>3. CASE q \in 1 .. n
      <4>1. IsImportedFrom(b, a)'
        BY <2>4, <3>1, <3>2, <3>3, <1>3, <1>7, <1>12 DEF Inv, EvalOK
      <4> QED
        BY <4>1, <3>1 DEF IsImportedFrom
    <3>4. CASE q = n + 1
      <4>1. b = r /\ stack[p].root = stack[n].root
        BY <2>4, <3>1, <3>2, <3>4, <1>3, <1>6, <1>7
      <4>2. p = n \/ p < n
        BY <3>2, <1>3
      <4>3. a = k \/ IsImportedFrom(k, a)
        BY <4>1, <4>2, <3>1, <3>2, <1>1, <1>3, <1>8 DEF Inv, EvalOK
      <4>4. IsImportedFrom(b, a)'
        BY <4>1, <4>3, <2>3, <1>12
      <4> QED
        BY <4>4, <3>1 DEF IsImportedFrom
    <3> QED
      BY <3>3, <3>4, <1>9
  <2>5. ASSUME NEW p \in DOMAIN stack', IsEval(stack'[p])
        PROVE  /\ \A j \in DOMAIN module'[stack'[p].m] :
                     j < stack'[p].i \/ stack'[p].op = "body" => Done(stack, p, j)'
               /\ stack'[p].op = "evaluate" /\ p < Len(stack') =>
                     /\ stack'[p].i \in DOMAIN module'[stack'[p].m]
                     /\ stack'[p + 1].m = module'[stack'[p].m][stack'[p].i]
    <3>1. CASE p = n + 1
      <4>1. DOMAIN module[r] = 1 .. Len(Requested(r)) /\ Len(Requested(r)) \in Nat
        BY <1>5, Numbers DEF Inv
      <4>2. \A j \in DOMAIN module[r] : ~(j < 1)
        BY <4>1
      <4> QED
        BY <3>1, <4>2, <1>3, <1>6, <1>7, <1>12
    <3>2. CASE p \in 1 .. n
      <4>1. p \in DOMAIN stack /\ stack'[p] = stack[p] /\ IsEval(stack[p])
        BY <3>2, <1>3, <1>7, <1>8
      <4>2. ASSUME NEW j \in DOMAIN module[stack[p].m], j < stack[p].i \/ stack[p].op = "body"
            PROVE  Done(stack, p, j)'
        <5>1. Done(stack, p, j)
          BY <4>1, <4>2 DEF Inv, EvalOK
        <5>2. \A q \in 1 .. p : stack'[q] = stack[q]
          BY <3>2, <1>3, <1>7
        <5> QED
          BY <5>1, <5>2, <4>1, <1>12 DEF Done
      <4>3. ASSUME stack[p].op = "evaluate"
            PROVE  /\ stack[p].i \in DOMAIN module[stack[p].m]
                   /\ stack'[p + 1].m = module[stack[p].m][stack[p].i]
        <5>1. CASE p = n
          BY <5>1, <1>1, <1>2, <1>3, <1>4, <1>6, <1>7
        <5>2. CASE p # n
          <6>1. p < Len(stack) /\ p + 1 \in 1 .. n
            BY <3>2, <5>2, <1>1, <1>3
          <6> QED
            BY <6>1, <4>1, <4>3, <1>7 DEF Inv, EvalOK
        <5> QED
          BY <5>1, <5>2
      <4> QED
        BY <4>1, <4>2, <4>3, <1>12
    <3> QED
      BY <3>1, <3>2, <1>9
  <2> QED
    BY <2>2, <2>4, <2>5 DEF EvalOK
<1>16. AliveOK'
  <2>1. ASSUME NEW p \in DOMAIN stack', NEW q \in 1 .. stack'[p].root - 1
        PROVE  stack'[q].m \in interrupted'
    <3>1. PICK c \in 1 .. n : stack'[p].root = stack[c].root /\ stack[c].root \in 1 .. c
      <4>1. CASE p \in 1 .. n
        BY <4>1, <1>3, <1>7 DEF Shape
      <4>2. CASE p = n + 1
        BY <4>2, <1>3, <1>6, <1>7 DEF Shape
      <4> QED
        BY <4>1, <4>2, <1>9
    <3>2. q \in 1 .. n /\ c \in DOMAIN stack /\ stack'[q] = stack[q]
      BY <3>1, <1>3, <1>7
    <3> QED
      BY <3>1, <3>2 DEF Inv, AliveOK
  <2>2. \A p \in 1 .. n : stack[p].m \in loaded_modules
    BY <1>2, <1>3 DEF Inv, AliveOK
  <2>3. \A p \in DOMAIN stack' : stack'[p].m \in loaded_modules'
    BY <2>2, <1>5, <1>6, <1>7, <1>9
  <2> QED
    BY <2>1, <2>3 DEF AliveOK
<1> QED
  BY <1>11, <1>14, <1>15, <1>16 DEF Inv

\* The module at the top of the stack goes on, having done requests.
LEMMA EvaluateStepInv ==
    ASSUME Inv, Evaluating, NEW n, n = Len(stack),
           stack' \in Seq(Call), Len(stack') = n, DOMAIN stack' = 1 .. n,
           \A p \in 1 .. n - 1 : stack'[p] = stack[p],
           stack'[n].m = Top.m, stack'[n].root = Top.root, IsEval(stack'[n]),
           \A j \in DOMAIN module[Top.m] :
              j < stack'[n].i \/ stack'[n].op = "body" => Done(stack, n, j),
           UNCHANGED <<records, flags, loaded_modules, fault, interrupted>>
    PROVE  Inv'
<1>1. /\ fault = None /\ stack # << >> /\ Top.op = "evaluate" /\ IsEval(Top)
  BY DEF Evaluating, Running, IsEval
<1>2. /\ n \in Nat \ {0} /\ DOMAIN stack = 1 .. n /\ Top = stack[n] /\ n \in DOMAIN stack
      /\ Shape(stack)
  BY <1>1, TopIsLast DEF Inv, StackOK
<1>3. \A p \in DOMAIN stack : IsEval(stack[p]) /\ stack[p].op # "resolve"
  BY <1>1, AllEvaluate DEF Inv
<1>4. \A p \in 1 .. n : /\ p \in 1 .. n - 1 \/ p = n
                        /\ stack'[p].m = stack[p].m /\ stack'[p].root = stack[p].root
  BY <1>2
<1>5. \A p \in DOMAIN stack' : IsEval(stack'[p])
  BY <1>2, <1>3, <1>4
<1>6. RecordsOK' /\ FlagsOK' /\ OpenOK' /\ AnswersOK' /\ FreedOK' /\ FaultOK' /\ UniqueOK'
  BY <1>1, <1>5, EvaluateKeeps DEF flags
<1>7. /\ defs' = defs /\ scripts' = scripts /\ module' = module
      /\ eval_mark' = eval_mark /\ instantiated' = instantiated /\ evaluated' = evaluated
      /\ eval_has_exception' = eval_has_exception
      /\ \A a, b : IsImportedFrom(a, b)' <=> IsImportedFrom(a, b)
  BY SameImports DEF records, flags
<1>8. StackOK'
  <2>1. Shape(stack')
    <3>1. /\ stack'[Len(stack)].op # "resolve" /\ stack'[Len(stack)].op # "link"
          /\ stack[Len(stack)].op # "resolve" /\ stack'[Len(stack)].root = stack[Len(stack)].root
          /\ \A p \in 1 .. Len(stack) - 1 : stack'[p] = stack[p]
          /\ Len(stack') = Len(stack) /\ DOMAIN stack' = DOMAIN stack
      BY <1>1, <1>2 DEF IsEval
    <3> QED
      BY <3>1, <1>1, <1>2, PhaseShape
  <2> QED
    BY <2>1, <1>2, <1>4, <1>7 DEF Inv, StackOK
<1>9. EvalOK'
  <2>1. Evals(stack') = Evals(stack)
    <3>1. /\ {q \in DOMAIN stack' : IsEval(stack'[q])} = 1 .. n
          /\ {q \in DOMAIN stack : IsEval(stack[q])} = 1 .. n
      BY <1>2, <1>3, <1>5
    <3> QED
      BY <3>1, <1>4 DEF Evals
  <2>2. ASSUME NEW p \in DOMAIN stack', NEW q \in DOMAIN stack', p < q,
               IsEval(stack'[p]), stack'[q].root = stack'[p].root
        PROVE  IsImportedFrom(stack[q].m, stack[p].m)'
    <3>1. PICK a, b : a = stack'[p].m /\ b = stack'[q].m
      OBVIOUS
    <3>2. IsImportedFrom(b, a)'
      BY <2>2, <3>1, <1>2, <1>3, <1>4, <1>7 DEF Inv, EvalOK
    <3> QED
      BY <3>1, <3>2 DEF IsImportedFrom
  <2>3. \A p \in 1 .. n : \A j : Done(stack, p, j) => Done(stack, p, j)'
    <3> SUFFICES ASSUME NEW p \in 1 .. n, NEW j, Done(stack, p, j)
                 PROVE  Done(stack, p, j)'
      OBVIOUS
    <3>1. \A q \in 1 .. p : q \in 1 .. n /\ stack'[q].m = stack[q].m
      BY <1>2, <1>4
    <3> QED
      BY <3>1, <1>4, <1>7 DEF Done
  <2>4. ASSUME NEW p \in DOMAIN stack', IsEval(stack'[p])
        PROVE  /\ \A j \in DOMAIN module'[stack'[p].m] :
                     j < stack'[p].i \/ stack'[p].op = "body" => Done(stack, p, j)'
               /\ stack'[p].op = "evaluate" /\ p < Len(stack') =>
                     /\ stack'[p].i \in DOMAIN module'[stack'[p].m]
                     /\ stack'[p + 1].m = module'[stack'[p].m][stack'[p].i]
    <3>1. CASE p = n
      BY <3>1, <2>3, <1>2, <1>7
    <3>2. CASE p \in 1 .. n - 1
      <4>1. p \in DOMAIN stack /\ stack'[p] = stack[p] /\ IsEval(stack[p]) /\ p < Len(stack)
            /\ p + 1 \in 1 .. n
        BY <3>2, <1>2, <1>3
      <4>2. \A j \in DOMAIN module[stack[p].m] :
               j < stack[p].i \/ stack[p].op = "body" => Done(stack, p, j)
        BY <4>1 DEF Inv, EvalOK
      <4>3. stack[p].op = "evaluate" => /\ stack[p].i \in DOMAIN module[stack[p].m]
                                        /\ stack'[p + 1].m = module[stack[p].m][stack[p].i]
        BY <4>1, <1>4 DEF Inv, EvalOK
      <4> QED
        BY <4>1, <4>2, <4>3, <2>3, <1>2, <1>7
    <3> QED
      BY <3>1, <3>2, <1>4
  <2> QED
    BY <2>1, <2>2, <2>4, <1>7 DEF Inv, EvalOK
<1>10. AliveOK'
  <2>1. ASSUME NEW p \in DOMAIN stack', NEW q \in 1 .. stack'[p].root - 1
        PROVE  stack'[q].m \in interrupted'
    <3>1. p \in DOMAIN stack /\ stack'[p].root = stack[p].root /\ stack[p].root \in 1 .. p
      BY <1>2, <1>4 DEF Shape
    <3>2. q \in 1 .. n /\ stack'[q].m = stack[q].m
      BY <3>1, <1>2, <1>4
    <3> QED
      BY <3>1, <3>2 DEF Inv, AliveOK
  <2>2. \A p \in DOMAIN stack' : stack'[p].m \in loaded_modules'
    BY <1>1, <1>2, <1>4 DEF Inv, AliveOK
  <2> QED
    BY <2>1, <2>2 DEF AliveOK
<1> QED
  BY <1>6, <1>8, <1>9, <1>10 DEF Inv

\* A request that is being evaluated or was evaluated is passed.
LEMMA EvaluatePassInv ==
    ASSUME Inv, EvaluatingRequest, Request \in eval_mark \cup (evaluated \ eval_has_exception),
           stack' = [stack EXCEPT ![Len(stack)].i = @ + 1],
           UNCHANGED <<records, flags, loaded_modules, fault, interrupted>>
    PROVE  Inv'
<1>1. PICK n : n = Len(stack)
  OBVIOUS
<1>2. Evaluating /\ stack # << >> /\ IsEval(Top) /\ Top.op = "evaluate"
  BY DEF EvaluatingRequest, Evaluating, Running, IsEval
<1>3. /\ n \in Nat \ {0} /\ DOMAIN stack = 1 .. n /\ Top = stack[n] /\ n \in DOMAIN stack
      /\ Top.m \in DOMAIN defs /\ Top \in Call /\ stack \in Seq(Call)
  BY <1>1, <1>2, TopIsLast DEF Inv, StackOK, Shape
<1>4. Advanced(stack, stack', n)
  <2>1. SubSeq(stack, 1, n) = stack
    BY <1>1, <1>3
  <2> QED
    BY <2>1, <1>1, <1>3, Advances
<1>5. /\ stack' \in Seq(Call) /\ Len(stack') = n /\ DOMAIN stack' = 1 .. n
      /\ \A p \in 1 .. n - 1 : stack'[p] = stack[p]
      /\ stack'[n].m = Top.m /\ stack'[n].root = Top.root /\ stack'[n].op = "evaluate"
      /\ stack'[n].i = Top.i + 1 /\ IsEval(stack'[n])
  BY <1>2, <1>3, <1>4 DEF Advanced, IsEval
<1>6. ASSUME NEW j \in DOMAIN module[Top.m], j < Top.i + 1
      PROVE  Done(stack, n, j)
  <2>1. j \in Nat /\ Top.i \in Nat
    BY <1>3, Numbers DEF Inv, Call
  <2>2. CASE j < Top.i
    BY <2>2, <1>2, <1>3 DEF Inv, EvalOK
  <2>3. CASE j = Top.i
    <3>1. module[stack[n].m][j] = Request
      BY <2>3, <1>3 DEF Request
    <3>2. CASE Request \in eval_mark
      <4>1. \E q \in 1 .. n : stack[q].m = Request
        BY <3>2, <1>3 DEF Inv, EvalOK, Evals
      <4> QED
        BY <4>1, <3>1 DEF Done
    <3>3. CASE Request \in evaluated \ eval_has_exception
      BY <3>1, <3>3 DEF Done
    <3> QED
      BY <3>2, <3>3
  <2> QED
    BY <2>1, <2>2, <2>3, <1>6
<1>7. \A j \in DOMAIN module[Top.m] : j < stack'[n].i \/ stack'[n].op = "body" => Done(stack, n, j)
  BY <1>5, <1>6
<1> QED
  BY <1>1, <1>2, <1>5, <1>7, EvaluateStepInv

\* The last request is done.
LEMMA AllDone ==
    ASSUME Inv, EvaluateBody
    PROVE  \A j \in DOMAIN module[Top.m] : Done(stack, Len(stack), j)
<1>1. stack # << >> /\ Top.op = "evaluate" /\ IsEval(Top) /\ Top.i > Len(module[Top.m])
  BY DEF EvaluateBody, Evaluating, Running, IsEval
<1>2. Len(stack) \in DOMAIN stack /\ Top = stack[Len(stack)] /\ Top \in Call /\ Top.m \in DOMAIN defs
  BY <1>1, TopIsLast DEF Inv
<1>3. \A j \in DOMAIN module[Top.m] : j < Top.i
  <2>1. DOMAIN module[Top.m] = 1 .. Len(module[Top.m]) /\ Len(module[Top.m]) \in Nat /\ Top.i \in Nat
    BY <1>2, Numbers DEF Inv, Call
  <2> QED
    BY <2>1, <1>1
<1> QED
  BY <1>1, <1>2, <1>3 DEF Inv, EvalOK

LEMMA EvaluateBodyInv ==
    ASSUME Inv, EvaluateBody
    PROVE  Inv'
<1>1. PICK n, g, f : n = Len(stack) /\ g = stack[n] /\ f = [g EXCEPT !.op = "body"]
  OBVIOUS
<1>2. Evaluating /\ stack # << >>
  BY DEF EvaluateBody, Evaluating, Running
<1>3. /\ n \in Nat \ {0} /\ DOMAIN stack = 1 .. n /\ Top = g /\ n \in DOMAIN stack
      /\ g \in Call /\ stack \in Seq(Call)
  BY <1>1, <1>2, TopIsLast DEF Inv, StackOK, Shape
<1>4. f \in Call /\ f.op = "body" /\ f.m = g.m /\ f.root = g.root
  BY <1>1, <1>3 DEF Call
<1>5. stack' = [stack EXCEPT ![n] = f]
  BY <1>1 DEF EvaluateBody
<1>6. /\ stack' \in Seq(Call) /\ Len(stack') = n /\ DOMAIN stack' = 1 .. n
      /\ \A p \in 1 .. n - 1 : stack'[p] = stack[p]
      /\ stack'[n] = f
  BY <1>1, <1>3, <1>4, <1>5
<1>7. \A j \in DOMAIN module[Top.m] : j < stack'[n].i \/ stack'[n].op = "body" => Done(stack, n, j)
  BY <1>1, AllDone
<1>8. /\ stack'[n].m = Top.m /\ stack'[n].root = Top.root /\ IsEval(stack'[n])
      /\ UNCHANGED <<records, flags, loaded_modules, fault, interrupted>>
  BY <1>3, <1>4, <1>6 DEF IsEval, EvaluateBody
<1> QED
  BY <1>1, <1>2, <1>6, <1>7, <1>8, EvaluateStepInv

\* A body returns, and its importer goes on.
LEMMA BodyReturnsInv ==
    ASSUME Inv, BodyReturns
    PROVE  Inv'
<1>1. PICK n, k, c : n = Len(stack) /\ k = Top.m /\ c = n - 1
  OBVIOUS
<1>2. /\ fault = None /\ stack # << >> /\ Top.op = "body" /\ IsEval(Top) /\ k \in loaded_modules
      /\ evaluated' = evaluated \cup {k} /\ eval_mark' = eval_mark \ {k}
      /\ UNCHANGED <<records, instantiated, eval_has_exception, loaded_modules, fault, interrupted>>
  BY <1>1 DEF BodyReturns, InBody, Running, IsEval
<1>3. /\ n \in Nat \ {0} /\ DOMAIN stack = 1 .. n /\ Top = stack[n] /\ n \in DOMAIN stack
      /\ Shape(stack) /\ stack \in Seq(Call) /\ Top.root \in 1 .. n
      /\ c \in Nat /\ c \in 0 .. n /\ c + 1 = n
  BY <1>1, <1>2, TopIsLast DEF Inv, StackOK, Shape
<1>4. \A p \in DOMAIN stack : IsEval(stack[p]) /\ stack[p].op # "resolve"
  BY <1>2, AllEvaluate DEF Inv
<1>5. /\ stack' \in Seq(Call) /\ Len(stack') = c /\ DOMAIN stack' = 1 .. c
      /\ \A p \in 1 .. c : /\ stack'[p].op = stack[p].op /\ stack'[p].m = stack[p].m
                           /\ stack'[p].root = stack[p].root
                           /\ \/ stack'[p].i = stack[p].i
                              \/ p = c /\ stack[n].root # n /\ stack'[p].i = stack[p].i + 1
  <2>1. Front(stack) = SubSeq(stack, 1, c)
    BY <1>1 DEF Front
  <2>2. CASE Top.root = n
    <3>1. stack' = SubSeq(stack, 1, c)
      BY <2>1, <2>2, <1>1 DEF BodyReturns
    <3> QED
      BY <3>1, <1>1, <1>3, Cut
  <2>3. CASE Top.root # n
    <3>1. stack' = [SubSeq(stack, 1, c) EXCEPT ![c].i = @ + 1]
      BY <2>1, <2>3, <1>1 DEF BodyReturns
    <3>2. c \in 1 .. Len(stack)
      BY <2>3, <1>1, <1>3
    <3>3. Advanced(stack, stack', c)
      BY <3>1, <3>2, <1>3, Advances
    <3>4. \A p \in 1 .. c : p \in 1 .. c - 1 \/ p = c
      BY <1>3
    <3> QED
      BY <3>3, <3>4, <2>3, <1>3 DEF Advanced
  <2> QED
    BY <2>2, <2>3
<1>6. \A p \in 1 .. c : p \in DOMAIN stack /\ p < n /\ IsEval(stack[p]) /\ IsEval(stack'[p])
  <2>1. \A p \in 1 .. c : p \in DOMAIN stack /\ p < n
    BY <1>3
  <2> QED
    BY <2>1, <1>4, <1>5 DEF IsEval
<1>7. /\ defs' = defs /\ scripts' = scripts /\ module' = module /\ fault' = None
      /\ \A a, b : IsImportedFrom(a, b)' <=> IsImportedFrom(a, b)
  BY <1>2, SameImports DEF records
<1>8. \A a : Requests(a)' = Requests(a) /\ Requested(a)' = Requested(a)
  BY <1>7 DEF Requests, Requested
<1>9. k \in instantiated /\ k \notin evaluated /\ k \notin eval_has_exception
  BY <1>1, <1>2, <1>3 DEF Inv, EvalOK, Evals, FlagsOK
<1>10. RecordsOK' /\ FlagsOK'
  BY <1>2, <1>7, <1>8, <1>9 DEF Inv, RecordsOK, RequestOK, FlagsOK
<1>11. StackOK'
  <2>1. Shape(stack')
    <3>1. c \in 0 .. Len(stack)
      BY <1>1, <1>3
    <3>2. \A p \in 1 .. c : stack'[p].op = stack[p].op /\ stack'[p].root = stack[p].root
      BY <1>5
    <3> QED
      BY <3>1, <3>2, <1>3, <1>5, CutShape
  <2> QED
    BY <2>1, <1>5, <1>6, <1>7 DEF Inv, StackOK
<1>12. OpenOK'
  BY <1>5, <1>6 DEF OpenOK, Opened, IsEval
<1>13. AnswersOK'
  <2>1. \A p \in DOMAIN stack' : stack'[p].op # "resolve"
    BY <1>5, <1>6 DEF IsEval
  <2> QED
    BY <2>1, <1>2, <1>4, <1>7 DEF Inv, AnswersOK
<1>14. EvalOK'
  <2>1. Evals(stack') = eval_mark'
    <3>1. /\ {q \in DOMAIN stack' : IsEval(stack'[q])} = 1 .. c
          /\ {q \in DOMAIN stack : IsEval(stack[q])} = 1 .. n
          /\ 1 .. n = (1 .. c) \cup {n}
      BY <1>3, <1>4, <1>5, <1>6
    <3>2. \A p \in 1 .. c : stack[p].m # k
      BY <1>1, <1>3, <1>6 DEF Inv, StackOK
    <3>3. eval_mark = Evals(stack) /\ stack[n].m = k
      BY <1>1, <1>3 DEF Inv, EvalOK
    <3>4. Evals(stack') = {stack[p].m : p \in 1 .. c}
      BY <3>1, <1>5 DEF Evals
    <3>5. Evals(stack) = {stack[p].m : p \in 1 .. c} \cup {k}
      BY <3>1, <3>3 DEF Evals
    <3> QED
      BY <3>2, <3>3, <3>4, <3>5, <1>2
  <2>2. eval_mark' \subseteq instantiated' \ evaluated'
    BY <1>2 DEF Inv, EvalOK
  <2>3. ASSUME NEW p \in DOMAIN stack', NEW q \in DOMAIN stack', p < q,
               IsEval(stack'[p]), stack'[q].root = stack'[p].root
        PROVE  IsImportedFrom(stack[q].m, stack[p].m)'
    <3>1. PICK a, b : a = stack'[p].m /\ b = stack'[q].m
      OBVIOUS
    <3>2. IsImportedFrom(b, a)'
      BY <2>3, <3>1, <1>5, <1>6, <1>7 DEF Inv, EvalOK
    <3> QED
      BY <3>1, <3>2 DEF IsImportedFrom
  <2>4. ASSUME NEW p \in 1 .. c, NEW j, Done(stack, p, j)
        PROVE  Done(stack, p, j)'
    <3>1. \A q \in 1 .. p : q \in 1 .. c /\ stack'[q].m = stack[q].m
      BY <1>3, <1>5
    <3>2. evaluated \ eval_has_exception \subseteq evaluated' \ eval_has_exception'
      BY <1>2
    <3> QED
      BY <2>4, <3>1, <3>2, <1>5, <1>7 DEF Done
  <2>5. ASSUME NEW p \in DOMAIN stack', NEW j \in DOMAIN module[stack[p].m],
               j < stack'[p].i \/ stack'[p].op = "body"
        PROVE  Done(stack, p, j)'
    <3>1. p \in 1 .. c /\ p \in DOMAIN stack /\ IsEval(stack[p]) /\ stack'[p].op = stack[p].op
          /\ stack[p].m \in DOMAIN defs /\ stack[p] \in Call
      BY <1>5, <1>6, <1>3 DEF Inv, StackOK
    <3>2. CASE j < stack[p].i \/ stack[p].op = "body"
      <4>1. Done(stack, p, j)
        BY <3>1, <3>2 DEF Inv, EvalOK
      <4> QED
        BY <4>1, <3>1, <2>4
    <3>3. CASE ~(j < stack[p].i \/ stack[p].op = "body")
      <4>1. p = c /\ stack'[p].i = stack[p].i + 1 /\ stack[p].op = "evaluate"
        BY <2>5, <3>1, <3>3, <1>5 DEF IsEval
      <4>2. j \in Nat /\ stack[p].i \in Nat
        BY <3>1, Numbers DEF Inv, Call
      <4>3. j = stack[p].i
        BY <2>5, <3>1, <3>3, <4>1, <4>2
      <4>4. stack[p + 1].m = module[stack[p].m][j] /\ p + 1 = n
        BY <3>1, <4>1, <4>3, <1>1, <1>3 DEF Inv, EvalOK
      <4>5. module[stack[p].m][j] = k /\ k \in evaluated' \ eval_has_exception'
        BY <4>4, <1>1, <1>2, <1>3, <1>9
      <4> QED
        BY <4>5, <3>1, <1>5, <1>7 DEF Done
    <3> QED
      BY <3>2, <3>3
  <2>6. ASSUME NEW p \in DOMAIN stack', stack'[p].op = "evaluate", p < Len(stack')
        PROVE  /\ stack'[p].i \in DOMAIN module'[stack'[p].m]
               /\ stack'[p + 1].m = module'[stack'[p].m][stack'[p].i]
    <3>1. /\ p \in 1 .. c /\ p + 1 \in 1 .. c /\ p < Len(stack) /\ p # c
          /\ p \in DOMAIN stack /\ IsEval(stack[p])
      BY <2>6, <1>1, <1>3, <1>5, <1>6
    <3>2. stack'[p].i = stack[p].i /\ stack[p].op = "evaluate"
      BY <2>6, <3>1, <1>5
    <3> QED
      BY <3>1, <3>2, <1>5, <1>7 DEF Inv, EvalOK
  <2>7. ASSUME NEW p \in DOMAIN stack', IsEval(stack'[p])
        PROVE  /\ \A j \in DOMAIN module'[stack'[p].m] :
                     j < stack'[p].i \/ stack'[p].op = "body" => Done(stack, p, j)'
               /\ stack'[p].op = "evaluate" /\ p < Len(stack') =>
                     /\ stack'[p].i \in DOMAIN module'[stack'[p].m]
                     /\ stack'[p + 1].m = module'[stack'[p].m][stack'[p].i]
    <3>1. module'[stack'[p].m] = module[stack[p].m]
      BY <1>5, <1>7
    <3> QED
      BY <3>1, <2>5, <2>6
  <2> QED
    BY <2>1, <2>2, <2>3, <2>7 DEF EvalOK
<1>15. FreedOK'
  <2>1. \A j \in DOMAIN module[Top.m] : Done(stack, Len(stack), j)
    BY <1>1, <1>2, <1>3 DEF Inv, EvalOK
  <2>2. \A d \in Requests(k) : d \in evaluated \/ d \in interrupted \/ IsImportedFrom(k, d)
    BY <2>1, <1>1, <1>2, RequestsDone
  <2>3. \A a \in evaluated' : \A d \in Requests(a) \ evaluated' :
           d \in interrupted \/ IsImportedFrom(a, d)
    BY <2>2, <1>2 DEF Inv, FreedOK
  <2>4. \A a \in (loaded_modules \cap instantiated) \ evaluated' : Requests(a) \subseteq loaded_modules
    BY <1>2 DEF Inv, FreedOK
  <2> QED
    BY <2>3, <2>4, <1>2, <1>7, <1>8 DEF Inv, FreedOK
<1>16. AliveOK'
  <2>1. ASSUME NEW p \in DOMAIN stack', NEW q \in 1 .. stack'[p].root - 1
        PROVE  stack'[q].m \in interrupted'
    <3>1. p \in DOMAIN stack /\ p \in 1 .. c /\ stack'[p].root = stack[p].root /\ stack[p].root \in 1 .. p
      BY <1>3, <1>5, <1>6 DEF Shape
    <3>2. q \in 1 .. c /\ stack'[q].m = stack[q].m
      BY <3>1, <1>3, <1>5
    <3> QED
      BY <3>1, <3>2, <1>2 DEF Inv, AliveOK
  <2>2. \A p \in DOMAIN stack : stack[p].m \in loaded_modules
    BY <1>1, <1>2 DEF Inv, AliveOK
  <2>3. \A p \in DOMAIN stack' : stack'[p].m \in loaded_modules'
    BY <2>2, <1>2, <1>5, <1>6
  <2> QED
    BY <2>1, <2>3 DEF AliveOK
<1>17. FaultOK' /\ UniqueOK'
  BY <1>2, <1>7 DEF Inv, FaultOK, UniqueOK
<1> QED
  BY <1>10, <1>11, <1>12, <1>13, <1>14, <1>15, <1>16, <1>17 DEF Inv

-----------------------------------------------------------------------------
(***************************************************************************)
(* Modules are linked.                                                     *)
(***************************************************************************)

\* The call at the top of the stack, alone in its execution, becomes f: the
\* record goes from loading to linking, or from linking to evaluation.
Becomes(f, n) ==
    /\ n = Len(stack) /\ n \in Nat \ {0} /\ DOMAIN stack = 1 .. n /\ Top = stack[n]
    /\ n \in DOMAIN stack /\ Top.root = n /\ Top.m \in DOMAIN defs
    /\ Top.op \in {"resolve", "link"}
    /\ f \in Call /\ f.m = Top.m /\ f.root = n /\ f.i = 1 /\ f.op \in {"link", "evaluate"}
    /\ stack' \in Seq(Call) /\ Len(stack') = n /\ DOMAIN stack' = 1 .. n
    /\ \A p \in 1 .. n : p \in 1 .. n - 1 \/ p = n
    /\ \A p \in 1 .. n - 1 : stack'[p] = stack[p] /\ IsEval(stack[p]) /\ stack[p].root \in 1 .. p
    /\ stack'[n] = f

LEMMA TopBecomes ==
    ASSUME Inv, stack # << >>, NEW op \in {"link", "evaluate"}, Top.op \in {"resolve", "link"},
           Top.root = Len(stack), stack' = Append(Front(stack), Frame(op, Top.m, Top.root))
    PROVE  Becomes(Frame(op, Top.m, Top.root), Len(stack))
<1>1. PICK n, f, k : n = Len(stack) /\ f = Frame(op, Top.m, Top.root) /\ k = Top.root - 1
  OBVIOUS
<1>2. /\ n \in Nat \ {0} /\ n \in DOMAIN stack /\ DOMAIN stack = 1 .. n
      /\ Top = stack[n] /\ Top \in Call /\ Top.m \in DOMAIN defs /\ stack \in Seq(Call)
  BY <1>1, TopIsLast DEF Inv, StackOK, Shape
<1>3. f \in Call /\ f.m = Top.m /\ f.root = n /\ f.i = 1 /\ f.op = op
  BY <1>1, <1>2 DEF Frame, Call
<1>4. /\ stack' \in Seq(Call) /\ Len(stack') = n /\ DOMAIN stack' = 1 .. n
      /\ \A p \in 1 .. n - 1 : stack'[p] = stack[p]
      /\ stack'[n] = f
  BY <1>1, <1>2, <1>3, Replaced
<1>5. \A p \in 1 .. k : p \in DOMAIN stack /\ IsEval(stack[p])
  BY <1>1, Below DEF Inv
<1>6. \A p \in 1 .. n - 1 : IsEval(stack[p]) /\ stack[p].root \in 1 .. p
  BY <1>1, <1>5 DEF Inv, StackOK, Shape
<1>7. \A p \in 1 .. n : p \in 1 .. n - 1 \/ p = n
  BY <1>2
<1> QED
  BY <1>1, <1>2, <1>3, <1>4, <1>6, <1>7 DEF Becomes

\* What both have in common.
LEMMA BecomesInv ==
    ASSUME Inv, fault = None, NEW f, NEW n, Becomes(f, n),
           UNCHANGED <<records, loaded_modules, evaluated, eval_has_exception, interrupted, fault>>,
           Top.op = "resolve" => Top.i > Len(Requested(Top.m)),
           eval_mark' = eval_mark \cup (IF IsEval(f) THEN {Top.m} ELSE {}),
           instantiated \subseteq instantiated', IsEval(f) => Top.m \in instantiated',
           ~IsEval(f) => instantiated' = instantiated
    PROVE  StackOK' /\ OpenOK' /\ AnswersOK' /\ EvalOK' /\ AliveOK'
<1>1. /\ n = Len(stack) /\ n \in Nat \ {0} /\ DOMAIN stack = 1 .. n /\ Top = stack[n]
      /\ n \in DOMAIN stack /\ Top.root = n /\ Top.m \in DOMAIN defs
      /\ Top.op \in {"resolve", "link"}
      /\ f \in Call /\ f.m = Top.m /\ f.root = n /\ f.i = 1 /\ f.op \in {"link", "evaluate"}
      /\ stack' \in Seq(Call) /\ Len(stack') = n /\ DOMAIN stack' = 1 .. n
      /\ \A p \in 1 .. n : p \in 1 .. n - 1 \/ p = n
      /\ \A p \in 1 .. n - 1 : stack'[p] = stack[p] /\ IsEval(stack[p]) /\ stack[p].root \in 1 .. p
      /\ stack'[n] = f
  BY DEF Becomes
<1>2. \A p \in 1 .. n : stack'[p].m = stack[p].m /\ stack'[p].root = stack[p].root
  BY <1>1
<1>3. stack # << >> /\ Shape(stack) /\ ~IsEval(Top)
  BY <1>1 DEF Inv, StackOK, IsEval
<1>4. /\ defs' = defs /\ scripts' = scripts /\ module' = module
      /\ \A a, b : IsImportedFrom(a, b)' <=> IsImportedFrom(a, b)
  BY SameImports DEF records
<1>5. \A a : Requests(a)' = Requests(a) /\ Requested(a)' = Requested(a)
  BY <1>4 DEF Requests, Requested
<1>6. \A p \in 1 .. n : stack'[p].op # "resolve"
  BY <1>1 DEF IsEval
<1>7. Top.m \in Opened(stack)
  BY <1>1, <1>3 DEF Opened
<1>8. StackOK'
  <2>1. Shape(stack')
    <3>1. /\ stack'[Len(stack)].op # "resolve"
          /\ stack[Len(stack)].root = Len(stack) /\ stack'[Len(stack)].root = stack[Len(stack)].root
          /\ \A p \in 1 .. Len(stack) - 1 : stack'[p] = stack[p]
          /\ Len(stack') = Len(stack) /\ DOMAIN stack' = DOMAIN stack
      BY <1>1, <1>6
    <3> QED
      BY <3>1, <1>1, <1>3, PhaseShape
  <2> QED
    BY <2>1, <1>1, <1>2, <1>4 DEF Inv, StackOK
<1>9. OpenOK'
  <2>1. \A d \in Opened(stack') : ~IsEval(f) /\ d = Top.m
    BY <1>1, <1>2 DEF Opened
  <2> QED
    BY <2>1, <1>1, <1>4, <1>5, <1>6, <1>7 DEF Inv, OpenOK
<1>10. AnswersOK'
  <2>1. ASSUME NEW c \in loaded_modules, NEW j \in DOMAIN module[c], module[c][j] = NoDef
        PROVE  FALSE
    <3>1. PICK p \in 1 .. n : stack[p].op = "resolve" /\ stack[p].m = c /\ stack[p].i <= j
      BY <2>1, <1>1 DEF Inv, AnswersOK
    <3>2. p = n
      BY <3>1, <1>1 DEF IsEval
    <3>3. c = Top.m /\ Top.op = "resolve" /\ Top.i <= j
      BY <3>1, <3>2, <1>1
    <3>4. Top.i > Len(Requested(Top.m))
      BY <3>3
    <3>5. Top \in Call
      BY <1>3, TopIsLast DEF Inv
    <3>6. Top.i \in Nat
      BY <3>5 DEF Call
    <3>7. Top.i > Len(Requested(c)) /\ Top.i <= j /\ Top.i \in Nat
      BY <3>3, <3>4, <3>6
    <3>8. j \in 1 .. Len(Requested(c)) /\ Len(Requested(c)) \in Nat
      BY <2>1, <3>3, <1>1, Numbers DEF Inv
    <3> QED
      BY <3>7, <3>8
  <2> QED
    BY <2>1, <1>1, <1>4, <1>6 DEF AnswersOK
<1>11. EvalOK'
  <2>1. Evals(stack') = Evals(stack) \cup (IF IsEval(f) THEN {Top.m} ELSE {})
    <3>1. {q \in DOMAIN stack : IsEval(stack[q])} = 1 .. n - 1
      BY <1>1, <1>3
    <3>2. Evals(stack) = {stack[p].m : p \in 1 .. n - 1}
      BY <3>1 DEF Evals
    <3>3. {q \in DOMAIN stack' : IsEval(stack'[q])} = (1 .. n - 1) \cup (IF IsEval(f) THEN {n} ELSE {})
      BY <1>1
    <3>4. Evals(stack') = {stack[p].m : p \in (1 .. n - 1) \cup (IF IsEval(f) THEN {n} ELSE {})}
      BY <3>3, <1>1, <1>2 DEF Evals
    <3> QED
      BY <3>2, <3>4, <1>1
  <2>2. eval_mark' = Evals(stack') /\ eval_mark' \subseteq instantiated' \ evaluated'
    <3>1. Top.m \notin evaluated
      BY <1>7 DEF Inv, OpenOK, FlagsOK
    <3> QED
      BY <2>1, <3>1 DEF Inv, EvalOK
  <2>3. ASSUME NEW p \in DOMAIN stack', NEW q \in DOMAIN stack', p < q,
               IsEval(stack'[p]), stack'[q].root = stack'[p].root
        PROVE  IsImportedFrom(stack[q].m, stack[p].m)'
    <3>1. PICK a, b : a = stack'[p].m /\ b = stack'[q].m
      OBVIOUS
    <3>2. p \in 1 .. n - 1
      BY <2>3, <1>1
    <3>3. p \in DOMAIN stack /\ q \in DOMAIN stack /\ IsEval(stack[p]) /\ stack[q].root = stack[p].root
      BY <2>3, <3>2, <1>1, <1>2
    <3>4. IsImportedFrom(b, a)'
      BY <2>3, <3>1, <3>3, <1>1, <1>2, <1>4 DEF Inv, EvalOK
    <3> QED
      BY <3>1, <3>4 DEF IsImportedFrom
  <2>4. ASSUME NEW p \in 1 .. n, NEW j, Done(stack, p, j)
        PROVE  Done(stack, p, j)'
    <3>1. \A q \in 1 .. p : q \in 1 .. n /\ stack'[q].m = stack[q].m
      BY <1>1, <1>2
    <3> QED
      BY <2>4, <3>1, <1>2, <1>4 DEF Done
  <2>5. ASSUME NEW p \in DOMAIN stack', IsEval(stack'[p])
        PROVE  /\ \A j \in DOMAIN module'[stack'[p].m] :
                     j < stack'[p].i \/ stack'[p].op = "body" => Done(stack, p, j)'
               /\ stack'[p].op = "evaluate" /\ p < Len(stack') =>
                     /\ stack'[p].i \in DOMAIN module'[stack'[p].m]
                     /\ stack'[p + 1].m = module'[stack'[p].m][stack'[p].i]
    <3>1. CASE p = n
      <4>1. DOMAIN module[Top.m] = 1 .. Len(Requested(Top.m)) /\ Len(Requested(Top.m)) \in Nat
        BY <1>1, Numbers DEF Inv
      <4>2. \A j \in DOMAIN module[Top.m] : ~(j < 1)
        BY <4>1
      <4> QED
        BY <3>1, <4>2, <1>1, <1>4
    <3>2. CASE p \in 1 .. n - 1
      <4>1. p \in DOMAIN stack /\ stack'[p] = stack[p] /\ IsEval(stack[p]) /\ p < Len(stack)
            /\ p + 1 \in 1 .. n /\ p \in 1 .. n
        BY <3>2, <1>1
      <4>2. \A j \in DOMAIN module[stack[p].m] :
               j < stack[p].i \/ stack[p].op = "body" => Done(stack, p, j)
        BY <4>1 DEF Inv, EvalOK
      <4>3. stack[p].op = "evaluate" => /\ stack[p].i \in DOMAIN module[stack[p].m]
                                        /\ stack'[p + 1].m = module[stack[p].m][stack[p].i]
        BY <4>1, <1>2 DEF Inv, EvalOK
      <4> QED
        BY <4>1, <4>2, <4>3, <2>4, <1>4
    <3> QED
      BY <3>1, <3>2, <1>1
  <2> QED
    BY <2>2, <2>3, <2>5 DEF EvalOK
<1>12. AliveOK'
  <2>1. ASSUME NEW p \in DOMAIN stack', NEW q \in 1 .. stack'[p].root - 1
        PROVE  stack'[q].m \in interrupted'
    <3>1. p \in DOMAIN stack /\ stack'[p].root = stack[p].root /\ stack[p].root \in 1 .. p
      BY <1>1, <1>2, <1>3 DEF Shape
    <3>2. q \in 1 .. n /\ stack'[q].m = stack[q].m
      BY <3>1, <1>1, <1>2
    <3> QED
      BY <3>1, <3>2 DEF Inv, AliveOK
  <2>2. \A p \in DOMAIN stack' : stack'[p].m \in loaded_modules'
    BY <1>1, <1>2, <1>3 DEF Inv, AliveOK, IsEval
  <2> QED
    BY <2>1, <2>2 DEF AliveOK
<1> QED
  BY <1>8, <1>9, <1>10, <1>11, <1>12

\* A record is loaded, with all that it imports.
LEMMA LinkNextInv ==
    ASSUME Inv, ResolveDone, Top.root = Len(stack)
    PROVE  Inv'
<1>1. PICK n, f : n = Len(stack) /\ f = Frame("link", Top.m, Top.root)
  OBVIOUS
<1>2. /\ fault = None /\ stack # << >> /\ Top.op = "resolve" /\ Top.i > Len(Requested(Top.m))
      /\ stack' = Append(Front(stack), f)
      /\ UNCHANGED <<records, flags, loaded_modules, interrupted, fault>>
  BY <1>1 DEF ResolveDone, Resolving, Running, records
<1>3. Becomes(f, n)
  BY <1>1, <1>2, TopBecomes
<1>4. ~IsEval(f)
  BY <1>1 DEF IsEval, Frame
<1>5. StackOK' /\ OpenOK' /\ AnswersOK' /\ EvalOK' /\ AliveOK'
  <2>1. /\ eval_mark' = eval_mark \cup (IF IsEval(f) THEN {Top.m} ELSE {})
        /\ instantiated' = instantiated /\ instantiated \subseteq instantiated'
        /\ UNCHANGED <<evaluated, eval_has_exception>>
    BY <1>2, <1>4 DEF flags
  <2> QED
    BY <2>1, <1>2, <1>3, <1>4, BecomesInv
<1>6. \A a, b : IsImportedFrom(a, b)' <=> IsImportedFrom(a, b)
  BY <1>2, SameImports DEF records
<1>7. RecordsOK' /\ FlagsOK'
  BY <1>2 DEF Inv, RecordsOK, FlagsOK, RequestOK, Requested, records, flags
<1>8. FreedOK' /\ FaultOK' /\ UniqueOK'
  BY <1>2, <1>6 DEF Inv, FreedOK, FaultOK, UniqueOK, Requests, records, flags
<1> QED
  BY <1>5, <1>7, <1>8 DEF Inv

\* What is linked has the record and, with a record that was not linked before,
\* what this requests.
LEMMA LinkingClosed ==
    ASSUME Inv, stack # << >>
    PROVE  /\ Top.m \in Linking
           /\ \A k \in Linking \cap (loaded_modules \ instantiated) : Requests(k) \subseteq Linking
<1>1. PICK all, through : all = DOMAIN defs \cup {NoDef} /\ through = loaded_modules \ instantiated
  OBVIOUS
<1>2. Linking = {k \in all : \A S \in SUBSET all :
                   {Top.m} \cup UNION {Requests(j) : j \in S \cap through} \subseteq S => k \in S}
  BY <1>1 DEF Linking, Reach
<1>3. Top.m \in all /\ \A k \in through : Requests(k) \subseteq all
  BY <1>1, TopIsLast, Numbers DEF Inv, FlagsOK
<1>4. ASSUME NEW k \in Linking \cap through, NEW d \in Requests(k)
      PROVE  d \in Linking
  <2> SUFFICES ASSUME NEW S \in SUBSET all,
                      {Top.m} \cup UNION {Requests(j) : j \in S \cap through} \subseteq S
               PROVE  d \in S
    BY <1>2, <1>3, <1>4
  <2>1. k \in S
    BY <1>2, <1>4
  <2> QED
    BY <2>1, <1>4
<1> QED
  BY <1>1, <1>2, <1>3, <1>4

LEMMA LinkDoneInv ==
    ASSUME Inv, LinkDone
    PROVE  Inv'
<1>1. PICK n, f, L : n = Len(stack) /\ f = Frame("evaluate", Top.m, Top.root) /\ L = Linking
  OBVIOUS
<1>2. /\ fault = None /\ stack # << >> /\ Top.op = "link" /\ L \subseteq loaded_modules
      /\ instantiated' = instantiated \cup L /\ eval_mark' = eval_mark \cup {Top.m}
      /\ stack' = Append(Front(stack), f)
      /\ UNCHANGED <<records, evaluated, eval_has_exception, loaded_modules, interrupted, fault>>
  BY <1>1 DEF LinkDone, Running
<1>3. Top.root = n
  BY <1>1, <1>2, TopIsLast DEF Inv, StackOK, Shape
<1>4. Becomes(f, n)
  BY <1>1, <1>2, <1>3, TopBecomes
<1>5. IsEval(f)
  BY <1>1 DEF IsEval, Frame
<1>6. /\ Top.m \in L
      /\ \A k \in L \cap (loaded_modules \ instantiated) : Requests(k) \subseteq L
  BY <1>1, <1>2, LinkingClosed
<1>7. StackOK' /\ OpenOK' /\ AnswersOK' /\ EvalOK' /\ AliveOK'
  <2>1. /\ eval_mark' = eval_mark \cup (IF IsEval(f) THEN {Top.m} ELSE {})
        /\ instantiated \subseteq instantiated' /\ Top.m \in instantiated'
        /\ Top.op # "resolve"
    BY <1>2, <1>5, <1>6
  <2> QED
    BY <2>1, <1>2, <1>4, <1>5, BecomesInv
<1>8. /\ \A a, b : IsImportedFrom(a, b)' <=> IsImportedFrom(a, b)
      /\ \A a : Requests(a)' = Requests(a)
  BY <1>2, SameImports DEF records, Requests
<1>9. RecordsOK' /\ FlagsOK'
  BY <1>2 DEF Inv, RecordsOK, FlagsOK, RequestOK, Requested, records
<1>10. FreedOK'
  <2>1. \A k \in instantiated' : Requests(k) \subseteq instantiated'
    BY <1>2, <1>6 DEF Inv, FreedOK
  <2>2. \A k \in (loaded_modules \cap instantiated') \ evaluated : Requests(k) \subseteq loaded_modules
    BY <1>2, <1>6 DEF Inv, FreedOK
  <2> QED
    BY <2>1, <2>2, <1>2, <1>8 DEF Inv, FreedOK
<1>11. FaultOK' /\ UniqueOK'
  BY <1>2 DEF Inv, FaultOK, UniqueOK, records
<1> QED
  BY <1>7, <1>9, <1>10, <1>11 DEF Inv

-----------------------------------------------------------------------------
(***************************************************************************)
(* The other steps.                                                        *)
(***************************************************************************)

LEMMA ExecuteModuleInv ==
    ASSUME Inv, NEW name, ExecuteModule(name)
    PROVE  Inv'
<1>1. PICK root : root = Len(stack) + 1
  OBVIOUS
<1>2. root \in Nat
  BY <1>1 DEF Inv, StackOK, Shape
<1>3. Starts(TRUE, root)
  BY <1>1 DEF ExecuteModule, Starts
<1>4. /\ fault = None /\ File(name) \in DOMAIN scripts /\ NewModuleDef(name, TRUE)
      /\ stack' = Append(stack, Frame("resolve", Len(defs) + 1, root))
  BY <1>1 DEF ExecuteModule
<1> QED
  BY <1>2, <1>3, <1>4, LoadInv

\* The request at which the innermost call is.
LEMMA AtRequest ==
    ASSUME Inv, Requesting
    PROVE  /\ fault = None /\ stack # << >> /\ Top.op = "resolve"
           /\ Len(stack) \in DOMAIN stack /\ Top = stack[Len(stack)] /\ Top.root \in Nat
           /\ Top.i \in DOMAIN Requested(Top.m) /\ Top.i \in DOMAIN module[Top.m]
<1>1. /\ fault = None /\ stack # << >> /\ Top.op = "resolve" /\ Top.i <= Len(Requested(Top.m))
  BY DEF Requesting, Resolving, Running
<1>2. /\ Len(stack) \in DOMAIN stack /\ Top = stack[Len(stack)] /\ Top \in Call
      /\ Top.m \in DOMAIN defs
  BY <1>1, TopIsLast DEF Inv
<1>3. /\ Len(Requested(Top.m)) \in Nat /\ DOMAIN Requested(Top.m) = 1 .. Len(Requested(Top.m))
      /\ DOMAIN module[Top.m] = 1 .. Len(Requested(Top.m))
  BY <1>2, Numbers DEF Inv
<1>4. Top.i \in Nat \ {0} /\ Top.root \in Nat
  BY <1>2 DEF Call
<1> QED
  BY <1>1, <1>2, <1>3, <1>4

LEMMA ResolveLoadsInv ==
    ASSUME Inv, ResolveLoads
    PROVE  Inv'
<1>1. Requesting
  BY DEF ResolveLoads
<1>2. PICK name, root : name = Name /\ root = Top.root
  OBVIOUS
<1>3. /\ name # Throws /\ File(name) \in DOMAIN scripts /\ NewModuleDef(name, FALSE)
      /\ stack' = Append(stack, Frame("resolve", Len(defs) + 1, root))
      /\ interrupted' = interrupted
      /\ \A m \in loaded_modules : defs[m].module_name # name
  BY <1>2 DEF ResolveLoads, Found
<1>4. name = convertModuleName(defs[Top.m].module_name, Requested(Top.m)[Top.i])
  BY <1>2 DEF Name, Path
<1>5. Loads(name, FALSE, root) /\ root \in Nat /\ fault = None
  BY <1>1, <1>2, <1>3, <1>4, AtRequest DEF Loads
<1> QED
  BY <1>3, <1>5, LoadInv

LEMMA ResolveLoadedInv ==
    ASSUME Inv, ResolveLoaded
    PROVE  Inv'
<1>1. PICK n : n = Len(stack)
  OBVIOUS
<1>2. /\ Requesting /\ Name # Throws
      /\ UNCHANGED <<scripts, defs, flags, loaded_modules, fault, interrupted, released>>
  BY DEF ResolveLoaded
<1>3. PICK m \in Found : Answer(n, m)
  BY <1>1 DEF ResolveLoaded
<1>4. m \in loaded_modules /\ defs[m].module_name = Name
  BY <1>3 DEF Found
<1>5. /\ fault = None /\ n \in DOMAIN stack /\ Top = stack[n] /\ stack[n].op = "resolve"
      /\ stack[n].i \in DOMAIN module[stack[n].m]
  BY <1>1, <1>2, AtRequest
<1>6. /\ defs[m].module_name = convertModuleName(defs[stack[n].m].module_name,
                                                 Requested(stack[n].m)[stack[n].i])
      /\ defs[m].module_name # Throws
  BY <1>2, <1>4, <1>5 DEF Name, Path
<1>7. \A q \in DOMAIN stack : ~(q > n)
  BY <1>1 DEF Inv, StackOK, Shape
<1> QED
  BY <1>2, <1>3, <1>4, <1>5, <1>6, <1>7, AnswerInv

\* The record that is loaded is the answer to its importer.
LEMMA ImporterAnswered ==
    ASSUME Inv, ResolveDone, Top.root # Len(stack)
    PROVE  Inv'
<1>1. PICK n, k, m : n = Len(stack) /\ k = n - 1 /\ m = Top.m
  OBVIOUS
<1>2. /\ fault = None /\ stack # << >> /\ Top.op = "resolve" /\ Top.i > Len(Requested(m))
      /\ Answer(k, m)
      /\ UNCHANGED <<scripts, defs, flags, loaded_modules, fault, interrupted, released>>
  BY <1>1 DEF ResolveDone, Resolving, Running
<1>3. /\ n \in Nat \ {0} /\ n \in DOMAIN stack /\ DOMAIN stack = 1 .. n /\ Top = stack[n]
      /\ Top \in Call /\ m \in DOMAIN defs /\ Top.root \in 1 .. n /\ Shape(stack)
  BY <1>1, <1>2, TopIsLast DEF Inv, StackOK
<1>4. k \in 1 .. n /\ k \in DOMAIN stack /\ k \in Top.root .. n /\ k < n /\ k + 1 = n
  BY <1>1, <1>3
<1>5. stack[k].op = "resolve"
  BY <1>2, <1>3, <1>4 DEF Shape
<1>6. Awaits(stack, k)
  BY <1>1, <1>4, <1>5 DEF Inv, AnswersOK
<1>7. /\ stack[k].i \in DOMAIN module[stack[k].m]
      /\ defs[m].module_name
           = convertModuleName(defs[stack[k].m].module_name, Requested(stack[k].m)[stack[k].i])
      /\ defs[m].module_name # Throws
  BY <1>1, <1>3, <1>4, <1>6 DEF Awaits
<1>8. m \in loaded_modules
  BY <1>1, <1>2, <1>3 DEF Inv, AliveOK
<1>9. ASSUME NEW q \in DOMAIN stack, q > k
      PROVE  \A j \in DOMAIN module[stack[q].m] : j < stack[q].i
  <2>1. q = n
    BY <1>9, <1>1, <1>3
  <2>2. /\ DOMAIN module[m] = 1 .. Len(Requested(m)) /\ Len(Requested(m)) \in Nat
        /\ Top.i \in Nat
    BY <1>3, Numbers DEF Inv, Call
  <2>3. \A j \in DOMAIN module[m] : j < Top.i
    BY <2>2, <1>2
  <2> QED
    BY <2>1, <2>3, <1>1, <1>3
<1> QED
  BY <1>2, <1>4, <1>5, <1>7, <1>8, <1>9, AnswerInv

LEMMA EvaluateRequestInv ==
    ASSUME Inv, EvaluateRequest
    PROVE  Inv'
<1>1. EvaluatingRequest /\ Evaluating /\ UNCHANGED <<evaluated, eval_has_exception>>
  BY DEF EvaluateRequest, EvaluatingRequest
<1>2. CASE EvaluationFails(evaluated)
  BY <1>1, <1>2, EvaluationFailsInv
<1>3. CASE /\ Request \notin eval_mark \cup evaluated
           /\ eval_mark' = eval_mark \cup {Request}
           /\ stack' = Append(stack, Frame("evaluate", Request, Top.root))
           /\ UNCHANGED <<records, instantiated, loaded_modules, fault, interrupted, released>>
  BY <1>1, <1>3, EvaluatePushInv
<1>4. CASE /\ Request \in eval_mark \cup (evaluated \ eval_has_exception)
           /\ stack' = [stack EXCEPT ![Len(stack)].i = @ + 1]
           /\ UNCHANGED <<records, instantiated, eval_mark, loaded_modules, fault,
                          interrupted, released>>
  <2>1. UNCHANGED <<records, flags, loaded_modules, fault, interrupted>>
    BY <1>1, <1>4 DEF flags
  <2> QED
    BY <2>1, <1>1, <1>4, EvaluatePassInv
<1> QED
  BY <1>2, <1>3, <1>4 DEF EvaluateRequest

\* The records and the calls stay as they are.
LEMMA SameInv ==
    ASSUME Inv, UNCHANGED <<records, flags, loaded_modules, stack, interrupted>>, FaultOK'
    PROVE  Inv'
<1>1. UNCHANGED <<records, flags, loaded_modules, stack, interrupted>>
  OBVIOUS
<1>2. /\ \A a, b : IsImportedFrom(a, b)' <=> IsImportedFrom(a, b)
      /\ \A a : Requests(a)' = Requests(a) /\ Requested(a)' = Requested(a)
      /\ \A a, j : RequestOK(a, j)' <=> RequestOK(a, j)
  BY <1>1, SameImports DEF records, Requests, Requested, RequestOK
<1>3. RecordsOK' /\ FlagsOK' /\ StackOK'
  BY <1>1, <1>2 DEF Inv, RecordsOK, FlagsOK, StackOK, records, flags
<1>4. OpenOK'
  BY <1>1, <1>2 DEF Inv, OpenOK, records, flags
<1>5. AnswersOK' /\ AliveOK' /\ UniqueOK'
  BY <1>1, <1>2 DEF Inv, AnswersOK, Awaits, AliveOK, UniqueOK, Top, records, flags
<1>6. EvalOK'
  <2>1. stack' = stack /\ module' = module /\ evaluated' = evaluated /\ instantiated' = instantiated
        /\ eval_mark' = eval_mark /\ eval_has_exception' = eval_has_exception
    BY <1>1 DEF records, flags
  <2>2. ASSUME NEW p \in DOMAIN stack, NEW q \in DOMAIN stack, p < q,
               IsEval(stack[p]), stack[q].root = stack[p].root
        PROVE  IsImportedFrom(stack[q].m, stack[p].m)'
    <3>1. PICK a, b : a = stack[p].m /\ b = stack[q].m
      OBVIOUS
    <3>2. IsImportedFrom(b, a)'
      BY <2>2, <3>1, <1>2 DEF Inv, EvalOK
    <3> QED
      BY <3>1, <3>2, <2>1 DEF IsImportedFrom
  <2>3. \A p, j : Done(stack, p, j)' <=> Done(stack, p, j)
    BY <2>1 DEF Done
  <2>4. eval_mark' = Evals(stack') /\ eval_mark' \subseteq instantiated' \ evaluated'
    BY <2>1 DEF Inv, EvalOK
  <2>5. ASSUME NEW p \in DOMAIN stack, IsEval(stack[p])
        PROVE  /\ \A j \in DOMAIN module[stack[p].m] :
                     j < stack[p].i \/ stack[p].op = "body" => Done(stack, p, j)'
               /\ stack[p].op = "evaluate" /\ p < Len(stack) =>
                     /\ stack[p].i \in DOMAIN module[stack[p].m]
                     /\ stack[p + 1].m = module[stack[p].m][stack[p].i]
    BY <2>3, <2>5 DEF Inv, EvalOK
  <2> QED
    BY <2>1, <2>2, <2>4, <2>5 DEF EvalOK
<1>7. FreedOK'
  BY <1>1, <1>2 DEF Inv, FreedOK, records, flags
<1> QED
  BY <1>3, <1>4, <1>5, <1>6, <1>7 DEF Inv

\* A freed record is met.
LEMMA FaultInv ==
    ASSUME Inv, NEW k, NEW m, Fault(k, m), m \in interrupted \/ IsImportedFrom(k, m)
    PROVE  Inv'
<1>1. /\ fault' = [by |-> k, of |-> m]
      /\ UNCHANGED <<records, flags, loaded_modules, stack, interrupted>>
  BY DEF Fault
<1>2. m \in interrupted' \/ IsImportedFrom(k, m)'
  BY <1>1, SameImports DEF records
<1>3. fault'.by = k /\ fault'.of = m
  BY <1>1
<1>4. FaultOK'
  BY <1>2, <1>3 DEF FaultOK, IsImportedFrom
<1> QED
  BY <1>1, <1>4, SameInv

LEMMA LinkFaultInv ==
    ASSUME Inv, LinkFault
    PROVE  Inv'
<1>1. stack # << >> /\ Top.op = "link"
  BY DEF LinkFault, Running
<1>2. PICK k \in loaded_modules : \E m \in Requests(k) : Fault(k, m)
  BY DEF LinkFault
<1>3. PICK m \in Requests(k) : Fault(k, m)
  BY <1>2
<1>4. m \notin loaded_modules
  BY <1>3 DEF Fault
<1>5. \A p \in DOMAIN stack : stack[p].op # "resolve"
  <2>1. PICK n : n = Len(stack)
    OBVIOUS
  <2>2. n \in DOMAIN stack /\ DOMAIN stack = 1 .. n /\ stack[n].op = "link" /\ n \in Nat /\ Shape(stack)
    BY <2>1, <1>1, TopIsLast DEF Inv, StackOK
  <2>3. \A p \in DOMAIN stack : p = n \/ p < n
    BY <2>2
  <2> QED
    BY <2>2, <2>3 DEF Shape
<1>6. m # NoDef
  <2>1. PICK j \in DOMAIN module[k] : m = module[k][j]
    BY <1>3 DEF Requests, Range
  <2> QED
    BY <2>1, <1>2, <1>5 DEF Inv, AnswersOK
<1>7. m \in interrupted \/ IsImportedFrom(k, m)
  BY <1>2, <1>3, <1>4, <1>6 DEF Inv, FreedOK
<1> QED
  BY <1>3, <1>7, FaultInv

LEMMA BodyFaultInv ==
    ASSUME Inv, BodyFault
    PROVE  Inv'
<1>1. PICK m : m = Top.m
  OBVIOUS
<1>2. /\ stack # << >> /\ Fault(m, m) /\ m \notin loaded_modules
  BY <1>1 DEF BodyFault, InBody, Running, Fault
<1>3. m \in interrupted
  BY <1>1, <1>2, TopIsLast DEF Inv, AliveOK
<1> QED
  BY <1>2, <1>3, FaultInv

LEMMA CloseInv ==
    ASSUME Inv, Close
    PROVE  Inv'
<1>1. /\ stack = << >> /\ stack' = << >> /\ loaded_modules' = {} /\ fault = None
      /\ UNCHANGED <<records, flags, interrupted, fault>>
  BY DEF Close, FreeDefs
<1>2. DOMAIN stack' = {} /\ stack' \in Seq(Call)
  BY <1>1
<1>3. /\ \A a, b : IsImportedFrom(a, b)' <=> IsImportedFrom(a, b)
      /\ \A a : Requests(a)' = Requests(a) /\ Requested(a)' = Requested(a)
      /\ \A a, j : RequestOK(a, j)' <=> RequestOK(a, j)
  BY <1>1, SameImports DEF records, Requests, Requested, RequestOK
<1>4. RecordsOK' /\ FlagsOK'
  BY <1>1, <1>3 DEF Inv, RecordsOK, FlagsOK, records, flags
<1>5. StackOK' /\ OpenOK'
  BY <1>2 DEF StackOK, Shape, OpenOK, Opened
<1>6. AnswersOK' /\ AliveOK' /\ UniqueOK' /\ FaultOK'
  BY <1>1, <1>2 DEF AnswersOK, AliveOK, UniqueOK, FaultOK
<1>7. EvalOK'
  <2>1. Evals(stack) = {} /\ Evals(stack') = {}
    BY <1>1 DEF Evals
  <2> QED
    BY <2>1, <1>1, <1>2 DEF Inv, EvalOK, flags
<1>8. FreedOK'
  BY <1>1, <1>3 DEF Inv, FreedOK, flags
<1> QED
  BY <1>4, <1>5, <1>6, <1>7, <1>8 DEF Inv

LEMMA StutterInv ==
    ASSUME Inv, UNCHANGED vars
    PROVE  Inv'
<1>1. UNCHANGED <<records, flags, loaded_modules, stack, interrupted>> /\ fault' = fault
  BY DEF vars
<1>2. FaultOK'
  BY <1>1, SameImports DEF Inv, FaultOK, IsImportedFrom, records
<1> QED
  BY <1>1, <1>2, SameInv

LEMMA InitInv ==
    ASSUME Init
    PROVE  Inv
<1>1. /\ scripts \in Worlds /\ defs = << >> /\ module = << >> /\ loaded_modules = {}
      /\ instantiated = {} /\ eval_mark = {} /\ evaluated = {} /\ eval_has_exception = {}
      /\ stack = << >> /\ fault = None /\ interrupted = {}
  BY DEF Init
<1>2. /\ Sequence(defs) /\ Sequence(module) /\ Len(module) = Len(defs)
      /\ DOMAIN defs = {} /\ DOMAIN stack = {} /\ stack \in Seq(Call)
  BY <1>1 DEF Sequence
<1>3. RecordsOK /\ FlagsOK /\ StackOK
  BY <1>1, <1>2 DEF RecordsOK, FlagsOK, StackOK, Shape
<1>4. OpenOK /\ AnswersOK /\ EvalOK
  BY <1>1, <1>2 DEF OpenOK, Opened, AnswersOK, EvalOK, Evals
<1>5. FreedOK /\ AliveOK /\ FaultOK /\ UniqueOK
  BY <1>1, <1>2 DEF FreedOK, AliveOK, FaultOK, UniqueOK
<1> QED
  BY <1>3, <1>4, <1>5 DEF Inv

LEMMA StepInv ==
    ASSUME Inv, [Next]_vars
    PROVE  Inv'
<1>1. CASE \E name \in Entries : ExecuteModule(name)
  BY <1>1, ExecuteModuleInv
<1>2. CASE ResolveLoaded
  BY <1>2, ResolveLoadedInv
<1>3. CASE ResolveLoads
  BY <1>3, ResolveLoadsInv
<1>4. CASE ResolveFails
  BY <1>4, ResolveFailsInv
<1>5. CASE ResolveDone
  BY <1>5, LinkNextInv, ImporterAnswered
<1>6. CASE LinkFault
  BY <1>6, LinkFaultInv
<1>7. CASE LinkDone
  BY <1>7, LinkDoneInv
<1>8. CASE LinkFails
  BY <1>8, LinkFailsInv
<1>9. CASE EvaluateRequest
  BY <1>9, EvaluateRequestInv
<1>10. CASE EvaluateBody
  BY <1>10, EvaluateBodyInv
<1>11. CASE BodyReturns
  BY <1>11, BodyReturnsInv
<1>12. CASE BodyThrows
  BY <1>12, BodyThrowsInv
<1>13. CASE BodyFault
  BY <1>13, BodyFaultInv
<1>14. CASE Close
  BY <1>14, CloseInv
<1>15. CASE UNCHANGED vars
  BY <1>15, StutterInv
<1> QED
  BY <1>1, <1>2, <1>3, <1>4, <1>5, <1>6, <1>7, <1>8, <1>9, <1>10, <1>11, <1>12, <1>13,
     <1>14, <1>15 DEF Next

LEMMA AlwaysInv == Spec => []Inv
<1>1. Init => Inv
  BY InitInv
<1>2. Inv /\ [Next]_vars => Inv'
  BY StepInv
<1> QED
  BY <1>1, <1>2, PTL DEF Spec

-----------------------------------------------------------------------------
(***************************************************************************)
(* The theorems.                                                           *)
(***************************************************************************)

\* js_free_module_def, js_free_modules: a freed record is used only when it and
\* the record that leads to it import each other, or when another execution
\* interrupted its evaluation; js_resolve_module and js_evaluate_module never
\* work on one, however many modules there are, whatever they import and
\* however deep the executions are nested.
THEOREM FreedIsNotUsed == Spec => []NoUseOfFreed
<1>1. Inv => NoUseOfFreed
  <2> SUFFICES ASSUME Inv
               PROVE  NoUseOfFreed
    OBVIOUS
  <2>1. Running /\ Top.op # "body" => Top.m \in loaded_modules
    BY TopIsLast DEF Inv, AliveOK, Running
  <2>2. Evaluating => Requests(Top.m) \subseteq loaded_modules
    BY RequestsExist
  <2> QED
    BY <2>1, <2>2 DEF NoUseOfFreed, Inv, FaultOK
<1> QED
  BY <1>1, AlwaysInv, PTL

\* js_evaluate_module: the body of a module begins after all it imports.
THEOREM ImportsComeFirst == Spec => ImportsEvaluatedFirst
<1>1. ASSUME Inv, EvaluateBody
      PROVE  \A d \in Requests(Top.m) :
                \/ d \in evaluated \ eval_has_exception
                \/ d \in Outer
                \/ d \in Frames /\ IsImportedFrom(Top.m, d)
  <2>1. stack # << >> /\ IsEval(Top)
    BY <1>1 DEF EvaluateBody, Evaluating, Running, IsEval
  <2> QED
    BY <2>1, <1>1, AllDone, RequestsDone
<1>2. Inv /\ [Next]_vars =>
         [EvaluateBody => \A d \in Requests(Top.m) :
                             \/ d \in evaluated \ eval_has_exception
                             \/ d \in Outer
                             \/ d \in Frames /\ IsImportedFrom(Top.m, d)]_vars
  BY <1>1
<1> QED
  BY <1>2, AlwaysInv, PTL DEF Spec, ImportsEvaluatedFirst

\* The names of the records: of Entries, or of those that requests convert to.
NamesOK(names) ==
    \A m \in DOMAIN defs :
       /\ defs[m].executed => defs[m].module_name \in Entries
       /\ ~defs[m].executed => defs[m].module_name \in names[scripts]

LEMMA NamesStep ==
    ASSUME NEW names, Resolves(names), Inv, NamesOK(names), [Next]_vars
    PROVE  NamesOK(names)'
<1>1. ASSUME NEW name, NEW executed \in BOOLEAN, NewModuleDef(name, executed),
             File(name) \in DOMAIN scripts,
             executed => name \in Entries, ~executed => name \in names[scripts]
      PROVE  NamesOK(names)'
  <2>1. PICK d : d = Len(defs) + 1 /\ Created(d, name, executed)
    BY <1>1, RecordCreated DEF Inv
  <2>2. /\ DOMAIN defs' = DOMAIN defs \cup {d} /\ \A k \in DOMAIN defs : defs'[k] = defs[k]
        /\ defs'[d].module_name = name /\ defs'[d].executed = executed
    BY <2>1 DEF Created, Keeps
  <2>3. scripts' = scripts
    BY <1>1 DEF NewModuleDef
  <2> QED
    BY <2>2, <2>3, <1>1 DEF NamesOK
<1>2. CASE \E name \in Entries : ExecuteModule(name)
  BY <1>1, <1>2 DEF ExecuteModule
<1>3. CASE ResolveLoads
  <2>1. PICK name, base, path :
           /\ name = Name /\ base = defs[Top.m].module_name /\ path = Requested(Top.m)[Top.i]
    OBVIOUS
  <2>2. /\ name # Throws /\ File(name) \in DOMAIN scripts /\ NewModuleDef(name, FALSE)
        /\ name = convertModuleName(base, path) /\ Requesting
    BY <2>1, <1>3 DEF ResolveLoads, Name, Path
  <2>3. stack # << >> /\ Top.i \in DOMAIN Requested(Top.m)
    BY <2>2, AtRequest
  <2>4. Top.m \in DOMAIN defs
    BY <2>3, TopIsLast DEF Inv
  <2>5. scripts \in Worlds /\ base \in names[scripts] \cup Entries /\ File(base) \in DOMAIN scripts
    BY <2>1, <2>4 DEF Inv, RecordsOK, NamesOK
  <2>6. path \in Range(scripts[File(base)])
    BY <2>1, <2>3 DEF Requested, Range
  <2>7. name \in names[scripts]
    BY <2>2, <2>5, <2>6 DEF Resolves
  <2> QED
    BY <2>2, <2>7, <1>1
<1>4. CASE defs' = defs /\ scripts' = scripts
  BY <1>4 DEF NamesOK
<1>5. \/ \E name \in Entries : ExecuteModule(name)
      \/ ResolveLoads
      \/ defs' = defs /\ scripts' = scripts
  BY DEF Next, ResolveLoaded, ResolveFails, ResolveDone, LinkFault, LinkDone, LinkFails,
         EvaluateRequest, EvaluationFails, EvaluateBody, BodyReturns, BodyThrows, BodyFault, Close,
         Fault, FreeNotEvaluated, FreeDefs, records, vars
<1> QED
  BY <1>2, <1>3, <1>4, <1>5

\* js_find_loaded_module: whatever is imported, by which paths, and whatever
\* failed and was freed before, a file has at most one imported record with a
\* normal name: a record is looked up by the name it would be given, and two
\* normal names of one file are equal.
THEOREM FilesAreLoadedOnce == Spec => []LoadedOnce
<1>1. Inv => LoadedOnce
  BY DEF Inv, UniqueOK, LoadedOnce, IsNormal
<1> QED
  BY <1>1, AlwaysInv, PTL DEF Spec

\* convertModuleName, js_find_loaded_module: every import also leads to the file
\* that its path denotes, for all worlds on whose paths convertModuleName does
\* what Resolves says.  js_resolve_module looks up and loads the converted name
\* and no other, and what it stored is not overwritten when records are freed.
THEOREM ImportsLead ==
    ASSUME NEW CONSTANT names, Resolves(names)
    PROVE  Spec => []OneRecordPerFile
<1>1. Init => NamesOK(names)
  BY DEF Init, NamesOK
<1>2. Inv /\ NamesOK(names) /\ [Next]_vars => NamesOK(names)'
  BY NamesStep
<1>3. Inv /\ NamesOK(names) => ImportsLeadToTheirFiles
  <2> SUFFICES ASSUME Inv, NamesOK(names)
               PROVE  ImportsLeadToTheirFiles
    OBVIOUS
  <2>1. ASSUME NEW m \in DOMAIN defs, NEW i \in DOMAIN module[m], module[m][i] # NoDef,
               NEW name, NEW base, NEW path,
               name = defs[module[m][i]].module_name, base = defs[m].module_name,
               path = Requested(m)[i]
        PROVE  /\ ~IsDotted(base) => File(name) = Imported(base, path)
               /\ IsNormal(base) /\ IsTidy(path) => IsNormal(name)
    <3>1. RequestOK(m, i) /\ DOMAIN module[m] = DOMAIN Requested(m)
      BY <2>1 DEF Inv, RecordsOK
    <3>2. name = convertModuleName(base, path) /\ name # Throws
      BY <3>1, <2>1 DEF RequestOK
    <3>3. scripts \in Worlds /\ base \in names[scripts] \cup Entries /\ File(base) \in DOMAIN scripts
      BY <2>1 DEF Inv, RecordsOK, NamesOK
    <3>4. path \in Range(scripts[File(base)])
      BY <2>1, <3>1 DEF Requested, Range
    <3> QED
      BY <3>2, <3>3, <3>4 DEF Resolves
  <2> QED
    BY <2>1 DEF ImportsLeadToTheirFiles
<1> QED
  BY <1>1, <1>2, <1>3, AlwaysInv, FilesAreLoadedOnce, PTL DEF Spec, OneRecordPerFile
==============================================================================
