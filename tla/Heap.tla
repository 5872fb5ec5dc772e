-------------------------------- MODULE Heap --------------------------------
(***************************************************************************)
(* The memory of the engine (quickjs.c): reference counts, the freeing of  *)
(* what nobody refers to any more, and JS_RunGC, which finds the cycles    *)
(* that the counts cannot.  The nodes are JavaScript objects and one       *)
(* context, a GC object of its own: functions refer to it (their realm),   *)
(* and it refers to the global object.  The functions of the library,      *)
(* which the global object refers to, are taken together with it: it       *)
(* refers to the context itself, and to itself as globalThis.              *)
(*                                                                         *)
(* The lists gc_obj_list, tmp_obj_list and gc_zero_ref_count_list are      *)
(* sets; a loop over one takes its elements in any order, one per step.    *)
(***************************************************************************)
EXTENDS Integers, Sequences, FiniteSets

CONSTANTS
    Objects,    \* the addresses that JavaScript objects can have
    Classes,    \* the classes of objects that are allocated at each address
    Global,     \* ctx->global_obj
    Ctx,        \* the JSContext
    Keys,       \* names of properties
    Null        \* no object: a field that is free, or a value without counts

Nodes == Objects \cup {Ctx}

\* "internal" stands for the fields a script cannot assign.
Slots == Keys \cup {"internal", "globalThis"}

ASSUME HeapAssumption ==
    /\ Classes \in [Objects -> SUBSET {"object", "function", "error"}]
    /\ Global \in Objects
    /\ Ctx \notin Objects
    /\ Null \notin Nodes
    /\ Keys \cap {"internal", "globalThis"} = {}
    /\ IsFiniteSet(Objects) /\ IsFiniteSet(Keys)

VARIABLES
    ref,        \* header.ref_count of each node
    class,      \* class_id of each object
    fields,     \* what each node refers to
    list,       \* the list each node is on
    phase,      \* the loop the engine is in
    todo        \* the nodes that the loop of gc_scan has not yet come to

heapVars == <<ref, class, fields, list, phase, todo>>

\* "live": gc_obj_list, "tmp": tmp_obj_list, "zero": gc_zero_ref_count_list,
\* "none": not allocated.
Lists == {"none", "live", "tmp", "zero"}
Phases == {"run", "zero", "scan", "cycles"}

On(l) == {n \in Nodes : list[n] = l}

NoFields == [s \in Slots |-> Null]

\* JS_NewContext: ctx->global_obj, and the properties of the global object,
\* which are the functions of the library, with their realm, and globalThis.
InitialFields ==
    [n \in Nodes |->
       CASE n = Ctx -> [NoFields EXCEPT !["internal"] = Global]
         [] n = Global -> [NoFields EXCEPT !["internal"] = Ctx, !["globalThis"] = Global]
         [] OTHER -> NoFields]

\* The counts are those of these fields, of the reference that JS_NewContext
\* returns, and of the one _getGlobalObject adds for the Java context.
HeapInit ==
    /\ ref = [n \in Nodes |-> CASE n = Ctx -> 2 [] n = Global -> 3 [] OTHER -> 0]
    /\ class = [o \in Objects |-> "object"]
    /\ fields = InitialFields
    /\ list = [n \in Nodes |-> IF n \in {Ctx, Global} THEN "live" ELSE "none"]
    /\ phase = "run"
    /\ todo = {}

-----------------------------------------------------------------------------
(***************************************************************************)
(* Counting.                                                               *)
(***************************************************************************)

\* How often node n refers to node c; mark_children visits c as often.
Edges(n, c) == Cardinality({s \in Slots : fields[n][s] = c})

\* JS_DupValue and JS_DupContext.
Dup(r, v) == IF v = Null THEN r ELSE [r EXCEPT ![v] = @ + 1]

\* The counts after one reference to each of vals is given up.
Less(r, vals) ==
    [n \in Nodes |-> r[n] - Cardinality({i \in DOMAIN vals : vals[i] = n})]

\* The counts after the fields of n are freed.
LessFields(r, n) == [c \in Nodes |-> r[c] - Edges(n, c)]

\* JS_FreeContext when the count of the context reaches zero.
CtxDies(r) == list[Ctx] # "none" /\ r[Ctx] <= 0

\* A function refers to the context and is freed: the count of the context
\* may reach zero as well, and what it refers to loses a reference in turn.
Settle(r) == IF CtxDies(r) THEN LessFields(r, Ctx) ELSE r

\* JS_FreeValue of each of vals, r being the counts, fl the fields and l the
\* lists that the caller has brought up to date: what reaches zero goes to
\* gc_zero_ref_count_list and free_zero_refcount begins.
FreeValues(r, fl, l, vals) ==
    LET r1 == Less(r, vals)
        r2 == Settle(r1)
        zero == {o \in Objects : l[o] = "live" /\ r2[o] <= 0}
    IN  /\ ref' = r2
        /\ fields' = IF CtxDies(r1) THEN [fl EXCEPT ![Ctx] = NoFields] ELSE fl
        /\ list' = [n \in Nodes |-> CASE n \in zero -> "zero"
                                      [] n = Ctx /\ CtxDies(r1) -> "none"
                                      [] OTHER -> l[n]]
        /\ phase' = IF zero = {} THEN "run" ELSE "zero"
        /\ UNCHANGED todo

\* JS_NewObjectFromShape: the object is on gc_obj_list with one reference.  A
\* function of a script or of JS_NewCFunctionMagic refers to its realm, one of
\* JS_NewCFunctionData does not.
Realms(c) == IF c = "function" THEN {Null, Ctx} ELSE {Null}
Allocate(o, c) ==
    /\ list[o] = "none"
    /\ c \in Classes[o]
    /\ class' = [class EXCEPT ![o] = c]
AllocatedRef(o, realm) == Dup([ref EXCEPT ![o] = 1], realm)
AllocatedFields(o, realm) == [fields EXCEPT ![o]["internal"] = realm]
AllocatedList(o) == [list EXCEPT ![o] = "live"]

\* free_object empties the fields, gives up the references in them and takes
\* the object off its list.
FreeFields(o) ==
    LET r1 == LessFields(ref, o)
    IN  /\ ref' = Settle(r1)
        /\ fields' = [fields EXCEPT ![o] = NoFields,
                                    ![Ctx] = IF CtxDies(r1) THEN NoFields ELSE @]

-----------------------------------------------------------------------------
(***************************************************************************)
(* free_zero_refcount.                                                     *)
(***************************************************************************)

\* One turn of the loop: what the object referred to may reach zero and join
\* the list.
FreeZero(o) ==
    /\ phase = "zero"
    /\ o \in On("zero")
    /\ FreeFields(o)
    /\ list' = [n \in Nodes |->
                  CASE n = o -> "none"
                    [] n = Ctx /\ CtxDies(LessFields(ref, o)) -> "none"
                    [] n \in Objects \ {o} /\ list[n] = "live" /\ ref'[n] <= 0 -> "zero"
                    [] OTHER -> list[n]]
    /\ class' = [class EXCEPT ![o] = "object"]
    /\ UNCHANGED <<phase, todo>>

FreeZeroDone ==
    /\ phase = "zero"
    /\ On("zero") = {}
    /\ phase' = "run"
    /\ UNCHANGED <<ref, class, fields, list, todo>>

-----------------------------------------------------------------------------
(***************************************************************************)
(* JS_RunGC: gc_decref, gc_scan, gc_free_cycles.                           *)
(***************************************************************************)

\* The references to node c that the nodes of S have.
FieldsIn(S, c) == Cardinality({e \in S \X Slots : fields[e[1]][e[2]] = c})

\* gc_decref: every node takes one off the count of what it refers to, and
\* the nodes whose counts reach zero move to tmp_obj_list.  The turns of this
\* loop commute.
GcDecref ==
    /\ phase = "run"
    /\ phase' = "scan"
    /\ ref' = [c \in Nodes |-> ref[c] - FieldsIn(On("live"), c)]
    /\ list' = [n \in Nodes |-> IF list[n] = "live" /\ ref'[n] = 0 THEN "tmp" ELSE list[n]]
    /\ todo' = {n \in On("live") : ref'[n] # 0}
    /\ UNCHANGED <<class, fields>>

\* Mutant: a child that is saved is not visited in turn.
GcScanShallow(p) ==
    LET saved == {c \in Nodes : ref[c] = 0 /\ Edges(p, c) > 0}
    IN  /\ phase = "scan"
        /\ p \in todo
        /\ ref' = [c \in Nodes |-> ref[c] + Edges(p, c)]
        /\ list' = [n \in Nodes |-> IF n \in saved THEN "live" ELSE list[n]]
        /\ todo' = todo \ {p}
        /\ UNCHANGED <<class, fields, phase>>

\* The first loop of gc_scan, mark_children(p, gc_scan_incref_child): a child
\* whose count was zero moves to the end of gc_obj_list, where the loop will
\* come to it.
GcScan(p) ==
    LET saved == {c \in Nodes : ref[c] = 0 /\ Edges(p, c) > 0}
    IN  /\ phase = "scan"
        /\ p \in todo
        /\ ref' = [c \in Nodes |-> ref[c] + Edges(p, c)]
        /\ list' = [n \in Nodes |-> IF n \in saved THEN "live" ELSE list[n]]
        /\ todo' = (todo \ {p}) \cup saved
        /\ UNCHANGED <<class, fields, phase>>

\* The second loop, which gives back what the nodes to be freed took from the
\* counts of others; its turns commute.
GcScanDone ==
    /\ phase = "scan"
    /\ todo = {}
    /\ phase' = "cycles"
    /\ ref' = [c \in Nodes |-> ref[c] + FieldsIn(On("tmp"), c)]
    /\ UNCHANGED <<class, fields, list, todo>>

\* Mutant: the memory of an object is given back at once.
GcFreeAtOnce(p) ==
    /\ phase = "cycles"
    /\ p \in On("tmp")
    /\ IF p = Ctx
         THEN /\ list' = [list EXCEPT ![p] = "zero"]
              /\ UNCHANGED <<ref, class, fields>>
         ELSE /\ FreeFields(p)
              /\ class' = [class EXCEPT ![p] = "object"]
              /\ list' = [list EXCEPT ![p] = "none",
                                      ![Ctx] = IF CtxDies(LessFields(ref, p)) THEN "none" ELSE @]
    /\ UNCHANGED <<phase, todo>>

\* gc_free_cycles: an object is freed, but its memory is kept on
\* gc_zero_ref_count_list while something in a cycle still refers to it.  The
\* context is only moved: it goes when the last function that refers to it is
\* freed, and is taken off whichever list it is on.
GcFree(p) ==
    /\ phase = "cycles"
    /\ p \in On("tmp")
    /\ IF p = Ctx
         THEN /\ list' = [list EXCEPT ![p] = "zero"]
              /\ UNCHANGED <<ref, class, fields>>
         ELSE /\ FreeFields(p)
              /\ class' = [class EXCEPT ![p] = "object"]
              /\ list' = [list EXCEPT
                            ![p] = IF ref'[p] # 0 THEN "zero" ELSE "none",
                            ![Ctx] = IF CtxDies(LessFields(ref, p)) THEN "none" ELSE @]
    /\ UNCHANGED <<phase, todo>>

\* js_free_rt of what was kept.
GcFreeDone ==
    /\ phase = "cycles"
    /\ On("tmp") = {}
    /\ phase' = "run"
    /\ list' = [n \in Nodes |-> IF list[n] = "zero" THEN "none" ELSE list[n]]
    /\ UNCHANGED <<ref, class, fields, todo>>

HeapStep ==
    \/ \E o \in Objects : FreeZero(o)
    \/ FreeZeroDone
    \/ \E p \in Nodes : GcScan(p) \/ GcFree(p)
    \/ GcScanDone \/ GcFreeDone

-----------------------------------------------------------------------------

HeapTypeOK ==
    /\ ref \in [Nodes -> Int]
    /\ class \in [Objects -> {"object", "function", "error"}]
    /\ fields \in [Nodes -> [Slots -> Nodes \cup {Null}]]
    /\ list \in [Nodes -> Lists]
    /\ phase \in Phases
    /\ todo \in SUBSET Nodes
=============================================================================
