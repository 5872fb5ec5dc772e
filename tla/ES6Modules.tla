----------------------------- MODULE ES6Modules -----------------------------
(***************************************************************************)
(* ES6Module and the module records of the engine.  executeModule compiles *)
(* a module, which loads what it imports through getModuleScript, links    *)
(* the records and evaluates them, imports first.  A module's body may     *)
(* call a Java callback that executes another module of the same context.  *)
(*                                                                         *)
(* The recursion of the engine's functions is a stack of frames.  Records  *)
(* are numbered in the order of their creation and no number is used       *)
(* again, so that a use of a freed record can be told.                     *)
(***************************************************************************)
EXTENDS ModuleNames, FiniteSets

CONSTANTS
    Worlds,     \* the scripts that getModuleScript may find: for each file that
                \* exists and compiles, the paths it imports
    Entries,    \* the names that Java code executes
    MaxDefs     \* bound on the number of module records

ASSUME ES6ModulesAssumption ==
    /\ MaxDefs \in Nat
    /\ \A world \in Worlds : \A file \in DOMAIN world :
          Len(world[file]) \in Nat /\ DOMAIN world[file] = 1 .. Len(world[file])

VARIABLES
    scripts,        \* the world of this behaviour
    defs,           \* every JSModuleDef ever created: its name, does Java execute it?
    module,         \* their requests: the record that answers each
    loaded_modules, \* the records that exist; the list has them in their order
    instantiated,   \* the records with this flag, and with the next three
    eval_mark,
    evaluated,
    eval_has_exception,
    stack,          \* the calls in progress, innermost last
    fault,          \* the freed record that was used, and the record that led to it
    interrupted,    \* (history) the records in whose evaluation another execution
                    \* was started
    released        \* is the context closed?

flags == <<instantiated, eval_mark, evaluated, eval_has_exception>>
records == <<scripts, defs, module>>
vars == <<records, flags, loaded_modules, stack, fault, interrupted, released>>

NoDef == 0
None == [by |-> NoDef, of |-> NoDef]

\* A call of op for record m, at its request i; the execution it belongs to
\* began with the call at position root.
Frame(op, m, root) == [op |-> op, m |-> m, i |-> 1, root |-> root]

Init ==
    /\ scripts \in Worlds
    /\ defs = << >>
    /\ module = << >>
    /\ loaded_modules = {}
    /\ instantiated = {} /\ eval_mark = {}
    /\ evaluated = {} /\ eval_has_exception = {}
    /\ stack = << >>
    /\ fault = None
    /\ interrupted = {}
    /\ released = FALSE

Top == Last(stack)
Requested(m) == scripts[File(defs[m].module_name)]

\* The records of the innermost execution, and of the others.
Frames == {stack[k].m : k \in Top.root .. Len(stack)}
Outer == {stack[k].m : k \in 1 .. Top.root - 1}

\* js_new_module_def, and resolved = TRUE at the start of js_resolve_module:
\* nothing happens between the two but the parsing of the script, which fills
\* in the requests.
NewModuleDef(name, executed) ==
    /\ Len(defs) < MaxDefs
    /\ defs' = Append(defs, [module_name |-> name, executed |-> executed])
    /\ module' = Append(module, [i \in DOMAIN scripts[File(name)] |-> NoDef])
    /\ loaded_modules' = loaded_modules \cup {Len(defs) + 1}
    /\ UNCHANGED <<scripts, flags, fault, released>>

\* js_free_module_def for the records S: they leave the list.
FreeDefs(S) ==
    /\ loaded_modules' = loaded_modules \ S
    /\ UNCHANGED <<records, fault, interrupted>>

\* js_free_modules with JS_FREE_MODULE_NOT_EVALUATED
FreeNotEvaluated(done) == FreeDefs(loaded_modules \ done)

\* Record m, to which record by led, is read or written although it was freed:
\* undefined behaviour, where the model stops.
Fault(by, m) ==
    /\ m \notin loaded_modules
    /\ fault' = [by |-> by, of |-> m]
    /\ UNCHANGED <<records, flags, loaded_modules, stack, interrupted, released>>

Running == fault = None /\ stack # << >>

-----------------------------------------------------------------------------
(***************************************************************************)
(* executeModule: Java calls it outside of any script or from a callback   *)
(* of the body that is running.                                            *)
(***************************************************************************)

\* Without a script getModuleScript returns null and Java throws.
ExecuteModule(name) ==
    /\ fault = None
    /\ ~released
    /\ stack # << >> => Top.op = "body" /\ Top.m \in loaded_modules
    /\ File(name) \in DOMAIN scripts
    /\ NewModuleDef(name, TRUE)
    /\ stack' = Append(stack, Frame("resolve", Len(defs) + 1, Len(stack) + 1))
    /\ interrupted' = interrupted \cup {stack[k].m : k \in DOMAIN stack}

-----------------------------------------------------------------------------
(***************************************************************************)
(* js_resolve_module: the frame's record m loads what it imports.          *)
(***************************************************************************)

Path == Requested(Top.m)[Top.i]
Name == convertModuleName(defs[Top.m].module_name, Path)

\* Mutant: the name is looked up as the script has it.
FoundUnconverted == {m \in loaded_modules : defs[m].module_name = Path}

\* The records among which js_find_loaded_module finds the first.
Found == {m \in loaded_modules : defs[m].module_name = Name}

\* The request at which frame k stands is answered with record m.
Answer(k, m) ==
    /\ stack' = [SubSeq(stack, 1, k) EXCEPT ![k].i = @ + 1]
    /\ module' = [module EXCEPT ![stack[k].m][stack[k].i] = m]

Resolving == Running /\ Top.op = "resolve"
Requesting == Resolving /\ Top.i <= Len(Requested(Top.m))

ResolveLoaded ==
    /\ Requesting
    /\ Name # Throws
    /\ \E m \in Found : (\A k \in Found : m <= k) /\ Answer(Len(stack), m)
    /\ UNCHANGED <<scripts, defs, flags, loaded_modules, fault, interrupted, released>>

\* _JSModuleLoaderFunc compiles the module, which resolves it in turn.
ResolveLoads ==
    /\ Requesting
    /\ Name # Throws
    /\ Found = {}
    /\ File(Name) \in DOMAIN scripts
    /\ NewModuleDef(Name, FALSE)
    /\ stack' = Append(stack, Frame("resolve", Len(defs) + 1, Top.root))
    /\ UNCHANGED interrupted

Requests(m) == Range(module[m])

\* Mutant: what the records had loaded is freed too, whoever else requests it.
ResolveFailsWithRequests ==
    /\ Requesting
    /\ Name # Throws => Found = {} /\ File(Name) \notin DOMAIN scripts
    /\ FreeDefs(Frames \cup UNION {Requests(m) : m \in Frames})
    /\ stack' = SubSeq(stack, 1, Top.root - 1)
    /\ UNCHANGED <<flags, released>>

\* There is no script, it does not compile or the name has no conversion: every
\* record on the way to the request is freed, none of what they had loaded.
ResolveFails ==
    /\ Requesting
    /\ Name # Throws => Found = {} /\ File(Name) \notin DOMAIN scripts
    /\ FreeDefs(Frames)
    /\ stack' = SubSeq(stack, 1, Top.root - 1)
    /\ UNCHANGED <<flags, released>>

\* A record that was loaded is the answer to its importer's request; the one
\* that Java executes is linked next.
ResolveDone ==
    /\ Resolving
    /\ Top.i > Len(Requested(Top.m))
    /\ IF Top.root = Len(stack)
         THEN /\ stack' = Append(Front(stack), Frame("link", Top.m, Top.root))
              /\ UNCHANGED module
         ELSE Answer(Len(stack) - 1, Top.m)
    /\ UNCHANGED <<scripts, defs, flags, loaded_modules, fault, interrupted, released>>

-----------------------------------------------------------------------------
(***************************************************************************)
(* js_create_module_function and js_link_module, which go through the      *)
(* records that m imports as far as they have not been linked before.      *)
(***************************************************************************)

\* What is reached from m by the requests of the records in through: the
\* smallest set that has m and is closed under these.
Reach(m, through) ==
    LET all == DOMAIN defs \cup {NoDef}
    IN  {k \in all : \A S \in SUBSET all :
           {m} \cup UNION {Requests(j) : j \in S \cap through} \subseteq S => k \in S}

Linking == Reach(Top.m, loaded_modules \ instantiated)

\* A freed record is met on the way, or behind a record that was linked before
\* and exports again what it imports (js_resolve_export).
LinkFault ==
    /\ Running
    /\ Top.op = "link"
    /\ \E k \in Reach(Top.m, loaded_modules) \cap loaded_modules :
         \E m \in Requests(k) : Fault(k, m)

LinkDone ==
    /\ Running
    /\ Top.op = "link"
    /\ Linking \subseteq loaded_modules
    /\ instantiated' = instantiated \cup Linking
    /\ eval_mark' = eval_mark \cup {Top.m}
    /\ stack' = Append(Front(stack), Frame("evaluate", Top.m, Top.root))
    /\ UNCHANGED <<records, evaluated, eval_has_exception, loaded_modules, fault,
                   interrupted, released>>

\* An import that the other module does not export.
LinkFails ==
    /\ Running
    /\ Top.op = "link"
    /\ Linking \subseteq loaded_modules
    /\ Requests(Top.m) # {}
    /\ FreeNotEvaluated(evaluated)
    /\ stack' = Front(stack)
    /\ UNCHANGED <<flags, released>>

-----------------------------------------------------------------------------
(***************************************************************************)
(* js_evaluate_module: what the frame's record imports, then its body.     *)
(***************************************************************************)

\* The frames of the execution return with an exception, unmarking their
\* records, and JS_EvalFunctionInternal frees what is not evaluated.
EvaluationFails(done) ==
    /\ eval_mark' = eval_mark \ Frames
    /\ FreeNotEvaluated(done)
    /\ stack' = SubSeq(stack, 1, Top.root - 1)
    /\ UNCHANGED <<instantiated, released>>

Evaluating == Running /\ Top.op = "evaluate"
EvaluatingRequest == Evaluating /\ Top.i <= Len(module[Top.m])
Request == module[Top.m][Top.i]

\* Mutant: the exception of a module that was evaluated before is forgotten.
EvaluateRequestForgiving ==
    /\ EvaluatingRequest
    /\ IF Request \notin eval_mark \cup evaluated
         THEN /\ eval_mark' = eval_mark \cup {Request}
              /\ stack' = Append(stack, Frame("evaluate", Request, Top.root))
         ELSE /\ stack' = [stack EXCEPT ![Len(stack)].i = @ + 1]
              /\ UNCHANGED eval_mark
    /\ UNCHANGED <<records, instantiated, evaluated, eval_has_exception, loaded_modules,
                   fault, interrupted, released>>

EvaluateRequest ==
    /\ EvaluatingRequest
    /\ \/ /\ Request \in (evaluated \cap eval_has_exception) \ eval_mark
          /\ EvaluationFails(evaluated)
       \/ /\ Request \notin eval_mark \cup evaluated
          /\ eval_mark' = eval_mark \cup {Request}
          /\ stack' = Append(stack, Frame("evaluate", Request, Top.root))
          /\ UNCHANGED <<records, instantiated, loaded_modules, fault, interrupted, released>>
       \/ /\ Request \in eval_mark \cup (evaluated \ eval_has_exception)
          /\ stack' = [stack EXCEPT ![Len(stack)].i = @ + 1]
          /\ UNCHANGED <<records, instantiated, eval_mark, loaded_modules, fault,
                         interrupted, released>>
    /\ UNCHANGED <<evaluated, eval_has_exception>>

EvaluateBody ==
    /\ Evaluating
    /\ Top.i > Len(module[Top.m])
    /\ stack' = [stack EXCEPT ![Len(stack)].op = "body"]
    /\ UNCHANGED <<records, flags, loaded_modules, fault, interrupted, released>>

InBody == Running /\ Top.op = "body"

BodyReturns ==
    /\ InBody
    /\ Top.m \in loaded_modules
    /\ evaluated' = evaluated \cup {Top.m}
    /\ eval_mark' = eval_mark \ {Top.m}
    /\ stack' = IF Top.root = Len(stack) THEN Front(stack)
                ELSE [Front(stack) EXCEPT ![Len(stack) - 1].i = @ + 1]
    /\ UNCHANGED <<records, instantiated, eval_has_exception, loaded_modules, fault,
                   interrupted, released>>

BodyThrows ==
    /\ InBody
    /\ Top.m \in loaded_modules
    /\ evaluated' = evaluated \cup {Top.m}
    /\ eval_has_exception' = eval_has_exception \cup {Top.m}
    /\ EvaluationFails(evaluated \cup {Top.m})

\* The record was freed while its body ran.
BodyFault ==
    /\ InBody
    /\ Fault(Top.m, Top.m)

\* close: JS_FreeContext frees all the records.
Close ==
    /\ fault = None
    /\ stack = << >>
    /\ ~released
    /\ released' = TRUE
    /\ FreeDefs(loaded_modules)
    /\ UNCHANGED <<flags, stack>>

Next ==
    \/ \E name \in Entries : ExecuteModule(name)
    \/ ResolveLoaded \/ ResolveLoads \/ ResolveFails \/ ResolveDone
    \/ LinkFault \/ LinkDone \/ LinkFails
    \/ EvaluateRequest \/ EvaluateBody
    \/ BodyReturns \/ BodyThrows \/ BodyFault
    \/ Close

Spec == Init /\ [][Next]_vars

-----------------------------------------------------------------------------
(***************************************************************************)
(* Properties.                                                             *)
(***************************************************************************)

\* The names that the module of a name imports, and those it imports directly
\* or through others: the smallest set that has the former and is closed under
\* importing.
Names == {defs[m].module_name : m \in DOMAIN defs}

ImportedBy(name) ==
    {convertModuleName(name, path) : path \in Range(scripts[File(name)])} \cap Names

ImportedFrom(name) ==
    {n \in Names : \A S \in SUBSET Names :
       ImportedBy(name) \cup UNION {ImportedBy(s) : s \in S} \subseteq S => n \in S}

\* Record m imports record k: records that import each other are in a cycle.
IsImportedFrom(k, m) == defs[k].module_name \in ImportedFrom(defs[m].module_name)

\* js_free_module_def leaves the requests of other records alone.  A freed
\* record is used only when the record that leads to it and the freed one
\* import each other, or when another execution was started, by a callback of
\* a body, while it was being evaluated: that execution may free it with
\* everything else that is not evaluated, or evaluate a module that imports it
\* and outlives it.  The records that js_resolve_module and js_evaluate_module
\* work on are never freed from under them, nor the ones they go on to.
NoUseOfFreed ==
    /\ fault = None \/ fault.of \in interrupted \/ IsImportedFrom(fault.by, fault.of)
    /\ Running /\ Top.op # "body" => Top.m \in loaded_modules
    /\ Evaluating => Requests(Top.m) \subseteq loaded_modules

\* js_evaluate_module: the body of a module begins when every module it imports
\* was evaluated without an exception or is itself being evaluated: further out
\* in an execution that was interrupted by this one, or in this one because the
\* two import each other.
ImportsEvaluatedFirst ==
    [][EvaluateBody =>
         \A d \in Requests(Top.m) :
            \/ d \in evaluated \ eval_has_exception
            \/ d \in Outer
            \/ d \in Frames /\ IsImportedFrom(Top.m, d)]_vars

\* An import leads to the file that its path denotes in the importing module.
ImportsLeadToTheirFiles ==
    \A m \in DOMAIN defs : \A i \in DOMAIN module[m] :
       module[m][i] # NoDef =>
          LET base == defs[m].module_name
              name == defs[module[m][i]].module_name
              path == Requested(m)[i]
          IN  /\ ~IsDotted(base) => File(name) = Imported(base, path)
              /\ IsNormal(base) /\ IsTidy(path) => IsNormal(name)

\* A file that is imported has one record with a normal name at most.
LoadedOnce ==
    \A k, m \in loaded_modules :
       /\ k # m
       /\ ~defs[k].executed /\ ~defs[m].executed
       /\ File(defs[k].module_name) = File(defs[m].module_name)
       => ~IsNormal(defs[k].module_name) \/ ~IsNormal(defs[m].module_name)

\* convertModuleName, js_find_loaded_module: an import leads to the file that
\* its path denotes in the importing module, and a file is loaded once however
\* it is imported.  It may be loaded again by the application that executes it;
\* under an absolute name, to which the importing module's leading slash is
\* added a second time; and under a name that has dots left, from a path with
\* dots that are not in front.  What a module with such a name imports may even
\* be another file.  Paths whose dots are in front give no such names.
OneRecordPerFile ==
    /\ ImportsLeadToTheirFiles
    /\ LoadedOnce

\* What OneRecordPerFile takes from convertModuleName, for sets of names that
\* have all its results, one for each world: without dots in its base a result
\* denotes the file that the path denotes, and one of a tidy path is normal.
Resolves(names) ==
    \A world \in Worlds : \A base \in names[world] \cup Entries :
       File(base) \in DOMAIN world =>
          \A path \in Range(world[File(base)]) :
             LET name == convertModuleName(base, path)
             IN  name # Throws =>
                   /\ name \in names[world]
                   /\ ~IsDotted(base) => File(name) = Imported(base, path)
                   /\ IsNormal(base) /\ IsTidy(path) => IsNormal(name)
==============================================================================
