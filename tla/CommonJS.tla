------------------------------ MODULE CommonJS ------------------------------
(***************************************************************************)
(* CommonJSModule: require executes a module's script, in a function that  *)
(* returns its module object, and keeps the object in the map modules once *)
(* the script has ended.  Everything happens on the runtime's own thread:  *)
(* executeModule is called outside of any script, require by scripts.      *)
(*                                                                         *)
(* require finds the name of the requiring module in module.filename of    *)
(* its receiver.  A plain call has no receiver, and filename is set only   *)
(* after the script has ended: every path is converted without a base.     *)
(***************************************************************************)
EXTENDS ModuleNames, FiniteSets

CONSTANTS
    Scripts,    \* the paths that the script of each file may require
    EntryNames, \* the names that Java executes; Empty stands for null, given to
                \* executeModuleScript with a script of its own
    MaxRuns,    \* bound on the number of scripts that are executed
    MaxDepth    \* how deep scripts nest before the engine's stack overflows

ASSUME CommonJSAssumption ==
    /\ MaxRuns \in Nat
    /\ MaxDepth \in Nat \ {0}

VARIABLES
    runs,       \* (history) the scripts executed: name, path, has it ended well?
    modules,    \* CommonJSModule.modules: the run whose module each name has
    active,     \* the runs in progress, innermost last
    failing,    \* those among them in which an exception is pending
    got,        \* (history) the runs whose exports require returned
    closed      \* is the context closed?

commonJSVars == <<runs, modules, active, failing, got, closed>>

CommonJSInit ==
    /\ runs = << >>
    /\ modules = << >>
    /\ active = << >>
    /\ failing = {}
    /\ got = {}
    /\ closed = FALSE

Java == << >>   \* the path of a run that Java started
Current == Last(active)

-----------------------------------------------------------------------------

\* There is a script, and a name to keep its module under: executeModuleScript
\* converts the name again.
IsExecutable(name) ==
    /\ File(name) \in DOMAIN Scripts
    /\ convertModuleName(Empty, name) # Throws

\* executeModule, executeModuleScript as far as the script
Execute(name, path) ==
    /\ Len(runs) < MaxRuns
    /\ runs' = Append(runs, [name |-> name, path |-> path, ended |-> FALSE])
    /\ active' = Append(active, Len(runs) + 1)

ExecuteModuleScript(name) ==
    /\ active = << >>
    /\ ~closed
    /\ IsExecutable(name)
    /\ Execute(name, Java)
    /\ UNCHANGED <<modules, failing, got, closed>>

\* A script goes on after the require that threw, but what it calls in Java
\* next finds the exception pending, so it requires nothing more.
Requires(path) ==
    /\ active # << >>
    /\ Current \notin failing
    /\ path \in Scripts[File(runs[Current].name)]

\* The path is converted before it is looked up.
RequireCached(path) ==
    /\ Requires(path)
    /\ convertModuleName(Empty, path) # Throws
    /\ path \in DOMAIN modules
    /\ got' = got \cup {modules[path]}
    /\ UNCHANGED <<runs, modules, active, failing, closed>>

HasScript(path) ==
    LET name == convertModuleName(Empty, path)
    IN  name # Throws /\ IsExecutable(name)

RequireExecutes(path) ==
    /\ Requires(path)
    /\ path \notin DOMAIN modules
    /\ HasScript(path)
    /\ Len(active) < MaxDepth
    /\ Execute(convertModuleName(Empty, path), path)
    /\ UNCHANGED <<modules, failing, got, closed>>

\* There is no script, the conversion throws, or the stack is exhausted.
RequireThrows(path) ==
    /\ Requires(path)
    /\ \/ convertModuleName(Empty, path) = Throws
       \/ path \notin DOMAIN modules /\ (HasScript(path) => Len(active) >= MaxDepth)
    /\ failing' = failing \cup {Current}
    /\ UNCHANGED <<runs, modules, active, got, closed>>

\* The name under which the module of a run is kept.
Key(r) == convertModuleName(Empty, runs[r].name)

\* Java gave null for the name.
IsAnonymous(r) == runs[r].name = Empty /\ runs[r].path = Java

\* modules.put
Put(key, r) == [k \in DOMAIN modules \cup {key} |-> IF k = key THEN r ELSE modules[k]]

\* Mutant: the module is kept under the name it was executed with.
ScriptEndsUnconverted ==
    /\ active # << >>
    /\ Current \notin failing
    /\ modules' = IF IsAnonymous(Current) THEN modules ELSE Put(runs[Current].name, Current)
    /\ runs' = [runs EXCEPT ![Current].ended = TRUE]
    /\ active' = Front(active)
    /\ got' = IF runs[Current].path = Java THEN got ELSE got \cup {Current}
    /\ UNCHANGED <<failing, closed>>

\* The innermost script ends.  Its module is kept under its name, if it has
\* one, and returned to whoever required it.
ScriptEnds ==
    /\ active # << >>
    /\ Current \notin failing
    /\ modules' = IF IsAnonymous(Current) THEN modules ELSE Put(Key(Current), Current)
    /\ runs' = [runs EXCEPT ![Current].ended = TRUE]
    /\ active' = Front(active)
    /\ got' = IF runs[Current].path = Java THEN got ELSE got \cup {Current}
    /\ UNCHANGED <<failing, closed>>

\* The innermost script throws, or a require of its has thrown: executeScript
\* throws, and so does the require that called it.
ScriptThrows ==
    /\ active # << >>
    /\ active' = Front(active)
    /\ failing' = (failing \ {Current}) \cup
                    (IF Len(active) > 1 THEN {active[Len(active) - 1]} ELSE {})
    /\ UNCHANGED <<runs, modules, got, closed>>

CloseModules ==
    /\ active = << >>
    /\ ~closed
    /\ modules' = << >>
    /\ closed' = TRUE
    /\ UNCHANGED <<runs, active, failing, got>>

CommonJSNext ==
    \/ \E name \in EntryNames : ExecuteModuleScript(name)
    \/ \E path \in UNION {Scripts[f] : f \in DOMAIN Scripts} :
         RequireCached(path) \/ RequireExecutes(path) \/ RequireThrows(path)
    \/ ScriptEnds
    \/ ScriptThrows
    \/ CloseModules

CommonJSSpec == CommonJSInit /\ [][CommonJSNext]_commonJSVars

-----------------------------------------------------------------------------
(***************************************************************************)
(* Properties.                                                             *)
(***************************************************************************)

\* The files that a file requires, and those it requires directly or through
\* others: the smallest set that has the former and is closed under requiring.
RequiredBy(file) ==
    {File(convertModuleName(Empty, p)) : p \in {q \in Scripts[file] : HasScript(q)}}

RequiredFrom(file) ==
    {f \in DOMAIN Scripts :
       \A S \in SUBSET DOMAIN Scripts :
          RequiredBy(file) \cup UNION {RequiredBy(g) : g \in S} \subseteq S => f \in S}

\* require gives scripts a module whose script has ended, and gives all of them
\* the same module of a name, except that one is executed again by Java, or by
\* a require with another path than the name it is kept under (the map is read
\* with the path and written with the name), or because its script, which is
\* kept only when it has ended, requires itself through others.
RequireSharesModules ==
    /\ \A r \in got : runs[r].ended
    /\ \A q, r \in got :
         q < r /\ Key(q) = Key(r) =>
            \/ runs[r].path # Key(r)
            \/ File(runs[r].name) \in RequiredFrom(File(runs[q].name))
==============================================================================
