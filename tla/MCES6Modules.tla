---------------------------- MODULE MCES6Modules ----------------------------
(***************************************************************************)
(* A TLC instance of ES6Modules.                                           *)
(***************************************************************************)
EXTENDS ES6Modules

Here(f) == <<".", f>>

\* One file imported by three different paths, below a directory and above it,
\* and a file of the same name that nothing imports.
Shared ==
    <<"m">> :> <<Here("a"), <<"lib", "b">>>>
    @@ <<"a">> :> << >>
    @@ <<"lib", "b">> :> <<<<"..", "a">>, <<".", "..", "lib", "", "c">>>>
    @@ <<"lib", "c">> :> <<<<"..", "a">>>>
    @@ <<"lib", "a">> :> << >>

\* Modules that import each other, the first with an import more: of a module
\* that is there, and of one that is not.
Cycle(f) ==
    <<"m">> :> <<Here("a"), Here(f)>>
    @@ <<"a">> :> <<Here("m")>>
    @@ <<"c">> :> << >>
    @@ <<"n">> :> <<Here("a")>>

\* A module that cannot be loaded, with an import it shares with others.
Missing ==
    << >> :> <<<<"c">>>>
    @@ <<"c">> :> <<Here("a")>>
    @@ <<"m">> :> <<Here("a"), Here("x")>>
    @@ <<"a">> :> << >>

\* Absolute names, and a path that leaves the root.
Absolute ==
    << >> :> <<<<"", "m">>, <<"n">>>>
    @@ <<"m">> :> <<Here("a"), <<"", "a">>>>
    @@ <<"a">> :> << >>
    @@ <<"n">> :> <<<<"..", "..", "a">>>>

\* A chain of imports, the middle of which can be executed while the module at
\* its end is being evaluated.
Chain ==
    << >> :> <<<<"n">>>>
    @@ <<"n">> :> <<Here("m")>>
    @@ <<"m">> :> <<Here("a")>>
    @@ <<"a">> :> << >>

\* Paths with dots that are not in front, which the conversion leaves there.
Dots ==
    <<"m">> :> <<Here("a"), <<"lib", "..", "a">>, <<".", ".", "a">>>>
    @@ <<"a">> :> <<<<"..", "c">>>>
    @@ <<"c">> :> << >>
    @@ <<"lib", "c">> :> << >>

TheWorlds == {Shared, Cycle("c"), Cycle("x"), Missing, Absolute, Chain, Dots}
TheEntries == {Empty, <<"m">>, <<"n">>, <<"a">>}

\* The names that the imports of these files are converted to: the conversion
\* does for them what the theorem about OneRecordPerFile assumes.
TheNames ==
    [w \in TheWorlds |->
       LET paths == IF w = Dots
                    THEN {<<"a">>, <<"lib", "..", "a">>, <<".", "a">>, <<"c">>, <<"lib", "c">>}
                    ELSE {<<f>> : f \in {"a", "c", "m", "n", "x"}}
                           \cup {<<"lib", f>> : f \in {"b", "c"}}
       IN  paths \cup {<<"">> \o p : p \in paths} \cup {<<"", "">> \o p : p \in paths}]

ASSUME ConversionAssumption == Resolves(TheNames)
=============================================================================
