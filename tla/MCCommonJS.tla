----------------------------- MODULE MCCommonJS -----------------------------
(***************************************************************************)
(* A TLC instance of CommonJS: a file required by its name and by another  *)
(* path, two files that require each other, paths that lead nowhere, and a *)
(* module kept under a name that require cannot convert.                   *)
(***************************************************************************)
EXTENDS CommonJS

TheScripts ==
    << >> :> {<<"a">>, <<".", "a">>, <<"b">>}
    @@ <<"a">> :> {<<".", "">>}
    @@ <<"b">> :> {<<"a">>, <<"c">>, <<"x">>}
    @@ <<"c">> :> {<<"b">>}

TheEntries == {Empty, <<".", "a">>, <<".", ".", "">>}
=============================================================================
