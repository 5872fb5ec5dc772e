----------------------------- MODULE ModuleNames -----------------------------
(***************************************************************************)
(* The names of modules (Module.java).  A name is the sequence of its      *)
(* segments, the strings between its slashes: "/a/b" is <<"", "a", "b">>,  *)
(* "./a" is <<".", "a">> and the empty string <<"">>.                      *)
(***************************************************************************)
EXTENDS Integers, SequencesExt

Empty == <<"">>     \* null and "", which the conversion treats alike
Throws == <<>>      \* no name: the conversion throws an exception

\* replace("//", "/"): of a run of empty segments between slashes, the first,
\* the third, ... goes.
Collapse(name) ==
    LET inner == {i \in 2 .. Len(name) - 1 : name[i] = ""}
        start(i) == Max({j \in 1 .. i - 1 : j \notin inner})
    IN  LET kept == {i \in DOMAIN name : i \in inner => (i - start(i)) % 2 = 0}
            order == SetToSortSeq(kept, <)
        IN  [k \in DOMAIN order |-> name[order[k]]]

\* if (name.startsWith("./")) name = name.substring(2)
StripDot(name) ==
    IF Len(name) > 1 /\ name[1] = "." THEN Tail(name) ELSE name

\* split("/") drops the empty strings at the end.
Split(name) ==
    SubSeq(name, 1, Max({0} \cup {i \in DOMAIN name : name[i] # ""}))

\* The number of ".." at the beginning.
Ups(path) ==
    Max({n \in 0 .. Len(path) : \A i \in 1 .. n : path[i] = ".."})

\* A relative path from the module base: one segment of the base goes for each
\* ".." and one more for its file name.  An absolute base begins with an empty
\* segment, before which another one is put.
FromBase(base, path) ==
    LET ups == Ups(path)
        parent == SubSeq(base, 1, Max({0, Len(base) - ups - 1}))
        joined == parent \o SubSeq(path, ups + 1, Len(path))
        root == IF base[1] = "" /\ Len(base) > 1 THEN <<"">> ELSE << >>
    IN  CASE ups > Len(base)                  -> Throws
          [] joined = << >> /\ root = << >>   -> Throws
          [] OTHER                            -> root \o joined

convertModuleName(moduleBaseName, moduleName) ==
    LET name == StripDot(Collapse(moduleName))
        base == StripDot(Collapse(moduleBaseName))
    IN  IF moduleName = Empty THEN moduleName
        ELSE IF name = Empty THEN Throws
        ELSE IF name[1] = "" THEN name
        ELSE IF moduleBaseName = Empty THEN name
        ELSE IF base = <<"", "">> THEN <<"">> \o name
        ELSE IF Len(base) > 1 /\ Last(base) = "" THEN Front(base) \o name
        ELSE FromBase(base, Split(name))

-----------------------------------------------------------------------------
(***************************************************************************)
(* What the names mean: the file a name denotes, as the segments that lead *)
(* to it from the root, and the file that a path denotes in a module.      *)
(***************************************************************************)

Step(file, segment) ==
    CASE segment \in {"", "."} -> file
      [] segment = ".."        -> IF file = << >> THEN file ELSE Front(file)
      [] OTHER                 -> Append(file, segment)

File(name) == FoldLeft(Step, << >>, name)

IsAbsolute(name) == Len(name) > 1 /\ name[1] = ""

Imported(base, path) ==
    File(IF IsAbsolute(path) THEN path ELSE Front(base) \o path)

\* A name in which dots are left, and one that is the way to its file.
IsDotted(name) == Range(name) \cap {".", ".."} # {}
IsNormal(name) == File(name) = name

\* A path whose dots are all in front.
IsTidy(path) ==
    LET p == StripDot(Collapse(path))
    IN  IsNormal(SubSeq(p, Ups(p) + 1, Len(p)))
==============================================================================
