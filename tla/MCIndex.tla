------------------------------ MODULE MCIndex ------------------------------
(* Three files and three texts for Index: a class that two files declare   *)
(* with the same base, bodies away from their declaration, a proc that     *)
(* several files define, imports that overlap in another order, and a text *)
(* whose analysis panics when it is that of a page.                        *)
EXTENDS Index

CONSTANTS a, b, page,                 \* two .tcl files and a .rvt page
          declares, inherits, bodies  \* the texts

MCFiles     == {a, b, page}
MCFileOrder == <<a, b, page>>
MCContents  == {declares, inherits, bodies}

MCNames      == {"Base", "Derived", "run", "run@page", "mode"}
MCClasses    == {"Base", "Derived"}
MCNamespaces == {"app"}
MCRefs       == {"call"}
MCPositions  == 1..2

Site(kind, name, class, pos) == [kind |-> kind, name |-> name, class |-> class, pos |-> pos]

\* A page keeps its procs to itself: ::request::run for ::run.  A panic leaves
\* a file that contributes nothing.
MCAnalysis(f, c) ==
  CASE f = page /\ c = inherits -> EmptyUnit
    [] c = declares ->
         [EmptyUnit EXCEPT
            !.defs = {Site("class", "Derived", NoClass, 1), Site("method", "run", "Derived", 2),
                      Site("ivar", "mode", "Derived", 2)},
            !.bases["Derived"] = {"Base"},
            !.imports["app"] = <<"run", "mode">>]
    [] c = inherits ->
         [EmptyUnit EXCEPT
            !.defs = {Site("class", "Derived", NoClass, 1), Site("nsvar", "mode", NoClass, 2)},
            !.bases["Derived"] = {"Base"},
            !.refs = {"call"}]
    [] OTHER ->
         [EmptyUnit EXCEPT
            !.defs = {Site("method", "run", "Derived", 1), Site("method", "run", "Derived", 2),
                      Site("proc", IF f = page THEN "run@page" ELSE "run", NoClass, 1),
                      Site("class", "Base", NoClass, 2), Site("local", "mode", NoClass, 1)},
            !.path["app"] = <<"app">>,
            !.imports["app"] = <<"mode", "run">>]
=============================================================================
