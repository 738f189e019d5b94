----------------------------- MODULE MCResolver -----------------------------
(* A small workspace for Resolver: a .tcl file and two pages, each holding *)
(* one of a few texts.  All define a proc go that calls run; the texts     *)
(* differ in who else declares a run, and how it is reached.               *)
EXTENDS Resolver

CONSTANTS lib, first, second   \* a .tcl file and two pages

MCFiles      == {lib, first, second}
MCFileOrder  == <<first, lib, second>>
MCPages      == {first, second}
MCNamespaces == {"::", "app", "request", "request::app"}
MCRequests   == {"request", "request::app"}
MCSimple     == {"run", "go", "mode", "Base", "Derived"}
MCNames      == {<<n>> : n \in MCSimple} \cup (MCNamespaces \X MCSimple) \cup (MCNamespaces \X {"*"})
MCPositions  == 1..18

Base      == <<"::", "Base">>
Derived   == <<"::", "Derived">>
MCClasses == {Base, Derived}
MCBaseOrder(S) == SetToSeq(S)

\* No proc-locals: every use is of something the index knows.
MCBindings(f, c, r) == {}

\* The body of a page runs in ::request.
Here(f) == IF f \in MCPages THEN "request" ELSE "::"

\* What the relative name app stands for there.
App(f) == IF f \in MCPages THEN "request::app" ELSE "app"

\* run in the current namespace, in ::app, and in app by its relative name; a
\* path or an import to ::app, by name or, beside a run of its own, by pattern;
\* a class with a method run, and one that inherits from it, calls run and may
\* override it.  A namespace variable mode comes with the run in ::app, and is
\* used there by its bare name.
MCContents == {{}, {"here"}, {"app"}, {"here", "app"}, {"path"}, {"import"}, {"app", "path"},
               {"here", "glob"}, {"here", "path"}, {"base"}, {"derived"}, {"derived", "override"},
               {"here", "derived"}, {"app", "path", "derived"}, {"nested"}}

Only(condition, set) == IF condition THEN set ELSE {}
Site(kind, name, class, pos) == [kind |-> kind, name |-> name, class |-> class, pos |-> pos]
Call(name, ns, class, pos, within) ==
  [kind |-> "command", name |-> name, ns |-> ns, frame |-> IF within = 0 THEN "namespace" ELSE "proc",
   class |-> class, pos |-> pos, within |-> within]

TopCall(f)     == Call(<<"run">>, Here(f), NoClass, 3, 0)
CallInGo(f)    == Call(<<"run">>, Here(f), NoClass, 4, 7)
FullCall(f)    == Call(<<"app", "run">>, Here(f), NoClass, 6, 7)
RelativeCall(f) == Call(<<App(f), "run">>, Here(f), NoClass, 17, 7)
CallInApp      == Call(<<"run">>, "app", NoClass, 5, 2)
CallInClass(f) == Call(<<"run">>, Here(f), Derived, 9, 13)
Use(name, ns, pos) == [TopCall(lib) EXCEPT !.kind = "variable", !.name = name, !.ns = ns, !.pos = pos]
UseInApp == Use(<<"mode">>, "app", 15)
FullUse  == Use(<<"app", "mode">>, "::", 16)
MCRefs ==
  {CallInApp, UseInApp, FullUse}
    \cup UNION {{TopCall(f), CallInGo(f), FullCall(f), CallInClass(f), RelativeCall(f)} : f \in MCFiles}

MCUnit(f, c) ==
  [EmptyUnit EXCEPT
     !.defs = {Site("proc", <<Here(f), "go">>, NoClass, 7)}
                \cup Only("here" \in c, {Site("proc", <<Here(f), "run">>, NoClass, 1)})
                \cup Only("app" \in c, {Site("proc", <<"app", "run">>, NoClass, 2),
                                        Site("nsvar", <<"app", "mode">>, NoClass, 8)})
                \cup Only("nested" \in c, {Site("proc", <<App(f), "run">>, NoClass, 18)})
                \cup Only("base" \in c, {Site("class", Base, NoClass, 10), Site("method", <<"run">>, Base, 11)})
                \cup Only("derived" \in c, {Site("class", Derived, NoClass, 12),
                                            Site("method", <<"go">>, Derived, 13)})
                \cup Only("override" \in c, {Site("method", <<"run">>, Derived, 14)}),
     !.bases[Derived] = Only("derived" \in c, {Base}),
     !.refs = {TopCall(f), CallInGo(f), FullCall(f), FullUse}
                \cup Only("app" \in c, {CallInApp, UseInApp})
                \cup Only("nested" \in c, {RelativeCall(f)})
                \cup Only("derived" \in c, {CallInClass(f)}),
     !.path[Here(f)] = IF "path" \in c THEN <<"app">> ELSE << >>,
     !.imports[Here(f)] = IF "import" \in c THEN <<<<"app", "run">>>>
                          ELSE IF "glob" \in c THEN <<<<"app", "*">>>> ELSE << >>]

\* Analysed once, not at every use.
MCUnits          == [f \in MCFiles, c \in MCContents |-> MCUnit(f, c)]
MCAnalysis(f, c) == MCUnits[f, c]
=============================================================================
