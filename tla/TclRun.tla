------------------------------- MODULE TclRun -------------------------------
(* A Tcl interpreter runs a file, beside what TclFile finds in it without  *)
(* running it.  The interpreter is the one the code takes for granted: it  *)
(* knows which words of a command Tcl runs, in what namespace a body runs, *)
(* and that a proc may be called at any time once it is defined.           *)
EXTENDS Outline, FiniteSets

CONSTANT Sources   \* the files that may be run

VARIABLES
  file,
  found,      \* FileAll(file)
  stack,      \* the scripts that run, the innermost last
  callable,   \* the procs and methods defined so far
  paths,      \* the namespace path of every namespace that has set one
  imports,    \* what every namespace has imported
  straight,   \* so far every body ran, no declaration stood in brackets and no
              \* proc was called; paths and imports are kept up to date that long
  now         \* what the last step did

vars == <<file, found, stack, callable, paths, imports, straight, now>>

(* A script runs somewhere: its commands to do, with ns, frame, scope and  *)
(* class.  listed: it does not stand inside brackets; exact: it runs where *)
(* the text around it says.                                                *)

Nothing == [exact |-> TRUE, listed |-> TRUE, refs |-> {}, defs |-> {}, locals |-> {}, bodies |-> {}, data |-> {}]

Init ==
  /\ file \in Sources
  /\ found = FileAll(file)
  /\ stack = <<[todo |-> file, at |-> << >>, ns |-> Global, frame |-> "namespace", scope |-> << >>, class |-> NoClass,
               listed |-> TRUE, exact |-> TRUE]>>
  /\ callable = {}
  /\ paths = << >>
  /\ imports = << >>
  /\ straight = TRUE
  /\ now = Nothing

----------------------------------------------------------------------------
(* Tcl: the words of a command.                                            *)

Expressions(c) ==
  CASE isCmd(c, "expr")  -> 2..Len(c)
    [] isCmd(c, "while") -> {2}
    [] isCmd(c, "for")   -> {3}
    [] isCmd(c, "if")    -> {i \in 2..Len(c) : IsKeyword(c[i - 1], {"if", "elseif"})}
    [] OTHER             -> {}

\* The commands in brackets that are evaluated with the command, and the
\* names of it and of the variables it substitutes.  The variables of a braced
\* expression are left out: the code takes them for no references
\* (refs.go:53-55).
Substituted(c) ==
  FlattenSeq([i \in DOMAIN c |-> Where(c[i].kind # "braced" \/ i \in Expressions(c), c[i].subst)])
Mentioned(c) ==
  {[kind |-> "command", name |-> head.text, at |-> head.at] : head \in {w \in {c[1]} : ~w.dynamic}}
    \cup UNION {{[kind |-> "variable", name |-> v, at |-> c[i].at] : v \in ToSet(c[i].vars)} :
                  i \in {j \in DOMAIN c : c[j].kind # "braced"}}

\* The words run as scripts by a command, in the order they would run.
Arms(c) ==
  CASE IsOneOf(c, {"while", "foreach", "lmap", "with_lock"}) -> {Len(c)}
    [] isCmd(c, "dict")  -> IF IsKeyword(c[2], {"for", "map"}) THEN {Len(c)} ELSE {}
    [] isCmd(c, "catch") -> {2}
    [] isCmd(c, "for")   -> {2, 4, 5}
    [] isCmd(c, "if")    -> {i \in 3..Len(c) : i - 1 \in Expressions(c) \/ IsKeyword(c[i - 1], {"else"})}
    [] isCmd(c, "try")   -> {2} \cup {i \in 3..Len(c) : IsKeyword(c[i - 1], {"finally"})}
                                \cup {i \in 6..Len(c) : IsKeyword(c[i - 3], {"on", "trap"})}
    [] OTHER -> {}
Scripts(c) ==
  IF isCmd(c, "switch") THEN LET arms == Last(c).script IN [i \in DOMAIN arms |-> arms[i][2]]
  ELSE WordsAt(c, LAMBDA i : i \in Arms(c))

----------------------------------------------------------------------------
(* The files that may be run.  Every command the walk or a bracket reaches *)
(* has the words Tcl wants of it, with names spelled out and bodies in     *)
(* braces.  Left out is beside that what the code does not follow: a body  *)
(* behind a modifier or a decorator it does not know, an arm of a switch   *)
(* whose pattern is the name of a command that takes data, a constructor   *)
(* with an init or the declaration of a method inside brackets.            *)

\* A list of variables or of parameters, which may have defaults.
IsNameList(word) ==
  \/ word.kind = "bare"
  \/ /\ word.kind = "braced"
     /\ \A e \in ToSet(FlattenSeq(word.script)) : e.kind = "bare" \/ (e.kind = "braced" /\ e.script # << >>)

\* An arm of a switch, pattern and body.  The pattern is none of the commands
\* whose last word is no body to the code, which reads the arm as a command.
IsArm(arm) ==
  /\ Len(arm) = 2 /\ Braced(arm, 2) /\ arm[1].kind = "bare"
  /\ ~IsKeyword(arm[1], dataBraceCommands \cup {"method", "constructor", "destructor", "dict", "catch", "for", "if", "try"})

\* A word without substitutions has no brackets and no variables.  Of the
\* commands with `proc` among their words only those below define one
\* (bodies.go:153-161).
HasWords(c) ==
  /\ isLiteralName(c[1]) \/ c[1].dynamic
  /\ \A w \in ToSet(c) : isLiteralName(w) => w.subst = << >> /\ w.vars = << >>
  /\ \A i \in Arms(c) : Braced(c, i)
  /\ isCmd(c, "namespace") => Len(c) > 1 /\ (IsKeyword(c[2], {"eval"}) => Len(c) = 4 /\ Braced(c, 4))
  /\ isCmd(c, "proc") => Len(c) = 4 /\ isLiteralName(c[2]) /\ IsNameList(c[3]) /\ Braced(c, 4)
  /\ isCmd(c, "CACHE_PROC") => /\ Len(c) > 4 /\ IsKeyword(c[2], {"proc"}) /\ isLiteralName(c[3])
                               /\ IsNameList(c[4]) /\ Braced(c, 5)
  /\ IsItcl(c, "class") => Len(c) = 3 /\ isLiteralName(c[2]) /\ Braced(c, 3)
  /\ IsItcl(c, "body") => Len(c) = 4 /\ isLiteralName(c[2]) /\ Front(c[2].text) \notin {<< >>, <<"">>} /\ Braced(c, 4)
  /\ IsOneOf(c, {"set", "incr", "append", "lappend"}) => Len(c) > 1 /\ IsTarget(c[2])
  /\ isCmd(c, "variable") => Len(c) > 1 /\ isLiteralName(c[2])
  /\ isCmd(c, "global") => \A i \in 2..Len(c) : isLiteralName(c[i])
  /\ isCmd(c, "upvar") => Len(c) = 4 /\ isUpvarLevel(c[2]) /\ isLiteralName(c[4])
  /\ isCmd(c, "foreach") => \A i \in 2..Len(c) - 1 : i % 2 = 0 => IsNameList(c[i])
  /\ isCmd(c, "lassign") => Len(c) > 1 /\ \A i \in 3..Len(c) : IsNameList(c[i])
  /\ isCmd(c, "dict") => Len(c) > 1 /\ (IsKeyword(c[2], {"for"}) => Len(c) = 5 /\ IsNameList(c[3]))
  /\ isCmd(c, "if") => \A i \in Expressions(c) : ~IsKeyword(c[i], {"if", "elseif"})
  /\ isCmd(c, "switch") => Len(c) > 1 /\ Braced(c, Len(c)) /\ \A arm \in ToSet(Last(c).script) : IsArm(arm)
  /\ decoratedProcDef(c) > 0 => IsOneOf(c, {"CACHE_PROC"} \cup Modifiers)

\* The same of the commands of a class.
Member(c) == IF IsKeyword(c[1], Modifiers) THEN Tail(c) ELSE c
HasMemberWords(c) ==
  LET m == Member(c)
  IN  /\ IsKeyword(c[1], Modifiers) => Len(c) > 1 /\ IsKeyword(c[2], {"method", "proc", "variable", "common"})
      /\ IsOneOf(m, {"method", "proc", "variable", "common"}) => Len(m) > 1 /\ isLiteralName(m[2])
      /\ isCmd(m, "method") /\ Len(m) = 4 => Braced(m, 4)
      /\ isCmd(m, "proc") => Len(m) = 4 /\ Braced(m, 4)
      /\ isCmd(m, "constructor") => \A i \in 3..Len(m) : Braced(m, i)

\* The words of cmds stand where the paths to them lead.  Those of a word are
\* the commands of its interior and then those of its brackets.
InPlace(cmds, at) == \A i \in DOMAIN cmds : \A j \in DOMAIN cmds[i] : cmds[i][j].at = at \o <<i, j>>

\* No class is looked for inside brackets, so that there a constructor is a
\* command with one body and the last braced word of a method is one
\* (refs.go:158).
Accepted(f) ==
  /\ f \in Nested[Nesting] \ {<< >>} /\ InPlace(f, << >>)
  /\ \A p \in ToSet(walkAll(f)) :
       /\ HasWords(p.cmd)
       /\ p.frame = "class" => HasMemberWords(p.cmd)
       /\ \A c \in substRefs(p.cmd) : /\ HasWords(c) /\ HasMemberWords(c)
                                      /\ isCmd(c, "constructor") => Len(c) < 4
                                      /\ isCmd(c, "method") => Len(c) # 3
       /\ \A c \in {p.cmd} \cup substRefs(p.cmd) : \A w \in ToSet(c) : InPlace(w.script \o w.subst, w.at)

ASSUME SourcesAssumption == \A f \in Sources : Accepted(f)

----------------------------------------------------------------------------
(* Tcl: the effects of a command, run in the frame f.                      *)

\* The meaning of a name in a namespace, and the namespace it names a thing of.
Within(name, ns) ==
  IF Len(name) > 1 /\ name[1] = "" THEN name ELSE (IF ns = Global THEN <<"">> ELSE ns) \o name
NamespaceOf(name) == IF Len(name) = 2 THEN Global ELSE Front(name)

\* The definitions of procs and methods: where the list of parameters is (0:
\* no list), which word is the body, and the context the body will run in.
Callable(c, params, body, ns, class, f, kind) ==
  {[params |-> params, body |-> c[body], ns |-> ns, class |-> class, kind |-> kind, listed |-> f.listed,
    exact |-> f.exact /\ f.listed /\ ns = f.ns]}

Callables(c, f) ==
  LET m == IF f.frame = "class" THEN Member(c) ELSE c
      n == Len(m)
      Method(params, body) == Callable(m, params, body, f.ns, f.class, f, "method")
  IN  IF f.frame = "class"
      THEN CASE isCmd(m, "method") /\ n = 4      -> Method(m[3], 4)
             [] isCmd(m, "proc")                 -> Method(m[3], 4)
             [] isCmd(m, "constructor") /\ n = 3 -> Method(m[2], 3)
             [] isCmd(m, "constructor") /\ n = 4 -> Method(m[2], 3) \cup Method(m[2], 4)
             [] OTHER                            -> {}
      ELSE CASE isCmd(c, "proc") ->
                  Callable(c, c[3], 4, NamespaceOf(Within(c[2].text, f.ns)), f.class, f, "proc")
             [] isCmd(c, "CACHE_PROC") ->
                  Callable(c, c[4], 5, NamespaceOf(Within(c[3].text, f.ns)), f.class, f, "proc")
             [] IsItcl(c, "body") ->
                  Callable(c, c[3], 4, f.ns, Within(Front(c[2].text), f.ns), f, "method")
             [] OTHER -> {}

\* What the command creates in the namespace or in the class it runs in.  A
\* set by a qualified name inside a proc is left out: the code takes the name
\* for that of a local.
Creates(c, f) ==
  LET m == Member(c)
      Named(kind, word) == {[kind |-> kind, name |-> Within(word.text, f.ns), class |-> f.class]}
      OfClass(kind, name) == {[kind |-> kind, name |-> name, class |-> f.class]}
  IN  IF f.frame = "class"
      THEN CASE IsOneOf(m, {"method", "proc"})            -> OfClass("method", m[2].text)
             [] IsOneOf(m, {"constructor", "destructor"}) -> OfClass("method", m[1].text)
             [] IsOneOf(m, {"variable", "common"})        -> OfClass("ivar", m[2].text)
             [] OTHER                                     -> {}
      ELSE CASE isCmd(c, "proc")       -> Named("proc", c[2])
             [] isCmd(c, "CACHE_PROC") -> Named("proc", c[3])
             [] isCmd(c, "variable")   -> Named("nsvar", c[2])
             [] isCmd(c, "set")        -> IF f.frame = "namespace" THEN Named("nsvar", c[2]) ELSE {}
             [] IsItcl(c, "class")     -> Named("class", c[2])
             [] IsItcl(c, "body")      -> {[kind |-> "method", name |-> <<Last(c[2].text)>>,
                                            class |-> Within(Front(c[2].text), f.ns)]}
             [] OTHER                  -> {}

\* The names in a list of variables or of parameters.
ListNames(word) ==
  IF word.kind = "bare" THEN {word.text}
  ELSE {IF e.kind = "bare" THEN e.text ELSE e.script[1][1].text : e \in ToSet(FlattenSeq(word.script))}

\* The locals that the command binds in a proc.
Binds(c) ==
  CASE IsOneOf(c, {"set", "incr", "append", "lappend", "variable"}) -> {c[2].text}
    [] isCmd(c, "global")  -> {c[i].text : i \in 2..Len(c)}
    [] isCmd(c, "upvar")   -> {c[4].text}
    [] isCmd(c, "foreach") -> UNION {ListNames(c[i]) : i \in {j \in 2..Len(c) - 1 : j % 2 = 0}}
    [] isCmd(c, "lassign") -> UNION {ListNames(c[i]) : i \in 3..Len(c)}
    [] isCmd(c, "dict")    -> IF IsKeyword(c[2], {"for"}) THEN ListNames(c[3]) ELSE {}
    [] OTHER               -> {}

\* The braced words that hold data, so that nothing in them is run.
Data(c, f) ==
  LET DataAt == CASE IsOneOf(c, {"set", "variable"}) -> {3}
                  [] isCmd(c, "method") /\ f.frame = "class" -> {3}
                  [] isCmd(c, "foreach")             -> 2..Len(c) - 1
                  [] OTHER                           -> {}
      words == {p.params : p \in Callables(c, f)} \cup {c[i] : i \in DataAt \cap DOMAIN c}
  IN  {w.at : w \in {x \in words : x.kind = "braced"}}

QualifiedList(word, ns) ==
  LET list == IF word.kind = "bare" THEN <<word>> ELSE FlattenSeq(word.script)
  IN  [i \in DOMAIN list |-> Within(list[i].text, ns)]
ValueAt(map, ns) == IF ns \in DOMAIN map THEN map[ns] ELSE << >>

----------------------------------------------------------------------------
Running == stack # << >>
Top == Last(stack)

\* The scripts a command runs, with where each runs.
Started(c, f) ==
  LET Inside(word) == [f EXCEPT !.todo = word.script, !.at = word.at]
      Entered(word, ns, frame, class) ==
        [todo |-> word.script, at |-> word.at, ns |-> ns, frame |-> frame, class |-> class, scope |-> << >>,
         listed |-> f.listed, exact |-> f.exact /\ f.listed]
      arms == Scripts(c)
  IN  CASE isCmd(c, "namespace") /\ IsKeyword(c[2], {"eval"}) ->
             <<Entered(c[4], Within(c[3].text, f.ns), "namespace", f.class)>>
        [] IsItcl(c, "class") -> <<Entered(c[3], f.ns, "class", Within(c[2].text, f.ns))>>
        [] OTHER -> [i \in DOMAIN arms |-> Inside(arms[i])]

\* The innermost script does its next command: any of the scripts that the
\* command may run do run, after what stands in brackets.
Execute ==
  /\ Running
  /\ LET f == Top
         c == Head(f.todo)
         started == Started(c, f)
         Here(kind, name, at) == [kind |-> kind, name |-> name, at |-> at, ns |-> f.ns, frame |-> f.frame,
                                  scope |-> f.scope, class |-> f.class]
     IN  \E run \in SUBSET DOMAIN started :
           LET bodies == [i \in 1..Cardinality(run) |->
                            started[Kth(run, Cardinality(run) + 1 - i)]]
               brackets == [f EXCEPT !.todo = Substituted(c), !.listed = FALSE]
           IN  /\ stack' = EachOf(Front(stack) \o <<[f EXCEPT !.todo = Tail(@)]>> \o bodies \o <<brackets>>,
                                  LAMBDA s : Where(s.todo # << >>, <<s>>))
               /\ callable' = callable \cup Callables(c, f)
               /\ paths' = IF straight /\ isCmd(c, "namespace") /\ IsKeyword(c[2], {"path"})
                           THEN (f.ns :> QualifiedList(c[3], f.ns)) @@ paths ELSE paths
               /\ imports' = IF straight /\ isCmd(c, "namespace") /\ IsKeyword(c[2], {"import"})
                             THEN (f.ns :> ValueAt(imports, f.ns) \o <<Within(Last(c).text, f.ns)>>) @@ imports
                             ELSE imports
               /\ straight' = (straight /\ run = DOMAIN started /\ (f.listed \/ ~isCmd(c, "namespace")))
               /\ now' = [exact  |-> f.exact,
                          listed |-> f.listed,
                          refs   |-> {Here(r.kind, r.name, r.at) : r \in Mentioned(c)},
                          defs   |-> Creates(c, f),
                          locals |-> IF f.frame = "proc" THEN {[name |-> n, scope |-> f.scope] : n \in Binds(c)} ELSE {},
                          bodies |-> {started[n].at : n \in run},
                          data   |-> Data(c, f)]
  /\ UNCHANGED <<file, found>>

\* A proc or method is called.  A proc's parameters are its first locals;
\* those of a method the code does not list.
Call ==
  /\ ~Running
  /\ \E p \in {m \in callable : m.body.script # << >>} :
       /\ stack' = <<[todo |-> p.body.script, at |-> p.body.at, ns |-> p.ns, frame |-> "proc", scope |-> p.body.at,
                      class |-> p.class, exact |-> p.exact, listed |-> p.listed]>>
       /\ now' = [Nothing EXCEPT !.listed = p.listed, !.bodies = {p.body.at},
                    !.locals = IF p.kind = "proc"
                               THEN {[name |-> n, scope |-> p.body.at] : n \in ListNames(p.params)} ELSE {}]
  /\ straight' = FALSE
  /\ UNCHANGED <<file, found, callable, paths, imports>>

Next == Execute \/ Call
Spec == Init /\ [][Next]_vars

----------------------------------------------------------------------------
(* Properties.                                                             *)

\* Every command that runs and every variable it reads is a reference of the
\* file, whatever bodies, substitutions and calls led there, and whether or
\* not a name is qualified.
EveryReferenceFound ==
  \A r \in now.refs : \E x \in found.refs : x.kind = r.kind /\ x.name = r.name /\ x.at = r.at

\* It is recorded with the namespace, frame, scope and class it runs in.  Not
\* so in the body of a proc defined by the name of another namespace ("that
\* refinement is not yet modeled", bodies.go:90-92), nor in a body inside
\* brackets that runs elsewhere than the brackets.
ContextsExact == now.exact => now.refs \subseteq found.refs

\* What the file creates when it runs is among its definitions, by its
\* fully-qualified name, with the class around it.  Nothing inside brackets
\* is (refs.go:137-158 enters these for references only).
EveryDefinitionFound ==
  now.exact /\ now.listed =>
    now.defs \subseteq {[kind |-> d.kind, name |-> d.name, class |-> d.class] : d \in ToSet(found.defs)}

\* What a proc binds is a local of the body it runs in, so that goto-definition
\* stays inside the proc.
EveryLocalFound ==
  now.listed =>
    now.locals \subseteq {[name |-> d.name, scope |-> d.scope] : d \in {x \in ToSet(found.defs) : x.kind = "local"}}

\* "It folds exactly what the def/ref walkers descend (script bodies, not
\* parameter lists, expressions, or data braces)" (fold.go:14-16): every body
\* that runs folds, and nothing inside a word of data folds or is a reference.
FoldsAreBodies ==
  /\ now.listed => now.bodies \subseteq found.folds
  /\ \A at \in now.data : /\ at \notin found.folds
                          /\ \A r \in found.refs : ~IsPrefix(at, r.at) \/ r.at = at

\* When a file has run from top to end, its namespaces are left with the paths
\* and imports the walk found for them; a later path replaces an earlier one,
\* a reopened namespace keeps what it had.
DeclarationsExact ==
  ~Running /\ straight /\ callable = {} =>
    \A ns \in {d.ns : d \in ToSet(found.decls)} \cup DOMAIN paths \cup DOMAIN imports :
      PathOf(found.decls, ns) = ValueAt(paths, ns) /\ ImportsOf(found.decls, ns) = ValueAt(imports, ns)

\* The outline does not depend on the run: it is looked at before.
Unrun == now = Nothing /\ callable = {}

\* The symbols of the outline, each with the nodes around it.  No namespace
\* nests deeper than their names are long; below it come classes and members.
Symbols(hoistRequest) ==
  LET Around(syms, around) == [i \in DOMAIN syms |-> [symbol |-> syms[i], around |-> around]]
      below[n \in 0..Deepest(found.defs) + 1] ==
        IF n = 0 THEN Around(buildDocumentSymbols(found.defs, hoistRequest), << >>)
        ELSE EachOf(below[n - 1], LAMBDA s :
               <<s>> \o Where(Len(s.around) = n - 1, Around(s.symbol.children, Append(s.around, s.symbol))))
  IN  below[Deepest(found.defs) + 1]

\* The outline of the file, and what it is if the file comes from a page.
Outlines == {[hoisted |-> hoistRequest, symbols |-> Symbols(hoistRequest)] : hoistRequest \in BOOLEAN}

\* Every definition that is no local and stands in no class is in the outline
\* once, below the nodes of its namespace and of all above that, in a page
\* without ::request; every member of a class of the file is below the class,
\* wherever its body is.  A class declared twice counts as one.
OutlineComplete ==
  Unrun => \A outline \in Outlines :
    LET symbols == outline.symbols
        At(d) == {i \in DOMAIN symbols : symbols[i].symbol.selection = Spanning(d.at)}
        Names(i) == [n \in DOMAIN symbols[i].around |-> symbols[i].around[n].name]
        Above(ns) == SelectSeq([i \in 1..Len(ns) - 1 |-> SubSeq(ns, 1, i + 1)],
                               LAMBDA node : node # Global /\ ~(outline.hoisted /\ node = Request))
        classes == {d.name : d \in {x \in ToSet(found.defs) : x.kind = "class"}}
        Is(i, d) == symbols[i].symbol.kind = "class" /\ Last(symbols[i].symbol.name) = Last(d.name)
    IN  \A d \in ToSet(found.defs) :
          /\ d.kind \in {"proc", "nsvar"} /\ d.class = NoClass =>
               \E i \in DOMAIN symbols : At(d) = {i} /\ Names(i) = Above(d.ns)
          /\ d.kind \in {"method", "ivar"} /\ d.class \in classes =>
               \E i \in DOMAIN symbols : At(d) = {i} /\ Last(symbols[i].around).kind = "class"
          /\ d.kind = "class" =>
               Cardinality({i \in DOMAIN symbols : Is(i, d) /\ Names(i) = Above(d.ns)}) = 1

\* The outline of a file that is no page reads top to bottom: siblings are in
\* the order of the text, a name is inside the range of its symbol, and a
\* namespace covers what it shows.  Editors rely on it to find the symbol at
\* the cursor.  In a page the symbols of ::request come in one piece, put where
\* its node was after the sorting (symbols.go:216-228), so that a namespace
\* between two procs comes after both; below the root the order is the same.
OutlineOrdered ==
  LET root    == buildDocumentSymbols(found.defs, FALSE)
      symbols == {s.symbol : s \in ToSet(Symbols(FALSE))}
      InOrder(siblings) == \A i \in 1..Len(siblings) - 1 :
                             posLess(siblings[i].range.start, siblings[i + 1].range.start)
  IN  Unrun => /\ InOrder(root)
               /\ \A s \in symbols :
                    /\ InOrder(s.children)
                    /\ posContains(s.range, s.selection)
                    /\ s.kind = "namespace" => \A c \in ToSet(s.children) : posContains(s.range, c.range)
=============================================================================
