------------------------------ MODULE TclFile ------------------------------
(* What one walk over a Tcl file finds in it (package tcl): definitions,   *)
(* references, namespace declarations, inherit edges and folds.            *)
(*                                                                         *)
(* A file is taken as Parse leaves it, as commands of words; only here the *)
(* interior of a braced word is parsed already.  A text is split at its    *)
(* "::": foo is <<"foo">>, ::a::foo is <<"", "a", "foo">>, and the global  *)
(* namespace is <<"", "">>.  An offset is the path to a word through the   *)
(* commands and words around it, which says all that offsets are compared  *)
(* for: what lies inside what, and what comes first.                       *)
EXTENDS Naturals, Sequences, SequencesExt

CONSTANT Nesting   \* bound: how deep the words of a file nest

ASSUME NestingAssumption == Nesting \in Nat

Texts == Seq(STRING) \ {<< >>}

\* The words in which nothing but the given scripts stands.
Words(scripts) ==
  [kind    : {"bare", "braced", "quoted"},
   text    : Texts,          \* of a bare word
   dynamic : BOOLEAN,        \* the text has a substitution, in the name of a variable
   element : BOOLEAN,        \* the text is that of an array element, name(index)
   at      : Seq(Nat),       \* where the word is
   script  : scripts,        \* the commands of a braced word when it is read as a script
   subst   : scripts,        \* the commands in the brackets of the word
   vars    : Seq(Texts)]     \* the variables it substitutes with a $

\* A command has at least one word; a script is a sequence of commands.  The
\* words of Nested[n] nest at most n deep.
Commands(scripts) == Seq(Words(scripts)) \ {<< >>}
Nested[n \in 0..Nesting] == IF n = 0 THEN {<< >>} ELSE Seq(Commands(Nested[n - 1]))

Global == <<"", "">>
NoClass == << >>
TopLevel == [ns |-> Global, frame |-> "namespace", scope |-> << >>, class |-> NoClass]

IsAbsolute(text) == Len(text) > 1 /\ text[1] = ""

\* Mutant of qualifyName: a relative name starts from ::.
qualifyNameFromRoot(name, ns) == IF IsAbsolute(name) THEN name ELSE <<"">> \o name

\* qualifyName and qualifyNamespace.
qualifyName(name, ns) ==
  IF IsAbsolute(name) THEN name ELSE IF ns = Global THEN <<"">> \o name ELSE ns \o name

isLiteralName(word) == word.kind = "bare" /\ ~word.dynamic
isCmd(w, head) == w # << >> /\ isLiteralName(w[1]) /\ w[1].text = <<head>>
IsOneOf(w, heads) == \E head \in heads : isCmd(w, head)
IsItcl(w, head) == isLiteralName(w[1]) /\ w[1].text \in {<<"itcl", head>>, <<"", "itcl", head>>}
Braced(w, i) == i \in DOMAIN w /\ w[i].kind = "braced"
IsKeyword(word, texts) == isLiteralName(word) /\ \E t \in texts : word.text = <<t>>

\* The words of w at the indices that Pick takes, in order.
Kth(numbers, k) == CHOOSE n \in numbers : Cardinality({m \in numbers : m <= n}) = k
WordsAt(w, Pick(_)) ==
  LET at == {i \in DOMAIN w : Pick(i)} IN [k \in 1..Cardinality(at) |-> w[Kth(at, k)]]
EachOf(s, Op(_)) == FlattenSeq([i \in DOMAIN s |-> Op(s[i])])
Where(condition, s) == IF condition THEN s ELSE << >>

----------------------------------------------------------------------------
(* Which words are bodies, and where they run (bodies.go).                 *)

Modifiers == {"public", "protected", "private"}
\* Mutant of memberWords: only a public member is seen.
memberWordsPublic(w) == IF IsKeyword(w[1], {"public"}) THEN Tail(w) ELSE w

memberWords(w) ==
  IF Len(w) >= 2 /\ IsKeyword(w[1], Modifiers) /\ IsKeyword(w[2], {"method", "proc", "variable", "common"})
  THEN Tail(w) ELSE w

\* Mutant of minMemberBodyWords: a forward declaration counts as a body.
minMemberBodyWordsAny(w) == 2

minMemberBodyWords(w) ==
  IF isCmd(w, "constructor") THEN 3 ELSE IF isCmd(w, "destructor") THEN 2 ELSE 4

listOrDataHeads == {"set", "list", "lappend", "lassign", "lset", "linsert", "lreplace", "concat", "dict",
                    "array", "append", "return", "expr"}

\* The index of `proc` in WRAPPER... proc NAME ARGS BODY, or 0.
decoratedProcDef(w) ==
  LET at == {i \in 2..Len(w) - 3 : /\ IsKeyword(w[i], {"proc"})
                                   /\ isLiteralName(w[i + 1]) /\ Braced(w, i + 3)}
  IN  IF at = {} \/ w[1].kind # "bare" \/ IsKeyword(w[1], listOrDataHeads) THEN 0
      ELSE CHOOSE i \in at : \A j \in at : i <= j

\* The expression that follows `if` or `elseif`.
IsCondition(w, i) == i > 1 /\ Braced(w, i) /\ IsKeyword(w[i - 1], {"if", "elseif"})
ifConditions(w) == WordsAt(w, LAMBDA i : IsCondition(w, i))
\* Mutant of ifBodies: what follows else is not a body.
ifBodiesFirst(w) == WordsAt(w, LAMBDA i : i > 1 /\ IsCondition(w, i - 1) /\ Braced(w, i))
ifBodies(w)     == WordsAt(w, LAMBDA i : i > 1 /\ Braced(w, i) /\ ~IsCondition(w, i))

tryBodies(w) ==
  WordsAt(w, LAMBDA i : /\ Braced(w, i)
                        /\ \/ i = 2
                           \/ i > 5 /\ IsKeyword(w[i - 3], {"on", "trap"})
                           \/ i > 3 /\ IsKeyword(w[i - 1], {"finally"}))

dataBraceCommands == {"expr", "set", "list", "lappend", "lset", "append", "incr", "array", "string",
                      "global", "variable", "common", "return"}

\* The words that run where the command runs.  By convention the last braced
\* word of a command nothing is known about is one of them.
scriptBodies(w) ==
  LET last == Where(Braced(w, Len(w)), <<w[Len(w)]>>)
  IN  CASE isCmd(w, "dict")  -> Where(Len(w) > 1 /\ IsKeyword(w[2], {"for", "map"}), last)
        [] isCmd(w, "catch") -> Where(Braced(w, 2), <<w[2]>>)
        [] isCmd(w, "for")   -> WordsAt(w, LAMBDA i : i \in {2, 4, 5} /\ Braced(w, i))
        [] isCmd(w, "if")    -> ifBodies(w)
        [] isCmd(w, "try")   -> tryBodies(w)
        [] ~IsOneOf(w, {"dict", "catch", "for", "if", "try"}) ->
             Where(w[1].kind = "bare" /\ ~IsKeyword(w[1], dataBraceCommands), last)

\* The braced words that are evaluated as expressions.
exprBodies(w) ==
  CASE isCmd(w, "expr")  -> WordsAt(w, LAMBDA i : i > 1 /\ Braced(w, i))
    [] isCmd(w, "while") -> Where(Braced(w, 2), <<w[2]>>)
    [] isCmd(w, "for")   -> Where(Braced(w, 3), <<w[3]>>)
    [] isCmd(w, "if")    -> ifConditions(w)
    [] ~IsOneOf(w, {"expr", "while", "for", "if"}) -> << >>

\* The name of class of ::Class::method, relative to ns.
ClassOfBody(text, ns) == qualifyName(Front(text), ns)

\* A body is a word with where it runs.  Only proc bodies have a scope.
Entering(word, ns, frame, class) ==
  [script |-> word.script, at |-> word.at, ns |-> ns, frame |-> frame, class |-> class,
   scope |-> IF frame = "proc" THEN word.at ELSE << >>]
Staying(word, p) ==
  [script |-> word.script, at |-> word.at, ns |-> p.ns, frame |-> p.frame, class |-> p.class,
   scope |-> p.scope]

\* The bodies of a command with the words w.
bodiesOf(w, p) ==
  LET body  == w[Len(w)]
      ends  == body.kind = "braced"
      deco  == decoratedProcDef(w)
      Member == p.frame = "class" /\ IsOneOf(w, {"method", "constructor", "destructor"}) /\ ends
      Known(i) == <<Entering(w[i], p.ns, "proc", p.class)>>
  IN  CASE isCmd(w, "namespace") /\ Len(w) >= 4 /\ w[2].text = <<"eval">> /\ ends ->
             <<Entering(body, qualifyName(w[3].text, p.ns), "namespace", p.class)>>
        [] isCmd(w, "proc") /\ Len(w) >= 4 /\ ends -> Known(Len(w))
        [] IsItcl(w, "class") /\ Len(w) >= 3 /\ ends ->
             <<Entering(body, p.ns, "class", qualifyName(w[2].text, p.ns))>>
        [] Member ->
             Where(Len(w) >= minMemberBodyWords(w),
                   Known(Len(w)) \o Where(isCmd(w, "constructor") /\ Len(w) >= 4 /\ Braced(w, Len(w) - 1),
                                          Known(Len(w) - 1)))
        [] IsItcl(w, "body") /\ Len(w) >= 4 /\ ends ->
             Where(Front(w[2].text) \notin {<< >>, <<"">>},
                   <<Entering(body, p.ns, "proc", ClassOfBody(w[2].text, p.ns))>>)
        [] OTHER ->
             IF deco > 0 THEN Known(deco + 3)
             ELSE LET stay == scriptBodies(w) IN [i \in DOMAIN stay |-> Staying(stay[i], p)]

childBodies(c, p) == bodiesOf(IF p.frame = "class" THEN memberWords(c) ELSE c, p)

----------------------------------------------------------------------------
(* Definitions (defs.go).  "local" stands for DefLocal and DefGlobalLink.  *)

NoOrigin == << >>

\* arrayBaseName: the word names a variable or an element of one.
IsTarget(word) == word.kind = "bare" /\ (word.element \/ ~word.dynamic)

globalOrigin(name) == IF IsAbsolute(name) THEN name ELSE <<"">> \o name

isUpvarLevel(word) == IsKeyword(word, {"#0", "1"})
upvarOrigin(global, target) ==
  IF ~IsTarget(target) THEN NoOrigin
  ELSE IF IsAbsolute(target.text) THEN target.text
  ELSE IF global THEN <<"">> \o target.text ELSE NoOrigin

\* paramFromWord: a name, or the first word of {name default}.
paramFromWord(word) ==
  CASE word.kind = "bare"   -> <<word>>
    [] word.kind = "braced" -> Where(word.script # << >>, <<word.script[1][1]>>)
    [] word.kind = "quoted" -> << >>

\* scanParams, of the interior of a braced list or of a bare word.
scanParams(list) ==
  IF list.kind = "braced" THEN EachOf(FlattenSeq(list.script), paramFromWord)
  ELSE paramFromWord(list)

\* The words that emitLoopVarDefs takes for lists of variables.
LoopVars(w) ==
  CASE IsOneOf(w, {"foreach", "lmap"}) -> WordsAt(w, LAMBDA i : i % 2 = 0 /\ i < Len(w))
    [] isCmd(w, "lassign") -> WordsAt(w, LAMBDA i : i > 2)
    [] isCmd(w, "dict") -> Where(Len(w) >= 5 /\ IsKeyword(w[2], {"for", "map"}), <<w[3]>>)
    [] ~IsOneOf(w, {"foreach", "lmap", "lassign", "dict"}) -> << >>

\* A definition that is no local spans its command.
Definition(kind, name, at, class, c, p) ==
  [kind |-> kind, name |-> name, ns |-> p.ns, at |-> at, full |-> Front(c[1].at),
   scope |-> p.scope, origin |-> NoOrigin, class |-> class]
Local(word, origin, p) ==
  [kind |-> "local", name |-> word.text, ns |-> p.ns, at |-> word.at, full |-> << >>,
   scope |-> p.scope, origin |-> origin, class |-> p.class]

HasName(w) == Len(w) >= 2 /\ isLiteralName(w[2])
HasTarget(w) == Len(w) >= 2 /\ IsTarget(w[2])

\* What the command c with the words w defines in a class,
memberDefs(w, c, p) ==
  LET Member(kind, word) == <<Definition(kind, word.text, word.at, p.class, c, p)>>
  IN  CASE IsOneOf(w, {"constructor", "destructor"})        -> Member("method", w[1])
        [] IsOneOf(w, {"method", "proc"}) /\ HasName(w)     -> Member("method", w[2])
        [] IsOneOf(w, {"variable", "common"}) /\ HasName(w) -> Member("ivar", w[2])
        [] OTHER -> << >>

\* in a namespace or a proc,
scopeDefs(c, p) ==
  LET Named(kind, word) == <<Definition(kind, qualifyName(word.text, p.ns), word.at, p.class, c, p)>>
      deco == decoratedProcDef(c)
  IN  Where(isCmd(c, "proc") /\ HasName(c), Named("proc", c[2]))
        \o Where(deco > 0, Named("proc", c[deco + 1]))
        \o Where(isCmd(c, "variable") /\ HasName(c), Named("nsvar", c[2]))
        \o Where(isCmd(c, "set") /\ HasTarget(c) /\ p.frame = "namespace", Named("nsvar", c[2]))
        \o Where(IsItcl(c, "class") /\ Len(c) >= 3 /\ HasName(c), Named("class", c[2]))
        \o Where(IsItcl(c, "body") /\ HasName(c) /\ Front(c[2].text) \notin {<< >>, <<"">>},
                 <<Definition("method", <<Last(c[2].text)>>, c[2].at, ClassOfBody(c[2].text, p.ns), c, p)>>)

\* and binds in a proc.
localDefs(c, p) ==
  LET Plain(word) == <<Local(word, NoOrigin, p)>>
      level == IF Len(c) > 1 /\ isUpvarLevel(c[2]) THEN 1 ELSE 0
      IsAlias(i) == i >= 3 + level /\ (i - level) % 2 = 1 /\ isLiteralName(c[i])
  IN  Where(isCmd(c, "variable") /\ HasName(c), Plain(c[2]))
        \o Where(IsOneOf(c, {"set", "incr", "append", "lappend"}) /\ HasTarget(c), Plain(c[2]))
        \o Where(isCmd(c, "global"),
                 EachOf(WordsAt(c, LAMBDA i : i > 1 /\ isLiteralName(c[i])),
                        LAMBDA word : <<Local(word, globalOrigin(word.text), p)>>))
        \o Where(isCmd(c, "upvar") /\ Len(c) >= 3,
                 FlattenSeq([i \in DOMAIN c |-> Where(IsAlias(i),
                   <<Local(c[i], upvarOrigin(level = 1 /\ IsKeyword(c[2], {"#0"}), c[i - 1]), p)>>)]))
        \o EachOf(LoopVars(c), LAMBDA list : EachOf(scanParams(list), Plain))

emitDefs(c, p) ==
  IF p.frame = "class" THEN memberDefs(memberWords(c), c, p)
  ELSE scopeDefs(c, p) \o Where(p.frame = "proc", localDefs(c, p))

\* Mutant of emitProcParams: the scope of a parameter is that of its proc.
emitProcParamsOutside(c, p) ==
  Where(isCmd(c, "proc") /\ Len(c) >= 4, EachOf(scanParams(c[3]), LAMBDA word : <<Local(word, NoOrigin, p)>>))

\* emitProcParams, for a proc and for a decorated one.  The scope of a
\* parameter is the body.
emitProcParams(c, p) ==
  LET deco == decoratedProcDef(c)
      Params(list, body) ==
        EachOf(scanParams(list), LAMBDA word : <<[Local(word, NoOrigin, p) EXCEPT !.scope = body.at]>>)
  IN  IF isCmd(c, "proc") /\ Len(c) >= 4 /\ Braced(c, Len(c)) THEN Params(c[3], c[Len(c)])
      ELSE Where(deco > 0, Params(c[deco + 2], c[deco + 3]))

----------------------------------------------------------------------------
(* References (refs.go).                                                   *)

\* The words of a command in which the code looks for variables and brackets.
\* An expression substitutes no variables of its own.
Substituting(c) == ToSet(IF isLiteralName(c[1]) THEN Tail(c) ELSE c)
OwnRefs(c) ==
  {[kind |-> "command", name |-> w.text, at |-> w.at] : w \in {h \in {c[1]} : isLiteralName(h)}}
    \cup UNION {{[kind |-> "variable", name |-> v, at |-> w.at] : v \in ToSet(w.vars)} :
                  w \in {v \in Substituting(c) : v.kind # "braced"}}
Bracketed(c) ==
  UNION {ToSet(w.subst) : w \in {v \in Substituting(c) : v.kind # "braced" \/ v \in ToSet(exprBodies(c))}}

\* substRefs: the commands reached from the brackets of c.  The bodies of a
\* command are entered inside brackets only.
BodyCommands(c) == UNION {ToSet(b.script) : b \in ToSet(childBodies(c, TopLevel))}
substRefs(c) ==
  LET below[n \in 0..Nesting] ==
        IF n = 0 THEN Bracketed(c) ELSE UNION {Bracketed(d) \cup BodyCommands(d) : d \in below[n - 1]}
  IN  UNION {below[n] : n \in 0..Nesting}

CommandRefs(c) == UNION {OwnRefs(d) : d \in {c} \cup substRefs(c)}

----------------------------------------------------------------------------
(* Namespace declarations and inherit edges (nsdecl.go, classdecl.go).     *)

unbrace(word) == IF word.kind = "braced" THEN word.script[1][1].text ELSE word.text
IsFlag(word) == IsKeyword(word, {"-force", "-clear"})

\* What recordNSDecl records of a command: an operation on its namespace.
recordNSDecl(c, p) ==
  LET Decl(op, names) == <<[ns |-> p.ns, op |-> op, names |-> names]>>
      Operands == SelectSeq(SubSeq(c, 3, Len(c)), LAMBDA word : ~IsFlag(word))
      Qualify(name) == <<qualifyName(name, p.ns)>>
  IN  CASE ~isCmd(c, "namespace") \/ Len(c) < 3 -> << >>
        [] isCmd(c, "namespace") /\ Len(c) >= 3 ->
             Where(IsKeyword(c[2], {"export"}), Decl("export", EachOf(Operands, LAMBDA w : <<unbrace(w)>>)))
               \o Where(IsKeyword(c[2], {"import"}), Decl("import", EachOf(Operands, LAMBDA w : Qualify(unbrace(w)))))
               \o Where(IsKeyword(c[2], {"path"}),
                        Decl("path", IF c[3].kind = "braced"
                                     THEN EachOf(FlattenSeq(c[3].script), LAMBDA w : Qualify(unbrace(w)))
                                     ELSE Qualify(c[3].text)))

recordInherit(c, p) ==
  {<<p.class, qualifyName(unbrace(base), p.ns)>> :
     base \in {w \in ToSet(Tail(c)) : p.frame = "class" /\ isCmd(c, "inherit")}}

----------------------------------------------------------------------------
(* The walk (walk.go, fold.go).                                            *)

\* The points of the walk over a body: its commands, with the context of the
\* body and how many bodies are around them.
Points(body, depth) ==
  [i \in DOMAIN body.script |-> [cmd |-> body.script[i], ns |-> body.ns, frame |-> body.frame, scope |-> body.scope,
                                 class |-> body.class, depth |-> depth]]

\* Every command is followed by those of its bodies: to the depth n, the walk
\* to the depth before with the bodies entered at its last points.
walkAll(file) ==
  LET walk[n \in 0..Nesting] ==
        IF n = 0 THEN Points(Staying([script |-> file, at |-> << >>], TopLevel), 0)
        ELSE EachOf(walk[n - 1], LAMBDA p :
               <<p>> \o Where(p.depth = n - 1, EachOf(childBodies(p.cmd, p), LAMBDA b : Points(b, n))))
  IN  walk[Nesting]

\* Mutant of PathOf: the first declaration of a path stays.
PathOfFirst(decls, ns) ==
  LET own == SelectSeq(decls, LAMBDA d : d.ns = ns /\ d.op = "path")
  IN  IF own = << >> THEN << >> ELSE own[1].names

\* The path a namespace is left with, which each declaration replaces, and
\* the imports it has gathered.
PathOf(decls, ns) ==
  LET own == SelectSeq(decls, LAMBDA d : d.ns = ns /\ d.op = "path")
  IN  IF own = << >> THEN << >> ELSE Last(own).names
ImportsOf(decls, ns) ==
  EachOf(SelectSeq(decls, LAMBDA d : d.ns = ns /\ d.op = "import"), LAMBDA d : d.names)

\* The folds of the same walk.  A fold is the word it spans.
FileFolds(points) == UNION {{b.at : b \in ToSet(childBodies(p.cmd, p))} : p \in ToSet(points)}

\* The collectors of one walk.  The order of references, edges and folds does
\* not matter.
FileAll(file) ==
  LET points == walkAll(file)
  IN  [defs  |-> EachOf(points, LAMBDA p : emitDefs(p.cmd, p) \o emitProcParams(p.cmd, p)),
       refs  |-> UNION {{[kind |-> r.kind, name |-> r.name, at |-> r.at, ns |-> p.ns, frame |-> p.frame,
                          scope |-> p.scope, class |-> p.class] : r \in CommandRefs(p.cmd)} : p \in ToSet(points)},
       decls |-> EachOf(points, LAMBDA p : recordNSDecl(p.cmd, p)),
       bases |-> UNION {recordInherit(p.cmd, p) : p \in ToSet(points)},
       folds |-> FileFolds(points)]
=============================================================================
