------------------------------ MODULE MCTclRun ------------------------------
(* Files for TclRun: a script of one or two commands inside two or three   *)
(* constructs, of which it takes every combination.                        *)
EXTENDS TclRun

\* Words without their places.
Raw(kind, text, script) ==
  [kind |-> kind, text |-> text, dynamic |-> FALSE, element |-> FALSE, script |-> script, subst |-> << >>, vars |-> << >>]
Bare(text)     == Raw("bare", text, << >>)
Word(t)        == Bare(<<t>>)
Brace(script)  == Raw("braced", <<"{}">>, script)
Names(a, b)    == Brace(<<<<Word(a), Word(b)>>>>)
Use(x)         == [Bare(<<"$">>) EXCEPT !.dynamic = TRUE, !.vars = <<<<x>>>>]
Bracket(cmds)  == [Bare(<<"[">>) EXCEPT !.dynamic = TRUE, !.subst = cmds]
Test(cmds)     == [Brace(<< >>) EXCEPT !.subst = cmds]

\* Every word in its place.
RECURSIVE Placed(_, _)
Placed(cmds, at) ==
  [i \in DOMAIN cmds |-> [j \in DOMAIN cmds[i] |->
     LET here == at \o <<i, j>>
     IN  [at |-> here, script |-> Placed(cmds[i][j].script, here), subst |-> Placed(cmds[i][j].subst, here)]
           @@ cmds[i][j]]]

foo == <<Word("foo")>>
a == Word("a")

\* The body in a construct.
Wrap(construct, body) ==
  LET b == Brace(body)
  IN  CASE construct = "eval"     -> <<<<Word("namespace"), Word("eval"), a, b>>>>
        [] construct = "abseval"  -> <<<<Word("namespace"), Word("eval"), Bare(<<"", "request", "c">>), b>>,
                                       <<Word("set"), Word("z"), Word("1")>>>>
        [] construct = "twice"    -> <<<<Word("namespace"), Word("eval"), a, b>>,
                                       <<Word("set"), Word("between"), Word("1")>>,
                                       <<Word("namespace"), Word("eval"), a, b>>>>
        [] construct = "proc"     -> <<<<Word("proc"), Word("p"), Names("x", "y"), b>>>>
        [] construct = "qualproc" -> <<<<Word("proc"), Bare(<<"", "b", "q">>), Brace(<<<<Names("x", "0")>>>>), b>>>>
        [] construct = "cached"   -> <<<<Word("CACHE_PROC"), Word("proc"), Word("r"), Names("x", "y"), b, Word("-ttl")>>>>
        [] construct = "class"    -> <<<<Bare(<<"itcl", "class">>), Word("C"), b>>>>
        [] construct = "classes"  -> <<<<Bare(<<"", "itcl", "class">>), Word("C"), Brace(<<<<Word("inherit"), Word("D")>>>>)>>,
                                       <<Bare(<<"itcl", "class">>), Word("C"), b>>,
                                       <<Bare(<<"itcl", "body">>), Bare(<<"C", "m">>), Names("x", "y"), Brace(<<foo>>)>>>>
        [] construct = "method"   -> <<<<Word("method"), Word("m"), Names("x", "y"), b>>>>
        [] construct = "public"   -> <<<<Word("public"), Word("method"), Word("m"), Names("x", "y"), b>>,
                                       <<Word("private"), Word("variable"), Word("v"), Brace(<<foo>>)>>,
                                       <<Word("method"), Word("later"), Names("foo", "y")>>>>
        [] construct = "ctor"     -> <<<<Word("constructor"), Names("x", "y"), Brace(<<foo>>), b>>>>
        [] construct = "init"     -> <<<<Word("constructor"), Names("x", "y"), b, Brace(<<foo>>)>>>>
        [] construct = "body"     -> <<<<Bare(<<"itcl", "body">>), Bare(<<"", "a", "C", "m">>), Names("x", "y"), b>>>>
        [] construct = "if"       -> <<<<Word("if"), Test(<<foo>>), b>>>>
        [] construct = "else"     -> <<<<Word("if"), Test(<<foo>>), Brace(<<foo>>), Word("elseif"), Test(<<foo>>),
                                         Brace(<<foo>>), Word("else"), b>>>>
        [] construct = "while"    -> <<<<Word("while"), Test(<<foo>>), b>>>>
        [] construct = "for"      -> <<<<Word("for"), Brace(<<foo>>), Test(<<foo>>), b, Brace(<<foo>>)>>>>
        [] construct = "foreach"  -> <<<<Word("foreach"), Names("i", "j"), Use("x"), b>>>>
        [] construct = "catch"    -> <<<<Word("catch"), b, Word("err")>>>>
        [] construct = "try"      -> <<<<Word("try"), Brace(<<foo>>), Word("on"), Word("error"), Names("e", "o"), b,
                                         Word("finally"), Brace(<<foo>>)>>>>
        [] construct = "finally"  -> <<<<Word("try"), Brace(<<foo>>), Word("finally"), b>>>>
        [] construct = "dict"     -> <<<<Word("dict"), Word("for"), Names("k", "v"), Use("x"), b>>>>
        [] construct = "custom"   -> <<<<Word("with_lock"), Use("x"), b>>>>
        [] construct = "switch"   -> <<<<Word("switch"), Use("x"), Brace(<<<<Word("one"), b>>, <<Word("two"), Brace(<<foo>>)>>>>)>>>>
        [] construct = "bracket"  -> <<<<Word("puts"), Bracket(<<<<Word("catch"), b, Word("err")>>>>)>>>>
        [] construct = "expr"     -> <<<<Word("expr"), Test(body)>>>>
        [] construct = "data"     -> <<<<Word("set"), Word("x"), b>>>>

Script(name) ==
  CASE name = "call"     -> <<foo, <<Bare(<<"", "b", "foo">>), Use("x")>>>>
    [] name = "dynamic"  -> <<<<Use("cmd"), Bracket(<<foo>>)>>>>
    [] name = "set"      -> <<<<Word("set"), Word("x"), Word("1")>>, <<Word("incr"), Word("n")>>>>
    [] name = "element"  -> <<<<Word("set"), [Word("arr") EXCEPT !.dynamic = TRUE, !.element = TRUE, !.vars = <<<<"i">>>>], Word("1")>>>>
    [] name = "variable" -> <<<<Word("variable"), Word("v"), Word("1")>>>>
    [] name = "link"     -> <<<<Word("global"), Word("g"), Word("h")>>, <<Word("upvar"), Word("#0"), Word("g"), Word("u")>>>>
    [] name = "lassign"  -> <<<<Word("lassign"), Use("x"), Word("s"), Word("t")>>>>
    [] name = "path"     -> <<<<Word("namespace"), Word("path"), Names("b", "d")>>, <<Word("namespace"), Word("path"), a>>>>
    [] name = "import"   -> <<<<Word("namespace"), Word("import"), Bare(<<"", "b", "*">>)>>,
                              <<Word("namespace"), Word("import"), Word("-force"), Bare(<<"b", "f">>)>>>>
    [] name = "define"   -> <<<<Word("proc"), Word("helper"), Brace(<< >>), Brace(<<foo>>)>>,
                              <<Word("set"), Word("w"), Word("1")>>>>

MCOuter   == {"eval", "abseval", "twice", "proc", "qualproc", "if", "switch", "bracket"}
MCClass   == {"class", "classes"}
MCMember  == {"proc", "method", "public", "ctor", "init"}
MCInner   == {"eval", "abseval", "proc", "qualproc", "cached", "class", "body", "if", "else", "while", "for", "foreach",
              "catch", "try", "finally", "dict", "custom", "switch", "bracket", "expr", "data"}
MCScripts == {"call", "dynamic", "set", "element", "variable", "link", "lassign", "path", "import", "define"}

\* Members stand in classes only.
MCSources ==
  {Placed(Wrap(o, Wrap(i, Script(s))), << >>) : o \in MCOuter, i \in MCInner, s \in MCScripts}
    \cup {Placed(Wrap(o, Wrap(i, Wrap(j, Script(s)))), << >>) :
             o \in {"eval", "proc", "else"}, i \in MCInner, j \in {"eval", "proc", "catch", "bracket"}, s \in MCScripts}
    \cup {Placed(Wrap(o, Wrap(m, Wrap(i, Script(s)))), << >>) :
             o \in MCClass, m \in MCMember, i \in {"if", "catch", "foreach", "bracket", "eval"}, s \in MCScripts}
=============================================================================
