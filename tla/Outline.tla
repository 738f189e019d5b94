------------------------------ MODULE Outline ------------------------------
(* The document outline (lsp/symbols.go): the definitions of a file as a   *)
(* tree of namespaces, classes and their members.  A range is the paths to *)
(* its first and its last word.                                            *)
EXTENDS TclFile

\* Past everything inside a word or a command.
End(at) == Append(at, 100)
Spanning(at) == [start |-> at, end |-> End(at)]

\* posLess: the order of the text.  The paths differ first at n.
posLess(a, b) ==
  \E n \in 1..Len(b) : /\ \A m \in 1..n - 1 : m <= Len(a) /\ a[m] = b[m]
                       /\ n = Len(a) + 1 \/ (n <= Len(a) /\ a[n] < b[n])
posContains(outer, inner) == ~posLess(inner.start, outer.start) /\ ~posLess(outer.end, inner.end)

\* Mutant of sortBySourcePosition: namespaces after members, as they were built.
unsorted(syms) == syms

\* A stable sort by the start of the range.
sortBySourcePosition(syms) ==
  LET Before(i, j) == \/ posLess(syms[i].range.start, syms[j].range.start)
                      \/ i < j /\ ~posLess(syms[j].range.start, syms[i].range.start)
      Place(i) == Cardinality({j \in DOMAIN syms : Before(j, i)}) + 1
  IN  [n \in DOMAIN syms |-> syms[CHOOSE i \in DOMAIN syms : Place(i) = n]]

shortName(name) == <<Last(name)>>
parentNamespace(ns) == IF Len(ns) <= 2 THEN Global ELSE Front(ns)

\* leafSymbol.
leafSymbol(d, name, children) ==
  LET selection == Spanning(d.at)
      full      == Spanning(d.full)
  IN  [kind |-> d.kind, name |-> name, selection |-> selection, children |-> children,
       range |-> IF d.full # << >> /\ posContains(full, selection) THEN full ELSE selection]

\* A class with its methods and variables, wherever in the file these are.
\* A redefinition counts, in the place of the first one.
classSymbol(defs, d, name) ==
  LET redefinitions == SelectSeq(defs, LAMBDA x : x.kind = "class" /\ x.name = d.name)
      members == SelectSeq(defs, LAMBDA x : x.kind \in {"method", "ivar"} /\ x.class = d.name)
  IN  leafSymbol(Last(redefinitions), name,
                 [i \in DOMAIN members |-> leafSymbol(members[i], members[i].name, << >>)])

\* The classes, procs and variables shown in ns, in source order.  What is
\* defined inside a class is not.
nsChildren(defs, ns) ==
  LET Shown(i) ==
        /\ defs[i].ns = ns
        /\ \/ defs[i].kind \in {"proc", "nsvar"} /\ defs[i].class = NoClass
           \/ defs[i].kind = "class" /\ \A j \in 1..i - 1 : ~(defs[j].kind = "class" /\ defs[j].name = defs[i].name)
      Symbol(d) ==
        IF d.kind # "class" THEN leafSymbol(d, shortName(d.name), << >>)
        ELSE classSymbol(defs, d, IF ns = Global THEN d.name ELSE shortName(d.name))
      shown == SelectSeq([i \in DOMAIN defs |-> i], Shown)
  IN  [n \in DOMAIN shown |-> Symbol(defs[shown[n]])]

\* Mutant of nsNodes: a namespace that shows nothing itself has no node.
nsNodesShown(defs) == {ns \in {d.ns : d \in ToSet(defs)} : nsChildren(defs, ns) # << >>} \ {Global}

\* The namespaces that get a node: those that show something, with all above.
nsNodes(defs) ==
  LET shown == {ns \in {d.ns : d \in ToSet(defs)} : nsChildren(defs, ns) # << >>}
  IN  UNION {{SubSeq(ns, 1, n) : n \in 2..Len(ns)} : ns \in shown} \ {Global}

spanChildren(syms) ==
  [start |-> CHOOSE p \in {s.range.start : s \in ToSet(syms)} :
               \A s \in ToSet(syms) : ~posLess(s.range.start, p),
   end   |-> CHOOSE p \in {s.range.end : s \in ToSet(syms)} :
               \A s \in ToSet(syms) : ~posLess(p, s.range.end)]

\* How deep the namespaces nest.
Deepest(defs) == Max({Len(d.ns) : d \in ToSet(defs)} \cup {2})

\* rebuildNSChildren, and for :: the root: the symbols of every namespace and
\* the nodes of the namespaces right below it, built up from the inner ones.
rebuildNSChildren(defs) ==
  LET nodes == nsNodes(defs)
      built[n \in 0..Deepest(defs)] ==
        [ns \in nodes \cup {Global} |->
           LET nested == SetToSeq({below \in nodes : n > 0 /\ parentNamespace(below) = ns})
               Node(below) ==
                 LET children == built[n - 1][below]
                     span     == spanChildren(children)
                 IN  [kind |-> "namespace", name |-> below, selection |-> span, range |-> span, children |-> children]
           IN  sortBySourcePosition(nsChildren(defs, ns) \o [i \in DOMAIN nested |-> Node(nested[i])])]
  IN  built[Deepest(defs)]

\* The outline of a page shows what is in ::request without the namespace.
Request == <<"", "request">>
hoist(root) ==
  EachOf(root, LAMBDA s : IF s.kind = "namespace" /\ s.name = Request THEN s.children ELSE <<s>>)

buildDocumentSymbols(defs, hoistRequest) ==
  LET root == rebuildNSChildren(defs)[Global] IN IF hoistRequest THEN hoist(root) ELSE root
=============================================================================
