------------------------------ MODULE Resolver ------------------------------
(* Name resolution (package resolve) and the call hierarchy built on it.   *)
(* Goto-definition goes from a reference to definition sites: the first of *)
(* its candidate names that is defined wins.  Find-references goes the     *)
(* other way without inverting anything: it resolves every reference of    *)
(* the workspace again, by a shorter path through the code, and keeps      *)
(* those that come out at the same name.  The two must agree.              *)
(*                                                                         *)
(* The workspace is the text map of the index; what the index answers is a *)
(* function of it (IndexImplementsTable in IndexProofs), here written with *)
(* the Result operators of FileUnits.  A cursor is the reference or the    *)
(* definition it is on, and the live text of a document is the indexed one *)
(* (LiveTextNotShadowed in LspServer).                                     *)
EXTENDS FileUnits, Hierarchy

CONSTANTS
  Simple,          \* names without a namespace
  Glob,            \* the last segment of an import pattern that ends in *
  Pages,           \* the .rvt files
  Global,          \* the namespace ::
  Requests,        \* ::request and what is nested in it: every page has its own
  NoName,          \* no name, no origin
  BaseOrder(_),    \* the order in which the session added the bases of a class
  Bindings(_, _, _) \* localDefinition: the bindings picked for a use in a text

\* A bare name is <<n>>, a fully-qualified one <<ns, n>>, an import pattern
\* <<ns, n>> or <<ns, Glob>>.  A reference by a relative name, such as app::run,
\* stands here with the name that qualify makes of it, which takes nothing but
\* the namespace around the reference; as written such a name is looked up
\* nowhere.
Qualified(name) == Len(name) = 2
BareNames == {<<n>> : n \in Simple}
QualifiedNames == Namespaces \X Simple

\* tcl.ContextRef, with the callable around it as enclosingDef finds it: the
\* position of its name, or 0.
References ==
  [kind : {"command", "variable"}, name : BareNames \cup QualifiedNames, ns : Namespaces,
   frame : {"namespace", "proc", "class"}, class : Classes \cup {NoClass}, pos : Positions,
   within : Positions \cup {0}]

ASSUME NamesAssumption == Names = BareNames \cup QualifiedNames \cup (Namespaces \X {Glob})
ASSUME RefsAssumption == Refs \subseteq References
ASSUME NamespacesAssumption == Global \in Namespaces \ Requests /\ Requests \subseteq Namespaces /\ Pages \subseteq Files
ASSUME NoNameAssumption == NoName \notin Names
ASSUME PositionsAssumption == 0 \notin Positions
ASSUME ClassesAssumption == IsFiniteSet(Classes)

VARIABLE text      \* text[f]: the indexed text of f

Init == text = [f \in Files |-> NoText]

IndexFile(f, c) == text' = [text EXCEPT ![f] = c]
RemoveFile(f)   == text[f] # NoText /\ text' = [text EXCEPT ![f] = NoText]

Next == \E f \in Files : RemoveFile(f) \/ \E c \in Contents : IndexFile(f, c)
Spec == Init /\ [][Next]_text

----------------------------------------------------------------------------
(* Lookup.                                                                 *)

\* Mutant of lookupScoped: pages share their ::request namespaces.
lookupShared(t, n, f) == LookupResult(t, n)

\* In a page, a name below ::request is the page's own, however deep.
OfRequest(n) == Qualified(n) /\ n[1] \in Requests
lookupScoped(t, n, f) == {l \in LookupResult(t, n) : f \in Pages /\ OfRequest(n) => l.file = f}

\* methodInClass and ivarInClass; MemberWalk has the walk itself.
InClass(t, kind, k, n) ==
  LET bases   == [c \in Classes |-> BaseOrder(UNION {UnitOf(t, f).bases[c] : f \in Files})]
      members == {c \in Classes : MemberResult(t, kind, c)[n] # {}}
  IN  UNION {MemberResult(t, kind, c)[n] : c \in FirstMatch(bases, members, k)}

\* The imports that cover n, as names for it.
ImportedAs(imports, n) ==
  LET matching == SelectSeq(imports, LAMBDA m : m[2] \in {n, Glob})
  IN  [i \in DOMAIN matching |-> <<matching[i][1], n>>]

\* An entry :: of the path makes a name nothing is defined under.
OnPath(path, n) ==
  LET below == SelectSeq(path, LAMBDA ns : ns # Global)
  IN  [i \in DOMAIN below |-> <<below[i], n>>]

\* The current namespace, imported commands, the namespace path, then ::.
commandCandidates(t, n, ns) ==
  LET decls == NamespaceResult(t, ns)
  IN  FirstOccurrences(<<<<ns, n>>>> \o ImportedAs(decls.imports, n) \o OnPath(decls.path, n)
                         \o (IF ns = Global THEN << >> ELSE <<<<Global, n>>>>))

candidates(t, r) ==
  CASE Qualified(r.name) -> <<r.name>>
    [] ~Qualified(r.name) /\ r.kind = "command" -> commandCandidates(t, r.name[1], r.ns)
    [] ~Qualified(r.name) /\ r.kind = "variable" /\ r.frame = "namespace" -> <<<<r.ns, r.name[1]>>>>
    [] OTHER -> << >>

\* The first candidate that something is defined under, if any.
FirstDefined(t, r, f) ==
  LET names == candidates(t, r)
      Found(i) == lookupScoped(t, names[i], f) # {}
  IN  {names[i] : i \in {j \in 1..Len(names) : Found(j) /\ \A k \in 1..j - 1 : ~Found(k)}}

----------------------------------------------------------------------------
(* Goto-definition.                                                        *)

\* localAt: a variable in a proc frame is taken for a proc-local one.
IsLocal(r) == r.kind = "variable" /\ r.frame = "proc"

localDefinition(t, f, r) ==
  UNION {IF b.origin # NoName /\ lookupScoped(t, b.origin, f) # {}
         THEN lookupScoped(t, b.origin, f)
         ELSE {[file |-> f, kind |-> "local", name |-> r.name, pos |-> b.pos]} :
           b \in Bindings(f, t[f], r)}

\* Mutant of OwnMembers: the class around the reference does not matter.
AnyMembers(t, r, kind) == UNION {InClass(t, kind, k, r.name) : k \in Classes}

\* The member of the class around the reference that has its name.
OwnMembers(t, r, kind) ==
  IF r.frame = "proc" /\ r.class # NoClass THEN InClass(t, kind, r.class, r.name) ELSE {}

\* The first of two sets of sites that has any.
Else(first, second) == IF first # {} THEN first ELSE second

Definition(t, f, r) ==
  IF IsLocal(r)
  THEN Else(localDefinition(t, f, r), OwnMembers(t, r, "ivar"))
  ELSE Else(IF r.kind = "command" THEN OwnMembers(t, r, "method") ELSE {},
            UNION {lookupScoped(t, n, f) : n \in FirstDefined(t, r, f)})

----------------------------------------------------------------------------
(* Find-references, from a reference or a definition that has target as    *)
(* its fully-qualified name.  A cursor on a proc-local symbol never gets   *)
(* here: its references are those of its proc.                             *)

\* Mutant of refFQ: the primary candidate, defined or not.
refPrimary(t, r, f) == IF candidates(t, r) = << >> THEN NoName ELSE Head(candidates(t, r))

\* The first candidate that is defined, else the primary one.
refFQ(t, r, f) ==
  LET defined == FirstDefined(t, r, f)
      names   == candidates(t, r)
  IN  CASE defined # {}                    -> CHOOSE n \in defined : TRUE
        [] defined = {} /\ Len(names) > 0 -> names[1]
        [] OTHER                           -> NoName

\* A symbol of a page's own is looked for in that page only.
Scanned(f, target) == IF f \in Pages /\ OfRequest(target) THEN {f} ELSE Files

ReferencesTo(t, f, target) ==
  UNION {{[file |-> g, ref |-> r] : r \in {x \in UnitOf(t, g).refs : refFQ(t, x, g) = target}} :
           g \in Scanned(f, target)}

----------------------------------------------------------------------------
(* The call hierarchy: procs and methods, each a site in a file.           *)

Callables(t, f) == {s \in UnitOf(t, f).defs : s.kind \in {"proc", "method"}}

\* Command references that methodResolvesTo takes to the method s of f.
MethodCallSites(t, f, s) ==
  LET bases   == [c \in Classes |-> BaseOrder(UNION {UnitOf(t, g).bases[c] : g \in Files})]
      members == {c \in Classes : MemberResult(t, "method", c)[s.name] # {}}
      IsCall(r) == /\ r.kind = "command" /\ r.name = s.name /\ r.class # NoClass
                   /\ ReachedPastOthers(bases, members, r.class, s.class)
  IN  UNION {{[file |-> g, ref |-> r] : r \in {x \in UnitOf(t, g).refs : IsCall(x)}} : g \in Files}

CallSites(t, f, s) ==
  IF s.kind = "method" THEN MethodCallSites(t, f, s) ELSE ReferencesTo(t, f, s.name)

\* The callables around the call sites of s, and the calls of s resolved.
incomingCalls(t, f, s) == {[file |-> c.file, pos |-> c.ref.within] : c \in CallSites(t, f, s)}
outgoingCalls(t, f, s) ==
  UNION {{[file |-> l.file, pos |-> l.pos] :
            l \in {d \in Definition(t, f, r) : d.kind \in {"proc", "method"}}} :
           r \in {x \in UnitOf(t, f).refs : x.kind = "command" /\ x.within = s.pos}}

----------------------------------------------------------------------------
(* Properties.                                                             *)

\* The sites that define n in f.
DefinedIn(f, n) == Located(f, NamedSites(UnitOf(text, f), n))

\* The references of the workspace that are no proc-locals for localAt, each
\* with what it resolves to.
Uses ==
  UNION {{[at |-> [file |-> f, ref |-> r], sites |-> Definition(text, f, r)] :
            r \in {x \in UnitOf(text, f).refs : ~IsLocal(x)}} : f \in Files}

\* Goto-definition takes the call to a method of the class around it.
ToMethod(r) == r.kind = "command" /\ OwnMembers(text, r, "method") # {}

\* A reference is found from a definition exactly when goto-definition takes
\* it there ("the same first-match precedence as goto-definition",
\* resolve.go:514), whatever namespaces, imports, paths and pages the files
\* put in between.  Left out are calls of methods, see CallsAgree, and
\* qualified variables in procs, which localAt takes for proc-locals.
ReferencesInvertDefinition ==
  LET uses == Uses
  IN  \A g \in Files : \A n \in NamesOf(UnitOf(text, g)) :
        {c \in ReferencesTo(text, g, n) : ~IsLocal(c.ref) /\ ~ToMethod(c.ref)}
          = {c.at : c \in {use \in uses : DefinedIn(g, n) \subseteq use.sites}}

\* The callables of the workspace, each as <<file, definition>>, and who
\* calls whom: as the callers see it and as the callees do.  A call outside
\* every callable (pos 0) is nobody's outgoing call.
AllCallables == UNION {{<<f, s>> : s \in Callables(text, f)} : f \in Files}
Place(c) == [file |-> c[1], pos |-> c[2].pos]
CallsOut == UNION {{<<Place(c), callee>> : callee \in outgoingCalls(text, c[1], c[2])} : c \in AllCallables}
CallsIn  == {pair \in UNION {{<<caller, Place(c)>> : caller \in incomingCalls(text, c[1], c[2])} :
                                c \in AllCallables} : pair[1].pos # 0}

\* Every call that a callable makes is found again from the callable it calls.
NoCallerMissing == CallsOut \subseteq CallsIn

\* Outgoing calls are "symmetric with incoming's enclosingDef grouping"
\* (callhierarchy.go:251-252): nobody is listed as a caller who does not call.
\* The code breaks it: refFQ does not look for a method of the class around a
\* call, so the call also counts as one of the proc that the method hides.
CallsAgree == CallsIn = CallsOut

\* A file whose declarations are all names of ::request, with nothing about
\* classes, no imports and no namespace path.
OnlyItsOwn(p) ==
  /\ \A n \in NamesOf(UnitOf(text, p)) : OfRequest(n)
  /\ ClassesOf(UnitOf(text, p)) = {}
  /\ \A ns \in Namespaces : UnitOf(text, p).imports[ns] = << >> /\ UnitOf(text, p).path[ns] = << >>

\* "The ::request namespace is recreated per request and not shared across
\* .rvt pages" (resolve.go:498-499): what a page defines in its own ::request
\* does not change what another page's names mean, wherever these look for
\* it.  Imports and paths of ::request are no such secret, nor are members of
\* its classes: the index merges those of all pages (index.go:303), and
\* methodInClass does not ask where a class is from (resolve.go:134).
PagesApart ==
  \A p, q \in Pages : p # q /\ OnlyItsOwn(q) =>
    \A r \in UnitOf(text, p).refs :
      Definition(text, p, r) = Definition([text EXCEPT ![q] = NoText], p, r)
=============================================================================
