----------------------------- MODULE FileUnits -----------------------------
(* What one indexed file contributes to the workspace.                     *)
(*                                                                         *)
(* source.IndexUnit analyses a file once and returns its definitions, its  *)
(* references, its namespace declarations and its inherit edges.  The      *)
(* index keeps nothing else of a file, so for the index a content IS its   *)
(* analysis: the parser is the constant operator Analysis, applied to the  *)
(* path too because a .rvt page is extracted before it is analysed.        *)
EXTENDS Sequences, SequencesExt

CONSTANTS
  Files,          \* workspace paths
  FileOrder,      \* the same paths in the order of sort.Strings
  Contents,       \* the texts a file can hold
  NoText,         \* the file is not indexed
  Names,          \* names of definitions; a class is named by its class name
  Classes,        \* fully-qualified class names
  NoClass,        \* Definition.Class = ""
  Namespaces,
  Refs,           \* reference sites
  Positions,      \* byte ranges in a file
  Analysis(_, _)  \* source.IndexUnit(path, content)

\* tcl.DefKind; "local" stands for the frame-local kinds (locals, parameters,
\* links), which the index skips.
WorkspaceKinds == {"proc", "nsvar", "class"}
MemberKinds    == {"method", "ivar"}
Kinds          == WorkspaceKinds \cup MemberKinds \cup {"local"}

\* tcl.Definition, the part of it the index reads.
Sites == [kind : Kinds, name : Names, class : Classes \cup {NoClass}, pos : Positions]

\* index.Location: a definition site and the file it is in.
Locations == [file : Files, kind : Kinds, name : Names, pos : Positions]

\* tcl.FileIndex.  A map without an entry is a total function to an empty value.
Units == [defs    : SUBSET Sites,
          bases   : [Classes -> SUBSET Classes],
          refs    : SUBSET Refs,
          path    : [Namespaces -> Seq(Namespaces)],
          imports : [Namespaces -> Seq(Names)]]

EmptyUnit == [defs    |-> {},
              bases   |-> [k \in Classes |-> {}],
              refs    |-> {},
              path    |-> [ns \in Namespaces |-> << >>],
              imports |-> [ns \in Namespaces |-> << >>]]

ASSUME AnalysisAssumption ==
  \A f \in Files, c \in Contents : Analysis(f, c) \in Units
ASSUME NoTextAssumption == NoText \notin Contents
ASSUME FileOrderAssumption == ToSet(FileOrder) = Files /\ Len(FileOrder) = Cardinality(Files)
ASSUME ClassNamesAssumption == Classes \subseteq Names

\* The contribution of f when the files hold text.
UnitOf(text, f) == IF text[f] = NoText THEN EmptyUnit ELSE Analysis(f, text[f])

\* Mutant of Located: the kind is not stored.
LocatedWithoutKind(f, sites) == {[file |-> f, name |-> s.name, pos |-> s.pos] : s \in sites}
Located(f, sites) == {[file |-> f, kind |-> s.kind, name |-> s.name, pos |-> s.pos] : s \in sites}

\* The sites of a unit that the workspace-wide table holds under n ...
NamedSites(u, n) == {s \in u.defs : s.kind \in WorkspaceKinds /\ s.name = n}
\* ... and those the class table holds: declarations of k, members n of k.
ClassSites(u, k) == {s \in u.defs : s.kind = "class" /\ s.name = k}
MemberSites(u, kind, k, n) == {s \in u.defs : s.kind = kind /\ s.class = k /\ s.name = n}

\* The names and the classes a unit contributes to.
NamesOf(u) == {n \in Names : NamedSites(u, n) # {}}
ClassesOf(u) == {k \in Classes : \/ ClassSites(u, k) # {}
                                 \/ \E kind \in MemberKinds, n \in Names : MemberSites(u, kind, k, n) # {}
                                 \/ u.bases[k] # {}}

\* The namespace declarations of a unit (tcl.NamespaceInfo, per namespace).
Declarations == [path    : [Namespaces -> Seq(Namespaces)],
                 imports : [Namespaces -> Seq(Names)]]
Declared(u) == [path |-> u.path, imports |-> u.imports]

\* A sequence without its repetitions, in the order of first occurrence.
FirstOccurrences(s) ==
  FoldLeft(LAMBDA kept, e : IF Contains(kept, e) THEN kept ELSE Append(kept, e), << >>, s)

\* The search path and imports of ns over all files: the files in their order,
\* each file's declarations in theirs.  decls[f] is what f declares.
Merged(decls, ns) ==
  LET InFileOrder(Field(_)) ==
        FirstOccurrences(FlattenSeq([i \in 1..Len(FileOrder) |-> Field(decls[FileOrder[i]])]))
  IN  [path    |-> InFileOrder(LAMBDA d : d.path[ns]),
       imports |-> InFileOrder(LAMBDA d : d.imports[ns])]

----------------------------------------------------------------------------
(* The answer to every query of the index, from the texts alone.           *)

Queries == ({"Lookup"} \X Names) \cup ({"Class"} \X Classes) \cup ({"Namespace"} \X Namespaces)
             \cup ({"FileRefs", "Source"} \X Files) \cup ({"Files", "AllSymbols"} \X {"all"})

LookupResult(text, n) == UNION {Located(f, NamedSites(UnitOf(text, f), n)) : f \in Files}

MemberResult(text, kind, k) ==
  [n \in Names |-> UNION {Located(f, MemberSites(UnitOf(text, f), kind, k, n)) : f \in Files}]

\* Inherit edges are not among the answers: the code loses some of them, see
\* InheritComplete in Index.
ClassResult(text, k) ==
  [DefSites |-> UNION {Located(f, ClassSites(UnitOf(text, f), k)) : f \in Files},
   Methods  |-> MemberResult(text, "method", k),
   Ivars    |-> MemberResult(text, "ivar", k)]

NamespaceResult(text, ns) == Merged([f \in Files |-> Declared(UnitOf(text, f))], ns)

\* The symbols outside classes, and the members of each class.
SymbolsResult(text) ==
  [symbols |-> UNION {LookupResult(text, n) : n \in Names},
   members |-> [k \in Classes |-> UNION {MemberResult(text, "method", k)[n]
                                           \cup MemberResult(text, "ivar", k)[n] : n \in Names}]]

Answers(text) ==
  [Lookup     |-> [n \in Names |-> LookupResult(text, n)],
   Class      |-> [k \in Classes |-> ClassResult(text, k)],
   Namespace  |-> [ns \in Namespaces |-> NamespaceResult(text, ns)],
   FileRefs   |-> [f \in Files |-> UnitOf(text, f).refs],
   Source     |-> [f \in Files |-> text[f]],
   Files      |-> [all \in {"all"} |-> {f \in Files : text[f] # NoText}],
   AllSymbols |-> [all \in {"all"} |-> SymbolsResult(text)]]

Result(text, q) == Answers(text)[q[1]][q[2]]
=============================================================================
