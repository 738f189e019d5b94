------------------------------- MODULE Index -------------------------------
(* The workspace index (package index, type Index): maps from names to     *)
(* definition sites, and, for each file, a ledger of what the file put     *)
(* into them.  Re-indexing a file first removes it, and removal looks only *)
(* where the file's ledger points, so a contribution the ledger does not   *)
(* record is never removed, and one recorded twice is removed too early.   *)
(*                                                                         *)
(* A list of locations is the set of its members and a missing map entry   *)
(* is the empty set: what the answers contain is modelled, not the order   *)
(* in which the edits of the session left them.  The order of a namespace  *)
(* path, which the code does define, is kept (Merged).                     *)
EXTENDS FileUnits

CONSTANT NotCached   \* nsCache has no entry

VARIABLES
  defsByName,        \* defsByName[n]: the sites that define n
  fileDefs,          \* ledger: fileDefs[f], the names f defines
  src,               \* src[f]: the text of f, NoText when f is not indexed
  fileNS,            \* fileNS[f]: the namespace declarations of f
  fileRefs,          \* fileRefs[f]: the reference sites in f
  nsCache,           \* nsCache[ns]: the memoized merge, or NotCached
  classes,           \* classes[k]: the ClassInfo aggregated over the files
  fileClassKeys,     \* ledger: the classes f contributes to
  fileClassInherit,  \* ledger: fileClassInherit[f][k], the edges of k credited to f
  answer             \* the last query with its result
tables == <<defsByName, fileDefs, src, fileNS, fileRefs, classes, fileClassKeys, fileClassInherit>>
vars == <<tables, nsCache, answer>>

NoAnswer == <<<<"none", "none">>, "none">>

NoSites == [n \in Names |-> {}]
NoEdges == [k \in Classes |-> {}]
NoClassInfo == [DefSites |-> {}, Methods |-> NoSites, Ivars |-> NoSites, Inherit |-> {}]
EmptyCache == [ns \in Namespaces |-> NotCached]

Init ==
  /\ defsByName = NoSites
  /\ fileDefs = [f \in Files |-> {}]
  /\ src = [f \in Files |-> NoText]
  /\ fileNS = [f \in Files |-> Declared(EmptyUnit)]
  /\ fileRefs = [f \in Files |-> {}]
  /\ nsCache = EmptyCache
  /\ classes = [k \in Classes |-> NoClassInfo]
  /\ fileClassKeys = [f \in Files |-> {}]
  /\ fileClassInherit = [f \in Files |-> NoEdges]
  /\ answer = NoAnswer

----------------------------------------------------------------------------
(* RemoveFile, seen by one table each.                                     *)

filterLocs(locs, f) == {l \in locs : l.file # f}

\* Mutant of DefsWithout: the entry goes with the first file that leaves it.
DefsWithoutName(f) == [n \in Names |-> IF n \in fileDefs[f] THEN {} ELSE defsByName[n]]

\* Only the names in the ledger of f are filtered.
DefsWithout(f) == [n \in Names |-> IF n \in fileDefs[f] THEN filterLocs(defsByName[n], f)
                                                       ELSE defsByName[n]]

\* Mutant of ClassWithout: instance variables are not filtered.
ClassWithoutButIvars(f, k) ==
  LET ci == classes[k]
  IN  IF k \notin fileClassKeys[f] THEN ci
      ELSE [ci EXCEPT !.DefSites = filterLocs(ci.DefSites, f),
                      !.Methods  = [n \in Names |-> filterLocs(ci.Methods[n], f)],
                      !.Inherit  = ci.Inherit \ fileClassInherit[f][k]]

\* Only the classes in the ledger of f are filtered, and they lose the edges
\* credited to f, whoever else declares them.
ClassWithout(f, k) ==
  LET ci == classes[k]
  IN  IF k \notin fileClassKeys[f] THEN ci
      ELSE [DefSites |-> filterLocs(ci.DefSites, f),
            Methods  |-> [n \in Names |-> filterLocs(ci.Methods[n], f)],
            Ivars    |-> [n \in Names |-> filterLocs(ci.Ivars[n], f)],
            Inherit  |-> ci.Inherit \ fileClassInherit[f][k]]

\* Mutant of SetLedgers: the names of the last text stay in the ledger.
AddToLedgers(f, u) ==
  /\ fileDefs' = [fileDefs EXCEPT ![f] = @ \cup NamesOf(u)]
  /\ fileClassKeys' = [fileClassKeys EXCEPT ![f] = ClassesOf(u)]

\* What f contributes to by name; with the empty unit, nothing.
SetLedgers(f, u) ==
  /\ fileDefs' = [fileDefs EXCEPT ![f] = NamesOf(u)]
  /\ fileClassKeys' = [fileClassKeys EXCEPT ![f] = ClassesOf(u)]

\* Mutant of SetRefs: a text without references leaves the last ones.
SetRefsIfAny(f, refs) == fileRefs' = [fileRefs EXCEPT ![f] = IF refs = {} THEN @ ELSE refs]
SetRefs(f, refs) == fileRefs' = [fileRefs EXCEPT ![f] = refs]

\* Mutant of ForgetMerges: the memo survives a change of the files.
KeepMerges == UNCHANGED nsCache
ForgetMerges == nsCache' = EmptyCache

RemoveFile(f) ==
  /\ defsByName' = DefsWithout(f)
  /\ classes' = [k \in Classes |-> ClassWithout(f, k)]
  /\ fileClassInherit' = [fileClassInherit EXCEPT ![f] = NoEdges]
  /\ SetLedgers(f, EmptyUnit)
  /\ src' = [src EXCEPT ![f] = NoText]
  /\ fileNS' = [fileNS EXCEPT ![f] = Declared(EmptyUnit)]
  /\ SetRefs(f, {})
  /\ ForgetMerges
  /\ UNCHANGED answer

----------------------------------------------------------------------------
(* IndexFile: RemoveFile, then the contributions of the new content.       *)

\* ci with what the unit u of f adds to class k.
ClassWith(ci, f, u, k) ==
  [DefSites |-> ci.DefSites \cup Located(f, ClassSites(u, k)),
   Methods  |-> [n \in Names |-> ci.Methods[n] \cup Located(f, MemberSites(u, "method", k, n))],
   Ivars    |-> [n \in Names |-> ci.Ivars[n] \cup Located(f, MemberSites(u, "ivar", k, n))],
   Inherit  |-> ci.Inherit \cup u.bases[k]]

\* Mutant of NewEdges: every edge of the text is credited to it.
AllEdges(f, u) == u.bases

\* An edge some other file already contributed is not credited to f.
NewEdges(f, u) == [k \in Classes |-> u.bases[k] \ ClassWithout(f, k).Inherit]

IndexFile(f, c) ==
  LET u == Analysis(f, c)
  IN  /\ defsByName' = [n \in Names |-> DefsWithout(f)[n] \cup Located(f, NamedSites(u, n))]
      /\ classes' = [k \in Classes |-> ClassWith(ClassWithout(f, k), f, u, k)]
      /\ fileClassInherit' = [fileClassInherit EXCEPT ![f] = NewEdges(f, u)]
      /\ SetLedgers(f, u)
      /\ src' = [src EXCEPT ![f] = c]
      /\ fileNS' = [fileNS EXCEPT ![f] = Declared(u)]
      /\ SetRefs(f, u.refs)
      /\ ForgetMerges
      /\ UNCHANGED answer

----------------------------------------------------------------------------
(* The queries.  Namespace is the only one that changes the index.         *)

Answer(query, arg, result) == answer' = <<<<query, arg>>, result>>

Namespace(ns) ==
  LET merged == IF nsCache[ns] # NotCached THEN nsCache[ns] ELSE Merged(fileNS, ns)
  IN  /\ nsCache' = [nsCache EXCEPT ![ns] = merged]
      /\ Answer("Namespace", ns, merged)
      /\ UNCHANGED tables

\* Mutant of Lookup: one definition site is enough.
LookupFirst(n) == /\ Answer("Lookup", n, IF defsByName[n] = {} THEN {}
                                         ELSE {CHOOSE l \in defsByName[n] : TRUE})
                  /\ UNCHANGED <<tables, nsCache>>

Lookup(n) == /\ Answer("Lookup", n, defsByName[n])
             /\ UNCHANGED <<tables, nsCache>>

\* Inherit is left out of the answer here: see InheritComplete.
Class(k) == /\ Answer("Class", k, [DefSites |-> classes[k].DefSites,
                                   Methods  |-> classes[k].Methods,
                                   Ivars    |-> classes[k].Ivars])
            /\ UNCHANGED <<tables, nsCache>>

FileRefs(f) == /\ Answer("FileRefs", f, fileRefs[f])
               /\ UNCHANGED <<tables, nsCache>>

Source(f) == /\ Answer("Source", f, src[f])
             /\ UNCHANGED <<tables, nsCache>>

FilesQuery == /\ Answer("Files", "all", {f \in Files : src[f] # NoText})
              /\ UNCHANGED <<tables, nsCache>>

AllSymbols ==
  /\ Answer("AllSymbols", "all",
            [symbols |-> UNION {defsByName[n] : n \in Names},
             members |-> [k \in Classes |-> UNION {classes[k].Methods[n] \cup classes[k].Ivars[n] :
                                                     n \in Names}]])
  /\ UNCHANGED <<tables, nsCache>>

Query == \/ \E n \in Names : Lookup(n)
         \/ \E k \in Classes : Class(k)
         \/ \E ns \in Namespaces : Namespace(ns)
         \/ \E f \in Files : FileRefs(f) \/ Source(f)
         \/ FilesQuery
         \/ AllSymbols

Next == \/ \E f \in Files, c \in Contents : IndexFile(f, c)
        \/ \E f \in Files : RemoveFile(f)
        \/ Query

Spec == Init /\ [][Next]_vars

----------------------------------------------------------------------------
(* Properties.                                                             *)

TypeOK ==
  /\ defsByName \in [Names -> SUBSET Locations]
  /\ fileDefs \in [Files -> SUBSET Names]
  /\ src \in [Files -> Contents \cup {NoText}]
  /\ fileNS \in [Files -> Declarations]
  /\ fileRefs \in [Files -> SUBSET Refs]
  /\ DOMAIN nsCache = Namespaces
  /\ classes \in [Classes -> [DefSites : SUBSET Locations,
                               Methods  : [Names -> SUBSET Locations],
                               Ivars    : [Names -> SUBSET Locations],
                               Inherit  : SUBSET Classes]]
  /\ fileClassKeys \in [Files -> SUBSET Classes]
  /\ fileClassInherit \in [Files -> [Classes -> SUBSET Classes]]

Unit(f) == UnitOf(src, f)

\* The ledgers of a file name exactly what its current text contributes: a
\* removal visits every map entry that holds a location of the file.
LedgersExact ==
  \A f \in Files : /\ fileDefs[f] = NamesOf(Unit(f))
                  /\ fileClassKeys[f] = ClassesOf(Unit(f))

\* defsByName holds the definitions of the indexed texts, all of them and
\* nothing else: no site of an earlier text of a file, or of a removed file,
\* survives, and no removal takes a site of another file with it.
DefsExact ==
  \A n \in Names :
    defsByName[n] = UNION {Located(f, NamedSites(Unit(f), n)) : f \in Files}

\* The same for the class table, whose entries several files fill together
\* (a declaration here, itcl::body definitions there).
MembersExact ==
  \A k \in Classes :
    /\ classes[k].DefSites = UNION {Located(f, ClassSites(Unit(f), k)) : f \in Files}
    /\ \A n \in Names :
         /\ classes[k].Methods[n] = UNION {Located(f, MemberSites(Unit(f), "method", k, n)) : f \in Files}
         /\ classes[k].Ivars[n] = UNION {Located(f, MemberSites(Unit(f), "ivar", k, n)) : f \in Files}

\* The per-file stores follow the text.
StoresExact ==
  \A f \in Files : /\ fileNS[f] = Declared(Unit(f))
                  /\ fileRefs[f] = Unit(f).refs

\* Every inherit edge of the index is credited to exactly one file, and that
\* file declares it now: no edge outlives its last declaration.
EdgesCredited ==
  \A k \in Classes :
    /\ classes[k].Inherit = UNION {fileClassInherit[f][k] : f \in Files}
    /\ \A f \in Files : fileClassInherit[f][k] \subseteq Unit(f).bases[k]
    /\ \A f, g \in Files : f # g => fileClassInherit[f][k] \cap fileClassInherit[g][k] = {}

\* A memoized merge is what merging now would give: the memo never answers
\* for declarations that have been edited away.
NsCacheCoherent ==
  \A ns \in Namespaces : nsCache[ns] = NotCached \/ nsCache[ns] = Merged(fileNS, ns)

\* ClassInfo "aggregates per-class member and inheritance information
\* collected across all indexed files" (index.go:27-28): every base that an
\* indexed text declares is there.  The code breaks it: an edge two files
\* declare is credited to the first and leaves with it.
InheritComplete ==
  \A k \in Classes : UNION {Unit(f).bases[k] : f \in Files} \subseteq classes[k].Inherit

\* The answers of the incremental index are those of a table of the current
\* contents: indexing, re-indexing, removing and asking in any order is
\* indistinguishable from indexing from nothing.
Table == INSTANCE WorkspaceTable WITH text <- src
ImplementsTable == Table!Spec
=============================================================================
