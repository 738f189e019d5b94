---------------------------- MODULE IndexProofs ----------------------------
(* Proofs about Index, for every set of files, texts, names and classes    *)
(* and every analysis: its type, the exactness of its tables, the          *)
(* coherence of its memo, and that it implements WorkspaceTable.           *)
EXTENDS Index, TLAPS

IndInv == /\ TypeOK
          /\ LedgersExact
          /\ DefsExact
          /\ MembersExact
          /\ StoresExact
          /\ EdgesCredited
          /\ NsCacheCoherent

\* A step that makes u the unit of f: what IndexFile does with the analysis
\* of a text and, as RemoveFileReplaces shows, RemoveFile with the empty unit.
Replaces(f, u) ==
  /\ defsByName' = [n \in Names |-> DefsWithout(f)[n] \cup Located(f, NamedSites(u, n))]
  /\ classes' = [k \in Classes |-> ClassWith(ClassWithout(f, k), f, u, k)]
  /\ fileClassInherit' = [fileClassInherit EXCEPT ![f] = NewEdges(f, u)]
  /\ fileDefs' = [fileDefs EXCEPT ![f] = NamesOf(u)]
  /\ fileClassKeys' = [fileClassKeys EXCEPT ![f] = ClassesOf(u)]
  /\ fileNS' = [fileNS EXCEPT ![f] = Declared(u)]
  /\ fileRefs' = [fileRefs EXCEPT ![f] = u.refs]
  /\ nsCache' = EmptyCache
  /\ src' \in [Files -> Contents \cup {NoText}]
  /\ \A g \in Files : UnitOf(src', g) = IF g = f THEN u ELSE Unit(g)

\* The empty unit contributes nothing.
LEMMA EmptyUnitTyped == EmptyUnit \in Units
  BY DEF EmptyUnit, Units

\* The declarations of a unit are declarations.
LEMMA DeclaredTyped ==
  ASSUME NEW u \in Units
  PROVE  Declared(u) \in Declarations
  BY DEF Declared, Declarations, Units

\* Nothing is declared, named or inherited in the empty unit.
LEMMA EmptyUnitSites ==
  /\ \A n \in Names : NamedSites(EmptyUnit, n) = {}
  /\ \A k \in Classes : ClassSites(EmptyUnit, k) = {}
  /\ \A kind, k, n : MemberSites(EmptyUnit, kind, k, n) = {}
  /\ NamesOf(EmptyUnit) = {}
  /\ ClassesOf(EmptyUnit) = {}
  BY DEF EmptyUnit, NamedSites, ClassSites, MemberSites, NamesOf, ClassesOf

\* The unit of the text the index holds for a file is a unit.
LEMMA UnitTyped ==
  ASSUME TypeOK, NEW f \in Files
  PROVE  Unit(f) \in Units
  BY EmptyUnitTyped, AnalysisAssumption DEF TypeOK, Unit, UnitOf

\* Both operations replace the unit of one file.
LEMMA IndexFileReplaces ==
  ASSUME TypeOK, NEW f \in Files, NEW c \in Contents, IndexFile(f, c)
  PROVE  Replaces(f, Analysis(f, c)) /\ Analysis(f, c) \in Units
<1>1. src' = [src EXCEPT ![f] = c]
  BY DEF IndexFile
<1>2. src' \in [Files -> Contents \cup {NoText}]
  BY <1>1 DEF TypeOK
<1>3. \A g \in Files : UnitOf(src', g) = IF g = f THEN Analysis(f, c) ELSE Unit(g)
  BY <1>1, NoTextAssumption DEF UnitOf, Unit, TypeOK
<1> QED
  BY <1>2, <1>3, AnalysisAssumption DEF IndexFile, Replaces, SetLedgers, SetRefs, ForgetMerges

\* Removing a file replaces its unit with the empty one.
LEMMA RemoveFileReplaces ==
  ASSUME TypeOK, NEW f \in Files, RemoveFile(f)
  PROVE  Replaces(f, EmptyUnit) /\ EmptyUnit \in Units
<1>1. \A S : Located(f, {}) = {} /\ S \cup {} = S
  BY DEF Located
<1>2. defsByName' = [n \in Names |-> DefsWithout(f)[n] \cup Located(f, NamedSites(EmptyUnit, n))]
  BY <1>1, EmptyUnitSites DEF RemoveFile, DefsWithout
<1>3. ASSUME NEW k \in Classes
      PROVE  ClassWith(ClassWithout(f, k), f, EmptyUnit, k) = ClassWithout(f, k)
  <2>1. EmptyUnit.bases[k] = {}
    BY DEF EmptyUnit
  <2>2. ClassWithout(f, k) \in [DefSites : SUBSET Locations,
                                Methods  : [Names -> SUBSET Locations],
                                Ivars    : [Names -> SUBSET Locations],
                                Inherit  : SUBSET Classes]
    BY DEF TypeOK, ClassWithout, filterLocs
  <2>3. \A n \in Names : /\ MemberSites(EmptyUnit, "method", k, n) = {}
                        /\ MemberSites(EmptyUnit, "ivar", k, n) = {}
    BY EmptyUnitSites
  <2> DEFINE ci == ClassWithout(f, k)
  <2>4. [n \in Names |-> ci.Methods[n] \cup Located(f, MemberSites(EmptyUnit, "method", k, n))] = ci.Methods
    BY <1>1, <2>2, <2>3
  <2>5. [n \in Names |-> ci.Ivars[n] \cup Located(f, MemberSites(EmptyUnit, "ivar", k, n))] = ci.Ivars
    BY <1>1, <2>2, <2>3
  <2>6. ci.DefSites \cup Located(f, ClassSites(EmptyUnit, k)) = ci.DefSites
    BY <1>1, EmptyUnitSites
  <2>7. ci.Inherit \cup EmptyUnit.bases[k] = ci.Inherit
    BY <1>1, <2>1
  <2> HIDE DEF ci
  <2>8. ClassWith(ci, f, EmptyUnit, k) = ci
    BY <2>2, <2>4, <2>5, <2>6, <2>7 DEF ClassWith, ci
  <2> QED
    BY <2>8 DEF ci
<1>4. NewEdges(f, EmptyUnit) = NoEdges
  BY DEF NewEdges, NoEdges, EmptyUnit
<1>5. src' \in [Files -> Contents \cup {NoText}]
  BY DEF RemoveFile, TypeOK
<1>6. \A g \in Files : UnitOf(src', g) = IF g = f THEN EmptyUnit ELSE Unit(g)
  BY DEF RemoveFile, UnitOf, Unit, TypeOK
<1>7. EmptyUnit.refs = {}
  BY DEF EmptyUnit
<1>8. classes' = [k \in Classes |-> ClassWith(ClassWithout(f, k), f, EmptyUnit, k)]
  BY <1>3 DEF RemoveFile
<1>9. /\ fileDefs' = [fileDefs EXCEPT ![f] = NamesOf(EmptyUnit)]
      /\ fileClassKeys' = [fileClassKeys EXCEPT ![f] = ClassesOf(EmptyUnit)]
      /\ fileClassInherit' = [fileClassInherit EXCEPT ![f] = NewEdges(f, EmptyUnit)]
      /\ fileNS' = [fileNS EXCEPT ![f] = Declared(EmptyUnit)]
      /\ fileRefs' = [fileRefs EXCEPT ![f] = EmptyUnit.refs]
      /\ nsCache' = EmptyCache
  BY <1>4, <1>7, EmptyUnitSites DEF RemoveFile, SetLedgers, SetRefs, ForgetMerges
<1> QED
  BY <1>2, <1>5, <1>6, <1>8, <1>9, EmptyUnitTyped DEF Replaces

----------------------------------------------------------------------------
(* Replacing a unit preserves each part of the invariant.                  *)

\* Replacing a unit leaves every table well typed.
LEMMA ReplaceTypeOK ==
  ASSUME TypeOK, NEW f \in Files, NEW u \in Units, Replaces(f, u)
  PROVE  TypeOK'
<1>1. \A S : S \subseteq u.defs => Located(f, S) \subseteq Locations
  BY DEF Located, Locations, Units, Sites
<1>2. ASSUME NEW n \in Names PROVE Located(f, NamedSites(u, n)) \subseteq Locations
  BY <1>1 DEF NamedSites
<1>3. ASSUME NEW k \in Classes
      PROVE  /\ Located(f, ClassSites(u, k)) \subseteq Locations
             /\ \A n \in Names : /\ Located(f, MemberSites(u, "method", k, n)) \subseteq Locations
                                /\ Located(f, MemberSites(u, "ivar", k, n)) \subseteq Locations
  BY <1>1 DEF ClassSites, MemberSites
<1>4. defsByName' \in [Names -> SUBSET Locations]
  BY <1>2 DEF Replaces, TypeOK, DefsWithout, filterLocs
<1>5. ASSUME NEW k \in Classes
      PROVE  ClassWithout(f, k) \in [DefSites : SUBSET Locations,
                                     Methods  : [Names -> SUBSET Locations],
                                     Ivars    : [Names -> SUBSET Locations],
                                     Inherit  : SUBSET Classes]
  BY DEF TypeOK, ClassWithout, filterLocs
<1>6. ASSUME NEW k \in Classes
      PROVE  ClassWith(ClassWithout(f, k), f, u, k)
               \in [DefSites : SUBSET Locations,
                    Methods  : [Names -> SUBSET Locations],
                    Ivars    : [Names -> SUBSET Locations],
                    Inherit  : SUBSET Classes]
  BY <1>3, <1>5 DEF ClassWith, Units
<1>7. classes' \in [Classes -> [DefSites : SUBSET Locations,
                               Methods  : [Names -> SUBSET Locations],
                               Ivars    : [Names -> SUBSET Locations],
                               Inherit  : SUBSET Classes]]
  BY <1>6 DEF Replaces
<1>8. /\ fileDefs' \in [Files -> SUBSET Names]
      /\ fileClassKeys' \in [Files -> SUBSET Classes]
  BY DEF Replaces, TypeOK, NamesOf, ClassesOf
<1>9. fileClassInherit' \in [Files -> [Classes -> SUBSET Classes]]
  BY DEF Replaces, TypeOK, NewEdges, Units
<1>10. /\ fileRefs' \in [Files -> SUBSET Refs]
       /\ fileNS' \in [Files -> Declarations]
       /\ DOMAIN nsCache' = Namespaces
       /\ src' \in [Files -> Contents \cup {NoText}]
  BY DeclaredTyped DEF Replaces, TypeOK, EmptyCache, Units
<1> QED
  BY <1>4, <1>7, <1>8, <1>9, <1>10 DEF TypeOK

\* The ledgers of the file follow its new unit, the others stay.
LEMMA ReplaceLedgers ==
  ASSUME TypeOK, LedgersExact, NEW f \in Files, NEW u \in Units, Replaces(f, u)
  PROVE  LedgersExact'
<1> SUFFICES ASSUME NEW g \in Files
             PROVE  /\ fileDefs'[g] = NamesOf(UnitOf(src', g))
                    /\ fileClassKeys'[g] = ClassesOf(UnitOf(src', g))
  BY DEF LedgersExact, Unit
<1>1. UnitOf(src', g) = IF g = f THEN u ELSE Unit(g)
  BY DEF Replaces
<1>2. /\ fileDefs'[g] = IF g = f THEN NamesOf(u) ELSE fileDefs[g]
      /\ fileClassKeys'[g] = IF g = f THEN ClassesOf(u) ELSE fileClassKeys[g]
  BY DEF Replaces, TypeOK
<1> QED
  BY <1>1, <1>2 DEF LedgersExact

\* So do the declarations and the reference sites.
LEMMA ReplaceStores ==
  ASSUME TypeOK, StoresExact, NEW f \in Files, NEW u \in Units, Replaces(f, u)
  PROVE  StoresExact'
<1> SUFFICES ASSUME NEW g \in Files
             PROVE  /\ fileNS'[g] = Declared(UnitOf(src', g))
                    /\ fileRefs'[g] = UnitOf(src', g).refs
  BY DEF StoresExact, Unit
<1>1. UnitOf(src', g) = IF g = f THEN u ELSE Unit(g)
  BY DEF Replaces
<1>2. /\ fileNS'[g] = IF g = f THEN Declared(u) ELSE fileNS[g]
      /\ fileRefs'[g] = IF g = f THEN u.refs ELSE fileRefs[g]
  BY DEF Replaces, TypeOK
<1> QED
  BY <1>1, <1>2 DEF StoresExact

\* old[g] and new[g] are the sites g contributes to one entry before and
\* after; filtering by f leaves what the other files contribute.
LEMMA ReplaceUnion ==
  ASSUME NEW f \in Files, NEW old, NEW new,
         \A g \in Files \ {f} : new[g] = old[g]
  PROVE  filterLocs(UNION {Located(g, old[g]) : g \in Files}, f) \cup Located(f, new[f])
           = UNION {Located(g, new[g]) : g \in Files}
<1>1. filterLocs(UNION {Located(g, old[g]) : g \in Files}, f)
        = UNION {Located(g, old[g]) : g \in Files \ {f}}
  BY DEF filterLocs, Located
<1>2. UNION {Located(g, new[g]) : g \in Files}
        = Located(f, new[f]) \cup UNION {Located(g, old[g]) : g \in Files \ {f}}
  OBVIOUS
<1> QED
  BY <1>1, <1>2

\* The table of definitions: an entry the ledger does not name holds nothing
\* of the file, so skipping it is as good as filtering it.
LEMMA ReplaceDefs ==
  ASSUME TypeOK, LedgersExact, DefsExact, NEW f \in Files, NEW u \in Units, Replaces(f, u)
  PROVE  DefsExact'
<1> SUFFICES ASSUME NEW n \in Names
             PROVE  defsByName'[n] = UNION {Located(g, NamedSites(UnitOf(src', g), n)) : g \in Files}
  BY DEF DefsExact, Unit
<1>1. defsByName[n] = UNION {Located(g, NamedSites(Unit(g), n)) : g \in Files}
  BY DEF DefsExact
\* A name outside the ledger of f has no site of f, so not filtering it is harmless.
<1>2. DefsWithout(f)[n] = filterLocs(defsByName[n], f)
  <2>1. CASE n \in fileDefs[f]
    BY <2>1 DEF DefsWithout
  <2>2. CASE n \notin fileDefs[f]
    <3>1. NamedSites(Unit(f), n) = {}
      BY <2>2 DEF LedgersExact, NamesOf
    <3>2. \A l \in defsByName[n] : l.file # f
      BY <1>1, <3>1 DEF Located
    <3> QED
      BY <2>2, <3>2 DEF DefsWithout, filterLocs
  <2> QED
    BY <2>1, <2>2
<1> DEFINE old == [g \in Files |-> NamedSites(Unit(g), n)]
           new == [g \in Files |-> NamedSites(UnitOf(src', g), n)]
<1>3. filterLocs(UNION {Located(g, old[g]) : g \in Files}, f) \cup Located(f, new[f])
        = UNION {Located(g, new[g]) : g \in Files}
  <2>1. \A g \in Files \ {f} : new[g] = old[g]
    BY DEF Replaces
  <2> HIDE DEF old, new
  <2> QED
    BY <2>1, ReplaceUnion
<1>4. defsByName'[n] = DefsWithout(f)[n] \cup Located(f, new[f])
  BY DEF Replaces
<1>5. /\ UNION {Located(g, old[g]) : g \in Files} = defsByName[n]
      /\ UNION {Located(g, new[g]) : g \in Files}
           = UNION {Located(g, NamedSites(UnitOf(src', g), n)) : g \in Files}
  BY <1>1
<1> QED
  BY <1>2, <1>3, <1>4, <1>5

\* Removal filters the whole entry of a class, ledger or no ledger.
LEMMA ReplaceClassEntry ==
  ASSUME TypeOK, LedgersExact, MembersExact, NEW f \in Files, NEW u \in Units, Replaces(f, u),
         NEW k \in Classes
  PROVE  LET ci == ClassWithout(f, k)
         IN  /\ ci.DefSites = filterLocs(classes[k].DefSites, f)
             /\ \A n \in Names : /\ ci.Methods[n] = filterLocs(classes[k].Methods[n], f)
                                /\ ci.Ivars[n] = filterLocs(classes[k].Ivars[n], f)
<1>1. CASE k \in fileClassKeys[f]
  BY <1>1 DEF ClassWithout
\* A class outside the ledger of f has no site of f.
<1>2. CASE k \notin fileClassKeys[f]
  <2>1. /\ ClassSites(Unit(f), k) = {}
        /\ \A n \in Names : /\ MemberSites(Unit(f), "method", k, n) = {}
                           /\ MemberSites(Unit(f), "ivar", k, n) = {}
    BY <1>2 DEF LedgersExact, ClassesOf, MemberKinds
  <2>2. \A l \in classes[k].DefSites : l.file # f
    BY <2>1 DEF MembersExact, Located
  <2>3. \A n \in Names : \A l \in classes[k].Methods[n] : l.file # f
    BY <2>1 DEF MembersExact, Located
  <2>4. \A n \in Names : \A l \in classes[k].Ivars[n] : l.file # f
    BY <2>1 DEF MembersExact, Located
  <2> QED
    BY <1>2, <2>2, <2>3, <2>4 DEF ClassWithout, filterLocs
<1> QED
  BY <1>1, <1>2

\* The class table, part by part.
LEMMA ReplaceMembers ==
  ASSUME TypeOK, LedgersExact, MembersExact, NEW f \in Files, NEW u \in Units, Replaces(f, u)
  PROVE  MembersExact'
<1> SUFFICES ASSUME NEW k \in Classes
             PROVE  /\ classes'[k].DefSites = UNION {Located(g, ClassSites(UnitOf(src', g), k)) : g \in Files}
                    /\ \A n \in Names :
                         /\ classes'[k].Methods[n]
                              = UNION {Located(g, MemberSites(UnitOf(src', g), "method", k, n)) : g \in Files}
                         /\ classes'[k].Ivars[n]
                              = UNION {Located(g, MemberSites(UnitOf(src', g), "ivar", k, n)) : g \in Files}
  BY DEF MembersExact, Unit
<1>1. /\ classes'[k].DefSites = filterLocs(classes[k].DefSites, f) \cup Located(f, ClassSites(u, k))
      /\ \A n \in Names :
           /\ classes'[k].Methods[n]
                = filterLocs(classes[k].Methods[n], f) \cup Located(f, MemberSites(u, "method", k, n))
           /\ classes'[k].Ivars[n]
                = filterLocs(classes[k].Ivars[n], f) \cup Located(f, MemberSites(u, "ivar", k, n))
  BY ReplaceClassEntry DEF Replaces, ClassWith
<1>2. \A g \in Files \ {f} : UnitOf(src', g) = Unit(g)
  BY DEF Replaces
<1>3. UnitOf(src', f) = u
  BY DEF Replaces
<1>4. filterLocs(UNION {Located(g, ClassSites(Unit(g), k)) : g \in Files}, f) \cup Located(f, ClassSites(u, k))
        = UNION {Located(g, ClassSites(UnitOf(src', g), k)) : g \in Files}
  <2> DEFINE old == [g \in Files |-> ClassSites(Unit(g), k)]
             new == [g \in Files |-> ClassSites(UnitOf(src', g), k)]
  <2>1. \A g \in Files \ {f} : new[g] = old[g]
    BY <1>2
  <2>2. \A g \in Files : old[g] = ClassSites(Unit(g), k) /\ new[g] = ClassSites(UnitOf(src', g), k)
    OBVIOUS
  <2> HIDE DEF old, new
  <2>3. filterLocs(UNION {Located(g, old[g]) : g \in Files}, f) \cup Located(f, new[f])
          = UNION {Located(g, new[g]) : g \in Files}
    BY <2>1, ReplaceUnion
  <2> QED
    BY <1>3, <2>2, <2>3
<1>5. ASSUME NEW n \in Names, NEW kind
      PROVE  filterLocs(UNION {Located(g, MemberSites(Unit(g), kind, k, n)) : g \in Files}, f)
               \cup Located(f, MemberSites(u, kind, k, n))
               = UNION {Located(g, MemberSites(UnitOf(src', g), kind, k, n)) : g \in Files}
  <2> DEFINE old == [g \in Files |-> MemberSites(Unit(g), kind, k, n)]
             new == [g \in Files |-> MemberSites(UnitOf(src', g), kind, k, n)]
  <2>1. \A g \in Files \ {f} : new[g] = old[g]
    BY <1>2
  <2>2. \A g \in Files : /\ old[g] = MemberSites(Unit(g), kind, k, n)
                        /\ new[g] = MemberSites(UnitOf(src', g), kind, k, n)
    OBVIOUS
  <2> HIDE DEF old, new
  <2>3. filterLocs(UNION {Located(g, old[g]) : g \in Files}, f) \cup Located(f, new[f])
          = UNION {Located(g, new[g]) : g \in Files}
    BY <2>1, ReplaceUnion
  <2> QED
    BY <1>3, <2>2, <2>3
<1> QED
  BY <1>1, <1>4, <1>5 DEF MembersExact

\* The edges: what f loses is credited to nobody else, what it gains to
\* nobody before.
LEMMA ReplaceEdges ==
  ASSUME TypeOK, LedgersExact, EdgesCredited, NEW f \in Files, NEW u \in Units, Replaces(f, u)
  PROVE  EdgesCredited'
<1> SUFFICES ASSUME NEW k \in Classes
             PROVE  /\ classes'[k].Inherit = UNION {fileClassInherit'[g][k] : g \in Files}
                    /\ \A g \in Files : fileClassInherit'[g][k] \subseteq UnitOf(src', g).bases[k]
                    /\ \A g, h \in Files :
                         g # h => fileClassInherit'[g][k] \cap fileClassInherit'[h][k] = {}
  BY DEF EdgesCredited, Unit
<1> DEFINE rest == ClassWithout(f, k).Inherit
\* A class outside the ledger of f has no edge credited to f.
<1>1. rest = classes[k].Inherit \ fileClassInherit[f][k]
  <2>1. CASE k \in fileClassKeys[f]
    BY <2>1 DEF ClassWithout
  <2>2. CASE k \notin fileClassKeys[f]
    <3>1. Unit(f).bases[k] = {}
      BY <2>2 DEF LedgersExact, ClassesOf
    <3>2. fileClassInherit[f][k] = {}
      BY <3>1 DEF EdgesCredited
    <3> QED
      BY <2>2, <3>2 DEF ClassWithout
  <2> QED
    BY <2>1, <2>2
<1>2. rest = UNION {fileClassInherit[g][k] : g \in Files \ {f}}
  BY <1>1 DEF EdgesCredited
<1>3. /\ fileClassInherit'[f][k] = u.bases[k] \ rest
      /\ \A g \in Files \ {f} : fileClassInherit'[g] = fileClassInherit[g]
  BY DEF Replaces, TypeOK, NewEdges
<1>4. classes'[k].Inherit = rest \cup u.bases[k]
  BY DEF Replaces, ClassWith
<1> HIDE DEF rest
<1>5. classes'[k].Inherit = UNION {fileClassInherit'[g][k] : g \in Files}
  BY <1>2, <1>3, <1>4
<1>6. \A g \in Files : fileClassInherit'[g][k] \subseteq UnitOf(src', g).bases[k]
  BY <1>3 DEF EdgesCredited, Replaces
<1>7. ASSUME NEW g \in Files, NEW h \in Files, g # h
      PROVE  fileClassInherit'[g][k] \cap fileClassInherit'[h][k] = {}
  <2>1. CASE g # f /\ h # f
    BY <1>3, <1>7, <2>1 DEF EdgesCredited
  <2>2. CASE g = f \/ h = f
    BY <1>2, <1>3, <1>7, <2>2
  <2> QED
    BY <2>1, <2>2
<1> QED
  BY <1>5, <1>6, <1>7

\* The step forgets every merge, so none can be stale.
LEMMA ReplaceCache ==
  ASSUME NEW f, NEW u, Replaces(f, u)
  PROVE  NsCacheCoherent'
  BY DEF Replaces, EmptyCache, NsCacheCoherent

\* All parts together.
LEMMA ReplaceInv ==
  ASSUME IndInv, NEW f \in Files, NEW u \in Units, Replaces(f, u)
  PROVE  IndInv'
  BY ReplaceTypeOK, ReplaceLedgers, ReplaceDefs, ReplaceMembers, ReplaceStores, ReplaceEdges,
     ReplaceCache
     DEF IndInv

----------------------------------------------------------------------------
(* The invariant.                                                          *)

\* Nothing is indexed at first and every table is empty.
LEMMA InitInv == Init => IndInv
<1> SUFFICES ASSUME Init PROVE IndInv
  OBVIOUS
<1> USE DEF Init, NoSites, NoEdges, NoClassInfo, EmptyCache
<1>1. TypeOK
  BY EmptyUnitTyped, DeclaredTyped DEF TypeOK
<1>2. \A f \in Files : Unit(f) = EmptyUnit
  BY DEF Unit, UnitOf
<1>3. \A f : Located(f, {}) = {}
  BY DEF Located
<1>4. LedgersExact
  BY <1>2, EmptyUnitSites DEF LedgersExact
<1>5. DefsExact
  BY <1>2, <1>3, EmptyUnitSites DEF DefsExact
<1>6. MembersExact
  BY <1>2, <1>3, EmptyUnitSites DEF MembersExact
<1>7. StoresExact
  <2>1. EmptyUnit.refs = {}
    BY DEF EmptyUnit
  <2> QED
    BY <1>2, <2>1 DEF StoresExact
<1>8. EdgesCredited
  BY <1>2 DEF EdgesCredited
<1>9. NsCacheCoherent
  BY DEF NsCacheCoherent
<1> QED
  BY <1>1, <1>4, <1>5, <1>6, <1>7, <1>8, <1>9 DEF IndInv

\* A step that leaves the tables alone preserves the invariant if it leaves
\* the memo coherent.
LEMMA SameTables ==
  ASSUME IndInv, UNCHANGED tables, DOMAIN nsCache' = Namespaces, NsCacheCoherent'
  PROVE  IndInv'
  BY DEF IndInv, tables, TypeOK, LedgersExact, DefsExact, MembersExact, StoresExact, EdgesCredited, Unit

\* Namespace fills the memo with the merge of the current declarations.
LEMMA NamespaceInv ==
  ASSUME IndInv, NEW ns \in Namespaces, Namespace(ns)
  PROVE  IndInv'
<1>1. UNCHANGED tables /\ DOMAIN nsCache' = Namespaces
  BY DEF Namespace, IndInv, TypeOK
<1>2. fileNS' = fileNS
  BY <1>1 DEF tables
<1>3. \A x \in Namespaces : nsCache[x] = NotCached \/ nsCache[x] = Merged(fileNS, x)
  BY DEF IndInv, NsCacheCoherent
<1>4. nsCache' = [nsCache EXCEPT ![ns] = IF nsCache[ns] # NotCached THEN nsCache[ns]
                                                                    ELSE Merged(fileNS, ns)]
  BY DEF Namespace
<1>5. \A x \in Namespaces : nsCache'[x] = NotCached \/ nsCache'[x] = Merged(fileNS, x)
  BY <1>3, <1>4 DEF IndInv, TypeOK
<1>6. NsCacheCoherent'
  BY <1>2, <1>5 DEF NsCacheCoherent
<1> QED
  BY <1>1, <1>6, SameTables

\* The other queries change the answer only.
LEMMA SameIndexInv ==
  ASSUME IndInv, UNCHANGED <<tables, nsCache>>
  PROVE  IndInv'
<1>1. NsCacheCoherent'
  BY DEF IndInv, NsCacheCoherent, tables
<1> QED
  BY <1>1, SameTables DEF IndInv, TypeOK

\* Every step preserves the invariant.
LEMMA NextInv == IndInv /\ [Next]_vars => IndInv'
<1> SUFFICES ASSUME IndInv, [Next]_vars
             PROVE  IndInv'
  OBVIOUS
<1>0. TypeOK
  BY DEF IndInv
<1>1. ASSUME NEW f \in Files, NEW c \in Contents, IndexFile(f, c) PROVE IndInv'
  BY <1>0, <1>1, IndexFileReplaces, ReplaceInv
<1>2. ASSUME NEW f \in Files, RemoveFile(f) PROVE IndInv'
  BY <1>0, <1>2, RemoveFileReplaces, ReplaceInv
<1>3. CASE Query
  <2>1. ASSUME NEW ns \in Namespaces, Namespace(ns) PROVE IndInv'
    BY <2>1, NamespaceInv
  <2>2. ASSUME NEW n \in Names, Lookup(n) PROVE IndInv'
    BY <2>2, SameIndexInv DEF Lookup
  <2>3. ASSUME NEW k \in Classes, Class(k) PROVE IndInv'
    BY <2>3, SameIndexInv DEF Class
  <2>4. ASSUME NEW f \in Files, FileRefs(f) \/ Source(f) PROVE IndInv'
    BY <2>4, SameIndexInv DEF FileRefs, Source
  <2>5. CASE FilesQuery \/ AllSymbols
    BY <2>5, SameIndexInv DEF FilesQuery, AllSymbols
  <2> QED
    BY <1>3, <2>1, <2>2, <2>3, <2>4, <2>5 DEF Query
<1>4. CASE UNCHANGED vars
  BY <1>4, SameIndexInv DEF vars
<1> QED
  BY <1>1, <1>2, <1>3, <1>4 DEF Next

\* The index is well typed, its tables and ledgers are exactly what the
\* indexed texts contribute and its memo is coherent, in every state.
THEOREM IndexInvariant == Spec => []IndInv
  BY InitInv, NextInv, PTL DEF Spec

\* Every table, ledger and memo of the index keeps its type.
THEOREM IndexTypeCorrect == Spec => []TypeOK
<1>1. IndInv => TypeOK
  BY DEF IndInv
<1> QED
  BY <1>1, IndexInvariant, PTL

\* The ledgers by which RemoveFile undoes a file always list exactly what the
\* file put into the tables.
THEOREM LedgersAlwaysExact == Spec => []LedgersExact
<1>1. IndInv => LedgersExact
  BY DEF IndInv
<1> QED
  BY <1>1, IndexInvariant, PTL

\* References and declarations are stored for the indexed files and for no
\* others, and are those of the indexed text.
THEOREM StoresAlwaysExact == Spec => []StoresExact
<1>1. IndInv => StoresExact
  BY DEF IndInv
<1> QED
  BY <1>1, IndexInvariant, PTL

\* No edit history leaves a stale site in the definition table or loses one.
THEOREM DefsAlwaysExact == Spec => []DefsExact
<1>1. IndInv => DefsExact
  BY DEF IndInv
<1> QED
  BY <1>1, IndexInvariant, PTL

\* The same for class declarations, methods and instance variables.
THEOREM MembersAlwaysExact == Spec => []MembersExact
<1>1. IndInv => MembersExact
  BY DEF IndInv
<1> QED
  BY <1>1, IndexInvariant, PTL

\* No inherit edge outlives its last declaration, and each has one owner.
THEOREM EdgesAlwaysCredited == Spec => []EdgesCredited
<1>1. IndInv => EdgesCredited
  BY DEF IndInv
<1> QED
  BY <1>1, IndexInvariant, PTL

\* The namespace memo never answers for declarations that are gone.
THEOREM NsCacheAlwaysCoherent == Spec => []NsCacheCoherent
<1>1. IndInv => NsCacheCoherent
  BY DEF IndInv
<1> QED
  BY <1>1, IndexInvariant, PTL

----------------------------------------------------------------------------
(* The refinement.                                                         *)

\* What a query answers from exact tables is what the table of contents
\* answers.
LEMMA AnswersAgree ==
  ASSUME IndInv
  PROVE  /\ \A n \in Names : defsByName[n] = LookupResult(src, n)
         /\ \A k \in Classes : [DefSites |-> classes[k].DefSites,
                                 Methods  |-> classes[k].Methods,
                                 Ivars    |-> classes[k].Ivars] = ClassResult(src, k)
         /\ fileNS = [f \in Files |-> Declared(UnitOf(src, f))]
         /\ \A f \in Files : fileRefs[f] = UnitOf(src, f).refs
<1>1. \A n \in Names : defsByName[n] = LookupResult(src, n)
  BY DEF IndInv, DefsExact, Unit, LookupResult
<1>2. ASSUME NEW k \in Classes
      PROVE  [DefSites |-> classes[k].DefSites,
              Methods  |-> classes[k].Methods,
              Ivars    |-> classes[k].Ivars] = ClassResult(src, k)
  <2>1. /\ classes[k].Methods \in [Names -> SUBSET Locations]
        /\ classes[k].Ivars \in [Names -> SUBSET Locations]
    BY DEF IndInv, TypeOK
  <2>2. classes[k].Methods = MemberResult(src, "method", k)
    BY <2>1 DEF IndInv, MembersExact, Unit, MemberResult
  <2>3. classes[k].Ivars = MemberResult(src, "ivar", k)
    BY <2>1 DEF IndInv, MembersExact, Unit, MemberResult
  <2>4. classes[k].DefSites = UNION {Located(f, ClassSites(UnitOf(src, f), k)) : f \in Files}
    BY DEF IndInv, MembersExact, Unit
  <2> QED
    BY <2>2, <2>3, <2>4 DEF ClassResult
<1>3. fileNS = [f \in Files |-> Declared(UnitOf(src, f))]
  <2>1. fileNS = [f \in Files |-> fileNS[f]]
    BY DEF IndInv, TypeOK
  <2>2. \A f \in Files : fileNS[f] = Declared(UnitOf(src, f))
    BY DEF IndInv, StoresExact, Unit
  <2> QED
    BY <2>1, <2>2
<1>4. \A f \in Files : fileRefs[f] = UnitOf(src, f).refs
  BY DEF IndInv, StoresExact, Unit
<1> QED
  BY <1>1, <1>2, <1>3, <1>4

\* workspace/symbol: the flattened tables hold every definition and member.
LEMMA SymbolsAgree ==
  ASSUME IndInv
  PROVE  [symbols |-> UNION {defsByName[n] : n \in Names},
          members |-> [k \in Classes |-> UNION {classes[k].Methods[n] \cup classes[k].Ivars[n] : n \in Names}]]
         = SymbolsResult(src)
<1>1. UNION {defsByName[n] : n \in Names} = UNION {LookupResult(src, n) : n \in Names}
  BY AnswersAgree
<1>2. ASSUME NEW k \in Classes, NEW n \in Names
      PROVE  /\ classes[k].Methods[n] = MemberResult(src, "method", k)[n]
             /\ classes[k].Ivars[n] = MemberResult(src, "ivar", k)[n]
  BY DEF IndInv, MembersExact, Unit, MemberResult
<1>3. \A k \in Classes :
        UNION {classes[k].Methods[n] \cup classes[k].Ivars[n] : n \in Names}
          = UNION {MemberResult(src, "method", k)[n] \cup MemberResult(src, "ivar", k)[n] : n \in Names}
  BY <1>2
<1> QED
  BY <1>1, <1>3 DEF SymbolsResult

\* Each query is an Ask of the table, with the result the texts determine.
LEMMA QueryRefines ==
  ASSUME IndInv, Query
  PROVE  \E q \in Queries : Table!Ask(q)
<1>1. UNCHANGED src
  <2>1. ASSUME NEW n \in Names, Lookup(n) PROVE UNCHANGED tables
    BY <2>1 DEF Lookup
  <2>2. ASSUME NEW k \in Classes, Class(k) PROVE UNCHANGED tables
    BY <2>2 DEF Class
  <2>3. ASSUME NEW ns \in Namespaces, Namespace(ns) PROVE UNCHANGED tables
    BY <2>3 DEF Namespace
  <2>4. ASSUME NEW f \in Files, FileRefs(f) \/ Source(f) PROVE UNCHANGED tables
    BY <2>4 DEF FileRefs, Source
  <2>5. FilesQuery \/ AllSymbols => UNCHANGED tables
    BY DEF FilesQuery, AllSymbols
  <2>6. UNCHANGED tables
    BY <2>1, <2>2, <2>3, <2>4, <2>5 DEF Query
  <2> QED
    BY <2>6 DEF tables
\* A step that answers q as the texts do is the table's step for q.
<1>2. ASSUME NEW q \in Queries, answer' = <<q, Result(src, q)>>
      PROVE  Table!Ask(q)
  BY <1>1, <1>2 DEF Table!Ask
<1>3. CASE \E n \in Names : Lookup(n)
  <2>1. PICK n \in Names : Lookup(n)
    BY <1>3
  <2>2. <<"Lookup", n>> \in Queries /\ Result(src, <<"Lookup", n>>) = LookupResult(src, n)
    BY DEF Queries, Result, Answers
  <2>3. answer' = <<<<"Lookup", n>>, LookupResult(src, n)>>
    BY <2>1, AnswersAgree DEF Lookup, Answer
  <2> QED
    BY <1>2, <2>2, <2>3
<1>4. CASE \E k \in Classes : Class(k)
  <2>1. PICK k \in Classes : Class(k)
    BY <1>4
  <2>2. <<"Class", k>> \in Queries /\ Result(src, <<"Class", k>>) = ClassResult(src, k)
    BY DEF Queries, Result, Answers
  <2>3. answer' = <<<<"Class", k>>, ClassResult(src, k)>>
    BY <2>1, AnswersAgree DEF Class, Answer
  <2> QED
    BY <1>2, <2>2, <2>3
\* From the memo or computed now, the merge is that of the declarations.
<1>5. CASE \E ns \in Namespaces : Namespace(ns)
  <2>1. PICK ns \in Namespaces : Namespace(ns)
    BY <1>5
  <2>2. <<"Namespace", ns>> \in Queries /\ Result(src, <<"Namespace", ns>>) = NamespaceResult(src, ns)
    BY DEF Queries, Result, Answers
  <2>3. nsCache[ns] # NotCached => nsCache[ns] = Merged(fileNS, ns)
    BY DEF IndInv, NsCacheCoherent
  <2>4. answer' = <<<<"Namespace", ns>>, Merged(fileNS, ns)>>
    BY <2>1, <2>3 DEF Namespace, Answer
  <2>5. Merged(fileNS, ns) = NamespaceResult(src, ns)
    BY AnswersAgree DEF NamespaceResult
  <2> QED
    BY <1>2, <2>2, <2>4, <2>5
<1>6. CASE \E f \in Files : FileRefs(f)
  <2>1. PICK f \in Files : FileRefs(f)
    BY <1>6
  <2>2. <<"FileRefs", f>> \in Queries /\ Result(src, <<"FileRefs", f>>) = UnitOf(src, f).refs
    BY DEF Queries, Result, Answers
  <2>3. answer' = <<<<"FileRefs", f>>, UnitOf(src, f).refs>>
    BY <2>1, AnswersAgree DEF FileRefs, Answer
  <2> QED
    BY <1>2, <2>2, <2>3
<1>7. CASE \E f \in Files : Source(f)
  <2>1. PICK f \in Files : Source(f)
    BY <1>7
  <2>2. <<"Source", f>> \in Queries /\ Result(src, <<"Source", f>>) = src[f]
    BY DEF Queries, Result, Answers
  <2> QED
    BY <1>2, <2>1, <2>2 DEF Source, Answer
<1>8. CASE FilesQuery
  <2>1. /\ <<"Files", "all">> \in Queries
        /\ Result(src, <<"Files", "all">>) = {f \in Files : src[f] # NoText}
    BY DEF Queries, Result, Answers
  <2> QED
    BY <1>2, <1>8, <2>1 DEF FilesQuery, Answer
<1>9. CASE AllSymbols
  <2>1. <<"AllSymbols", "all">> \in Queries /\ Result(src, <<"AllSymbols", "all">>) = SymbolsResult(src)
    BY DEF Queries, Result, Answers
  <2>2. answer' = <<<<"AllSymbols", "all">>, SymbolsResult(src)>>
    BY <1>9, SymbolsAgree DEF AllSymbols, Answer
  <2> QED
    BY <1>2, <2>1, <2>2
<1> QED
  BY <1>3, <1>4, <1>5, <1>6, <1>7, <1>8, <1>9 DEF Query

\* Indexing is a Put, removal a Drop (or a stutter), a query an Ask.
LEMMA StepRefines == IndInv /\ [Next]_vars => [Table!Next]_<<src, answer>>
<1> SUFFICES ASSUME IndInv, [Next]_vars
             PROVE  [Table!Next]_<<src, answer>>
  OBVIOUS
<1>1. ASSUME NEW f \in Files, NEW c \in Contents, IndexFile(f, c) PROVE Table!Next
  BY <1>1 DEF IndexFile, Table!Next, Table!Put
<1>2. ASSUME NEW f \in Files, RemoveFile(f) PROVE Table!Next
  BY <1>2 DEF RemoveFile, Table!Next, Table!Drop
<1>3. CASE Query
  BY <1>3, QueryRefines DEF Table!Next
<1>4. CASE UNCHANGED vars
  BY <1>4 DEF vars, tables
<1> QED
  BY <1>1, <1>2, <1>3, <1>4 DEF Next

\* The incremental index, with its ledgers and its memo, answers like a table
\* of the current contents.
THEOREM IndexImplementsTable == Spec => ImplementsTable
<1>1. Init => Table!Init
  BY DEF Init, Table!Init, NoAnswer, Table!NoAnswer
<1> QED
  BY <1>1, StepRefines, IndexInvariant, PTL
     DEF Spec, ImplementsTable, Table!Spec, Table!vars
=============================================================================
