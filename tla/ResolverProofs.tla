--------------------------- MODULE ResolverProofs ---------------------------
(* Theorems of Resolver, for every workspace: pages keep apart,            *)
(* find-references inverts goto-definition, and whoever calls a callable   *)
(* is found from it.                                                       *)
EXTENDS Resolver, FiniteSetTheorems, TLAPS

----------------------------------------------------------------------------
(* The first match on the paths of a hierarchy.                            *)

LEMMA FirstMatchDeclares ==
  ASSUME NEW bases, NEW members, NEW start
  PROVE  FirstMatch(bases, members, start) \subseteq members
  BY DEF FirstMatch

\* The beginning of a path is a path.
LEMMA PathPrefix ==
  ASSUME NEW bases, NEW start, NEW p \in Paths(bases, start), Cardinality(DOMAIN bases) \in Nat, NEW i \in 1..Len(p)
  PROVE  SubSeq(p, 1, i) \in Paths(bases, start)
<1> DEFINE q == SubSeq(p, 1, i)
           C == DOMAIN bases
<1>1. PICK n \in 1..Cardinality(C) : p \in [1..n -> C]  BY DEF Paths
<1>2. /\ p[1] = start /\ IsInjective(p)
      /\ \A j \in 1..Len(p) - 1 : Contains(bases[p[j]], p[j + 1])
  BY DEF Paths
<1>3. n \in Nat /\ p \in Seq(C) /\ Len(p) = n /\ DOMAIN p = 1..n  BY <1>1
<1>4. q \in [1..i -> C] /\ Len(q) = i /\ \A j \in 1..i : q[j] = p[j]
  <2>1. i \in 1..n /\ q \in Seq(C) /\ Len(q) = i /\ \A j \in 1..i : q[j] = p[j]  BY <1>3
  <2> HIDE DEF q
  <2> QED BY <2>1
<1>5. i \in 1..Cardinality(C)  BY <1>1, <1>3
<1> HIDE DEF q, C
<1>6. IsInjective(q)
  <2>1. \A a \in 1..i : a \in 1..n  BY <1>3
  <2> QED BY <1>2, <1>3, <1>4, <2>1 DEF IsInjective
<1>7. ASSUME NEW j \in 1..Len(q) - 1  PROVE Contains(bases[q[j]], q[j + 1])
  <2>1. j \in 1..Len(p) - 1 /\ j \in 1..i /\ j + 1 \in 1..i  BY <1>3, <1>4
  <2>2. q[j] = p[j] /\ q[j + 1] = p[j + 1]  BY <1>4, <2>1
  <2> QED BY <1>2, <2>1, <2>2
<1>8. q[1] = start  BY <1>2, <1>3, <1>4
<1> QED BY <1>4, <1>5, <1>6, <1>7, <1>8 DEF Paths, q, C

\* Depth first, nothing on the path to the first match declares the member:
\* such a prefix of the path would be met before it.
LEMMA FirstMatchPastOthers ==
  ASSUME NEW bases, IsFiniteSet(DOMAIN bases), NEW members, NEW start,
         NEW k \in FirstMatch(bases, members, start)
  PROVE  ReachedPastOthers(bases, members, start, k)
<1> DEFINE hits == {p \in Paths(bases, start) : Last(p) \in members}
<1>1. PICK p \in hits : /\ k = Last(p)
                        /\ \A other \in hits \ {p} : MetBefore(bases, p, other)
  BY DEF FirstMatch
<1>2. Cardinality(DOMAIN bases) \in Nat  BY FS_CardinalityType
<1>3. p \in Paths(bases, start) /\ p \in Seq(DOMAIN bases)
  <2>1. PICK n \in 1..Cardinality(DOMAIN bases) : p \in [1..n -> DOMAIN bases]  BY <1>1 DEF Paths
  <2> QED BY <1>1, <1>2, <2>1
<1>4. ASSUME NEW i \in 1..Len(p) - 1, p[i] \in members  PROVE FALSE
  <2> DEFINE q == SubSeq(p, 1, i)
  <2>1. i \in 1..Len(p) /\ i < Len(p)  BY <1>3
  <2>2. q \in Paths(bases, start)  BY <1>2, <1>3, <2>1, PathPrefix
  <2>3. Len(q) = i /\ Last(q) = p[i] /\ \A j \in 1..i : q[j] = p[j]  BY <1>3, <2>1 DEF Last
  <2> HIDE DEF q
  <2>4. q \in hits \ {p}  BY <1>4, <2>1, <2>2, <2>3
  <2>5. MetBefore(bases, p, q)  BY <1>1, <2>4
  <2>6. ~IsStrictPrefix(p, q)  BY <1>3, <2>1, <2>3 DEF IsStrictPrefix, IsPrefix
  <2>7. \A j \in 1..Len(p) - 1 : j < Len(q) => p[j + 1] = q[j + 1]  BY <1>3, <2>1, <2>3
  <2> QED BY <2>5, <2>6, <2>7 DEF MetBefore
<1> QED BY <1>1, <1>3, <1>4 DEF ReachedPastOthers

----------------------------------------------------------------------------
(* What the texts contribute.                                              *)

TypeOK == text \in [Files -> Contents \cup {NoText}]

LEMMA TypeInvariant == Spec => []TypeOK
<1>1. Init => TypeOK  BY DEF Init, TypeOK
<1>2. TypeOK /\ [Next]_text => TypeOK'  BY DEF TypeOK, Next, IndexFile, RemoveFile
<1> QED BY <1>1, <1>2, PTL DEF Spec

LEMMA EmptyIsUnit == EmptyUnit \in Units
  BY DEF EmptyUnit, Units

LEMMA UnitTyped ==
  ASSUME NEW t \in [Files -> Contents \cup {NoText}], NEW f \in Files
  PROVE  UnitOf(t, f) \in Units
  BY EmptyIsUnit, AnalysisAssumption DEF UnitOf

\* The sites of a unit, its names and its references are what their types say.
LEMMA SitesTyped ==
  ASSUME NEW u \in Units, NEW s \in u.defs
  PROVE  /\ s.name \in Names /\ s.kind \in Kinds /\ s.class \in Classes \cup {NoClass}
         /\ s.kind \in WorkspaceKinds => s.name \in NamesOf(u)
  BY DEF Units, Sites, NamesOf, NamedSites

LEMMA RefsTyped ==
  ASSUME NEW u \in Units, NEW r \in u.refs
  PROVE  r \in References /\ r.name \in Names
<1>1. r \in References  BY RefsAssumption DEF Units
<1>2. r.name \in BareNames \cup QualifiedNames  BY <1>1 DEF References
<1> QED BY <1>1, <1>2, NamesAssumption

LEMMA LookupSites ==
  ASSUME NEW t, NEW n, NEW l
  PROVE  l \in LookupResult(t, n) <=>
           \E f \in Files : \E s \in UnitOf(t, f).defs :
             /\ s.kind \in WorkspaceKinds /\ s.name = n
             /\ l = [file |-> f, kind |-> s.kind, name |-> s.name, pos |-> s.pos]
  BY DEF LookupResult, Located, NamedSites

LEMMA MemberSitesOf ==
  ASSUME NEW t, NEW kind, NEW k, NEW n \in Names, NEW l
  PROVE  l \in MemberResult(t, kind, k)[n] <=>
           \E f \in Files : \E s \in UnitOf(t, f).defs :
             /\ s.kind = kind /\ s.class = k /\ s.name = n
             /\ l = [file |-> f, kind |-> s.kind, name |-> s.name, pos |-> s.pos]
  BY DEF MemberResult, Located, MemberSites

----------------------------------------------------------------------------
(* Pages apart: what is without a page that keeps to its own namespace.    *)

Without(q) == [text EXCEPT ![q] = NoText]

LEMMA WithoutUnit ==
  ASSUME TypeOK, NEW q \in Files, NEW f \in Files
  PROVE  UnitOf(Without(q), f) = IF f = q THEN EmptyUnit ELSE UnitOf(text, f)
  BY DEF TypeOK, Without, UnitOf

LEMMA SameNamespaces ==
  ASSUME TypeOK, NEW q \in Files, OnlyItsOwn(q), NEW ns
  PROVE  NamespaceResult(Without(q), ns) = NamespaceResult(text, ns)
<1>1. Declared(EmptyUnit) = Declared(UnitOf(text, q))
  <2>1. UnitOf(text, q) \in Units  BY UnitTyped DEF TypeOK
  <2>2. /\ UnitOf(text, q).imports \in [Namespaces -> Seq(Names)]
        /\ UnitOf(text, q).path \in [Namespaces -> Seq(Namespaces)]
    BY <2>1 DEF Units
  <2>3. /\ UnitOf(text, q).imports = [m \in Namespaces |-> << >>]
        /\ UnitOf(text, q).path = [m \in Namespaces |-> << >>]
    BY <2>2 DEF OnlyItsOwn
  <2> QED BY <2>3 DEF Declared, EmptyUnit
<1>2. \A f \in Files : Declared(UnitOf(Without(q), f)) = Declared(UnitOf(text, f))
  BY <1>1, WithoutUnit
<1>3. [f \in Files |-> Declared(UnitOf(Without(q), f))] = [f \in Files |-> Declared(UnitOf(text, f))]
  BY <1>2
<1> QED BY <1>3 DEF NamespaceResult

LEMMA SameCandidates ==
  ASSUME TypeOK, NEW q \in Files, OnlyItsOwn(q), NEW r
  PROVE  candidates(Without(q), r) = candidates(text, r)
<1>1. \A n, ns : commandCandidates(Without(q), n, ns) = commandCandidates(text, n, ns)
  BY SameNamespaces DEF commandCandidates
<1> QED BY <1>1 DEF candidates

LEMMA SameLookups ==
  ASSUME TypeOK, NEW p \in Pages, NEW q \in Files, p # q, OnlyItsOwn(q), NEW n
  PROVE  lookupScoped(Without(q), n, p) = lookupScoped(text, n, p)
<1>1. ASSUME NEW l, l.file = q, l \in LookupResult(text, n)  PROVE OfRequest(n)
  <2>1. PICK f \in Files : \E s \in UnitOf(text, f).defs :
          /\ s.kind \in WorkspaceKinds /\ s.name = n
          /\ l = [file |-> f, kind |-> s.kind, name |-> s.name, pos |-> s.pos]
    BY <1>1, LookupSites
  <2>2. f = q  BY <1>1, <2>1
  <2>3. n \in NamesOf(UnitOf(text, q))  BY <2>1, <2>2, SitesTyped, UnitTyped DEF TypeOK
  <2> QED BY <2>3 DEF OnlyItsOwn
<1>2. ASSUME NEW l  PROVE l \in LookupResult(Without(q), n) <=> l \in LookupResult(text, n) /\ l.file # q
  <2>1. EmptyUnit.defs = {}  BY DEF EmptyUnit
  <2>2. \A f \in Files : UnitOf(Without(q), f).defs = IF f = q THEN {} ELSE UnitOf(text, f).defs
    BY <2>1, WithoutUnit
  <2> QED BY <2>2, LookupSites
<1>3. ASSUME NEW l  PROVE l \in lookupScoped(Without(q), n, p) <=> l \in lookupScoped(text, n, p)
  BY <1>1, <1>2 DEF lookupScoped
<1> QED BY <1>3

LEMMA SameMemberResult ==
  ASSUME TypeOK, NEW q \in Files, OnlyItsOwn(q), NEW kind \in MemberKinds, NEW k \in Classes
  PROVE  MemberResult(Without(q), kind, k) = MemberResult(text, kind, k)
<1>1. \A n \in Names : MemberSites(UnitOf(text, q), kind, k, n) = {}
  BY DEF OnlyItsOwn, ClassesOf
<1>2. \A f \in Files, n \in Names :
        MemberSites(UnitOf(Without(q), f), kind, k, n) = MemberSites(UnitOf(text, f), kind, k, n)
  <2>1. \A n : MemberSites(EmptyUnit, kind, k, n) = {}  BY DEF MemberSites, EmptyUnit
  <2> QED BY <1>1, <2>1, WithoutUnit
<1>3. \A n \in Names :
        UNION {Located(f, MemberSites(UnitOf(Without(q), f), kind, k, n)) : f \in Files}
          = UNION {Located(f, MemberSites(UnitOf(text, f), kind, k, n)) : f \in Files}
  BY <1>2
<1> QED BY <1>3 DEF MemberResult

LEMMA SameBases ==
  ASSUME TypeOK, NEW q \in Files, OnlyItsOwn(q), NEW k \in Classes
  PROVE  UNION {UnitOf(Without(q), f).bases[k] : f \in Files} = UNION {UnitOf(text, f).bases[k] : f \in Files}
<1>1. UnitOf(text, q).bases[k] = {} /\ EmptyUnit.bases[k] = {}  BY DEF OnlyItsOwn, ClassesOf, EmptyUnit
<1>2. \A f \in Files : UnitOf(Without(q), f).bases[k] = UnitOf(text, f).bases[k]  BY <1>1, WithoutUnit
<1> QED BY <1>2

\* The bases and the declaring classes that InClass and MethodCallSites use.
Bases(t) == [c \in Classes |-> BaseOrder(UNION {UnitOf(t, f).bases[c] : f \in Files})]
Declaring(t, kind, n) == {c \in Classes : MemberResult(t, kind, c)[n] # {}}

LEMMA InClassIs ==
  ASSUME NEW t, NEW kind, NEW k, NEW n
  PROVE  InClass(t, kind, k, n)
           = UNION {MemberResult(t, kind, c)[n] : c \in FirstMatch(Bases(t), Declaring(t, kind, n), k)}
  BY DEF InClass, Bases, Declaring

LEMMA SameInClass ==
  ASSUME TypeOK, NEW q \in Files, OnlyItsOwn(q), NEW kind \in MemberKinds, NEW k, NEW n
  PROVE  InClass(Without(q), kind, k, n) = InClass(text, kind, k, n)
<1>1. Bases(Without(q)) = Bases(text)  BY SameBases DEF Bases
<1>2. Declaring(Without(q), kind, n) = Declaring(text, kind, n)  BY SameMemberResult DEF Declaring
<1> DEFINE Found == FirstMatch(Bases(text), Declaring(text, kind, n), k)
<1>3. Found \subseteq Classes  BY FirstMatchDeclares DEF Declaring
<1>4. \A c \in Found : MemberResult(Without(q), kind, c)[n] = MemberResult(text, kind, c)[n]
  BY <1>3, SameMemberResult
<1>5. UNION {MemberResult(Without(q), kind, c)[n] : c \in Found}
        = UNION {MemberResult(text, kind, c)[n] : c \in Found}
  BY <1>4
<1> HIDE DEF Found
<1>6. InClass(Without(q), kind, k, n) = UNION {MemberResult(Without(q), kind, c)[n] : c \in Found}
  BY <1>1, <1>2, InClassIs DEF Found
<1>7. InClass(text, kind, k, n) = UNION {MemberResult(text, kind, c)[n] : c \in Found}
  BY InClassIs DEF Found
<1> QED BY <1>5, <1>6, <1>7

LEMMA SameDefinition ==
  ASSUME TypeOK, NEW p \in Pages, NEW q \in Pages, p # q, OnlyItsOwn(q), NEW r
  PROVE  Definition(text, p, r) = Definition(Without(q), p, r)
<1>0. q \in Files /\ p \in Files  BY NamespacesAssumption
<1>1. \A n : lookupScoped(Without(q), n, p) = lookupScoped(text, n, p)  BY <1>0, SameLookups
<1>2. FirstDefined(Without(q), r, p) = FirstDefined(text, r, p)
  BY <1>0, <1>1, SameCandidates DEF FirstDefined
<1>3. \A kind \in MemberKinds : OwnMembers(Without(q), r, kind) = OwnMembers(text, r, kind)
  BY <1>0, SameInClass DEF OwnMembers
<1>4. localDefinition(Without(q), p, r) = localDefinition(text, p, r)
  <2>1. Without(q)[p] = text[p]  BY <1>0 DEF Without, TypeOK
  <2> QED BY <1>1, <2>1 DEF localDefinition
<1>5. "ivar" \in MemberKinds /\ "method" \in MemberKinds  BY DEF MemberKinds
<1>6. UNION {lookupScoped(Without(q), n, p) : n \in FirstDefined(Without(q), r, p)}
        = UNION {lookupScoped(text, n, p) : n \in FirstDefined(text, r, p)}
  BY <1>1, <1>2
<1> QED BY <1>3, <1>4, <1>5, <1>6 DEF Definition

\* Whatever a page defines in its own ::request, in any workspace, no name of
\* another page changes its meaning with it (resolve.go:498-499).
THEOREM PagesApartHolds == Spec => []PagesApart
<1>1. TypeOK => PagesApart
  BY SameDefinition DEF PagesApart, Without
<1> QED BY <1>1, TypeInvariant, PTL

----------------------------------------------------------------------------
(* The first candidate that is defined, and the first match on the bases.  *)

\* n is the candidate at i, and the first that is defined.
FirstAt(t, r, f, n, i) ==
  /\ n = candidates(t, r)[i]
  /\ lookupScoped(t, n, f) # {}
  /\ \A k \in 1..i - 1 : lookupScoped(t, candidates(t, r)[k], f) = {}

LEMMA FirstDefinedIs ==
  ASSUME NEW t, NEW r, NEW f, NEW n
  PROVE  n \in FirstDefined(t, r, f) <=> \E i \in 1..Len(candidates(t, r)) : FirstAt(t, r, f, n, i)
  BY DEF FirstDefined, FirstAt

LEMMA FirstDefinedUnique ==
  ASSUME NEW t, NEW r, NEW f, NEW m \in FirstDefined(t, r, f), NEW n \in FirstDefined(t, r, f)
  PROVE  m = n
<1>1. PICK i \in 1..Len(candidates(t, r)) : FirstAt(t, r, f, m, i)  BY FirstDefinedIs
<1>2. PICK j \in 1..Len(candidates(t, r)) : FirstAt(t, r, f, n, j)  BY FirstDefinedIs
<1>3. i = j \/ i \in 1..j - 1 \/ j \in 1..i - 1  BY SMT
<1> QED BY <1>1, <1>2, <1>3 DEF FirstAt

\* A reference stands for the name that goto-definition follows.
LEMMA RefersToFirst ==
  ASSUME NEW t, NEW r, NEW f, NEW n \in FirstDefined(t, r, f)
  PROVE  refFQ(t, r, f) = n
  BY FirstDefinedUnique DEF refFQ

\* And a defined name that it stands for is one that goto-definition follows.
LEMMA FirstOfReferred ==
  ASSUME NEW t, NEW r, NEW f, NEW n \in Names, refFQ(t, r, f) = n, lookupScoped(t, n, f) # {}
  PROVE  n \in FirstDefined(t, r, f)
<1>1. CASE FirstDefined(t, r, f) # {}  BY <1>1, RefersToFirst
<1>2. CASE FirstDefined(t, r, f) = {}
  <2>1. Len(candidates(t, r)) > 0 /\ n = candidates(t, r)[1]
    BY <1>2, NoNameAssumption DEF refFQ
  <2>2. 1 \in 1..Len(candidates(t, r)) /\ 1..1 - 1 = {}  BY <2>1, SMT
  <2> QED BY <2>1, <2>2, FirstDefinedIs DEF FirstAt
<1> QED BY <1>1, <1>2

----------------------------------------------------------------------------
(* Find-references and goto-definition.                                    *)

\* Only pages have to do with ::request: no .tcl file defines a name in it, or
\* has one among what its references may stand for (resolve.go:500-501 calls
\* anything else outside the supported model).
RequestIsOfPages ==
  \A f \in Files \ Pages :
    /\ \A n \in NamesOf(UnitOf(text, f)) : ~OfRequest(n)
    /\ \A r \in UnitOf(text, f).refs : \A i \in 1..Len(candidates(text, r)) : ~OfRequest(candidates(text, r)[i])

LEMMA ReferencesToIs ==
  ASSUME NEW t, NEW g, NEW n, NEW c
  PROVE  c \in ReferencesTo(t, g, n) <=>
           \E f \in Scanned(g, n) : \E r \in UnitOf(t, f).refs :
             refFQ(t, r, f) = n /\ c = [file |-> f, ref |-> r]
  BY DEF ReferencesTo

LEMMA UsesAre ==
  ASSUME NEW u
  PROVE  u \in Uses <=>
           \E f \in Files : \E r \in UnitOf(text, f).refs :
             ~IsLocal(r) /\ u = [at |-> [file |-> f, ref |-> r], sites |-> Definition(text, f, r)]
  BY DEF Uses

\* What a file defines is in scope wherever find-references looks for it.
LEMMA InScopeWhereScanned ==
  ASSUME TypeOK, RequestIsOfPages, NEW g \in Files, NEW n \in NamesOf(UnitOf(text, g)),
         NEW f \in Scanned(g, n)
  PROVE  /\ f \in Files /\ DefinedIn(g, n) # {}
         /\ DefinedIn(g, n) \subseteq lookupScoped(text, n, f)
<1>1. f \in Files  BY NamespacesAssumption DEF Scanned
<1>2. DefinedIn(g, n) # {}  BY DEF NamesOf, DefinedIn, Located
<1>3. \A l \in DefinedIn(g, n) : l.file = g /\ l \in LookupResult(text, n)
  BY DEF DefinedIn, Located, LookupResult
<1>4. f \in Pages /\ OfRequest(n) => f = g  BY DEF RequestIsOfPages, Scanned
<1> QED BY <1>1, <1>2, <1>3, <1>4 DEF lookupScoped

\* A reference that goto-definition takes to a site is found from it.
LEMMA FoundFromSite ==
  ASSUME TypeOK, RequestIsOfPages, NEW f \in Files, NEW r \in UnitOf(text, f).refs,
         NEW m \in FirstDefined(text, r, f), NEW l \in lookupScoped(text, m, f)
  PROVE  /\ l.file \in Files /\ l.name = m
         /\ [file |-> f, ref |-> r] \in ReferencesTo(text, l.file, m)
<1>1. l \in LookupResult(text, m)  BY DEF lookupScoped
<1>2. PICK g \in Files : \E s \in UnitOf(text, g).defs :
        /\ s.kind \in WorkspaceKinds /\ s.name = m
        /\ l = [file |-> g, kind |-> s.kind, name |-> s.name, pos |-> s.pos]
  BY <1>1, LookupSites
<1>3. l.file = g /\ l.name = m  BY <1>2
<1>4. refFQ(text, r, f) = m  BY RefersToFirst
<1>5. f \in Scanned(g, m)
  <2>1. CASE f \in Pages  BY <1>3, <2>1 DEF lookupScoped, Scanned
  <2>2. CASE f \notin Pages
    <3>1. ~OfRequest(m)  BY <2>2, FirstDefinedIs DEF FirstAt, RequestIsOfPages
    <3> QED BY <3>1 DEF Scanned
  <2> QED BY <2>1, <2>2
<1>6. [file |-> f, ref |-> r] \in ReferencesTo(text, g, m)  BY <1>4, <1>5, ReferencesToIs
<1> QED BY <1>2, <1>3, <1>6

\* What OwnMembers finds are members.
LEMMA OwnMembersAre ==
  ASSUME TypeOK, NEW f \in Files, NEW r \in UnitOf(text, f).refs, NEW kind, NEW l \in OwnMembers(text, r, kind)
  PROVE  /\ r.class # NoClass /\ l.kind = kind
         /\ \E k \in FirstMatch(Bases(text), Declaring(text, kind, r.name), r.class) :
              \E g \in Files : \E s \in UnitOf(text, g).defs :
                /\ s.kind = kind /\ s.class = k /\ s.name = r.name
                /\ l = [file |-> g, kind |-> s.kind, name |-> s.name, pos |-> s.pos]
<1>1. r.name \in Names  BY RefsTyped, UnitTyped DEF TypeOK
<1>2. r.class # NoClass /\ l \in InClass(text, kind, r.class, r.name)  BY DEF OwnMembers
<1>3. PICK k \in FirstMatch(Bases(text), Declaring(text, kind, r.name), r.class) :
        l \in MemberResult(text, kind, k)[r.name]
  BY <1>2, InClassIs
<1>4. PICK g \in Files : \E s \in UnitOf(text, g).defs :
        /\ s.kind = kind /\ s.class = k /\ s.name = r.name
        /\ l = [file |-> g, kind |-> s.kind, name |-> s.name, pos |-> s.pos]
  BY <1>1, <1>3, MemberSitesOf
<1> QED BY <1>2, <1>3, <1>4

LEMMA DefinitionOfOther ==
  ASSUME NEW f, NEW r, ~IsLocal(r), ~ToMethod(r)
  PROVE  Definition(text, f, r) = UNION {lookupScoped(text, n, f) : n \in FirstDefined(text, r, f)}
  BY DEF Definition, ToMethod, Else

LEMMA DefinitionOfMethod ==
  ASSUME NEW f, NEW r, ToMethod(r)
  PROVE  ~IsLocal(r) /\ Definition(text, f, r) = OwnMembers(text, r, "method")
  BY DEF Definition, ToMethod, Else, IsLocal

LEMMA Inverts ==
  ASSUME TypeOK, RequestIsOfPages, NEW g \in Files, NEW n \in NamesOf(UnitOf(text, g)),
         NEW f \in Files, NEW r \in UnitOf(text, f).refs, ~IsLocal(r)
  PROVE  [file |-> f, ref |-> r] \in ReferencesTo(text, g, n) /\ ~ToMethod(r)
           <=> DefinedIn(g, n) \subseteq Definition(text, f, r)
<1>0. n \in Names  BY DEF NamesOf
<1>1. ASSUME [file |-> f, ref |-> r] \in ReferencesTo(text, g, n), ~ToMethod(r)
      PROVE  DefinedIn(g, n) \subseteq Definition(text, f, r)
  <2>1. f \in Scanned(g, n) /\ refFQ(text, r, f) = n
    <3>1. PICK h \in Scanned(g, n) : \E x \in UnitOf(text, h).refs :
            refFQ(text, x, h) = n /\ [file |-> f, ref |-> r] = [file |-> h, ref |-> x]
      BY <1>1, ReferencesToIs
    <3>2. h = f  BY <3>1
    <3> QED BY <3>1, <3>2
  <2>2. DefinedIn(g, n) # {} /\ DefinedIn(g, n) \subseteq lookupScoped(text, n, f)
    BY <2>1, InScopeWhereScanned
  <2>3. n \in FirstDefined(text, r, f)  BY <1>0, <2>1, <2>2, FirstOfReferred
  <2> QED BY <1>1, <2>2, <2>3, DefinitionOfOther
<1>2. ASSUME DefinedIn(g, n) \subseteq Definition(text, f, r)
      PROVE  [file |-> f, ref |-> r] \in ReferencesTo(text, g, n) /\ ~ToMethod(r)
  <2>1. PICK l \in DefinedIn(g, n) : TRUE  BY DEF NamesOf, DefinedIn, Located
  <2>2. l.file = g /\ l.name = n /\ l.kind \in WorkspaceKinds  BY <2>1 DEF DefinedIn, Located, NamedSites
  <2>3. ~ToMethod(r)
    <3>1. SUFFICES ASSUME ToMethod(r) PROVE FALSE  OBVIOUS
    <3>2. l \in OwnMembers(text, r, "method")  BY <1>2, <2>1, <3>1, DefinitionOfMethod
    <3>3. l.kind = "method"  BY <3>2, OwnMembersAre
    <3> QED BY <2>2, <3>3 DEF WorkspaceKinds
  <2>4. PICK m \in FirstDefined(text, r, f) : l \in lookupScoped(text, m, f)
    BY <1>2, <2>1, <2>3, DefinitionOfOther
  <2>5. m = n /\ [file |-> f, ref |-> r] \in ReferencesTo(text, g, m)
    BY <2>2, <2>4, FoundFromSite
  <2> QED BY <2>3, <2>5
<1> QED BY <1>1, <1>2

\* Of any workspace in which only pages have to do with ::request: a reference
\* is found from a definition exactly when goto-definition takes it there.
THEOREM ReferencesAlwaysInvert == Spec => [](RequestIsOfPages => ReferencesInvertDefinition)
<1>1. ASSUME TypeOK, RequestIsOfPages  PROVE ReferencesInvertDefinition
  <2>1. SUFFICES ASSUME NEW g \in Files, NEW n \in NamesOf(UnitOf(text, g))
                 PROVE  {c \in ReferencesTo(text, g, n) : ~IsLocal(c.ref) /\ ~ToMethod(c.ref)}
                          = {c.at : c \in {use \in Uses : DefinedIn(g, n) \subseteq use.sites}}
    BY DEF ReferencesInvertDefinition
  <2> DEFINE Goes(c) == \E f \in Files : \E r \in UnitOf(text, f).refs :
                          /\ c = [file |-> f, ref |-> r] /\ ~IsLocal(r)
                          /\ DefinedIn(g, n) \subseteq Definition(text, f, r)
  <2>2. ASSUME NEW c
        PROVE  c \in {d \in ReferencesTo(text, g, n) : ~IsLocal(d.ref) /\ ~ToMethod(d.ref)} <=> Goes(c)
    <3>1. c \in ReferencesTo(text, g, n) =>
            \E f \in Files : \E r \in UnitOf(text, f).refs : c = [file |-> f, ref |-> r]
      BY NamespacesAssumption DEF ReferencesTo, Scanned
    <3> QED BY <1>1, <3>1, Inverts
  <2>3. ASSUME NEW c
        PROVE  c \in {d.at : d \in {use \in Uses : DefinedIn(g, n) \subseteq use.sites}} <=> Goes(c)
    <3>1. c \in {d.at : d \in {use \in Uses : DefinedIn(g, n) \subseteq use.sites}} <=>
            \E d \in Uses : DefinedIn(g, n) \subseteq d.sites /\ c = d.at
      OBVIOUS
    <3>2. ASSUME NEW d \in Uses, DefinedIn(g, n) \subseteq d.sites, c = d.at  PROVE Goes(c)
      BY <3>2, UsesAre
    <3>3. ASSUME NEW f \in Files, NEW r \in UnitOf(text, f).refs, ~IsLocal(r), c = [file |-> f, ref |-> r],
                 DefinedIn(g, n) \subseteq Definition(text, f, r)
          PROVE  \E d \in Uses : DefinedIn(g, n) \subseteq d.sites /\ c = d.at
      <4> DEFINE d == [at |-> [file |-> f, ref |-> r], sites |-> Definition(text, f, r)]
      <4>1. d \in Uses  BY <3>3, UsesAre
      <4> QED BY <3>3, <4>1
    <3> QED BY <3>1, <3>2, <3>3
  <2> HIDE DEF Goes
  <2> QED BY <2>2, <2>3
<1> QED BY <1>1, TypeInvariant, PTL

----------------------------------------------------------------------------
(* The call hierarchy.                                                     *)

LEMMA MethodCallSitesAre ==
  ASSUME NEW t, NEW g, NEW s, NEW f \in Files, NEW r \in UnitOf(t, f).refs,
         r.kind = "command", r.name = s.name, r.class # NoClass,
         ReachedPastOthers(Bases(t), Declaring(t, "method", s.name), r.class, s.class)
  PROVE  [file |-> f, ref |-> r] \in MethodCallSites(t, g, s)
<1> DEFINE IsCall(x) == /\ x.kind = "command" /\ x.name = s.name /\ x.class # NoClass
                        /\ ReachedPastOthers(Bases(t), Declaring(t, "method", s.name), x.class, s.class)
<1>1. MethodCallSites(t, g, s)
        = UNION {{[file |-> h, ref |-> x] : x \in {y \in UnitOf(t, h).refs : IsCall(y)}} : h \in Files}
  BY DEF MethodCallSites, Bases, Declaring
<1>2. IsCall(r)  OBVIOUS
<1> HIDE DEF IsCall
<1> QED BY <1>1, <1>2

\* A call to a method is one of the call sites that the method is found from.
LEMMA FoundFromMethod ==
  ASSUME TypeOK, NEW f \in Files, NEW r \in UnitOf(text, f).refs, ToMethod(r),
         NEW l \in OwnMembers(text, r, "method")
  PROVE  \E g \in Files : \E s \in Callables(text, g) :
           l.file = g /\ l.pos = s.pos /\ [file |-> f, ref |-> r] \in CallSites(text, g, s)
<1>1. PICK k \in FirstMatch(Bases(text), Declaring(text, "method", r.name), r.class) :
        \E g \in Files : \E s \in UnitOf(text, g).defs :
          /\ s.kind = "method" /\ s.class = k /\ s.name = r.name
          /\ l = [file |-> g, kind |-> s.kind, name |-> s.name, pos |-> s.pos]
  BY OwnMembersAre
<1>2. PICK g \in Files : \E s \in UnitOf(text, g).defs :
        /\ s.kind = "method" /\ s.class = k /\ s.name = r.name
        /\ l = [file |-> g, kind |-> s.kind, name |-> s.name, pos |-> s.pos]
  BY <1>1
<1>3. PICK s \in UnitOf(text, g).defs :
        /\ s.kind = "method" /\ s.class = k /\ s.name = r.name
        /\ l = [file |-> g, kind |-> s.kind, name |-> s.name, pos |-> s.pos]
  BY <1>2
<1>4. r.class # NoClass /\ r.kind = "command"  BY OwnMembersAre DEF ToMethod
<1>5. ReachedPastOthers(Bases(text), Declaring(text, "method", s.name), r.class, s.class)
  <2>1. DOMAIN Bases(text) = Classes  BY DEF Bases
  <2> QED BY <1>1, <1>3, <2>1, FirstMatchPastOthers, ClassesAssumption
<1>6. [file |-> f, ref |-> r] \in MethodCallSites(text, g, s)
  BY <1>3, <1>4, <1>5, MethodCallSitesAre
<1> QED BY <1>3, <1>6 DEF Callables, CallSites

\* And a call to a proc is one of the proc's.
LEMMA FoundFromProc ==
  ASSUME TypeOK, RequestIsOfPages, NEW f \in Files, NEW r \in UnitOf(text, f).refs,
         NEW m \in FirstDefined(text, r, f), NEW l \in lookupScoped(text, m, f), l.kind \in {"proc", "method"}
  PROVE  \E g \in Files : \E s \in Callables(text, g) :
           l.file = g /\ l.pos = s.pos /\ [file |-> f, ref |-> r] \in CallSites(text, g, s)
<1>0. l \in LookupResult(text, m)  BY DEF lookupScoped
<1>1. PICK s \in UnitOf(text, l.file).defs :
        s.kind \in WorkspaceKinds /\ s.name = m /\ l.kind = s.kind /\ l.pos = s.pos
  <2>1. PICK h \in Files : \E s \in UnitOf(text, h).defs :
          /\ s.kind \in WorkspaceKinds /\ s.name = m
          /\ l = [file |-> h, kind |-> s.kind, name |-> s.name, pos |-> s.pos]
    BY <1>0, LookupSites
  <2>2. PICK s \in UnitOf(text, h).defs :
          /\ s.kind \in WorkspaceKinds /\ s.name = m
          /\ l = [file |-> h, kind |-> s.kind, name |-> s.name, pos |-> s.pos]
    BY <2>1
  <2>3. l.file = h /\ l.kind = s.kind /\ l.pos = s.pos  BY <2>2
  <2> QED BY <2>2, <2>3
<1>2. l.file \in Files /\ [file |-> f, ref |-> r] \in ReferencesTo(text, l.file, m)  BY FoundFromSite
<1>3. s.kind = "proc"  BY <1>1 DEF WorkspaceKinds
<1>4. s \in Callables(text, l.file) /\ [file |-> f, ref |-> r] \in CallSites(text, l.file, s)
  BY <1>1, <1>2, <1>3 DEF Callables, CallSites
<1> QED BY <1>1, <1>2, <1>4

LEMMA CallFound ==
  ASSUME TypeOK, RequestIsOfPages, NEW f \in Files, NEW s \in Callables(text, f),
         NEW callee \in outgoingCalls(text, f, s)
  PROVE  \E g \in Files : \E d \in Callables(text, g) :
           callee = [file |-> g, pos |-> d.pos] /\ [file |-> f, pos |-> s.pos] \in incomingCalls(text, g, d)
<1>1. PICK r \in UnitOf(text, f).refs :
        /\ r.kind = "command" /\ r.within = s.pos
        /\ \E l \in Definition(text, f, r) : /\ l.kind \in {"proc", "method"}
                                             /\ callee = [file |-> l.file, pos |-> l.pos]
  BY DEF outgoingCalls
<1>2. PICK l \in Definition(text, f, r) : l.kind \in {"proc", "method"} /\ callee = [file |-> l.file, pos |-> l.pos]
  BY <1>1
<1>3. ~IsLocal(r)  BY <1>1 DEF IsLocal
<1>4. PICK g \in Files : \E d \in Callables(text, g) :
        l.file = g /\ l.pos = d.pos /\ [file |-> f, ref |-> r] \in CallSites(text, g, d)
  <2>1. CASE ToMethod(r)  BY <1>2, <2>1, DefinitionOfMethod, FoundFromMethod
  <2>2. CASE ~ToMethod(r)
    <3>1. PICK m \in FirstDefined(text, r, f) : l \in lookupScoped(text, m, f)
      BY <1>2, <1>3, <2>2, DefinitionOfOther
    <3> QED BY <1>2, <3>1, FoundFromProc
  <2> QED BY <2>1, <2>2
<1>5. PICK d \in Callables(text, g) :
        l.file = g /\ l.pos = d.pos /\ [file |-> f, ref |-> r] \in CallSites(text, g, d)
  BY <1>4
<1>6. [file |-> f, pos |-> r.within] \in incomingCalls(text, g, d)
  <2> DEFINE site == [file |-> f, ref |-> r]
  <2>1. site \in CallSites(text, g, d) /\ site.file = f /\ site.ref.within = r.within  BY <1>5
  <2> HIDE DEF site
  <2> QED BY <2>1 DEF incomingCalls
<1> QED BY <1>1, <1>2, <1>5, <1>6

\* Of any workspace in which only pages have to do with ::request: every call
\* that a callable makes is found again from the callable it calls, however
\* namespaces, imports, inheritance and pages took it there.
THEOREM NoCallerEverMissing == Spec => [](RequestIsOfPages => NoCallerMissing)
<1>1. ASSUME TypeOK, RequestIsOfPages  PROVE NoCallerMissing
  <2>1. SUFFICES ASSUME NEW c \in AllCallables, NEW callee \in outgoingCalls(text, c[1], c[2])
                 PROVE  <<Place(c), callee>> \in CallsIn
    BY DEF NoCallerMissing, CallsOut
  <2>2. PICK f \in Files : \E s \in Callables(text, f) : c = <<f, s>>  BY DEF AllCallables
  <2>3. PICK s \in Callables(text, f) : c = <<f, s>>  BY <2>2
  <2>4. PICK g \in Files : \E d \in Callables(text, g) :
          callee = [file |-> g, pos |-> d.pos] /\ [file |-> f, pos |-> s.pos] \in incomingCalls(text, g, d)
    BY <1>1, <2>3, CallFound
  <2>5. PICK d \in Callables(text, g) :
          callee = [file |-> g, pos |-> d.pos] /\ [file |-> f, pos |-> s.pos] \in incomingCalls(text, g, d)
    BY <2>4
  <2>6. Place(c) = [file |-> f, pos |-> s.pos] /\ Place(c).pos # 0
    <3>1. s \in UnitOf(text, f).defs /\ UnitOf(text, f) \in Units  BY <1>1, UnitTyped DEF Callables, TypeOK
    <3>2. s.pos \in Positions  BY <3>1 DEF Units, Sites
    <3> QED BY <2>3, <3>2, PositionsAssumption DEF Place
  <2>7. <<g, d>> \in AllCallables /\ Place(<<g, d>>) = callee  BY <2>5 DEF AllCallables, Place
  <2>8. <<Place(c), callee>> \in
          UNION {{<<caller, Place(e)>> : caller \in incomingCalls(text, e[1], e[2])} : e \in AllCallables}
    <3> DEFINE e == <<g, d>>
    <3>1. Place(c) \in incomingCalls(text, e[1], e[2]) /\ callee = Place(e) /\ e \in AllCallables
      BY <2>5, <2>6, <2>7
    <3> HIDE DEF e
    <3> QED BY <3>1
  <2> QED BY <2>6, <2>8 DEF CallsIn
<1> QED BY <1>1, TypeInvariant, PTL
=============================================================================
