----------------------------- MODULE Hierarchy -----------------------------
(* Inheritance as itcl classes declare it: bases[k] lists the direct bases *)
(* of k in order, cycles included, and members is the set of classes that  *)
(* declare the member one looks for.                                       *)
EXTENDS Naturals, Sequences, FiniteSets, SequencesExt

\* The paths from start along bases that visit no class twice.
Paths(bases, start) ==
  {p \in UNION {[1..n -> DOMAIN bases] : n \in 1..Cardinality(DOMAIN bases)} :
     /\ p[1] = start
     /\ IsInjective(p)
     /\ \A i \in 1..Len(p) - 1 : Contains(bases[p[i]], p[i + 1])}

\* Depth first, p is met before q: it is a prefix of q, or takes the earlier
\* base where they part.
MetBefore(bases, p, q) ==
  \/ IsStrictPrefix(p, q)
  \/ \E i \in 1..Len(p) - 1 :
       /\ i < Len(q)
       /\ SubSeq(p, 1, i) = SubSeq(q, 1, i)
       /\ p[i + 1] # q[i + 1]
       /\ IndexFirstSubSeq(<<p[i + 1]>>, bases[p[i]]) < IndexFirstSubSeq(<<q[i + 1]>>, bases[p[i]])

\* The classes whose declaration is the first match, depth first from start:
\* at most one.
FirstMatch(bases, members, start) ==
  LET hits == {p \in Paths(bases, start) : Last(p) \in members}
  IN  {Last(p) : p \in {h \in hits : \A other \in hits \ {h} : MetBefore(bases, h, other)}}

\* A declaration in target is met on some path that no other declaration
\* closes.
ReachedPastOthers(bases, members, start, target) ==
  \E p \in Paths(bases, start) :
    Last(p) = target /\ \A i \in 1..Len(p) - 1 : p[i] \notin members

\* The classes that start inherits from, itself included: what every set
\* closed under bases has that contains start.
Closed(bases, S) == \A k \in S : ToSet(bases[k]) \subseteq S
Ancestors(bases, start) ==
  {k \in DOMAIN bases : \A S \in SUBSET DOMAIN bases : start \in S /\ Closed(bases, S) => k \in S}
=============================================================================
