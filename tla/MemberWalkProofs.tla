------------------------- MODULE MemberWalkProofs -------------------------
(* The member walk is sound and complete for every hierarchy, cyclic or    *)
(* not.                                                                    *)
EXTENDS MemberWalk, FiniteSetTheorems, SequenceTheorems, WellFoundedInduction, TLAPS

----------------------------------------------------------------------------
(* The paths of a hierarchy of classes, cyclic or not.  links holds the    *)
(* bases of each class, holders the classes that declare the name, and the *)
(* paths lead from begin: bases, members and start at any moment.          *)

\* A sequence of different classes is no longer than there are classes.
LEMMA InjectiveFits ==
  ASSUME NEW S, IsFiniteSet(S), NEW n \in Nat, n > 0, NEW p \in [1..n -> S], IsInjective(p)
  PROVE  n \in 1..Cardinality(S)
<1>1. p \in Injection(1..n, S)  BY DEF Injection
<1>2. Cardinality(1..n) <= Cardinality(S)  BY <1>1, FS_Injection
<1>3. Cardinality(1..n) = n  BY FS_Interval
<1>4. Cardinality(S) \in Nat  BY FS_CardinalityType
<1> QED BY <1>2, <1>3, <1>4

\* What a path is, without the bound on its length.
LEMMA PathsAre ==
  ASSUME NEW links, IsFiniteSet(DOMAIN links), NEW begin, NEW p
  PROVE  p \in Paths(links, begin) <=>
           /\ p \in Seq(DOMAIN links) /\ Len(p) > 0 /\ p[1] = begin /\ IsInjective(p)
           /\ \A i \in 1..Len(p) - 1 : Contains(links[p[i]], p[i + 1])
<1>1. ASSUME p \in Paths(links, begin)
      PROVE  p \in Seq(DOMAIN links) /\ Len(p) > 0
  <2>1. PICK n \in 1..Cardinality(DOMAIN links) : p \in [1..n -> DOMAIN links]  BY <1>1 DEF Paths
  <2> QED BY <2>1
<1>2. ASSUME p \in Seq(DOMAIN links), Len(p) > 0, IsInjective(p)
      PROVE  p \in UNION {[1..n -> DOMAIN links] : n \in 1..Cardinality(DOMAIN links)}
  <2>1. Len(p) \in Nat /\ p \in [1..Len(p) -> DOMAIN links]  BY <1>2
  <2>2. Len(p) \in 1..Cardinality(DOMAIN links)  BY <1>2, <2>1, InjectiveFits
  <2> QED BY <2>1, <2>2
<1> QED BY <1>1, <1>2 DEF Paths

\* The beginning of a path is a path.
LEMMA PathPrefix ==
  ASSUME NEW links, IsFiniteSet(DOMAIN links), NEW begin, NEW p \in Paths(links, begin), NEW i \in 1..Len(p)
  PROVE  LET q == SubSeq(p, 1, i)
         IN  /\ q \in Paths(links, begin) /\ Len(q) = i /\ Last(q) = p[i]
             /\ \A j \in 1..i : q[j] = p[j]
<1> DEFINE q == SubSeq(p, 1, i)
<1>1. /\ p \in Seq(DOMAIN links) /\ p[1] = begin /\ IsInjective(p)
      /\ \A j \in 1..Len(p) - 1 : Contains(links[p[j]], p[j + 1])
  BY PathsAre
<1>2. q \in Seq(DOMAIN links) /\ Len(q) = i /\ \A j \in 1..i : q[j] = p[j]  BY <1>1
<1>3. Len(p) \in Nat /\ DOMAIN p = 1..Len(p)  BY <1>1
<1> HIDE DEF q
<1>4. DOMAIN q = 1..i  BY <1>2
<1>5. IsInjective(q)
  <2>1. \A a, b \in 1..i : a \in 1..Len(p) /\ b \in 1..Len(p)  BY <1>3
  <2> QED BY <1>1, <1>2, <1>3, <1>4, <2>1 DEF IsInjective
<1>6. ASSUME NEW j \in 1..i - 1  PROVE Contains(links[q[j]], q[j + 1])
  <2>1. j \in 1..Len(p) - 1 /\ j \in 1..i /\ j + 1 \in 1..i  BY <1>3
  <2>2. q[j] = p[j] /\ q[j + 1] = p[j + 1]  BY <1>2, <2>1
  <2> QED BY <1>1, <2>1, <2>2
<1>7. q[1] = begin /\ Len(q) > 0  BY <1>1, <1>2
<1>8. q \in Paths(links, begin)  BY <1>2, <1>5, <1>6, <1>7, PathsAre
<1>9. Last(q) = p[i]  BY <1>2 DEF Last
<1> QED BY <1>2, <1>8, <1>9 DEF q

\* A class is reached from itself,
LEMMA StartReached ==
  ASSUME NEW links, IsFiniteSet(DOMAIN links), NEW holders, NEW begin \in DOMAIN links
  PROVE  ReachedPastOthers(links, holders, begin, begin)
<1> DEFINE p == <<begin>>
<1>1. p \in Seq(DOMAIN links) /\ Len(p) = 1 /\ p[1] = begin /\ DOMAIN p = 1..1  OBVIOUS
<1> HIDE DEF p
<1>2. IsInjective(p)  BY <1>1 DEF IsInjective
<1>3. ASSUME NEW i \in 1..Len(p) - 1  PROVE FALSE  BY <1>1
<1>4. p \in Paths(links, begin)
  <2>1. Len(p) > 0 /\ \A i \in 1..Len(p) - 1 : Contains(links[p[i]], p[i + 1])  BY <1>1, <1>3
  <2> QED BY <1>1, <1>2, <2>1, PathsAre
<1>5. Last(p) = begin  BY <1>1 DEF Last
<1> QED BY <1>3, <1>4, <1>5 DEF ReachedPastOthers

\* and the bases of a class that is reached are, if it does not declare the
\* member: a base already on the path by a part of it, another one by one
\* step more.
LEMMA BaseReached ==
  ASSUME NEW links, IsFiniteSet(DOMAIN links), NEW holders, NEW begin,
         NEW k, k \notin holders, ReachedPastOthers(links, holders, begin, k),
         NEW base \in DOMAIN links, Contains(links[k], base)
  PROVE  ReachedPastOthers(links, holders, begin, base)
<1>1. PICK p \in Paths(links, begin) : Last(p) = k /\ \A i \in 1..Len(p) - 1 : p[i] \notin holders
  BY DEF ReachedPastOthers
<1>2. /\ p \in Seq(DOMAIN links) /\ Len(p) > 0 /\ p[1] = begin /\ IsInjective(p)
      /\ \A i \in 1..Len(p) - 1 : Contains(links[p[i]], p[i + 1])
  BY PathsAre
<1>3. Len(p) \in Nat /\ DOMAIN p = 1..Len(p) /\ p[Len(p)] = k  BY <1>1, <1>2 DEF Last
<1>4. CASE \E i \in 1..Len(p) : p[i] = base
  <2>1. PICK i \in 1..Len(p) : p[i] = base  BY <1>4
  <2> DEFINE q == SubSeq(p, 1, i)
  <2>2. q \in Paths(links, begin) /\ Len(q) = i /\ Last(q) = base /\ \A j \in 1..i : q[j] = p[j]
    BY <1>2, <2>1, PathPrefix
  <2> HIDE DEF q
  <2>3. \A j \in 1..Len(q) - 1 : q[j] \notin holders  BY <1>1, <1>3, <2>2
  <2> QED BY <2>2, <2>3 DEF ReachedPastOthers
<1>5. CASE \A i \in 1..Len(p) : p[i] # base
  <2> DEFINE q == Append(p, base)
  <2>1. /\ q \in Seq(DOMAIN links) /\ Len(q) = Len(p) + 1 /\ q[Len(p) + 1] = base
        /\ \A i \in 1..Len(p) : q[i] = p[i]
    BY <1>2
  <2> HIDE DEF q
  <2>2. DOMAIN q = 1..Len(p) + 1  BY <2>1
  <2>3. IsInjective(q)
    <3>1. \A a, b \in 1..Len(p) : p[a] = p[b] => a = b  BY <1>2, <1>3 DEF IsInjective
    <3>2. \A a \in DOMAIN q : a \in 1..Len(p) \/ a = Len(p) + 1  BY <1>3, <2>2
    <3> QED BY <1>5, <2>1, <3>1, <3>2 DEF IsInjective
  <2>4. ASSUME NEW i \in 1..Len(q) - 1
        PROVE  Contains(links[q[i]], q[i + 1]) /\ q[i] \notin holders
    <3>1. i \in 1..Len(p)  BY <1>3, <2>1
    <3>2. CASE i = Len(p)  BY <1>3, <2>1, <3>1, <3>2
    <3>3. CASE i # Len(p)
      <4>1. \A n \in Nat : i \in 1..n /\ i # n => i \in 1..n - 1 /\ i + 1 \in 1..n  OBVIOUS
      <4>2. i \in 1..Len(p) - 1 /\ i + 1 \in 1..Len(p)  BY <1>3, <3>1, <3>3, <4>1
      <4> QED BY <1>1, <1>2, <2>1, <3>1, <4>2
    <3> QED BY <3>2, <3>3
  <2>5. q[1] = begin /\ Len(q) > 0  BY <1>2, <1>3, <2>1
  <2>6. q \in Paths(links, begin)  BY <2>1, <2>3, <2>4, <2>5, PathsAre
  <2> QED BY <2>1, <2>4, <2>6 DEF ReachedPastOthers, Last
<1> QED BY <1>4, <1>5

\* What holds start and, with every class that does not declare the member,
\* its bases, holds every class that is reached: the first class of a path
\* outside it would have a base in it.
LEMMA ReachedWithin ==
  ASSUME NEW links, IsFiniteSet(DOMAIN links), NEW holders, NEW begin, NEW S, begin \in S,
         \A k \in S \ holders : \A base : Contains(links[k], base) => base \in S,
         NEW target, ReachedPastOthers(links, holders, begin, target)
  PROVE  target \in S
<1>1. PICK p \in Paths(links, begin) : Last(p) = target /\ \A i \in 1..Len(p) - 1 : p[i] \notin holders
  BY DEF ReachedPastOthers
<1>2. /\ p \in Seq(DOMAIN links) /\ Len(p) > 0 /\ p[1] = begin
      /\ \A i \in 1..Len(p) - 1 : Contains(links[p[i]], p[i + 1])
  BY PathsAre
<1>3. Len(p) \in Nat /\ p[Len(p)] = target  BY <1>1, <1>2 DEF Last
<1> DEFINE Outside == {i \in 1..Len(p) : p[i] \notin S}
<1>4. SUFFICES ASSUME Outside # {} PROVE FALSE  BY <1>2, <1>3
<1>5. Outside \subseteq Nat  BY <1>3
<1>6. PICK i \in Outside : \A j \in Outside : ~(<<j, i>> \in OpToRel(<, Nat))
  BY <1>4, <1>5, WFMin, NatLessThanWellFounded
<1>7. \A j \in Outside : ~(j < i)  BY <1>5, <1>6 DEF OpToRel
<1>8. i # 1  BY <1>2
<1>9. i - 1 \in 1..Len(p) - 1 /\ i - 1 \in 1..Len(p) /\ (i - 1) + 1 = i  BY <1>3, <1>8
<1>10. p[i - 1] \in S  BY <1>7, <1>9
<1>11. Contains(links[p[i - 1]], p[i])  BY <1>2, <1>9
<1>12. p[i] \in S  BY <1>1, <1>9, <1>10, <1>11
<1> QED BY <1>12

----------------------------------------------------------------------------
(* The order of a depth-first walk.                                        *)

\* A sequence of numbers has a first that is in a set.
LEMMA LeastExists ==
  ASSUME NEW S \in SUBSET Nat, S # {}
  PROVE  \E k \in S : \A j \in S : k <= j
<1>1. PICK k \in S : \A j \in S : ~(<<j, k>> \in OpToRel(<, Nat))
  BY NatLessThanWellFounded, WFMin
<1>2. \A j \in S : ~(j < k)  BY <1>1 DEF OpToRel
<1> QED BY <1>2

\* Beginnings are equal when they are element by element.
LEMMA SubSeqsEqual ==
  ASSUME NEW T, NEW s \in Seq(T), NEW t \in Seq(T), NEW n \in Nat, n <= Len(s), n <= Len(t),
         \A m \in 1..n : t[m] = s[m]
  PROVE  SubSeq(s, 1, n) = SubSeq(t, 1, n)
<1>1. /\ SubSeq(s, 1, n) \in Seq(T) /\ Len(SubSeq(s, 1, n)) = n
      /\ SubSeq(t, 1, n) \in Seq(T) /\ Len(SubSeq(t, 1, n)) = n
  OBVIOUS
<1>2. ASSUME NEW m \in 1..n  PROVE SubSeq(s, 1, n)[m] = SubSeq(t, 1, n)[m]
  OBVIOUS
<1> QED BY <1>1, <1>2, SeqEqual

\* Where one element occurs in a sequence.
LEMMA OccursIn ==
  ASSUME NEW T, NEW t \in Seq(T), NEW c, NEW i \in 0..Len(t)
  PROVE  <<c>> \in SubSeqs(SubSeq(t, 1, i)) <=> \E n \in 1..i : t[n] = c
<1> DEFINE s == SubSeq(t, 1, i)
<1>1. s \in Seq(T) /\ Len(s) = i /\ \A n \in 1..i : s[n] = t[n]  OBVIOUS
<1> HIDE DEF s
<1>2. ASSUME <<c>> \in SubSeqs(s)  PROVE \E n \in 1..i : t[n] = c
  <2>1. PICK a, b \in 0..Len(s) : <<c>> = SubSeq(s, a + 1, b)  BY <1>2 DEF SubSeqs
  <2>2. Len(SubSeq(s, a + 1, b)) = IF a + 1 <= b THEN b - a ELSE 0  BY <1>1
  <2>3. Len(<<c>>) = 1 /\ <<c>>[1] = c  OBVIOUS
  <2>4. b = a + 1
    <3>1. (IF a + 1 <= b THEN b - a ELSE 0) = 1  BY <2>1, <2>2, <2>3
    <3> QED BY <1>1, <3>1
  <2>5. b \in 1..i /\ SubSeq(s, a + 1, b)[1] = s[a + 1]  BY <1>1, <2>4
  <2> QED BY <1>1, <2>1, <2>3, <2>4, <2>5
<1>3. ASSUME NEW n \in 1..i, t[n] = c  PROVE <<c>> \in SubSeqs(s)
  <2>1. n - 1 \in 0..Len(s) /\ n \in 0..Len(s) /\ (n - 1) + 1 = n  BY <1>1
  <2>2. SubSeq(s, n, n) = <<c>>
    <3>1. n \in 1..Len(s) /\ n \in Int /\ s[n] = c /\ c \in T  BY <1>1, <1>3
    <3>2. SubSeq(s, n, n) = SubSeq(s, n, n - 1) \o <<s[n]>>  BY <1>1, <3>1, SubSeqRecursiveSecond
    <3>3. SubSeq(s, n, n - 1) = << >>  BY <3>1, SubSeqEmpty
    <3>4. <<c>> \in Seq(T)  BY <3>1
    <3> QED BY <3>1, <3>2, <3>3, <3>4, ConcatEmptySeq
  <2>3. <<c>> = SubSeq(s, (n - 1) + 1, n)  BY <1>1, <1>3, <2>1, <2>2
  <2>4. \E a, b \in 0..Len(s) : <<c>> = SubSeq(s, a + 1, b)  BY <2>1, <2>3
  <2> QED BY <2>4 DEF SubSeqs
<1> QED BY <1>2, <1>3 DEF s

\* IndexFirstSubSeq of one element is its first place.
LEMMA FirstPlace ==
  ASSUME NEW T, NEW t \in Seq(T), NEW n \in 1..Len(t)
  PROVE  LET place == IndexFirstSubSeq(<<t[n]>>, t)
         IN  place \in 1..n /\ t[place] = t[n] /\ \A m \in 1..place - 1 : t[m] # t[n]
<1> DEFINE c == t[n]
           Places == {m \in 1..Len(t) : t[m] = c}
<1>1. Len(t) \in Nat /\ Places \in SUBSET Nat /\ n \in Places  OBVIOUS
<1>2. PICK f \in Places : \A m \in Places : f <= m  BY <1>1, LeastExists
<1>3. f \in 1..Len(t) /\ f <= n /\ t[f] = c /\ \A m \in 1..f - 1 : t[m] # c  BY <1>1, <1>2
<1> DEFINE IsLast(i) == /\ <<c>> \in SubSeqs(SubSeq(t, 1, i))
                        /\ \A j \in 0..i - 1 : <<c>> \notin SubSeqs(SubSeq(t, 1, j))
<1> HIDE DEF c, Places
<1>4. \A i \in 0..Len(t) : <<c>> \in SubSeqs(SubSeq(t, 1, i)) <=> f <= i
  <2> TAKE i \in 0..Len(t)
  <2>1. (\E m \in 1..i : t[m] = c) <=> f <= i  BY <1>1, <1>3
  <2> QED BY <2>1, OccursIn
<1>5. f \in 0..Len(t) /\ IsLast(f)  BY <1>1, <1>3, <1>4
<1>6. ASSUME NEW i \in 0..Len(t), IsLast(i)  PROVE i = f
  <2>1. f <= i  BY <1>4, <1>6
  <2>2. ~(f < i)  BY <1>4, <1>5, <1>6
  <2> QED BY <1>3, <2>1, <2>2
<1> HIDE DEF IsLast
<1>7. (CHOOSE i \in 0..Len(t) : IsLast(i)) = f  BY <1>5, <1>6
<1>8. Len(<<c>>) = 1  OBVIOUS
<1>9. IndexFirstSubSeq(<<c>>, t) = f - (1 - 1)  BY <1>7, <1>8 DEF IndexFirstSubSeq, IsLast
<1>10. IndexFirstSubSeq(<<c>>, t) = f  BY <1>1, <1>3, <1>9
<1> QED BY <1>1, <1>3, <1>10 DEF c

\* Of two paths, not each is met before the other.
LEMMA MetBeforeAsymmetric ==
  ASSUME NEW C, NEW links \in [C -> Seq(C)], NEW p \in Seq(C), NEW q \in Seq(C),
         \A n \in 1..Len(p) - 1 : Contains(links[p[n]], p[n + 1]),
         \A n \in 1..Len(q) - 1 : Contains(links[q[n]], q[n + 1]),
         MetBefore(links, p, q), MetBefore(links, q, p)
  PROVE  FALSE
<1> DEFINE Parts(s, t, n) == /\ n \in 1..Len(s) - 1 /\ n < Len(t)
                             /\ \A m \in 1..n : s[m] = t[m]
                             /\ s[n + 1] # t[n + 1]
                             /\ IndexFirstSubSeq(<<s[n + 1]>>, links[s[n]]) < IndexFirstSubSeq(<<t[n + 1]>>, links[s[n]])
           Extends(s, t) == Len(s) <= Len(t) /\ (\A m \in 1..Len(s) : s[m] = t[m]) /\ s # t
<1>1. ASSUME NEW s \in Seq(C), NEW t \in Seq(C), MetBefore(links, s, t)
      PROVE  Extends(s, t) \/ \E n \in 1..Len(s) - 1 : Parts(s, t, n)
  <2>1. CASE IsStrictPrefix(s, t)
    <3>1. Len(s) <= Len(t) /\ SubSeq(s, 1, Len(s)) = SubSeq(t, 1, Len(s)) /\ s # t
      BY <2>1 DEF IsStrictPrefix, IsPrefix
    <3>2. \A m \in 1..Len(s) : s[m] = t[m]
      <4> TAKE m \in 1..Len(s)
      <4>1. SubSeq(s, 1, Len(s))[m] = s[m] /\ SubSeq(t, 1, Len(s))[m] = t[m]  BY <3>1
      <4> QED BY <3>1, <4>1
    <3> QED BY <3>1, <3>2
  <2>2. CASE ~IsStrictPrefix(s, t)
    <3>1. PICK n \in 1..Len(s) - 1 :
            /\ n < Len(t) /\ SubSeq(s, 1, n) = SubSeq(t, 1, n) /\ s[n + 1] # t[n + 1]
            /\ IndexFirstSubSeq(<<s[n + 1]>>, links[s[n]]) < IndexFirstSubSeq(<<t[n + 1]>>, links[s[n]])
      BY <1>1, <2>2 DEF MetBefore
    <3>2. \A m \in 1..n : s[m] = t[m]
      <4> TAKE m \in 1..n
      <4>1. SubSeq(s, 1, n)[m] = s[m] /\ SubSeq(t, 1, n)[m] = t[m]  BY <3>1
      <4> QED BY <3>1, <4>1
    <3> QED BY <3>1, <3>2
  <2> QED BY <2>1, <2>2
<1>2. Len(p) \in Nat /\ Len(q) \in Nat  OBVIOUS
<1>3. ~(Extends(p, q) /\ Extends(q, p))
  <2>1. SUFFICES ASSUME Extends(p, q), Extends(q, p) PROVE FALSE  OBVIOUS
  <2>2. Len(p) = Len(q)  BY <1>2, <2>1
  <2>3. p = q  BY <2>1, <2>2, SeqEqual
  <2> QED BY <2>1, <2>3
<1>4. ASSUME NEW s \in Seq(C), NEW t \in Seq(C), Extends(s, t), NEW n \in 1..Len(t) - 1, Parts(t, s, n)
      PROVE  FALSE
  <2>1. n + 1 \in 1..Len(s)  BY <1>4
  <2> QED BY <1>4, <2>1
<1>5. ASSUME NEW n \in 1..Len(p) - 1, NEW m \in 1..Len(q) - 1, Parts(p, q, n), Parts(q, p, m)
      PROVE  FALSE
  <2>1. n \in Nat /\ m \in Nat  BY <1>2
  <2>2. CASE n < m
    <3>1. n + 1 \in 1..m  BY <2>1, <2>2
    <3> QED BY <1>5, <3>1
  <2>3. CASE m < n
    <3>1. m + 1 \in 1..n  BY <2>1, <2>3
    <3> QED BY <1>5, <3>1
  <2>4. CASE n = m
    <3> DEFINE x == IndexFirstSubSeq(<<p[n + 1]>>, links[p[n]])
               y == IndexFirstSubSeq(<<q[n + 1]>>, links[p[n]])
    <3>1. p[n] = q[n]  BY <1>5
    <3>2. x < y /\ y < x  BY <1>5, <2>4, <3>1
    <3>3. \A c, k \in C : Contains(links[k], c) => IndexFirstSubSeq(<<c>>, links[k]) \in Nat
      <4> TAKE c, k \in C
      <4>1. ASSUME NEW j \in 1..Len(links[k]), links[k][j] = c
            PROVE  IndexFirstSubSeq(<<c>>, links[k]) \in Nat
        <5>1. links[k] \in Seq(C)  OBVIOUS
        <5>2. IndexFirstSubSeq(<<links[k][j]>>, links[k]) \in 1..j  BY <5>1, FirstPlace
        <5> QED BY <4>1, <5>2
      <4> QED BY <4>1 DEF Contains
    <3>4. p[n] \in C /\ p[n + 1] \in C /\ q[n + 1] \in C
      <4>1. n \in 1..Len(p) /\ n + 1 \in 1..Len(p) /\ n + 1 \in 1..Len(q)  BY <1>2, <2>4
      <4> QED BY <4>1, ElementOfSeq
    <3>5. x \in Nat /\ y \in Nat  BY <2>4, <3>1, <3>3, <3>4
    <3> QED BY <3>2, <3>5
  <2> QED BY <2>1, <2>2, <2>3, <2>4
<1> HIDE DEF Extends, Parts
<1>6. Extends(p, q) \/ \E n \in 1..Len(p) - 1 : Parts(p, q, n)  BY <1>1
<1>7. Extends(q, p) \/ \E n \in 1..Len(q) - 1 : Parts(q, p, n)  BY <1>1
<1> QED BY <1>3, <1>4, <1>5, <1>6, <1>7

\* The path that is met before every other hit is the first match.
LEMMA FirstMatchIs ==
  ASSUME NEW C, IsFiniteSet(C), NEW links \in [C -> Seq(C)], NEW holders, NEW begin,
         NEW h \in Paths(links, begin), Last(h) \in holders,
         \A p \in Paths(links, begin) \ {h} : Last(p) \in holders => MetBefore(links, h, p)
  PROVE  FirstMatch(links, holders, begin) = {Last(h)}
<1> DEFINE hits == {p \in Paths(links, begin) : Last(p) \in holders}
           First(p) == \A other \in hits \ {p} : MetBefore(links, p, other)
<1>1. \A p \in hits : /\ p \in Seq(C)
                      /\ \A n \in 1..Len(p) - 1 : Contains(links[p[n]], p[n + 1])
  BY PathsAre
<1>2. h \in hits /\ First(h)  OBVIOUS
<1>3. ASSUME NEW p \in hits, First(p)  PROVE p = h
  BY <1>1, <1>2, <1>3, MetBeforeAsymmetric
<1>4. FirstMatch(links, holders, begin) = {Last(p) : p \in {h2 \in hits : First(h2)}}  BY DEF FirstMatch
<1> HIDE DEF hits, First
<1>5. {h2 \in hits : First(h2)} = {h}  BY <1>2, <1>3
<1> QED BY <1>4, <1>5

----------------------------------------------------------------------------
(* The ancestors of a class and the walk over them.                        *)

\* The bases of an ancestor are ancestors, and a class is its own.
LEMMA AncestorsClosed ==
  ASSUME TypeOK
  PROVE  /\ start \in Ancestors(bases, start)
         /\ \A k \in Ancestors(bases, start) : ToSet(bases[k]) \subseteq Ancestors(bases, start)
         /\ Ancestors(bases, start) \subseteq Classes
<1>1. DOMAIN bases = Classes /\ start \in Classes
  BY DEF TypeOK
<1>2. \A k \in Classes : ToSet(bases[k]) \subseteq Classes
  BY DEF TypeOK, ToSet
<1>3. ASSUME NEW k \in Ancestors(bases, start), NEW b \in ToSet(bases[k])
      PROVE  b \in Ancestors(bases, start)
  <2>1. ASSUME NEW S \in SUBSET DOMAIN bases, start \in S, Closed(bases, S)
        PROVE  b \in S
    <3>1. k \in S
      BY <1>3, <2>1 DEF Ancestors
    <3>2. QED
      BY <1>3, <2>1, <3>1 DEF Closed
  <2>2. b \in DOMAIN bases
    BY <1>1, <1>2, <1>3 DEF Ancestors
  <2>3. QED
    BY <2>1, <2>2 DEF Ancestors
<1>4. QED
  BY <1>1, <1>3 DEF Ancestors

\* A set that is closed under bases and contains the class holds all its
\* ancestors.
LEMMA ClosedHoldsAncestors ==
  ASSUME TypeOK, NEW S \in SUBSET Classes, start \in S, Closed(bases, S)
  PROVE  Ancestors(bases, start) \subseteq S
  BY DEF Ancestors, TypeOK

\* A stack and the classes it holds.
LEMMA StackOfOne ==
  ASSUME NEW k \in Classes
  PROVE  <<k>> \in Seq(Classes) /\ ToSet(<<k>>) = {k}
  BY DEF ToSet

\* The top of a stack and the rest of it hold what the stack holds.
LEMMA StackTop ==
  ASSUME NEW s \in Seq(Classes), s # << >>
  PROVE  /\ Head(s) \in Classes
         /\ Tail(s) \in Seq(Classes)
         /\ ToSet(s) = {Head(s)} \cup ToSet(Tail(s))
<1>1. Len(s) \in Nat \ {0} /\ DOMAIN s = 1..Len(s)
  OBVIOUS
<1>2. Head(s) = s[1] /\ Tail(s) \in Seq(Classes) /\ Len(Tail(s)) = Len(s) - 1
  BY <1>1
<1>3. \A i \in 1..Len(s) - 1 : Tail(s)[i] = s[i + 1]
  BY <1>1
<1>4. ASSUME NEW i \in 1..Len(s), i # 1 PROVE s[i] \in ToSet(Tail(s))
  <2>1. i - 1 \in 1..Len(s) - 1 /\ (i - 1) + 1 = i
    BY <1>1, <1>4
  <2>2. Tail(s)[i - 1] = s[i] /\ i - 1 \in DOMAIN Tail(s)
    BY <1>2, <1>3, <2>1
  <2>3. QED
    BY <2>2 DEF ToSet
<1>5. ToSet(Tail(s)) \subseteq ToSet(s)
  BY <1>1, <1>2, <1>3 DEF ToSet
<1>6. s[1] \in ToSet(s) /\ ToSet(s) \subseteq {s[1]} \cup ToSet(Tail(s))
  BY <1>1, <1>4 DEF ToSet
<1>7. ToSet(s) = {s[1]} \cup ToSet(Tail(s))
  BY <1>5, <1>6
<1>8. s[1] \in Classes
  BY <1>1
<1>9. QED
  BY <1>2, <1>7, <1>8

\* Pushing a list of classes adds exactly these.
LEMMA StackPush ==
  ASSUME NEW s \in Seq(Classes), NEW t \in Seq(Classes)
  PROVE  /\ s \o t \in Seq(Classes)
         /\ ToSet(s \o t) = ToSet(s) \cup ToSet(t)
<1>1. Len(s \o t) = Len(s) + Len(t) /\ Len(s) \in Nat /\ Len(t) \in Nat
  OBVIOUS
<1>2. \A i \in 1..Len(s) : (s \o t)[i] = s[i]
  OBVIOUS
<1>3. \A i \in 1..Len(t) : (s \o t)[Len(s) + i] = t[i]
  OBVIOUS
<1>4. ASSUME NEW i \in 1..Len(s) + Len(t) PROVE (s \o t)[i] \in ToSet(s) \cup ToSet(t)
  <2>1. CASE i <= Len(s)
    BY <1>1, <1>2, <2>1 DEF ToSet
  <2>2. CASE i > Len(s)
    <3>1. i - Len(s) \in 1..Len(t) /\ Len(s) + (i - Len(s)) = i
      BY <1>1, <2>2
    <3>2. QED
      BY <1>3, <3>1 DEF ToSet
  <2>3. QED
    BY <1>1, <2>1, <2>2
<1>5. ToSet(s) \subseteq ToSet(s \o t)
  BY <1>1, <1>2 DEF ToSet
<1>6. ToSet(t) \subseteq ToSet(s \o t)
  <2>1. ASSUME NEW i \in 1..Len(t) PROVE t[i] \in ToSet(s \o t)
    <3>1. Len(s) + i \in DOMAIN (s \o t)
      BY <1>1
    <3>2. t[i] = (s \o t)[Len(s) + i]
      BY <1>3
    <3>3. QED
      BY <3>1, <3>2 DEF ToSet
  <2>2. \A e \in ToSet(t) : \E i \in 1..Len(t) : e = t[i]
    BY DEF ToSet
  <2>3. QED
    BY <2>1, <2>2
<1>7. ToSet(s \o t) \subseteq ToSet(s) \cup ToSet(t)
  BY <1>1, <1>4 DEF ToSet
<1>8. QED
  BY <1>5, <1>6, <1>7

\* The walk starts with the class of the call.
LEMMA WalkInit == Init => WalkInv
<1> SUFFICES ASSUME Init PROVE WalkInv
  OBVIOUS
<1>1. TypeOK
  BY HierarchiesAssumption, CallersAssumption, StackOfOne DEF Init, TypeOK
<1>2. Frontier
  BY <1>1, AncestorsClosed, StackOfOne DEF Init, Frontier, TypeOK
<1>3. QED
  BY <1>1, <1>2 DEF Init, WalkInv, MissIsComplete

\* What the first walk found is never touched again.
LEMMA MissStays ==
  ASSUME MissIsComplete, walk # "methodInClass", UNCHANGED <<table, found>>
  PROVE  MissIsComplete'
  BY DEF MissIsComplete, table

\* An empty stack: what has been visited is closed under bases, so it holds
\* every ancestor.
LEMMA ExhaustedStep == ASSUME WalkInv, Exhausted PROVE WalkInv'
<1> USE DEF WalkInv
<1>1. TypeOK'
  BY StackOfOne DEF TypeOK, Exhausted, Return, table
<1>2. CASE walk = "methodInClass"
  <2>1. ToSet(stack) = {}
    BY DEF Exhausted, ToSet
  <2>2. Closed(bases, seen) /\ start \in seen /\ seen \cap members = {} /\ found = NoClass
    BY <1>2, <2>1 DEF Frontier, Closed
  <2>3. Ancestors(bases, start) \cap members = {}
    BY <2>2, ClosedHoldsAncestors DEF TypeOK
  <2>4. walk' = "methodResolvesTo"
    BY <1>2 DEF Exhausted, Return
  <2>5. QED
    BY <1>1, <2>2, <2>3, <2>4 DEF MissIsComplete, Frontier, Exhausted, table
<1>3. CASE walk = "methodResolvesTo"
  <2>1. walk' = "done"
    BY <1>3 DEF Exhausted, Return
  <2>2. QED
    BY <1>1, <1>3, <2>1, MissStays DEF Frontier, Exhausted
<1>4. QED
  BY <1>2, <1>3 DEF Exhausted, Return

\* A class visited before leaves the stack and stays in the visited set.
LEMMA SkipStep == ASSUME WalkInv, NEW k \in Classes, Skip(k) PROVE WalkInv'
<1> USE DEF WalkInv
<1>1. /\ stack \in Seq(Classes) /\ stack # << >> /\ Head(stack) = k /\ k \in seen
      /\ UNCHANGED <<table, walk, seen, found, resolves>> /\ stack' = Tail(stack)
  BY DEF TypeOK, Skip, Visit, IsNew
<1>2. ToSet(stack) = {k} \cup ToSet(stack') /\ stack' \in Seq(Classes)
  BY <1>1, StackTop
<1>3. TypeOK'
  BY <1>1, <1>2 DEF TypeOK, table
<1>4. seen \cup ToSet(stack) = seen \cup ToSet(stack')
  BY <1>1, <1>2
<1>5. Frontier'
  BY <1>1, <1>4 DEF Frontier, table
<1>6. QED
  BY <1>1, <1>3, <1>5 DEF MissIsComplete, table

\* The bases of a class wait before the class counts as visited.
LEMMA DescendStep == ASSUME WalkInv, NEW k \in Classes, Descend(k) PROVE WalkInv'
<1> USE DEF WalkInv
<1>1. /\ stack \in Seq(Classes) /\ stack # << >> /\ Head(stack) = k /\ k \notin members
      /\ bases[k] \in Seq(Classes) /\ seen' = seen \cup {k} /\ stack' = bases[k] \o Tail(stack)
      /\ UNCHANGED <<table, walk, found, resolves>>
  BY DEF TypeOK, Descend, Visit, Push
<1>2. Tail(stack) \in Seq(Classes) /\ ToSet(stack) = {k} \cup ToSet(Tail(stack))
  BY <1>1, StackTop
<1>3. stack' \in Seq(Classes) /\ ToSet(stack') = ToSet(bases[k]) \cup ToSet(Tail(stack))
  BY <1>1, <1>2, StackPush
<1>4. TypeOK'
  BY <1>1, <1>3 DEF TypeOK, table
<1>5. seen' \cup ToSet(stack') = seen \cup ToSet(stack) \cup ToSet(bases[k])
  BY <1>1, <1>2, <1>3
<1>6. ASSUME walk = "methodInClass" PROVE Frontier'
  <2>1. ToSet(bases[k]) \subseteq Ancestors(bases, start)
    BY <1>2, <1>6, AncestorsClosed DEF Frontier
  <2>2. seen' \cup ToSet(stack') \subseteq Ancestors(bases, start)
    BY <1>5, <1>6, <2>1 DEF Frontier
  <2>3. \A j \in seen' : j \notin members /\ ToSet(bases[j]) \subseteq seen' \cup ToSet(stack')
    BY <1>1, <1>5, <1>6 DEF Frontier
  <2>4. found' = NoClass /\ start \in seen' \cup ToSet(stack')
    BY <1>1, <1>5, <1>6 DEF Frontier
  <2>5. QED
    BY <1>1, <2>2, <2>3, <2>4 DEF Frontier, table
<1>7. Frontier'
  BY <1>1, <1>6 DEF Frontier
<1>8. QED
  BY <1>1, <1>4, <1>7 DEF MissIsComplete, table

\* The class that matches is an ancestor, because it waited on the stack.
LEMMA MatchStep == ASSUME WalkInv, NEW k \in Classes, Match(k) PROVE WalkInv'
<1> USE DEF WalkInv
<1>1. /\ stack \in Seq(Classes) /\ stack # << >> /\ Head(stack) = k /\ k \in members
      /\ walk = "methodInClass" /\ found' = k /\ walk' = "methodResolvesTo"
      /\ stack' = <<start>> /\ seen' = {} /\ UNCHANGED <<table, resolves>>
  BY DEF TypeOK, Match, Visit, Return
<1>2. k \in ToSet(stack)
  BY <1>1, StackTop
<1>3. k \in Ancestors(bases, start)
  BY <1>1, <1>2 DEF Frontier
<1>4. TypeOK'
  BY <1>1, StackOfOne DEF TypeOK, table
<1>5. Frontier'
  BY <1>1 DEF Frontier
<1>6. QED
  BY <1>1, <1>3, <1>4, <1>5, NoClassAssumption DEF MissIsComplete, table

\* The second walk leaves what the first one found alone.
LEMMA ReachStep == ASSUME WalkInv, NEW k \in Classes, Reach(k) PROVE WalkInv'
<1> USE DEF WalkInv
<1>1. /\ walk = "methodResolvesTo" /\ walk' = "done" /\ resolves' = TRUE
      /\ UNCHANGED <<table, found, stack, seen>>
  BY DEF Reach, Return
<1>2. TypeOK'
  BY <1>1 DEF TypeOK, table
<1>3. QED
  BY <1>1, <1>2, MissStays DEF Frontier

\* So does the walk past an override.
LEMMA OverrideStep == ASSUME WalkInv, NEW k \in Classes, Override(k) PROVE WalkInv'
<1> USE DEF WalkInv
<1>1. /\ walk = "methodResolvesTo" /\ stack \in Seq(Classes) /\ stack # << >>
      /\ seen' = seen \cup {k} /\ stack' = Tail(stack)
      /\ UNCHANGED <<table, walk, found, resolves>>
  BY DEF TypeOK, Override, Visit
<1>2. stack' \in Seq(Classes)
  BY <1>1, StackTop
<1>3. TypeOK'
  BY <1>1, <1>2 DEF TypeOK, table
<1>4. QED
  BY <1>1, <1>3, MissStays DEF Frontier

\* Every step of either walk preserves the invariant.
LEMMA WalkNext == WalkInv /\ [Next]_vars => WalkInv'
<1> SUFFICES ASSUME WalkInv, [Next]_vars PROVE WalkInv'
  OBVIOUS
<1>1. CASE UNCHANGED vars
  BY <1>1 DEF WalkInv, TypeOK, Frontier, MissIsComplete, vars, table
<1>2. CASE Next
  BY <1>2, ExhaustedStep, SkipStep, DescendStep, MatchStep, ReachStep, OverrideStep DEF Next
<1>3. QED
  BY <1>1, <1>2

\* In every hierarchy, methodInClass finds a declaration of the member among
\* the ancestors of the class, or there is none.
THEOREM WalkInvariant == Spec => []WalkInv
  BY WalkInit, WalkNext, PTL DEF Spec

----------------------------------------------------------------------------
(* Which declarations the walks meet.                                      *)

\* A class on the list of bases is a class that the list contains.
LEMMA ContainsIsMember ==
  ASSUME NEW s \in Seq(Classes), NEW k
  PROVE  Contains(s, k) <=> k \in ToSet(s)
  BY DEF Contains, ToSet

\* The class of the call is reached, and so are the bases of a class that is
\* reached and does not declare the member.
LEMMA WalkReaches ==
  ASSUME TypeOK
  PROVE  /\ Reached(start)
         /\ \A k \in Classes \ members : Reached(k) => \A b \in ToSet(bases[k]) : Reached(b)
<1>1. DOMAIN bases = Classes /\ IsFiniteSet(DOMAIN bases) /\ start \in DOMAIN bases
  BY ClassesAssumption DEF TypeOK
<1>2. ASSUME NEW k \in Classes \ members, Reached(k), NEW b \in ToSet(bases[k])
      PROVE  Reached(b)
  <2>1. bases[k] \in Seq(Classes) /\ b \in Classes
    BY <1>2 DEF TypeOK, ToSet
  <2>2. Contains(bases[k], b)
    BY <1>2, <2>1, ContainsIsMember
  <2>3. QED
    BY <1>1, <1>2, <2>1, <2>2, BaseReached DEF Reached
<1>3. QED
  BY <1>1, <1>2, StartReached DEF Reached

\* Where no inherit edge and no declaration changes, the same classes are
\* reached.
LEMMA ReachedStays ==
  ASSUME UNCHANGED table
  PROVE  \A k : Reached(k)' <=> Reached(k)
  BY DEF Reached, table

\* The class of the call is the first to be visited.
LEMMA ReachInit == Init => ReachInv
<1> SUFFICES ASSUME Init PROVE ReachInv
  OBVIOUS
<1>1. TypeOK
  BY WalkInit DEF WalkInv
<1>2. ToSet(stack) = {start}
  BY <1>1, StackOfOne DEF Init, TypeOK
<1>3. QED
  BY <1>1, <1>2, WalkReaches DEF Init, ReachInv

\* An empty stack: the second walk has visited every class that is reached.
LEMMA ReachExhausted == ASSUME WalkInv, ReachInv, Exhausted PROVE ReachInv'
<1> USE DEF WalkInv
<1>1. ToSet(stack) = {} /\ UNCHANGED <<table, found, resolves>>
  BY DEF Exhausted, ToSet
<1>2. \A k : Reached(k)' <=> Reached(k)
  BY <1>1, ReachedStays
<1>3. CASE walk = "methodInClass"
  <2>1. walk' = "methodResolvesTo" /\ stack' = <<start>> /\ seen' = {}
    BY <1>3 DEF Exhausted, Return
  <2>2. ToSet(stack') = {start}
    BY <2>1, StackOfOne DEF TypeOK
  <2>3. QED
    BY <1>1, <1>2, <1>3, <2>1, <2>2, WalkReaches DEF ReachInv, table
<1>4. CASE walk = "methodResolvesTo"
  <2>1. walk' = "done" /\ UNCHANGED <<stack, seen>>
    BY <1>4 DEF Exhausted, Return
  <2>2. ~Reached(anchor)
    <3>1. start \in seen /\ anchor \notin seen /\ \A k \in seen \ members : ToSet(bases[k]) \subseteq seen
      BY <1>1, <1>4 DEF ReachInv
    <3>2. \A k \in seen \ members : \A b : Contains(bases[k], b) => b \in seen
      BY <3>1, ContainsIsMember DEF TypeOK
    <3>3. IsFiniteSet(DOMAIN bases)
      BY ClassesAssumption DEF TypeOK
    <3>4. QED
      BY <3>1, <3>2, <3>3, ReachedWithin DEF Reached
  <2>3. QED
    BY <1>1, <1>2, <1>4, <2>1, <2>2 DEF ReachInv, table
<1>5. QED
  BY <1>3, <1>4 DEF Exhausted, Return

\* A class that was visited before waits no longer.
LEMMA ReachSkip == ASSUME WalkInv, ReachInv, NEW k \in Classes, Skip(k) PROVE ReachInv'
<1> USE DEF WalkInv
<1>1. /\ stack \in Seq(Classes) /\ stack # << >> /\ Head(stack) = k /\ k \in seen
      /\ UNCHANGED <<table, walk, seen, found, resolves>> /\ stack' = Tail(stack)
  BY DEF TypeOK, Skip, Visit, IsNew
<1>2. ToSet(stack) = {k} \cup ToSet(stack')
  BY <1>1, StackTop
<1>3. \A c : Reached(c)' <=> Reached(c)
  BY <1>1, ReachedStays
<1>4. seen' \cup ToSet(stack') = seen \cup ToSet(stack)
  BY <1>1, <1>2
<1>5. QED
  BY <1>1, <1>2, <1>3, <1>4 DEF ReachInv, table

\* The bases of a class without the member are reached when it is.
LEMMA ReachDescend == ASSUME WalkInv, ReachInv, NEW k \in Classes, Descend(k) PROVE ReachInv'
<1> USE DEF WalkInv
<1>1. /\ stack \in Seq(Classes) /\ stack # << >> /\ Head(stack) = k /\ k \notin members
      /\ bases[k] \in Seq(Classes) /\ seen' = seen \cup {k} /\ stack' = bases[k] \o Tail(stack)
      /\ UNCHANGED <<table, walk, found, resolves>> /\ walk # "done"
  BY DEF TypeOK, Descend, Visit, Push
<1>2. Tail(stack) \in Seq(Classes) /\ ToSet(stack) = {k} \cup ToSet(Tail(stack))
  BY <1>1, StackTop
<1>3. ToSet(stack') = ToSet(bases[k]) \cup ToSet(Tail(stack))
  BY <1>1, <1>2, StackPush
<1>4. \A c : Reached(c)' <=> Reached(c)
  BY <1>1, ReachedStays
<1>5. \A c \in ToSet(stack') : Reached(c)
  BY <1>1, <1>2, <1>3, WalkReaches DEF ReachInv
<1>6. seen' \cup ToSet(stack') = seen \cup ToSet(stack) \cup ToSet(bases[k])
  BY <1>1, <1>2, <1>3
<1>7. anchor \notin seen => anchor \notin seen'
  BY <1>1 DEF ReachInv
<1>8. (\A c \in seen \ members : ToSet(bases[c]) \subseteq seen \cup ToSet(stack))
        => \A c \in seen' \ members : ToSet(bases[c]) \subseteq seen' \cup ToSet(stack')
  BY <1>1, <1>6
<1>9. QED
  BY <1>1, <1>4, <1>5, <1>6, <1>7, <1>8 DEF ReachInv, table

\* What the first walk finds, it has reached.
LEMMA ReachMatch == ASSUME WalkInv, ReachInv, NEW k \in Classes, Match(k) PROVE ReachInv'
<1> USE DEF WalkInv
<1>1. /\ stack \in Seq(Classes) /\ stack # << >> /\ Head(stack) = k
      /\ walk = "methodInClass" /\ found' = k /\ walk' = "methodResolvesTo"
      /\ stack' = <<start>> /\ seen' = {} /\ UNCHANGED <<table, resolves>>
  BY DEF TypeOK, Match, Visit, Return
<1>2. k \in ToSet(stack) /\ ToSet(stack') = {start}
  BY <1>1, StackTop, StackOfOne DEF TypeOK
<1>3. \A c : Reached(c)' <=> Reached(c)
  BY <1>1, ReachedStays
<1>4. QED
  BY <1>1, <1>2, <1>3, WalkReaches DEF ReachInv, table

\* So does the second one.
LEMMA ReachReach == ASSUME WalkInv, ReachInv, NEW k \in Classes, Reach(k) PROVE ReachInv'
<1> USE DEF WalkInv
<1>1. /\ stack \in Seq(Classes) /\ stack # << >> /\ Head(stack) = k /\ k = anchor
      /\ walk' = "done" /\ resolves' = TRUE /\ UNCHANGED <<table, found, stack, seen>>
  BY DEF TypeOK, Reach, Visit, Return
<1>2. k \in ToSet(stack)
  BY <1>1, StackTop
<1>3. \A c : Reached(c)' <=> Reached(c)
  BY <1>1, ReachedStays
<1>4. QED
  BY <1>1, <1>2, <1>3 DEF ReachInv, table

\* Nothing is reached through an override.
LEMMA ReachOverride == ASSUME WalkInv, ReachInv, NEW k \in Classes, Override(k) PROVE ReachInv'
<1> USE DEF WalkInv
<1>1. /\ walk = "methodResolvesTo" /\ stack \in Seq(Classes) /\ stack # << >> /\ Head(stack) = k
      /\ k \in members \ {anchor} /\ seen' = seen \cup {k} /\ stack' = Tail(stack)
      /\ UNCHANGED <<table, walk, found, resolves>>
  BY DEF TypeOK, Override, Visit
<1>2. ToSet(stack) = {k} \cup ToSet(stack')
  BY <1>1, StackTop
<1>3. \A c : Reached(c)' <=> Reached(c)
  BY <1>1, ReachedStays
<1>4. seen' \cup ToSet(stack') = seen \cup ToSet(stack)
  BY <1>1, <1>2
<1>5. seen' \ members = seen \ members
  BY <1>1
<1>6. QED
  BY <1>1, <1>2, <1>3, <1>4, <1>5 DEF ReachInv, table

\* Every step of either walk preserves what is reached.
LEMMA ReachNext == WalkInv /\ ReachInv /\ [Next]_vars => ReachInv'
<1> SUFFICES ASSUME WalkInv, ReachInv, [Next]_vars PROVE ReachInv'
  OBVIOUS
<1>1. CASE UNCHANGED vars
  <2>1. \A c : Reached(c)' <=> Reached(c)
    BY <1>1, ReachedStays DEF vars
  <2>2. QED
    BY <1>1, <2>1 DEF ReachInv, vars, table
<1>2. CASE Next
  BY <1>2, ReachExhausted, ReachSkip, ReachDescend, ReachMatch, ReachReach, ReachOverride DEF Next
<1>3. QED
  BY <1>1, <1>2

\* In every hierarchy, methodResolvesTo says yes exactly when a path to the
\* anchor's class has no other declaration on it.
THEOREM ResolvesIsReached == Spec => []ResolvesPastOthers
<1>1. ReachInv => ResolvesPastOthers
  BY DEF ReachInv, ResolvesPastOthers
<1>2. QED
  BY <1>1, WalkInit, WalkNext, ReachInit, ReachNext, PTL DEF Spec

\* In every hierarchy, a call that goto-definition takes to the anchor is one
\* of its incoming calls.
THEOREM NoIncomingCallMissed == Spec => []NoCallMissed
<1>1. WalkInv /\ ReachInv => NoCallMissed
  BY NoClassAssumption DEF WalkInv, TypeOK, ReachInv, NoCallMissed
<1>2. QED
  BY <1>1, WalkInit, WalkNext, ReachInit, ReachNext, PTL DEF Spec

----------------------------------------------------------------------------
(* The order of the first walk.                                            *)

\* What a chain of calls is.
LEMMA ChainIs ==
  ASSUME TypeOK, NEW calls
  PROVE  calls \in Chains <=>
           /\ calls \in Seq(Classes) /\ IsInjective(calls) /\ ToSet(calls) \subseteq seen
           /\ calls # << >> => calls[1] = start
           /\ \A n \in 1..Len(calls) - 1 : Contains(bases[calls[n]], calls[n + 1])
<1>1. DOMAIN bases = Classes /\ IsFiniteSet(DOMAIN bases)
  BY ClassesAssumption DEF TypeOK
<1>2. /\ << >> \in Seq(Classes) /\ IsInjective(<< >>) /\ ToSet(<< >>) \subseteq seen
      /\ \A n \in 1..Len(<< >>) - 1 : Contains(bases[<< >>[n]], << >>[n + 1])
  BY DEF IsInjective, ToSet
<1>3. ASSUME calls # << >>, calls \in Seq(Classes) PROVE Len(calls) > 0
  BY <1>3
<1>4. CASE calls = << >>
  BY <1>2, <1>4 DEF Chains
<1>5. CASE calls # << >>
  BY <1>1, <1>3, <1>5, PathsAre DEF Chains
<1>6. QED
  BY <1>4, <1>5

\* The path of the calls that lead to the class visited next, which is new.
Leads(calls, depth, path) ==
  /\ calls \in Chains /\ depth \in [DOMAIN stack -> 0..Len(calls)] /\ InProgress(calls, depth)
  /\ stack # << >> /\ Head(stack) \notin seen
  /\ path = Append(SubSeq(calls, 1, depth[1]), Head(stack))

\* That path ends in this class.
LEMMA ChainExtends ==
  ASSUME TypeOK, NEW calls, NEW depth, NEW path, Leads(calls, depth, path)
  PROVE  /\ path \in Paths(bases, start) /\ path \in Seq(Classes)
         /\ ToSet(path) \subseteq seen \cup {Head(stack)}
         /\ Len(path) = depth[1] + 1 /\ path[depth[1] + 1] = Head(stack)
         /\ \A n \in 1..depth[1] : path[n] = calls[n]
<1> DEFINE n == depth[1]
           k == Head(stack)
           front == SubSeq(calls, 1, n)
<1>1. /\ calls \in Seq(Classes) /\ IsInjective(calls) /\ ToSet(calls) \subseteq seen
      /\ calls # << >> => calls[1] = start
      /\ \A m \in 1..Len(calls) - 1 : Contains(bases[calls[m]], calls[m + 1])
  BY ChainIs DEF Leads
<1>2. stack \in Seq(Classes) /\ Len(stack) \in Nat /\ 1 \in DOMAIN stack /\ stack[1] = k /\ k \in Classes
  BY DEF TypeOK, Leads
<1>3. n \in 0..Len(calls) /\ n \in Nat /\ Len(calls) \in Nat
  BY <1>1, <1>2 DEF Leads
<1>4. front \in Seq(Classes) /\ Len(front) = n /\ \A m \in 1..n : front[m] = calls[m]
  BY <1>1, <1>3
<1>5. IF n = 0 THEN stack = <<start>> ELSE Contains(bases[calls[n]], k)
  BY <1>2 DEF InProgress, Leads
<1> HIDE DEF n, k, front
<1>6. path \in Seq(Classes) /\ Len(path) = n + 1 /\ path[n + 1] = k /\ \A m \in 1..n : path[m] = front[m]
  <2>1. path = Append(front, k)
    BY DEF front, n, k, Leads
  <2>2. QED
    BY <1>2, <1>3, <1>4, <2>1
<1>7. \A m \in 1..n : path[m] = calls[m]
  BY <1>4, <1>6
<1>8. DOMAIN path = 1..n + 1 /\ DOMAIN calls = 1..Len(calls) /\ 1..n \subseteq 1..Len(calls)
  BY <1>1, <1>3, <1>6
<1>9. \A m \in 1..n : path[m] \in seen
  BY <1>1, <1>7, <1>8 DEF ToSet
<1>10. \A m \in DOMAIN path : m \in 1..n \/ m = n + 1
  BY <1>3, <1>8
<1>11. ToSet(path) \subseteq seen \cup {k}
  BY <1>6, <1>9, <1>10 DEF ToSet
<1>12. IsInjective(path)
  <2>1. \A a, b \in 1..n : path[a] = path[b] => a = b
    BY <1>1, <1>7, <1>8 DEF IsInjective
  <2>2. k \notin seen
    BY DEF k, Leads
  <2>3. QED
    BY <1>6, <1>9, <1>10, <2>1, <2>2 DEF IsInjective
<1>13. path[1] = start
  <2>1. CASE n = 0
    BY <1>2, <1>5, <1>6, <2>1
  <2>2. CASE n # 0
    <3>1. 1 \in 1..n /\ calls # << >>
      BY <1>3, <2>2
    <3>2. QED
      BY <1>1, <1>7, <3>1
  <2>3. QED
    BY <2>1, <2>2
<1>14. ASSUME NEW m \in 1..Len(path) - 1 PROVE Contains(bases[path[m]], path[m + 1])
  <2>1. m \in 1..n
    BY <1>3, <1>6
  <2>2. CASE m = n
    BY <1>3, <1>5, <1>6, <1>7, <2>1, <2>2
  <2>3. CASE m # n
    <3>1. m + 1 \in 1..n /\ m \in 1..Len(calls) - 1
      BY <1>3, <2>1, <2>3
    <3>2. QED
      BY <1>1, <1>7, <2>1, <3>1
  <2>4. QED
    BY <2>2, <2>3
<1>15. path \in Paths(bases, start)
  <2>1. DOMAIN bases = Classes /\ IsFiniteSet(DOMAIN bases)
    BY ClassesAssumption DEF TypeOK
  <2>2. Len(path) > 0
    BY <1>3, <1>6
  <2>3. QED
    BY <1>6, <1>12, <1>13, <1>14, <2>1, <2>2, PathsAre
<1>16. QED
  BY <1>6, <1>7, <1>11, <1>15 DEF n, k

\* No hit lies behind a class that was visited before: the first class on the
\* way to it that was not visited waits for a class before the visited one.
LEMMA NoHitBehindSeen ==
  ASSUME TypeOK, Frontier, walk = "methodInClass",
         NEW calls \in Chains, NEW depth \in [DOMAIN stack -> 0..Len(calls)],
         InProgress(calls, depth), BasesWait(calls, depth),
         stack # << >>, Head(stack) \in seen, NEW p \in Hits, WaitsAt(calls, depth, 1, p)
  PROVE  FALSE
<1> DEFINE n == depth[1]
           Outside == {j \in n + 2..Len(p) : p[j] \notin seen}
<1>1. DOMAIN bases = Classes /\ IsFiniteSet(DOMAIN bases) /\ bases \in [Classes -> Seq(Classes)]
  BY ClassesAssumption DEF TypeOK
<1>2. /\ p \in Seq(Classes) /\ IsInjective(p)
      /\ \A j \in 1..Len(p) - 1 : Contains(bases[p[j]], p[j + 1])
      /\ p[Len(p)] \in members
  BY <1>1, PathsAre DEF Hits, Last
<1>3. stack \in Seq(Classes) /\ 1 \in DOMAIN stack /\ DOMAIN stack = 1..Len(stack) /\ stack[1] \in seen
  BY DEF TypeOK
<1>4. calls \in Seq(Classes) /\ Len(calls) \in Nat
  BY ChainIs
<1>5. n \in Nat /\ Len(p) \in Nat /\ DOMAIN p = 1..Len(p)
  <2>1. n \in 0..Len(calls)
    BY <1>3
  <2>2. n \in Nat
    BY <1>4, <2>1
  <2>3. p \in Seq(Classes)
    BY <1>2
  <2>4. QED
    BY <2>2, <2>3
<1>6. n < Len(p) /\ (\A m \in 1..n : p[m] = calls[m]) /\ p[n + 1] \in seen
  BY <1>3 DEF WaitsAt
<1>7. p[Len(p)] \notin seen
  BY <1>2 DEF Frontier
<1> HIDE DEF n
<1>8. Len(p) \in Outside /\ Outside \in SUBSET Nat
  BY <1>5, <1>6, <1>7
<1>9. PICK j \in Outside : \A o \in Outside : j <= o
  BY <1>8, LeastExists
<1>10. /\ j - 1 \in n + 1..Len(p) - 1 /\ j - 1 \in 1..Len(p) - 1 /\ j - 1 \in DOMAIN p /\ (j - 1) + 1 = j
       /\ p[j] \notin seen
  BY <1>5, <1>9
<1>11. p[j - 1] \in seen
  BY <1>5, <1>6, <1>9, <1>10
<1>12. p[j - 1] \in Classes /\ p[j] \in ToSet(bases[p[j - 1]]) \ seen
  BY <1>1, <1>2, <1>10, ContainsIsMember
<1>13. PICK a \in DOMAIN stack : depth[a] > 0 /\ calls[depth[a]] = p[j - 1]
  BY <1>11, <1>12 DEF BasesWait
<1>14. a \in Nat /\ 1 <= a /\ depth[a] \in Nat
  BY <1>3, <1>4
<1>15. depth[a] <= n
  BY <1>3, <1>14 DEF InProgress, n
<1>16. depth[a] \in 1..n /\ depth[a] \in DOMAIN p
  BY <1>5, <1>6, <1>13, <1>14, <1>15
<1>17. p[depth[a]] = p[j - 1]
  BY <1>6, <1>13, <1>16
<1>18. depth[a] = j - 1
  BY <1>2, <1>10, <1>16, <1>17 DEF IsInjective
<1>19. QED
  BY <1>5, <1>10, <1>15, <1>18

\* The class of the call waits alone, for every path.
LEMMA FirstInit == Init => DepthFirst /\ FirstMatchWins
<1> SUFFICES ASSUME Init PROVE DepthFirst /\ FirstMatchWins
  OBVIOUS
<1>1. TypeOK /\ stack = <<start>> /\ seen = {} /\ walk = "methodInClass"
  BY WalkInit DEF WalkInv, Init
<1>2. DOMAIN bases = Classes /\ IsFiniteSet(DOMAIN bases)
  BY <1>1, ClassesAssumption DEF TypeOK
<1>3. Len(<<start>>) = 1 /\ DOMAIN stack = 1..1 /\ stack[1] = start
  BY <1>1
<1> DEFINE depth == [a \in DOMAIN stack |-> 0]
<1>4. << >> \in Chains /\ depth \in [DOMAIN stack -> 0..Len(<< >>)]
  BY DEF Chains
<1>5. InProgress(<< >>, depth) /\ BasesWait(<< >>, depth)
  BY <1>1, <1>3 DEF InProgress, BasesWait
<1>6. ASSUME NEW p \in Hits PROVE WaitsAt(<< >>, depth, 1, p)
  <2>1. p \in Seq(Classes) /\ Len(p) > 0 /\ p[1] = start
    BY <1>2, PathsAre DEF Hits
  <2>2. depth[1] = 0
    BY <1>3
  <2> HIDE DEF depth
  <2>3. QED
    BY <1>3, <2>1, <2>2 DEF WaitsAt
<1> HIDE DEF depth
<1>7. HitsWait(<< >>, depth)
  BY <1>3, <1>6 DEF HitsWait
<1>8. QED
  BY <1>1, <1>4, <1>5, <1>7 DEF DepthFirst, FirstMatchWins

\* After the first walk nothing changes what it was about.
LEMMA FirstStays ==
  ASSUME FirstMatchWins, walk # "methodInClass", walk' # "methodInClass", UNCHANGED <<table, found>>
  PROVE  DepthFirst' /\ FirstMatchWins'
  BY DEF DepthFirst, FirstMatchWins, table

\* An empty stack: no hit waits, so there is none.
LEMMA FirstExhausted ==
  ASSUME WalkInv, DepthFirst, FirstMatchWins, Exhausted
  PROVE  DepthFirst' /\ FirstMatchWins'
<1>1. stack = << >> /\ UNCHANGED <<table, found>>
  BY DEF Exhausted
<1>2. CASE walk = "methodInClass"
  <2>1. walk' = "methodResolvesTo" /\ found = NoClass
    BY <1>2 DEF Exhausted, Return, WalkInv, Frontier
  <2>2. Hits = {}
    BY <1>1, <1>2 DEF DepthFirst, HitsWait
  <2>3. FirstMatch(bases, members, start) = {}
    BY <2>2 DEF FirstMatch, Hits
  <2>4. QED
    BY <1>1, <2>1, <2>3 DEF DepthFirst, FirstMatchWins, table
<1>3. CASE walk = "methodResolvesTo"
  <2>1. walk' = "done"
    BY <1>3 DEF Exhausted, Return
  <2>2. QED
    BY <1>1, <1>3, <2>1, FirstStays
<1>4. QED
  BY <1>2, <1>3 DEF Exhausted, Return

\* Where the edges and the declarations stay, so do the hits and the places.
LEMMA HitsStay ==
  ASSUME UNCHANGED table
  PROVE  /\ Hits' = Hits
         /\ \A c, k : Place(c, k)' = Place(c, k)
         /\ Paths(bases, start)' = Paths(bases, start)
  BY DEF table, Hits, Place

\* A class visited before leaves no gap: no hit waited there.
LEMMA FirstSkip ==
  ASSUME WalkInv, DepthFirst, FirstMatchWins, NEW k \in Classes, Skip(k)
  PROVE  DepthFirst' /\ FirstMatchWins'
<1>1. /\ TypeOK /\ Frontier /\ stack \in Seq(Classes) /\ stack # << >> /\ Head(stack) = k /\ k \in seen
      /\ UNCHANGED <<table, walk, seen, found, resolves>> /\ stack' = Tail(stack)
  BY DEF WalkInv, TypeOK, Skip, Visit, IsNew
<1>2. CASE walk # "methodInClass"
  BY <1>1, <1>2, FirstStays
<1>3. CASE walk = "methodInClass"
  <2>0. PICK calls \in Chains : \E depth \in [DOMAIN stack -> 0..Len(calls)] :
          InProgress(calls, depth) /\ BasesWait(calls, depth) /\ HitsWait(calls, depth)
    BY <1>3 DEF DepthFirst
  <2>1. PICK depth \in [DOMAIN stack -> 0..Len(calls)] :
          InProgress(calls, depth) /\ BasesWait(calls, depth) /\ HitsWait(calls, depth)
    BY <2>0
  <2>2. /\ Len(stack) \in Nat \ {0} /\ DOMAIN stack = 1..Len(stack) /\ stack[1] = k
        /\ DOMAIN stack' = 1..Len(stack) - 1
        /\ \A a \in 1..Len(stack) - 1 : stack'[a] = stack[a + 1] /\ a + 1 \in DOMAIN stack
    BY <1>1
  <2>3. PICK later : later = [a \in 1..Len(stack) - 1 |-> depth[a + 1]]
    OBVIOUS
  <2>4. later \in [DOMAIN stack' -> 0..Len(calls)] /\ \A a \in DOMAIN stack' : later[a] = depth[a + 1]
    BY <2>2, <2>3
  <2>5. calls \in Chains'
    BY <1>1, HitsStay DEF Chains
  <2>6. \A a \in DOMAIN stack, c \in Nat : c \in 1..a - 1 => c \in DOMAIN stack
    BY <2>2
  <2>7. \A a \in DOMAIN stack : depth[a] \in Nat
    BY ChainIs, <1>1
  <2>8. InProgress(calls, later)'
    <3>1. \A a, b \in DOMAIN stack' : a <= b => later[b] <= later[a]
      BY <2>1, <2>2, <2>4 DEF InProgress
    <3>2. \A a \in DOMAIN stack' : later[a] # 0 /\ Contains(bases[calls[later[a]]], stack'[a])
      <4> TAKE a \in DOMAIN stack'
      <4>1. Len(<<start>>) = 1 /\ a + 1 \in DOMAIN stack /\ Len(stack) # 1
        BY <2>2
      <4>2. stack # <<start>>
        BY <4>1
      <4>3. depth[a + 1] # 0 /\ Contains(bases[calls[depth[a + 1]]], stack[a + 1])
        BY <2>1, <4>1, <4>2 DEF InProgress
      <4>4. QED
        BY <2>2, <2>4, <4>3
    <3>3. QED
      BY <1>1, <3>1, <3>2 DEF InProgress, table
  <2>9. BasesWait(calls, later)'
    <3>1. ASSUME NEW c \in seen, NEW base \in ToSet(bases[c]) \ seen
          PROVE  \E a \in DOMAIN stack' : later[a] > 0 /\ calls[later[a]] = c /\ stack'[a] = base
      <4>1. PICK a \in DOMAIN stack : depth[a] > 0 /\ calls[depth[a]] = c /\ stack[a] = base
        BY <2>1 DEF BasesWait
      <4>2. a # 1
        BY <1>1, <2>2, <4>1
      <4>3. a - 1 \in DOMAIN stack' /\ (a - 1) + 1 = a
        BY <2>2, <4>2
      <4>4. QED
        BY <2>2, <2>4, <4>1, <4>3
    <3>2. QED
      BY <1>1, <3>1 DEF BasesWait, table
  <2>10. HitsWait(calls, later)'
    <3>1. ASSUME NEW p \in Hits
          PROVE  \E a \in DOMAIN stack' : WaitsAt(calls, later, a, p)'
      <4>1. PICK a \in DOMAIN stack : WaitsAt(calls, depth, a, p)
        BY <2>1 DEF HitsWait
      <4>2. a # 1
        BY <1>1, <1>3, <2>1, <4>1, NoHitBehindSeen
      <4>3. PICK c \in DOMAIN stack' : c = a - 1 /\ c + 1 = a
        BY <2>2, <4>2
      <4>4. stack'[c] = stack[a] /\ later[c] = depth[a]
        BY <2>2, <2>4, <4>3
      <4>5. \A b \in 1..c - 1 : b + 1 \in 1..a - 1 /\ stack'[b] = stack[b + 1] /\ later[b] = depth[b + 1]
        <5> TAKE b \in 1..c - 1
        <5>1. b \in DOMAIN stack' /\ b + 1 \in 1..a - 1
          BY <2>2, <4>3
        <5>2. QED
          BY <2>2, <2>4, <5>1
      <4>6. \A x, y : Place(x, y)' = Place(x, y)
        BY <1>1, HitsStay
      <4>7. WaitsAt(calls, later, c, p)'
        BY <4>1, <4>4, <4>5, <4>6 DEF WaitsAt
      <4>8. QED
        BY <4>7
    <3>2. QED
      BY <1>1, <3>1, HitsStay DEF HitsWait
  <2>11. DepthFirst'
    BY <2>4, <2>5, <2>8, <2>9, <2>10 DEF DepthFirst
  <2>12. QED
    BY <1>1, <1>3, <2>11 DEF FirstMatchWins
<1>4. QED
  BY <1>2, <1>3

\* Where the path of the class visited next leaves the path to a hit that
\* waits for another class, it takes the earlier base.
LEMMA WaitsBehind ==
  ASSUME TypeOK, NEW calls, NEW depth, NEW path, Leads(calls, depth, path),
         NEW a \in DOMAIN stack, a # 1, NEW p, WaitsAt(calls, depth, a, p)
  PROVE  /\ depth[a] \in 1..depth[1] /\ depth[a] \in Nat
         /\ \A m \in 1..depth[a] : p[m] = path[m]
         /\ Place(path[depth[a] + 1], path[depth[a]]) < Place(stack[a], path[depth[a]])
<1> DEFINE n == depth[1]
           d == depth[a]
           k == Head(stack)
<1>1. /\ Len(path) = n + 1 /\ path[n + 1] = k
      /\ \A m \in 1..n : path[m] = calls[m]
  BY ChainExtends
<1>2. /\ DOMAIN stack = 1..Len(stack) /\ Len(stack) \in Nat \ {0} /\ 1 \in DOMAIN stack /\ stack[1] = k
      /\ calls \in Seq(Classes) /\ Len(calls) \in Nat /\ n \in 0..Len(calls) /\ n \in Nat
  <2>1. stack \in Seq(Classes)
    BY DEF TypeOK
  <2>2. DOMAIN stack = 1..Len(stack) /\ Len(stack) \in Nat \ {0} /\ 1 \in DOMAIN stack /\ stack[1] = k
    BY <2>1 DEF Leads
  <2>3. calls \in Seq(Classes) /\ Len(calls) \in Nat
    BY ChainIs DEF Leads
  <2>4. QED
    BY <2>2, <2>3 DEF Leads
<1>3. a \in Nat /\ 1 <= a /\ d \in Nat /\ d <= n
  <2>1. a \in Nat /\ 1 <= a /\ d \in 0..Len(calls)
    BY <1>2 DEF Leads
  <2>2. d <= n
    BY <1>2, <2>1 DEF InProgress, Leads
  <2>3. QED
    BY <1>2, <2>1, <2>2
<1>4. d # 0
  <2>1. Len(stack) # 1 /\ Len(<<start>>) = 1
    BY <1>2
  <2>2. stack # <<start>>
    BY <2>1
  <2>3. QED
    BY <2>2 DEF InProgress, Leads
<1>5. d \in 1..n
  BY <1>2, <1>3, <1>4
<1>6. \A m \in 1..d : p[m] = path[m]
  <2> TAKE m \in 1..d
  <2>1. m \in 1..n
    BY <1>2, <1>3
  <2>2. QED
    BY <1>1, <2>1 DEF WaitsAt
<1>7. CASE d = n
  <2>1. 1 \in 1..a - 1 /\ depth[1] = d
    BY <1>3, <1>7
  <2>2. Place(stack[1], calls[d]) < Place(stack[a], calls[d])
    BY <1>3, <1>4, <2>1 DEF WaitsAt
  <2>3. QED
    BY <1>1, <1>2, <1>3, <1>5, <1>6, <1>7, <2>2
<1>8. CASE d # n
  <2>1. d < Len(calls) /\ d + 1 \in 1..n
    BY <1>2, <1>3, <1>8
  <2>2. Place(calls[d + 1], calls[d]) < Place(stack[a], calls[d])
    BY <1>3, <1>4, <2>1 DEF WaitsAt
  <2>3. QED
    BY <1>1, <1>3, <1>5, <1>6, <2>1, <2>2
<1>9. QED
  BY <1>7, <1>8

\* The place of a base among the bases of a class.
LEMMA PlaceIs ==
  ASSUME TypeOK, NEW k \in Classes, NEW j \in 1..Len(bases[k])
  PROVE  LET place == Place(bases[k][j], k)
         IN  /\ place \in 1..j /\ place \in 1..Len(bases[k])
             /\ bases[k][place] = bases[k][j] /\ \A m \in 1..place - 1 : bases[k][m] # bases[k][j]
<1>1. bases[k] \in Seq(Classes) /\ Len(bases[k]) \in Nat
  BY DEF TypeOK
<1> DEFINE place == IndexFirstSubSeq(<<bases[k][j]>>, bases[k])
<1>2. place \in 1..j /\ bases[k][place] = bases[k][j] /\ \A m \in 1..place - 1 : bases[k][m] # bases[k][j]
  BY <1>1, FirstPlace
<1>3. Place(bases[k][j], k) = place
  BY DEF Place
<1> HIDE DEF place
<1>4. place \in 1..Len(bases[k])
  BY <1>1, <1>2
<1>5. QED
  BY <1>2, <1>3, <1>4

\* The class that matches ends the path that is met before every other hit.
LEMMA FirstMatched ==
  ASSUME WalkInv, DepthFirst, FirstMatchWins, NEW k \in Classes, Match(k)
  PROVE  DepthFirst' /\ FirstMatchWins'
<1>1. /\ TypeOK /\ stack \in Seq(Classes) /\ stack # << >> /\ Head(stack) = k /\ k \notin seen /\ k \in members
      /\ walk = "methodInClass" /\ found' = k /\ walk' = "methodResolvesTo" /\ UNCHANGED table
  BY DEF WalkInv, TypeOK, Match, Visit, IsNew, Return
<1>2. PICK calls \in Chains : \E depth \in [DOMAIN stack -> 0..Len(calls)] :
        InProgress(calls, depth) /\ BasesWait(calls, depth) /\ HitsWait(calls, depth)
  BY <1>1 DEF DepthFirst
<1>3. PICK depth \in [DOMAIN stack -> 0..Len(calls)] :
        InProgress(calls, depth) /\ BasesWait(calls, depth) /\ HitsWait(calls, depth)
  BY <1>2
<1>4. PICK path : Leads(calls, depth, path)
  BY <1>1, <1>3 DEF Leads
<1> DEFINE n == depth[1]
<1>5. /\ path \in Paths(bases, start) /\ path \in Seq(Classes)
      /\ Len(path) = n + 1 /\ path[n + 1] = k /\ \A m \in 1..n : path[m] = calls[m]
  <2>1. TypeOK /\ Head(stack) = k
    BY <1>1
  <2>2. /\ path \in Paths(bases, start) /\ path \in Seq(Classes)
        /\ Len(path) = n + 1 /\ path[n + 1] = Head(stack) /\ \A m \in 1..n : path[m] = calls[m]
    BY <1>4, <2>1, ChainExtends
  <2>3. QED
    BY <2>1, <2>2
<1>6. /\ DOMAIN stack = 1..Len(stack) /\ Len(stack) \in Nat \ {0} /\ 1 \in DOMAIN stack /\ stack[1] = k
      /\ calls \in Seq(Classes) /\ Len(calls) \in Nat /\ n \in 0..Len(calls) /\ n \in Nat
  BY <1>1, ChainIs
<1>7. Last(path) = k
  BY <1>5 DEF Last
<1>8. ASSUME NEW p \in Paths(bases, start) \ {path}, Last(p) \in members
      PROVE  MetBefore(bases, path, p)
  <2>1. p \in Hits
    BY <1>8 DEF Hits
  <2>2. p \in Seq(Classes) /\ Len(p) \in Nat
    BY <1>1, ClassesAssumption, PathsAre DEF TypeOK
  <2>3. PICK a \in DOMAIN stack : WaitsAt(calls, depth, a, p)
    BY <1>3, <2>1 DEF HitsWait
  <2> DEFINE d == depth[a]
  <2>4. a \in Nat /\ 1 <= a /\ d \in Nat /\ d <= n
    BY <1>3, <1>6 DEF InProgress
  <2>5. /\ d < Len(p) /\ (\A m \in 1..d : p[m] = calls[m]) /\ p[d + 1] = stack[a]
    BY <2>3 DEF WaitsAt
  <2>6. CASE a = 1
    <3>1. d = n
      BY <2>6
    <3>2. Len(path) <= Len(p)
      BY <1>5, <1>6, <2>2, <2>5, <3>1
    <3>3. \A m \in 1..Len(path) : p[m] = path[m]
      BY <1>5, <1>6, <2>5, <2>6, <3>1
    <3>4. SubSeq(path, 1, Len(path)) = SubSeq(p, 1, Len(path))
      BY <1>5, <1>6, <2>2, <3>2, <3>3, SubSeqsEqual
    <3>5. QED
      BY <1>8, <3>2, <3>4 DEF MetBefore, IsStrictPrefix, IsPrefix
  <2>7. CASE a # 1
    <3>1. /\ d \in 1..n
          /\ \A m \in 1..d : p[m] = path[m]
          /\ Place(path[d + 1], path[d]) < Place(stack[a], path[d])
      BY <1>1, <1>4, <2>3, <2>7, WaitsBehind
    <3>2. d \in 1..Len(path) - 1 /\ d \in 1..Len(path)
      BY <1>5, <1>6, <2>4, <3>1
    <3>3. IndexFirstSubSeq(<<path[d + 1]>>, bases[path[d]]) < IndexFirstSubSeq(<<p[d + 1]>>, bases[path[d]])
      BY <2>5, <3>1 DEF Place
    <3>4. path[d + 1] # p[d + 1]
      <4>1. path[d] \in Classes /\ path[d] = calls[d]
        BY <1>5, <3>1, <3>2, ElementOfSeq
      <4>2. d # 0
        BY <2>4, <3>1
      <4>3. PICK j \in 1..Len(bases[path[d]]) : bases[path[d]][j] = stack[a]
        BY <1>3, <4>1, <4>2 DEF InProgress, Contains
      <4>4. Place(stack[a], path[d]) \in Nat
        <5>1. TypeOK
          BY <1>1
        <5>2. Place(bases[path[d]][j], path[d]) \in 1..Len(bases[path[d]])
          BY <4>1, <5>1, PlaceIs
        <5>3. Place(stack[a], path[d]) \in 1..Len(bases[path[d]])
          BY <4>3, <5>2
        <5>4. QED
          BY <5>3
      <4>5. QED
        BY <2>5, <3>1, <4>4
    <3>5. SubSeq(path, 1, d) = SubSeq(p, 1, d)
      BY <1>5, <1>6, <2>2, <2>4, <2>5, <3>1, SubSeqsEqual
    <3>6. QED
      BY <2>5, <3>2, <3>3, <3>4, <3>5 DEF MetBefore
  <2>8. QED
    BY <2>6, <2>7
<1>9. FirstMatch(bases, members, start) = {k}
  <2>1. IsFiniteSet(Classes) /\ bases \in [Classes -> Seq(Classes)] /\ Last(path) \in members
    BY <1>1, <1>7, ClassesAssumption DEF TypeOK
  <2>2. FirstMatch(bases, members, start) = {Last(path)}
    BY <1>5, <1>8, <2>1, FirstMatchIs
  <2>3. QED
    BY <1>7, <2>2
<1>10. k # NoClass
  BY NoClassAssumption
<1>11. QED
  BY <1>1, <1>9, <1>10 DEF DepthFirst, FirstMatchWins, table

\* A hit beyond the class visited next waits for the first base of this class
\* on the way to it.
LEMMA HitBeyond ==
  ASSUME TypeOK, NEW calls, NEW depth, NEW path, Leads(calls, depth, path), Head(stack) \notin members,
         NEW p \in Hits, WaitsAt(calls, depth, 1, p)
  PROVE  /\ depth[1] + 1 < Len(p) /\ \A m \in 1..depth[1] + 1 : p[m] = path[m]
         /\ \E j \in 1..Len(bases[Head(stack)]) : bases[Head(stack)][j] = p[depth[1] + 2]
<1> DEFINE n == depth[1]
           k == Head(stack)
<1>1. /\ stack \in Seq(Classes) /\ 1 \in DOMAIN stack /\ stack[1] = k /\ n \in Nat
  <2>1. stack \in Seq(Classes)
    BY DEF TypeOK
  <2>2. 1 \in DOMAIN stack /\ stack[1] = k
    BY <2>1 DEF Leads
  <2>3. calls \in Seq(Classes)
    BY ChainIs DEF Leads
  <2>4. n \in 0..Len(calls)
    BY <2>2 DEF Leads
  <2>5. QED
    BY <2>1, <2>2, <2>3, <2>4
<1>2. Len(path) = n + 1 /\ path[n + 1] = k /\ \A m \in 1..n : path[m] = calls[m]
  BY ChainExtends
<1>3. DOMAIN bases = Classes /\ IsFiniteSet(DOMAIN bases)
  BY ClassesAssumption DEF TypeOK
<1>4. /\ p \in Seq(Classes) /\ Len(p) \in Nat /\ p[Len(p)] \in members
      /\ \A m \in 1..Len(p) - 1 : Contains(bases[p[m]], p[m + 1])
  BY <1>3, PathsAre DEF Hits, Last
<1>5. n < Len(p) /\ (\A m \in 1..n : p[m] = calls[m]) /\ p[n + 1] = k
  BY <1>1 DEF WaitsAt
<1>6. k \notin members
  OBVIOUS
<1> HIDE DEF n, k
<1>7. n + 1 # Len(p)
  BY <1>4, <1>5, <1>6
<1>8. n + 1 < Len(p) /\ n + 1 \in 1..Len(p) - 1 /\ (n + 1) + 1 = n + 2
  BY <1>1, <1>4, <1>5, <1>7
<1>9. Contains(bases[k], p[n + 2])
  BY <1>4, <1>5, <1>8
<1>10. \A m \in 1..n + 1 : p[m] = path[m]
  <2> TAKE m \in 1..n + 1
  <2>1. m \in 1..n \/ m = n + 1
    BY <1>1
  <2>2. QED
    BY <1>2, <1>5, <2>1
<1>11. QED
  BY <1>8, <1>9, <1>10 DEF Contains, n, k

\* Descending, the bases of the class come to wait in their order, before
\* the classes that waited already.
LEMMA FirstDescend ==
  ASSUME WalkInv, DepthFirst, FirstMatchWins, NEW k \in Classes, Descend(k)
  PROVE  DepthFirst' /\ FirstMatchWins'
<1>1. /\ TypeOK /\ stack \in Seq(Classes) /\ stack # << >> /\ Head(stack) = k /\ k \notin seen /\ k \notin members
      /\ bases[k] \in Seq(Classes) /\ stack' = bases[k] \o Tail(stack) /\ seen' = seen \cup {k}
      /\ UNCHANGED <<table, walk, found, resolves>>
  BY DEF WalkInv, TypeOK, Descend, Visit, IsNew, Push
<1>2. CASE walk # "methodInClass"
  BY <1>1, <1>2, FirstStays
<1>3. CASE walk = "methodInClass"
  <2>1. PICK calls \in Chains : \E depth \in [DOMAIN stack -> 0..Len(calls)] :
          InProgress(calls, depth) /\ BasesWait(calls, depth) /\ HitsWait(calls, depth)
    BY <1>3 DEF DepthFirst
  <2>2. PICK depth \in [DOMAIN stack -> 0..Len(calls)] :
          InProgress(calls, depth) /\ BasesWait(calls, depth) /\ HitsWait(calls, depth)
    BY <2>1
  <2>3. PICK path : Leads(calls, depth, path)
    BY <1>1, <2>2 DEF Leads
  <2>4. PICK n : n = depth[1]
    OBVIOUS
  <2>5. PICK l : l = Len(bases[k])
    OBVIOUS
  <2>6. /\ DOMAIN stack = 1..Len(stack) /\ Len(stack) \in Nat \ {0} /\ 1 \in DOMAIN stack /\ stack[1] = k
        /\ calls \in Seq(Classes) /\ Len(calls) \in Nat /\ n \in 0..Len(calls) /\ n \in Nat /\ l \in Nat
    BY <1>1, <2>4, <2>5, ChainIs
  <2>7. /\ path \in Paths(bases, start) /\ path \in Seq(Classes) /\ ToSet(path) \subseteq seen \cup {k}
        /\ Len(path) = n + 1 /\ path[n + 1] = k /\ \A m \in 1..n : path[m] = calls[m]
    <3>1. TypeOK /\ Head(stack) = k
      BY <1>1
    <3>2. /\ path \in Paths(bases, start) /\ path \in Seq(Classes) /\ ToSet(path) \subseteq seen \cup {Head(stack)}
          /\ Len(path) = n + 1 /\ path[n + 1] = Head(stack) /\ \A m \in 1..n : path[m] = calls[m]
      BY <2>3, <2>4, <3>1, ChainExtends
    <3>3. QED
      BY <3>1, <3>2
  <2>8. /\ DOMAIN stack' = 1..l + Len(stack) - 1
        /\ \A a \in 1..l : stack'[a] = bases[k][a]
        /\ \A a \in 2..Len(stack) : stack'[a + l - 1] = stack[a]
    <3>1. /\ Tail(stack) \in Seq(Classes) /\ Len(Tail(stack)) = Len(stack) - 1
          /\ \A a \in 1..Len(stack) - 1 : Tail(stack)[a] = stack[a + 1]
      BY <1>1, <2>6
    <3>2. /\ stack' \in Seq(Classes) /\ Len(stack') = l + (Len(stack) - 1)
          /\ \A a \in 1..l + (Len(stack) - 1) :
               stack'[a] = IF a <= l THEN bases[k][a] ELSE Tail(stack)[a - l]
      BY <1>1, <2>5, <3>1, ConcatProperties
    <3>3. \A a \in 1..l : stack'[a] = bases[k][a]
      BY <2>6, <3>2
    <3>4. ASSUME NEW a \in 2..Len(stack) PROVE stack'[a + l - 1] = stack[a]
      <4>1. /\ a + l - 1 \in 1..l + (Len(stack) - 1) /\ ~(a + l - 1 <= l)
            /\ (a + l - 1) - l = a - 1 /\ a - 1 \in 1..Len(stack) - 1 /\ (a - 1) + 1 = a
        BY <2>6
      <4>2. stack'[a + l - 1] = Tail(stack)[a - 1]
        BY <3>2, <4>1
      <4>3. QED
        BY <3>1, <4>1, <4>2
    <3>5. DOMAIN stack' = 1..l + Len(stack) - 1
      BY <2>6, <3>2
    <3>6. QED
      BY <3>3, <3>4, <3>5
  <2>9. PICK next : next = [a \in 1..l + Len(stack) - 1 |-> IF a <= l THEN n + 1 ELSE depth[a - l + 1]]
    OBVIOUS
  <2>10. /\ \A a \in 1..l : next[a] = n + 1 /\ a \in DOMAIN stack'
         /\ \A a \in 2..Len(stack) : next[a + l - 1] = depth[a] /\ a + l - 1 \in DOMAIN stack'
    <3>1. ASSUME NEW a \in 1..l PROVE next[a] = n + 1 /\ a \in DOMAIN stack'
      <4>1. a \in 1..l + Len(stack) - 1 /\ a <= l
        BY <2>6
      <4>2. QED
        BY <2>8, <2>9, <4>1
    <3>2. ASSUME NEW a \in 2..Len(stack) PROVE next[a + l - 1] = depth[a] /\ a + l - 1 \in DOMAIN stack'
      <4>1. a + l - 1 \in 1..l + Len(stack) - 1 /\ ~(a + l - 1 <= l) /\ (a + l - 1) - l + 1 = a
        BY <2>6
      <4>2. QED
        BY <2>8, <2>9, <4>1
    <3>3. QED
      BY <3>1, <3>2
  <2>11. ASSUME NEW c \in DOMAIN stack'
         PROVE  c \in 1..l \/ \E a \in 2..Len(stack) : c = a + l - 1
    <3>1. CASE c <= l
      BY <2>6, <2>8, <3>1
    <3>2. CASE ~(c <= l)
      <4>1. c \in 1..l + Len(stack) - 1
        BY <2>8
      <4>2. c - l + 1 \in 2..Len(stack) /\ c = (c - l + 1) + l - 1
        <5>1. l \in Nat /\ Len(stack) \in Nat
          BY <2>6
        <5>2. QED
          BY <3>2, <4>1, <5>1
      <4>3. QED
        BY <4>2
    <3>3. QED
      BY <3>1, <3>2
  <2>12. ASSUME NEW a \in 2..Len(stack)
         PROVE  /\ a \in DOMAIN stack /\ a # 1 /\ depth[a] \in 1..n /\ depth[a] \in Nat
                /\ path[depth[a]] = calls[depth[a]]
                /\ Contains(bases[calls[depth[a]]], stack[a])
    <3>1. a \in DOMAIN stack /\ a # 1 /\ 1 <= a
      BY <2>6
    <3>2. depth[a] \in Nat /\ depth[a] <= n
      BY <2>2, <2>4, <2>6, <3>1 DEF InProgress
    <3>3. stack # <<start>>
      <4>1. Len(stack) # 1 /\ Len(<<start>>) = 1
        BY <2>6
      <4>2. QED
        BY <4>1
    <3>4. depth[a] # 0 /\ Contains(bases[calls[depth[a]]], stack[a])
      BY <2>2, <3>1, <3>3 DEF InProgress
    <3>5. depth[a] \in 1..n
      BY <2>6, <3>2, <3>4
    <3>6. QED
      BY <2>7, <3>1, <3>2, <3>4, <3>5
  <2>13. path \in Chains' /\ next \in [DOMAIN stack' -> 0..Len(path)]
    <3>1. path \in Chains'
      BY <1>1, <2>7, HitsStay DEF Chains
    <3>2. ASSUME NEW c \in DOMAIN stack' PROVE next[c] \in 0..Len(path)
      BY <2>6, <2>7, <2>10, <2>11, <2>12
    <3>3. DOMAIN next = DOMAIN stack' /\ next = [c \in DOMAIN stack' |-> next[c]]
      BY <2>8, <2>9
    <3>4. QED
      BY <3>1, <3>2, <3>3
  <2>14. InProgress(path, next)'
    <3>1. ASSUME NEW c \in DOMAIN stack', NEW e \in DOMAIN stack', c <= e PROVE next[e] <= next[c]
      <4>1. CASE c \in 1..l /\ e \in 1..l
        BY <2>6, <2>10, <4>1
      <4>2. CASE c \in 1..l /\ \E b \in 2..Len(stack) : e = b + l - 1
        BY <2>6, <2>10, <2>12, <4>2
      <4>3. ASSUME NEW a \in 2..Len(stack), c = a + l - 1, e \in 1..l PROVE FALSE
        BY <2>6, <3>1, <4>3
      <4>4. ASSUME NEW a \in 2..Len(stack), c = a + l - 1, NEW b \in 2..Len(stack), e = b + l - 1
            PROVE  next[e] <= next[c]
        <5>1. a <= b /\ a \in DOMAIN stack /\ b \in DOMAIN stack
          BY <2>6, <3>1, <4>4
        <5>2. depth[b] <= depth[a]
          BY <2>2, <5>1 DEF InProgress
        <5>3. QED
          BY <2>10, <4>4, <5>2
      <4>5. QED
        BY <2>11, <4>1, <4>2, <4>3, <4>4
    <3>2. ASSUME NEW c \in DOMAIN stack' PROVE next[c] # 0 /\ Contains(bases[path[next[c]]], stack'[c])
      <4>1. CASE c \in 1..l
        <5>1. stack'[c] = bases[k][c] /\ next[c] = n + 1 /\ n + 1 # 0
          BY <2>6, <2>8, <2>10, <4>1
        <5>2. Contains(bases[k], stack'[c])
          BY <2>5, <4>1, <5>1 DEF Contains
        <5>3. QED
          BY <2>7, <5>1, <5>2
      <4>2. ASSUME NEW a \in 2..Len(stack), c = a + l - 1
            PROVE  next[c] # 0 /\ Contains(bases[path[next[c]]], stack'[c])
        <5>1. stack'[c] = stack[a] /\ next[c] = depth[a]
          BY <2>8, <2>10, <4>2
        <5>2. depth[a] # 0
          BY <2>6, <2>12
        <5>3. QED
          BY <2>12, <5>1, <5>2
      <4>3. QED
        BY <2>11, <4>1, <4>2
    <3>3. QED
      BY <1>1, <3>1, <3>2 DEF InProgress, table
  <2>15. BasesWait(path, next)'
    <3>1. ASSUME NEW c \in seen', NEW base \in ToSet(bases[c]) \ seen'
          PROVE  \E a \in DOMAIN stack' : next[a] > 0 /\ path[next[a]] = c /\ stack'[a] = base
      <4>1. CASE c = k
        <5>1. PICK a \in 1..l : bases[k][a] = base
          BY <1>1, <2>5, <4>1 DEF ToSet
        <5>2. a \in DOMAIN stack' /\ next[a] = n + 1 /\ stack'[a] = base
          BY <2>8, <2>10, <5>1
        <5>3. n + 1 > 0 /\ path[n + 1] = c
          BY <2>6, <2>7, <4>1
        <5>4. QED
          BY <5>2, <5>3
      <4>2. CASE c # k
        <5>1. c \in seen /\ base \in ToSet(bases[c]) \ seen /\ base # k
          BY <1>1, <4>2
        <5>2. PICK a \in DOMAIN stack : depth[a] > 0 /\ calls[depth[a]] = c /\ stack[a] = base
          BY <2>2, <5>1 DEF BasesWait
        <5>3. a \in 2..Len(stack)
          BY <2>6, <5>1, <5>2
        <5>4. a + l - 1 \in DOMAIN stack' /\ next[a + l - 1] = depth[a] /\ stack'[a + l - 1] = stack[a]
          BY <2>8, <2>10, <5>3
        <5>5. path[depth[a]] = c
          BY <2>12, <5>2, <5>3
        <5>6. QED
          BY <5>2, <5>4, <5>5
      <4>3. QED
        BY <4>1, <4>2
    <3>2. QED
      BY <1>1, <3>1 DEF BasesWait, table
  <2>16. HitsWait(path, next)'
    <3>1. \A x, y : Place(x, y)' = Place(x, y)
      BY <1>1, HitsStay
    <3>2. ASSUME NEW p \in Hits, WaitsAt(calls, depth, 1, p)
          PROVE  \E c \in DOMAIN stack' : WaitsAt(path, next, c, p)'
      <4>1. /\ n + 1 < Len(p) /\ (\A m \in 1..n + 1 : p[m] = path[m])
            /\ \E j \in 1..l : bases[k][j] = p[n + 2]
        <5>1. TypeOK
          BY <1>1
        <5>2. Head(stack) \notin members /\ Head(stack) = k
          BY <1>1
        <5>3. /\ depth[1] + 1 < Len(p) /\ \A m \in 1..depth[1] + 1 : p[m] = path[m]
              /\ \E j \in 1..Len(bases[Head(stack)]) : bases[Head(stack)][j] = p[depth[1] + 2]
          <6>1. p \in Hits /\ WaitsAt(calls, depth, 1, p) /\ Leads(calls, depth, path)
            BY <2>3, <3>2
          <6>2. QED
            BY <5>1, <5>2, <6>1, HitBeyond
        <5>4. QED
          BY <2>4, <2>5, <5>2, <5>3
      <4>2. PICK j \in 1..l : bases[k][j] = p[n + 2]
        BY <4>1
      <4>3. PICK x : x = Place(p[n + 2], k)
        OBVIOUS
      <4>4. x \in 1..l /\ bases[k][x] = p[n + 2]
        <5>1. TypeOK
          BY <1>1
        <5>2. j \in 1..Len(bases[k])
          BY <2>5, <4>2
        <5>3. Place(bases[k][j], k) \in 1..Len(bases[k]) /\ bases[k][Place(bases[k][j], k)] = bases[k][j]
          BY <5>1, <5>2, PlaceIs
        <5>4. QED
          BY <2>5, <4>2, <4>3, <5>3
      <4>5. next[x] = n + 1 /\ stack'[x] = p[n + 2] /\ x \in DOMAIN stack'
        BY <2>8, <2>10, <4>4
      <4>6. ASSUME NEW b \in 1..x - 1 PROVE next[b] = n + 1 /\ Place(stack'[b], k) < x
        <5>1. b \in 1..l /\ b < x /\ b \in Nat
          BY <2>6, <4>4
        <5>2. Place(bases[k][b], k) \in 1..b
          BY <1>1, <2>5, <5>1, PlaceIs
        <5>3. stack'[b] = bases[k][b] /\ next[b] = n + 1
          BY <2>8, <2>10, <5>1
        <5>4. Place(bases[k][b], k) < x
          BY <2>6, <4>4, <5>1, <5>2
        <5>5. QED
          BY <5>3, <5>4
      <4>7. ~(next[x] < Len(path)) /\ (n + 1) + 1 = n + 2
        BY <2>6, <2>7, <4>5
      <4>8. WaitsAt(path, next, x, p)'
        BY <2>7, <3>1, <4>1, <4>3, <4>5, <4>6, <4>7 DEF WaitsAt
      <4>9. QED
        BY <4>5, <4>8
    <3>3. ASSUME NEW p \in Hits, NEW a \in 2..Len(stack), WaitsAt(calls, depth, a, p)
          PROVE  \E c \in DOMAIN stack' : WaitsAt(path, next, c, p)'
      <4>1. PICK c : c = a + l - 1
        OBVIOUS
      <4>2. PICK d : d = depth[a]
        OBVIOUS
      <4>3. c \in DOMAIN stack' /\ next[c] = d /\ stack'[c] = stack[a]
        BY <2>8, <2>10, <4>1, <4>2
      <4>4. /\ \A m \in 1..d : p[m] = path[m]
            /\ Place(path[d + 1], path[d]) < Place(stack[a], path[d])
        <5>1. TypeOK
          BY <1>1
        <5>2. a \in DOMAIN stack /\ a # 1
          BY <2>12
        <5>3. Leads(calls, depth, path)
          BY <2>3
        <5>4. WaitsAt(calls, depth, a, p)
          BY <3>3
        <5>5. /\ \A m \in 1..depth[a] : p[m] = path[m]
              /\ Place(path[depth[a] + 1], path[depth[a]]) < Place(stack[a], path[depth[a]])
          BY <5>1, <5>2, <5>3, <5>4, WaitsBehind
        <5>6. QED
          BY <4>2, <5>5
      <4>5. d \in 1..n /\ path[d] = calls[d] /\ d \in Nat
        BY <2>12, <4>2
      <4>6. ASSUME NEW b \in 1..c - 1, next[b] = d PROVE Place(stack'[b], path[d]) < Place(stack[a], path[d])
        <5>1. b \in DOMAIN stack' /\ ~(b \in 1..l)
          <6>1. b \in Nat /\ 1 <= b /\ b < a + l - 1
            BY <2>6, <4>1, <4>6
          <6>2. b \in DOMAIN stack'
            BY <2>6, <2>8, <6>1
          <6>3. n + 1 # d
            BY <2>6, <4>5
          <6>4. QED
            BY <2>10, <4>6, <6>2, <6>3
        <5>2. PICK b0 \in 2..Len(stack) : b = b0 + l - 1
          BY <2>11, <5>1
        <5>3. b0 \in 1..a - 1 /\ depth[b0] = d /\ stack'[b] = stack[b0]
          <6>1. b0 \in 1..a - 1
            BY <2>6, <4>1, <4>6, <5>2
          <6>2. next[b] = depth[b0] /\ stack'[b] = stack[b0]
            BY <2>8, <2>10, <5>2
          <6>3. QED
            BY <4>6, <6>1, <6>2
        <5>4. d > 0
          BY <4>5
        <5>5. Place(stack[b0], calls[d]) < Place(stack[a], calls[d])
          <6>1. \A e \in 1..a - 1 : depth[e] = d => Place(stack[e], calls[d]) < Place(stack[a], calls[d])
            BY <3>3, <4>2, <5>4 DEF WaitsAt
          <6>2. QED
            BY <5>3, <6>1
        <5>6. QED
          BY <4>5, <5>3, <5>5
      <4>7. d < Len(p) /\ p[d + 1] = stack[a]
        BY <3>3, <4>2 DEF WaitsAt
      <4>8. WaitsAt(path, next, c, p)'
        BY <3>1, <4>3, <4>4, <4>6, <4>7 DEF WaitsAt
      <4>9. QED
        BY <4>3, <4>8
    <3>4. ASSUME NEW p \in Hits
          PROVE  \E c \in DOMAIN stack' : WaitsAt(path, next, c, p)'
      <4>1. PICK a \in DOMAIN stack : WaitsAt(calls, depth, a, p)
        BY <2>2 DEF HitsWait
      <4>2. a = 1 \/ a \in 2..Len(stack)
        BY <2>6
      <4>3. QED
        BY <3>2, <3>3, <4>1, <4>2
    <3>5. QED
      BY <1>1, <3>4, HitsStay DEF HitsWait
  <2>17. DepthFirst'
    BY <2>13, <2>14, <2>15, <2>16 DEF DepthFirst
  <2>18. QED
    BY <1>1, <1>3, <2>17 DEF FirstMatchWins
<1>4. QED
  BY <1>2, <1>3

\* Every step of either walk keeps the order.
LEMMA FirstNext == WalkInv /\ DepthFirst /\ FirstMatchWins /\ [Next]_vars => DepthFirst' /\ FirstMatchWins'
<1> SUFFICES ASSUME WalkInv, DepthFirst, FirstMatchWins, [Next]_vars
             PROVE  DepthFirst' /\ FirstMatchWins'
  OBVIOUS
<1>1. CASE UNCHANGED vars
  <2>1. UNCHANGED <<table, walk, stack, seen, found>>
    BY <1>1 DEF vars
  <2>2. FirstMatchWins'
    BY <2>1 DEF FirstMatchWins, table
  <2>3. Hits' = Hits /\ Chains' = Chains /\ DOMAIN stack' = DOMAIN stack
    BY <2>1 DEF Hits, Chains, table
  <2>4. ASSUME NEW calls, NEW depth
        PROVE  /\ InProgress(calls, depth)' = InProgress(calls, depth)
               /\ BasesWait(calls, depth)' = BasesWait(calls, depth)
               /\ HitsWait(calls, depth)' = HitsWait(calls, depth)
    <3>1. InProgress(calls, depth)' = InProgress(calls, depth)
      BY <2>1 DEF InProgress, table
    <3>2. BasesWait(calls, depth)' = BasesWait(calls, depth)
      BY <2>1 DEF BasesWait, table
    <3>3. ASSUME NEW a, NEW p PROVE WaitsAt(calls, depth, a, p)' = WaitsAt(calls, depth, a, p)
      BY <2>1 DEF WaitsAt, Place, table
    <3>4. HitsWait(calls, depth)' = HitsWait(calls, depth)
      BY <2>3, <3>3 DEF HitsWait
    <3>5. QED
      BY <3>1, <3>2, <3>4
  <2>5. DepthFirst'
    BY <2>1, <2>3, <2>4 DEF DepthFirst
  <2>6. QED
    BY <2>2, <2>5
<1>2. ASSUME NEW k \in Classes, Reach(k) \/ Override(k) PROVE DepthFirst' /\ FirstMatchWins'
  BY <1>2, FirstStays DEF Reach, Override, Visit, Return
<1>3. CASE Next
  BY <1>2, <1>3, FirstExhausted, FirstSkip, FirstDescend, FirstMatched DEF Next
<1>4. QED
  BY <1>1, <1>3

\* The two hold together.
LEMMA FirstInvariant == Spec => [](WalkInv /\ DepthFirst /\ FirstMatchWins)
<1>1. Init => WalkInv /\ DepthFirst /\ FirstMatchWins
  BY WalkInit, FirstInit
<1>2. WalkInv /\ DepthFirst /\ FirstMatchWins /\ [Next]_vars => (WalkInv /\ DepthFirst /\ FirstMatchWins)'
  BY WalkNext, FirstNext
<1>3. QED
  BY <1>1, <1>2, PTL DEF Spec

\* In every hierarchy the explicit stack stands for the recursion of
\* methodInClassSeen: the calls in progress are a path over visited classes,
\* every class that waits is a base of one of them, the inner ones in front,
\* and every path to a declaration goes by one that waits.
THEOREM DepthFirstHolds == Spec => []DepthFirst
BY FirstInvariant, PTL

\* In every hierarchy, cyclic or not, with a base listed twice or met on many
\* paths, methodInClass takes the declaration that a search of all paths in
\* their order would take: the visited set that the branches share only saves
\* work.
THEOREM FirstMatchHolds == Spec => []FirstMatchWins
BY FirstInvariant, PTL

----------------------------------------------------------------------------
(* The walks end.                                                          *)

\* Marking a class leaves fewer unmarked.
LEMMA MarkingShrinks ==
  ASSUME TypeOK, NEW k \in Classes, k \notin seen, seen' = seen \cup {k}
  PROVE  Unseen' < Unseen /\ Unseen \in Nat /\ Unseen' \in Nat
<1>1. IsFiniteSet(Classes \ seen)
  BY ClassesAssumption, FS_Subset
<1>2. Classes \ seen' = (Classes \ seen) \ {k} /\ k \in Classes \ seen
  OBVIOUS
<1>3. /\ Cardinality((Classes \ seen) \ {k}) = Cardinality(Classes \ seen) - 1
      /\ Cardinality(Classes \ seen) \in Nat
      /\ Cardinality((Classes \ seen) \ {k}) \in Nat
  BY <1>1, <1>2, FS_RemoveElement, FS_CardinalityType
<1>4. Unseen = Cardinality(Classes \ seen) /\ Unseen' = Cardinality((Classes \ seen) \ {k})
  BY <1>2 DEF Unseen
<1> HIDE DEF Unseen
<1>5. QED
  BY <1>3, <1>4

\* A walk that returns is followed by one of a lower rank.
LEMMA ReturnShrinks == ASSUME Return PROVE Rank' < Rank
  BY DEF Return, Rank

\* Every step goes down.
LEMMA StepShrinks == ASSUME TypeOK, Next PROVE Shrinks
<1>1. ASSUME Return PROVE Shrinks
  BY <1>1, ReturnShrinks DEF Shrinks
<1>2. CASE Exhausted
  BY <1>1, <1>2 DEF Exhausted
<1>3. ASSUME NEW k \in Classes, Skip(k) PROVE Shrinks
  <2>1. Rank' = Rank /\ Unseen' = Unseen
    BY <1>3 DEF Skip, Rank, Unseen
  <2>2. stack \in Seq(Classes) /\ stack # << >> /\ stack' = Tail(stack)
    BY <1>3 DEF Skip, Visit, TypeOK
  <2>3. Len(stack') < Len(stack)
    BY <2>2
  <2>4. QED
    BY <2>1, <2>3 DEF Shrinks
<1>4. ASSUME NEW k \in Classes, Descend(k) \/ Override(k) PROVE Shrinks
  <2>1. Rank' = Rank /\ k \notin seen /\ seen' = seen \cup {k}
    BY <1>4 DEF Descend, Override, IsNew, Rank
  <2>2. Unseen' < Unseen
    BY <2>1, MarkingShrinks
  <2>3. QED
    BY <2>1, <2>2 DEF Shrinks
<1>5. ASSUME NEW k \in Classes, Match(k) \/ Reach(k) PROVE Shrinks
  BY <1>1, <1>5 DEF Match, Reach
<1>6. QED
  BY <1>2, <1>3, <1>4, <1>5 DEF Next

\* In every hierarchy each step of the walks takes a measure down in the
\* lexicographic order: the recursion ends although the edges may form cycles.
THEOREM WalkAlwaysShrinks == Spec => WalkShrinks
<1>1. TypeOK /\ [Next]_vars => [Shrinks]_vars
  BY StepShrinks
<1>2. WalkInv => TypeOK
  BY DEF WalkInv
<1>3. QED
  BY <1>1, <1>2, WalkInvariant, PTL DEF Spec, WalkShrinks
=============================================================================
