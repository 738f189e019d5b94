------------------------------ MODULE TclProofs ------------------------------
(* For every file whose commands have the words that Tcl wants of them:    *)
(* what it looks up, defines and binds when it runs, the walk over its     *)
(* text has found.                                                         *)
EXTENDS TclRun, FiniteSetTheorems, SequenceTheorems, WellFoundedInduction, TLAPS

----------------------------------------------------------------------------
(* Sequences.                                                              *)

\* What holds of 0 and, with k, of k + 1, holds up to n.
LEMMA UpTo ==
  ASSUME NEW n \in Nat, NEW P, 0 \in P, \A k \in 0..(n - 1) : k \in P => k + 1 \in P
  PROVE  0..n \subseteq P
<1> DEFINE Q == {k \in Nat : k \in 0..n /\ k \notin P}
<1>1. SUFFICES ASSUME Q # {} PROVE FALSE
  OBVIOUS
<1>2. PICK k \in Q : \A j \in Q : ~(<<j, k>> \in OpToRel(<, Nat))
  BY <1>1, NatLessThanWellFounded, WFMin
<1>3. \A j \in Q : ~(j < k)
  BY <1>2 DEF OpToRel
<1>4. k # 0 /\ k \in 0..n /\ k \notin P
  BY <1>2
<1>5. k - 1 \in 0..(n - 1) /\ k - 1 \in Nat /\ k - 1 < k
  BY <1>4
<1>6. k - 1 \in P
  BY <1>3, <1>5
<1>7. QED
  BY <1>4, <1>5, <1>6

IsSequence(s) == s \in Seq(ToSet(s))

\* A sequence is one of its elements.
LEMMA SequenceIs ==
  ASSUME NEW S, NEW s \in Seq(S)
  PROVE  IsSequence(s) /\ ToSet(s) \subseteq S
<1>1. \A i \in DOMAIN s : s[i] \in S
  OBVIOUS
<1>2. s \in [1..Len(s) -> ToSet(s)] /\ Len(s) \in Nat
  BY DEF ToSet
<1>3. QED
  BY <1>1, <1>2 DEF IsSequence, ToSet

LEMMA EmptySequence == IsSequence(<< >>) /\ ToSet(<< >>) = {}
BY DEF IsSequence, ToSet

LEMMA OneElement ==
  ASSUME NEW x
  PROVE  IsSequence(<<x>>) /\ ToSet(<<x>>) = {x}
<1>1. <<x>> \in Seq({x}) /\ DOMAIN <<x>> = {1} /\ <<x>>[1] = x
  OBVIOUS
<1>2. QED
  BY <1>1 DEF IsSequence, ToSet

\* The elements of two sequences, one behind the other.
LEMMA Joined ==
  ASSUME NEW s, NEW t, IsSequence(s), IsSequence(t)
  PROVE  IsSequence(s \o t) /\ ToSet(s \o t) = ToSet(s) \cup ToSet(t)
<1> DEFINE S == ToSet(s) \cup ToSet(t)
<1>1. s \in Seq(S) /\ t \in Seq(S)
  BY DEF IsSequence
<1>2. s \o t \in Seq(S) /\ Len(s \o t) = Len(s) + Len(t) /\ Len(s) \in Nat /\ Len(t) \in Nat
  BY <1>1
<1>3. \A i \in 1..Len(s) : i \in DOMAIN (s \o t) /\ (s \o t)[i] = s[i]
  BY <1>1, <1>2
<1>4. \A i \in 1..Len(t) : Len(s) + i \in DOMAIN (s \o t) /\ (s \o t)[Len(s) + i] = t[i]
  BY <1>1, <1>2
<1>5. ToSet(s \o t) \subseteq S
  BY <1>2, SequenceIs
<1> DEFINE st == s \o t
<1>0. DOMAIN s = 1..Len(s) /\ DOMAIN t = 1..Len(t)
  BY <1>1
<1> HIDE DEF st
<1>6. ToSet(s) \subseteq ToSet(st)
  BY <1>0, <1>3 DEF ToSet, st
<1>7. ToSet(t) \subseteq ToSet(st)
  <2> SUFFICES ASSUME NEW i \in 1..Len(t) PROVE t[i] \in ToSet(st)
    BY <1>0 DEF ToSet
  <2>1. Len(s) + i \in DOMAIN st /\ st[Len(s) + i] = t[i]
    BY <1>4 DEF st
  <2>2. QED
    BY <2>1 DEF ToSet
<1>8. IsSequence(s \o t)
  BY <1>2, SequenceIs
<1>9. QED
  BY <1>5, <1>6, <1>7, <1>8 DEF st

\* The elements of a sequence that is there or not.
LEMMA WhereIs ==
  ASSUME NEW condition, NEW s, IsSequence(s)
  PROVE  /\ IsSequence(Where(condition, s)) /\ ToSet(Where(condition, s)) \subseteq ToSet(s)
         /\ condition => ToSet(Where(condition, s)) = ToSet(s)
BY EmptySequence DEF Where

\* A sequence given index by index.
LEMMA Listed ==
  ASSUME NEW n \in Nat, NEW f, f = [i \in 1..n |-> f[i]]
  PROVE  IsSequence(f) /\ DOMAIN f = 1..n /\ Len(f) = n
<1>1. DOMAIN f = 1..n /\ \A i \in 1..n : f[i] \in ToSet(f)
  BY DEF ToSet
<1>2. f \in [1..n -> ToSet(f)]
  BY <1>1
<1>3. QED
  BY <1>1, <1>2 DEF IsSequence

AllSequences(ss) == IsSequence(ss) /\ \A i \in DOMAIN ss : IsSequence(ss[i])

\* What FlattenSeq returns is the fold that its definition says.
LEMMA FlattenIs ==
  ASSUME NEW ss, IsSequence(ss), Len(ss) # 0
  PROVE  \E f : /\ FlattenSeq(ss) = f[Len(ss)] /\ f[1] = ss[1]
                /\ \A i \in 2..Len(ss) : f[i] = f[i - 1] \o ss[i]
<1> DEFINE To(f, m) == f = [i \in 1..m |-> IF i = 1 THEN ss[i] ELSE f[i - 1] \o ss[i]]
           P == {m \in Nat : \E f : To(f, m + 1)}
           n == Len(ss)
<1>0. n \in Nat \ {0}
  BY DEF IsSequence
<1>1. 0 \in P
  <2> DEFINE f == [i \in 1..1 |-> ss[1]]
             h == [i \in 1..1 |-> IF i = 1 THEN ss[i] ELSE f[i - 1] \o ss[i]]
  <2>1. \A i \in 1..1 : f[i] = h[i]
    OBVIOUS
  <2>2. f = h
    BY <2>1
  <2>3. To(f, 0 + 1)
    BY <2>2
  <2> HIDE DEF To
  <2>4. QED
    BY <2>3
<1>2. \A m \in 0..(n - 2) : m \in P => m + 1 \in P
  <2> SUFFICES ASSUME NEW m \in 0..(n - 2), m \in P PROVE m + 1 \in P
    OBVIOUS
  <2>0. m \in Nat
    BY <1>0
  <2>1. PICK f : To(f, m + 1)
    OBVIOUS
  <2> DEFINE g == [i \in 1..(m + 2) |-> IF i = m + 2 THEN f[m + 1] \o ss[m + 2] ELSE f[i]]
             h == [i \in 1..(m + 2) |-> IF i = 1 THEN ss[i] ELSE g[i - 1] \o ss[i]]
  <2>2. \A i \in 1..(m + 1) : f[i] = IF i = 1 THEN ss[i] ELSE f[i - 1] \o ss[i]
    BY <2>1
  <2>3. \A i \in 1..(m + 2) : g[i] = h[i]
    <3> TAKE i \in 1..(m + 2)
    <3>1. CASE i = m + 2
      <4>1. i # 1 /\ i - 1 = m + 1 /\ m + 1 \in 1..(m + 2) /\ m + 1 # m + 2
        BY <2>0, <3>1
      <4>2. g[i - 1] = f[m + 1] /\ g[i] = f[m + 1] \o ss[m + 2]
        BY <3>1, <4>1
      <4>3. QED
        BY <3>1, <4>1, <4>2
    <3>2. CASE i = 1
      <4>1. i \in 1..(m + 1) /\ i # m + 2
        BY <2>0, <3>2
      <4>2. QED
        BY <2>2, <3>2, <4>1
    <3>3. CASE i \in 2..(m + 1)
      <4>1. i \in 1..(m + 1) /\ i # m + 2 /\ i # 1 /\ i - 1 \in 1..(m + 2) /\ i - 1 # m + 2
        BY <2>0, <3>3
      <4>2. QED
        BY <2>2, <4>1
    <3>4. QED
      BY <2>0, <3>1, <3>2, <3>3
  <2>4. g = h
    BY <2>3
  <2>5. m + 1 + 1 = m + 2
    BY <2>0
  <2>6. To(g, m + 1 + 1)
    BY <2>4, <2>5
  <2> HIDE DEF To
  <2>7. QED
    BY <2>0, <2>6
<1>3. n - 1 \in P
  <2> HIDE DEF P
  <2>1. n - 1 \in Nat /\ n - 1 - 1 = n - 2 /\ n - 1 \in 0..(n - 1)
    BY <1>0
  <2>2. 0..(n - 1) \subseteq P
    BY <1>1, <1>2, <2>1, UpTo
  <2>3. QED
    BY <2>1, <2>2
<1>4. \E f : To(f, n)
  <2>1. n - 1 + 1 = n
    BY <1>0
  <2>2. \E f : To(f, n - 1 + 1)
    <3> HIDE DEF To
    <3>1. QED
      BY <1>3
  <2>3. QED
    BY <2>1, <2>2
<1> DEFINE flat == CHOOSE flatten : flatten = [i \in 1..Len(ss) |-> IF i = 1 THEN ss[i] ELSE flatten[i - 1] \o ss[i]]
<1>5. To(flat, n)
  BY <1>4
<1>6. FlattenSeq(ss) = flat[n]
  BY <1>0 DEF FlattenSeq
<1>7. \A i \in 1..n : flat[i] = IF i = 1 THEN ss[i] ELSE flat[i - 1] \o ss[i]
  BY <1>5
<1> HIDE DEF flat
<1>8. flat[1] = ss[1] /\ \A i \in 2..n : flat[i] = flat[i - 1] \o ss[i]
  <2>1. 1 \in 1..n /\ \A i \in 2..n : i \in 1..n /\ i # 1
    BY <1>0
  <2> HIDE DEF n
  <2>2. QED
    BY <1>7, <2>1
<1>9. QED
  BY <1>6, <1>8

\* It holds the elements of all.
LEMMA Flattened ==
  ASSUME NEW ss, AllSequences(ss)
  PROVE  IsSequence(FlattenSeq(ss)) /\ ToSet(FlattenSeq(ss)) = UNION {ToSet(ss[i]) : i \in DOMAIN ss}
<1> DEFINE n == Len(ss)
           All == UNION {ToSet(ss[i]) : i \in DOMAIN ss}
<1>0. n \in Nat /\ DOMAIN ss = 1..n /\ \A i \in 1..n : IsSequence(ss[i])
  BY DEF AllSequences, IsSequence
<1>1. CASE n = 0
  <2>1. FlattenSeq(ss) = ss /\ ss = << >> /\ All = {}
    BY <1>0, <1>1 DEF FlattenSeq, AllSequences, IsSequence
  <2>2. QED
    BY <2>1, EmptySequence
<1>2. CASE n # 0
  <2>1. PICK f : /\ FlattenSeq(ss) = f[n] /\ f[1] = ss[1]
                 /\ \A i \in 2..n : f[i] = f[i - 1] \o ss[i]
    BY <1>2, FlattenIs DEF AllSequences
  <2> DEFINE Sofar(m) == UNION {ToSet(ss[i]) : i \in 1..m}
             P == {k \in Nat : k + 1 \in 1..n => IsSequence(f[k + 1]) /\ ToSet(f[k + 1]) = Sofar(k + 1)}
  <2>2. 0 \in P
    <3>1. Sofar(1) = ToSet(ss[1])
      OBVIOUS
    <3>2. 0 + 1 = 1 /\ 1 \in 1..n
      BY <1>0, <1>2
    <3> HIDE DEF Sofar
    <3>3. QED
      BY <1>0, <2>1, <3>1, <3>2
  <2>3. \A k \in 0..(n - 2) : k \in P => k + 1 \in P
    <3> SUFFICES ASSUME NEW k \in 0..(n - 2), k \in P PROVE k + 1 \in P
      OBVIOUS
    <3>1. k \in Nat /\ k + 1 \in 1..n /\ k + 2 \in 2..n /\ k + 2 - 1 = k + 1 /\ k + 1 + 1 = k + 2 /\ k + 2 \in 1..n
      BY <1>0, <1>2
    <3>2. f[k + 2] = f[k + 1] \o ss[k + 2]
      <4> DEFINE j == k + 2
      <4>1. j \in 2..n /\ j - 1 = k + 1
        BY <3>1
      <4> HIDE DEF j
      <4>2. f[j] = f[j - 1] \o ss[j]
        BY <2>1, <4>1
      <4>3. f[j] = f[k + 1] \o ss[j]
        BY <4>1, <4>2
      <4>4. QED
        BY <4>3 DEF j
    <3>3. IsSequence(f[k + 1]) /\ ToSet(f[k + 1]) = Sofar(k + 1)
      <4> HIDE DEF Sofar
      <4>1. QED
        BY <3>1
    <3>4. Sofar(k + 2) = Sofar(k + 1) \cup ToSet(ss[k + 2])
      <4>1. 1..(k + 2) = 1..(k + 1) \cup {k + 2}
        BY <3>1
      <4>2. QED
        BY <4>1
    <3> HIDE DEF Sofar
    <3>5. IsSequence(f[k + 2]) /\ ToSet(f[k + 2]) = Sofar(k + 1) \cup ToSet(ss[k + 2])
      BY <1>0, <3>1, <3>2, <3>3, Joined
    <3>6. QED
      <4>1. k + 1 \in Nat
        BY <3>1
      <4>2. IsSequence(f[k + 1 + 1]) /\ ToSet(f[k + 1 + 1]) = Sofar(k + 1 + 1)
        BY <3>1, <3>4, <3>5
      <4>3. QED
        BY <4>1, <4>2
  <2>4. n - 1 \in P
    <3> HIDE DEF P
    <3>1. n - 1 \in Nat /\ n - 1 - 1 = n - 2 /\ n - 1 \in 0..(n - 1)
      BY <1>0, <1>2
    <3>2. 0..(n - 1) \subseteq P
      BY <2>2, <2>3, <3>1, UpTo
    <3>3. QED
      BY <3>1, <3>2
  <2>5. n - 1 + 1 = n /\ n \in 1..n
    BY <1>0, <1>2
  <2>6. IsSequence(f[n]) /\ ToSet(f[n]) = Sofar(n)
    BY <2>4, <2>5
  <2>7. Sofar(n) = All
    BY <1>0
  <2>8. QED
    BY <2>1, <2>6, <2>7
<1>3. QED
  BY <1>1, <1>2

----------------------------------------------------------------------------
(* Ranks.                                                                  *)

\* before says which of two members of S comes first, every one before itself.
IsOrder(before, S) ==
  \A x, y \in S : /\ <<x, x>> \in before
                  /\ <<x, y>> \in before \/ <<y, x>> \in before
                  /\ <<x, y>> \in before /\ <<y, x>> \in before => x = y
                  /\ \A z \in S : <<x, y>> \in before /\ <<y, z>> \in before => <<x, z>> \in before
UpToThis(before, S, x) == {y \in S : <<y, x>> \in before}
Rank(before, S) == [x \in S |-> Cardinality(UpToThis(before, S, x))]

\* Every number up to that of the members is the rank of one of them.
LEMMA Ranked ==
  ASSUME NEW before, NEW S, IsFiniteSet(S), IsOrder(before, S)
  PROVE  /\ Cardinality(S) \in Nat
         /\ \A x \in S : Rank(before, S)[x] \in 1..Cardinality(S)
         /\ \A x, y \in S : Rank(before, S)[x] = Rank(before, S)[y] => x = y
         /\ \A k \in 1..Cardinality(S) : \E x \in S : Rank(before, S)[x] = k
<1> DEFINE r == Rank(before, S)
           To(x) == UpToThis(before, S, x)
           n == Cardinality(S)
<1>1. n \in Nat
  BY FS_CardinalityType
<1>2. \A x \in S : /\ To(x) \in SUBSET S /\ x \in To(x) /\ IsFiniteSet(To(x)) /\ Cardinality(To(x)) \in Nat
                   /\ Cardinality(To(x)) <= n
  <2> TAKE x \in S
  <2>1. To(x) \in SUBSET S /\ x \in To(x)
    BY DEF UpToThis, IsOrder
  <2>2. IsFiniteSet(To(x)) /\ Cardinality(To(x)) <= n
    BY <2>1, FS_Subset
  <2>3. QED
    BY <2>1, <2>2, FS_CardinalityType
<1>3. \A x \in S : Cardinality(To(x)) # 0
  BY <1>2, FS_EmptySet
<1>4. \A x \in S : r[x] = Cardinality(To(x))
  BY DEF Rank
<1>5. \A x \in S : r[x] \in 1..n
  BY <1>1, <1>2, <1>3, <1>4
<1>6. \A x, y \in S : r[x] = r[y] => x = y
  <2> SUFFICES ASSUME NEW x \in S, NEW y \in S, <<x, y>> \in before, r[x] = r[y] PROVE x = y
    BY DEF IsOrder
  <2>1. To(x) \in SUBSET To(y)
    BY DEF UpToThis, IsOrder
  <2>2. IsFiniteSet(To(y)) /\ Cardinality(To(y)) = Cardinality(To(x))
    BY <1>2, <1>4
  <2>3. To(y) = To(x)
    BY <2>1, <2>2, FS_Subset
  <2>4. y \in To(x)
    BY <1>2, <2>3
  <2>5. QED
    BY <2>4 DEF UpToThis, IsOrder
<1>7. r \in Injection(S, 1..n)
  BY <1>5, <1>6 DEF Injection, IsInjective, Rank
<1>8. IsFiniteSet(1..n) /\ Cardinality(1..n) = n
  BY <1>1, FS_Interval
<1>9. r \in Surjection(S, 1..n)
  BY <1>7, <1>8, FS_Injection
<1>10. \A k \in 1..n : \E x \in S : r[x] = k
  BY <1>9 DEF Surjection
<1>11. QED
  BY <1>1, <1>5, <1>6, <1>10

NoMore == {e \in Nat \X Nat : e[1] <= e[2]}

\* The kth of a finite set of numbers is one of them, and each is some kth.
LEMMA KthIs ==
  ASSUME NEW S \in SUBSET Nat, IsFiniteSet(S)
  PROVE  /\ Cardinality(S) \in Nat
         /\ \A k \in 1..Cardinality(S) : Kth(S, k) \in S
         /\ \A i \in S : \E k \in 1..Cardinality(S) : Kth(S, k) = i
<1>1. \A x, y \in S : x \in Nat /\ y \in Nat /\ (<<x, y>> \in NoMore <=> x <= y)
  BY DEF NoMore
<1>2. IsOrder(NoMore, S)
  <2> SUFFICES ASSUME NEW x \in S, NEW y \in S
               PROVE  /\ <<x, x>> \in NoMore
                      /\ <<x, y>> \in NoMore \/ <<y, x>> \in NoMore
                      /\ <<x, y>> \in NoMore /\ <<y, x>> \in NoMore => x = y
                      /\ \A z \in S : <<x, y>> \in NoMore /\ <<y, z>> \in NoMore => <<x, z>> \in NoMore
    BY DEF IsOrder
  <2>1. x <= x /\ (x <= y \/ y <= x) /\ (x <= y /\ y <= x => x = y)
    BY <1>1
  <2>2. \A z \in S : x <= y /\ y <= z => x <= z
    BY <1>1
  <2>3. QED
    BY <1>1, <2>1, <2>2
<1> DEFINE r == Rank(NoMore, S)
           n == Cardinality(S)
<1>3. \A x \in S : r[x] = Cardinality({m \in S : m <= x})
  <2> TAKE x \in S
  <2>1. UpToThis(NoMore, S, x) = {m \in S : m <= x}
    BY <1>1 DEF UpToThis
  <2>2. QED
    BY <2>1 DEF Rank
<1>4. /\ n \in Nat /\ \A x \in S : r[x] \in 1..n
      /\ \A x, y \in S : r[x] = r[y] => x = y
      /\ \A k \in 1..n : \E x \in S : r[x] = k
  <2> HIDE DEF r, n
  <2>1. n = Cardinality(S) /\ r = Rank(NoMore, S)
    BY DEF r, n
  <2>2. /\ Cardinality(S) \in Nat
        /\ \A x \in S : Rank(NoMore, S)[x] \in 1..Cardinality(S)
        /\ \A x, y \in S : Rank(NoMore, S)[x] = Rank(NoMore, S)[y] => x = y
        /\ \A k \in 1..Cardinality(S) : \E x \in S : Rank(NoMore, S)[x] = k
    BY <1>2, Ranked, Zenon
  <2>3. QED
    BY <2>1, <2>2
<1> HIDE DEF r, n
<1>5. \A k : Kth(S, k) = CHOOSE x \in S : r[x] = k
  <2> TAKE k
  <2>1. \A x \in S : Cardinality({m \in S : m <= x}) = k <=> r[x] = k
    BY <1>3
  <2>2. QED
    BY <2>1 DEF Kth
<1>6. \A k \in 1..n : Kth(S, k) \in S
  BY <1>4, <1>5
<1>7. \A i \in S : Kth(S, r[i]) = i
  <2> TAKE i \in S
  <2>1. \A x \in S : r[x] = r[i] <=> x = i
    BY <1>4
  <2>2. (CHOOSE x \in S : r[x] = r[i]) = i
    BY <2>1
  <2>3. QED
    BY <1>5, <2>2
<1>8. QED
  BY <1>4, <1>6, <1>7 DEF n

\* The words that WordsAt takes at the indices of a set.
TakenAt(w, at) == [k \in 1..Cardinality(at) |-> w[Kth(at, k)]]

LEMMA Taken ==
  ASSUME NEW w, IsSequence(w), NEW at \in SUBSET DOMAIN w
  PROVE  IsSequence(TakenAt(w, at)) /\ ToSet(TakenAt(w, at)) = {w[i] : i \in at}
<1>1. DOMAIN w = 1..Len(w) /\ Len(w) \in Nat
  BY DEF IsSequence
<1>2. at \in SUBSET Nat /\ IsFiniteSet(1..Len(w))
  BY <1>1, FS_Interval
<1>3. IsFiniteSet(at)
  BY <1>1, <1>2, FS_Subset
<1>4. /\ Cardinality(at) \in Nat
      /\ \A k \in 1..Cardinality(at) : Kth(at, k) \in at
      /\ \A i \in at : \E k \in 1..Cardinality(at) : Kth(at, k) = i
  BY <1>2, <1>3, KthIs
<1> DEFINE t == TakenAt(w, at)
<1>5. t = [k \in 1..Cardinality(at) |-> t[k]]
  BY DEF TakenAt
<1>6. IsSequence(t) /\ DOMAIN t = 1..Cardinality(at)
  BY <1>4, <1>5, Listed
<1>7. \A k \in 1..Cardinality(at) : t[k] = w[Kth(at, k)]
  BY DEF TakenAt
<1>8. ToSet(t) = {t[k] : k \in 1..Cardinality(at)}
  BY <1>6 DEF ToSet
<1> HIDE DEF t
<1>9. \A x : x \in ToSet(t) <=> x \in {w[i] : i \in at}
  BY <1>4, <1>7, <1>8
<1>10. QED
  BY <1>6, <1>9 DEF t

----------------------------------------------------------------------------
(* Words, commands and scripts.                                            *)

Script(d) == Nested[d]
Command(d) == Commands(Nested[d])

\* The definition of Nested, depth by depth.
LEMMA NestedIs == /\ Script(0) = {<< >>}
                  /\ \A d \in 1..Nesting : Script(d) = Seq(Command(d - 1))
<1> DEFINE To(f, m) == f = [n \in 0..m |-> IF n = 0 THEN {<< >>} ELSE Seq(Commands(f[n - 1]))]
           P == {m \in Nat : \E f : To(f, m)}
<1>0. Nesting \in Nat
  BY NestingAssumption
<1>1. 0 \in P
  <2> DEFINE f == [n \in 0..0 |-> {<< >>}]
             h == [n \in 0..0 |-> IF n = 0 THEN {<< >>} ELSE Seq(Commands(f[n - 1]))]
  <2>1. \A n \in 0..0 : n = 0
    OBVIOUS
  <2>2. f = h
    BY <2>1
  <2>3. To(f, 0)
    BY <2>2
  <2> HIDE DEF To
  <2>4. QED
    BY <2>3
<1>2. \A m \in 0..(Nesting - 1) : m \in P => m + 1 \in P
  <2> SUFFICES ASSUME NEW m \in 0..(Nesting - 1), m \in P PROVE m + 1 \in P
    OBVIOUS
  <2>0. m \in Nat
    BY <1>0
  <2>1. PICK f : To(f, m)
    OBVIOUS
  <2> DEFINE g == [n \in 0..(m + 1) |-> IF n = m + 1 THEN Seq(Commands(f[m])) ELSE f[n]]
             h == [n \in 0..(m + 1) |-> IF n = 0 THEN {<< >>} ELSE Seq(Commands(g[n - 1]))]
  <2>2. \A n \in 0..m : f[n] = IF n = 0 THEN {<< >>} ELSE Seq(Commands(f[n - 1]))
    BY <2>1
  <2>3. \A n \in 0..(m + 1) : g[n] = h[n]
    <3> TAKE n \in 0..(m + 1)
    <3>1. CASE n = m + 1
      <4>1. n # 0 /\ n - 1 = m /\ m \in 0..(m + 1) /\ m # m + 1
        BY <2>0, <3>1
      <4>2. g[n - 1] = f[m] /\ g[n] = Seq(Commands(f[m]))
        BY <3>1, <4>1
      <4>3. QED
        BY <4>1, <4>2
    <3>2. CASE n = 0
      <4>1. n \in 0..m /\ n # m + 1
        BY <2>0, <3>2
      <4>2. QED
        BY <2>2, <3>2, <4>1
    <3>3. CASE n \in 1..m
      <4>1. n \in 0..m /\ n # m + 1 /\ n # 0 /\ n - 1 \in 0..(m + 1) /\ n - 1 # m + 1
        BY <2>0, <3>3
      <4>2. QED
        BY <2>2, <4>1
    <3>4. QED
      BY <2>0, <3>1, <3>2, <3>3
  <2>4. g = h
    BY <2>3
  <2>5. To(g, m + 1)
    BY <2>4
  <2> HIDE DEF To
  <2>6. QED
    BY <2>0, <2>5
<1>3. Nesting \in P
  <2> HIDE DEF P
  <2>1. Nesting \in 0..Nesting
    BY <1>0
  <2>2. 0..Nesting \subseteq P
    BY <1>0, <1>1, <1>2, UpTo
  <2>3. QED
    BY <2>1, <2>2
<1>4. To(Nested, Nesting)
  <2>1. \E f : To(f, Nesting)
    BY <1>3
  <2>2. QED
    BY <2>1 DEF Nested
<1>5. \A n \in 0..Nesting : Nested[n] = IF n = 0 THEN {<< >>} ELSE Seq(Commands(Nested[n - 1]))
  BY <1>4
<1>6. QED
  BY <1>0, <1>5 DEF Script, Command

LEMMA ScriptIs ==
  ASSUME NEW d \in 0..Nesting, NEW s \in Script(d)
  PROVE  IsSequence(s) /\ \A c \in ToSet(s) : d - 1 \in 0..Nesting /\ c \in Command(d - 1)
<1>0. Nesting \in Nat
  BY NestingAssumption
<1>1. CASE d = 0
  BY <1>1, NestedIs, EmptySequence
<1>2. CASE d \in 1..Nesting
  BY <1>0, <1>2, NestedIs, SequenceIs
<1>3. QED
  BY <1>0, <1>1, <1>2

\* A command or the tail of one, whose words nest at most d deep.
HasCommandWords(c, d) ==
  /\ IsSequence(c) /\ Len(c) \in Nat \ {0} /\ DOMAIN c = 1..Len(c)
  /\ \A i \in DOMAIN c : /\ c[i] \in ToSet(c) /\ c[i].kind \in {"bare", "braced", "quoted"}
                          /\ c[i].script \in Script(d) /\ c[i].subst \in Script(d)

LEMMA CommandIs ==
  ASSUME NEW d \in 0..Nesting, NEW c \in Command(d)
  PROVE  HasCommandWords(c, d)
<1>1. c \in Seq(Words(Script(d))) /\ c # << >>
  BY DEF Command, Commands, Script
<1>2. IsSequence(c)
  BY <1>1, SequenceIs
<1>3. Len(c) \in Nat \ {0} /\ DOMAIN c = 1..Len(c) /\ \A i \in DOMAIN c : c[i] \in Words(Script(d))
  BY <1>1
<1>4. \A i \in DOMAIN c : c[i].kind \in {"bare", "braced", "quoted"} /\ c[i].script \in Script(d) /\ c[i].subst \in Script(d)
  BY <1>3 DEF Words
<1>5. QED
  BY <1>2, <1>3, <1>4 DEF HasCommandWords, ToSet

\* What is left of a command without its first word.
RestIs(c, rest) == ToSet(rest) = {c[i] : i \in 2..Len(c)}

LEMMA TailIs ==
  ASSUME NEW d, NEW c, HasCommandWords(c, d), Len(c) > 1
  PROVE  /\ HasCommandWords(Tail(c), d) /\ Len(Tail(c)) = Len(c) - 1
         /\ \A i \in 1..(Len(c) - 1) : Tail(c)[i] = c[i + 1]
         /\ RestIs(c, Tail(c))
<1> DEFINE t == Tail(c)
<1>1. c \in Seq(ToSet(c)) /\ Len(c) \in Nat
  BY DEF HasCommandWords, IsSequence
<1>2. t \in Seq(ToSet(c)) /\ Len(t) = Len(c) - 1 /\ DOMAIN t = 1..Len(t) /\ \A i \in 1..Len(t) : t[i] = c[i + 1]
  BY <1>1
<1> HIDE DEF t
<1>3. IsSequence(t)
  BY <1>2, SequenceIs
<1>4. \A i \in DOMAIN t : i + 1 \in DOMAIN c /\ t[i] \in ToSet(t)
  <2>1. DOMAIN c = 1..Len(c)
    BY DEF HasCommandWords
  <2>2. \A i \in DOMAIN t : t[i] \in ToSet(t)
    BY DEF ToSet
  <2>3. QED
    BY <1>1, <1>2, <2>1, <2>2
<1>5. HasCommandWords(t, d)
  BY <1>1, <1>2, <1>3, <1>4 DEF HasCommandWords
<1>6. ToSet(t) = {c[i] : i \in 2..Len(c)}
  <2>1. \A i \in 2..Len(c) : i - 1 \in DOMAIN t /\ i - 1 + 1 = i
    BY <1>1, <1>2
  <2>2. \A i \in 2..Len(c) : c[i] = t[i - 1]
    BY <1>2, <2>1
  <2>3. \A i \in DOMAIN t : i + 1 \in 2..Len(c)
    BY <1>1, <1>2
  <2>4. ToSet(t) = {t[i] : i \in DOMAIN t}
    BY DEF ToSet
  <2>5. \A i \in DOMAIN t : t[i] \in {c[j] : j \in 2..Len(c)}
    BY <1>2, <2>3
  <2>6. \A i \in 2..Len(c) : c[i] \in {t[j] : j \in DOMAIN t}
    BY <2>1, <2>2
  <2>7. QED
    BY <2>4, <2>5, <2>6
<1>7. RestIs(c, t)
  BY <1>6 DEF RestIs
<1>8. QED
  BY <1>2, <1>5, <1>7 DEF t

\* A command with a name has no other.
LEMMA HeadIs ==
  ASSUME NEW c, NEW head, isCmd(c, head)
  PROVE  /\ c # << >> /\ isLiteralName(c[1]) /\ c[1].kind = "bare"
         /\ \A other : isCmd(c, other) <=> other = head
         /\ \A heads : IsOneOf(c, heads) <=> head \in heads
         /\ \A texts : IsKeyword(c[1], texts) <=> head \in texts
         /\ \A other : ~IsItcl(c, other)
<1>1. c # << >> /\ isLiteralName(c[1]) /\ c[1].text = <<head>> /\ c[1].kind = "bare"
  BY DEF isCmd, isLiteralName
<1>2. \A other : <<other>> = <<head>> <=> other = head
  OBVIOUS
<1>3. \A other : isCmd(c, other) <=> other = head
  BY <1>1, <1>2 DEF isCmd
<1>4. \A other : ~IsItcl(c, other)
  <2> SUFFICES ASSUME NEW other PROVE <<head>> # <<"itcl", other>> /\ <<head>> # <<"", "itcl", other>>
    BY <1>1 DEF IsItcl
  <2>1. Len(<<head>>) = 1 /\ Len(<<"itcl", other>>) = 2 /\ Len(<<"", "itcl", other>>) = 3
    OBVIOUS
  <2>2. QED
    BY <2>1
<1>5. \A texts : IsKeyword(c[1], texts) <=> head \in texts
  BY <1>1, <1>2 DEF IsKeyword
<1>6. \A heads : IsOneOf(c, heads) <=> head \in heads
  BY <1>3 DEF IsOneOf
<1>7. QED
  BY <1>1, <1>3, <1>4, <1>5, <1>6

\* So has one of the commands of itcl.
LEMMA ItclIs ==
  ASSUME NEW c, NEW head, IsItcl(c, head)
  PROVE  /\ isLiteralName(c[1]) /\ c[1].kind = "bare"
         /\ \A other : ~isCmd(c, other)
         /\ \A heads : ~IsOneOf(c, heads)
         /\ \A texts : ~IsKeyword(c[1], texts)
         /\ \A other : IsItcl(c, other) <=> other = head
<1>1. isLiteralName(c[1]) /\ c[1].kind = "bare" /\ c[1].text \in {<<"itcl", head>>, <<"", "itcl", head>>}
  BY DEF IsItcl, isLiteralName
<1>2. \A other : <<other>> # <<"itcl", head>> /\ <<other>> # <<"", "itcl", head>>
  <2> TAKE other
  <2>1. Len(<<other>>) = 1 /\ Len(<<"itcl", head>>) = 2 /\ Len(<<"", "itcl", head>>) = 3
    OBVIOUS
  <2>2. QED
    BY <2>1
<1>3. \A other : /\ <<"itcl", head>> = <<"itcl", other>> <=> other = head
                 /\ <<"", "itcl", head>> = <<"", "itcl", other>> <=> other = head
                 /\ <<"itcl", head>> # <<"", "itcl", other>> /\ <<"", "itcl", head>> # <<"itcl", other>>
  <2> TAKE other
  <2>1. Len(<<"itcl", head>>) = 2 /\ Len(<<"", "itcl", head>>) = 3 /\ <<"itcl", head>>[2] = head /\ <<"", "itcl", head>>[3] = head
        /\ Len(<<"itcl", other>>) = 2 /\ Len(<<"", "itcl", other>>) = 3 /\ <<"itcl", other>>[2] = other /\ <<"", "itcl", other>>[3] = other
    OBVIOUS
  <2>2. QED
    BY <2>1
<1>4. \A other : ~isCmd(c, other)
  BY <1>1, <1>2 DEF isCmd
<1>5. \A texts : ~IsKeyword(c[1], texts)
  BY <1>1, <1>2 DEF IsKeyword
<1>6. \A heads : ~IsOneOf(c, heads)
  BY <1>4 DEF IsOneOf
<1>7. \A other : IsItcl(c, other) <=> other = head
  <2> TAKE other
  <2> DEFINE a == <<"itcl", head>>
             b == <<"", "itcl", head>>
             x == <<"itcl", other>>
             y == <<"", "itcl", other>>
  <2>1. (a = x <=> other = head) /\ (b = y <=> other = head) /\ a # y /\ b # x
    BY <1>3
  <2>2. c[1].text \in {a, b} /\ isLiteralName(c[1])
    BY <1>1
  <2>3. IsItcl(c, other) <=> isLiteralName(c[1]) /\ c[1].text \in {x, y}
    BY DEF IsItcl
  <2> HIDE DEF a, b, x, y
  <2>4. QED
    BY <2>1, <2>2, <2>3
<1>8. QED
  BY <1>1, <1>4, <1>5, <1>6, <1>7

----------------------------------------------------------------------------
(* The bodies of a command.                                                *)

LastBody(c) == Where(Braced(c, Len(c)), <<c[Len(c)]>>)
IfBodyAt(c) == {i \in DOMAIN c : i > 1 /\ Braced(c, i) /\ ~IsCondition(c, i)}
TryBodyAt(c) == {i \in DOMAIN c : /\ Braced(c, i)
                                  /\ \/ i = 2
                                     \/ i > 5 /\ IsKeyword(c[i - 3], {"on", "trap"})
                                     \/ i > 3 /\ IsKeyword(c[i - 1], {"finally"})}
ForBodyAt(c) == {i \in DOMAIN c : i \in {2, 4, 5} /\ Braced(c, i)}

\* What the head of a command says of its script bodies.
LEMMA ScriptBodiesBy ==
  ASSUME NEW c
  PROVE  /\ isCmd(c, "dict") => scriptBodies(c) = Where(Len(c) > 1 /\ IsKeyword(c[2], {"for", "map"}), LastBody(c))
         /\ isCmd(c, "catch") => scriptBodies(c) = Where(Braced(c, 2), <<c[2]>>)
         /\ isCmd(c, "for") => scriptBodies(c) = TakenAt(c, ForBodyAt(c))
         /\ isCmd(c, "if") => scriptBodies(c) = TakenAt(c, IfBodyAt(c))
         /\ isCmd(c, "try") => scriptBodies(c) = TakenAt(c, TryBodyAt(c))
         /\ ~IsOneOf(c, {"dict", "catch", "for", "if", "try"}) =>
              scriptBodies(c) = Where(c[1].kind = "bare" /\ ~IsKeyword(c[1], dataBraceCommands), LastBody(c))
<1>1. ifBodies(c) = TakenAt(c, IfBodyAt(c))
  BY DEF ifBodies, TakenAt, IfBodyAt, WordsAt
<1>2. tryBodies(c) = TakenAt(c, TryBodyAt(c))
  BY DEF tryBodies, TakenAt, TryBodyAt, WordsAt
<1> DEFINE T(at) == TakenAt(c, at)
<1>3. WordsAt(c, LAMBDA i : i \in {2, 4, 5} /\ Braced(c, i)) = T(ForBodyAt(c))
  BY DEF TakenAt, ForBodyAt, WordsAt
<1>4. \A head : isCmd(c, head) => /\ c[1].kind = "bare"
                                  /\ \A other : isCmd(c, other) <=> other = head
                                  /\ \A heads : IsOneOf(c, heads) <=> head \in heads
  BY HeadIs
<1>6. isCmd(c, "dict") => scriptBodies(c) = Where(Len(c) > 1 /\ IsKeyword(c[2], {"for", "map"}), LastBody(c))
  BY <1>4 DEF scriptBodies, LastBody
<1>7. isCmd(c, "catch") => scriptBodies(c) = Where(Braced(c, 2), <<c[2]>>)
  BY <1>4 DEF scriptBodies
<1>8. isCmd(c, "for") => scriptBodies(c) = T(ForBodyAt(c))
  BY <1>3, <1>4 DEF scriptBodies
<1>9. isCmd(c, "if") => scriptBodies(c) = T(IfBodyAt(c))
  BY <1>1, <1>4 DEF scriptBodies
<1>10. isCmd(c, "try") => scriptBodies(c) = T(TryBodyAt(c))
  BY <1>2, <1>4 DEF scriptBodies
<1>11. ~IsOneOf(c, {"dict", "catch", "for", "if", "try"}) =>
         scriptBodies(c) = Where(c[1].kind = "bare" /\ ~IsKeyword(c[1], dataBraceCommands), LastBody(c))
  BY DEF scriptBodies, LastBody, IsOneOf
<1>12. QED
  BY <1>6, <1>7, <1>8, <1>9, <1>10, <1>11

\* They are words of the command.
LEMMA ScriptBodiesAre ==
  ASSUME NEW d, NEW c, HasCommandWords(c, d)
  PROVE  IsSequence(scriptBodies(c)) /\ ToSet(scriptBodies(c)) \subseteq ToSet(c)
<1> DEFINE Fine(s) == IsSequence(s) /\ ToSet(s) \subseteq ToSet(c)
<1>1. IsSequence(c) /\ Len(c) \in DOMAIN c /\ \A i \in DOMAIN c : c[i] \in ToSet(c)
  BY DEF HasCommandWords
<1>2. Fine(<< >>) /\ \A i \in DOMAIN c : Fine(<<c[i]>>)
  BY <1>1, EmptySequence, OneElement
<1>3. \A condition, s : Fine(s) => Fine(Where(condition, s))
  BY <1>2 DEF Where
<1>4. \A at \in SUBSET DOMAIN c : Fine(TakenAt(c, at))
  <2> TAKE at \in SUBSET DOMAIN c
  <2>1. ToSet(TakenAt(c, at)) = {c[i] : i \in at} /\ IsSequence(TakenAt(c, at))
    BY <1>1, Taken
  <2>2. QED
    BY <1>1, <2>1
<1>5. Fine(LastBody(c)) /\ Fine(Where(Braced(c, 2), <<c[2]>>))
  BY <1>1, <1>2, <1>3 DEF LastBody, Where, Braced
<1> HIDE DEF Fine
<1>6. ForBodyAt(c) \in SUBSET DOMAIN c /\ IfBodyAt(c) \in SUBSET DOMAIN c /\ TryBodyAt(c) \in SUBSET DOMAIN c
  BY DEF ForBodyAt, IfBodyAt, TryBodyAt
<1>7. Fine(TakenAt(c, ForBodyAt(c))) /\ Fine(TakenAt(c, IfBodyAt(c))) /\ Fine(TakenAt(c, TryBodyAt(c)))
  BY <1>4, <1>6
<1>8. /\ Fine(Where(Len(c) > 1 /\ IsKeyword(c[2], {"for", "map"}), LastBody(c)))
      /\ Fine(Where(c[1].kind = "bare" /\ ~IsKeyword(c[1], dataBraceCommands), LastBody(c)))
  BY <1>3, <1>5
<1>9. Fine(scriptBodies(c))
  <2>2. CASE isCmd(c, "dict")
    BY <1>8, <2>2, ScriptBodiesBy
  <2>3. CASE isCmd(c, "catch")
    BY <1>5, <2>3, ScriptBodiesBy
  <2>4. CASE isCmd(c, "for") \/ isCmd(c, "if") \/ isCmd(c, "try")
    BY <1>7, <2>4, ScriptBodiesBy
  <2>5. CASE ~IsOneOf(c, {"dict", "catch", "for", "if", "try"})
    BY <1>8, <2>5, ScriptBodiesBy
  <2>6. QED
    BY <2>2, <2>3, <2>4, <2>5 DEF IsOneOf
<1>10. QED
  BY <1>9 DEF Fine

LEMMA DecoratedIs ==
  ASSUME NEW d, NEW w, HasCommandWords(w, d)
  PROVE  decoratedProcDef(w) = 0 \/ decoratedProcDef(w) \in 2..Len(w) - 3
<1> DEFINE at == {i \in 2..Len(w) - 3 : /\ IsKeyword(w[i], {"proc"})
                                        /\ isLiteralName(w[i + 1]) /\ Braced(w, i + 3)}
<1>1. at \in SUBSET Nat /\ at \subseteq 2..Len(w) - 3
  BY DEF HasCommandWords
<1>2. CASE at = {}
  BY <1>2 DEF decoratedProcDef
<1>3. CASE at # {}
  <2> HIDE DEF at
  <2>0. IsWellFoundedOn(OpToRel(<, Nat), Nat) /\ at \subseteq Nat
    BY <1>1, NatLessThanWellFounded
  <2>1. PICK k \in at : \A j \in at : ~(<<j, k>> \in OpToRel(<, Nat))
    BY <1>3, <2>0, WFMin
  <2> USE DEF at
  <2>2. \A j \in at : k <= j
    <3>1. \A j \in at : j \in Nat /\ k \in Nat
      BY <1>1
    <3> HIDE DEF at
    <3>2. \A j \in at : ~(j < k)
      BY <2>1, <3>1 DEF OpToRel
    <3>3. QED
      BY <3>1, <3>2
  <2>3. (CHOOSE i \in at : \A j \in at : i <= j) \in at
    BY <2>2
  <2>4. QED
    BY <1>1, <2>3 DEF decoratedProcDef
<1>4. QED
  BY <1>2, <1>3

Ends(w) == w[Len(w)].kind = "braced"
Known(w, i, p) == <<Entering(w[i], p.ns, "proc", p.class)>>
Stay(w, p) == [i \in DOMAIN scriptBodies(w) |-> Staying(scriptBodies(w)[i], p)]
IsMember(w, p) == p.frame = "class" /\ IsOneOf(w, {"method", "constructor", "destructor"})

\* The commands whose bodies run elsewhere.
Enters(w, p) ==
  Ends(w) /\ \/ isCmd(w, "namespace") /\ Len(w) >= 4 /\ w[2].text = <<"eval">>
             \/ isCmd(w, "proc") /\ Len(w) >= 4
             \/ IsItcl(w, "class") /\ Len(w) >= 3
             \/ IsMember(w, p)
             \/ IsItcl(w, "body") /\ Len(w) >= 4

\* What the head of a command says of its bodies.
LEMMA BodiesBy ==
  ASSUME NEW w, NEW p
  PROVE  /\ Ends(w) =>
              /\ isCmd(w, "namespace") /\ Len(w) >= 4 /\ w[2].text = <<"eval">> =>
                   bodiesOf(w, p) = <<Entering(w[Len(w)], qualifyName(w[3].text, p.ns), "namespace", p.class)>>
              /\ isCmd(w, "proc") /\ Len(w) >= 4 => bodiesOf(w, p) = Known(w, Len(w), p)
              /\ IsItcl(w, "class") /\ Len(w) >= 3 =>
                   bodiesOf(w, p) = <<Entering(w[Len(w)], p.ns, "class", qualifyName(w[2].text, p.ns))>>
              /\ IsMember(w, p) =>
                   bodiesOf(w, p) = Where(Len(w) >= minMemberBodyWords(w),
                     Known(w, Len(w), p) \o Where(isCmd(w, "constructor") /\ Len(w) >= 4 /\ Braced(w, Len(w) - 1),
                                                  Known(w, Len(w) - 1, p)))
              /\ IsItcl(w, "body") /\ Len(w) >= 4 =>
                   bodiesOf(w, p) = Where(Front(w[2].text) \notin {<< >>, <<"">>},
                                          <<Entering(w[Len(w)], p.ns, "proc", ClassOfBody(w[2].text, p.ns))>>)
         /\ ~Enters(w, p) =>
              bodiesOf(w, p) = IF decoratedProcDef(w) > 0 THEN Known(w, decoratedProcDef(w) + 3, p) ELSE Stay(w, p)
<1>1. \A head : isCmd(w, head) => /\ \A other : isCmd(w, other) <=> other = head
                                  /\ \A heads : IsOneOf(w, heads) <=> head \in heads
                                  /\ \A other : ~IsItcl(w, other)
  BY HeadIs
<1>2. \A head : IsItcl(w, head) => /\ \A other : ~isCmd(w, other)
                                   /\ \A heads : ~IsOneOf(w, heads)
                                   /\ \A other : IsItcl(w, other) <=> other = head
  BY ItclIs
<1>3. isCmd(w, "namespace") => ~isCmd(w, "proc") /\ ~IsOneOf(w, {"method", "constructor", "destructor"}) /\ \A other : ~IsItcl(w, other)
  BY <1>1
<1>4. isCmd(w, "proc") => ~isCmd(w, "namespace") /\ ~IsOneOf(w, {"method", "constructor", "destructor"}) /\ \A other : ~IsItcl(w, other)
  BY <1>1
<1>5. IsOneOf(w, {"method", "constructor", "destructor"}) => ~isCmd(w, "namespace") /\ ~isCmd(w, "proc") /\ \A other : ~IsItcl(w, other)
  BY <1>1, <1>2 DEF IsOneOf
<1>6. IsItcl(w, "class") => /\ ~isCmd(w, "namespace") /\ ~isCmd(w, "proc") /\ ~IsItcl(w, "body")
                            /\ ~IsOneOf(w, {"method", "constructor", "destructor"})
  BY <1>2
<1>7. IsItcl(w, "body") => /\ ~isCmd(w, "namespace") /\ ~isCmd(w, "proc") /\ ~IsItcl(w, "class")
                           /\ ~IsOneOf(w, {"method", "constructor", "destructor"})
  BY <1>2
<1>8. Ends(w) /\ isCmd(w, "namespace") /\ Len(w) >= 4 /\ w[2].text = <<"eval">> =>
        bodiesOf(w, p) = <<Entering(w[Len(w)], qualifyName(w[3].text, p.ns), "namespace", p.class)>>
  BY <1>3 DEF bodiesOf, Ends
<1>9. Ends(w) /\ isCmd(w, "proc") /\ Len(w) >= 4 => bodiesOf(w, p) = Known(w, Len(w), p)
  BY <1>4 DEF bodiesOf, Ends, Known
<1>10. Ends(w) /\ IsItcl(w, "class") /\ Len(w) >= 3 =>
         bodiesOf(w, p) = <<Entering(w[Len(w)], p.ns, "class", qualifyName(w[2].text, p.ns))>>
  BY <1>6 DEF bodiesOf, Ends
<1>11. Ends(w) /\ IsMember(w, p) =>
         bodiesOf(w, p) = Where(Len(w) >= minMemberBodyWords(w),
           Known(w, Len(w), p) \o Where(isCmd(w, "constructor") /\ Len(w) >= 4 /\ Braced(w, Len(w) - 1),
                                        Known(w, Len(w) - 1, p)))
  BY <1>5 DEF bodiesOf, Ends, Known, IsMember
<1>12. Ends(w) /\ IsItcl(w, "body") /\ Len(w) >= 4 =>
         bodiesOf(w, p) = Where(Front(w[2].text) \notin {<< >>, <<"">>},
                                <<Entering(w[Len(w)], p.ns, "proc", ClassOfBody(w[2].text, p.ns))>>)
  BY <1>7 DEF bodiesOf, Ends
<1>13. ~Enters(w, p) =>
         bodiesOf(w, p) = IF decoratedProcDef(w) > 0 THEN Known(w, decoratedProcDef(w) + 3, p) ELSE Stay(w, p)
  BY DEF bodiesOf, Ends, Known, IsMember, Enters, Stay
<1>14. QED
  BY <1>8, <1>9, <1>10, <1>11, <1>12, <1>13

\* Bodies are words of the command.
FromWords(bodies, w) ==
  IsSequence(bodies) /\ \A b \in ToSet(bodies) : \E i \in DOMAIN w : b.script = w[i].script /\ b.at = w[i].at

LEMMA BodiesAre ==
  ASSUME NEW d, NEW w, HasCommandWords(w, d), NEW p
  PROVE  FromWords(bodiesOf(w, p), w)
<1>0. Len(w) \in Nat /\ DOMAIN w = 1..Len(w) /\ Len(w) \in DOMAIN w
  BY DEF HasCommandWords
<1>1. FromWords(<< >>, w)
  BY EmptySequence DEF FromWords
<1>2. \A i \in DOMAIN w : \A ns, frame, class : FromWords(<<Entering(w[i], ns, frame, class)>>, w)
  <2> SUFFICES ASSUME NEW i \in DOMAIN w, NEW ns, NEW frame, NEW class PROVE FromWords(<<Entering(w[i], ns, frame, class)>>, w)
    OBVIOUS
  <2> DEFINE b == Entering(w[i], ns, frame, class)
  <2>1. b.script = w[i].script /\ b.at = w[i].at
    BY DEF Entering
  <2> HIDE DEF b
  <2>2. FromWords(<<b>>, w)
    BY <2>1, OneElement DEF FromWords
  <2>3. QED
    BY <2>2 DEF b
<1>3. \A condition, s : FromWords(s, w) => FromWords(Where(condition, s), w)
  BY <1>1 DEF Where
<1>4. \A s, t : FromWords(s, w) /\ FromWords(t, w) => FromWords(s \o t, w)
  BY Joined DEF FromWords
<1>5. FromWords(Stay(w, p), w)
  <2> DEFINE s == scriptBodies(w)
             t == Stay(w, p)
  <2>1. IsSequence(s) /\ ToSet(s) \subseteq ToSet(w)
    BY ScriptBodiesAre
  <2>2. DOMAIN s = 1..Len(s) /\ Len(s) \in Nat
    BY <2>1 DEF IsSequence
  <2>3. t = [i \in 1..Len(s) |-> t[i]]
    BY <2>2 DEF Stay
  <2>4. IsSequence(t) /\ DOMAIN t = 1..Len(s)
    BY <2>2, <2>3, Listed
  <2>5. \A i \in DOMAIN t : t[i].script = s[i].script /\ t[i].at = s[i].at
    BY <2>2, <2>4 DEF Stay, Staying
  <2>6. \A i \in DOMAIN t : \E j \in DOMAIN w : s[i] = w[j]
    BY <2>1, <2>2, <2>4 DEF ToSet
  <2> HIDE DEF s, t
  <2>7. QED
    BY <2>4, <2>5, <2>6 DEF FromWords, ToSet, t
<1>6. \A i \in DOMAIN w : FromWords(Known(w, i, p), w)
  BY <1>2 DEF Known
<1>7. CASE ~Enters(w, p)
  <2>1. decoratedProcDef(w) > 0 => decoratedProcDef(w) + 3 \in DOMAIN w
    BY <1>0, DecoratedIs
  <2>2. decoratedProcDef(w) > 0 => FromWords(Known(w, decoratedProcDef(w) + 3, p), w)
    BY <1>6, <2>1
  <2>3. QED
    BY <1>5, <1>7, <2>2, BodiesBy
<1>8. CASE Enters(w, p) /\ isCmd(w, "namespace") /\ Len(w) >= 4 /\ w[2].text = <<"eval">>
  <2>1. bodiesOf(w, p) = <<Entering(w[Len(w)], qualifyName(w[3].text, p.ns), "namespace", p.class)>>
    BY <1>8, BodiesBy DEF Enters
  <2>2. QED
    BY <1>0, <1>2, <2>1
<1>9. CASE Enters(w, p) /\ isCmd(w, "proc") /\ Len(w) >= 4
  BY <1>0, <1>6, <1>9, BodiesBy DEF Enters
<1>10. CASE Enters(w, p) /\ IsItcl(w, "class") /\ Len(w) >= 3
  <2>1. bodiesOf(w, p) = <<Entering(w[Len(w)], p.ns, "class", qualifyName(w[2].text, p.ns))>>
    BY <1>10, BodiesBy DEF Enters
  <2>2. QED
    BY <1>0, <1>2, <2>1
<1>11. CASE Enters(w, p) /\ IsMember(w, p)
  <2> DEFINE init == Where(isCmd(w, "constructor") /\ Len(w) >= 4 /\ Braced(w, Len(w) - 1), Known(w, Len(w) - 1, p))
  <2>1. FromWords(init, w)
    <3>1. CASE Len(w) >= 4
      BY <1>0, <1>3, <1>6, <3>1
    <3>2. CASE ~(Len(w) >= 4)
      BY <1>1, <3>2 DEF Where
    <3>3. QED
      BY <3>1, <3>2
  <2> HIDE DEF init
  <2>2. FromWords(Where(Len(w) >= minMemberBodyWords(w), Known(w, Len(w), p) \o init), w)
    BY <1>0, <1>3, <1>4, <1>6, <2>1
  <2>3. QED
    BY <1>11, <2>2, BodiesBy DEF Enters, init
<1>12. CASE Enters(w, p) /\ IsItcl(w, "body") /\ Len(w) >= 4
  <2>1. FromWords(Where(Front(w[2].text) \notin {<< >>, <<"">>},
                        <<Entering(w[Len(w)], p.ns, "proc", ClassOfBody(w[2].text, p.ns))>>), w)
    BY <1>0, <1>2, <1>3
  <2>2. QED
    BY <1>12, <2>1, BodiesBy DEF Enters
<1>13. QED
  BY <1>7, <1>8, <1>9, <1>10, <1>11, <1>12 DEF Enters

LEMMA ChildBodiesAre ==
  ASSUME NEW d, NEW c, HasCommandWords(c, d), NEW p
  PROVE  /\ IsSequence(childBodies(c, p)) /\ \A b \in ToSet(childBodies(c, p)) : b.script \in Script(d)
         /\ FromWords(childBodies(c, p), c)
<1> DEFINE w == IF p.frame = "class" THEN memberWords(c) ELSE c
<1>1. HasCommandWords(w, d) /\ \A i \in DOMAIN w : \E j \in DOMAIN c : w[i] = c[j]
  <2>0. Len(c) \in Nat /\ DOMAIN c = 1..Len(c)
    BY DEF HasCommandWords
  <2>1. ASSUME Len(c) >= 2 PROVE HasCommandWords(Tail(c), d) /\ \A i \in DOMAIN Tail(c) : \E j \in DOMAIN c : Tail(c)[i] = c[j]
    <3>1. /\ HasCommandWords(Tail(c), d) /\ Len(Tail(c)) = Len(c) - 1 /\ DOMAIN Tail(c) = 1..Len(Tail(c))
          /\ \A i \in 1..(Len(c) - 1) : Tail(c)[i] = c[i + 1]
      BY <2>0, <2>1, TailIs DEF HasCommandWords
    <3>2. \A i \in DOMAIN Tail(c) : i + 1 \in DOMAIN c /\ Tail(c)[i] = c[i + 1]
      BY <2>0, <3>1
    <3>3. QED
      BY <3>1, <3>2
  <2>2. QED
    BY <2>1 DEF memberWords
<1>2. childBodies(c, p) = bodiesOf(w, p)
  BY DEF childBodies
<1> HIDE DEF w
<1>3. FromWords(bodiesOf(w, p), w)
  BY <1>1, BodiesAre
<1>4. \A i \in DOMAIN w : w[i].script \in Script(d)
  BY <1>1 DEF HasCommandWords
<1>5. FromWords(childBodies(c, p), c)
  BY <1>1, <1>2, <1>3 DEF FromWords
<1>6. QED
  BY <1>2, <1>3, <1>4, <1>5 DEF FromWords

----------------------------------------------------------------------------
(* The walk reaches the commands of every body of a command it reaches.    *)

Start(script) == Points(Staying([script |-> script, at |-> << >>], TopLevel), 0)
NewPoints(p, n) == EachOf(childBodies(p.cmd, p), LAMBDA b : Points(b, n))
NextPoints(points, n) == EachOf(points, LAMBDA p : <<p>> \o Where(p.depth = n - 1, NewPoints(p, n)))

\* The definition of the walk, depth by depth.
LEMMA WalkIs ==
  ASSUME NEW script
  PROVE  \E walk : /\ walkAll(script) = walk[Nesting] /\ walk[0] = Start(script)
                   /\ \A n \in 1..Nesting : walk[n] = NextPoints(walk[n - 1], n)
<1> DEFINE To(f, m) == f = [n \in 0..m |-> IF n = 0 THEN Start(script) ELSE NextPoints(f[n - 1], n)]
           P == {m \in Nat : \E f : To(f, m)}
<1>0. Nesting \in Nat
  BY NestingAssumption
<1>1. 0 \in P
  <2> DEFINE f == [n \in 0..0 |-> Start(script)]
             h == [n \in 0..0 |-> IF n = 0 THEN Start(script) ELSE NextPoints(f[n - 1], n)]
  <2>1. \A n \in 0..0 : n = 0
    OBVIOUS
  <2>2. f = h
    BY <2>1
  <2>3. To(f, 0)
    BY <2>2
  <2> HIDE DEF To
  <2>4. QED
    BY <2>3
<1>2. \A m \in 0..(Nesting - 1) : m \in P => m + 1 \in P
  <2> SUFFICES ASSUME NEW m \in 0..(Nesting - 1), m \in P PROVE m + 1 \in P
    OBVIOUS
  <2>0. m \in Nat
    BY <1>0
  <2>1. PICK f : To(f, m)
    OBVIOUS
  <2> DEFINE g == [n \in 0..(m + 1) |-> IF n = m + 1 THEN NextPoints(f[m], m + 1) ELSE f[n]]
             h == [n \in 0..(m + 1) |-> IF n = 0 THEN Start(script) ELSE NextPoints(g[n - 1], n)]
  <2>2. \A n \in 0..m : f[n] = IF n = 0 THEN Start(script) ELSE NextPoints(f[n - 1], n)
    BY <2>1
  <2>3. \A n \in 0..(m + 1) : g[n] = h[n]
    <3> TAKE n \in 0..(m + 1)
    <3>1. CASE n = m + 1
      <4>1. n # 0 /\ n - 1 = m /\ m \in 0..(m + 1) /\ m # m + 1
        BY <2>0, <3>1
      <4>2. g[n - 1] = f[m] /\ g[n] = NextPoints(f[m], n)
        BY <3>1, <4>1
      <4>3. QED
        BY <4>1, <4>2
    <3>2. CASE n = 0
      <4>1. n \in 0..m /\ n # m + 1
        BY <2>0, <3>2
      <4>2. QED
        BY <2>2, <3>2, <4>1
    <3>3. CASE n \in 1..m
      <4>1. n \in 0..m /\ n # m + 1 /\ n # 0 /\ n - 1 \in 0..(m + 1) /\ n - 1 # m + 1
        BY <2>0, <3>3
      <4>2. QED
        BY <2>2, <4>1
    <3>4. QED
      BY <2>0, <3>1, <3>2, <3>3
  <2>4. g = h
    BY <2>3
  <2>5. To(g, m + 1)
    BY <2>4
  <2> HIDE DEF To
  <2>6. QED
    BY <2>0, <2>5
<1>3. Nesting \in P
  <2> HIDE DEF P
  <2>1. Nesting \in 0..Nesting
    BY <1>0
  <2>2. 0..Nesting \subseteq P
    BY <1>0, <1>1, <1>2, UpTo
  <2>3. QED
    BY <2>1, <2>2
<1>4. \E f : To(f, Nesting)
  BY <1>3
<1> DEFINE walk == CHOOSE walk : walk = [n \in 0..Nesting |->
             IF n = 0 THEN Points(Staying([script |-> script, at |-> << >>], TopLevel), 0)
             ELSE EachOf(walk[n - 1], LAMBDA p :
                    <<p>> \o Where(p.depth = n - 1, EachOf(childBodies(p.cmd, p), LAMBDA b : Points(b, n))))]
<1>5. walkAll(script) = walk[Nesting]
  BY DEF walkAll
<1>6. walk = CHOOSE f : To(f, Nesting)
  BY DEF Start, NextPoints, NewPoints
<1> HIDE DEF walk
<1>7. To(walk, Nesting)
  BY <1>4, <1>6
<1>8. \A n \in 0..Nesting : walk[n] = IF n = 0 THEN Start(script) ELSE NextPoints(walk[n - 1], n)
  BY <1>7
<1>9. QED
  BY <1>0, <1>5, <1>8

\* A point is the command c in the context of a body.
Lies(p, c, b) == p.cmd = c /\ p.ns = b.ns /\ p.frame = b.frame /\ p.scope = b.scope /\ p.class = b.class
Reached(points, b) == \A c \in ToSet(b.script) : \E q \in points : Lies(q, c, b)
Comes(q, b) == q.cmd \in ToSet(b.script) /\ Lies(q, q.cmd, b)
IsPoint(p) == p.depth \in 0..(Nesting - 1) /\ p.cmd \in Command(Nesting - 1 - p.depth)

LEMMA PointsAre ==
  ASSUME NEW n \in 0..Nesting, NEW b, b.script \in Script(Nesting - n)
  PROVE  /\ IsSequence(Points(b, n)) /\ Reached(ToSet(Points(b, n)), b)
         /\ \A q \in ToSet(Points(b, n)) : IsPoint(q) /\ q.depth = n /\ Comes(q, b)
<1>0. Nesting \in Nat /\ Nesting - n \in 0..Nesting
  BY NestingAssumption
<1> DEFINE s == b.script
           t == Points(b, n)
<1>1. IsSequence(s) /\ \A c \in ToSet(s) : Nesting - n - 1 \in 0..Nesting /\ c \in Command(Nesting - n - 1)
  BY <1>0, ScriptIs
<1>2. DOMAIN s = 1..Len(s) /\ Len(s) \in Nat
  BY <1>1 DEF IsSequence
<1>3. t = [i \in 1..Len(s) |-> t[i]]
  BY <1>2 DEF Points
<1>4. IsSequence(t) /\ DOMAIN t = 1..Len(s)
  BY <1>2, <1>3, Listed
<1>5. \A i \in DOMAIN s : t[i] \in ToSet(t) /\ s[i] \in ToSet(s) /\ t[i].depth = n /\ Lies(t[i], s[i], b)
  <2> TAKE i \in DOMAIN s
  <2>1. t[i] = [cmd |-> s[i], ns |-> b.ns, frame |-> b.frame, scope |-> b.scope, class |-> b.class, depth |-> n]
    BY DEF Points
  <2>2. t[i].depth = n /\ Lies(t[i], s[i], b)
    BY <2>1 DEF Lies
  <2>3. QED
    BY <1>2, <1>4, <2>2 DEF ToSet
<1> HIDE DEF s, t
<1>6. Reached(ToSet(t), b)
  <2> SUFFICES ASSUME NEW c \in ToSet(s) PROVE \E q \in ToSet(t) : Lies(q, c, b)
    BY DEF Reached, s
  <2>1. PICK i \in DOMAIN s : c = s[i]
    BY DEF ToSet
  <2>2. QED
    BY <1>5, <2>1
<1>7. \A q \in ToSet(t) : IsPoint(q) /\ q.depth = n /\ Comes(q, b)
  <2> TAKE q \in ToSet(t)
  <2>1. PICK i \in DOMAIN s : q = t[i]
    BY <1>2, <1>4 DEF ToSet
  <2>2. q.depth = n /\ q.cmd = s[i] /\ s[i] \in ToSet(s)
    BY <1>5, <2>1 DEF Lies
  <2>3. n \in 0..(Nesting - 1) /\ Nesting - n - 1 = Nesting - 1 - n /\ s[i] \in Command(Nesting - 1 - n)
    BY <1>0, <1>1, <2>2
  <2>4. Comes(q, b)
    BY <1>5, <2>1, <2>2 DEF Comes, s
  <2>5. QED
    BY <2>2, <2>3, <2>4 DEF IsPoint
<1>8. QED
  BY <1>4, <1>6, <1>7 DEF t

LEMMA NewPointsAre ==
  ASSUME NEW n \in 1..Nesting, NEW p, IsPoint(p), p.depth = n - 1
  PROVE  /\ IsSequence(NewPoints(p, n))
         /\ \A q \in ToSet(NewPoints(p, n)) :
              IsPoint(q) /\ q.depth = n /\ \E b \in ToSet(childBodies(p.cmd, p)) : Comes(q, b)
         /\ \A b \in ToSet(childBodies(p.cmd, p)) : Reached(ToSet(NewPoints(p, n)), b)
<1>0. Nesting \in Nat /\ n \in 0..Nesting /\ Nesting - 1 - (n - 1) = Nesting - n /\ Nesting - n \in 0..Nesting
  BY NestingAssumption
<1> DEFINE s == childBodies(p.cmd, p)
           ss == [i \in DOMAIN s |-> Points(s[i], n)]
<1>1. p.cmd \in Command(Nesting - n)
  BY <1>0 DEF IsPoint
<1>2. HasCommandWords(p.cmd, Nesting - n)
  BY <1>0, <1>1, CommandIs
<1>3. IsSequence(s) /\ \A b \in ToSet(s) : b.script \in Script(Nesting - n)
  BY <1>2, ChildBodiesAre
<1>4. DOMAIN s = 1..Len(s) /\ Len(s) \in Nat
  BY <1>3 DEF IsSequence
<1>5. \A b \in ToSet(s) : /\ IsSequence(Points(b, n)) /\ Reached(ToSet(Points(b, n)), b)
                          /\ \A q \in ToSet(Points(b, n)) : IsPoint(q) /\ q.depth = n /\ Comes(q, b)
  BY <1>0, <1>3, PointsAre
<1>6. NewPoints(p, n) = FlattenSeq(ss)
  BY DEF NewPoints, EachOf
<1>7. \A i \in DOMAIN s : s[i] \in ToSet(s) /\ ss[i] = Points(s[i], n)
  BY DEF ToSet
<1>8. ss = [i \in 1..Len(s) |-> ss[i]]
  BY <1>4
<1> HIDE DEF s, ss
<1>9. IsSequence(ss) /\ DOMAIN ss = DOMAIN s
  BY <1>4, <1>8, Listed
<1>10. AllSequences(ss)
  BY <1>5, <1>7, <1>9 DEF AllSequences
<1>11. IsSequence(FlattenSeq(ss)) /\ ToSet(FlattenSeq(ss)) = UNION {ToSet(ss[i]) : i \in DOMAIN ss}
  BY <1>10, Flattened
<1>12. \A q \in ToSet(FlattenSeq(ss)) : IsPoint(q) /\ q.depth = n /\ \E b \in ToSet(s) : Comes(q, b)
  BY <1>5, <1>7, <1>9, <1>11
<1>13. \A b \in ToSet(s) : ToSet(Points(b, n)) \subseteq ToSet(FlattenSeq(ss))
  <2> TAKE b \in ToSet(s)
  <2>1. PICK i \in DOMAIN s : b = s[i]
    BY DEF ToSet
  <2>2. QED
    BY <1>7, <1>9, <1>11, <2>1
<1>14. \A b \in ToSet(s) : Reached(ToSet(FlattenSeq(ss)), b)
  BY <1>5, <1>13 DEF Reached
<1>15. QED
  BY <1>6, <1>11, <1>12, <1>14 DEF s

\* Every point of a walk is in the script or in a body of another point.
File(script) == Staying([script |-> script, at |-> << >>], TopLevel)
Held(points, script) ==
  \A q \in points : Comes(q, File(script)) \/ \E p \in points : \E b \in ToSet(childBodies(p.cmd, p)) : Comes(q, b)

\* The walk of a script as far as the depth n.
Walked(points, script, n) ==
  /\ IsSequence(points)
  /\ \A p \in ToSet(points) : IsPoint(p) /\ p.depth <= n
  /\ Reached(ToSet(points), File(script)) /\ Held(ToSet(points), script)
  /\ \A p \in ToSet(points) : p.depth < n => \A b \in ToSet(childBodies(p.cmd, p)) : Reached(ToSet(points), b)

LEMMA NextPointsAre ==
  ASSUME NEW n \in 1..Nesting, NEW s, NEW script, Walked(s, script, n - 1)
  PROVE  Walked(NextPoints(s, n), script, n)
<1>0. Nesting \in Nat /\ n \in Nat /\ n - 1 \in Nat
  BY NestingAssumption
<1> DEFINE New(p) == Where(p.depth = n - 1, NewPoints(p, n))
           ss == [i \in DOMAIN s |-> <<s[i]>> \o New(s[i])]
           all == FlattenSeq(ss)
<1>1. IsSequence(s) /\ \A p \in ToSet(s) : IsPoint(p) /\ p.depth <= n - 1
  BY DEF Walked
<1>2. DOMAIN s = 1..Len(s) /\ Len(s) \in Nat
  BY <1>1 DEF IsSequence
<1>3. \A p \in ToSet(s) : /\ IsSequence(New(p))
                          /\ \A q \in ToSet(New(p)) :
                               IsPoint(q) /\ q.depth = n /\ \E b \in ToSet(childBodies(p.cmd, p)) : Comes(q, b)
  BY <1>1, NewPointsAre, EmptySequence DEF Where
<1>4. \A p \in ToSet(s) : p.depth = n - 1 => \A b \in ToSet(childBodies(p.cmd, p)) : Reached(ToSet(New(p)), b)
  BY <1>1, NewPointsAre DEF Where
<1>5. NextPoints(s, n) = all
  BY DEF NextPoints, EachOf
<1>6. ss = [i \in 1..Len(s) |-> ss[i]] /\ \A i \in DOMAIN s : s[i] \in ToSet(s) /\ ss[i] = <<s[i]>> \o New(s[i])
  BY <1>2 DEF ToSet
<1> HIDE DEF ss, New
<1>7. IsSequence(ss) /\ DOMAIN ss = DOMAIN s
  BY <1>2, <1>6, Listed
<1>8. \A i \in DOMAIN s : IsSequence(ss[i]) /\ ToSet(ss[i]) = {s[i]} \cup ToSet(New(s[i]))
  <2> TAKE i \in DOMAIN s
  <2>1. IsSequence(<<s[i]>>) /\ ToSet(<<s[i]>>) = {s[i]} /\ IsSequence(New(s[i]))
    BY <1>3, <1>6, OneElement
  <2>2. /\ IsSequence(<<s[i]>> \o New(s[i]))
        /\ ToSet(<<s[i]>> \o New(s[i])) = ToSet(<<s[i]>>) \cup ToSet(New(s[i]))
    BY <2>1, Joined
  <2>3. QED
    BY <1>6, <2>1, <2>2
<1>9. AllSequences(ss)
  BY <1>7, <1>8 DEF AllSequences
<1>10. IsSequence(all) /\ ToSet(all) = UNION {ToSet(ss[i]) : i \in DOMAIN ss}
  BY <1>9, Flattened
<1> HIDE DEF all
<1>11. \A p \in ToSet(s) : p \in ToSet(all) /\ ToSet(New(p)) \subseteq ToSet(all)
  <2> TAKE p \in ToSet(s)
  <2>1. PICK i \in DOMAIN s : p = s[i]
    BY DEF ToSet
  <2>2. QED
    BY <1>7, <1>8, <1>10, <2>1
<1>12. \A q \in ToSet(all) : q \in ToSet(s) \/ \E p \in ToSet(s) : q \in ToSet(New(p))
  <2> TAKE q \in ToSet(all)
  <2>1. PICK i \in DOMAIN s : q \in ToSet(ss[i])
    BY <1>7, <1>10
  <2>2. QED
    BY <1>6, <1>8, <2>1
<1>13. \A p \in ToSet(all) : IsPoint(p) /\ p.depth <= n
  <2> TAKE p \in ToSet(all)
  <2>1. CASE p \in ToSet(s)
    <3>1. p.depth \in 0..(Nesting - 1) /\ p.depth <= n - 1 /\ IsPoint(p)
      BY <1>1, <2>1 DEF IsPoint
    <3>2. QED
      BY <1>0, <3>1
  <2>2. CASE IsPoint(p) /\ p.depth = n
    BY <1>0, <2>2
  <2>3. QED
    BY <1>3, <1>12, <2>1, <2>2
<1>14. \A b : Reached(ToSet(s), b) => Reached(ToSet(all), b)
  BY <1>11 DEF Reached
<1>15. \A p \in ToSet(all) : p.depth < n => \A b \in ToSet(childBodies(p.cmd, p)) : Reached(ToSet(all), b)
  <2> SUFFICES ASSUME NEW p \in ToSet(all), p.depth < n, NEW b \in ToSet(childBodies(p.cmd, p)) PROVE Reached(ToSet(all), b)
    OBVIOUS
  <2>1. p \in ToSet(s)
    BY <1>0, <1>3, <1>12
  <2>2. CASE p.depth < n - 1
    BY <1>14, <2>1, <2>2 DEF Walked
  <2>3. CASE p.depth = n - 1
    <3>1. Reached(ToSet(New(p)), b)
      BY <1>4, <2>1, <2>3
    <3>2. QED
      BY <1>11, <2>1, <3>1 DEF Reached
  <2>4. p.depth \in Nat
    BY <1>1, <2>1 DEF IsPoint
  <2>5. QED
    BY <1>0, <2>2, <2>3, <2>4
<1>16. Held(ToSet(all), script)
  <2>1. Held(ToSet(s), script)
    BY DEF Walked
  <2>2. QED
    BY <1>3, <1>11, <1>12, <2>1 DEF Held
<1>17. QED
  BY <1>5, <1>10, <1>13, <1>14, <1>15, <1>16 DEF Walked

\* The walk reaches the whole of every file, and nothing else.
LEMMA WalkReaches ==
  ASSUME NEW script \in Script(Nesting)
  PROVE  /\ IsSequence(walkAll(script))
         /\ \A p \in ToSet(walkAll(script)) : IsPoint(p)
         /\ Reached(ToSet(walkAll(script)), File(script)) /\ Held(ToSet(walkAll(script)), script)
         /\ \A p \in ToSet(walkAll(script)) : \A b \in ToSet(childBodies(p.cmd, p)) : Reached(ToSet(walkAll(script)), b)
<1>0. Nesting \in Nat
  BY NestingAssumption
<1>1. PICK walk : /\ walkAll(script) = walk[Nesting] /\ walk[0] = Start(script)
                  /\ \A n \in 1..Nesting : walk[n] = NextPoints(walk[n - 1], n)
  BY WalkIs
<1> DEFINE P == {n \in Nat : Walked(walk[n], script, n)}
<1>2. 0 \in P
  <2> DEFINE b == File(script)
  <2>1. b.script = script
    BY DEF Staying, File
  <2>2. 0 \in 0..Nesting /\ Nesting - 0 = Nesting
    BY <1>0
  <2>3. Start(script) = Points(b, 0)
    BY DEF Start, File
  <2> HIDE DEF b
  <2>4. /\ IsSequence(Points(b, 0)) /\ Reached(ToSet(Points(b, 0)), b)
        /\ \A q \in ToSet(Points(b, 0)) : IsPoint(q) /\ q.depth = 0 /\ Comes(q, b)
    BY <2>1, <2>2, PointsAre
  <2>5. Walked(Points(b, 0), script, 0)
    BY <2>4 DEF Walked, Held, b
  <2>6. QED
    BY <1>1, <2>3, <2>5
<1>3. \A n \in 0..(Nesting - 1) : n \in P => n + 1 \in P
  <2> SUFFICES ASSUME NEW n \in 0..(Nesting - 1), n \in P PROVE n + 1 \in P
    OBVIOUS
  <2> DEFINE j == n + 1
  <2>1. j \in 1..Nesting /\ j - 1 = n /\ j \in Nat
    BY <1>0
  <2> HIDE DEF j
  <2>2. Walked(walk[j - 1], script, j - 1)
    BY <2>1
  <2>3. Walked(NextPoints(walk[j - 1], j), script, j)
    BY <2>1, <2>2, NextPointsAre
  <2>4. QED
    BY <1>1, <2>1, <2>3 DEF j
<1>4. Walked(walkAll(script), script, Nesting)
  <2> HIDE DEF P
  <2>1. 0..Nesting \subseteq P
    BY <1>0, <1>2, <1>3, UpTo
  <2>2. Nesting \in P
    BY <1>0, <2>1
  <2>3. QED
    BY <1>1, <2>2 DEF P
<1>5. \A p \in ToSet(walkAll(script)) : IsPoint(p) /\ p.depth < Nesting
  <2>1. \A p : IsPoint(p) => p.depth < Nesting
    BY <1>0 DEF IsPoint
  <2>2. QED
    BY <1>4, <2>1 DEF Walked
<1>6. QED
  BY <1>4, <1>5 DEF Walked

----------------------------------------------------------------------------
(* The brackets reach the commands of every bracket and body they reach.   *)

LEMMA SubstitutingIs ==
  ASSUME NEW d, NEW c, HasCommandWords(c, d)
  PROVE  Substituting(c) = {c[i] : i \in {j \in DOMAIN c : j > 1 \/ ~isLiteralName(c[1])}}
<1>0. Len(c) \in Nat /\ DOMAIN c = 1..Len(c) /\ Len(c) >= 1 /\ c \in Seq(ToSet(c))
  BY DEF HasCommandWords, IsSequence
<1>1. CASE ~isLiteralName(c[1])
  BY <1>1 DEF Substituting, ToSet
<1>2. CASE isLiteralName(c[1]) /\ Len(c) = 1
  <2>1. DOMAIN Tail(c) = {}
    <3>1. DOMAIN Tail(c) = 1..(Len(c) - 1)
      BY <1>0
    <3>2. QED
      BY <1>0, <1>2, <3>1
  <2>2. Substituting(c) = {}
    BY <1>2, <2>1 DEF Substituting, ToSet
  <2>3. \A j \in DOMAIN c : ~(j > 1)
    BY <1>0, <1>2
  <2>4. QED
    BY <1>2, <2>2, <2>3
<1>3. CASE isLiteralName(c[1]) /\ Len(c) > 1
  <2>1. Substituting(c) = {c[i] : i \in 2..Len(c)}
    <3>1. Len(c) > 1
      BY <1>3
    <3>2. RestIs(c, Tail(c))
      BY <3>1, TailIs
    <3>3. ToSet(Tail(c)) = {c[i] : i \in 2..Len(c)}
      BY <3>2 DEF RestIs
    <3>4. QED
      BY <1>3, <3>3 DEF Substituting
  <2>2. {j \in DOMAIN c : j > 1 \/ ~isLiteralName(c[1])} = 2..Len(c)
    BY <1>0, <1>3
  <2>3. QED
    BY <2>1, <2>2
<1>4. QED
  BY <1>0, <1>1, <1>2, <1>3

LEMMA BelowAre ==
  ASSUME NEW d \in 0..Nesting, NEW c, HasCommandWords(c, d), NEW e \in Bracketed(c) \cup BodyCommands(c)
  PROVE  d - 1 \in 0..Nesting /\ e \in Command(d - 1)
<1>1. \A i \in DOMAIN c : c[i].subst \in Script(d)
  BY DEF HasCommandWords
<1>2. \A s \in Script(d) : e \in ToSet(s) => d - 1 \in 0..Nesting /\ e \in Command(d - 1)
  BY ScriptIs
<1>3. CASE e \in Bracketed(c)
  <2>1. PICK w \in Substituting(c) : e \in ToSet(w.subst)
    BY <1>3 DEF Bracketed
  <2>2. w.subst \in Script(d)
    BY <1>1, <2>1, SubstitutingIs
  <2>3. QED
    BY <1>2, <2>1, <2>2
<1>4. CASE e \in BodyCommands(c)
  <2>1. PICK b \in ToSet(childBodies(c, TopLevel)) : e \in ToSet(b.script)
    BY <1>4 DEF BodyCommands
  <2>2. b.script \in Script(d)
    BY <2>1, ChildBodiesAre
  <2>3. QED
    BY <1>2, <2>1, <2>2
<1>5. QED
  BY <1>3, <1>4

BelowThese(commands) == UNION {Bracketed(d) \cup BodyCommands(d) : d \in commands}

\* The definition of what is below a command, depth by depth.
LEMMA BelowIs ==
  ASSUME NEW c
  PROVE  \E below : /\ substRefs(c) = UNION {below[n] : n \in 0..Nesting} /\ below[0] = Bracketed(c)
                    /\ \A n \in 1..Nesting : below[n] = BelowThese(below[n - 1])
<1> DEFINE To(f, m) == f = [n \in 0..m |-> IF n = 0 THEN Bracketed(c) ELSE BelowThese(f[n - 1])]
           P == {m \in Nat : \E f : To(f, m)}
<1>0. Nesting \in Nat
  BY NestingAssumption
<1>1. 0 \in P
  <2> DEFINE f == [n \in 0..0 |-> Bracketed(c)]
             h == [n \in 0..0 |-> IF n = 0 THEN Bracketed(c) ELSE BelowThese(f[n - 1])]
  <2>1. \A n \in 0..0 : n = 0
    OBVIOUS
  <2>2. f = h
    BY <2>1
  <2>3. To(f, 0)
    BY <2>2
  <2> HIDE DEF To
  <2>4. QED
    BY <2>3
<1>2. \A m \in 0..(Nesting - 1) : m \in P => m + 1 \in P
  <2> SUFFICES ASSUME NEW m \in 0..(Nesting - 1), m \in P PROVE m + 1 \in P
    OBVIOUS
  <2>0. m \in Nat
    BY <1>0
  <2>1. PICK f : To(f, m)
    OBVIOUS
  <2> DEFINE g == [n \in 0..(m + 1) |-> IF n = m + 1 THEN BelowThese(f[m]) ELSE f[n]]
             h == [n \in 0..(m + 1) |-> IF n = 0 THEN Bracketed(c) ELSE BelowThese(g[n - 1])]
  <2>2. \A n \in 0..m : f[n] = IF n = 0 THEN Bracketed(c) ELSE BelowThese(f[n - 1])
    BY <2>1
  <2>3. \A n \in 0..(m + 1) : g[n] = h[n]
    <3> TAKE n \in 0..(m + 1)
    <3>1. CASE n = m + 1
      <4>1. n # 0 /\ n - 1 = m /\ m \in 0..(m + 1) /\ m # m + 1
        BY <2>0, <3>1
      <4>2. g[n - 1] = f[m] /\ g[n] = BelowThese(f[m])
        BY <3>1, <4>1
      <4>3. QED
        BY <4>1, <4>2
    <3>2. CASE n = 0
      <4>1. n \in 0..m /\ n # m + 1
        BY <2>0, <3>2
      <4>2. QED
        BY <2>2, <3>2, <4>1
    <3>3. CASE n \in 1..m
      <4>1. n \in 0..m /\ n # m + 1 /\ n # 0 /\ n - 1 \in 0..(m + 1) /\ n - 1 # m + 1
        BY <2>0, <3>3
      <4>2. QED
        BY <2>2, <4>1
    <3>4. QED
      BY <2>0, <3>1, <3>2, <3>3
  <2>4. g = h
    BY <2>3
  <2>5. To(g, m + 1)
    BY <2>4
  <2> HIDE DEF To
  <2>6. QED
    BY <2>0, <2>5
<1>3. Nesting \in P
  <2> HIDE DEF P
  <2>1. Nesting \in 0..Nesting
    BY <1>0
  <2>2. 0..Nesting \subseteq P
    BY <1>0, <1>1, <1>2, UpTo
  <2>3. QED
    BY <2>1, <2>2
<1>4. \E f : To(f, Nesting)
  BY <1>3
<1> DEFINE below == CHOOSE below : below = [n \in 0..Nesting |->
             IF n = 0 THEN Bracketed(c) ELSE UNION {Bracketed(d) \cup BodyCommands(d) : d \in below[n - 1]}]
<1>5. substRefs(c) = UNION {below[n] : n \in 0..Nesting}
  BY DEF substRefs
<1>6. below = CHOOSE f : To(f, Nesting)
  BY DEF BelowThese
<1> HIDE DEF below
<1>7. To(below, Nesting)
  BY <1>4, <1>6
<1>8. \A n \in 0..Nesting : below[n] = IF n = 0 THEN Bracketed(c) ELSE BelowThese(below[n - 1])
  BY <1>7
<1>9. QED
  BY <1>0, <1>5, <1>8

LEMMA SubstRefsAre ==
  ASSUME NEW d \in 0..Nesting, NEW c \in Command(d)
  PROVE  /\ Bracketed(c) \subseteq substRefs(c)
         /\ \A e \in substRefs(c) : /\ Bracketed(e) \subseteq substRefs(c) /\ BodyCommands(e) \subseteq substRefs(c)
                                    /\ \E k \in 0..Nesting : e \in Command(k)
                                    /\ e \in Bracketed(c) \/ \E x \in substRefs(c) : e \in Bracketed(x) \cup BodyCommands(x)
<1>0. Nesting \in Nat /\ d \in Nat
  BY NestingAssumption
<1>1. PICK below : /\ substRefs(c) = UNION {below[n] : n \in 0..Nesting} /\ below[0] = Bracketed(c)
                   /\ \A n \in 1..Nesting : below[n] = BelowThese(below[n - 1])
  BY BelowIs
<1> DEFINE P == {n \in Nat : n \in 0..Nesting => \A e \in below[n] : d - 1 - n \in 0..Nesting /\ e \in Command(d - 1 - n)}
<1>2. 0 \in P
  <2>1. HasCommandWords(c, d)
    BY CommandIs
  <2>2. \A e \in below[0] : d - 1 \in 0..Nesting /\ e \in Command(d - 1)
    BY <1>1, <2>1, BelowAre
  <2>3. d - 1 - 0 = d - 1
    BY <1>0
  <2>4. QED
    BY <2>2, <2>3
<1>3. \A n \in 0..(Nesting - 1) : n \in P => n + 1 \in P
  <2> SUFFICES ASSUME NEW n \in 0..(Nesting - 1), n \in P PROVE n + 1 \in P
    OBVIOUS
  <2> DEFINE j == n + 1
  <2>1. n \in 0..Nesting /\ j \in 1..Nesting /\ j - 1 = n /\ j \in Nat /\ d - 1 - n - 1 = d - 1 - j
    BY <1>0
  <2> HIDE DEF j
  <2>2. \A e \in below[n] : d - 1 - n \in 0..Nesting /\ e \in Command(d - 1 - n)
    BY <2>1
  <2>3. below[j] = BelowThese(below[n])
    BY <1>1, <2>1
  <2>4. ASSUME NEW e \in below[j]
        PROVE  d - 1 - j \in 0..Nesting /\ e \in Command(d - 1 - j)
    <3>1. PICK x \in below[n] : e \in Bracketed(x) \cup BodyCommands(x)
      BY <2>3 DEF BelowThese
    <3> DEFINE k == d - 1 - n
    <3>2. k \in 0..Nesting /\ x \in Command(k) /\ k - 1 = d - 1 - j
      BY <2>1, <2>2
    <3> HIDE DEF k
    <3>3. HasCommandWords(x, k)
      BY <3>2, CommandIs
    <3>4. k - 1 \in 0..Nesting /\ e \in Command(k - 1)
      BY <3>1, <3>2, <3>3, BelowAre
    <3>5. QED
      BY <3>2, <3>4
  <2>5. QED
    BY <2>1, <2>4 DEF j
<1>4. \A n \in 0..Nesting : \A e \in below[n] : d - 1 - n \in 0..Nesting /\ e \in Command(d - 1 - n)
  <2> HIDE DEF P
  <2>1. 0..Nesting \subseteq P
    BY <1>0, <1>2, <1>3, UpTo
  <2>2. QED
    BY <2>1 DEF P
<1>5. 0 \in 0..Nesting
  BY <1>0
<1>6. \A e \in substRefs(c) : Bracketed(e) \cup BodyCommands(e) \subseteq substRefs(c)
  <2> SUFFICES ASSUME NEW e \in substRefs(c) PROVE Bracketed(e) \cup BodyCommands(e) \subseteq substRefs(c)
    OBVIOUS
  <2>1. PICK n \in 0..Nesting : e \in below[n]
    BY <1>1
  <2>2. d - 1 - n \in 0..Nesting
    BY <1>4, <2>1
  <2> DEFINE j == n + 1
  <2>3. j \in 1..Nesting /\ j \in 0..Nesting /\ j - 1 = n
    BY <1>0, <2>2
  <2> HIDE DEF j
  <2>4. below[j] = BelowThese(below[n])
    BY <1>1, <2>3
  <2>5. QED
    BY <1>1, <2>1, <2>3, <2>4 DEF BelowThese
<1>7. ASSUME NEW e \in substRefs(c)
      PROVE  e \in Bracketed(c) \/ \E x \in substRefs(c) : e \in Bracketed(x) \cup BodyCommands(x)
  <2>1. PICK n \in 0..Nesting : e \in below[n]
    BY <1>1, <1>7
  <2>2. CASE n = 0
    BY <1>1, <2>1, <2>2
  <2>3. CASE n \in 1..Nesting
    <3>1. below[n] = BelowThese(below[n - 1]) /\ n - 1 \in 0..Nesting
      BY <1>0, <1>1, <2>3
    <3>2. QED
      BY <1>1, <2>1, <3>1 DEF BelowThese
  <2>4. QED
    BY <1>0, <2>2, <2>3
<1>8. QED
  BY <1>1, <1>4, <1>5, <1>6, <1>7

----------------------------------------------------------------------------
(* What a command substitutes and looks up, the walk takes from it.        *)

\* The braced words of an expression are among the expressions of the code.
LEMMA ExpressionsFound ==
  ASSUME NEW d, NEW c, HasCommandWords(c, d), NEW i \in Expressions(c), Braced(c, i)
  PROVE  i > 1 /\ c[i] \in ToSet(exprBodies(c))
<1>0. IsSequence(c) /\ DOMAIN c = 1..Len(c) /\ Len(c) \in Nat /\ i \in DOMAIN c
  BY DEF HasCommandWords, Braced
<1>1. \A head : isCmd(c, head) => /\ \A other : isCmd(c, other) <=> other = head
                                  /\ \A heads : IsOneOf(c, heads) <=> head \in heads
  BY HeadIs
<1>2. \A at \in SUBSET DOMAIN c : ToSet(TakenAt(c, at)) = {c[j] : j \in at}
  BY <1>0, Taken
<1>3. CASE isCmd(c, "expr")
  <2> DEFINE at == {j \in DOMAIN c : j > 1 /\ Braced(c, j)}
  <2>1. i > 1 /\ i \in at /\ at \in SUBSET DOMAIN c
    BY <1>0, <1>3 DEF Expressions
  <2>2. exprBodies(c) = TakenAt(c, at)
    BY <1>1, <1>3 DEF exprBodies, TakenAt, WordsAt
  <2> HIDE DEF at
  <2>3. QED
    BY <1>2, <2>1, <2>2
<1>4. CASE isCmd(c, "while")
  <2>1. i = 2
    BY <1>1, <1>4 DEF Expressions
  <2>2. exprBodies(c) = <<c[2]>>
    BY <1>1, <1>4, <2>1 DEF exprBodies, Where
  <2>3. QED
    BY <2>1, <2>2, OneElement
<1>5. CASE isCmd(c, "for")
  <2>1. i = 3
    BY <1>1, <1>5 DEF Expressions
  <2>2. exprBodies(c) = <<c[3]>>
    BY <1>1, <1>5, <2>1 DEF exprBodies, Where
  <2>3. QED
    BY <2>1, <2>2, OneElement
<1>6. CASE isCmd(c, "if")
  <2> DEFINE at == {j \in DOMAIN c : IsCondition(c, j)}
  <2>1. i \in 2..Len(c) /\ IsKeyword(c[i - 1], {"if", "elseif"})
    BY <1>1, <1>6 DEF Expressions
  <2>2. i > 1 /\ i \in at /\ at \in SUBSET DOMAIN c
    BY <1>0, <2>1 DEF IsCondition
  <2>3. exprBodies(c) = ifConditions(c)
    BY <1>1, <1>6 DEF exprBodies
  <2>4. ifConditions(c) = TakenAt(c, at)
    BY DEF ifConditions, TakenAt, WordsAt
  <2> HIDE DEF at
  <2>5. QED
    BY <1>2, <2>2, <2>3, <2>4
<1>7. CASE ~isCmd(c, "expr") /\ ~isCmd(c, "while") /\ ~isCmd(c, "for") /\ ~isCmd(c, "if")
  <2>1. Expressions(c) = {}
    BY <1>7 DEF Expressions
  <2>2. QED
    BY <2>1
<1>8. QED
  BY <1>3, <1>4, <1>5, <1>6, <1>7

\* A command that stands in brackets is one of those the code looks for.
LEMMA BracketsFound ==
  ASSUME NEW d \in 0..Nesting, NEW c, HasCommandWords(c, d), HasWords(c)
  PROVE  IsSequence(Substituted(c)) /\ ToSet(Substituted(c)) \subseteq Bracketed(c)
<1> DEFINE In(i) == c[i].kind # "braced" \/ i \in Expressions(c)
           ss == [i \in DOMAIN c |-> Where(In(i), c[i].subst)]
<1>0. Len(c) \in Nat /\ DOMAIN c = 1..Len(c)
  BY DEF HasCommandWords
<1>1. \A i \in DOMAIN c : c[i] \in ToSet(c) /\ IsSequence(c[i].subst)
  BY ScriptIs DEF HasCommandWords
<1>2. \A i \in DOMAIN c : isLiteralName(c[i]) => c[i].subst = << >>
  BY <1>1 DEF HasWords
<1>3. ss = [i \in 1..Len(c) |-> ss[i]] /\ \A i \in DOMAIN c : ss[i] = Where(In(i), c[i].subst)
  BY <1>0
<1>4. Substituted(c) = FlattenSeq(ss)
  BY DEF Substituted
<1> HIDE DEF ss
<1>5. IsSequence(ss) /\ DOMAIN ss = DOMAIN c
  BY <1>0, <1>3, Listed
<1>6. AllSequences(ss)
  BY <1>1, <1>3, <1>5, EmptySequence DEF AllSequences, Where
<1>7. IsSequence(FlattenSeq(ss)) /\ ToSet(FlattenSeq(ss)) = UNION {ToSet(ss[i]) : i \in DOMAIN ss}
  BY <1>6, Flattened
<1>8. \A i \in DOMAIN c : ToSet(ss[i]) \subseteq Bracketed(c)
  <2> SUFFICES ASSUME NEW i \in DOMAIN c, NEW e \in ToSet(ss[i]) PROVE e \in Bracketed(c)
    OBVIOUS
  <2>1. In(i) /\ e \in ToSet(c[i].subst)
    BY <1>3, EmptySequence DEF Where
  <2>2. i > 1 \/ ~isLiteralName(c[1])
    <3> SUFFICES ASSUME i = 1, isLiteralName(c[1]) PROVE FALSE
      BY <1>0
    <3>1. c[i].subst = << >>
      BY <1>2
    <3>2. QED
      BY <2>1, <3>1, EmptySequence
  <2>3. c[i] \in Substituting(c)
    BY <2>2, SubstitutingIs
  <2>4. c[i].kind # "braced" \/ c[i] \in ToSet(exprBodies(c))
    BY <2>1, ExpressionsFound DEF Braced
  <2>5. QED
    BY <2>1, <2>3, <2>4 DEF Bracketed
<1>9. QED
  BY <1>4, <1>5, <1>7, <1>8

\* A name that the interpreter looks up is a reference of its command.
LEMMA MentionedFound ==
  ASSUME NEW d, NEW c, HasCommandWords(c, d), HasWords(c)
  PROVE  Mentioned(c) \subseteq OwnRefs(c)
<1>0. DOMAIN c = 1..Len(c) /\ Len(c) \in Nat /\ Len(c) >= 1
  BY DEF HasCommandWords
<1>1. \A i \in DOMAIN c : c[i] \in ToSet(c)
  BY DEF HasCommandWords
<1>2. \A i \in DOMAIN c : isLiteralName(c[i]) => c[i].vars = << >>
  BY <1>1 DEF HasWords
<1>3. isLiteralName(c[1]) \/ c[1].dynamic
  BY DEF HasWords
<1> SUFFICES ASSUME NEW r \in Mentioned(c) PROVE r \in OwnRefs(c)
  OBVIOUS
<1>4. CASE r \in {[kind |-> "command", name |-> head.text, at |-> head.at] : head \in {w \in {c[1]} : ~w.dynamic}}
  BY <1>3, <1>4 DEF OwnRefs
<1>5. ASSUME NEW i \in DOMAIN c, c[i].kind # "braced",
             r \in {[kind |-> "variable", name |-> v, at |-> c[i].at] : v \in ToSet(c[i].vars)}
      PROVE  r \in OwnRefs(c)
  <2>1. i > 1 \/ ~isLiteralName(c[1])
    <3> SUFFICES ASSUME i = 1, isLiteralName(c[1]) PROVE FALSE
      BY <1>0
    <3>1. c[i].vars = << >>
      BY <1>2
    <3>2. QED
      BY <1>5, <3>1, EmptySequence
  <2>2. c[i] \in Substituting(c)
    BY <2>1, SubstitutingIs
  <2>3. QED
    BY <1>5, <2>2 DEF OwnRefs
<1> DEFINE Vars(i) == {[kind |-> "variable", name |-> v, at |-> c[i].at] : v \in ToSet(c[i].vars)}
           At == {j \in DOMAIN c : c[j].kind # "braced"}
           Heads == {[kind |-> "command", name |-> head.text, at |-> head.at] : head \in {w \in {c[1]} : ~w.dynamic}}
<1>6. Mentioned(c) = Heads \cup UNION {Vars(i) : i \in At}
  BY DEF Mentioned
<1>7. CASE r \in Heads
  BY <1>4, <1>7
<1>8. CASE r \in UNION {Vars(i) : i \in At}
  <2>1. PICK i \in At : r \in Vars(i)
    BY <1>8
  <2>2. QED
    BY <1>5, <2>1
<1> HIDE DEF Vars, At, Heads
<1>9. QED
  BY <1>6, <1>7, <1>8

----------------------------------------------------------------------------
(* What a command runs in its own context, the walk descends.              *)

\* Heads of commands that run words of theirs in the same context.
Controls == {"while", "foreach", "lmap", "with_lock", "dict", "catch", "for", "if", "try", "switch"}

LEMMA StayFound ==
  ASSUME NEW d, NEW c, HasCommandWords(c, d), NEW p, NEW x \in ToSet(scriptBodies(c)),
         ~Enters(c, p), decoratedProcDef(c) = 0
  PROVE  Staying(x, p) \in ToSet(bodiesOf(c, p))
<1> DEFINE s == scriptBodies(c)
<1>1. bodiesOf(c, p) = Stay(c, p)
  <2>1. bodiesOf(c, p) = IF decoratedProcDef(c) > 0 THEN Known(c, decoratedProcDef(c) + 3, p) ELSE Stay(c, p)
    BY BodiesBy
  <2>2. ~(decoratedProcDef(c) > 0)
    OBVIOUS
  <2>3. QED
    BY <2>1, <2>2
<1>2. PICK i \in DOMAIN s : x = s[i]
  BY DEF ToSet
<1>3. DOMAIN Stay(c, p) = DOMAIN s /\ Stay(c, p)[i] = Staying(s[i], p)
  BY DEF Stay
<1>4. QED
  BY <1>1, <1>2, <1>3 DEF ToSet

\* Such a command enters nothing and is no member.
LEMMA ControlsStay ==
  ASSUME NEW d, NEW c, HasCommandWords(c, d), HasWords(c), NEW p, NEW head \in Controls, isCmd(c, head)
  PROVE  childBodies(c, p) = bodiesOf(c, p) /\ ~Enters(c, p) /\ decoratedProcDef(c) = 0
<1>1. /\ \A other : isCmd(c, other) <=> other = head
      /\ \A heads : IsOneOf(c, heads) <=> head \in heads
      /\ \A texts : IsKeyword(c[1], texts) <=> head \in texts
      /\ \A other : ~IsItcl(c, other)
  BY HeadIs
<1>2. head \notin {"namespace", "proc", "CACHE_PROC", "method", "constructor", "destructor"} /\ head \notin Modifiers
  BY DEF Controls, Modifiers
<1>3. childBodies(c, p) = bodiesOf(c, p)
  BY <1>1, <1>2 DEF childBodies, memberWords
<1>4. ~Enters(c, p)
  BY <1>1, <1>2 DEF Enters, IsMember
<1>5. decoratedProcDef(c) > 0 => IsOneOf(c, {"CACHE_PROC"} \cup Modifiers)
  BY DEF HasWords
<1>6. decoratedProcDef(c) = 0
  BY <1>1, <1>2, <1>5, DecoratedIs
<1>7. QED
  BY <1>3, <1>4, <1>6

LEMMA ArmsAre ==
  ASSUME NEW c, NEW i \in Arms(c)
  PROVE  \/ IsOneOf(c, {"while", "foreach", "lmap", "with_lock"}) /\ i = Len(c)
         \/ isCmd(c, "dict") /\ IsKeyword(c[2], {"for", "map"}) /\ i = Len(c)
         \/ isCmd(c, "catch") /\ i = 2
         \/ isCmd(c, "for") /\ i \in {2, 4, 5}
         \/ isCmd(c, "if") /\ i \in 3..Len(c) /\ (i - 1 \in Expressions(c) \/ IsKeyword(c[i - 1], {"else"}))
         \/ isCmd(c, "try") /\ \/ i = 2
                               \/ i \in 3..Len(c) /\ IsKeyword(c[i - 1], {"finally"})
                               \/ i \in 6..Len(c) /\ IsKeyword(c[i - 3], {"on", "trap"})
<1>1. \A head : isCmd(c, head) => /\ \A other : isCmd(c, other) <=> other = head
                                  /\ \A heads : IsOneOf(c, heads) <=> head \in heads
  BY HeadIs
<1>2. CASE IsOneOf(c, {"while", "foreach", "lmap", "with_lock"})
  <2>1. ~isCmd(c, "dict") /\ ~isCmd(c, "catch") /\ ~isCmd(c, "for") /\ ~isCmd(c, "if") /\ ~isCmd(c, "try")
    BY <1>1, <1>2 DEF IsOneOf
  <2>2. QED
    BY <1>2, <2>1 DEF Arms
<1>3. CASE isCmd(c, "dict")
  BY <1>1, <1>3 DEF Arms
<1>4. CASE isCmd(c, "catch")
  BY <1>1, <1>4 DEF Arms
<1>5. CASE isCmd(c, "for")
  BY <1>1, <1>5 DEF Arms
<1>6. CASE isCmd(c, "if")
  BY <1>1, <1>6 DEF Arms
<1>7. CASE isCmd(c, "try")
  BY <1>1, <1>7 DEF Arms
<1>8. CASE /\ ~IsOneOf(c, {"while", "foreach", "lmap", "with_lock"}) /\ ~isCmd(c, "dict") /\ ~isCmd(c, "catch")
           /\ ~isCmd(c, "for") /\ ~isCmd(c, "if") /\ ~isCmd(c, "try")
  <2>1. Arms(c) = {}
    BY <1>8 DEF Arms
  <2>2. QED
    BY <2>1
<1>9. QED
  BY <1>2, <1>3, <1>4, <1>5, <1>6, <1>7, <1>8

LEMMA ArmFound ==
  ASSUME NEW d, NEW c, HasCommandWords(c, d), HasWords(c), NEW p, NEW i \in Arms(c)
  PROVE  i \in DOMAIN c /\ Staying(c[i], p) \in ToSet(childBodies(c, p))
<1>0. IsSequence(c) /\ DOMAIN c = 1..Len(c) /\ Len(c) \in Nat
  BY DEF HasCommandWords
<1>1. Braced(c, i)
  BY DEF HasWords
<1>2. i \in DOMAIN c
  BY <1>1 DEF Braced
<1>3. \A head : isCmd(c, head) => /\ c[1].kind = "bare"
                                  /\ \A other : isCmd(c, other) <=> other = head
                                  /\ \A heads : IsOneOf(c, heads) <=> head \in heads
                                  /\ \A texts : IsKeyword(c[1], texts) <=> head \in texts
  BY HeadIs
<1>4. \A at \in SUBSET DOMAIN c : ToSet(TakenAt(c, at)) = {c[j] : j \in at}
  BY <1>0, Taken
<1>5. i = Len(c) => c[i] \in ToSet(LastBody(c))
  BY <1>1, OneElement DEF LastBody, Where
<1>6. CASE IsOneOf(c, {"while", "foreach", "lmap", "with_lock"}) /\ i = Len(c)
  <2>1. PICK head \in {"while", "foreach", "lmap", "with_lock"} : isCmd(c, head)
    BY <1>6 DEF IsOneOf
  <2>2. /\ ~IsOneOf(c, {"dict", "catch", "for", "if", "try"}) /\ ~IsKeyword(c[1], dataBraceCommands) /\ c[1].kind = "bare"
        /\ head \in Controls
    BY <1>3, <2>1 DEF dataBraceCommands, Controls
  <2>3. scriptBodies(c) = LastBody(c)
    BY <2>2, ScriptBodiesBy DEF Where
  <2>4. c[i] \in ToSet(scriptBodies(c))
    BY <1>5, <1>6, <2>3
  <2>5. QED
    BY <1>2, <2>1, <2>2, <2>4, StayFound, ControlsStay
<1>7. CASE isCmd(c, "dict") /\ IsKeyword(c[2], {"for", "map"}) /\ i = Len(c)
  <2>1. Len(c) > 1
    BY <1>7 DEF HasWords
  <2>2. c[i] \in ToSet(scriptBodies(c))
    BY <1>5, <1>7, <2>1, ScriptBodiesBy DEF Where
  <2>3. "dict" \in Controls
    BY DEF Controls
  <2>4. QED
    BY <1>2, <1>7, <2>2, <2>3, StayFound, ControlsStay
<1>8. CASE isCmd(c, "catch") /\ i = 2
  <2>1. scriptBodies(c) = <<c[2]>>
    BY <1>1, <1>8, ScriptBodiesBy DEF Where
  <2>2. c[i] \in ToSet(scriptBodies(c))
    BY <1>8, <2>1, OneElement
  <2>3. "catch" \in Controls
    BY DEF Controls
  <2>4. QED
    BY <1>2, <1>8, <2>2, <2>3, StayFound, ControlsStay
<1>9. CASE isCmd(c, "for") /\ i \in {2, 4, 5}
  <2>1. i \in ForBodyAt(c) /\ ForBodyAt(c) \in SUBSET DOMAIN c
    BY <1>1, <1>2, <1>9 DEF ForBodyAt
  <2>2. scriptBodies(c) = TakenAt(c, ForBodyAt(c))
    BY <1>9, ScriptBodiesBy
  <2>3. c[i] \in ToSet(scriptBodies(c))
    BY <1>4, <2>1, <2>2
  <2>4. "for" \in Controls
    BY DEF Controls
  <2>5. QED
    BY <1>2, <1>9, <2>3, <2>4, StayFound, ControlsStay
<1>10. CASE isCmd(c, "if") /\ i \in 3..Len(c) /\ (i - 1 \in Expressions(c) \/ IsKeyword(c[i - 1], {"else"}))
  <2>1. \A j \in Expressions(c) : ~IsKeyword(c[j], {"if", "elseif"})
    BY <1>10 DEF HasWords
  <2>2. ~IsKeyword(c[i - 1], {"if", "elseif"})
    <3>1. CASE i - 1 \in Expressions(c)
      BY <2>1, <3>1
    <3>2. CASE IsKeyword(c[i - 1], {"else"})
      <4>1. c[i - 1].text = <<"else">>
        BY <3>2 DEF IsKeyword
      <4>2. <<"else">> # <<"if">> /\ <<"else">> # <<"elseif">>
        OBVIOUS
      <4>3. QED
        BY <4>1, <4>2 DEF IsKeyword
    <3>3. QED
      BY <1>10, <3>1, <3>2
  <2>3. i \in IfBodyAt(c) /\ IfBodyAt(c) \in SUBSET DOMAIN c
    BY <1>1, <1>2, <1>10, <2>2 DEF IfBodyAt, IsCondition
  <2>4. scriptBodies(c) = TakenAt(c, IfBodyAt(c))
    BY <1>10, ScriptBodiesBy
  <2>5. c[i] \in ToSet(scriptBodies(c))
    BY <1>4, <2>3, <2>4
  <2>6. "if" \in Controls
    BY DEF Controls
  <2>7. QED
    BY <1>2, <1>10, <2>5, <2>6, StayFound, ControlsStay
<1>11. CASE isCmd(c, "try") /\ \/ i = 2
                               \/ i \in 3..Len(c) /\ IsKeyword(c[i - 1], {"finally"})
                               \/ i \in 6..Len(c) /\ IsKeyword(c[i - 3], {"on", "trap"})
  <2>1. TryBodyAt(c) \in SUBSET DOMAIN c
    BY DEF TryBodyAt
  <2>2. i = 2 \/ (i > 5 /\ IsKeyword(c[i - 3], {"on", "trap"})) \/ (i > 3 /\ IsKeyword(c[i - 1], {"finally"}))
    <3>1. i = 3 => ~IsKeyword(c[i - 1], {"finally"})
      <4>1. 2 \in Arms(c)
        BY <1>3, <1>11 DEF Arms
      <4>2. c[2].kind = "braced"
        BY <4>1 DEF HasWords, Braced
      <4>3. QED
        BY <4>2 DEF IsKeyword, isLiteralName
    <3>2. QED
      BY <1>0, <1>11, <3>1
  <2>3. i \in TryBodyAt(c)
    BY <1>1, <1>2, <2>2 DEF TryBodyAt
  <2>4. scriptBodies(c) = TakenAt(c, TryBodyAt(c))
    BY <1>11, ScriptBodiesBy
  <2>5. c[i] \in ToSet(scriptBodies(c))
    BY <1>4, <2>1, <2>3, <2>4
  <2>6. "try" \in Controls
    BY DEF Controls
  <2>7. QED
    BY <1>2, <1>11, <2>5, <2>6, StayFound, ControlsStay
<1>12. QED
  BY <1>6, <1>7, <1>8, <1>9, <1>10, <1>11, ArmsAre

LEMMA SwitchFound ==
  ASSUME NEW d, NEW c, HasCommandWords(c, d), HasWords(c), NEW p, isCmd(c, "switch")
  PROVE  Braced(c, Len(c)) /\ Staying(c[Len(c)], p) \in ToSet(childBodies(c, p))
<1>1. Braced(c, Len(c))
  BY DEF HasWords
<1>2. \A heads : IsOneOf(c, heads) <=> "switch" \in heads
  BY HeadIs
<1>3. c[1].kind = "bare" /\ ~IsKeyword(c[1], dataBraceCommands) /\ "switch" \in Controls
  BY HeadIs DEF dataBraceCommands, Controls
<1>4. ~IsOneOf(c, {"dict", "catch", "for", "if", "try"})
  BY <1>2
<1>5. scriptBodies(c) = <<c[Len(c)]>>
  BY <1>1, <1>3, <1>4, ScriptBodiesBy DEF Where, LastBody
<1>6. c[Len(c)] \in ToSet(scriptBodies(c))
  BY <1>5, OneElement
<1>7. childBodies(c, p) = bodiesOf(c, p) /\ ~Enters(c, p) /\ decoratedProcDef(c) = 0
  BY <1>3, ControlsStay
<1>8. QED
  BY <1>1, <1>6, <1>7, StayFound

\* The code reads an arm as a command, and its body is the last word of that.
LEMMA SwitchArmFound ==
  ASSUME NEW d, NEW arm, HasCommandWords(arm, d), IsArm(arm), NEW p
  PROVE  Staying(arm[2], p) \in ToSet(childBodies(arm, p))
<1> DEFINE heads == dataBraceCommands \cup {"method", "constructor", "destructor", "dict", "catch", "for", "if", "try"}
<1>1. Len(arm) = 2 /\ Braced(arm, 2) /\ arm[2].kind = "braced" /\ arm[1].kind = "bare" /\ ~IsKeyword(arm[1], heads)
  BY DEF IsArm, Braced
<1>2. \A head \in heads : ~isCmd(arm, head)
  BY <1>1 DEF isCmd, IsKeyword
<1>3. memberWords(arm) = arm
  BY <1>1 DEF memberWords, IsKeyword, isLiteralName
<1>4. childBodies(arm, p) = bodiesOf(arm, p)
  BY <1>3 DEF childBodies
<1>5. ~Enters(arm, p)
  BY <1>1, <1>2 DEF Enters, IsMember, IsOneOf
<1>6. decoratedProcDef(arm) = 0
  <2>1. 2..Len(arm) - 3 = {}
    BY <1>1
  <2>2. QED
    BY <2>1, DecoratedIs
<1>7. ~IsOneOf(arm, {"dict", "catch", "for", "if", "try"}) /\ ~IsKeyword(arm[1], dataBraceCommands)
  BY <1>1, <1>2 DEF IsOneOf, IsKeyword
<1>8. scriptBodies(arm) = <<arm[2]>>
  BY <1>1, <1>7, ScriptBodiesBy DEF Where, LastBody
<1>9. QED
  BY <1>4, <1>5, <1>6, <1>8, OneElement, StayFound

----------------------------------------------------------------------------
(* What a command runs elsewhere, the walk enters.                         *)

LEMMA WithinIs ==
  ASSUME NEW name, NEW ns
  PROVE  Within(name, ns) = qualifyName(name, ns)
<1>1. CASE ns = Global
  BY <1>1 DEF Within, qualifyName, IsAbsolute
<1>2. CASE ns # Global
  BY <1>2 DEF Within, qualifyName, IsAbsolute
<1>3. QED
  BY <1>1, <1>2

LEMMA NotModified ==
  ASSUME NEW c, NEW p, ~IsKeyword(c[1], Modifiers)
  PROVE  childBodies(c, p) = bodiesOf(c, p) /\ Member(c) = c
BY DEF childBodies, memberWords, Member

LEMMA EvalFound ==
  ASSUME NEW d, NEW c, HasCommandWords(c, d), HasWords(c), NEW p, isCmd(c, "namespace"), IsKeyword(c[2], {"eval"})
  PROVE  Len(c) = 4 /\ Entering(c[4], Within(c[3].text, p.ns), "namespace", p.class) \in ToSet(childBodies(c, p))
<1>1. Len(c) = 4 /\ Ends(c)
  BY DEF HasWords, Ends, Braced
<1>2. c[2].text = <<"eval">>
  BY DEF IsKeyword
<1>3. ~IsKeyword(c[1], Modifiers)
  BY HeadIs DEF Modifiers
<1>4. childBodies(c, p) = <<Entering(c[4], qualifyName(c[3].text, p.ns), "namespace", p.class)>>
  <2>1. Len(c) >= 4
    BY <1>1
  <2>2. bodiesOf(c, p) = <<Entering(c[Len(c)], qualifyName(c[3].text, p.ns), "namespace", p.class)>>
    BY <1>1, <1>2, <2>1, BodiesBy
  <2>3. QED
    BY <1>1, <1>3, <2>2, NotModified
<1>5. QED
  BY <1>1, <1>4, OneElement, WithinIs

LEMMA ClassFound ==
  ASSUME NEW d, NEW c, HasCommandWords(c, d), HasWords(c), NEW p, IsItcl(c, "class")
  PROVE  Len(c) = 3 /\ Entering(c[3], p.ns, "class", Within(c[2].text, p.ns)) \in ToSet(childBodies(c, p))
<1>1. Len(c) = 3 /\ Ends(c)
  BY DEF HasWords, Ends, Braced
<1>2. ~IsKeyword(c[1], Modifiers)
  BY ItclIs
<1>3. childBodies(c, p) = <<Entering(c[3], p.ns, "class", qualifyName(c[2].text, p.ns))>>
  <2>1. Len(c) >= 3
    BY <1>1
  <2>2. bodiesOf(c, p) = <<Entering(c[Len(c)], p.ns, "class", qualifyName(c[2].text, p.ns))>>
    BY <1>1, <2>1, BodiesBy
  <2>3. QED
    BY <1>1, <1>2, <2>2, NotModified
<1>4. QED
  BY <1>1, <1>3, OneElement, WithinIs

LEMMA ProcFound ==
  ASSUME NEW d, NEW c, HasCommandWords(c, d), HasWords(c), NEW p, isCmd(c, "proc")
  PROVE  Len(c) = 4 /\ Entering(c[4], p.ns, "proc", p.class) \in ToSet(childBodies(c, p))
<1>1. Len(c) = 4 /\ Ends(c)
  BY DEF HasWords, Ends, Braced
<1>2. ~IsKeyword(c[1], Modifiers)
  BY HeadIs DEF Modifiers
<1>3. childBodies(c, p) = <<Entering(c[4], p.ns, "proc", p.class)>>
  <2>1. Len(c) >= 4
    BY <1>1
  <2>2. bodiesOf(c, p) = <<Entering(c[Len(c)], p.ns, "proc", p.class)>>
    BY <1>1, <2>1, BodiesBy DEF Known
  <2>3. QED
    BY <1>1, <1>2, <2>2, NotModified
<1>4. QED
  BY <1>1, <1>3, OneElement

\* A proc behind a decorator, whose words start at the second.
LEMMA CacheProcIs ==
  ASSUME NEW d, NEW c, HasCommandWords(c, d), HasWords(c), isCmd(c, "CACHE_PROC")
  PROVE  Len(c) > 4 /\ isLiteralName(c[3]) /\ decoratedProcDef(c) = 2
<1>1. Len(c) > 4 /\ IsKeyword(c[2], {"proc"}) /\ isLiteralName(c[3]) /\ Braced(c, 5) /\ Len(c) \in Nat
  BY DEF HasWords, HasCommandWords
<1> DEFINE at == {i \in 2..Len(c) - 3 : /\ IsKeyword(c[i], {"proc"})
                                        /\ isLiteralName(c[i + 1]) /\ Braced(c, i + 3)}
<1>2. 2 \in at /\ \A i \in at : i \in Nat /\ 2 <= i
  BY <1>1
<1>3. c[1].kind = "bare" /\ ~IsKeyword(c[1], listOrDataHeads)
  BY HeadIs DEF listOrDataHeads
<1>4. decoratedProcDef(c) = CHOOSE i \in at : \A j \in at : i <= j
  BY <1>2, <1>3 DEF decoratedProcDef
<1> HIDE DEF at
<1>5. \A i \in at : (\A j \in at : i <= j) <=> i = 2
  BY <1>2
<1>6. (CHOOSE i \in at : \A j \in at : i <= j) = 2
  BY <1>2, <1>5
<1>7. QED
  BY <1>1, <1>4, <1>6

LEMMA CacheProcFound ==
  ASSUME NEW d, NEW c, HasCommandWords(c, d), HasWords(c), NEW p, isCmd(c, "CACHE_PROC")
  PROVE  Entering(c[5], p.ns, "proc", p.class) \in ToSet(childBodies(c, p))
<1>1. decoratedProcDef(c) = 2
  BY CacheProcIs
<1>2. ~IsKeyword(c[1], Modifiers)
  BY HeadIs DEF Modifiers
<1>3. /\ ~isCmd(c, "namespace") /\ ~isCmd(c, "proc") /\ ~IsItcl(c, "class") /\ ~IsItcl(c, "body")
      /\ ~IsOneOf(c, {"method", "constructor", "destructor"})
  BY HeadIs
<1>4. ~Enters(c, p)
  BY <1>3 DEF Enters, IsMember
<1>5. bodiesOf(c, p) = Known(c, 5, p)
  <2>1. bodiesOf(c, p) = IF decoratedProcDef(c) > 0 THEN Known(c, decoratedProcDef(c) + 3, p) ELSE Stay(c, p)
    BY <1>4, BodiesBy
  <2>2. decoratedProcDef(c) > 0 /\ decoratedProcDef(c) + 3 = 5
    BY <1>1
  <2>3. QED
    BY <2>1, <2>2
<1>6. QED
  BY <1>2, <1>5, NotModified, OneElement DEF Known

LEMMA ItclBodyFound ==
  ASSUME NEW d, NEW c, HasCommandWords(c, d), HasWords(c), NEW p, IsItcl(c, "body")
  PROVE  Len(c) = 4 /\ Entering(c[4], p.ns, "proc", Within(Front(c[2].text), p.ns)) \in ToSet(childBodies(c, p))
<1>0. Len(c) = 4 /\ Ends(c)
  BY DEF HasWords, Ends, Braced
<1>1. Front(c[2].text) \notin {<< >>, <<"">>}
  BY DEF HasWords
<1>2. ~IsKeyword(c[1], Modifiers)
  BY ItclIs
<1>3. childBodies(c, p) = <<Entering(c[4], p.ns, "proc", ClassOfBody(c[2].text, p.ns))>>
  <2>1. Len(c) >= 4
    BY <1>0
  <2>2. bodiesOf(c, p) = <<Entering(c[Len(c)], p.ns, "proc", ClassOfBody(c[2].text, p.ns))>>
    BY <1>0, <1>1, <2>1, BodiesBy DEF Where
  <2>3. QED
    BY <1>0, <1>2, <2>2, NotModified
<1>4. QED
  BY <1>0, <1>3, OneElement, WithinIs DEF ClassOfBody

LEMMA MemberIs ==
  ASSUME NEW d, NEW c, HasCommandWords(c, d), HasMemberWords(c)
  PROVE  /\ memberWords(c) = Member(c) /\ HasCommandWords(Member(c), d)
         /\ IsKeyword(c[1], Modifiers) =>
              /\ Len(c) > 1 /\ Len(Member(c)) = Len(c) - 1 /\ \A i \in 1..(Len(c) - 1) : Member(c)[i] = c[i + 1]
              /\ IsOneOf(Member(c), {"method", "proc", "variable", "common"})
         /\ ~IsKeyword(c[1], Modifiers) => Member(c) = c
<1>0. Len(c) \in Nat
  BY DEF HasCommandWords
<1>1. CASE ~IsKeyword(c[1], Modifiers)
  BY <1>1 DEF Member, memberWords
<1>2. CASE IsKeyword(c[1], Modifiers)
  <2>1. Len(c) > 1 /\ IsKeyword(c[2], {"method", "proc", "variable", "common"})
    BY <1>2 DEF HasMemberWords
  <2>2. Member(c) = Tail(c)
    BY <1>2 DEF Member
  <2>3. memberWords(c) = Tail(c)
    BY <1>0, <1>2, <2>1 DEF memberWords
  <2>4. /\ HasCommandWords(Tail(c), d) /\ Len(Tail(c)) = Len(c) - 1
        /\ \A i \in 1..(Len(c) - 1) : Tail(c)[i] = c[i + 1]
    BY <2>1, TailIs
  <2> DEFINE m == Tail(c)
  <2> HIDE DEF m
  <2>5. m[1] = c[2] /\ m # << >>
    <3>1. 1 \in 1..(Len(c) - 1) /\ 1 + 1 = 2
      BY <1>0, <2>1
    <3>2. Len(m) # 0
      BY <1>0, <2>1, <2>4 DEF m
    <3>3. m[1] = c[1 + 1]
      BY <2>4, <3>1 DEF m
    <3>4. m # << >>
      BY <3>2
    <3>5. QED
      BY <3>1, <3>3, <3>4
  <2>6. IsOneOf(m, {"method", "proc", "variable", "common"})
    BY <2>1, <2>5 DEF IsOneOf, isCmd, IsKeyword
  <2>7. QED
    BY <1>2, <2>1, <2>2, <2>3, <2>4, <2>6 DEF m
<1>3. QED
  BY <1>1, <1>2

\* The words of a member that are bodies of methods.
MethodBodies(m) ==
  IF isCmd(m, "method") /\ Len(m) = 4 THEN {4}
  ELSE IF isCmd(m, "proc") THEN {4}
  ELSE IF isCmd(m, "constructor") /\ Len(m) \in {3, 4} THEN 3..Len(m)
  ELSE {}

LEMMA MethodBodiesAre ==
  ASSUME NEW d, NEW c, HasCommandWords(c, d), HasMemberWords(c), NEW k \in MethodBodies(Member(c))
  PROVE  /\ k \in DOMAIN Member(c) /\ Braced(Member(c), k) /\ k \in {3, 4} /\ Len(Member(c)) \in {3, 4}
         /\ \/ isCmd(Member(c), "method") /\ Len(Member(c)) = 4 /\ k = 4
            \/ isCmd(Member(c), "proc") /\ Len(Member(c)) = 4 /\ k = 4
            \/ isCmd(Member(c), "constructor") /\ Len(Member(c)) \in {3, 4} /\ k \in 3..Len(Member(c))
<1> DEFINE m == Member(c)
<1>0. HasCommandWords(m, d) /\ DOMAIN m = 1..Len(m) /\ Len(m) \in Nat
  BY MemberIs DEF HasCommandWords
<1>1. /\ isCmd(m, "method") /\ Len(m) = 4 => Braced(m, 4)
      /\ isCmd(m, "proc") => Len(m) = 4 /\ Braced(m, 4)
      /\ isCmd(m, "constructor") => \A i \in 3..Len(m) : Braced(m, i)
  BY DEF HasMemberWords
<1> HIDE DEF m
<1>2. k \in MethodBodies(m)
  BY DEF m
<1>3. \/ isCmd(m, "method") /\ Len(m) = 4 /\ k = 4
      \/ isCmd(m, "proc") /\ Len(m) = 4 /\ k = 4
      \/ isCmd(m, "constructor") /\ Len(m) \in {3, 4} /\ k \in 3..Len(m)
  BY <1>1, <1>2 DEF MethodBodies
<1>4. Braced(m, k) /\ k \in {3, 4} /\ Len(m) \in {3, 4}
  <2>1. CASE Len(m) = 3 /\ k \in 3..3 /\ isCmd(m, "constructor")
    BY <1>1, <2>1
  <2>2. CASE Len(m) = 4 /\ k \in 3..4 /\ isCmd(m, "constructor")
    BY <1>1, <2>2
  <2>3. CASE isCmd(m, "method") /\ Len(m) = 4 /\ k = 4
    BY <1>1, <2>3
  <2>4. CASE isCmd(m, "proc") /\ Len(m) = 4 /\ k = 4
    BY <1>1, <2>4
  <2>5. QED
    BY <1>3, <2>1, <2>2, <2>3, <2>4
<1>5. k \in DOMAIN m
  BY <1>4 DEF Braced
<1>6. QED
  BY <1>3, <1>4, <1>5 DEF m

\* In a class they are bodies.
LEMMA MethodFound ==
  ASSUME NEW d, NEW c, HasCommandWords(c, d), HasMemberWords(c), NEW p, p.frame = "class",
         NEW k \in MethodBodies(Member(c))
  PROVE  Entering(Member(c)[k], p.ns, "proc", p.class) \in ToSet(childBodies(c, p))
<1> DEFINE m == Member(c)
<1>1. childBodies(c, p) = bodiesOf(m, p)
  BY MemberIs DEF childBodies
<1>2. /\ k \in DOMAIN m /\ Braced(m, k) /\ k \in {3, 4} /\ Len(m) \in {3, 4}
      /\ \/ isCmd(m, "method") /\ Len(m) = 4 /\ k = 4
         \/ isCmd(m, "proc") /\ Len(m) = 4 /\ k = 4
         \/ isCmd(m, "constructor") /\ Len(m) \in {3, 4} /\ k \in 3..Len(m)
  BY MethodBodiesAre
<1>3. isCmd(m, "constructor") => \A i \in 3..Len(m) : Braced(m, i)
  BY DEF HasMemberWords
<1> HIDE DEF m
<1>4. \A head : isCmd(m, head) => /\ \A other : isCmd(m, other) <=> other = head
                                  /\ \A heads : IsOneOf(m, heads) <=> head \in heads
  BY HeadIs
<1> DEFINE e(i) == Entering(m[i], p.ns, "proc", p.class)
<1>5. \A i : IsSequence(Known(m, i, p)) /\ ToSet(Known(m, i, p)) = {e(i)}
  BY OneElement DEF Known
<1>6. CASE isCmd(m, "proc") /\ Len(m) = 4 /\ k = 4
  <2>1. Ends(m) /\ Len(m) >= 4
    BY <1>2, <1>6 DEF Ends, Braced
  <2>2. bodiesOf(m, p) = Known(m, 4, p)
    BY <1>6, <2>1, BodiesBy
  <2>3. QED
    BY <1>1, <1>5, <1>6, <2>2 DEF m
<1>7. CASE isCmd(m, "method") /\ Len(m) = 4 /\ k = 4
  <2>1. Ends(m) /\ IsMember(m, p)
    BY <1>2, <1>4, <1>7 DEF Ends, Braced, IsMember
  <2>2. minMemberBodyWords(m) = 4 /\ ~isCmd(m, "constructor")
    BY <1>4, <1>7 DEF minMemberBodyWords
  <2>3. bodiesOf(m, p) = Known(m, 4, p) \o << >>
    <3> DEFINE init == Where(isCmd(m, "constructor") /\ Len(m) >= 4 /\ Braced(m, Len(m) - 1), Known(m, Len(m) - 1, p))
    <3>1. init = << >>
      BY <2>2 DEF Where
    <3>2. bodiesOf(m, p) = Where(Len(m) >= minMemberBodyWords(m), Known(m, Len(m), p) \o init)
      BY <2>1, BodiesBy
    <3> HIDE DEF init
    <3>3. Len(m) >= minMemberBodyWords(m)
      BY <1>7, <2>2
    <3>4. QED
      BY <1>7, <3>1, <3>2, <3>3 DEF Where
  <2>4. ToSet(bodiesOf(m, p)) = {e(4)} \cup {}
    BY <1>5, <2>3, Joined, EmptySequence
  <2>5. QED
    BY <1>1, <1>7, <2>4 DEF m
<1>8. CASE isCmd(m, "constructor") /\ Len(m) \in {3, 4} /\ k \in 3..Len(m)
  <2>1. Ends(m) /\ IsMember(m, p)
    BY <1>3, <1>4, <1>8 DEF Ends, Braced, IsMember
  <2>2. minMemberBodyWords(m) = 3 /\ Len(m) >= 3
    BY <1>4, <1>8 DEF minMemberBodyWords
  <2> DEFINE init == Where(isCmd(m, "constructor") /\ Len(m) >= 4 /\ Braced(m, Len(m) - 1), Known(m, Len(m) - 1, p))
  <2>3. bodiesOf(m, p) = Known(m, Len(m), p) \o init
    BY <2>1, <2>2, BodiesBy DEF Where
  <2>4. IsSequence(init) /\ (Len(m) = 4 => ToSet(init) = {e(3)})
    <3>1. CASE Len(m) = 4
      <4>1. Len(m) - 1 = 3 /\ 3 \in 3..Len(m) /\ Len(m) >= 4
        BY <3>1
      <4>2. init = Known(m, 3, p)
        BY <1>3, <1>8, <4>1 DEF Where
      <4>3. QED
        BY <1>5, <4>2
    <3>2. CASE Len(m) = 3
      <4>1. init = << >>
        BY <3>2 DEF Where
      <4>2. QED
        BY <3>2, <4>1, EmptySequence
    <3>3. QED
      BY <1>8, <3>1, <3>2
  <2> HIDE DEF init
  <2>5. ToSet(bodiesOf(m, p)) = {e(Len(m))} \cup ToSet(init)
    BY <1>5, <2>3, <2>4, Joined
  <2>6. k = Len(m) \/ (Len(m) = 4 /\ k = 3)
    <3>1. CASE Len(m) = 3 /\ k \in 3..3
      BY <3>1
    <3>2. CASE Len(m) = 4 /\ k \in 3..4
      BY <3>2
    <3>3. QED
      BY <1>8, <3>1, <3>2
  <2>7. QED
    BY <1>1, <2>4, <2>5, <2>6 DEF m
<1>9. QED
  BY <1>2, <1>6, <1>7, <1>8

\* In brackets, where the code takes no notice of classes, they are too.
LEMMA MethodBelow ==
  ASSUME NEW d, NEW c, HasCommandWords(c, d), HasWords(c), HasMemberWords(c), isCmd(c, "constructor") => Len(c) < 4,
         NEW k \in MethodBodies(Member(c))
  PROVE  ToSet(Member(c)[k].script) \subseteq BodyCommands(c)
<1> DEFINE m == Member(c)
           p == TopLevel
<1>0. Len(c) \in Nat /\ DOMAIN c = 1..Len(c)
  BY DEF HasCommandWords
<1>1. /\ k \in DOMAIN m /\ Braced(m, k) /\ k \in {3, 4} /\ Len(m) \in {3, 4}
      /\ \/ isCmd(m, "method") /\ Len(m) = 4 /\ k = 4
         \/ isCmd(m, "proc") /\ Len(m) = 4 /\ k = 4
         \/ isCmd(m, "constructor") /\ Len(m) \in {3, 4} /\ k \in 3..Len(m)
  BY MethodBodiesAre
<1>2. childBodies(c, p) = bodiesOf(c, p) /\ p.frame # "class"
  BY DEF childBodies, TopLevel
<1>3. \A b : b \in ToSet(bodiesOf(c, p)) => ToSet(b.script) \subseteq BodyCommands(c)
  BY <1>2 DEF BodyCommands
<1>4. decoratedProcDef(c) > 0 => IsOneOf(c, {"CACHE_PROC"} \cup Modifiers)
  BY DEF HasWords
<1>5. /\ IsKeyword(c[1], Modifiers) =>
           /\ Len(m) = Len(c) - 1 /\ \A i \in 1..(Len(c) - 1) : m[i] = c[i + 1]
           /\ IsOneOf(m, {"method", "proc", "variable", "common"})
      /\ ~IsKeyword(c[1], Modifiers) => m = c
  BY MemberIs
<1> HIDE DEF m, p
<1>6. \A w, head : isCmd(w, head) => /\ w[1].kind = "bare"
                                     /\ \A other : isCmd(w, other) <=> other = head
                                     /\ \A heads : IsOneOf(w, heads) <=> head \in heads
                                     /\ \A texts : IsKeyword(w[1], texts) <=> head \in texts
                                     /\ \A other : ~IsItcl(w, other)
  BY HeadIs
<1>7. ASSUME NEW head, isCmd(c, head), head \in {"method", "constructor"} \cup Modifiers, Braced(c, Len(c)), decoratedProcDef(c) = 0
      PROVE  ToSet(c[Len(c)].script) \subseteq BodyCommands(c)
  <2>1. ~Enters(c, p)
    BY <1>2, <1>6, <1>7 DEF Enters, IsMember, Modifiers
  <2>2. /\ c[1].kind = "bare" /\ ~IsKeyword(c[1], dataBraceCommands)
        /\ ~IsOneOf(c, {"dict", "catch", "for", "if", "try"})
    <3>1. head \notin dataBraceCommands /\ head \notin {"dict", "catch", "for", "if", "try"}
      BY <1>7 DEF dataBraceCommands, Modifiers
    <3>2. QED
      BY <1>6, <1>7, <3>1
  <2>3. scriptBodies(c) = <<c[Len(c)]>>
    BY <1>7, <2>2, ScriptBodiesBy DEF Where, LastBody
  <2>4. Staying(c[Len(c)], p) \in ToSet(bodiesOf(c, p))
    BY <1>7, <2>1, <2>3, OneElement, StayFound
  <2>5. Staying(c[Len(c)], p).script = c[Len(c)].script
    BY DEF Staying
  <2>6. QED
    BY <1>3, <2>4, <2>5
<1>8. CASE ~IsKeyword(c[1], Modifiers)
  <2>1. m = c
    BY <1>5, <1>8
  <2>2. CASE isCmd(c, "proc")
    <3>1. Entering(c[4], p.ns, "proc", p.class) \in ToSet(bodiesOf(c, p)) /\ k = 4
      BY <1>1, <1>2, <1>6, <2>1, <2>2, ProcFound
    <3>2. Entering(c[4], p.ns, "proc", p.class).script = c[4].script
      BY DEF Entering
    <3>3. QED
      BY <1>3, <2>1, <3>1, <3>2 DEF m
  <2>3. CASE isCmd(c, "method") \/ isCmd(c, "constructor")
    <3>1. Len(c) = k /\ Braced(c, Len(c))
      <4>1. isCmd(c, "constructor") => Len(m) \in {3, 4} /\ k \in 3..Len(m) /\ Len(m) < 4
        BY <1>1, <1>6, <2>1
      <4>2. isCmd(c, "constructor") => Len(c) = 3 /\ k = 3
        <5>1. Len(m) \in {3, 4} /\ Len(m) < 4 => Len(m) = 3
          OBVIOUS
        <5>2. \A i : i \in 3..3 => i = 3
          OBVIOUS
        <5>3. QED
          BY <2>1, <4>1, <5>1, <5>2
      <4>3. isCmd(c, "method") => Len(c) = 4 /\ k = 4
        BY <1>1, <1>6, <2>1
      <4>4. QED
        BY <1>1, <2>1, <2>3, <4>2, <4>3
    <3>2. decoratedProcDef(c) = 0
      <4>1. ~IsOneOf(c, {"CACHE_PROC"} \cup Modifiers)
        BY <1>6, <2>3 DEF Modifiers
      <4>2. QED
        BY <1>0, <1>4, <4>1, DecoratedIs
    <3>3. QED
      BY <1>7, <2>1, <2>3, <3>1, <3>2 DEF m
  <2>4. QED
    BY <1>1, <2>1, <2>2, <2>3
<1>9. CASE IsKeyword(c[1], Modifiers)
  <2>1. Len(m) = 4 /\ k = 4 /\ Len(c) = 5
    <3>1. ~isCmd(m, "constructor")
      BY <1>5, <1>6, <1>9
    <3>2. QED
      <4>1. Len(m) = 4 /\ k = 4
        BY <1>1, <3>1
      <4>2. Len(m) = Len(c) - 1
        BY <1>5, <1>9
      <4>3. \A n \in Nat : n - 1 = 4 => n = 5
        OBVIOUS
      <4>4. Len(c) \in Nat /\ Len(c) - 1 = 4
        BY <1>0, <4>1, <4>2
      <4>5. QED
        BY <4>1, <4>3, <4>4
  <2>2. m[4] = c[5] /\ Braced(c, 5)
    <3>1. 4 \in 1..(Len(c) - 1) /\ 4 + 1 = 5 /\ 5 \in DOMAIN c
      BY <1>0, <2>1
    <3>2. m[4] = c[5]
      BY <1>5, <1>9, <3>1
    <3>3. QED
      BY <1>1, <2>1, <3>1, <3>2 DEF Braced
  <2>3. PICK head \in Modifiers : isCmd(c, head)
    <3>1. c # << >>
      BY <2>1
    <3>2. QED
      BY <1>9, <3>1 DEF IsKeyword, isCmd
  <2>4. CASE decoratedProcDef(c) = 0
    BY <1>7, <2>1, <2>2, <2>3, <2>4 DEF m
  <2>5. CASE decoratedProcDef(c) > 0
    <3>1. decoratedProcDef(c) + 3 = 5
      <4>1. decoratedProcDef(c) \in 2..Len(c) - 3
        BY <2>5, DecoratedIs
      <4>2. Len(c) - 3 = 2
        BY <2>1
      <4>3. \A i : i \in 2..2 => i + 3 = 5
        OBVIOUS
      <4>4. QED
        BY <4>1, <4>2, <4>3
    <3>2. ~Enters(c, p)
      BY <1>2, <1>6, <2>3 DEF Enters, IsMember, Modifiers
    <3>3. bodiesOf(c, p) = IF decoratedProcDef(c) > 0 THEN Known(c, decoratedProcDef(c) + 3, p) ELSE Stay(c, p)
      BY <3>2, BodiesBy
    <3>4. bodiesOf(c, p) = <<Entering(c[5], p.ns, "proc", p.class)>>
      BY <2>5, <3>1, <3>3 DEF Known
    <3>5. Entering(c[5], p.ns, "proc", p.class).script = c[5].script
      BY DEF Entering
    <3>6. QED
      BY <1>3, <2>1, <2>2, <3>4, <3>5, OneElement DEF m
  <2>6. QED
    BY <2>1, <2>4, <2>5, DecoratedIs
<1>10. QED
  BY <1>8, <1>9

----------------------------------------------------------------------------
(* What a command defines or binds, the walk takes for a definition.       *)

IsLocal(x, name, scope) == x.kind = "local" /\ x.name = name /\ x.scope = scope

LEMMA LocalIs ==
  ASSUME NEW word, NEW origin, NEW p
  PROVE  IsLocal(Local(word, origin, p), word.text, p.scope)
BY DEF IsLocal, Local

LEMMA ScriptWords ==
  ASSUME NEW d \in 0..Nesting, NEW s \in Script(d)
  PROVE  /\ IsSequence(FlattenSeq(s))
         /\ \A e \in ToSet(FlattenSeq(s)) : e.kind \in {"bare", "braced", "quoted"}
<1>1. IsSequence(s) /\ \A c \in ToSet(s) : d - 1 \in 0..Nesting /\ c \in Command(d - 1)
  BY ScriptIs
<1>2. \A c \in ToSet(s) : HasCommandWords(c, d - 1)
  BY <1>1, CommandIs
<1>3. \A i \in DOMAIN s : s[i] \in ToSet(s)
  BY DEF ToSet
<1>4. AllSequences(s)
  BY <1>1, <1>2, <1>3 DEF AllSequences, HasCommandWords
<1>5. IsSequence(FlattenSeq(s)) /\ ToSet(FlattenSeq(s)) = UNION {ToSet(s[i]) : i \in DOMAIN s}
  BY <1>4, Flattened
<1>6. \A i \in DOMAIN s : \A e \in ToSet(s[i]) : e.kind \in {"bare", "braced", "quoted"}
  <2> TAKE i \in DOMAIN s
  <2>1. \A j \in DOMAIN s[i] : s[i][j].kind \in {"bare", "braced", "quoted"}
    BY <1>2, <1>3 DEF HasCommandWords
  <2>2. QED
    BY <2>1 DEF ToSet
<1>7. QED
  BY <1>5, <1>6

LEMMA ParamIs ==
  ASSUME NEW e, e.kind \in {"bare", "braced", "quoted"}
  PROVE  /\ IsSequence(paramFromWord(e))
         /\ e.kind = "bare" => e \in ToSet(paramFromWord(e))
         /\ e.kind = "braced" /\ e.script # << >> => e.script[1][1] \in ToSet(paramFromWord(e))
<1>1. CASE e.kind = "bare"
  <2>1. paramFromWord(e) = <<e>>
    BY <1>1 DEF paramFromWord
  <2>2. QED
    BY <1>1, <2>1, OneElement
<1>2. CASE e.kind = "braced"
  <2>1. paramFromWord(e) = Where(e.script # << >>, <<e.script[1][1]>>)
    BY <1>2 DEF paramFromWord
  <2>2. QED
    BY <1>2, <2>1, OneElement, EmptySequence DEF Where
<1>3. CASE e.kind = "quoted"
  <2>1. paramFromWord(e) = << >>
    BY <1>3 DEF paramFromWord
  <2>2. QED
    BY <1>3, <2>1, EmptySequence
<1>4. QED
  BY <1>1, <1>2, <1>3

\* A list of names as the interpreter and as the code reads it.
LEMMA ScanParamsAre ==
  ASSUME NEW d \in 0..Nesting, NEW list, list.kind \in {"bare", "braced", "quoted"}, list.script \in Script(d)
  PROVE  /\ IsSequence(scanParams(list))
         /\ IsNameList(list) => \A name \in ListNames(list) : \E x \in ToSet(scanParams(list)) : x.text = name
<1>1. CASE list.kind # "braced"
  <2>1. scanParams(list) = paramFromWord(list)
    BY <1>1 DEF scanParams
  <2>2. IsNameList(list) => list.kind = "bare" /\ ListNames(list) = {list.text}
    BY <1>1 DEF IsNameList, ListNames
  <2>3. QED
    BY <2>1, <2>2, ParamIs
<1>2. CASE list.kind = "braced"
  <2> DEFINE words == FlattenSeq(list.script)
             ss == [i \in DOMAIN words |-> paramFromWord(words[i])]
  <2>1. IsSequence(words) /\ \A e \in ToSet(words) : e.kind \in {"bare", "braced", "quoted"}
    BY ScriptWords
  <2>2. scanParams(list) = FlattenSeq(ss)
    BY <1>2 DEF scanParams, EachOf
  <2>3. IsNameList(list) => \A e \in ToSet(words) : e.kind = "bare" \/ (e.kind = "braced" /\ e.script # << >>)
    BY <1>2 DEF IsNameList
  <2>4. ListNames(list) = {IF e.kind = "bare" THEN e.text ELSE e.script[1][1].text : e \in ToSet(words)}
    BY <1>2 DEF ListNames
  <2> HIDE DEF words
  <2>5. DOMAIN words = 1..Len(words) /\ Len(words) \in Nat
    BY <2>1 DEF IsSequence
  <2>6. ss = [i \in 1..Len(words) |-> ss[i]] /\ \A i \in DOMAIN words : words[i] \in ToSet(words) /\ ss[i] = paramFromWord(words[i])
    BY <2>5 DEF ToSet
  <2> HIDE DEF ss
  <2>7. IsSequence(ss) /\ DOMAIN ss = DOMAIN words
    BY <2>5, <2>6, Listed
  <2>8. AllSequences(ss)
    <3>1. \A i \in DOMAIN words : words[i].kind \in {"bare", "braced", "quoted"}
      BY <2>1, <2>6
    <3>2. \A i \in DOMAIN words : IsSequence(paramFromWord(words[i]))
      BY <3>1, ParamIs
    <3>3. QED
      BY <2>6, <2>7, <3>2 DEF AllSequences
  <2>9. IsSequence(FlattenSeq(ss)) /\ ToSet(FlattenSeq(ss)) = UNION {ToSet(ss[i]) : i \in DOMAIN ss}
    BY <2>8, Flattened
  <2>10. ASSUME IsNameList(list), NEW name \in ListNames(list)
         PROVE  \E x \in ToSet(FlattenSeq(ss)) : x.text = name
    <3>1. PICK e \in ToSet(words) : name = IF e.kind = "bare" THEN e.text ELSE e.script[1][1].text
      BY <2>4, <2>10
    <3>2. PICK i \in DOMAIN words : e = words[i]
      BY DEF ToSet
    <3>3. ToSet(paramFromWord(e)) \subseteq ToSet(FlattenSeq(ss))
      BY <2>6, <2>7, <2>9, <3>2
    <3>4. e.kind = "bare" \/ (e.kind = "braced" /\ e.script # << >>)
      BY <2>3, <2>10
    <3>5. e.kind \in {"bare", "braced", "quoted"}
      BY <2>1
    <3>6. CASE e.kind = "bare"
      <4>1. e \in ToSet(paramFromWord(e)) /\ e.text = name
        BY <3>1, <3>5, <3>6, ParamIs
      <4>2. QED
        BY <3>3, <4>1
    <3>7. CASE e.kind = "braced" /\ e.script # << >>
      <4>1. e.script[1][1] \in ToSet(paramFromWord(e)) /\ e.script[1][1].text = name
        BY <3>1, <3>5, <3>7, ParamIs
      <4>2. QED
        BY <3>3, <4>1
    <3>8. QED
      BY <3>4, <3>6, <3>7
  <2>11. QED
    BY <2>2, <2>9, <2>10
<1>3. QED
  BY <1>1, <1>2

\* The locals made of a list of names.
LocalsOf(list, p) == EachOf(scanParams(list), LAMBDA word : <<Local(word, NoOrigin, p)>>)

LEMMA LocalsAre ==
  ASSUME NEW words, IsSequence(words), NEW p
  PROVE  LET made == EachOf(words, LAMBDA word : <<Local(word, NoOrigin, p)>>)
         IN  IsSequence(made) /\ \A w \in ToSet(words) : \E x \in ToSet(made) : IsLocal(x, w.text, p.scope)
<1> DEFINE ss == [i \in DOMAIN words |-> <<Local(words[i], NoOrigin, p)>>]
           made == EachOf(words, LAMBDA word : <<Local(word, NoOrigin, p)>>)
<1>1. made = FlattenSeq(ss)
  BY DEF EachOf
<1>2. DOMAIN words = 1..Len(words) /\ Len(words) \in Nat
  BY DEF IsSequence
<1>3. ss = [i \in 1..Len(words) |-> ss[i]] /\ \A i \in DOMAIN words : ss[i] = <<Local(words[i], NoOrigin, p)>>
  BY <1>2
<1> HIDE DEF ss
<1>4. IsSequence(ss) /\ DOMAIN ss = DOMAIN words
  BY <1>2, <1>3, Listed
<1>5. AllSequences(ss)
  <2>1. \A i \in DOMAIN words : IsSequence(ss[i])
    BY <1>3, OneElement
  <2>2. QED
    BY <1>4, <2>1 DEF AllSequences
<1>6. IsSequence(FlattenSeq(ss)) /\ ToSet(FlattenSeq(ss)) = UNION {ToSet(ss[i]) : i \in DOMAIN ss}
  BY <1>5, Flattened
<1>7. ASSUME NEW w \in ToSet(words) PROVE \E x \in ToSet(FlattenSeq(ss)) : IsLocal(x, w.text, p.scope)
  <2>1. PICK i \in DOMAIN words : w = words[i]
    BY DEF ToSet
  <2>2. Local(w, NoOrigin, p) \in ToSet(ss[i])
    BY <1>3, <2>1, OneElement
  <2>3. QED
    BY <1>4, <1>6, <2>2, LocalIs
<1>8. QED
  BY <1>1, <1>6, <1>7

LEMMA LocalsOfAre ==
  ASSUME NEW d \in 0..Nesting, NEW list, list.kind \in {"bare", "braced", "quoted"}, list.script \in Script(d), NEW p
  PROVE  /\ IsSequence(LocalsOf(list, p))
         /\ IsNameList(list) => \A name \in ListNames(list) : \E x \in ToSet(LocalsOf(list, p)) : IsLocal(x, name, p.scope)
<1>1. /\ IsSequence(scanParams(list))
      /\ IsNameList(list) => \A name \in ListNames(list) : \E x \in ToSet(scanParams(list)) : x.text = name
  BY ScanParamsAre
<1>2. /\ IsSequence(LocalsOf(list, p))
      /\ \A w \in ToSet(scanParams(list)) : \E x \in ToSet(LocalsOf(list, p)) : IsLocal(x, w.text, p.scope)
  BY <1>1, LocalsAre DEF LocalsOf
<1>3. QED
  BY <1>1, <1>2

LEMMA JoinedFive ==
  ASSUME NEW a, NEW b, NEW c, NEW d, NEW e,
         IsSequence(a), IsSequence(b), IsSequence(c), IsSequence(d), IsSequence(e)
  PROVE  /\ IsSequence(a \o b \o c \o d \o e)
         /\ ToSet(a \o b \o c \o d \o e) = ToSet(a) \cup ToSet(b) \cup ToSet(c) \cup ToSet(d) \cup ToSet(e)
<1> DEFINE x == a \o b
           y == x \o c
           z == y \o d
<1>1. IsSequence(x) /\ ToSet(x) = ToSet(a) \cup ToSet(b)
  BY Joined
<1> HIDE DEF x
<1>2. IsSequence(y) /\ ToSet(y) = ToSet(a) \cup ToSet(b) \cup ToSet(c)
  BY <1>1, Joined
<1> HIDE DEF y
<1>3. IsSequence(z) /\ ToSet(z) = ToSet(a) \cup ToSet(b) \cup ToSet(c) \cup ToSet(d)
  BY <1>2, Joined
<1> HIDE DEF z
<1>4. IsSequence(z \o e) /\ ToSet(z \o e) = ToSet(a) \cup ToSet(b) \cup ToSet(c) \cup ToSet(d) \cup ToSet(e)
  BY <1>3, Joined
<1>5. QED
  BY <1>4 DEF z, y, x

LEMMA LoopVarsAre ==
  ASSUME NEW d, NEW c, HasCommandWords(c, d)
  PROVE  /\ IsSequence(LoopVars(c)) /\ ToSet(LoopVars(c)) \subseteq ToSet(c)
         /\ isCmd(c, "foreach") => \A i \in {j \in 2..Len(c) - 1 : j % 2 = 0} : c[i] \in ToSet(LoopVars(c))
         /\ isCmd(c, "lassign") => \A i \in 3..Len(c) : c[i] \in ToSet(LoopVars(c))
         /\ isCmd(c, "dict") /\ IsKeyword(c[2], {"for"}) /\ Len(c) = 5 => c[3] \in ToSet(LoopVars(c))
<1> DEFINE EvenAt == {i \in DOMAIN c : i % 2 = 0 /\ i < Len(c)}
           RestAt == {i \in DOMAIN c : i > 2}
           Fine(s) == IsSequence(s) /\ ToSet(s) \subseteq ToSet(c)
<1>0. IsSequence(c) /\ DOMAIN c = 1..Len(c) /\ Len(c) \in Nat
  BY DEF HasCommandWords
<1>1. \A head : isCmd(c, head) => /\ \A other : isCmd(c, other) <=> other = head
                                  /\ \A heads : IsOneOf(c, heads) <=> head \in heads
  BY HeadIs
<1>2. \A at \in SUBSET DOMAIN c : ToSet(TakenAt(c, at)) = {c[j] : j \in at} /\ Fine(TakenAt(c, at))
  <2> TAKE at \in SUBSET DOMAIN c
  <2>1. IsSequence(TakenAt(c, at)) /\ ToSet(TakenAt(c, at)) = {c[i] : i \in at}
    BY <1>0, Taken
  <2>2. {c[i] : i \in at} \subseteq ToSet(c)
    BY DEF ToSet
  <2>3. QED
    BY <2>1, <2>2
<1>3. EvenAt \in SUBSET DOMAIN c /\ RestAt \in SUBSET DOMAIN c
  OBVIOUS
<1>4. WordsAt(c, LAMBDA i : i % 2 = 0 /\ i < Len(c)) = TakenAt(c, EvenAt)
  BY DEF WordsAt, TakenAt
<1>5. WordsAt(c, LAMBDA i : i > 2) = TakenAt(c, RestAt)
  BY DEF WordsAt, TakenAt
<1>6. CASE IsOneOf(c, {"foreach", "lmap"})
  <2>1. ~isCmd(c, "lassign") /\ ~isCmd(c, "dict")
    BY <1>1, <1>6 DEF IsOneOf
  <2>2. LoopVars(c) = TakenAt(c, EvenAt)
    BY <1>4, <1>6, <2>1 DEF LoopVars, IsOneOf
  <2>3. \A i \in {j \in 2..Len(c) - 1 : j % 2 = 0} : i \in EvenAt
    BY <1>0
  <2> HIDE DEF EvenAt, Fine
  <2>4. Fine(LoopVars(c)) /\ \A i \in EvenAt : c[i] \in ToSet(LoopVars(c))
    BY <1>2, <1>3, <2>2
  <2>5. QED
    BY <2>1, <2>3, <2>4 DEF Fine
<1>7. CASE isCmd(c, "lassign")
  <2>1. ~isCmd(c, "foreach") /\ ~isCmd(c, "dict") /\ ~IsOneOf(c, {"foreach", "lmap"})
    BY <1>1, <1>7
  <2>2. LoopVars(c) = TakenAt(c, RestAt)
    BY <1>5, <1>7, <2>1 DEF LoopVars, IsOneOf
  <2>3. \A i \in 3..Len(c) : i \in RestAt
    BY <1>0
  <2> HIDE DEF RestAt, Fine
  <2>4. Fine(LoopVars(c)) /\ \A i \in RestAt : c[i] \in ToSet(LoopVars(c))
    BY <1>2, <1>3, <2>2
  <2>5. QED
    BY <2>1, <2>3, <2>4 DEF Fine
<1>8. CASE isCmd(c, "dict")
  <2>1. ~isCmd(c, "foreach") /\ ~isCmd(c, "lassign") /\ ~IsOneOf(c, {"foreach", "lmap"})
    BY <1>1, <1>8
  <2>2. LoopVars(c) = Where(Len(c) >= 5 /\ IsKeyword(c[2], {"for", "map"}), <<c[3]>>)
    BY <1>8, <2>1 DEF LoopVars, IsOneOf
  <2>3. CASE Len(c) >= 5 /\ IsKeyword(c[2], {"for", "map"})
    <3>1. LoopVars(c) = <<c[3]>>
      BY <2>2, <2>3 DEF Where
    <3>2. c[3] \in ToSet(c)
      BY <1>0, <2>3 DEF ToSet
    <3>3. QED
      BY <2>1, <3>1, <3>2, OneElement
  <2>4. CASE ~(Len(c) >= 5 /\ IsKeyword(c[2], {"for", "map"}))
    <3>1. LoopVars(c) = << >>
      BY <2>2, <2>4 DEF Where
    <3>2. ~(IsKeyword(c[2], {"for"}) /\ Len(c) = 5)
      BY <2>4 DEF IsKeyword
    <3>3. QED
      BY <2>1, <3>1, <3>2, EmptySequence
  <2>5. QED
    BY <2>3, <2>4
<1>9. CASE ~IsOneOf(c, {"foreach", "lmap"}) /\ ~isCmd(c, "lassign") /\ ~isCmd(c, "dict")
  <2>1. LoopVars(c) = << >> /\ ~isCmd(c, "foreach")
    BY <1>9 DEF LoopVars, IsOneOf
  <2>2. QED
    BY <1>9, <2>1, EmptySequence
<1>10. QED
  BY <1>6, <1>7, <1>8, <1>9

\* The definitions of what a proc binds, by the kind of command.
LoopLocals(c, p) == EachOf(LoopVars(c), LAMBDA list : LocalsOf(list, p))

LEMMA LoopLocalsAre ==
  ASSUME NEW d \in 0..Nesting, NEW c, HasCommandWords(c, d), NEW p
  PROVE  /\ IsSequence(LoopLocals(c, p))
         /\ \A list \in ToSet(LoopVars(c)) : IsNameList(list) =>
              \A name \in ListNames(list) : \E x \in ToSet(LoopLocals(c, p)) : IsLocal(x, name, p.scope)
<1> DEFINE lists == LoopVars(c)
           ss == [i \in DOMAIN lists |-> LocalsOf(lists[i], p)]
<1>1. IsSequence(lists) /\ ToSet(lists) \subseteq ToSet(c)
  BY LoopVarsAre
<1>2. LoopLocals(c, p) = FlattenSeq(ss)
  BY DEF LoopLocals, EachOf
<1> HIDE DEF lists
<1>3. DOMAIN lists = 1..Len(lists) /\ Len(lists) \in Nat
  BY <1>1 DEF IsSequence
<1>4. ss = [i \in 1..Len(lists) |-> ss[i]] /\ \A i \in DOMAIN lists : lists[i] \in ToSet(lists) /\ ss[i] = LocalsOf(lists[i], p)
  BY <1>3 DEF ToSet
<1> HIDE DEF ss
<1>5. IsSequence(ss) /\ DOMAIN ss = DOMAIN lists
  BY <1>3, <1>4, Listed
<1>6. \A list \in ToSet(c) : list.kind \in {"bare", "braced", "quoted"} /\ list.script \in Script(d)
  BY DEF HasCommandWords, ToSet
<1>7. \A list \in ToSet(lists) :
        /\ IsSequence(LocalsOf(list, p))
        /\ IsNameList(list) => \A name \in ListNames(list) : \E x \in ToSet(LocalsOf(list, p)) : IsLocal(x, name, p.scope)
  BY <1>1, <1>6, LocalsOfAre
<1>8. AllSequences(ss)
  <2>1. \A i \in DOMAIN lists : IsSequence(ss[i])
    BY <1>4, <1>7
  <2>2. QED
    BY <1>5, <2>1 DEF AllSequences
<1>9. IsSequence(FlattenSeq(ss)) /\ ToSet(FlattenSeq(ss)) = UNION {ToSet(ss[i]) : i \in DOMAIN ss}
  BY <1>8, Flattened
<1>10. \A list \in ToSet(lists) : ToSet(LocalsOf(list, p)) \subseteq ToSet(FlattenSeq(ss))
  <2> TAKE list \in ToSet(lists)
  <2>1. PICK i \in DOMAIN lists : list = lists[i]
    BY DEF ToSet
  <2>2. QED
    BY <1>4, <1>5, <1>9, <2>1
<1>11. QED
  BY <1>2, <1>7, <1>9, <1>10 DEF lists

VariableLocal(c, p) == Where(isCmd(c, "variable") /\ HasName(c), <<Local(c[2], NoOrigin, p)>>)
SetLocal(c, p) == Where(IsOneOf(c, {"set", "incr", "append", "lappend"}) /\ HasTarget(c), <<Local(c[2], NoOrigin, p)>>)
LinkAt(c) == {i \in DOMAIN c : i > 1 /\ isLiteralName(c[i])}
Links(c, p) == EachOf(TakenAt(c, LinkAt(c)), LAMBDA word : <<Local(word, globalOrigin(word.text), p)>>)
Level(c) == IF Len(c) > 1 /\ isUpvarLevel(c[2]) THEN 1 ELSE 0
IsAlias(c, i) == i >= 3 + Level(c) /\ (i - Level(c)) % 2 = 1 /\ isLiteralName(c[i])
Alias(c, i, p) ==
  Where(IsAlias(c, i), <<Local(c[i], upvarOrigin(Level(c) = 1 /\ IsKeyword(c[2], {"#0"}), c[i - 1]), p)>>)
Aliases(c, p) == FlattenSeq([i \in DOMAIN c |-> Alias(c, i, p)])

LEMMA LinksAre ==
  ASSUME NEW d, NEW c, HasCommandWords(c, d), NEW p
  PROVE  /\ IsSequence(Links(c, p))
         /\ \A i \in LinkAt(c) : \E x \in ToSet(Links(c, p)) : IsLocal(x, c[i].text, p.scope)
<1> DEFINE words == TakenAt(c, LinkAt(c))
           Link(word) == Local(word, globalOrigin(word.text), p)
           ss == [i \in DOMAIN words |-> <<Link(words[i])>>]
<1>1. IsSequence(c) /\ LinkAt(c) \in SUBSET DOMAIN c
  BY DEF HasCommandWords, LinkAt
<1>2. IsSequence(words) /\ ToSet(words) = {c[i] : i \in LinkAt(c)}
  BY <1>1, Taken
<1>3. Links(c, p) = FlattenSeq(ss)
  BY DEF Links, EachOf
<1> HIDE DEF words
<1>4. DOMAIN words = 1..Len(words) /\ Len(words) \in Nat
  BY <1>2 DEF IsSequence
<1>5. ss = [i \in 1..Len(words) |-> ss[i]] /\ \A i \in DOMAIN words : ss[i] = <<Link(words[i])>>
  BY <1>4
<1>6. \A word : IsLocal(Link(word), word.text, p.scope)
  BY LocalIs
<1> HIDE DEF ss, Link
<1>7. IsSequence(ss) /\ DOMAIN ss = DOMAIN words
  BY <1>4, <1>5, Listed
<1>8. \A i \in DOMAIN words : IsSequence(ss[i]) /\ Link(words[i]) \in ToSet(ss[i])
  BY <1>5, OneElement
<1>9. AllSequences(ss)
  BY <1>7, <1>8 DEF AllSequences
<1>10. IsSequence(FlattenSeq(ss)) /\ ToSet(FlattenSeq(ss)) = UNION {ToSet(ss[i]) : i \in DOMAIN ss}
  BY <1>9, Flattened
<1>11. ASSUME NEW i \in LinkAt(c) PROVE \E x \in ToSet(FlattenSeq(ss)) : IsLocal(x, c[i].text, p.scope)
  <2>1. PICK k \in DOMAIN words : words[k] = c[i]
    BY <1>2 DEF ToSet
  <2>2. Link(words[k]) \in ToSet(FlattenSeq(ss)) /\ IsLocal(Link(words[k]), c[i].text, p.scope)
    BY <1>6, <1>7, <1>8, <1>10, <2>1
  <2>3. QED
    BY <2>2
<1>12. QED
  BY <1>3, <1>10, <1>11

LEMMA AliasesAre ==
  ASSUME NEW d, NEW c, HasCommandWords(c, d), NEW p
  PROVE  /\ IsSequence(Aliases(c, p))
         /\ \A i \in DOMAIN c : IsAlias(c, i) => \E x \in ToSet(Aliases(c, p)) : IsLocal(x, c[i].text, p.scope)
<1> DEFINE ss == [i \in DOMAIN c |-> Alias(c, i, p)]
<1>1. DOMAIN c = 1..Len(c) /\ Len(c) \in Nat
  BY DEF HasCommandWords
<1>2. ss = [i \in 1..Len(c) |-> ss[i]] /\ \A i \in DOMAIN c : ss[i] = Alias(c, i, p)
  BY <1>1
<1>3. Aliases(c, p) = FlattenSeq(ss)
  BY DEF Aliases
<1>4. \A i \in DOMAIN c : /\ IsSequence(Alias(c, i, p))
                          /\ IsAlias(c, i) => \E x \in ToSet(Alias(c, i, p)) : IsLocal(x, c[i].text, p.scope)
  BY OneElement, EmptySequence, LocalIs DEF Alias, Where
<1> HIDE DEF ss
<1>5. IsSequence(ss) /\ DOMAIN ss = DOMAIN c
  BY <1>1, <1>2, Listed
<1>6. AllSequences(ss)
  BY <1>2, <1>4, <1>5 DEF AllSequences
<1>7. IsSequence(FlattenSeq(ss)) /\ ToSet(FlattenSeq(ss)) = UNION {ToSet(ss[i]) : i \in DOMAIN ss}
  BY <1>6, Flattened
<1>8. \A i \in DOMAIN c : ToSet(Alias(c, i, p)) \subseteq ToSet(FlattenSeq(ss))
  BY <1>2, <1>5, <1>7
<1>9. QED
  BY <1>3, <1>4, <1>7, <1>8

LEMMA LocalDefsAre ==
  ASSUME NEW d \in 0..Nesting, NEW c, HasCommandWords(c, d), NEW p
  PROVE  /\ IsSequence(localDefs(c, p))
         /\ HasWords(c) => \A name \in Binds(c) : \E x \in ToSet(localDefs(c, p)) : IsLocal(x, name, p.scope)
<1> DEFINE a1 == VariableLocal(c, p)
           a2 == SetLocal(c, p)
           a3 == Where(isCmd(c, "global"), Links(c, p))
           a4 == Where(isCmd(c, "upvar") /\ Len(c) >= 3, Aliases(c, p))
           a5 == LoopLocals(c, p)
<1>0. DOMAIN c = 1..Len(c) /\ Len(c) \in Nat
  BY DEF HasCommandWords
<1>1. localDefs(c, p) = a1 \o a2 \o a3 \o a4 \o a5
  <2>1. WordsAt(c, LAMBDA i : i > 1 /\ isLiteralName(c[i])) = TakenAt(c, LinkAt(c))
    BY DEF WordsAt, TakenAt, LinkAt
  <2>2. QED
    BY <2>1 DEF localDefs, VariableLocal, SetLocal, Links, Aliases, Alias, IsAlias, Level, LoopLocals, LocalsOf
<1>2. IsSequence(a1) /\ IsSequence(a2)
  BY OneElement, EmptySequence DEF VariableLocal, SetLocal, Where
<1>3. IsSequence(a3) /\ IsSequence(a4) /\ IsSequence(a5)
  BY LinksAre, AliasesAre, LoopLocalsAre, EmptySequence DEF Where
<1>4. isCmd(c, "variable") /\ HasName(c) => \E x \in ToSet(a1) : IsLocal(x, c[2].text, p.scope)
  BY OneElement, LocalIs DEF VariableLocal, Where
<1>5. IsOneOf(c, {"set", "incr", "append", "lappend"}) /\ HasTarget(c) => \E x \in ToSet(a2) : IsLocal(x, c[2].text, p.scope)
  BY OneElement, LocalIs DEF SetLocal, Where
<1>6. isCmd(c, "global") => \A i \in LinkAt(c) : \E x \in ToSet(a3) : IsLocal(x, c[i].text, p.scope)
  BY LinksAre DEF Where
<1>7. isCmd(c, "upvar") /\ Len(c) >= 3 => \A i \in DOMAIN c : IsAlias(c, i) => \E x \in ToSet(a4) : IsLocal(x, c[i].text, p.scope)
  BY AliasesAre DEF Where
<1>8. \A list \in ToSet(LoopVars(c)) : IsNameList(list) =>
        \A name \in ListNames(list) : \E x \in ToSet(a5) : IsLocal(x, name, p.scope)
  BY LoopLocalsAre
<1> HIDE DEF a1, a2, a3, a4, a5
<1>9. /\ IsSequence(localDefs(c, p))
      /\ ToSet(localDefs(c, p)) = ToSet(a1) \cup ToSet(a2) \cup ToSet(a3) \cup ToSet(a4) \cup ToSet(a5)
  BY <1>1, <1>2, <1>3, JoinedFive
<1>10. ASSUME HasWords(c), NEW name \in Binds(c) PROVE \E x \in ToSet(localDefs(c, p)) : IsLocal(x, name, p.scope)
  <2>1. \A head : isCmd(c, head) => /\ \A other : isCmd(c, other) <=> other = head
                                    /\ \A heads : IsOneOf(c, heads) <=> head \in heads
    BY HeadIs
  <2>2. CASE isCmd(c, "variable")
    <3>0. Len(c) > 1 /\ isLiteralName(c[2])
      BY <1>10, <2>2 DEF HasWords
    <3>1. HasName(c)
      BY <1>0, <3>0 DEF HasName
    <3>2. name = c[2].text
      BY <1>10, <2>1, <2>2 DEF Binds
    <3>3. QED
      BY <1>4, <1>9, <2>2, <3>1, <3>2
  <2>3. CASE IsOneOf(c, {"set", "incr", "append", "lappend"})
    <3>0. Len(c) > 1 /\ IsTarget(c[2])
      BY <1>10, <2>3 DEF HasWords
    <3>1. HasTarget(c)
      BY <1>0, <3>0 DEF HasTarget
    <3>2. name = c[2].text
      <4>1. PICK head \in {"set", "incr", "append", "lappend"} : isCmd(c, head)
        BY <2>3 DEF IsOneOf
      <4>2. /\ IsOneOf(c, {"set", "incr", "append", "lappend", "variable"}) /\ ~isCmd(c, "global") /\ ~isCmd(c, "upvar")
            /\ ~isCmd(c, "foreach") /\ ~isCmd(c, "lassign") /\ ~isCmd(c, "dict")
        BY <2>1, <4>1
      <4>3. QED
        BY <1>10, <4>2 DEF Binds
    <3>3. QED
      BY <1>5, <1>9, <2>3, <3>1, <3>2
  <2>4. CASE isCmd(c, "global")
    <3>0. \A i \in 2..Len(c) : isLiteralName(c[i])
      BY <1>10, <2>4 DEF HasWords
    <3>1. \A i \in 2..Len(c) : i \in LinkAt(c)
      BY <1>0, <3>0 DEF LinkAt
    <3>2. \E i \in 2..Len(c) : name = c[i].text
      BY <1>10, <2>1, <2>4 DEF Binds
    <3>3. QED
      BY <1>6, <1>9, <2>4, <3>1, <3>2
  <2>5. CASE isCmd(c, "upvar")
    <3>1. Len(c) = 4 /\ isUpvarLevel(c[2]) /\ isLiteralName(c[4])
      BY <1>10, <2>5 DEF HasWords
    <3>2. Len(c) > 1 /\ Len(c) >= 3 /\ 4 \in DOMAIN c
      BY <1>0, <3>1
    <3>3. Level(c) = 1
      BY <3>1, <3>2 DEF Level
    <3>4. 4 >= 3 + 1 /\ (4 - 1) % 2 = 1
      OBVIOUS
    <3>5. IsAlias(c, 4)
      BY <3>1, <3>3, <3>4 DEF IsAlias
    <3>6. name = c[4].text
      BY <1>10, <2>1, <2>5 DEF Binds
    <3>7. QED
      BY <1>7, <1>9, <2>5, <3>2, <3>5, <3>6
  <2>6. CASE isCmd(c, "foreach")
    <3>1. \A i \in {j \in 2..Len(c) - 1 : j % 2 = 0} : IsNameList(c[i])
      BY <1>10, <2>6 DEF HasWords
    <3>2. PICK i \in {j \in 2..Len(c) - 1 : j % 2 = 0} : name \in ListNames(c[i])
      BY <1>10, <2>1, <2>6 DEF Binds
    <3>3. c[i] \in ToSet(LoopVars(c))
      BY <2>6, <3>2, LoopVarsAre
    <3>4. QED
      BY <1>8, <1>9, <3>1, <3>2, <3>3
  <2>7. CASE isCmd(c, "lassign")
    <3>1. \A i \in 3..Len(c) : IsNameList(c[i])
      BY <1>10, <2>7 DEF HasWords
    <3>2. PICK i \in 3..Len(c) : name \in ListNames(c[i])
      BY <1>10, <2>1, <2>7 DEF Binds
    <3>3. c[i] \in ToSet(LoopVars(c))
      BY <2>7, <3>2, LoopVarsAre
    <3>4. QED
      BY <1>8, <1>9, <3>1, <3>2, <3>3
  <2>8. CASE isCmd(c, "dict")
    <3>1. IsKeyword(c[2], {"for"}) /\ name \in ListNames(c[3])
      BY <1>10, <2>1, <2>8 DEF Binds
    <3>2. Len(c) = 5 /\ IsNameList(c[3])
      BY <1>10, <2>8, <3>1 DEF HasWords
    <3>3. c[3] \in ToSet(LoopVars(c))
      BY <2>8, <3>1, <3>2, LoopVarsAre
    <3>4. QED
      BY <1>8, <1>9, <3>1, <3>2, <3>3
  <2>9. CASE /\ ~isCmd(c, "variable") /\ ~IsOneOf(c, {"set", "incr", "append", "lappend"}) /\ ~isCmd(c, "global")
             /\ ~isCmd(c, "upvar") /\ ~isCmd(c, "foreach") /\ ~isCmd(c, "lassign") /\ ~isCmd(c, "dict")
    <3>1. ~IsOneOf(c, {"set", "incr", "append", "lappend", "variable"})
      BY <2>9 DEF IsOneOf
    <3>2. Binds(c) = {}
      BY <2>9, <3>1 DEF Binds
    <3>3. QED
      BY <1>10, <3>2
  <2>10. QED
    BY <2>2, <2>3, <2>4, <2>5, <2>6, <2>7, <2>8, <2>9
<1>11. QED
  BY <1>9, <1>10
\* The definitions of what a command creates, by the kind of command.
Named(kind, word, c, p) == <<Definition(kind, qualifyName(word.text, p.ns), word.at, p.class, c, p)>>
OfBody(c, p) == <<Definition("method", <<Last(c[2].text)>>, c[2].at, ClassOfBody(c[2].text, p.ns), c, p)>>
Defines(defs, e) == e \in {[kind |-> x.kind, name |-> x.name, class |-> x.class] : x \in ToSet(defs)}

LEMMA ScopeDefsAre ==
  ASSUME NEW c, NEW p
  PROVE  /\ IsSequence(scopeDefs(c, p))
         /\ isCmd(c, "proc") /\ HasName(c) => ToSet(Named("proc", c[2], c, p)) \subseteq ToSet(scopeDefs(c, p))
         /\ decoratedProcDef(c) > 0 =>
              ToSet(Named("proc", c[decoratedProcDef(c) + 1], c, p)) \subseteq ToSet(scopeDefs(c, p))
         /\ isCmd(c, "variable") /\ HasName(c) => ToSet(Named("nsvar", c[2], c, p)) \subseteq ToSet(scopeDefs(c, p))
         /\ isCmd(c, "set") /\ HasTarget(c) /\ p.frame = "namespace" =>
              ToSet(Named("nsvar", c[2], c, p)) \subseteq ToSet(scopeDefs(c, p))
         /\ IsItcl(c, "class") /\ Len(c) >= 3 /\ HasName(c) =>
              ToSet(Named("class", c[2], c, p)) \subseteq ToSet(scopeDefs(c, p))
         /\ IsItcl(c, "body") /\ HasName(c) /\ Front(c[2].text) \notin {<< >>, <<"">>} =>
              ToSet(OfBody(c, p)) \subseteq ToSet(scopeDefs(c, p))
<1> DEFINE a1 == Where(isCmd(c, "proc") /\ HasName(c), Named("proc", c[2], c, p))
           a2 == Where(decoratedProcDef(c) > 0, Named("proc", c[decoratedProcDef(c) + 1], c, p))
           a3 == Where(isCmd(c, "variable") /\ HasName(c), Named("nsvar", c[2], c, p))
           a4 == Where(isCmd(c, "set") /\ HasTarget(c) /\ p.frame = "namespace", Named("nsvar", c[2], c, p))
           a5 == Where(IsItcl(c, "class") /\ Len(c) >= 3 /\ HasName(c), Named("class", c[2], c, p))
           a6 == Where(IsItcl(c, "body") /\ HasName(c) /\ Front(c[2].text) \notin {<< >>, <<"">>}, OfBody(c, p))
<1>1. scopeDefs(c, p) = (a1 \o a2 \o a3 \o a4 \o a5) \o a6
  BY DEF scopeDefs, Named, OfBody
<1>2. \A kind, word : IsSequence(Named(kind, word, c, p))
  BY OneElement DEF Named
<1>3. IsSequence(OfBody(c, p))
  BY OneElement DEF OfBody
<1>4. /\ IsSequence(a1) /\ IsSequence(a2) /\ IsSequence(a3)
      /\ IsSequence(a4) /\ IsSequence(a5) /\ IsSequence(a6)
  BY <1>2, <1>3, EmptySequence DEF Where
<1>5. /\ isCmd(c, "proc") /\ HasName(c) => a1 = Named("proc", c[2], c, p)
      /\ decoratedProcDef(c) > 0 => a2 = Named("proc", c[decoratedProcDef(c) + 1], c, p)
      /\ isCmd(c, "variable") /\ HasName(c) => a3 = Named("nsvar", c[2], c, p)
      /\ isCmd(c, "set") /\ HasTarget(c) /\ p.frame = "namespace" => a4 = Named("nsvar", c[2], c, p)
      /\ IsItcl(c, "class") /\ Len(c) >= 3 /\ HasName(c) => a5 = Named("class", c[2], c, p)
      /\ IsItcl(c, "body") /\ HasName(c) /\ Front(c[2].text) \notin {<< >>, <<"">>} => a6 = OfBody(c, p)
  BY DEF Where
<1> HIDE DEF a1, a2, a3, a4, a5, a6
<1>6. /\ IsSequence(a1 \o a2 \o a3 \o a4 \o a5)
      /\ ToSet(a1 \o a2 \o a3 \o a4 \o a5) = ToSet(a1) \cup ToSet(a2) \cup ToSet(a3) \cup ToSet(a4) \cup ToSet(a5)
  BY <1>4, JoinedFive
<1>7. /\ IsSequence(scopeDefs(c, p))
      /\ ToSet(scopeDefs(c, p)) = ToSet(a1 \o a2 \o a3 \o a4 \o a5) \cup ToSet(a6)
  BY <1>1, <1>4, <1>6, Joined
<1>8. \A a \in {a1, a2, a3, a4, a5, a6} : ToSet(a) \subseteq ToSet(scopeDefs(c, p))
  BY <1>6, <1>7
<1>9. QED
  BY <1>5, <1>7, <1>8

LEMMA MemberDefsBy ==
  ASSUME NEW m, NEW c, NEW p
  PROVE  /\ IsOneOf(m, {"constructor", "destructor"}) =>
              memberDefs(m, c, p) = <<Definition("method", m[1].text, m[1].at, p.class, c, p)>>
         /\ IsOneOf(m, {"method", "proc"}) /\ HasName(m) =>
              memberDefs(m, c, p) = <<Definition("method", m[2].text, m[2].at, p.class, c, p)>>
         /\ IsOneOf(m, {"variable", "common"}) /\ HasName(m) =>
              memberDefs(m, c, p) = <<Definition("ivar", m[2].text, m[2].at, p.class, c, p)>>
         /\ IsSequence(memberDefs(m, c, p))
<1>1. /\ IsOneOf(m, {"constructor", "destructor"}) => ~IsOneOf(m, {"method", "proc"}) /\ ~IsOneOf(m, {"variable", "common"})
      /\ IsOneOf(m, {"method", "proc"}) => ~IsOneOf(m, {"variable", "common"})
  BY HeadIs DEF IsOneOf
<1>2. CASE IsOneOf(m, {"constructor", "destructor"})
  BY <1>1, <1>2, OneElement DEF memberDefs
<1>3. CASE IsOneOf(m, {"method", "proc"}) /\ HasName(m)
  BY <1>1, <1>3, OneElement DEF memberDefs
<1>4. CASE IsOneOf(m, {"variable", "common"}) /\ HasName(m)
  BY <1>1, <1>4, OneElement DEF memberDefs
<1>5. CASE /\ ~IsOneOf(m, {"constructor", "destructor"}) /\ ~(IsOneOf(m, {"method", "proc"}) /\ HasName(m))
           /\ ~(IsOneOf(m, {"variable", "common"}) /\ HasName(m))
  BY <1>5, EmptySequence DEF memberDefs
<1>6. QED
  BY <1>2, <1>3, <1>4, <1>5

LEMMA EmitDefsAre ==
  ASSUME NEW d \in 0..Nesting, NEW c, HasCommandWords(c, d), NEW p
  PROVE  /\ IsSequence(emitDefs(c, p))
         /\ p.frame = "class" => emitDefs(c, p) = memberDefs(memberWords(c), c, p)
         /\ p.frame # "class" => ToSet(scopeDefs(c, p)) \subseteq ToSet(emitDefs(c, p))
         /\ p.frame = "proc" => ToSet(localDefs(c, p)) \subseteq ToSet(emitDefs(c, p))
<1>1. IsSequence(memberDefs(memberWords(c), c, p))
  BY MemberDefsBy
<1>2. IsSequence(scopeDefs(c, p))
  BY ScopeDefsAre
<1>3. IsSequence(localDefs(c, p))
  BY LocalDefsAre
<1>4. CASE p.frame = "class"
  BY <1>1, <1>4 DEF emitDefs
<1>5. CASE p.frame # "class"
  <2> DEFINE rest == Where(p.frame = "proc", localDefs(c, p))
  <2>1. IsSequence(rest) /\ (p.frame = "proc" => rest = localDefs(c, p))
    BY <1>3, EmptySequence DEF Where
  <2>2. emitDefs(c, p) = scopeDefs(c, p) \o rest
    BY <1>5 DEF emitDefs
  <2> HIDE DEF rest
  <2>3. IsSequence(emitDefs(c, p)) /\ ToSet(emitDefs(c, p)) = ToSet(scopeDefs(c, p)) \cup ToSet(rest)
    BY <1>2, <2>1, <2>2, Joined
  <2>4. QED
    BY <1>5, <2>1, <2>3
<1>6. QED
  BY <1>4, <1>5

\* What a command creates in a class is a member of it.
LEMMA MemberFound ==
  ASSUME NEW d \in 0..Nesting, NEW c, HasCommandWords(c, d), HasMemberWords(c), NEW p, NEW f,
         p.frame = "class", f.frame = p.frame, f.class = p.class, NEW e \in Creates(c, f)
  PROVE  Defines(emitDefs(c, p), e)
<1> DEFINE m == Member(c)
<1>1. emitDefs(c, p) = memberDefs(m, c, p) /\ HasCommandWords(m, d)
  BY EmitDefsAre, MemberIs
<1>2. IsOneOf(m, {"method", "proc", "variable", "common"}) => HasName(m)
  <2>1. IsOneOf(m, {"method", "proc", "variable", "common"}) => Len(m) > 1 /\ isLiteralName(m[2])
    BY DEF HasMemberWords
  <2>2. Len(m) \in Nat
    BY <1>1 DEF HasCommandWords
  <2>3. QED
    BY <2>1, <2>2 DEF HasName
<1>3. /\ IsOneOf(m, {"method", "proc"}) => ~IsOneOf(m, {"constructor", "destructor"}) /\ ~IsOneOf(m, {"variable", "common"})
      /\ IsOneOf(m, {"constructor", "destructor"}) => ~IsOneOf(m, {"variable", "common"})
      /\ IsOneOf(m, {"method", "proc"}) \/ IsOneOf(m, {"variable", "common"}) =>
           IsOneOf(m, {"method", "proc", "variable", "common"})
  BY HeadIs DEF IsOneOf
<1> DEFINE Is(kind, name) == {[kind |-> kind, name |-> name, class |-> f.class]}
<1>4. Creates(c, f) = CASE IsOneOf(m, {"method", "proc"})            -> Is("method", m[2].text)
                        [] IsOneOf(m, {"constructor", "destructor"}) -> Is("method", m[1].text)
                        [] IsOneOf(m, {"variable", "common"})        -> Is("ivar", m[2].text)
                        [] OTHER                                     -> {}
  BY DEF Creates
<1> HIDE DEF m
<1>5. CASE IsOneOf(m, {"method", "proc"})
  <2>1. e = [kind |-> "method", name |-> m[2].text, class |-> p.class]
    BY <1>3, <1>4, <1>5
  <2>2. ToSet(emitDefs(c, p)) = {Definition("method", m[2].text, m[2].at, p.class, c, p)}
    BY <1>1, <1>2, <1>3, <1>5, MemberDefsBy, OneElement
  <2>3. QED
    BY <2>1, <2>2 DEF Defines, Definition
<1>6. CASE IsOneOf(m, {"constructor", "destructor"})
  <2>1. e = [kind |-> "method", name |-> m[1].text, class |-> p.class]
    BY <1>3, <1>4, <1>6
  <2>2. ToSet(emitDefs(c, p)) = {Definition("method", m[1].text, m[1].at, p.class, c, p)}
    BY <1>1, <1>6, MemberDefsBy, OneElement
  <2>3. QED
    BY <2>1, <2>2 DEF Defines, Definition
<1>7. CASE IsOneOf(m, {"variable", "common"})
  <2>1. e = [kind |-> "ivar", name |-> m[2].text, class |-> p.class]
    BY <1>3, <1>4, <1>7
  <2>2. ToSet(emitDefs(c, p)) = {Definition("ivar", m[2].text, m[2].at, p.class, c, p)}
    BY <1>1, <1>2, <1>3, <1>7, MemberDefsBy, OneElement
  <2>3. QED
    BY <2>1, <2>2 DEF Defines, Definition
<1>8. CASE ~IsOneOf(m, {"method", "proc"}) /\ ~IsOneOf(m, {"constructor", "destructor"}) /\ ~IsOneOf(m, {"variable", "common"})
  BY <1>4, <1>8
<1>9. QED
  BY <1>5, <1>6, <1>7, <1>8
\* What a command creates elsewhere is defined by its fully-qualified name.
LEMMA NamedDefines ==
  ASSUME NEW defs, NEW kind, NEW word, NEW c, NEW p, NEW e,
         ToSet(Named(kind, word, c, p)) \subseteq ToSet(defs),
         e = [kind |-> kind, name |-> Within(word.text, p.ns), class |-> p.class]
  PROVE  Defines(defs, e)
<1>1. Definition(kind, qualifyName(word.text, p.ns), word.at, p.class, c, p) \in ToSet(defs)
  BY OneElement DEF Named
<1>2. e = [kind |-> kind, name |-> qualifyName(word.text, p.ns), class |-> p.class]
  BY WithinIs
<1>3. QED
  BY <1>1, <1>2 DEF Defines, Definition

LEMMA NamedFound ==
  ASSUME NEW d \in 0..Nesting, NEW c, HasCommandWords(c, d), HasWords(c), NEW p, NEW f,
         p.frame # "class", f.frame = p.frame, f.class = p.class, f.ns = p.ns, NEW e \in Creates(c, f)
  PROVE  Defines(scopeDefs(c, p), e)
<1>0. Len(c) \in Nat
  BY DEF HasCommandWords
<1> DEFINE Is(kind, word) == {[kind |-> kind, name |-> Within(word.text, p.ns), class |-> p.class]}
           Body == {[kind |-> "method", name |-> <<Last(c[2].text)>>, class |-> Within(Front(c[2].text), p.ns)]}
<1>1. Creates(c, f) = CASE isCmd(c, "proc")       -> Is("proc", c[2])
                        [] isCmd(c, "CACHE_PROC") -> Is("proc", c[3])
                        [] isCmd(c, "variable")   -> Is("nsvar", c[2])
                        [] isCmd(c, "set")        -> IF p.frame = "namespace" THEN Is("nsvar", c[2]) ELSE {}
                        [] IsItcl(c, "class")     -> Is("class", c[2])
                        [] IsItcl(c, "body")      -> Body
                        [] OTHER                  -> {}
  BY DEF Creates
<1>2. /\ \A head : isCmd(c, head) => /\ \A other : isCmd(c, other) <=> other = head
                                     /\ \A other : ~IsItcl(c, other)
      /\ \A head : IsItcl(c, head) => /\ \A other : ~isCmd(c, other)
                                      /\ \A other : IsItcl(c, other) <=> other = head
  BY HeadIs, ItclIs
<1>3. \A n \in Nat : (n = 4 => n >= 2) /\ (n = 3 => n >= 2 /\ n >= 3) /\ (n > 1 => n >= 2)
  OBVIOUS
<1>4. CASE isCmd(c, "proc")
  <2>1. e = [kind |-> "proc", name |-> Within(c[2].text, p.ns), class |-> p.class]
    BY <1>1, <1>2, <1>4
  <2>2. Len(c) = 4 /\ isLiteralName(c[2])
    BY <1>4 DEF HasWords
  <2>3. HasName(c)
    BY <1>0, <1>3, <2>2 DEF HasName
  <2>4. QED
    BY <1>4, <2>1, <2>3, ScopeDefsAre, NamedDefines
<1>5. CASE isCmd(c, "CACHE_PROC")
  <2>1. e = [kind |-> "proc", name |-> Within(c[3].text, p.ns), class |-> p.class]
    BY <1>1, <1>2, <1>5
  <2>2. decoratedProcDef(c) = 2 /\ 2 > 0 /\ 2 + 1 = 3
    BY <1>5, CacheProcIs
  <2>3. ToSet(Named("proc", c[3], c, p)) \subseteq ToSet(scopeDefs(c, p))
    BY <2>2, ScopeDefsAre
  <2>4. QED
    BY <2>1, <2>3, NamedDefines
<1>6. CASE isCmd(c, "variable")
  <2>1. e = [kind |-> "nsvar", name |-> Within(c[2].text, p.ns), class |-> p.class]
    BY <1>1, <1>2, <1>6
  <2>2. Len(c) > 1 /\ isLiteralName(c[2])
    BY <1>6 DEF HasWords
  <2>3. HasName(c)
    BY <1>0, <1>3, <2>2 DEF HasName
  <2>4. QED
    BY <1>6, <2>1, <2>3, ScopeDefsAre, NamedDefines
<1>7. CASE isCmd(c, "set")
  <2>1. p.frame = "namespace" /\ e = [kind |-> "nsvar", name |-> Within(c[2].text, p.ns), class |-> p.class]
    BY <1>1, <1>2, <1>7
  <2>2. IsOneOf(c, {"set", "incr", "append", "lappend"})
    BY <1>7 DEF IsOneOf
  <2>3. Len(c) > 1 /\ IsTarget(c[2])
    BY <2>2 DEF HasWords
  <2>4. HasTarget(c)
    BY <1>0, <1>3, <2>3 DEF HasTarget
  <2>5. QED
    BY <1>7, <2>1, <2>4, ScopeDefsAre, NamedDefines
<1>8. CASE IsItcl(c, "class")
  <2>1. e = [kind |-> "class", name |-> Within(c[2].text, p.ns), class |-> p.class]
    BY <1>1, <1>2, <1>8
  <2>2. Len(c) = 3 /\ isLiteralName(c[2])
    BY <1>8 DEF HasWords
  <2>3. HasName(c) /\ Len(c) >= 3
    BY <1>0, <1>3, <2>2 DEF HasName
  <2>4. QED
    BY <1>8, <2>1, <2>3, ScopeDefsAre, NamedDefines
<1>9. CASE IsItcl(c, "body")
  <2>1. e = [kind |-> "method", name |-> <<Last(c[2].text)>>, class |-> Within(Front(c[2].text), p.ns)]
    BY <1>1, <1>2, <1>9
  <2>2. Len(c) = 4 /\ isLiteralName(c[2])
    BY <1>9 DEF HasWords
  <2>3. Front(c[2].text) \notin {<< >>, <<"">>}
    BY <1>9 DEF HasWords
  <2>4. HasName(c)
    BY <1>0, <1>3, <2>2 DEF HasName
  <2>5. ToSet(OfBody(c, p)) \subseteq ToSet(scopeDefs(c, p))
    BY <1>9, <2>3, <2>4, ScopeDefsAre
  <2>6. Definition("method", <<Last(c[2].text)>>, c[2].at, ClassOfBody(c[2].text, p.ns), c, p) \in ToSet(scopeDefs(c, p))
    BY <2>5, OneElement DEF OfBody
  <2>7. ClassOfBody(c[2].text, p.ns) = Within(Front(c[2].text), p.ns)
    BY WithinIs DEF ClassOfBody
  <2>8. QED
    BY <2>1, <2>6, <2>7 DEF Defines, Definition
<1>10. CASE /\ ~isCmd(c, "proc") /\ ~isCmd(c, "CACHE_PROC") /\ ~isCmd(c, "variable") /\ ~isCmd(c, "set")
            /\ ~IsItcl(c, "class") /\ ~IsItcl(c, "body")
  BY <1>1, <1>10
<1>11. QED
  BY <1>4, <1>5, <1>6, <1>7, <1>8, <1>9, <1>10

\* What a command creates is among the definitions of its point.
LEMMA CreatesFound ==
  ASSUME NEW d \in 0..Nesting, NEW c, HasCommandWords(c, d), HasWords(c), NEW p, NEW f,
         p.frame = "class" => HasMemberWords(c),
         f.frame = p.frame, f.class = p.class, f.ns = p.ns, NEW e \in Creates(c, f)
  PROVE  Defines(emitDefs(c, p), e)
<1>1. CASE p.frame = "class"
  BY <1>1, MemberFound
<1>2. CASE p.frame # "class"
  <2>1. Defines(scopeDefs(c, p), e)
    BY <1>2, NamedFound
  <2>2. ToSet(scopeDefs(c, p)) \subseteq ToSet(emitDefs(c, p))
    BY <1>2, EmitDefsAre
  <2>3. QED
    BY <2>1, <2>2 DEF Defines
<1>3. QED
  BY <1>1, <1>2

\* The parameters of a proc are locals of its body, which is its fourth word,
\* or the fifth behind a decorator.
ParamLocals(list, body, p) ==
  EachOf(scanParams(list), LAMBDA word : <<[Local(word, NoOrigin, p) EXCEPT !.scope = body.at]>>)

LEMMA ParamLocalsAre ==
  ASSUME NEW d \in 0..Nesting, NEW list, list.kind \in {"bare", "braced", "quoted"}, list.script \in Script(d),
         NEW body, NEW p
  PROVE  /\ IsSequence(ParamLocals(list, body, p))
         /\ IsNameList(list) =>
              \A name \in ListNames(list) : \E x \in ToSet(ParamLocals(list, body, p)) : IsLocal(x, name, body.at)
<1> DEFINE words == scanParams(list)
           Param(word) == [Local(word, NoOrigin, p) EXCEPT !.scope = body.at]
           ss == [i \in DOMAIN words |-> <<Param(words[i])>>]
<1>1. ParamLocals(list, body, p) = FlattenSeq(ss)
  BY DEF ParamLocals, EachOf
<1>2. \A word : IsLocal(Param(word), word.text, body.at)
  BY DEF IsLocal, Local
<1>3. /\ IsSequence(words)
      /\ IsNameList(list) => \A name \in ListNames(list) : \E x \in ToSet(words) : x.text = name
  BY ScanParamsAre
<1> HIDE DEF words, Param
<1>4. DOMAIN words = 1..Len(words) /\ Len(words) \in Nat
  BY <1>3 DEF IsSequence
<1>5. ss = [i \in 1..Len(words) |-> ss[i]] /\ \A i \in DOMAIN words : ss[i] = <<Param(words[i])>>
  BY <1>4
<1> HIDE DEF ss
<1>6. IsSequence(ss) /\ DOMAIN ss = DOMAIN words
  BY <1>4, <1>5, Listed
<1>7. \A i \in DOMAIN words : IsSequence(ss[i]) /\ Param(words[i]) \in ToSet(ss[i])
  BY <1>5, OneElement
<1>8. AllSequences(ss)
  BY <1>6, <1>7 DEF AllSequences
<1>9. IsSequence(FlattenSeq(ss)) /\ ToSet(FlattenSeq(ss)) = UNION {ToSet(ss[i]) : i \in DOMAIN ss}
  BY <1>8, Flattened
<1>10. \A word \in ToSet(words) : Param(word) \in ToSet(FlattenSeq(ss))
  <2> TAKE word \in ToSet(words)
  <2>1. PICK i \in DOMAIN words : word = words[i]
    BY DEF ToSet
  <2>2. QED
    BY <1>6, <1>7, <1>9, <2>1
<1>11. QED
  BY <1>1, <1>2, <1>3, <1>9, <1>10
LEMMA ProcParamsAre ==
  ASSUME NEW d \in 0..Nesting, NEW c, HasCommandWords(c, d), NEW p
  PROVE  /\ IsSequence(emitProcParams(c, p))
         /\ isCmd(c, "proc") /\ Len(c) = 4 /\ Braced(c, 4) => emitProcParams(c, p) = ParamLocals(c[3], c[4], p)
         /\ ~isCmd(c, "proc") /\ decoratedProcDef(c) = 2 => emitProcParams(c, p) = ParamLocals(c[4], c[5], p)
<1>0. Len(c) \in Nat /\ DOMAIN c = 1..Len(c)
  BY DEF HasCommandWords
<1>1. emitProcParams(c, p) = IF isCmd(c, "proc") /\ Len(c) >= 4 /\ Braced(c, Len(c)) THEN ParamLocals(c[3], c[Len(c)], p)
                             ELSE Where(decoratedProcDef(c) > 0,
                                        ParamLocals(c[decoratedProcDef(c) + 2], c[decoratedProcDef(c) + 3], p))
  BY DEF emitProcParams, ParamLocals
<1>2. \A i \in DOMAIN c : c[i].kind \in {"bare", "braced", "quoted"} /\ c[i].script \in Script(d)
  BY DEF HasCommandWords
<1>3. \A i \in DOMAIN c : \A body : IsSequence(ParamLocals(c[i], body, p))
  BY <1>2, ParamLocalsAre
<1>4. Len(c) >= 4 => 3 \in DOMAIN c
  BY <1>0
<1>5. decoratedProcDef(c) > 0 => decoratedProcDef(c) + 2 \in DOMAIN c
  BY <1>0, DecoratedIs
<1>6. IsSequence(emitProcParams(c, p))
  <2>1. CASE isCmd(c, "proc") /\ Len(c) >= 4 /\ Braced(c, Len(c))
    BY <1>1, <1>3, <1>4, <2>1
  <2>2. CASE ~(isCmd(c, "proc") /\ Len(c) >= 4 /\ Braced(c, Len(c))) /\ decoratedProcDef(c) > 0
    <3>1. emitProcParams(c, p) = ParamLocals(c[decoratedProcDef(c) + 2], c[decoratedProcDef(c) + 3], p)
      BY <1>1, <2>2 DEF Where
    <3>2. QED
      BY <1>3, <1>5, <2>2, <3>1
  <2>3. CASE ~(isCmd(c, "proc") /\ Len(c) >= 4 /\ Braced(c, Len(c))) /\ ~(decoratedProcDef(c) > 0)
    BY <1>1, <2>3, EmptySequence DEF Where
  <2>4. QED
    BY <2>1, <2>2, <2>3
<1>7. isCmd(c, "proc") /\ Len(c) = 4 /\ Braced(c, 4) => emitProcParams(c, p) = ParamLocals(c[3], c[4], p)
  BY <1>1
<1>8. ASSUME ~isCmd(c, "proc"), decoratedProcDef(c) = 2 PROVE emitProcParams(c, p) = ParamLocals(c[4], c[5], p)
  <2>1. decoratedProcDef(c) > 0 /\ decoratedProcDef(c) + 2 = 4 /\ decoratedProcDef(c) + 3 = 5
    BY <1>8
  <2>2. QED
    BY <1>1, <1>8, <2>1 DEF Where
<1>9. QED
  BY <1>6, <1>7, <1>8

\* The parameters of a proc that the interpreter binds.
LEMMA ProcParamsFound ==
  ASSUME NEW d \in 0..Nesting, NEW c, HasCommandWords(c, d), HasWords(c), NEW p
  PROVE  /\ isCmd(c, "proc") => \A name \in ListNames(c[3]) :
              \E x \in ToSet(emitProcParams(c, p)) : IsLocal(x, name, c[4].at)
         /\ isCmd(c, "CACHE_PROC") => \A name \in ListNames(c[4]) :
              \E x \in ToSet(emitProcParams(c, p)) : IsLocal(x, name, c[5].at)
<1>0. Len(c) \in Nat /\ DOMAIN c = 1..Len(c)
  BY DEF HasCommandWords
<1>1. \A i \in DOMAIN c : c[i].kind \in {"bare", "braced", "quoted"} /\ c[i].script \in Script(d)
  BY DEF HasCommandWords
<1>2. CASE isCmd(c, "proc")
  <2>1. Len(c) = 4 /\ IsNameList(c[3]) /\ Braced(c, 4)
    BY <1>2 DEF HasWords
  <2>2. 3 \in DOMAIN c
    BY <1>0, <2>1
  <2>3. emitProcParams(c, p) = ParamLocals(c[3], c[4], p) /\ ~isCmd(c, "CACHE_PROC")
    BY <1>2, <2>1, ProcParamsAre, HeadIs
  <2>4. QED
    BY <1>1, <2>1, <2>2, <2>3, ParamLocalsAre
<1>3. CASE isCmd(c, "CACHE_PROC")
  <2>1. Len(c) > 4 /\ IsNameList(c[4])
    BY <1>3 DEF HasWords
  <2>2. 4 \in DOMAIN c
    BY <1>0, <2>1
  <2>3. ~isCmd(c, "proc") /\ decoratedProcDef(c) = 2
    BY <1>3, CacheProcIs, HeadIs
  <2>4. emitProcParams(c, p) = ParamLocals(c[4], c[5], p)
    BY <2>3, ProcParamsAre
  <2>5. QED
    BY <1>1, <2>1, <2>2, <2>3, <2>4, ParamLocalsAre
<1>4. QED
  BY <1>2, <1>3

----------------------------------------------------------------------------
(* The collectors of the walk gather what each of its points gives.        *)

PointOf(script) == ToSet(walkAll(script))

LEMMA PointIs ==
  ASSUME NEW script \in Script(Nesting), NEW p \in PointOf(script)
  PROVE  \E d \in 0..Nesting : p.cmd \in Command(d) /\ HasCommandWords(p.cmd, d)
<1>1. IsPoint(p)
  BY WalkReaches DEF PointOf
<1> DEFINE d == Nesting - 1 - p.depth
<1>2. p.depth \in 0..(Nesting - 1) /\ p.cmd \in Command(d)
  BY <1>1 DEF IsPoint
<1>3. d \in 0..Nesting
  BY <1>2, NestingAssumption
<1> HIDE DEF d
<1>4. QED
  BY <1>2, <1>3, CommandIs

LEMMA DefsGathered ==
  ASSUME NEW script \in Script(Nesting), NEW p \in PointOf(script)
  PROVE  /\ ToSet(emitDefs(p.cmd, p)) \subseteq ToSet(FileAll(script).defs)
         /\ ToSet(emitProcParams(p.cmd, p)) \subseteq ToSet(FileAll(script).defs)
<1> DEFINE points == walkAll(script)
           Made(q) == emitDefs(q.cmd, q) \o emitProcParams(q.cmd, q)
           ss == [i \in DOMAIN points |-> Made(points[i])]
<1>1. FileAll(script).defs = FlattenSeq(ss)
  BY DEF FileAll, EachOf
<1>2. \A q \in PointOf(script) : /\ IsSequence(Made(q))
                                 /\ ToSet(Made(q)) = ToSet(emitDefs(q.cmd, q)) \cup ToSet(emitProcParams(q.cmd, q))
  <2> TAKE q \in PointOf(script)
  <2>1. PICK d \in 0..Nesting : HasCommandWords(q.cmd, d)
    BY PointIs
  <2>2. IsSequence(emitDefs(q.cmd, q)) /\ IsSequence(emitProcParams(q.cmd, q))
    BY <2>1, EmitDefsAre, ProcParamsAre
  <2>3. QED
    BY <2>2, Joined
<1>3. IsSequence(points) /\ PointOf(script) = ToSet(points)
  BY WalkReaches DEF PointOf
<1> HIDE DEF points, Made
<1>4. DOMAIN points = 1..Len(points) /\ Len(points) \in Nat
  BY <1>3 DEF IsSequence
<1>5. ss = [i \in 1..Len(points) |-> ss[i]] /\ \A i \in DOMAIN points : ss[i] = Made(points[i]) /\ points[i] \in ToSet(points)
  BY <1>4 DEF ToSet
<1> HIDE DEF ss
<1>6. IsSequence(ss) /\ DOMAIN ss = DOMAIN points
  BY <1>4, <1>5, Listed
<1>7. AllSequences(ss)
  <2>1. ASSUME NEW i \in DOMAIN ss
        PROVE  IsSequence(ss[i])
    <3>1. points[i] \in PointOf(script) /\ ss[i] = Made(points[i])
      BY <1>3, <1>5, <1>6, <2>1
    <3>2. QED
      BY <1>2, <3>1
  <2>2. QED
    BY <1>6, <2>1 DEF AllSequences
<1>8. ToSet(FlattenSeq(ss)) = UNION {ToSet(ss[i]) : i \in DOMAIN ss}
  BY <1>7, Flattened
<1>9. PICK i \in DOMAIN points : points[i] = p
  BY <1>3 DEF ToSet
<1>10. ToSet(Made(p)) \subseteq ToSet(FlattenSeq(ss))
  BY <1>5, <1>6, <1>8, <1>9
<1>11. QED
  BY <1>1, <1>2, <1>10

Here(r, p) == [kind |-> r.kind, name |-> r.name, at |-> r.at, ns |-> p.ns, frame |-> p.frame, scope |-> p.scope,
               class |-> p.class]

LEMMA RefsGathered ==
  ASSUME NEW script, NEW p \in PointOf(script), NEW c \in {p.cmd} \cup substRefs(p.cmd), NEW r \in OwnRefs(c)
  PROVE  Here(r, p) \in FileAll(script).refs
<1>1. r \in CommandRefs(p.cmd)
  BY DEF CommandRefs
<1>2. FileAll(script).refs = UNION {{Here(x, q) : x \in CommandRefs(q.cmd)} : q \in ToSet(walkAll(script))}
  BY DEF FileAll, Here
<1>3. QED
  BY <1>1, <1>2 DEF PointOf
LEMMA FoldsGathered ==
  ASSUME NEW script, NEW p \in PointOf(script), NEW b \in ToSet(childBodies(p.cmd, p))
  PROVE  b.at \in FileAll(script).folds
<1>1. FileAll(script).folds = UNION {{x.at : x \in ToSet(childBodies(q.cmd, q))} : q \in ToSet(walkAll(script))}
  BY DEF FileAll, FileFolds
<1>2. QED
  BY <1>1 DEF PointOf

----------------------------------------------------------------------------
(* The inductive invariant: what runs, and what may be called, follows the *)
(* points of the walk.                                                     *)

FrameFields == {"todo", "at", "ns", "frame", "scope", "class", "listed", "exact"}

Agrees(f, p) == f.ns = p.ns /\ f.frame = p.frame /\ f.scope = p.scope /\ f.class = p.class

\* The command c, to be run in the frame f, is that of the point p or stands
\* in brackets below it.
Follows(f, c, p) ==
  /\ f.listed => c = p.cmd /\ f.frame = p.frame /\ f.scope = p.scope
  /\ ~f.listed => c \in substRefs(p.cmd)
  /\ f.exact => Agrees(f, p)

FrameFollows(points, f) ==
  /\ DOMAIN f = FrameFields /\ f.listed \in BOOLEAN /\ f.exact \in BOOLEAN
  /\ IsSequence(f.todo)
  /\ \A c \in ToSet(f.todo) : \E p \in points : Follows(f, c, p)

\* The proc or method m is a body of a point or stands in brackets below one,
\* and what its call binds is found.
BodyOf(m, p) ==
  \E b \in ToSet(childBodies(p.cmd, p)) :
    /\ b.script = m.body.script /\ b.at = m.body.at /\ b.frame = "proc" /\ b.scope = m.body.at
    /\ m.exact => b.ns = m.ns /\ b.class = m.class
CallFollows(points, defs, m) ==
  /\ m.listed \in BOOLEAN /\ m.exact \in BOOLEAN
  /\ IsSequence(m.body.script)
  /\ m.listed => \E p \in points : BodyOf(m, p)
  /\ m.listed /\ m.kind = "proc" =>
       \A name \in ListNames(m.params) : \E x \in ToSet(defs) : IsLocal(x, name, m.body.at)
  /\ ~m.listed => ~m.exact /\ \E p \in points : ToSet(m.body.script) \subseteq substRefs(p.cmd)

StackFollows == IsSequence(stack) /\ \A f \in ToSet(stack) : FrameFollows(PointOf(file), f) /\ f.todo # << >>
CallsFollow == \A m \in callable : CallFollows(PointOf(file), found.defs, m)

\* Outside brackets a body that runs is a fold, half of FoldsAreBodies.
BodiesFold == now.listed => now.bodies \subseteq found.folds

TclInv ==
  /\ file \in Sources /\ found = FileAll(file)
  /\ StackFollows
  /\ CallsFollow
  /\ EveryReferenceFound /\ ContextsExact /\ EveryDefinitionFound /\ EveryLocalFound
  /\ BodiesFold

\* The words of the commands that may run.
LEMMA SourcesAre ==
  ASSUME NEW script \in Sources
  PROVE  /\ script \in Script(Nesting) /\ script # << >> /\ InPlace(script, << >>)
         /\ \A p \in PointOf(script) :
              /\ HasWords(p.cmd)
              /\ p.frame = "class" => HasMemberWords(p.cmd)
              /\ \A c \in substRefs(p.cmd) :
                   /\ HasWords(c) /\ HasMemberWords(c)
                   /\ isCmd(c, "constructor") => Len(c) < 4
                   /\ isCmd(c, "method") => Len(c) # 3
              /\ \A c \in {p.cmd} \cup substRefs(p.cmd) : \A w \in ToSet(c) : InPlace(w.script \o w.subst, w.at)
BY SourcesAssumption DEF Accepted, PointOf, Script

\* A command that runs in the frame f, at or below the point p.
Runs(f, c, p, d) ==
  /\ Follows(f, c, p)
  /\ HasCommandWords(c, d) /\ HasWords(c)
  /\ f.frame = "class" \/ ~f.listed => HasMemberWords(c)
  /\ ~f.listed => (isCmd(c, "constructor") => Len(c) < 4) /\ (isCmd(c, "method") => Len(c) # 3)

LEMMA RunsAre ==
  ASSUME NEW script \in Sources, NEW f, f.listed \in BOOLEAN, NEW c, NEW p \in PointOf(script), Follows(f, c, p)
  PROVE  \E d \in 0..Nesting : Runs(f, c, p, d)
<1>1. PICK n \in 0..Nesting : p.cmd \in Command(n) /\ HasCommandWords(p.cmd, n)
  BY SourcesAre, PointIs
<1>2. CASE f.listed
  <2>1. c = p.cmd /\ f.frame = p.frame
    BY <1>2 DEF Follows
  <2>2. HasWords(c) /\ (f.frame = "class" => HasMemberWords(c)) /\ HasCommandWords(c, n)
    BY <1>1, <2>1, SourcesAre
  <2>3. QED
    BY <1>2, <2>2 DEF Runs
<1>3. CASE ~f.listed
  <2>1. c \in substRefs(p.cmd)
    BY <1>3 DEF Follows
  <2>2. PICK k \in 0..Nesting : c \in Command(k)
    BY <1>1, <2>1, SubstRefsAre
  <2>3. HasCommandWords(c, k)
    BY <2>2, CommandIs
  <2>4. /\ HasWords(c) /\ HasMemberWords(c)
        /\ isCmd(c, "constructor") => Len(c) < 4
        /\ isCmd(c, "method") => Len(c) # 3
    BY <2>1, SourcesAre
  <2>5. QED
    BY <1>3, <2>3, <2>4 DEF Runs
<1>4. QED
  BY <1>2, <1>3

\* A body the walk enters and the same body when it runs.
LEMMA BodyFollows ==
  ASSUME NEW script \in Script(Nesting), NEW p \in PointOf(script), NEW b \in ToSet(childBodies(p.cmd, p)), NEW f,
         f.listed = TRUE, f.todo = b.script, f.frame = b.frame, f.scope = b.scope,
         f.exact => f.ns = b.ns /\ f.class = b.class, NEW c \in ToSet(f.todo)
  PROVE  \E q \in PointOf(script) : Follows(f, c, q)
<1>1. Reached(PointOf(script), b)
  BY WalkReaches DEF PointOf
<1>2. PICK q \in PointOf(script) : Lies(q, c, b)
  BY <1>1 DEF Reached
<1>3. Follows(f, c, q)
  BY <1>2 DEF Lies, Follows, Agrees
<1>4. QED
  BY <1>3

\* The commands in the brackets and in the bodies of a command in brackets.
LEMMA BelowFollows ==
  ASSUME NEW script \in Script(Nesting), NEW p \in PointOf(script), NEW c \in substRefs(p.cmd)
  PROVE  Bracketed(c) \subseteq substRefs(p.cmd) /\ BodyCommands(c) \subseteq substRefs(p.cmd)
<1>1. PICK n \in 0..Nesting : p.cmd \in Command(n)
  BY PointIs
<1>2. QED
  BY <1>1, SubstRefsAre

Inside(f, word) == [f EXCEPT !.todo = word.script, !.at = word.at]

LEMMA InsideIs ==
  ASSUME NEW f, DOMAIN f = FrameFields, NEW word
  PROVE  /\ DOMAIN Inside(f, word) = FrameFields
         /\ Inside(f, word).todo = word.script /\ Inside(f, word).at = word.at
         /\ Inside(f, word).ns = f.ns /\ Inside(f, word).frame = f.frame /\ Inside(f, word).scope = f.scope
         /\ Inside(f, word).class = f.class /\ Inside(f, word).listed = f.listed /\ Inside(f, word).exact = f.exact
BY DEF Inside, FrameFields

\* A word that runs in the context of its command.
LEMMA StayFollows ==
  ASSUME NEW script \in Script(Nesting), NEW f, DOMAIN f = FrameFields, f.listed \in BOOLEAN, f.exact \in BOOLEAN,
         NEW c, NEW p \in PointOf(script), Follows(f, c, p),
         NEW word, IsSequence(word.script), \A q : Staying(word, q) \in ToSet(childBodies(c, q))
  PROVE  FrameFollows(PointOf(script), Inside(f, word))
<1> DEFINE g == Inside(f, word)
<1>1. /\ DOMAIN g = FrameFields /\ g.todo = word.script /\ g.ns = f.ns /\ g.frame = f.frame /\ g.scope = f.scope
      /\ g.class = f.class /\ g.listed = f.listed /\ g.exact = f.exact
  BY InsideIs
<1> HIDE DEF g
<1>2. ASSUME NEW e \in ToSet(g.todo) PROVE \E q \in PointOf(script) : Follows(g, e, q)
  <2>1. CASE f.listed
    <3> DEFINE b == Staying(word, p)
    <3>1. c = p.cmd /\ f.frame = p.frame /\ f.scope = p.scope /\ (f.exact => Agrees(f, p))
      BY <2>1 DEF Follows
    <3>2. b \in ToSet(childBodies(p.cmd, p))
      BY <3>1
    <3>3. g.todo = b.script /\ g.frame = b.frame /\ g.scope = b.scope /\ (g.exact => g.ns = b.ns /\ g.class = b.class)
      BY <1>1, <3>1 DEF Staying, Agrees
    <3>4. g.listed = TRUE
      BY <1>1, <2>1
    <3> HIDE DEF b
    <3>5. QED
      BY <1>2, <3>2, <3>3, <3>4, BodyFollows
  <2>2. CASE ~f.listed
    <3>1. c \in substRefs(p.cmd) /\ (f.exact => Agrees(f, p))
      BY <2>2 DEF Follows
    <3>2. ToSet(word.script) \subseteq BodyCommands(c)
      <4>1. Staying(word, TopLevel) \in ToSet(childBodies(c, TopLevel))
        OBVIOUS
      <4>2. Staying(word, TopLevel).script = word.script
        BY DEF Staying
      <4>3. QED
        BY <4>1, <4>2 DEF BodyCommands
    <3>3. e \in substRefs(p.cmd)
      BY <1>1, <1>2, <3>1, <3>2, BelowFollows
    <3>4. Follows(g, e, p)
      BY <1>1, <2>2, <3>1, <3>3 DEF Follows, Agrees
    <3>5. QED
      BY <3>4
  <2>3. QED
    BY <2>1, <2>2
<1>3. FrameFollows(PointOf(script), g)
  BY <1>1, <1>2 DEF FrameFollows
<1>4. QED
  BY <1>3 DEF g
Entered(f, word, ns, frame, class) ==
  [todo |-> word.script, at |-> word.at, ns |-> ns, frame |-> frame, class |-> class, scope |-> << >>,
   listed |-> f.listed, exact |-> f.exact /\ f.listed]

LEMMA EnteredIs ==
  ASSUME NEW f, f.listed \in BOOLEAN, f.exact \in BOOLEAN, NEW word, NEW ns, NEW frame, NEW class
  PROVE  LET g == Entered(f, word, ns, frame, class)
         IN  /\ DOMAIN g = FrameFields /\ g.todo = word.script /\ g.ns = ns /\ g.frame = frame /\ g.scope = << >>
             /\ g.class = class /\ g.listed = f.listed
             /\ g.exact \in BOOLEAN /\ (g.exact <=> f.exact /\ f.listed)
BY DEF Entered, FrameFields

\* A word that the command enters.  It may run elsewhere than the text says
\* only where the command does.
LEMMA EnterFollows ==
  ASSUME NEW script \in Script(Nesting), NEW f, f.listed \in BOOLEAN, f.exact \in BOOLEAN,
         NEW c, NEW p \in PointOf(script), Follows(f, c, p),
         NEW word, IsSequence(word.script), NEW ns, NEW frame, NEW class, frame # "proc", NEW ns1, NEW class1,
         Entering(word, ns1, frame, class1) \in ToSet(childBodies(c, p)),
         Agrees(f, p) => ns = ns1 /\ class = class1,
         NEW ns2, NEW class2, Entering(word, ns2, frame, class2) \in ToSet(childBodies(c, TopLevel))
  PROVE  FrameFollows(PointOf(script), Entered(f, word, ns, frame, class))
<1> DEFINE g == Entered(f, word, ns, frame, class)
<1>1. /\ DOMAIN g = FrameFields /\ g.todo = word.script /\ g.ns = ns /\ g.frame = frame /\ g.scope = << >>
      /\ g.class = class /\ g.listed = f.listed /\ g.exact \in BOOLEAN /\ (g.exact <=> f.exact /\ f.listed)
  BY EnteredIs
<1> HIDE DEF g
<1>2. ASSUME NEW e \in ToSet(g.todo) PROVE \E q \in PointOf(script) : Follows(g, e, q)
  <2>1. CASE f.listed
    <3> DEFINE b == Entering(word, ns1, frame, class1)
    <3>1. c = p.cmd /\ (f.exact => Agrees(f, p))
      BY <2>1 DEF Follows
    <3>2. b \in ToSet(childBodies(p.cmd, p))
      BY <3>1
    <3>3. g.todo = b.script /\ g.frame = b.frame /\ g.scope = b.scope /\ b.ns = ns1 /\ b.class = class1
      BY <1>1 DEF Entering
    <3>4. g.exact => g.ns = b.ns /\ g.class = b.class
      BY <1>1, <3>1, <3>3
    <3>5. g.listed = TRUE
      BY <1>1, <2>1
    <3> HIDE DEF b
    <3>6. QED
      BY <1>2, <3>2, <3>3, <3>4, <3>5, BodyFollows
  <2>2. CASE ~f.listed
    <3>1. c \in substRefs(p.cmd)
      BY <2>2 DEF Follows
    <3>2. ToSet(word.script) \subseteq BodyCommands(c)
      <4>1. Entering(word, ns2, frame, class2).script = word.script
        BY DEF Entering
      <4>2. QED
        BY <4>1 DEF BodyCommands
    <3>3. e \in substRefs(p.cmd)
      BY <1>1, <1>2, <3>1, <3>2, BelowFollows
    <3>4. Follows(g, e, p)
      BY <1>1, <2>2, <3>3 DEF Follows
    <3>5. QED
      BY <3>4
  <2>3. QED
    BY <2>1, <2>2
<1>3. FrameFollows(PointOf(script), g)
  BY <1>1, <1>2 DEF FrameFollows
<1>4. QED
  BY <1>3 DEF g

\* The scripts that a command starts.
LEMMA StartedBy ==
  ASSUME NEW c, NEW f
  PROVE  /\ isCmd(c, "namespace") /\ IsKeyword(c[2], {"eval"}) =>
              Started(c, f) = <<Entered(f, c[4], Within(c[3].text, f.ns), "namespace", f.class)>>
         /\ IsItcl(c, "class") =>
              Started(c, f) = <<Entered(f, c[3], f.ns, "class", Within(c[2].text, f.ns))>>
         /\ ~(isCmd(c, "namespace") /\ IsKeyword(c[2], {"eval"})) /\ ~IsItcl(c, "class") =>
              Started(c, f) = [i \in DOMAIN Scripts(c) |-> Inside(f, Scripts(c)[i])]
<1>1. IsItcl(c, "class") => ~isCmd(c, "namespace")
  BY ItclIs
<1>2. CASE isCmd(c, "namespace") /\ IsKeyword(c[2], {"eval"})
  BY <1>1, <1>2 DEF Started, Entered
<1>3. CASE IsItcl(c, "class")
  BY <1>1, <1>3 DEF Started, Entered
<1>4. CASE ~(isCmd(c, "namespace") /\ IsKeyword(c[2], {"eval"})) /\ ~IsItcl(c, "class")
  BY <1>4 DEF Started, Inside
<1>5. QED
  BY <1>1, <1>2, <1>3, <1>4

LEMMA EvalFollows ==
  ASSUME NEW script \in Script(Nesting), NEW f, f.listed \in BOOLEAN, f.exact \in BOOLEAN,
         NEW c, NEW p \in PointOf(script), NEW d \in 0..Nesting, Runs(f, c, p, d),
         isCmd(c, "namespace"), IsKeyword(c[2], {"eval"})
  PROVE  FrameFollows(PointOf(script), Entered(f, c[4], Within(c[3].text, f.ns), "namespace", f.class))
<1>1. Follows(f, c, p) /\ HasCommandWords(c, d) /\ HasWords(c)
  BY DEF Runs
<1>2. \A q : Len(c) = 4 /\ Entering(c[4], Within(c[3].text, q.ns), "namespace", q.class) \in ToSet(childBodies(c, q))
  BY <1>1, EvalFound
<1>3. 4 \in DOMAIN c
  BY <1>1, <1>2 DEF HasCommandWords
<1>4. IsSequence(c[4].script)
  BY <1>1, <1>3, ScriptIs DEF HasCommandWords
<1>5. Agrees(f, p) => Within(c[3].text, f.ns) = Within(c[3].text, p.ns) /\ f.class = p.class
  BY DEF Agrees
<1>6. Entering(c[4], Within(c[3].text, p.ns), "namespace", p.class) \in ToSet(childBodies(c, p))
  BY <1>2
<1>7. Entering(c[4], Within(c[3].text, TopLevel.ns), "namespace", TopLevel.class) \in ToSet(childBodies(c, TopLevel))
  BY <1>2
<1> DEFINE ns == Within(c[3].text, f.ns)
           ns1 == Within(c[3].text, p.ns)
           ns2 == Within(c[3].text, TopLevel.ns)
<1> HIDE DEF ns, ns1, ns2
<1>8. FrameFollows(PointOf(script), Entered(f, c[4], ns, "namespace", f.class))
  <2>1. /\ Entering(c[4], ns1, "namespace", p.class) \in ToSet(childBodies(c, p))
        /\ Entering(c[4], ns2, "namespace", TopLevel.class) \in ToSet(childBodies(c, TopLevel))
        /\ Agrees(f, p) => ns = ns1 /\ f.class = p.class
    BY <1>5, <1>6, <1>7 DEF ns, ns1, ns2
  <2>2. "namespace" # "proc"
    OBVIOUS
  <2>3. QED
    BY <1>1, <1>4, <2>1, <2>2, EnterFollows
<1>9. QED
  BY <1>8 DEF ns

LEMMA ClassFollows ==
  ASSUME NEW script \in Script(Nesting), NEW f, f.listed \in BOOLEAN, f.exact \in BOOLEAN,
         NEW c, NEW p \in PointOf(script), NEW d \in 0..Nesting, Runs(f, c, p, d), IsItcl(c, "class")
  PROVE  FrameFollows(PointOf(script), Entered(f, c[3], f.ns, "class", Within(c[2].text, f.ns)))
<1>1. Follows(f, c, p) /\ HasCommandWords(c, d) /\ HasWords(c)
  BY DEF Runs
<1>2. \A q : Len(c) = 3 /\ Entering(c[3], q.ns, "class", Within(c[2].text, q.ns)) \in ToSet(childBodies(c, q))
  BY <1>1, ClassFound
<1>3. 3 \in DOMAIN c
  BY <1>1, <1>2 DEF HasCommandWords
<1>4. IsSequence(c[3].script)
  BY <1>1, <1>3, ScriptIs DEF HasCommandWords
<1>5. Agrees(f, p) => f.ns = p.ns /\ Within(c[2].text, f.ns) = Within(c[2].text, p.ns)
  BY DEF Agrees
<1>6. Entering(c[3], p.ns, "class", Within(c[2].text, p.ns)) \in ToSet(childBodies(c, p))
  BY <1>2
<1>7. Entering(c[3], TopLevel.ns, "class", Within(c[2].text, TopLevel.ns)) \in ToSet(childBodies(c, TopLevel))
  BY <1>2
<1> DEFINE class == Within(c[2].text, f.ns)
           class1 == Within(c[2].text, p.ns)
           class2 == Within(c[2].text, TopLevel.ns)
<1> HIDE DEF class, class1, class2
<1>8. FrameFollows(PointOf(script), Entered(f, c[3], f.ns, "class", class))
  <2>1. /\ Entering(c[3], p.ns, "class", class1) \in ToSet(childBodies(c, p))
        /\ Entering(c[3], TopLevel.ns, "class", class2) \in ToSet(childBodies(c, TopLevel))
        /\ Agrees(f, p) => f.ns = p.ns /\ class = class1
    BY <1>5, <1>6, <1>7 DEF class, class1, class2
  <2>2. "class" # "proc"
    OBVIOUS
  <2>3. QED
    BY <1>1, <1>4, <2>1, <2>2, EnterFollows
<1>9. QED
  BY <1>8 DEF class
LEMMA InsideInside ==
  ASSUME NEW f, DOMAIN f = FrameFields, NEW word, NEW inner
  PROVE  Inside(Inside(f, word), inner) = Inside(f, inner)
BY DEF Inside, FrameFields

LEMMA ArmFollows ==
  ASSUME NEW script \in Script(Nesting), NEW f, DOMAIN f = FrameFields, f.listed \in BOOLEAN, f.exact \in BOOLEAN,
         NEW c, NEW p \in PointOf(script), NEW d \in 0..Nesting, Runs(f, c, p, d), NEW i \in Arms(c)
  PROVE  FrameFollows(PointOf(script), Inside(f, c[i]))
<1>1. Follows(f, c, p) /\ HasCommandWords(c, d) /\ HasWords(c)
  BY DEF Runs
<1>2. \A q : i \in DOMAIN c /\ Staying(c[i], q) \in ToSet(childBodies(c, q))
  BY <1>1, ArmFound
<1>3. IsSequence(c[i].script)
  BY <1>1, <1>2, ScriptIs DEF HasCommandWords
<1>4. QED
  BY <1>1, <1>2, <1>3, StayFollows

LEMMA SwitchArmFollows ==
  ASSUME NEW script \in Script(Nesting), NEW f, DOMAIN f = FrameFields, f.listed \in BOOLEAN, f.exact \in BOOLEAN,
         NEW c, NEW p \in PointOf(script), NEW d \in 0..Nesting, Runs(f, c, p, d), isCmd(c, "switch"),
         NEW arm \in ToSet(Last(c).script)
  PROVE  FrameFollows(PointOf(script), Inside(f, arm[2]))
<1> DEFINE list == c[Len(c)]
           g == Inside(f, list)
<1>1. Follows(f, c, p) /\ HasCommandWords(c, d) /\ HasWords(c)
  BY DEF Runs
<1>2. \A q : Staying(list, q) \in ToSet(childBodies(c, q))
  BY <1>1, SwitchFound
<1>3. Last(c) = list /\ Len(c) \in DOMAIN c
  BY <1>1 DEF Last, HasCommandWords
<1>4. IsArm(arm)
  BY <1>1 DEF HasWords
<1>5. list.script \in Script(d)
  BY <1>1, <1>3 DEF HasCommandWords
<1> HIDE DEF list
<1>6. IsSequence(list.script) /\ arm \in Command(d - 1) /\ d - 1 \in 0..Nesting
  BY <1>3, <1>5, ScriptIs
<1>7. HasCommandWords(arm, d - 1)
  BY <1>6, CommandIs
<1>8. FrameFollows(PointOf(script), g)
  BY <1>1, <1>2, <1>6, StayFollows
<1>9. DOMAIN g = FrameFields /\ g.listed \in BOOLEAN /\ g.exact \in BOOLEAN /\ g.todo = list.script
  <2> HIDE DEF list
  <2>1. DOMAIN g = FrameFields /\ g.listed = f.listed /\ g.exact = f.exact /\ g.todo = list.script
    BY InsideIs
  <2>2. QED
    BY <2>1
<1>10. Inside(g, arm[2]) = Inside(f, arm[2])
  BY InsideInside
<1> HIDE DEF g
<1>11. PICK q \in PointOf(script) : Follows(g, arm, q)
  BY <1>3, <1>8, <1>9 DEF FrameFollows
<1>12. \A r : Staying(arm[2], r) \in ToSet(childBodies(arm, r))
  BY <1>4, <1>7, SwitchArmFound
<1>13. IsSequence(arm[2].script)
  <2>1. Len(arm) = 2
    BY <1>4 DEF IsArm
  <2>2. 2 \in DOMAIN arm
    BY <1>7, <2>1 DEF HasCommandWords
  <2>3. arm[2].script \in Script(d - 1)
    BY <1>7, <2>2 DEF HasCommandWords
  <2>4. QED
    BY <1>6, <2>3, ScriptIs
<1>14. FrameFollows(PointOf(script), Inside(g, arm[2]))
  BY <1>9, <1>11, <1>12, <1>13, StayFollows
<1>15. QED
  BY <1>10, <1>14

LEMMA ScriptsFollow ==
  ASSUME NEW script \in Script(Nesting), NEW f, DOMAIN f = FrameFields, f.listed \in BOOLEAN, f.exact \in BOOLEAN,
         NEW c, NEW p \in PointOf(script), NEW d \in 0..Nesting, Runs(f, c, p, d)
  PROVE  /\ DOMAIN Scripts(c) = 1..Len(Scripts(c)) /\ Len(Scripts(c)) \in Nat
         /\ \A i \in DOMAIN Scripts(c) : FrameFollows(PointOf(script), Inside(f, Scripts(c)[i]))
<1>1. Follows(f, c, p) /\ HasCommandWords(c, d) /\ HasWords(c)
  BY DEF Runs
<1>2. CASE isCmd(c, "switch")
  <2> DEFINE arms == Last(c).script
  <2>1. Scripts(c) = [i \in DOMAIN arms |-> arms[i][2]]
    BY <1>2 DEF Scripts
  <2>2. IsSequence(arms)
    <3>1. Last(c) = c[Len(c)] /\ Len(c) \in DOMAIN c
      BY <1>1 DEF Last, HasCommandWords
    <3>2. QED
      BY <1>1, <3>1, ScriptIs DEF HasCommandWords
  <2>3. \A arm \in ToSet(arms) : FrameFollows(PointOf(script), Inside(f, arm[2]))
    BY <1>2, SwitchArmFollows
  <2> HIDE DEF arms
  <2>4. DOMAIN arms = 1..Len(arms) /\ Len(arms) \in Nat /\ \A i \in DOMAIN arms : arms[i] \in ToSet(arms)
    BY <2>2 DEF IsSequence, ToSet
  <2>5. Scripts(c) = [i \in 1..Len(arms) |-> Scripts(c)[i]]
    BY <2>1, <2>4
  <2>6. DOMAIN Scripts(c) = 1..Len(arms) /\ Len(Scripts(c)) = Len(arms)
    BY <2>4, <2>5, Listed
  <2>7. \A i \in DOMAIN arms : Scripts(c)[i] = arms[i][2]
    BY <2>1
  <2>8. QED
    BY <2>3, <2>4, <2>6, <2>7
<1>3. CASE ~isCmd(c, "switch")
  <2> DEFINE at == {i \in DOMAIN c : i \in Arms(c)}
             words == TakenAt(c, at)
  <2>1. Scripts(c) = words
    BY <1>3 DEF Scripts, WordsAt, TakenAt
  <2>2. IsSequence(words) /\ ToSet(words) = {c[i] : i \in at}
    BY <1>1, Taken DEF HasCommandWords
  <2>3. \A i \in at : FrameFollows(PointOf(script), Inside(f, c[i]))
    BY ArmFollows
  <2> HIDE DEF at, words
  <2>4. DOMAIN words = 1..Len(words) /\ Len(words) \in Nat /\ \A i \in DOMAIN words : words[i] \in ToSet(words)
    BY <2>2 DEF IsSequence, ToSet
  <2>5. \A word \in ToSet(words) : FrameFollows(PointOf(script), Inside(f, word))
    BY <2>2, <2>3
  <2>6. QED
    BY <2>1, <2>4, <2>5
<1>4. QED
  BY <1>2, <1>3

\* Every script that a command starts follows the points.
LEMMA StartedFollow ==
  ASSUME NEW script \in Script(Nesting), NEW f, DOMAIN f = FrameFields, f.listed \in BOOLEAN, f.exact \in BOOLEAN,
         NEW c, NEW p \in PointOf(script), NEW d \in 0..Nesting, Runs(f, c, p, d)
  PROVE  /\ \E n \in Nat : DOMAIN Started(c, f) = 1..n
         /\ \A i \in DOMAIN Started(c, f) : FrameFollows(PointOf(script), Started(c, f)[i])
<1>1. \A g : DOMAIN <<g>> = 1..1 /\ 1 \in Nat /\ \A i \in 1..1 : <<g>>[i] = g
  OBVIOUS
<1>2. CASE isCmd(c, "namespace") /\ IsKeyword(c[2], {"eval"})
  <2> DEFINE g == Entered(f, c[4], Within(c[3].text, f.ns), "namespace", f.class)
  <2>1. Started(c, f) = <<g>> /\ FrameFollows(PointOf(script), g)
    BY <1>2, StartedBy, EvalFollows
  <2> HIDE DEF g
  <2>2. QED
    BY <1>1, <2>1
<1>3. CASE IsItcl(c, "class")
  <2> DEFINE g == Entered(f, c[3], f.ns, "class", Within(c[2].text, f.ns))
  <2>1. Started(c, f) = <<g>> /\ FrameFollows(PointOf(script), g)
    BY <1>3, StartedBy, ClassFollows
  <2> HIDE DEF g
  <2>2. QED
    BY <1>1, <2>1
<1>4. CASE ~(isCmd(c, "namespace") /\ IsKeyword(c[2], {"eval"})) /\ ~IsItcl(c, "class")
  <2>1. Started(c, f) = [i \in DOMAIN Scripts(c) |-> Inside(f, Scripts(c)[i])]
    BY <1>4, StartedBy
  <2>2. /\ DOMAIN Scripts(c) = 1..Len(Scripts(c)) /\ Len(Scripts(c)) \in Nat
        /\ \A i \in DOMAIN Scripts(c) : FrameFollows(PointOf(script), Inside(f, Scripts(c)[i]))
    BY ScriptsFollow
  <2>3. QED
    BY <2>1, <2>2
<1>5. QED
  BY <1>2, <1>3, <1>4
\* What stands in the brackets of a command runs below its point.
LEMMA BracketsFollow ==
  ASSUME NEW script \in Script(Nesting), NEW f, DOMAIN f = FrameFields, f.listed \in BOOLEAN, f.exact \in BOOLEAN,
         NEW c, NEW p \in PointOf(script), NEW d \in 0..Nesting, Runs(f, c, p, d)
  PROVE  FrameFollows(PointOf(script), [f EXCEPT !.todo = Substituted(c), !.listed = FALSE])
<1> DEFINE g == [f EXCEPT !.todo = Substituted(c), !.listed = FALSE]
<1>1. Follows(f, c, p) /\ HasCommandWords(c, d) /\ HasWords(c)
  BY DEF Runs
<1>2. /\ DOMAIN g = FrameFields /\ g.todo = Substituted(c) /\ g.listed = FALSE /\ g.exact = f.exact
      /\ g.ns = f.ns /\ g.frame = f.frame /\ g.scope = f.scope /\ g.class = f.class
  BY DEF FrameFields
<1> HIDE DEF g
<1>3. IsSequence(Substituted(c)) /\ ToSet(Substituted(c)) \subseteq Bracketed(c)
  BY <1>1, BracketsFound
<1>4. Bracketed(c) \subseteq substRefs(p.cmd)
  <2>1. CASE f.listed
    <3>1. c = p.cmd
      BY <1>1, <2>1 DEF Follows
    <3>2. PICK n \in 0..Nesting : p.cmd \in Command(n)
      BY PointIs
    <3>3. QED
      BY <3>1, <3>2, SubstRefsAre
  <2>2. CASE ~f.listed
    <3>1. c \in substRefs(p.cmd)
      BY <1>1, <2>2 DEF Follows
    <3>2. QED
      BY <3>1, BelowFollows
  <2>3. QED
    BY <2>1, <2>2
<1>5. f.exact => Agrees(f, p)
  BY <1>1 DEF Follows
<1>6. \A e \in ToSet(g.todo) : Follows(g, e, p)
  BY <1>2, <1>3, <1>4, <1>5 DEF Follows, Agrees
<1>7. FrameFollows(PointOf(script), g)
  BY <1>2, <1>3, <1>6 DEF FrameFollows
<1>8. QED
  BY <1>7 DEF g

\* A proc or method with the body word, whose definition runs in the frame f.
Made(params, word, ns, class, f, kind) ==
  [params |-> params, body |-> word, ns |-> ns, class |-> class, kind |-> kind, listed |-> f.listed,
   exact |-> f.exact /\ f.listed /\ ns = f.ns]

\* Its body stands in the command c, with the class class1 in the text.
Makes(f, c, p, word, class, class1) ==
  /\ f.listed \in BOOLEAN /\ f.exact \in BOOLEAN /\ Follows(f, c, p)
  /\ IsSequence(word.script)
  /\ f.listed => Entering(word, p.ns, "proc", class1) \in ToSet(childBodies(c, p))
  /\ ~f.listed => ToSet(word.script) \subseteq BodyCommands(c)
  /\ Agrees(f, p) => class = class1
ParamsFound(defs, params, word) == \A name \in ListNames(params) : \E x \in ToSet(defs) : IsLocal(x, name, word.at)

LEMMA MadeFollows ==
  ASSUME NEW script, script \in Script(Nesting), NEW f, NEW c, NEW p, p \in PointOf(script), NEW word, NEW class,
         NEW class1, NEW params, NEW ns, NEW kind, Makes(f, c, p, word, class, class1),
         f.listed /\ kind = "proc" => ParamsFound(FileAll(script).defs, params, word)
  PROVE  CallFollows(PointOf(script), FileAll(script).defs, Made(params, word, ns, class, f, kind))
<1>0. /\ f.listed \in BOOLEAN /\ f.exact \in BOOLEAN /\ Follows(f, c, p) /\ IsSequence(word.script)
      /\ f.listed => Entering(word, p.ns, "proc", class1) \in ToSet(childBodies(c, p))
      /\ ~f.listed => ToSet(word.script) \subseteq BodyCommands(c)
      /\ Agrees(f, p) => class = class1
  BY DEF Makes
<1> DEFINE m == Made(params, word, ns, class, f, kind)
<1>1. /\ m.params = params /\ m.body = word /\ m.ns = ns /\ m.class = class /\ m.kind = kind /\ m.listed = f.listed
      /\ m.exact \in BOOLEAN /\ (m.exact <=> f.exact /\ f.listed /\ ns = f.ns)
  BY DEF Made
<1> HIDE DEF m
<1>2. ASSUME f.listed PROVE BodyOf(m, p)
  <2> DEFINE b == Entering(word, p.ns, "proc", class1)
  <2>1. c = p.cmd /\ (f.exact => Agrees(f, p))
    BY <1>0, <1>2 DEF Follows
  <2>2. b \in ToSet(childBodies(p.cmd, p))
    BY <1>0, <1>2, <2>1
  <2>3. /\ b.script = word.script /\ b.at = word.at /\ b.frame = "proc" /\ b.scope = word.at
        /\ b.ns = p.ns /\ b.class = class1
    BY DEF Entering
  <2>4. m.exact => b.ns = m.ns /\ b.class = m.class
    BY <1>0, <1>1, <2>1, <2>3 DEF Agrees
  <2> HIDE DEF b
  <2>5. QED
    BY <1>1, <2>2, <2>3, <2>4 DEF BodyOf
<1>3. ASSUME ~f.listed PROVE ToSet(word.script) \subseteq substRefs(p.cmd)
  <2>1. c \in substRefs(p.cmd)
    BY <1>0, <1>3 DEF Follows
  <2>2. QED
    BY <1>0, <1>3, <2>1, BelowFollows
<1>4. m.listed => \E q \in PointOf(script) : BodyOf(m, q)
  BY <1>0, <1>1, <1>2
<1>5. ~m.listed => ~m.exact /\ \E q \in PointOf(script) : ToSet(m.body.script) \subseteq substRefs(q.cmd)
  BY <1>0, <1>1, <1>3
<1>6. CallFollows(PointOf(script), FileAll(script).defs, m)
  BY <1>0, <1>1, <1>4, <1>5 DEF CallFollows, ParamsFound
<1>7. QED
  BY <1>6 DEF m

LEMMA MethodFollows ==
  ASSUME NEW script \in Script(Nesting), NEW f, f.listed \in BOOLEAN, f.exact \in BOOLEAN,
         NEW c, NEW p \in PointOf(script), NEW d \in 0..Nesting, Runs(f, c, p, d), f.frame = "class",
         NEW k \in MethodBodies(Member(c)), NEW params
  PROVE  CallFollows(PointOf(script), FileAll(script).defs, Made(params, Member(c)[k], f.ns, f.class, f, "method"))
<1>1. Follows(f, c, p) /\ HasCommandWords(c, d) /\ HasWords(c) /\ HasMemberWords(c)
  BY DEF Runs
<1> DEFINE word == Member(c)[k]
<1>2. IsSequence(word.script)
  <2>1. k \in DOMAIN Member(c)
    BY <1>1, MethodBodiesAre
  <2>2. HasCommandWords(Member(c), d)
    BY <1>1, MemberIs
  <2>3. word.script \in Script(d)
    BY <2>1, <2>2 DEF HasCommandWords
  <2>4. QED
    BY <2>3, ScriptIs
<1>3. f.listed => Entering(word, p.ns, "proc", p.class) \in ToSet(childBodies(c, p))
  <2>1. f.listed => p.frame = "class"
    BY <1>1 DEF Follows
  <2>2. QED
    BY <1>1, <2>1, MethodFound
<1>4. ~f.listed => ToSet(word.script) \subseteq BodyCommands(c)
  <2>1. ~f.listed => (isCmd(c, "constructor") => Len(c) < 4)
    BY DEF Runs
  <2>2. QED
    BY <1>1, <2>1, MethodBelow
<1>5. Agrees(f, p) => f.class = p.class
  BY DEF Agrees
<1>6. ~("method" = "proc")
  OBVIOUS
<1> HIDE DEF word
<1>7. Makes(f, c, p, word, f.class, p.class)
  BY <1>1, <1>2, <1>3, <1>4, <1>5 DEF Makes
<1>8. CallFollows(PointOf(script), FileAll(script).defs, Made(params, word, f.ns, f.class, f, "method"))
  BY <1>6, <1>7, MadeFollows
<1>9. QED
  BY <1>8 DEF word

\* A body whose script is entered wherever it stands is found in brackets.
LEMMA EnteredBelow ==
  ASSUME NEW c, NEW word, NEW ns, NEW frame, NEW class, Entering(word, ns, frame, class) \in ToSet(childBodies(c, TopLevel))
  PROVE  ToSet(word.script) \subseteq BodyCommands(c)
<1>1. Entering(word, ns, frame, class).script = word.script
  BY DEF Entering
<1>2. QED
  BY <1>1 DEF BodyCommands

LEMMA ProcFollows ==
  ASSUME NEW script \in Script(Nesting), NEW f, f.listed \in BOOLEAN, f.exact \in BOOLEAN,
         NEW c, NEW p \in PointOf(script), NEW d \in 0..Nesting, Runs(f, c, p, d),
         NEW k, NEW list, NEW ns,
         \/ isCmd(c, "proc") /\ k = 4 /\ list = c[3]
         \/ isCmd(c, "CACHE_PROC") /\ k = 5 /\ list = c[4]
  PROVE  CallFollows(PointOf(script), FileAll(script).defs, Made(list, c[k], ns, f.class, f, "proc"))
<1>1. Follows(f, c, p) /\ HasCommandWords(c, d) /\ HasWords(c)
  BY DEF Runs
<1>2. \A q : k \in DOMAIN c /\ Entering(c[k], q.ns, "proc", q.class) \in ToSet(childBodies(c, q))
  <2>1. CASE isCmd(c, "proc") /\ k = 4
    <3>1. \A q : Len(c) = 4 /\ Entering(c[4], q.ns, "proc", q.class) \in ToSet(childBodies(c, q))
      BY <1>1, <2>1, ProcFound
    <3>2. 4 \in DOMAIN c
      BY <1>1, <3>1 DEF HasCommandWords
    <3>3. QED
      BY <2>1, <3>1, <3>2
  <2>2. CASE isCmd(c, "CACHE_PROC") /\ k = 5
    <3>1. \A q : Entering(c[5], q.ns, "proc", q.class) \in ToSet(childBodies(c, q))
      BY <1>1, <2>2, CacheProcFound
    <3>2. Len(c) > 4
      BY <1>1, <2>2, CacheProcIs
    <3>3. Len(c) \in Nat /\ DOMAIN c = 1..Len(c)
      BY <1>1 DEF HasCommandWords
    <3>4. 5 \in DOMAIN c
      BY <3>2, <3>3
    <3>5. QED
      BY <2>2, <3>1, <3>4
  <2>3. QED
    BY <2>1, <2>2
<1>3. IsSequence(c[k].script)
  <2>1. c[k].script \in Script(d)
    BY <1>1, <1>2 DEF HasCommandWords
  <2>2. QED
    BY <2>1, ScriptIs
<1>4. Entering(c[k], p.ns, "proc", p.class) \in ToSet(childBodies(c, p))
  BY <1>2
<1>5. ToSet(c[k].script) \subseteq BodyCommands(c)
  BY <1>2, EnteredBelow
<1>6. Agrees(f, p) => f.class = p.class
  BY DEF Agrees
<1>7. ASSUME f.listed, NEW name \in ListNames(list)
      PROVE  \E x \in ToSet(FileAll(script).defs) : IsLocal(x, name, c[k].at)
  <2>1. c = p.cmd
    BY <1>1, <1>7 DEF Follows
  <2>2. \E x \in ToSet(emitProcParams(c, p)) : IsLocal(x, name, c[k].at)
    BY <1>1, <1>7, ProcParamsFound
  <2>3. ToSet(emitProcParams(c, p)) \subseteq ToSet(FileAll(script).defs)
    BY <2>1, DefsGathered
  <2>4. QED
    BY <2>2, <2>3
<1> DEFINE word == c[k]
<1> HIDE DEF word
<1>8. Makes(f, c, p, word, f.class, p.class)
  BY <1>1, <1>3, <1>4, <1>5, <1>6 DEF word, Makes
<1>9. f.listed => ParamsFound(FileAll(script).defs, list, word)
  BY <1>7 DEF word, ParamsFound
<1>10. CallFollows(PointOf(script), FileAll(script).defs, Made(list, word, ns, f.class, f, "proc"))
  BY <1>8, <1>9, MadeFollows
<1>11. QED
  BY <1>10 DEF word

LEMMA ItclBodyFollows ==
  ASSUME NEW script \in Script(Nesting), NEW f, f.listed \in BOOLEAN, f.exact \in BOOLEAN,
         NEW c, NEW p \in PointOf(script), NEW d \in 0..Nesting, Runs(f, c, p, d), IsItcl(c, "body"), NEW params
  PROVE  CallFollows(PointOf(script), FileAll(script).defs,
                     Made(params, c[4], f.ns, Within(Front(c[2].text), f.ns), f, "method"))
<1>1. Follows(f, c, p) /\ HasCommandWords(c, d) /\ HasWords(c)
  BY DEF Runs
<1>2. \A q : Len(c) = 4 /\ Entering(c[4], q.ns, "proc", Within(Front(c[2].text), q.ns)) \in ToSet(childBodies(c, q))
  BY <1>1, ItclBodyFound
<1>3. IsSequence(c[4].script)
  <2>1. 4 \in DOMAIN c
    BY <1>1, <1>2 DEF HasCommandWords
  <2>2. c[4].script \in Script(d)
    BY <1>1, <2>1 DEF HasCommandWords
  <2>3. QED
    BY <2>2, ScriptIs
<1> DEFINE class == Within(Front(c[2].text), f.ns)
           class1 == Within(Front(c[2].text), p.ns)
           class2 == Within(Front(c[2].text), TopLevel.ns)
           word == c[4]
<1>4. Entering(word, p.ns, "proc", class1) \in ToSet(childBodies(c, p))
  BY <1>2
<1>5. Entering(word, TopLevel.ns, "proc", class2) \in ToSet(childBodies(c, TopLevel))
  BY <1>2
<1>6. Agrees(f, p) => class = class1
  BY DEF Agrees
<1> HIDE DEF class, class1, class2
<1>7. ToSet(word.script) \subseteq BodyCommands(c)
  BY <1>5, EnteredBelow
<1>8. ~("method" = "proc")
  OBVIOUS
<1> HIDE DEF word
<1>9. Makes(f, c, p, word, class, class1)
  BY <1>1, <1>3, <1>4, <1>6, <1>7 DEF word, Makes
<1>10. CallFollows(PointOf(script), FileAll(script).defs, Made(params, word, f.ns, class, f, "method"))
  BY <1>8, <1>9, MadeFollows
<1>11. QED
  BY <1>10 DEF word, class
\* Every proc or method that a command defines follows the points.
LEMMA MethodsMade ==
  ASSUME NEW c, NEW f, f.frame = "class", NEW m \in Callables(c, f)
  PROVE  \E k \in MethodBodies(Member(c)) : \E params : m = Made(params, Member(c)[k], f.ns, f.class, f, "method")
<1> DEFINE w == Member(c)
           Method(params, k) == {Made(params, w[k], f.ns, f.class, f, "method")}
<1>1. Callables(c, f) = CASE isCmd(w, "method") /\ Len(w) = 4      -> Method(w[3], 4)
                          [] isCmd(w, "proc")                      -> Method(w[3], 4)
                          [] isCmd(w, "constructor") /\ Len(w) = 3 -> Method(w[2], 3)
                          [] isCmd(w, "constructor") /\ Len(w) = 4 -> Method(w[2], 3) \cup Method(w[2], 4)
                          [] OTHER                                 -> {}
  BY DEF Callables, Callable, Made
<1>2. \A head : isCmd(w, head) => \A other : isCmd(w, other) <=> other = head
  BY HeadIs
<1> HIDE DEF w
<1>3. CASE isCmd(w, "method") /\ Len(w) = 4
  <2>1. m = Made(w[3], w[4], f.ns, f.class, f, "method")
    BY <1>1, <1>2, <1>3
  <2>2. 4 \in MethodBodies(w)
    BY <1>3 DEF MethodBodies
  <2>3. QED
    BY <2>1, <2>2 DEF w
<1>4. CASE isCmd(w, "proc")
  <2>1. m = Made(w[3], w[4], f.ns, f.class, f, "method")
    BY <1>1, <1>2, <1>4
  <2>2. 4 \in MethodBodies(w)
    BY <1>2, <1>4 DEF MethodBodies
  <2>3. QED
    BY <2>1, <2>2 DEF w
<1>5. CASE isCmd(w, "constructor") /\ Len(w) = 3
  <2>1. m = Made(w[2], w[3], f.ns, f.class, f, "method")
    BY <1>1, <1>2, <1>5
  <2>2. MethodBodies(w) = 3..Len(w)
    BY <1>2, <1>5 DEF MethodBodies
  <2>3. 3 \in MethodBodies(w)
    BY <1>5, <2>2
  <2>4. QED
    BY <2>1, <2>3 DEF w
<1>6. CASE isCmd(w, "constructor") /\ Len(w) = 4
  <2>1. m \in Method(w[2], 3) \cup Method(w[2], 4)
    BY <1>1, <1>2, <1>6
  <2>2. MethodBodies(w) = 3..Len(w)
    BY <1>2, <1>6 DEF MethodBodies
  <2>3. 3 \in MethodBodies(w) /\ 4 \in MethodBodies(w)
    BY <1>6, <2>2
  <2>4. QED
    BY <2>1, <2>3 DEF w
<1>7. CASE /\ ~(isCmd(w, "method") /\ Len(w) = 4) /\ ~isCmd(w, "proc")
           /\ ~(isCmd(w, "constructor") /\ Len(w) = 3) /\ ~(isCmd(w, "constructor") /\ Len(w) = 4)
  BY <1>1, <1>7
<1>8. QED
  BY <1>3, <1>4, <1>5, <1>6, <1>7

LEMMA ProcsMade ==
  ASSUME NEW c, NEW f, f.frame # "class", NEW m \in Callables(c, f)
  PROVE  \/ isCmd(c, "proc") /\ \E ns : m = Made(c[3], c[4], ns, f.class, f, "proc")
         \/ isCmd(c, "CACHE_PROC") /\ \E ns : m = Made(c[4], c[5], ns, f.class, f, "proc")
         \/ IsItcl(c, "body") /\ m = Made(c[3], c[4], f.ns, Within(Front(c[2].text), f.ns), f, "method")
<1> DEFINE ns1 == NamespaceOf(Within(c[2].text, f.ns))
           ns2 == NamespaceOf(Within(c[3].text, f.ns))
           class == Within(Front(c[2].text), f.ns)
<1>1. Callables(c, f) = CASE isCmd(c, "proc")       -> {Made(c[3], c[4], ns1, f.class, f, "proc")}
                          [] isCmd(c, "CACHE_PROC") -> {Made(c[4], c[5], ns2, f.class, f, "proc")}
                          [] IsItcl(c, "body")      -> {Made(c[3], c[4], f.ns, class, f, "method")}
                          [] OTHER                  -> {}
  BY DEF Callables, Callable, Made
<1>2. /\ \A head : isCmd(c, head) => (\A other : isCmd(c, other) <=> other = head) /\ \A other : ~IsItcl(c, other)
      /\ \A head : IsItcl(c, head) => \A other : ~isCmd(c, other)
  BY HeadIs, ItclIs
<1> HIDE DEF ns1, ns2, class
<1>3. CASE isCmd(c, "proc")
  BY <1>1, <1>2, <1>3
<1>4. CASE isCmd(c, "CACHE_PROC")
  BY <1>1, <1>2, <1>4
<1>5. CASE IsItcl(c, "body")
  BY <1>1, <1>2, <1>5 DEF class
<1>6. CASE ~isCmd(c, "proc") /\ ~isCmd(c, "CACHE_PROC") /\ ~IsItcl(c, "body")
  BY <1>1, <1>6
<1>7. QED
  BY <1>3, <1>4, <1>5, <1>6

LEMMA CallablesFollow ==
  ASSUME NEW script \in Script(Nesting), NEW f, f.listed \in BOOLEAN, f.exact \in BOOLEAN,
         NEW c, NEW p \in PointOf(script), NEW d \in 0..Nesting, Runs(f, c, p, d), NEW m \in Callables(c, f)
  PROVE  CallFollows(PointOf(script), FileAll(script).defs, m)
<1>1. CASE f.frame = "class"
  BY <1>1, MethodsMade, MethodFollows
<1>2. CASE f.frame # "class"
  <2>1. CASE isCmd(c, "proc") /\ \E ns : m = Made(c[3], c[4], ns, f.class, f, "proc")
    <3>1. PICK ns : m = Made(c[3], c[4], ns, f.class, f, "proc")
      BY <2>1
    <3>2. CallFollows(PointOf(script), FileAll(script).defs, Made(c[3], c[4], ns, f.class, f, "proc"))
      BY <2>1, ProcFollows
    <3>3. QED
      BY <3>1, <3>2
  <2>2. CASE isCmd(c, "CACHE_PROC") /\ \E ns : m = Made(c[4], c[5], ns, f.class, f, "proc")
    <3>1. PICK ns : m = Made(c[4], c[5], ns, f.class, f, "proc")
      BY <2>2
    <3>2. CallFollows(PointOf(script), FileAll(script).defs, Made(c[4], c[5], ns, f.class, f, "proc"))
      BY <2>2, ProcFollows
    <3>3. QED
      BY <3>1, <3>2
  <2>3. CASE IsItcl(c, "body") /\ m = Made(c[3], c[4], f.ns, Within(Front(c[2].text), f.ns), f, "method")
    <3>1. CallFollows(PointOf(script), FileAll(script).defs,
                      Made(c[3], c[4], f.ns, Within(Front(c[2].text), f.ns), f, "method"))
      BY <2>3, ItclBodyFollows
    <3>2. QED
      BY <2>3, <3>1
  <2>4. QED
    BY <1>2, <2>1, <2>2, <2>3, ProcsMade
<1>3. QED
  BY <1>1, <1>2

\* Outside brackets a script that a command starts is a fold.
LEMMA ScriptsFold ==
  ASSUME NEW script \in Sources, NEW f, f.listed, f.listed \in BOOLEAN, f.exact \in BOOLEAN, DOMAIN f = FrameFields,
         NEW c, NEW p \in PointOf(script), NEW d \in 0..Nesting, Runs(f, c, p, d)
  PROVE  \A i \in DOMAIN Scripts(c) : Scripts(c)[i].at \in FileAll(script).folds
<1>1. Follows(f, c, p) /\ c = p.cmd /\ HasCommandWords(c, d) /\ HasWords(c) /\ script \in Script(Nesting)
  BY SourcesAre DEF Runs, Follows
<1>2. \A word, q : Staying(word, q).at = word.at
  BY DEF Staying
<1>3. CASE isCmd(c, "switch")
  <2> DEFINE list == c[Len(c)]
  <2>1. Staying(list, p) \in ToSet(childBodies(c, p)) /\ Last(c) = list /\ Len(c) \in DOMAIN c
    BY <1>1, <1>3, SwitchFound DEF Last, HasCommandWords
  <2>2. list.script \in Script(d) /\ \A arm \in ToSet(list.script) : IsArm(arm)
    BY <1>1, <1>3, <2>1 DEF HasCommandWords, HasWords
  <2>3. Scripts(c) = [i \in DOMAIN list.script |-> list.script[i][2]]
    BY <1>3, <2>1 DEF Scripts
  <2>4. \A q : Staying(list, q) \in ToSet(childBodies(c, q))
    BY <1>1, <1>3, SwitchFound
  <2> HIDE DEF list
  <2>5. IsSequence(list.script) /\ \A arm \in ToSet(list.script) : d - 1 \in 0..Nesting /\ arm \in Command(d - 1)
    BY <2>2, ScriptIs
  <2>6. FrameFollows(PointOf(script), Inside(f, list))
    BY <1>1, <2>4, <2>5, StayFollows
  <2>7. Inside(f, list).listed /\ Inside(f, list).todo = list.script
    BY InsideIs
  <2>8. ASSUME NEW arm \in ToSet(list.script) PROVE arm[2].at \in FileAll(script).folds
    <3>1. PICK q \in PointOf(script) : q.cmd = arm
      BY <2>6, <2>7, <2>8 DEF FrameFollows, Follows
    <3>2. HasCommandWords(arm, d - 1) /\ IsArm(arm)
      BY <2>2, <2>5, <2>8, CommandIs
    <3>3. Staying(arm[2], q) \in ToSet(childBodies(q.cmd, q))
      BY <3>1, <3>2, SwitchArmFound
    <3>4. QED
      BY <1>2, <3>3, FoldsGathered
  <2>9. QED
    BY <2>3, <2>8 DEF ToSet
<1>4. CASE ~isCmd(c, "switch")
  <2> DEFINE at == {i \in DOMAIN c : i \in Arms(c)}
             words == TakenAt(c, at)
  <2>1. Scripts(c) = words
    BY <1>4 DEF Scripts, WordsAt, TakenAt
  <2>2. IsSequence(words) /\ ToSet(words) = {c[i] : i \in at}
    BY <1>1, Taken DEF HasCommandWords
  <2>3. \A i \in at : c[i].at \in FileAll(script).folds
    <3> TAKE i \in at
    <3>1. Staying(c[i], p) \in ToSet(childBodies(c, p))
      BY <1>1, ArmFound
    <3>2. QED
      BY <1>1, <1>2, <3>1, FoldsGathered
  <2> HIDE DEF at, words
  <2>4. QED
    BY <2>1, <2>2, <2>3 DEF ToSet
<1>5. QED
  BY <1>3, <1>4

LEMMA StartedFold ==
  ASSUME NEW script \in Sources, NEW f, f.listed, f.listed \in BOOLEAN, f.exact \in BOOLEAN, DOMAIN f = FrameFields,
         NEW c, NEW p \in PointOf(script), NEW d \in 0..Nesting, Runs(f, c, p, d)
  PROVE  \A i \in DOMAIN Started(c, f) : Started(c, f)[i].at \in FileAll(script).folds
<1>1. c = p.cmd /\ HasCommandWords(c, d) /\ HasWords(c)
  BY DEF Runs, Follows
<1>2. \A word, ns, frame, class : Entering(word, ns, frame, class).at = word.at
  BY DEF Entering
<1>3. \A word, ns, frame, class : Entered(f, word, ns, frame, class).at = word.at
  BY DEF Entered
<1>4. CASE isCmd(c, "namespace") /\ IsKeyword(c[2], {"eval"})
  <2>1. Started(c, f) = <<Entered(f, c[4], Within(c[3].text, f.ns), "namespace", f.class)>>
    BY <1>4, StartedBy
  <2>2. Entering(c[4], Within(c[3].text, p.ns), "namespace", p.class) \in ToSet(childBodies(c, p))
    BY <1>1, <1>4, EvalFound
  <2>3. c[4].at \in FileAll(script).folds
    BY <1>1, <1>2, <2>2, FoldsGathered
  <2>4. QED
    BY <1>3, <2>1, <2>3
<1>5. CASE IsItcl(c, "class")
  <2>1. Started(c, f) = <<Entered(f, c[3], f.ns, "class", Within(c[2].text, f.ns))>>
    BY <1>5, StartedBy
  <2>2. Entering(c[3], p.ns, "class", Within(c[2].text, p.ns)) \in ToSet(childBodies(c, p))
    BY <1>1, <1>5, ClassFound
  <2>3. c[3].at \in FileAll(script).folds
    BY <1>1, <1>2, <2>2, FoldsGathered
  <2>4. QED
    BY <1>3, <2>1, <2>3
<1>6. CASE ~(isCmd(c, "namespace") /\ IsKeyword(c[2], {"eval"})) /\ ~IsItcl(c, "class")
  <2>1. Started(c, f) = [i \in DOMAIN Scripts(c) |-> Inside(f, Scripts(c)[i])]
    BY <1>6, StartedBy
  <2>2. \A word : Inside(f, word).at = word.at
    BY InsideIs
  <2>3. \A i \in DOMAIN Scripts(c) : Scripts(c)[i].at \in FileAll(script).folds
    BY ScriptsFold
  <2>4. DOMAIN Started(c, f) = DOMAIN Scripts(c)
    BY <2>1
  <2>5. ASSUME NEW i \in DOMAIN Scripts(c)
        PROVE  Started(c, f)[i].at = Scripts(c)[i].at
    BY <2>1, <2>2
  <2>6. QED
    BY <2>3, <2>4, <2>5
<1>7. QED
  BY <1>4, <1>5, <1>6

\* What is left of the stack once its empty scripts are gone.
Kept(ss) == EachOf(ss, LAMBDA s : Where(s.todo # << >>, <<s>>))

LEMMA KeptIs ==
  ASSUME NEW ss, IsSequence(ss)
  PROVE  IsSequence(Kept(ss)) /\ ToSet(Kept(ss)) = {s \in ToSet(ss) : s.todo # << >>}
<1> DEFINE ts == [i \in DOMAIN ss |-> Where(ss[i].todo # << >>, <<ss[i]>>)]
<1>1. Kept(ss) = FlattenSeq(ts)
  BY DEF Kept, EachOf
<1>2. DOMAIN ss = 1..Len(ss) /\ Len(ss) \in Nat /\ \A i \in DOMAIN ss : ss[i] \in ToSet(ss)
  BY DEF IsSequence, ToSet
<1>3. ts = [i \in 1..Len(ss) |-> ts[i]] /\ \A i \in DOMAIN ss : ts[i] = Where(ss[i].todo # << >>, <<ss[i]>>)
  BY <1>2
<1> HIDE DEF ts
<1>4. IsSequence(ts) /\ DOMAIN ts = DOMAIN ss
  BY <1>2, <1>3, Listed
<1>5. \A i \in DOMAIN ss : IsSequence(ts[i]) /\ ToSet(ts[i]) = {s \in {ss[i]} : s.todo # << >>}
  <2> TAKE i \in DOMAIN ss
  <2> DEFINE s == ss[i]
  <2>1. ts[i] = IF s.todo # << >> THEN <<s>> ELSE << >>
    BY <1>3 DEF Where
  <2>2. IsSequence(<<s>>) /\ ToSet(<<s>>) = {s}
    BY OneElement
  <2> HIDE DEF s
  <2>3. CASE s.todo # << >>
    BY <2>1, <2>2, <2>3 DEF s
  <2>4. CASE s.todo = << >>
    BY <2>1, <2>4, EmptySequence DEF s
  <2>5. QED
    BY <2>3, <2>4
<1>6. AllSequences(ts)
  BY <1>4, <1>5 DEF AllSequences
<1>7. IsSequence(FlattenSeq(ts)) /\ ToSet(FlattenSeq(ts)) = UNION {ToSet(ts[i]) : i \in DOMAIN ts}
  BY <1>6, Flattened
<1>8. ToSet(ss) = {ss[i] : i \in DOMAIN ss}
  BY DEF ToSet
<1>9. ToSet(FlattenSeq(ts)) = {s \in ToSet(ss) : s.todo # << >>}
  BY <1>4, <1>5, <1>7, <1>8
<1>10. QED
  BY <1>1, <1>7, <1>9

\* The started scripts that run, the last of them first.
Chosen(started, run) == [i \in 1..Cardinality(run) |-> started[Kth(run, Cardinality(run) + 1 - i)]]

LEMMA ChosenIs ==
  ASSUME NEW n \in Nat, NEW started, DOMAIN started = 1..n, NEW run \in SUBSET DOMAIN started
  PROVE  IsSequence(Chosen(started, run)) /\ \A s \in ToSet(Chosen(started, run)) : \E i \in DOMAIN started : s = started[i]
<1>1. IsFiniteSet(run) /\ run \in SUBSET Nat
  <2>1. IsFiniteSet(1..n)
    BY FS_Interval
  <2>2. QED
    BY <2>1, FS_Subset
<1>2. Cardinality(run) \in Nat /\ \A k \in 1..Cardinality(run) : Kth(run, k) \in run
  BY <1>1, KthIs
<1> DEFINE bodies == Chosen(started, run)
<1>3. \A i \in 1..Cardinality(run) : \E j \in run : bodies[i] = started[j]
  <2> TAKE i \in 1..Cardinality(run)
  <2> DEFINE k == Cardinality(run) + 1 - i
  <2>1. k \in 1..Cardinality(run)
    BY <1>2
  <2>2. bodies[i] = started[Kth(run, k)]
    BY DEF Chosen
  <2> HIDE DEF k
  <2>3. QED
    BY <1>2, <2>1, <2>2
<1>4. bodies = [i \in 1..Cardinality(run) |-> bodies[i]]
  BY DEF Chosen
<1> HIDE DEF bodies
<1>5. IsSequence(bodies) /\ DOMAIN bodies = 1..Cardinality(run)
  BY <1>2, <1>4, Listed
<1>6. \A s \in ToSet(bodies) : \E i \in DOMAIN started : s = started[i]
  BY <1>3, <1>5 DEF ToSet
<1>7. QED
  BY <1>5, <1>6 DEF bodies
\* What a command looks up, creates and binds when it runs is found.
LEMMA RefsFound ==
  ASSUME NEW script \in Sources, NEW f, f.listed \in BOOLEAN, NEW c, NEW p \in PointOf(script),
         NEW d \in 0..Nesting, Runs(f, c, p, d), NEW r \in Mentioned(c)
  PROVE  Here(r, p) \in FileAll(script).refs
<1>1. Follows(f, c, p) /\ HasCommandWords(c, d) /\ HasWords(c)
  BY DEF Runs
<1>2. c \in {p.cmd} \cup substRefs(p.cmd)
  BY <1>1 DEF Follows
<1>3. r \in OwnRefs(c)
  BY <1>1, MentionedFound
<1>4. QED
  BY <1>2, <1>3, RefsGathered

LEMMA DefsFound ==
  ASSUME NEW script \in Sources, NEW f, f.listed, f.exact, NEW c, NEW p \in PointOf(script),
         NEW d \in 0..Nesting, Runs(f, c, p, d), NEW e \in Creates(c, f)
  PROVE  Defines(FileAll(script).defs, e)
<1>1. c = p.cmd /\ f.frame = p.frame /\ f.class = p.class /\ f.ns = p.ns
  BY DEF Runs, Follows, Agrees
<1>2. HasCommandWords(c, d) /\ HasWords(c) /\ (p.frame = "class" => HasMemberWords(c))
  BY <1>1 DEF Runs
<1>3. Defines(emitDefs(c, p), e)
  BY <1>1, <1>2, CreatesFound
<1>4. ToSet(emitDefs(c, p)) \subseteq ToSet(FileAll(script).defs)
  BY <1>1, SourcesAre, DefsGathered
<1>5. QED
  BY <1>3, <1>4 DEF Defines

LEMMA LocalsFound ==
  ASSUME NEW script \in Sources, NEW f, f.listed, f.frame = "proc", NEW c, NEW p \in PointOf(script),
         NEW d \in 0..Nesting, Runs(f, c, p, d), NEW name \in Binds(c)
  PROVE  \E x \in ToSet(FileAll(script).defs) : IsLocal(x, name, f.scope)
<1>1. c = p.cmd /\ p.frame = "proc" /\ f.scope = p.scope
  BY DEF Runs, Follows
<1>2. HasCommandWords(c, d) /\ HasWords(c)
  BY DEF Runs
<1>3. \E x \in ToSet(localDefs(c, p)) : IsLocal(x, name, p.scope)
  BY <1>2, LocalDefsAre
<1>4. ToSet(localDefs(c, p)) \subseteq ToSet(emitDefs(c, p))
  BY <1>1, <1>2, EmitDefsAre
<1>5. ToSet(emitDefs(c, p)) \subseteq ToSet(FileAll(script).defs)
  BY <1>1, SourcesAre, DefsGathered
<1>6. QED
  BY <1>1, <1>3, <1>4, <1>5

\* The command that the innermost script does next.
LEMMA TopIs ==
  ASSUME TclInv, Running
  PROVE  /\ FrameFollows(PointOf(file), Top)
         /\ IsSequence(Tail(Top.todo)) /\ ToSet(Tail(Top.todo)) \subseteq ToSet(Top.todo)
         /\ IsSequence(Front(stack)) /\ ToSet(Front(stack)) \subseteq ToSet(stack)
         /\ \E p \in PointOf(file) : \E d \in 0..Nesting : Runs(Top, Head(Top.todo), p, d)
<1>1. IsSequence(stack) /\ stack # << >>
  BY DEF TclInv, StackFollows, Running
<1>2. Len(stack) \in Nat \ {0} /\ \A i \in 1..Len(stack) : stack[i] \in ToSet(stack)
  BY <1>1 DEF IsSequence, ToSet
<1>3. Top \in ToSet(stack)
  BY <1>2 DEF Top, Last
<1>4. FrameFollows(PointOf(file), Top) /\ Top.todo # << >>
  BY <1>3 DEF TclInv, StackFollows
<1>5. IsSequence(Front(stack)) /\ ToSet(Front(stack)) \subseteq ToSet(stack)
  <2> DEFINE n == Len(stack) - 1
  <2>1. n \in Int /\ 1 \in Int /\ \A i \in 1..n : stack[i] \in ToSet(stack)
    BY <1>2
  <2>2. Front(stack) = SubSeq(stack, 1, n)
    BY DEF Front
  <2> HIDE DEF n
  <2>3. Front(stack) \in Seq(ToSet(stack))
    BY <2>1, <2>2, SubSeqProperties
  <2>4. QED
    BY <2>3, SequenceIs
<1> DEFINE s == Top.todo
<1>6. s \in Seq(ToSet(s)) /\ s # << >>
  BY <1>4 DEF FrameFollows, IsSequence
<1> HIDE DEF s
<1>7. Head(s) \in ToSet(s) /\ Tail(s) \in Seq(ToSet(s))
  BY <1>6, HeadTailProperties
<1>8. IsSequence(Tail(s)) /\ ToSet(Tail(s)) \subseteq ToSet(s)
  BY <1>7, SequenceIs
<1>9. PICK p \in PointOf(file) : Follows(Top, Head(Top.todo), p)
  BY <1>4, <1>7 DEF FrameFollows, s
<1>10. Top.listed \in BOOLEAN /\ file \in Sources
  BY <1>4 DEF FrameFollows, TclInv
<1>11. \E d \in 0..Nesting : Runs(Top, Head(Top.todo), p, d)
  BY <1>9, <1>10, RunsAre
<1>12. QED
  BY <1>4, <1>5, <1>8, <1>11 DEF s
\* A script goes on with what is left of it.
LEMMA RestFollows ==
  ASSUME NEW points, NEW f, FrameFollows(points, f), NEW rest, IsSequence(rest), ToSet(rest) \subseteq ToSet(f.todo)
  PROVE  FrameFollows(points, [f EXCEPT !.todo = rest])
<1> DEFINE g == [f EXCEPT !.todo = rest]
<1>1. DOMAIN f = FrameFields
  BY DEF FrameFollows
<1>2. /\ DOMAIN g = FrameFields /\ g.todo = rest /\ g.listed = f.listed /\ g.exact = f.exact
      /\ g.ns = f.ns /\ g.frame = f.frame /\ g.scope = f.scope /\ g.class = f.class
  BY <1>1 DEF FrameFields
<1> HIDE DEF g
<1>3. ASSUME NEW c \in ToSet(rest) PROVE \E p \in points : Follows(g, c, p)
  <2>1. PICK p \in points : Follows(f, c, p)
    BY <1>3 DEF FrameFollows
  <2>2. Follows(g, c, p)
    BY <1>2, <2>1 DEF Follows, Agrees
  <2>3. QED
    BY <2>2
<1>4. f.listed \in BOOLEAN /\ f.exact \in BOOLEAN
  BY DEF FrameFollows
<1>5. FrameFollows(points, g)
  BY <1>2, <1>3, <1>4 DEF FrameFollows
<1>6. QED
  BY <1>5 DEF g

\* The stack after a command, of which the scripts in run are run.
NextStack(f, c, run) ==
  Kept(Front(stack) \o <<[f EXCEPT !.todo = Tail(f.todo)]>> \o Chosen(Started(c, f), run)
         \o <<[f EXCEPT !.todo = Substituted(c), !.listed = FALSE]>>)

LEMMA NextStackFollows ==
  ASSUME TclInv, Running, NEW run \in SUBSET DOMAIN Started(Head(Top.todo), Top)
  PROVE  LET next == NextStack(Top, Head(Top.todo), run)
         IN  IsSequence(next) /\ \A s \in ToSet(next) : FrameFollows(PointOf(file), s) /\ s.todo # << >>
<1> DEFINE f == Top
           c == Head(f.todo)
           rest == [f EXCEPT !.todo = Tail(f.todo)]
           bodies == Chosen(Started(c, f), run)
           brackets == [f EXCEPT !.todo = Substituted(c), !.listed = FALSE]
           front == Front(stack)
           all == front \o <<rest>> \o bodies \o <<brackets>>
           next == NextStack(f, c, run)
<1>1. file \in Script(Nesting)
  BY SourcesAre DEF TclInv
<1>2. FrameFollows(PointOf(file), f) /\ IsSequence(front) /\ ToSet(front) \subseteq ToSet(stack)
  BY TopIs
<1>3. DOMAIN f = FrameFields /\ f.listed \in BOOLEAN /\ f.exact \in BOOLEAN
  BY <1>2 DEF FrameFollows
<1>4. PICK p \in PointOf(file) : \E d \in 0..Nesting : Runs(f, c, p, d)
  BY TopIs
<1>5. PICK d \in 0..Nesting : Runs(f, c, p, d)
  BY <1>4
<1>6. FrameFollows(PointOf(file), rest)
  BY <1>2, TopIs, RestFollows
<1>7. IsSequence(bodies) /\ \A s \in ToSet(bodies) : FrameFollows(PointOf(file), s)
  <2> DEFINE started == Started(c, f)
  <2>1. /\ \E n \in Nat : DOMAIN started = 1..n
        /\ \A i \in DOMAIN started : FrameFollows(PointOf(file), started[i])
    BY <1>1, <1>3, <1>5, StartedFollow
  <2>2. PICK n \in Nat : DOMAIN started = 1..n
    BY <2>1
  <2>3. run \in SUBSET DOMAIN started
    OBVIOUS
  <2> HIDE DEF started
  <2>4. IsSequence(Chosen(started, run)) /\ \A s \in ToSet(Chosen(started, run)) : \E i \in DOMAIN started : s = started[i]
    BY <2>2, <2>3, ChosenIs
  <2>5. \A s \in ToSet(Chosen(started, run)) : FrameFollows(PointOf(file), s)
    BY <2>1, <2>4
  <2>6. QED
    BY <2>4, <2>5 DEF started
<1>8. FrameFollows(PointOf(file), brackets)
  BY <1>1, <1>3, <1>5, BracketsFollow
<1>9. \A s \in ToSet(front) : FrameFollows(PointOf(file), s)
  BY <1>2 DEF TclInv, StackFollows
<1>10. next = Kept(all)
  BY DEF NextStack
<1> HIDE DEF rest, bodies, brackets, front, next
<1>11. /\ IsSequence(all)
       /\ ToSet(all) = ToSet(front) \cup {rest} \cup ToSet(bodies) \cup {brackets}
  <2>1. IsSequence(front \o <<rest>>) /\ ToSet(front \o <<rest>>) = ToSet(front) \cup {rest}
    BY <1>2, OneElement, Joined
  <2>2. /\ IsSequence(front \o <<rest>> \o bodies)
        /\ ToSet(front \o <<rest>> \o bodies) = ToSet(front) \cup {rest} \cup ToSet(bodies)
    BY <1>7, <2>1, Joined
  <2>3. QED
    BY <2>2, OneElement, Joined
<1>12. \A s \in ToSet(all) : FrameFollows(PointOf(file), s)
  BY <1>6, <1>7, <1>8, <1>9, <1>11
<1> HIDE DEF all
<1>13. IsSequence(next) /\ ToSet(next) = {s \in ToSet(all) : s.todo # << >>}
  BY <1>10, <1>11, KeptIs
<1>14. QED
  BY <1>12, <1>13 DEF next

----------------------------------------------------------------------------
(* The invariant.                                                          *)

LEMMA InitInv ==
  ASSUME Init
  PROVE  TclInv
<1> DEFINE g == [todo |-> file, at |-> << >>, ns |-> Global, frame |-> "namespace", scope |-> << >>, class |-> NoClass,
                 listed |-> TRUE, exact |-> TRUE]
           b == File(file)
<1>1. file \in Sources /\ found = FileAll(file) /\ stack = <<g>> /\ callable = {} /\ now = Nothing
  BY DEF Init
<1>2. file \in Script(Nesting) /\ file # << >>
  BY <1>1, SourcesAre
<1>3. IsSequence(file)
  <2>1. Nesting \in 0..Nesting
    BY NestingAssumption
  <2>2. QED
    BY <1>2, <2>1, ScriptIs
<1>4. b.script = file /\ b.ns = Global /\ b.frame = "namespace" /\ b.scope = << >> /\ b.class = NoClass
  BY DEF File, Staying, TopLevel
<1>5. Reached(PointOf(file), b)
  BY <1>2, WalkReaches DEF PointOf
<1> HIDE DEF b
<1>6. ASSUME NEW c \in ToSet(file) PROVE \E p \in PointOf(file) : Follows(g, c, p)
  <2>1. PICK p \in PointOf(file) : Lies(p, c, b)
    BY <1>4, <1>5, <1>6 DEF Reached
  <2>2. Follows(g, c, p)
    BY <1>4, <2>1 DEF Lies, Follows, Agrees
  <2>3. QED
    BY <2>2
<1>7. FrameFollows(PointOf(file), g) /\ g.todo # << >>
  BY <1>2, <1>3, <1>6 DEF FrameFollows, FrameFields
<1> HIDE DEF g
<1>8. StackFollows
  BY <1>1, <1>7, OneElement DEF StackFollows
<1>9. CallsFollow
  BY <1>1 DEF CallsFollow
<1>10. now.refs = {} /\ now.defs = {} /\ now.locals = {} /\ now.bodies = {}
  BY <1>1 DEF Nothing
<1>11. EveryReferenceFound /\ ContextsExact /\ EveryDefinitionFound /\ EveryLocalFound /\ BodiesFold
  BY <1>10 DEF EveryReferenceFound, ContextsExact, EveryDefinitionFound, EveryLocalFound, BodiesFold
<1>12. QED
  BY <1>1, <1>8, <1>9, <1>11 DEF TclInv

LEMMA ExecuteKeeps ==
  ASSUME TclInv, Execute
  PROVE  TclInv'
<1> DEFINE f == Top
           c == Head(f.todo)
<1>1. Running /\ file' = file /\ found' = found /\ file \in Sources /\ found = FileAll(file)
  BY DEF Execute, TclInv
<1>2. PICK run \in SUBSET DOMAIN Started(c, f) :
        /\ stack' = NextStack(f, c, run)
        /\ callable' = callable \cup Callables(c, f)
        /\ now' = [exact  |-> f.exact,
                   listed |-> f.listed,
                   refs   |-> {Here(r, f) : r \in Mentioned(c)},
                   defs   |-> Creates(c, f),
                   locals |-> IF f.frame = "proc" THEN {[name |-> n, scope |-> f.scope] : n \in Binds(c)} ELSE {},
                   bodies |-> {Started(c, f)[n].at : n \in run},
                   data   |-> Data(c, f)]
  BY DEF Execute, NextStack, Kept, Chosen, Here
<1>3. file \in Script(Nesting)
  BY <1>1, SourcesAre
<1>4. FrameFollows(PointOf(file), f)
  BY <1>1, TopIs
<1>5. f.listed \in BOOLEAN /\ f.exact \in BOOLEAN
  BY <1>4 DEF FrameFollows
<1>6. PICK p \in PointOf(file) : \E d \in 0..Nesting : Runs(f, c, p, d)
  BY <1>1, TopIs
<1>7. PICK d \in 0..Nesting : Runs(f, c, p, d)
  BY <1>6
<1>8. StackFollows'
  <2> DEFINE next == NextStack(f, c, run)
  <2>1. IsSequence(next) /\ \A s \in ToSet(next) : FrameFollows(PointOf(file), s) /\ s.todo # << >>
    BY <1>1, NextStackFollows
  <2> HIDE DEF next
  <2>2. stack' = next
    BY <1>2 DEF next
  <2>3. QED
    BY <1>1, <2>1, <2>2 DEF StackFollows
<1> HIDE DEF f, c
<1>9. CallsFollow'
  <2>1. \A m \in callable : CallFollows(PointOf(file), found.defs, m)
    BY DEF TclInv, CallsFollow
  <2>2. \A m \in Callables(c, f) : CallFollows(PointOf(file), found.defs, m)
    BY <1>1, <1>3, <1>5, <1>7, CallablesFollow
  <2>3. QED
    BY <1>1, <1>2, <2>1, <2>2 DEF CallsFollow
<1>10. EveryReferenceFound'
  <2>1. ASSUME NEW r \in Mentioned(c)
        PROVE  \E x \in found.refs : x.kind = Here(r, f).kind /\ x.name = Here(r, f).name /\ x.at = Here(r, f).at
    <3>1. Here(r, p) \in found.refs
      BY <1>1, <1>5, <1>7, <2>1, RefsFound
    <3>2. Here(r, p).kind = Here(r, f).kind /\ Here(r, p).name = Here(r, f).name /\ Here(r, p).at = Here(r, f).at
      BY DEF Here
    <3>3. QED
      BY <3>1, <3>2
  <2>2. now'.refs = {Here(r, f) : r \in Mentioned(c)}
    BY <1>2
  <2>3. QED
    BY <1>1, <2>1, <2>2 DEF EveryReferenceFound
<1>11. ContextsExact'
  <2>1. ASSUME f.exact, NEW r \in Mentioned(c) PROVE Here(r, f) \in found.refs
    <3>1. Here(r, p) \in found.refs
      BY <1>1, <1>5, <1>7, <2>1, RefsFound
    <3>2. Agrees(f, p)
      BY <1>7, <2>1 DEF Runs, Follows
    <3>3. Here(r, p) = Here(r, f)
      BY <3>2 DEF Agrees, Here
    <3>4. QED
      BY <3>1, <3>3
  <2>2. now'.exact = f.exact /\ now'.refs = {Here(r, f) : r \in Mentioned(c)}
    BY <1>2
  <2>3. QED
    BY <1>1, <2>1, <2>2 DEF ContextsExact
<1>12. EveryDefinitionFound'
  <2>1. ASSUME f.exact, f.listed, NEW e \in Creates(c, f) PROVE Defines(found.defs, e)
    BY <1>1, <1>7, <2>1, DefsFound
  <2>2. now'.exact = f.exact /\ now'.listed = f.listed /\ now'.defs = Creates(c, f)
    BY <1>2
  <2>3. QED
    BY <1>1, <2>1, <2>2 DEF EveryDefinitionFound, Defines
<1>13. EveryLocalFound'
  <2>1. ASSUME f.listed, f.frame = "proc", NEW name \in Binds(c)
        PROVE  \E x \in ToSet(found.defs) : IsLocal(x, name, f.scope)
    BY <1>1, <1>7, <2>1, LocalsFound
  <2>2. /\ now'.listed = f.listed
        /\ now'.locals = IF f.frame = "proc" THEN {[name |-> n, scope |-> f.scope] : n \in Binds(c)} ELSE {}
    BY <1>2
  <2>3. QED
    BY <1>1, <2>1, <2>2 DEF EveryLocalFound, IsLocal
<1>14. BodiesFold'
  <2>1. ASSUME f.listed, NEW n \in run PROVE Started(c, f)[n].at \in found.folds
    BY <1>1, <1>4, <1>5, <1>7, <2>1, StartedFold DEF FrameFollows
  <2>2. now'.listed = f.listed /\ now'.bodies = {Started(c, f)[n].at : n \in run}
    BY <1>2
  <2>3. QED
    BY <1>1, <2>1, <2>2 DEF BodiesFold
<1>15. QED
  BY <1>1, <1>8, <1>9, <1>10, <1>11, <1>12, <1>13, <1>14 DEF TclInv

LEMMA CallKeeps ==
  ASSUME TclInv, Call
  PROVE  TclInv'
<1>1. /\ file' = file /\ found' = found /\ callable' = callable
      /\ file \in Sources /\ found = FileAll(file)
  BY DEF Call, TclInv
<1>2. PICK m \in callable :
        /\ m.body.script # << >>
        /\ stack' = <<[todo |-> m.body.script, at |-> m.body.at, ns |-> m.ns, frame |-> "proc", scope |-> m.body.at,
                       class |-> m.class, exact |-> m.exact, listed |-> m.listed]>>
        /\ now' = [Nothing EXCEPT !.listed = m.listed, !.bodies = {m.body.at},
                     !.locals = IF m.kind = "proc"
                                THEN {[name |-> n, scope |-> m.body.at] : n \in ListNames(m.params)} ELSE {}]
  BY DEF Call
<1> DEFINE g == [todo |-> m.body.script, at |-> m.body.at, ns |-> m.ns, frame |-> "proc", scope |-> m.body.at,
                 class |-> m.class, exact |-> m.exact, listed |-> m.listed]
<1>3. CallFollows(PointOf(file), found.defs, m)
  BY DEF TclInv, CallsFollow
<1>4. file \in Script(Nesting)
  BY <1>1, SourcesAre
<1>5. /\ DOMAIN g = FrameFields /\ g.todo = m.body.script /\ g.ns = m.ns /\ g.frame = "proc" /\ g.scope = m.body.at
      /\ g.class = m.class /\ g.exact = m.exact /\ g.listed = m.listed
  BY DEF FrameFields
<1>6. stack' = <<g>>
  BY <1>2
<1> HIDE DEF g
<1>7. ASSUME NEW c \in ToSet(g.todo) PROVE \E p \in PointOf(file) : Follows(g, c, p)
  <2>1. CASE m.listed
    <3>1. PICK p \in PointOf(file) : BodyOf(m, p)
      BY <1>3, <2>1 DEF CallFollows
    <3>2. PICK b \in ToSet(childBodies(p.cmd, p)) : /\ b.script = m.body.script /\ b.at = m.body.at /\ b.frame = "proc" /\ b.scope = m.body.at
                                                    /\ m.exact => b.ns = m.ns /\ b.class = m.class
      BY <3>1 DEF BodyOf
    <3>3. /\ g.listed = TRUE /\ g.todo = b.script /\ g.frame = b.frame /\ g.scope = b.scope
          /\ g.exact => g.ns = b.ns /\ g.class = b.class
      BY <1>3, <1>5, <2>1, <3>2 DEF CallFollows
    <3>4. QED
      BY <1>4, <1>7, <3>3, BodyFollows
  <2>2. CASE ~m.listed
    <3>1. ~m.exact /\ \E p \in PointOf(file) : ToSet(m.body.script) \subseteq substRefs(p.cmd)
      BY <1>3, <2>2 DEF CallFollows
    <3>2. QED
      BY <1>5, <1>7, <2>2, <3>1 DEF Follows
  <2>3. QED
    BY <2>1, <2>2
<1>8. IsSequence(g.todo) /\ g.todo # << >> /\ g.listed \in BOOLEAN /\ g.exact \in BOOLEAN
  BY <1>2, <1>3, <1>5 DEF CallFollows
<1>9. FrameFollows(PointOf(file), g)
  BY <1>5, <1>7, <1>8 DEF FrameFollows
<1>10. StackFollows'
  BY <1>1, <1>6, <1>8, <1>9, OneElement DEF StackFollows
<1>11. CallsFollow'
  BY <1>1 DEF TclInv, CallsFollow
<1>12. /\ now'.refs = {} /\ now'.defs = {} /\ now'.listed = m.listed /\ now'.bodies = {m.body.at}
       /\ now'.locals = IF m.kind = "proc" THEN {[name |-> n, scope |-> m.body.at] : n \in ListNames(m.params)} ELSE {}
  BY <1>2 DEF Nothing
<1>13. EveryReferenceFound' /\ ContextsExact' /\ EveryDefinitionFound'
  BY <1>12 DEF EveryReferenceFound, ContextsExact, EveryDefinitionFound
<1>14. EveryLocalFound'
  <2>1. m.listed /\ m.kind = "proc" =>
          \A name \in ListNames(m.params) : \E x \in ToSet(found.defs) : IsLocal(x, name, m.body.at)
    BY <1>3 DEF CallFollows
  <2>2. QED
    BY <1>1, <1>12, <2>1 DEF EveryLocalFound, IsLocal
<1>15. BodiesFold'
  <2>1. ASSUME m.listed PROVE m.body.at \in found.folds
    <3>1. PICK p \in PointOf(file) : BodyOf(m, p)
      BY <1>3, <2>1 DEF CallFollows
    <3>2. PICK b \in ToSet(childBodies(p.cmd, p)) : b.at = m.body.at
      BY <3>1 DEF BodyOf
    <3>3. QED
      BY <1>1, <3>2, FoldsGathered
  <2>2. QED
    BY <1>1, <1>12, <2>1 DEF BodiesFold
<1>16. QED
  BY <1>1, <1>10, <1>11, <1>13, <1>14, <1>15 DEF TclInv

LEMMA StutterKeeps ==
  ASSUME TclInv, UNCHANGED vars
  PROVE  TclInv'
BY DEF TclInv, vars, StackFollows, CallsFollow, EveryReferenceFound, ContextsExact, EveryDefinitionFound, EveryLocalFound,
       BodiesFold

THEOREM TclInvHolds == Spec => []TclInv
<1>1. Init => TclInv
  BY InitInv
<1>2. TclInv /\ [Next]_vars => TclInv'
  BY ExecuteKeeps, CallKeeps, StutterKeeps DEF Next
<1>3. QED
  BY <1>1, <1>2, PTL DEF Spec

\* Every command that runs and every variable it reads is a reference of the
\* file (refs.go), however it came to run.
THEOREM EveryReferenceFoundHolds == Spec => []EveryReferenceFound
<1>1. TclInv => EveryReferenceFound
  BY DEF TclInv
<1>2. QED
  BY <1>1, TclInvHolds, PTL

\* It is recorded with the namespace, frame, scope and class it runs in
\* (walk.go, bodies.go), where the text says what these are.
THEOREM ContextsExactHolds == Spec => []ContextsExact
<1>1. TclInv => ContextsExact
  BY DEF TclInv
<1>2. QED
  BY <1>1, TclInvHolds, PTL

\* What a command outside brackets creates is a definition of the file, by its
\* fully-qualified name and with the class around it (defs.go).
THEOREM EveryDefinitionFoundHolds == Spec => []EveryDefinitionFound
<1>1. TclInv => EveryDefinitionFound
  BY DEF TclInv
<1>2. QED
  BY <1>1, TclInvHolds, PTL

\* What a proc binds, its parameters among that, is a local of the body it
\* runs in (defs.go).
THEOREM EveryLocalFoundHolds == Spec => []EveryLocalFound
<1>1. TclInv => EveryLocalFound
  BY DEF TclInv
<1>2. QED
  BY <1>1, TclInvHolds, PTL
=============================================================================
