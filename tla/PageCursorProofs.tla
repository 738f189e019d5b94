-------------------------- MODULE PageCursorProofs --------------------------
(* The template map is right for every page: regions in order and copied   *)
(* verbatim, translations that undo each other, names that stay whole.  A  *)
(* cursor comes back to its position.                                      *)
EXTENDS PageCursor, FiniteSetTheorems, SequenceTheorems, WellFoundedInduction, TLAPS

----------------------------------------------------------------------------
(* The regions of a page (RvtMap).                                         *)

\* The script with a region of the page and a line break behind it.
WithRegion(s, p, start, end) == (s \o SubSeq(p, start + 1, end)) \o <<Newline>>

\* What t is when it consists of s, the region of p and a line break.
HasRegion(t, s, p, start, end) ==
  /\ t \in Seq(Bytes)
  /\ Len(t) = Len(s) + (end - start) + 1
  /\ \A k \in 1..Len(s) : t[k] = s[k]
  /\ \A n \in 0..(end - start - 1) : t[Len(s) + n + 1] = p[start + n + 1]
  /\ t[Len(s) + (end - start) + 1] = Newline

\* What appending a region and a line break to the script does.
LEMMA RegionAppended ==
  ASSUME NEW s \in Seq(Bytes), NEW p \in Seq(Bytes),
         NEW start \in Nat, NEW end \in Nat, start < end, end <= Len(p)
  PROVE  HasRegion(WithRegion(s, p, start, end), s, p, start, end)
<1> DEFINE t == WithRegion(s, p, start, end)
           r == SubSeq(p, start + 1, end)
           b == <<Newline>>
           u == s \o r
<1>1. r \in Seq(Bytes) /\ Len(r) = end - start
  OBVIOUS
<1>2. \A n \in 0..(end - start - 1) : r[n + 1] = p[start + n + 1]
  <2> TAKE n \in 0..(end - start - 1)
  <2>1. n + 1 \in 1..Len(r) /\ (start + 1) + (n + 1) - 1 = start + n + 1
    BY <1>1
  <2>2. QED
    BY <2>1
<1>3. b \in Seq(Bytes) /\ Len(b) = 1 /\ b[1] = Newline
  BY BytesAssumption
<1> HIDE DEF r, b
<1>4. Len(s) \in Nat
  OBVIOUS
<1>5. /\ u \in Seq(Bytes)
      /\ Len(u) = Len(s) + (end - start)
      /\ \A k \in 1..Len(s) : u[k] = s[k]
      /\ \A n \in 0..(end - start - 1) : u[Len(s) + n + 1] = r[n + 1]
  <2>1. /\ u \in Seq(Bytes)
        /\ Len(u) = Len(s) + Len(r)
        /\ \A k \in 1..Len(s) + Len(r) : u[k] = IF k <= Len(s) THEN s[k] ELSE r[k - Len(s)]
    BY <1>1, ConcatProperties
  <2> HIDE DEF u
  <2>2. ASSUME NEW n \in 0..(end - start - 1) PROVE u[Len(s) + n + 1] = r[n + 1]
    <3>1. /\ Len(s) + n + 1 \in 1..Len(s) + Len(r)
          /\ ~(Len(s) + n + 1 <= Len(s))
          /\ (Len(s) + n + 1) - Len(s) = n + 1
      BY <1>1, <1>4
    <3>2. QED
      BY <2>1, <3>1
  <2>3. ASSUME NEW k \in 1..Len(s) PROVE u[k] = s[k]
    <3>1. k \in 1..Len(s) + Len(r) /\ k <= Len(s)
      BY <1>1, <1>4
    <3>2. QED
      BY <2>1, <3>1
  <2>4. QED
    BY <1>1, <2>1, <2>2, <2>3
<1> HIDE DEF u
<1>6. /\ u \o b \in Seq(Bytes)
      /\ Len(u \o b) = Len(u) + 1
      /\ \A k \in 1..Len(u) : (u \o b)[k] = u[k]
      /\ (u \o b)[Len(u) + 1] = Newline
  <2>1. /\ u \o b \in Seq(Bytes)
        /\ Len(u \o b) = Len(u) + Len(b)
        /\ \A k \in 1..Len(u) + Len(b) : (u \o b)[k] = IF k <= Len(u) THEN u[k] ELSE b[k - Len(u)]
    BY <1>3, <1>5, ConcatProperties
  <2>2. Len(u) \in Nat /\ Len(u) + 1 - Len(u) = 1
    BY <1>4, <1>5
  <2>3. QED
    BY <1>3, <2>1, <2>2
<1>7. t = u \o b
  BY DEF u, r, b, WithRegion
<1> HIDE DEF t
<1>8. Len(u) \in Nat /\ \A n \in 0..(end - start - 1) : Len(s) + n + 1 \in 1..Len(u)
  BY <1>4, <1>5
<1>9. QED
  <2>1. t \in Seq(Bytes) /\ Len(t) = Len(s) + (end - start) + 1
    BY <1>5, <1>6, <1>7
  <2>2. \A k \in 1..Len(s) : t[k] = s[k]
    BY <1>4, <1>5, <1>6, <1>7
  <2>3. \A n \in 0..(end - start - 1) : t[Len(s) + n + 1] = p[start + n + 1]
    <3> TAKE n \in 0..(end - start - 1)
    <3>1. Len(s) + n + 1 \in 1..Len(u)
      BY <1>8
    <3>2. t[Len(s) + n + 1] = u[Len(s) + n + 1]
      BY <1>6, <1>7, <3>1
    <3>3. QED
      BY <1>2, <1>5, <3>2
  <2>4. t[Len(s) + (end - start) + 1] = Newline
    BY <1>5, <1>6, <1>7
  <2>5. QED
    BY <2>1, <2>2, <2>3, <2>4 DEF t, HasRegion

\* The types of the map in the form the steps below use them.
LEMMA Types ==
  ASSUME TypeOK
  PROVE  /\ page \in Seq(Bytes) /\ Len(page) \in Nat
         /\ script \in Seq(Bytes) /\ Len(script) \in Nat
         /\ i \in Nat
         /\ mapping \in Seq(Segment) /\ Len(mapping) \in Nat
         /\ DOMAIN mapping = 1..Len(mapping)
         /\ \A k \in DOMAIN mapping : /\ mapping[k] \in Segment
                                      /\ mapping[k].virt \in Nat
                                      /\ mapping[k].src \in Nat
                                      /\ mapping[k].len \in Nat \ {0}
<1>1. page \in Seq(Bytes) /\ script \in Seq(Bytes) /\ mapping \in Seq(Segment)
  BY DEF TypeOK
<1>2. Len(page) \in Nat /\ Len(script) \in Nat /\ Len(mapping) \in Nat /\ DOMAIN mapping = 1..Len(mapping)
  BY <1>1
<1>3. i \in Nat
  BY <1>2 DEF TypeOK
<1>4. \A k \in DOMAIN mapping : mapping[k] \in Segment
  BY <1>1, <1>2, ElementOfSeq
<1>5. QED
  BY <1>1, <1>2, <1>3, <1>4 DEF Segment

\* What is copied stays copied when the script grows.
LEMMA VerbatimKept ==
  ASSUME TypeOK, Verbatim, NEW t \in Seq(Bytes), Len(script) <= Len(t),
         \A k \in 1..Len(script) : t[k] = script[k],
         NEW k \in DOMAIN mapping
  PROVE  /\ mapping[k].virt + mapping[k].len < Len(t)
         /\ \A n \in 0..(mapping[k].len - 1) : t[mapping[k].virt + n + 1] = page[mapping[k].src + n + 1]
         /\ t[mapping[k].virt + mapping[k].len + 1] = Newline
<1> DEFINE v == mapping[k].virt
           c == mapping[k].len
           s == mapping[k].src
<1>1. v \in Nat /\ c \in Nat \ {0} /\ Len(script) \in Nat /\ Len(t) \in Nat
  BY Types
<1>2. /\ v + c < Len(script)
      /\ \A n \in 0..(c - 1) : script[v + n + 1] = page[s + n + 1]
      /\ script[v + c + 1] = Newline
  BY DEF Verbatim
<1> HIDE DEF v, c, s
<1>3. \A n \in 0..c : v + n + 1 \in 1..Len(script)
  BY <1>1, <1>2
<1>4. \A n \in 0..c : t[v + n + 1] = script[v + n + 1]
  BY <1>3
<1>5. v + c < Len(t) /\ c \in 0..c
  BY <1>1, <1>2
<1>6. \A n \in 0..(c - 1) : t[v + n + 1] = page[s + n + 1]
  BY <1>1, <1>2, <1>4
<1>7. t[v + c + 1] = Newline
  BY <1>2, <1>4, <1>5
<1>8. QED
  BY <1>5, <1>6, <1>7 DEF v, c, s

\* Emitting a region that lies behind everything read so far, up to next,
\* keeps the map right.
LEMMA EmitKeepsMap ==
  ASSUME RegionsRight, NEW start \in Nat, NEW end \in Nat, NEW next \in 0..Len(page),
         i < start, start <= end, end <= next,
         Emit(start, end), i' = next, UNCHANGED <<page, done>>
  PROVE  RegionsRight'
<1>1. TypeOK /\ MappingOrdered /\ Verbatim /\ WrapperApart
  BY DEF RegionsRight
<1>2. i' \in 0..Len(page) /\ i' \in Nat /\ i < i' /\ end <= i' /\ end <= Len(page)
  BY <1>1, Types
<1>3. \A k \in DOMAIN mapping : mapping[k].src + mapping[k].len <= i /\ mapping[k].src + mapping[k].len <= i'
  BY <1>1, <1>2, Types DEF Verbatim
<1>4. CASE start = end
  <2>1. UNCHANGED <<page, script, mapping, done>>
    BY <1>4 DEF Emit
  <2>2. TypeOK'
    BY <1>1, <1>2, <2>1 DEF TypeOK
  <2>3. MappingOrdered' /\ WrapperApart'
    BY <1>1, <2>1 DEF MappingOrdered, WrapperApart
  <2>4. Verbatim'
    BY <1>1, <1>3, <2>1 DEF Verbatim
  <2>5. QED
    BY <2>2, <2>3, <2>4 DEF RegionsRight
<1>5. CASE start < end
  <2> DEFINE m == [virt |-> Len(script), src |-> start, len |-> end - start]
  <2>1. mapping' = Append(mapping, m) /\ script' = WithRegion(script, page, start, end)
    BY <1>5 DEF Emit, WithRegion
  <2>2. m \in Segment
    BY <1>1, <1>5, Types DEF Segment
  <2>3. m.virt = Len(script) /\ m.src = start /\ m.len = end - start
    OBVIOUS
  <2> HIDE DEF m
  <2>4. /\ script' \in Seq(Bytes)
        /\ Len(script') = Len(script) + (end - start) + 1
        /\ \A k \in 1..Len(script) : script'[k] = script[k]
        /\ \A n \in 0..(end - start - 1) : script'[Len(script) + n + 1] = page[start + n + 1]
        /\ script'[Len(script) + (end - start) + 1] = Newline
    <3>1. page \in Seq(Bytes) /\ script \in Seq(Bytes)
      BY <1>1, Types
    <3>2. HasRegion(script', script, page, start, end)
      BY <1>2, <1>5, <2>1, <3>1, RegionAppended
    <3>3. QED
      BY <3>2 DEF HasRegion
  <2>5. Len(script) <= Len(script') /\ Len(script') \in Nat
    BY <1>1, <1>5, <2>4, Types
  <2>6. /\ mapping' \in Seq(Segment)
        /\ DOMAIN mapping' = DOMAIN mapping \cup {Len(mapping) + 1}
        /\ \A k \in DOMAIN mapping : mapping'[k] = mapping[k] /\ k < Len(mapping) + 1
        /\ mapping'[Len(mapping) + 1] = m
    <3>1. mapping \in Seq(Segment) /\ Len(mapping) \in Nat /\ DOMAIN mapping = 1..Len(mapping)
      BY <1>1, Types
    <3>2. /\ mapping' \in Seq(Segment)
          /\ Len(mapping') = Len(mapping) + 1
          /\ \A k \in 1..Len(mapping) : mapping'[k] = mapping[k]
          /\ mapping'[Len(mapping) + 1] = m
      BY <2>1, <2>2, <3>1, AppendProperties
    <3>3. DOMAIN mapping' = 1..(Len(mapping) + 1)
      BY <3>2
    <3>4. QED
      BY <3>1, <3>2, <3>3
  <2>7. TypeOK'
    BY <1>1, <1>2, <2>4, <2>6 DEF TypeOK
  <2>8. MappingOrdered'
    <3> SUFFICES ASSUME NEW j \in DOMAIN mapping', NEW k \in DOMAIN mapping', j < k
                 PROVE  /\ mapping'[j].virt + mapping'[j].len < mapping'[k].virt
                        /\ mapping'[j].src + mapping'[j].len < mapping'[k].src
      BY DEF MappingOrdered
    <3>1. Len(mapping) \in Nat /\ DOMAIN mapping = 1..Len(mapping)
      BY <1>1, Types
    <3>2. j \in DOMAIN mapping /\ mapping'[j] = mapping[j]
      BY <2>6, <3>1
    <3>3. CASE k \in DOMAIN mapping
      BY <1>1, <2>6, <3>2, <3>3 DEF MappingOrdered
    <3>4. CASE k = Len(mapping) + 1
      <4>1. mapping'[k].virt = Len(script) /\ mapping'[k].src = start
        BY <2>3, <2>6, <3>4
      <4>2. mapping[j].virt + mapping[j].len < Len(script)
        BY <1>1, <3>2 DEF Verbatim
      <4>3. mapping[j].src + mapping[j].len < start
        BY <1>1, <1>3, <3>2, Types
      <4>4. QED
        BY <3>2, <4>1, <4>2, <4>3
    <3>5. QED
      BY <2>6, <3>3, <3>4
  <2>9. Verbatim'
    <3> SUFFICES ASSUME NEW k \in DOMAIN mapping'
                 PROVE  /\ mapping'[k].virt + mapping'[k].len < Len(script')
                        /\ mapping'[k].src + mapping'[k].len <= i'
                        /\ \A n \in 0..(mapping'[k].len - 1) :
                             script'[mapping'[k].virt + n + 1] = page[mapping'[k].src + n + 1]
                        /\ script'[mapping'[k].virt + mapping'[k].len + 1] = Newline
      BY DEF Verbatim
    <3>1. CASE k \in DOMAIN mapping
      <4>1. mapping'[k] = mapping[k] /\ mapping[k].src + mapping[k].len <= i'
        BY <1>3, <2>6, <3>1
      <4>2. /\ mapping[k].virt + mapping[k].len < Len(script')
            /\ \A n \in 0..(mapping[k].len - 1) : script'[mapping[k].virt + n + 1] = page[mapping[k].src + n + 1]
            /\ script'[mapping[k].virt + mapping[k].len + 1] = Newline
        BY <1>1, <2>4, <2>5, <3>1, VerbatimKept, Types
      <4>3. QED
        BY <4>1, <4>2
    <3>2. CASE k = Len(mapping) + 1
      <4>1. mapping'[k].virt = Len(script) /\ mapping'[k].src = start /\ mapping'[k].len = end - start
        BY <2>3, <2>6, <3>2
      <4>2. start + (end - start) <= i' /\ Len(script) + (end - start) < Len(script')
        BY <1>1, <1>2, <2>4, Types
      <4>3. QED
        <5>1. /\ mapping'[k].virt + mapping'[k].len < Len(script')
              /\ mapping'[k].src + mapping'[k].len <= i'
          BY <4>1, <4>2
        <5>2. script'[mapping'[k].virt + mapping'[k].len + 1] = Newline
          BY <2>4, <4>1
        <5>3. \A n \in 0..(mapping'[k].len - 1) :
                script'[mapping'[k].virt + n + 1] = page[mapping'[k].src + n + 1]
          BY <2>4, <4>1
        <5>4. QED
          BY <5>1, <5>2, <5>3
    <3>3. QED
      BY <2>6, <3>1, <3>2
  <2>10. WrapperApart'
    <3>1. Len(Prefix) \in Nat \ {0} /\ Len(Prefix) <= Len(script) /\ Len(script) \in Nat
      BY <1>1, BytesAssumption, Types DEF WrapperApart
    <3>2. script'[Len(Prefix)] = Newline /\ Len(Prefix) <= Len(script')
      BY <1>1, <2>4, <2>5, <3>1 DEF WrapperApart
    <3>3. \A k \in DOMAIN mapping' : Len(Prefix) <= mapping'[k].virt
      BY <1>1, <2>3, <2>6, <3>1 DEF WrapperApart
    <3>4. QED
      BY <3>2, <3>3 DEF WrapperApart
  <2>11. QED
    BY <2>7, <2>8, <2>9, <2>10 DEF RegionsRight
<1>6. QED
  BY <1>4, <1>5

\* Init gives the prefix alone.
LEMMA InitMap == Init => RegionsRight
<1> SUFFICES ASSUME Init PROVE RegionsRight
  OBVIOUS
<1>1. TypeOK
  <2>1. page \in Seq(Bytes) /\ script \in Seq(Bytes) /\ done \in BOOLEAN
    BY BytesAssumption, PagesAssumption DEF Init
  <2>2. i = 0 /\ 0 \in 0..Len(page)
    BY <2>1 DEF Init
  <2>3. mapping \in Seq(Segment)
    BY DEF Init
  <2>4. QED
    BY <2>1, <2>2, <2>3 DEF TypeOK
<1>2. MappingOrdered /\ Verbatim
  BY DEF Init, MappingOrdered, Verbatim
<1>3. WrapperApart
  BY BytesAssumption DEF Init, WrapperApart
<1>4. QED
  BY <1>1, <1>2, <1>3 DEF RegionsRight

\* A tag lies within the page, and its code begins behind it.
LEMMA CodeBehindTag ==
  ASSUME TypeOK, NEW open \in Tags("<", "?", i)
  PROVE  /\ CodeStart(open) \in Nat
         /\ i < CodeStart(open)
         /\ CodeStart(open) <= Len(page)
  BY DEF TypeOK, Tags, CodeStart

\* The script ends with the wrapper's last line.
LEMMA SuffixAppended ==
  ASSUME NEW s \in Seq(Bytes)
  PROVE  /\ s \o Suffix \in Seq(Bytes)
         /\ Len(s) <= Len(s \o Suffix)
         /\ \A k \in 1..Len(s) : (s \o Suffix)[k] = s[k]
  BY BytesAssumption

\* Each step keeps the map right.
LEMMA StepKeepsMap == RegionsRight /\ [Next]_vars => RegionsRight'
<1> SUFFICES ASSUME RegionsRight, [Next]_vars PROVE RegionsRight'
  OBVIOUS
<1>0. TypeOK
  BY DEF RegionsRight
<1>1. ASSUME NEW open \in 0..Len(page), NEW close \in 0..Len(page), Region(open, close)
      PROVE  RegionsRight'
  <2>1. /\ CodeStart(open) \in Nat
        /\ i < CodeStart(open)
    BY <1>0, <1>1, CodeBehindTag DEF Region, First
  <2>2. close \in Nat /\ CodeStart(open) <= close /\ close + 2 \in 0..Len(page)
    BY <1>0, <1>1, <2>1 DEF Region, First, Tags, TypeOK
  <2>3. Emit(CodeStart(open), close) /\ i' = close + 2 /\ UNCHANGED <<page, done>>
    BY <1>1 DEF Region
  <2>4. QED
    BY <2>1, <2>2, <2>3, EmitKeepsMap
<1>2. ASSUME NEW open \in 0..Len(page), Unterminated(open)
      PROVE  RegionsRight'
  <2>1. /\ CodeStart(open) \in Nat
        /\ i < CodeStart(open)
        /\ CodeStart(open) <= Len(page)
    BY <1>0, <1>2, CodeBehindTag DEF Unterminated, First
  <2>2. Emit(CodeStart(open), Len(page)) /\ i' = Len(page) /\ UNCHANGED <<page, done>>
    BY <1>2 DEF Unterminated
  <2>3. Len(page) \in Nat /\ Len(page) \in 0..Len(page)
    BY <1>0 DEF TypeOK
  <2>4. QED
    BY <2>1, <2>2, <2>3, EmitKeepsMap
<1>3. CASE Finish
  <2>1. script' = script \o Suffix /\ done' = TRUE /\ UNCHANGED <<page, i, mapping>>
    BY <1>3 DEF Finish
  <2>2. /\ script' \in Seq(Bytes)
        /\ Len(script) <= Len(script')
        /\ \A k \in 1..Len(script) : script'[k] = script[k]
    BY <1>0, <2>1, SuffixAppended DEF TypeOK
  <2>3. Len(script) \in Nat /\ Len(script') \in Nat
    BY <1>0, <2>2 DEF TypeOK
  <2>4. TypeOK' /\ MappingOrdered'
    BY <2>1, <2>2 DEF RegionsRight, TypeOK, MappingOrdered
  <2>5. Verbatim'
    <3>1. ASSUME NEW k \in DOMAIN mapping
          PROVE  /\ mapping[k].virt + mapping[k].len < Len(script')
                 /\ \A n \in 0..(mapping[k].len - 1) :
                      script'[mapping[k].virt + n + 1] = page[mapping[k].src + n + 1]
                 /\ script'[mapping[k].virt + mapping[k].len + 1] = Newline
      BY <1>0, <2>2, VerbatimKept DEF RegionsRight
    <3>2. \A k \in DOMAIN mapping : mapping[k].src + mapping[k].len <= i
      BY DEF RegionsRight, Verbatim
    <3>3. QED
      BY <2>1, <3>1, <3>2 DEF Verbatim
  <2>6. WrapperApart'
    <3>1. Len(Prefix) \in 1..Len(script)
      BY <2>3, BytesAssumption DEF RegionsRight, WrapperApart
    <3>2. QED
      BY <2>1, <2>2, <2>3, <3>1 DEF RegionsRight, WrapperApart
  <2>7. QED
    BY <2>4, <2>5, <2>6 DEF RegionsRight
<1>4. CASE UNCHANGED vars
  BY <1>4 DEF vars, RegionsRight, TypeOK, MappingOrdered, Verbatim, WrapperApart
<1>5. QED
  BY <1>1, <1>2, <1>3, <1>4 DEF Next

\* The regions are in order, apart and copied verbatim, and the wrapper is
\* not mapped: what both translations of package rvt rest on, for every page.
LEMMA RegionsRightHolds == Spec => []RegionsRight
  BY InitMap, StepKeepsMap, PTL DEF Spec

----------------------------------------------------------------------------
(* Translation.                                                            *)

\* A set of offsets or of indices has a first member.
LEMMA FirstExists ==
  ASSUME NEW S \in SUBSET Nat, S # {}
  PROVE  \E k \in S : First(k, S)
<1>1. PICK k \in S : \A j \in S : ~(<<j, k>> \in OpToRel(<, Nat))
  BY NatLessThanWellFounded, WFMin
<1>2. \A j \in S : ~(j < k)
  BY <1>1 DEF OpToRel
<1>3. QED
  BY <1>2 DEF First

\* And only one.
LEMMA FirstUnique ==
  ASSUME NEW S \in SUBSET Nat, NEW k, First(k, S)
  PROVE  (CHOOSE j \in S : First(j, S)) = k
<1>1. k \in S /\ \A j \in S : First(j, S) => j = k
  BY DEF First
<1>2. QED
  BY <1>1

\* The offset is in the region of the script.
InRegion(k, v) == mapping[k].virt <= v /\ v < mapping[k].virt + mapping[k].len

\* What ToSource answers: offsets in a region are translated, others are not.
LEMMA ToSourceInRegion ==
  ASSUME RegionsRight, NEW v \in Nat, NEW k \in DOMAIN mapping, InRegion(k, v)
  PROVE  ToSource(v) = mapping[k].src + (v - mapping[k].virt)
<1>1. TypeOK /\ MappingOrdered
  BY DEF RegionsRight
<1>2. k \in EndsAfter(v) /\ EndsAfter(v) \in SUBSET Nat
  BY <1>1, Types DEF EndsAfter, InRegion
<1>3. ASSUME NEW j \in EndsAfter(v) PROVE k <= j
  <2>1. j \in DOMAIN mapping /\ mapping[j].virt + mapping[j].len > v
    BY DEF EndsAfter
  <2>2. j \in Nat /\ k \in Nat
    BY <1>1, <2>1, Types
  <2>3. ASSUME j < k PROVE FALSE
    <3>1. mapping[j].virt + mapping[j].len < mapping[k].virt
      BY <1>1, <2>1, <2>3 DEF MappingOrdered
    <3>2. QED
      BY <1>1, <2>1, <3>1, Types DEF InRegion
  <2>4. QED
    BY <2>2, <2>3
<1>4. First(k, EndsAfter(v))
  BY <1>2, <1>3 DEF First
<1>5. (CHOOSE j \in EndsAfter(v) : First(j, EndsAfter(v))) = k
  BY <1>2, <1>4, FirstUnique
<1>6. QED
  BY <1>2, <1>5 DEF ToSource, InRegion

LEMMA ToSourceOnlyInRegion ==
  ASSUME RegionsRight, NEW v \in Nat, ToSource(v) # Unmapped
  PROVE  \E k \in DOMAIN mapping : InRegion(k, v)
<1>1. TypeOK
  BY DEF RegionsRight
<1>2. EndsAfter(v) # {} /\ EndsAfter(v) \in SUBSET Nat
  BY <1>1, Types DEF ToSource, EndsAfter
<1> DEFINE k == CHOOSE j \in EndsAfter(v) : First(j, EndsAfter(v))
<1>3. k \in EndsAfter(v)
  BY <1>2, FirstExists
<1>4. mapping[k].virt <= v
  BY DEF ToSource
<1>5. QED
  BY <1>3, <1>4 DEF EndsAfter, InRegion

\* The same of ToVirtual.
LEMMA ToVirtualInSource ==
  ASSUME RegionsRight, NEW s \in Nat, NEW k \in DOMAIN mapping, InSource(k, s)
  PROVE  ToVirtual(s) = mapping[k].virt + (s - mapping[k].src)
<1>1. TypeOK /\ MappingOrdered
  BY DEF RegionsRight
<1>2. k \in SourceEndsAfter(s) /\ SourceEndsAfter(s) \in SUBSET Nat
  BY <1>1, Types DEF SourceEndsAfter, InSource
<1>3. ASSUME NEW j \in SourceEndsAfter(s) PROVE k <= j
  <2>1. j \in DOMAIN mapping /\ mapping[j].src + mapping[j].len > s
    BY DEF SourceEndsAfter
  <2>2. j \in Nat /\ k \in Nat
    BY <1>1, <2>1, Types
  <2>3. ASSUME j < k PROVE FALSE
    <3>1. mapping[j].src + mapping[j].len < mapping[k].src
      BY <1>1, <2>1, <2>3 DEF MappingOrdered
    <3>2. QED
      BY <1>1, <2>1, <3>1, Types DEF InSource
  <2>4. QED
    BY <2>2, <2>3
<1>4. First(k, SourceEndsAfter(s))
  BY <1>2, <1>3 DEF First
<1>5. (CHOOSE j \in SourceEndsAfter(s) : First(j, SourceEndsAfter(s))) = k
  BY <1>2, <1>4, FirstUnique
<1>6. QED
  BY <1>2, <1>5 DEF ToVirtual, InSource

LEMMA ToVirtualOnlyInSource ==
  ASSUME RegionsRight, NEW s \in Nat, ToVirtual(s) # Unmapped
  PROVE  \E k \in DOMAIN mapping : InSource(k, s)
<1>1. TypeOK
  BY DEF RegionsRight
<1>2. SourceEndsAfter(s) # {} /\ SourceEndsAfter(s) \in SUBSET Nat
  BY <1>1, Types DEF ToVirtual, SourceEndsAfter
<1> DEFINE k == CHOOSE j \in SourceEndsAfter(s) : First(j, SourceEndsAfter(s))
<1>3. k \in SourceEndsAfter(s)
  BY <1>2, FirstExists
<1>4. mapping[k].src <= s
  BY DEF ToVirtual
<1>5. QED
  BY <1>3, <1>4 DEF SourceEndsAfter, InSource

LEMMA MapInverts == RegionsRight => TranslationsInvert
<1> SUFFICES ASSUME RegionsRight PROVE TranslationsInvert
  OBVIOUS
<1>1. TypeOK
  BY DEF RegionsRight
<1>2. ASSUME NEW v \in 0..(Len(script) - 1), ToSource(v) # Unmapped
      PROVE  ToVirtual(ToSource(v)) = v
  <2>1. v \in Nat
    OBVIOUS
  <2>2. PICK k \in DOMAIN mapping : InRegion(k, v)
    BY <1>2, <2>1, ToSourceOnlyInRegion
  <2> DEFINE s == mapping[k].src + (v - mapping[k].virt)
  <2>3. ToSource(v) = s
    BY <2>1, <2>2, ToSourceInRegion
  <2>4. s \in Nat /\ InSource(k, s) /\ mapping[k].virt + (s - mapping[k].src) = v
    <3> DEFINE a == mapping[k].src
               b == mapping[k].virt
               c == mapping[k].len
    <3>1. a \in Nat /\ b \in Nat /\ c \in Nat
      BY <1>1, Types
    <3>2. b <= v /\ v < b + c
      BY <2>2 DEF InRegion
    <3>3. InSource(k, s) <=> a <= s /\ s < a + c
      BY DEF InSource
    <3>4. s = a + (v - b)
      OBVIOUS
    <3> HIDE DEF a, b, c, s
    <3>5. s \in Nat /\ a <= s /\ s < a + c /\ b + (s - a) = v
      BY <2>1, <3>1, <3>2, <3>4
    <3>6. QED
      BY <3>3, <3>5 DEF a, b
  <2> HIDE DEF s
  <2>5. QED
    BY <2>3, <2>4, ToVirtualInSource
<1>3. ASSUME NEW s \in 0..(Len(page) - 1), ToVirtual(s) # Unmapped
      PROVE  ToSource(ToVirtual(s)) = s
  <2>1. s \in Nat
    OBVIOUS
  <2>2. PICK k \in DOMAIN mapping : InSource(k, s)
    BY <1>3, <2>1, ToVirtualOnlyInSource
  <2> DEFINE v == mapping[k].virt + (s - mapping[k].src)
  <2>3. ToVirtual(s) = v
    BY <2>1, <2>2, ToVirtualInSource
  <2>4. v \in Nat /\ InRegion(k, v) /\ mapping[k].src + (v - mapping[k].virt) = s
    <3> DEFINE a == mapping[k].src
               b == mapping[k].virt
               c == mapping[k].len
    <3>1. a \in Nat /\ b \in Nat /\ c \in Nat
      BY <1>1, Types
    <3>2. a <= s /\ s < a + c
      BY <2>2 DEF InSource
    <3>3. InRegion(k, v) <=> b <= v /\ v < b + c
      BY DEF InRegion
    <3>4. v = b + (s - a)
      OBVIOUS
    <3> HIDE DEF a, b, c, v
    <3>5. v \in Nat /\ b <= v /\ v < b + c /\ a + (v - b) = s
      BY <2>1, <3>1, <3>2, <3>4
    <3>6. QED
      BY <3>3, <3>5 DEF a, b
  <2> HIDE DEF v
  <2>5. QED
    BY <2>3, <2>4, ToSourceInRegion
<1>4. QED
  BY <1>2, <1>3 DEF TranslationsInvert

\* The two translations undo each other on every page: a cursor and the
\* answers to it come back to where they were.
THEOREM TranslationsInvertHolds == Spec => []TranslationsInvert
  BY RegionsRightHolds, MapInverts, PTL

\* A word that starts in a region ends in it, because a line break follows.
LEMMA MapKeepsWords == RegionsRight => WordsKept
<1> SUFFICES ASSUME RegionsRight,
                    NEW start \in 0..Len(script), NEW end \in 0..Len(script), start < end,
                    OnOneLine(start, end), TranslatedRange(start, end) # NoRange,
                    NEW n \in 0..(end - start - 1)
             PROVE  /\ ToSource(start) + n < Len(page)
                    /\ page[ToSource(start) + n + 1] = script[start + n + 1]
  BY DEF WordsKept
<1>1. TypeOK /\ Verbatim
  BY DEF RegionsRight
<1>2. Len(script) \in Nat /\ Len(page) \in Nat /\ start \in Nat /\ end \in Nat /\ n \in Nat
  BY <1>1, Types
<1>3. PICK k \in DOMAIN mapping : InRegion(k, start)
  BY <1>2, ToSourceOnlyInRegion DEF TranslatedRange
<1> DEFINE v == mapping[k].virt
           c == mapping[k].len
           s == mapping[k].src
<1>4. v \in Nat /\ s \in Nat /\ c \in Nat /\ v <= start /\ start < v + c
  BY <1>1, <1>3, Types DEF InRegion
<1>5. ToSource(start) = s + (start - v)
  BY <1>2, <1>3, ToSourceInRegion
<1>6. /\ s + c <= Len(page)
      /\ \A j \in 0..(c - 1) : script[v + j + 1] = page[s + j + 1]
      /\ script[v + c + 1] = Newline
  <2>1. s + c <= i /\ i <= Len(page) /\ i \in Nat
    BY <1>1, Types DEF Verbatim, TypeOK
  <2>2. QED
    BY <1>1, <1>2, <1>4, <2>1 DEF Verbatim
<1> HIDE DEF v, c, s
<1>7. end <= v + c
  <2>1. ASSUME v + c < end PROVE FALSE
    <3>1. v + c \in start..(end - 1)
      BY <1>2, <1>4, <2>1
    <3>2. QED
      BY <1>6, <3>1 DEF OnOneLine
  <2>2. QED
    BY <1>2, <1>4, <2>1
<1> DEFINE j == (start - v) + n
<1>8. j \in 0..(c - 1) /\ v + j + 1 = start + n + 1 /\ (s + (start - v)) + n = s + j
  BY <1>2, <1>4, <1>7
<1>9. s + j < Len(page)
  BY <1>2, <1>4, <1>6, <1>8
<1>10. script[start + n + 1] = page[s + j + 1]
  BY <1>6, <1>8
<1> HIDE DEF j
<1>11. QED
  BY <1>5, <1>8, <1>9, <1>10

\* A name or a reference of a page is answered with a range that holds its
\* own bytes, or not at all.
THEOREM WordsKeptHolds == Spec => []WordsKept
  BY RegionsRightHolds, MapKeepsWords, PTL

----------------------------------------------------------------------------
(* Code.                                                                   *)

\* Modes of the offsets up to n.
IsModeTo(m, n) == m = [k \in 0..n |-> IF k = 0 THEN "text" ELSE ModeAfter(m[k - 1], k)]

\* Every offset has a mode: one to the first offset without could be
\* continued by one more.
LEMMA ModeExists ==
  ASSUME NEW n \in Nat
  PROVE  \E m : IsModeTo(m, n)
<1> DEFINE Without == {k \in Nat : ~ \E m : IsModeTo(m, k)}
<1>1. SUFFICES ASSUME Without # {} PROVE FALSE
  OBVIOUS
<1>2. PICK k \in Without : First(k, Without)
  BY <1>1, FirstExists
<1>3. k \in Nat /\ \A j \in Nat : j < k => \E m : IsModeTo(m, j)
  BY <1>2 DEF First
<1>4. k # 0
  <2>1. IsModeTo([j \in 0..0 |-> "text"], 0)
    BY DEF IsModeTo
  <2>2. QED
    BY <1>2, <2>1
<1>5. k - 1 \in Nat /\ k - 1 < k
  BY <1>3, <1>4
<1>6. PICK m : IsModeTo(m, k - 1)
  BY <1>3, <1>5
<1> DEFINE M == [j \in 0..k |-> IF j = k THEN ModeAfter(m[k - 1], k) ELSE m[j]]
<1>7. \A j \in 0..(k - 1) : m[j] = IF j = 0 THEN "text" ELSE ModeAfter(m[j - 1], j)
  BY <1>3, <1>5, <1>6 DEF IsModeTo
<1>8. \A j \in 0..k : M[j] = IF j = 0 THEN "text" ELSE ModeAfter(M[j - 1], j)
  <2> SUFFICES ASSUME NEW j \in 0..k
               PROVE  M[j] = IF j = 0 THEN "text" ELSE ModeAfter(M[j - 1], j)
    OBVIOUS
  <2>1. CASE j = 0
    BY <1>4, <1>5, <1>7, <2>1
  <2>2. CASE j # 0
    <3>1. j - 1 \in 0..(k - 1) /\ M[j - 1] = m[j - 1]
      BY <1>3, <2>2
    <3>2. QED
      BY <1>3, <1>7, <2>2, <3>1
  <2>3. QED
    BY <2>1, <2>2
<1>9. M = [j \in 0..k |-> IF j = 0 THEN "text" ELSE ModeAfter(M[j - 1], j)]
  <2> DEFINE W == [j \in 0..k |-> IF j = 0 THEN "text" ELSE ModeAfter(M[j - 1], j)]
  <2>1. \A j \in 0..k : M[j] = W[j]
    BY <1>8
  <2>2. QED
    BY <2>1
<1>10. QED
  BY <1>2, <1>9 DEF IsModeTo

\* What Mode is.
LEMMA ModeIs ==
  ASSUME TypeOK
  PROVE  /\ Mode[0] = "text"
         /\ \A k \in 1..Len(page) : Mode[k] = ModeAfter(Mode[k - 1], k)
<1>1. Len(page) \in Nat
  BY Types
<1>2. IsModeTo(Mode, Len(page))
  BY <1>1, ModeExists DEF Mode, IsModeTo
<1>3. QED
  BY <1>1, <1>2 DEF IsModeTo

\* Without a tag, text goes on.
LEMMA TextGoesOn ==
  ASSUME TypeOK, NEW a \in Nat, NEW b \in Nat, a <= b, b <= Len(page), Mode[a] = "text",
         \A k \in a..(b - 1) : k \notin Tags("<", "?", a)
  PROVE  \A k \in a..b : Mode[k] = "text"
<1> DEFINE Others == {k \in a..b : Mode[k] # "text"}
<1>1. SUFFICES ASSUME Others # {} PROVE FALSE
  OBVIOUS
<1>2. Others \in SUBSET Nat
  OBVIOUS
<1>3. PICK k \in Others : First(k, Others)
  BY <1>1, <1>2, FirstExists
<1>4. Len(page) \in Nat /\ k - 1 \in a..(b - 1) /\ k \in 1..Len(page) /\ (k - 1) + 1 = k
  BY <1>3, Types
<1>5. Mode[k - 1] = "text"
  BY <1>3, <1>4 DEF First
<1>6. ~(At(k - 1, "<") /\ At(k, "?"))
  BY <1>4 DEF At, Tags
<1>7. Mode[k] = "text"
  BY <1>4, <1>5, <1>6, ModeIs DEF ModeAfter
<1>8. QED
  BY <1>3, <1>7

\* Without a closing tag, code goes on behind its first byte.
LEMMA CodeGoesOn ==
  ASSUME TypeOK, NEW a \in Nat, NEW b \in Nat, a <= b, b <= Len(page), Mode[a] \in {"head", "code"},
         \A k \in a..(b - 1) : k \notin Tags("?", ">", a)
  PROVE  \A k \in a..b : Mode[k] \in {"head", "code"} /\ (k # a => Mode[k] = "code")
<1> DEFINE Good(k) == Mode[k] \in {"head", "code"} /\ (k # a => Mode[k] = "code")
           Others == {k \in a..b : ~Good(k)}
<1>1. SUFFICES ASSUME Others # {} PROVE FALSE
  OBVIOUS
<1>2. Others \in SUBSET Nat
  OBVIOUS
<1>3. PICK k \in Others : First(k, Others)
  BY <1>1, <1>2, FirstExists
<1>4. Len(page) \in Nat /\ k - 1 \in a..(b - 1) /\ k \in 1..Len(page) /\ (k - 1) + 1 = k
  BY <1>3, Types
<1>5. Mode[k - 1] \in {"head", "code"}
  BY <1>3, <1>4 DEF First
<1>6. ~(At(k - 1, "?") /\ At(k, ">"))
  BY <1>4 DEF At, Tags
<1>7. Mode[k] = "code"
  BY <1>4, <1>5, <1>6, ModeIs DEF ModeAfter
<1>8. QED
  BY <1>3, <1>7

\* The offsets Emit adds to the mapped ones are those of the region.
LEMMA EmitMaps ==
  ASSUME TypeOK, NEW start \in Nat, NEW end \in Nat, start <= end, Emit(start, end), NEW k \in Nat
  PROVE  Mapped(k)' <=> Mapped(k) \/ (start <= k /\ k < end)
<1>1. CASE start = end
  BY <1>1 DEF Emit, Mapped, InSource
<1>2. CASE start < end
  <2> DEFINE m == [virt |-> Len(script), src |-> start, len |-> end - start]
  <2>1. mapping' = Append(mapping, m)
    BY <1>2 DEF Emit
  <2>2. m.src = start /\ m.len = end - start
    OBVIOUS
  <2> HIDE DEF m
  <2>3. mapping \in Seq(Segment) /\ Len(mapping) \in Nat /\ DOMAIN mapping = 1..Len(mapping)
    BY Types
  <2>4. PICK n \in Nat : n = Len(mapping) + 1
    BY <2>3
  <2>5. /\ DOMAIN mapping' = DOMAIN mapping \cup {n}
        /\ \A j \in DOMAIN mapping : mapping'[j] = mapping[j]
        /\ mapping'[n] = m
    BY <2>1, <2>3, <2>4
  <2>6. \A j \in DOMAIN mapping : InSource(j, k)' <=> InSource(j, k)
    BY <2>5 DEF InSource
  <2>7. InSource(n, k)' <=> start <= k /\ k < end
    BY <1>2, <2>2, <2>5 DEF InSource
  <2>8. QED
    BY <2>5, <2>6, <2>7 DEF Mapped
<1>3. QED
  BY <1>1, <1>2

\* What is mapped lies before i.
LEMMA MappedIsRead ==
  ASSUME RegionsRight, NEW k \in Nat, Mapped(k)
  PROVE  k < i
<1>1. PICK j \in DOMAIN mapping : InSource(j, k)
  BY DEF Mapped
<1>2. mapping[j].src + mapping[j].len <= i
  BY DEF RegionsRight, Verbatim
<1>3. QED
  BY <1>1, <1>2, Types DEF InSource, RegionsRight

\* A tag makes Rivet leave the text in three bytes, and code begins at
\* CodeStart.
LEMMA TagIsLeft ==
  ASSUME RegionsRight, CodeSoFar, NEW open \in Nat, First(open, Tags("<", "?", i))
  PROVE  /\ \A k \in i..open : Mode[k] = "text"
         /\ Mode[open + 1] = "tag" /\ Mode[open + 2] = "head"
         /\ \A k \in i..(CodeStart(open) - 1) : k < Len(page) /\ ~IsCode(Mode, k)
<1>1. TypeOK
  BY DEF RegionsRight
<1>2. /\ Len(page) \in Nat /\ i \in Nat /\ i <= open /\ open + 2 <= Len(page)
      /\ page[open + 1] = "<" /\ page[open + 2] = "?"
  BY <1>1, Types DEF First, Tags
<1>3. \A k \in i..(open - 1) : k \notin Tags("<", "?", i)
  BY <1>2 DEF First
<1>4. Mode[i] = "text"
  BY <1>2 DEF CodeSoFar
<1>5. \A k \in i..open : Mode[k] = "text"
  BY <1>1, <1>2, <1>3, <1>4, TextGoesOn
<1>6. Mode[open + 1] = "tag"
  <2>1. open + 1 \in 1..Len(page) /\ (open + 1) - 1 = open /\ (open + 1) + 1 = open + 2
    BY <1>2
  <2>2. Mode[open + 1] = ModeAfter("text", open + 1)
    BY <1>1, <1>2, <1>5, <2>1, ModeIs
  <2>3. At(open, "<") /\ At(open + 1, "?")
    BY <1>2, <2>1 DEF At
  <2>4. QED
    BY <2>1, <2>2, <2>3 DEF ModeAfter
<1>7. Mode[open + 2] = "head"
  <2>1. open + 2 \in 1..Len(page) /\ (open + 2) - 1 = open + 1
    BY <1>2
  <2>2. Mode[open + 2] = ModeAfter("tag", open + 2)
    BY <1>1, <1>6, <2>1, ModeIs
  <2>3. QED
    BY <2>2 DEF ModeAfter
<1>8. ASSUME NEW k \in i..(CodeStart(open) - 1)
      PROVE  k < Len(page) /\ ~IsCode(Mode, k)
  <2>1. CASE k <= open
    BY <1>2, <1>5, <2>1 DEF IsCode
  <2>2. CASE k = open + 1
    BY <1>2, <1>6, <2>2 DEF IsCode
  <2>3. CASE k # open + 1 /\ ~(k <= open)
    <3>1. k = open + 2 /\ open + 3 <= Len(page) /\ page[open + 3] = "="
      BY <1>2, <2>3 DEF CodeStart
    <3>2. At(k, "=")
      BY <1>2, <3>1 DEF At
    <3>3. QED
      BY <1>2, <1>7, <3>1, <3>2 DEF IsCode
  <2>4. QED
    BY <2>1, <2>2, <2>3
<1>9. QED
  BY <1>5, <1>6, <1>7, <1>8

\* What a step adds to the code: the region from start to end, when Rivet has
\* only text and tags before it, only code in it, and no code from its end to
\* next, where Rivet is in text.
LEMMA CodeGrows ==
  ASSUME RegionsRight, CodeSoFar, ~done, NEW start \in Nat, NEW end \in Nat, NEW next \in Nat,
         i <= start, start <= end, end <= next, next <= Len(page),
         \A k \in i..(start - 1) : ~IsCode(Mode, k),
         \A k \in start..(end - 1) : IsCode(Mode, k),
         \A k \in end..(next - 1) : ~IsCode(Mode, k),
         next = Len(page) \/ Mode[next] = "text",
         Emit(start, end), i' = next, UNCHANGED <<page, done>>
  PROVE  CodeSoFar'
<1>1. TypeOK /\ i \in Nat
  BY Types DEF RegionsRight
<1>2. Mode' = Mode /\ \A k : IsCode(Mode, k)' <=> IsCode(Mode, k)
  BY DEF Mode, ModeAfter, IsCode, At
<1>3. ASSUME NEW k \in 0..(next - 1)
      PROVE  Mapped(k)' <=> IsCode(Mode, k)
  <2>1. k \in Nat /\ (Mapped(k)' <=> Mapped(k) \/ (start <= k /\ k < end))
    BY <1>1, EmitMaps
  <2>2. CASE k < i
    BY <1>1, <2>1, <2>2 DEF CodeSoFar
  <2>3. CASE ~(k < i)
    <3>1. ~Mapped(k)
      BY <2>1, <2>3, MappedIsRead
    <3>2. CASE k < start
      BY <1>1, <2>1, <2>3, <3>1, <3>2
    <3>3. CASE start <= k /\ k < end
      BY <1>1, <2>1, <3>1, <3>3
    <3>4. CASE end <= k
      BY <1>1, <2>1, <3>1, <3>4
    <3>5. QED
      BY <2>1, <3>2, <3>3, <3>4
  <2>4. QED
    BY <2>2, <2>3
<1>4. QED
  BY <1>2, <1>3 DEF CodeSoFar

LEMMA CodeRegion ==
  ASSUME RegionsRight, CodeSoFar, NEW open \in 0..Len(page), NEW close \in 0..Len(page), Region(open, close)
  PROVE  CodeSoFar'
<1> DEFINE start == CodeStart(open)
<1>1. /\ TypeOK /\ Len(page) \in Nat /\ i \in Nat /\ open \in Nat /\ close \in Nat
      /\ First(open, Tags("<", "?", i)) /\ First(close, Tags("?", ">", start))
      /\ Emit(start, close) /\ i' = close + 2 /\ ~done /\ UNCHANGED <<page, done>>
  BY Types DEF RegionsRight, Region
<1>2. start \in {open + 2, open + 3} /\ i <= open
  BY <1>1 DEF CodeStart, First, Tags
<1>3. start \in Nat /\ open + 2 <= start /\ i <= start
  BY <1>1, <1>2
<1>4. /\ Mode[open + 2] = "head" /\ \A k \in i..(start - 1) : ~IsCode(Mode, k)
  BY <1>1, TagIsLeft
<1>5. /\ start <= close /\ close + 2 <= Len(page) /\ page[close + 1] = "?" /\ page[close + 2] = ">"
      /\ \A k \in start..(close - 1) : k \notin Tags("?", ">", start)
  BY <1>1, <1>3 DEF First, Tags
<1>6. start = open + 3 => page[open + 3] = "="
  BY <1>1, <1>2 DEF CodeStart
<1>7. start = open + 2 => ~At(open + 2, "=")
  BY <1>1, <1>5 DEF CodeStart, At
<1> HIDE DEF start
<1>8. \A k \in (open + 2)..close : Mode[k] \in {"head", "code"} /\ (k # open + 2 => Mode[k] = "code")
  <2>1. ASSUME NEW k \in (open + 2)..(close - 1) PROVE k \notin Tags("?", ">", open + 2)
    <3>1. CASE k < start
      BY <1>1, <1>2, <1>6, <3>1 DEF Tags
    <3>2. CASE ~(k < start)
      BY <1>1, <1>3, <1>5, <3>2 DEF Tags
    <3>3. QED
      BY <3>1, <3>2
  <2>2. open + 2 \in Nat /\ open + 2 <= close /\ close <= Len(page)
    BY <1>1, <1>3, <1>5
  <2>3. QED
    BY <1>1, <1>4, <2>1, <2>2, CodeGoesOn
<1>9. ASSUME NEW k \in start..(close - 1) PROVE IsCode(Mode, k)
  <2>1. k \in (open + 2)..close /\ k + 1 < Len(page) /\ k \in start..Len(page)
    BY <1>1, <1>3, <1>5
  <2>2. ~(At(k, "?") /\ At(k + 1, ">"))
    BY <1>3, <1>5, <2>1 DEF At, Tags
  <2>3. ~(Mode[k] = "head" /\ At(k, "="))
    <3>1. Mode[k] = "head" => k = open + 2
      BY <1>8, <2>1
    <3>2. k = open + 2 => start = open + 2
      BY <1>1, <1>2
    <3>3. QED
      BY <1>7, <3>1, <3>2
  <2>4. QED
    BY <1>8, <2>1, <2>2, <2>3 DEF IsCode
<1>10. ~IsCode(Mode, close)
  BY <1>1, <1>5 DEF IsCode, At
<1>11. Mode[close] \in {"head", "code"}
  BY <1>1, <1>3, <1>5, <1>8
<1>12. Mode[close + 1] = "end"
  <2>1. close + 1 \in 1..Len(page) /\ (close + 1) - 1 = close /\ (close + 1) + 1 = close + 2
    BY <1>1, <1>5
  <2>2. At(close, "?") /\ At(close + 1, ">")
    BY <1>1, <1>5, <2>1 DEF At
  <2>3. Mode[close + 1] = ModeAfter(Mode[close], close + 1)
    BY <1>1, <2>1, ModeIs
  <2>4. QED
    BY <1>11, <2>1, <2>2, <2>3 DEF ModeAfter
<1>13. Mode[close + 2] = "text"
  <2>1. close + 2 \in 1..Len(page) /\ (close + 2) - 1 = close + 1
    BY <1>1, <1>5
  <2>2. Mode[close + 2] = ModeAfter("end", close + 2)
    BY <1>1, <1>12, <2>1, ModeIs
  <2>3. QED
    BY <2>2 DEF ModeAfter
<1>14. \A k \in close..(close + 2 - 1) : ~IsCode(Mode, k)
  <2>1. ~IsCode(Mode, close + 1)
    BY <1>12 DEF IsCode
  <2>2. \A k \in close..(close + 2 - 1) : k = close \/ k = close + 1
    BY <1>1
  <2>3. QED
    BY <1>10, <2>1, <2>2
<1>15. PICK next \in Nat : next = close + 2
  BY <1>1
<1>16. /\ close <= next /\ next <= Len(page) /\ i' = next
       /\ (\A k \in close..(next - 1) : ~IsCode(Mode, k)) /\ Mode[next] = "text"
  BY <1>1, <1>5, <1>13, <1>14, <1>15
<1>17. RegionsRight /\ CodeSoFar /\ ~done /\ start <= close /\ Emit(start, close) /\ UNCHANGED <<page, done>>
  BY <1>1, <1>5 DEF start
<1>18. QED
  BY <1>1, <1>3, <1>4, <1>9, <1>16, <1>17, CodeGrows

LEMMA CodeUnterminated ==
  ASSUME RegionsRight, CodeSoFar, NEW open \in 0..Len(page), Unterminated(open)
  PROVE  CodeSoFar'
<1> DEFINE start == CodeStart(open)
<1>1. /\ TypeOK /\ Len(page) \in Nat /\ i \in Nat /\ open \in Nat
      /\ First(open, Tags("<", "?", i)) /\ \A k \in Nat : k \notin Tags("?", ">", start)
      /\ Emit(start, Len(page)) /\ i' = Len(page) /\ ~done /\ UNCHANGED <<page, done>>
  BY Types DEF RegionsRight, Unterminated
<1>2. start \in {open + 2, open + 3} /\ i <= open /\ start <= Len(page)
  BY <1>1 DEF CodeStart, First, Tags
<1>3. start \in Nat /\ open + 2 <= start /\ i <= start
  BY <1>1, <1>2
<1>4. /\ Mode[open + 2] = "head" /\ \A k \in i..(start - 1) : ~IsCode(Mode, k)
  BY <1>1, TagIsLeft
<1>5. start = open + 3 => page[open + 3] = "="
  BY <1>1, <1>2 DEF CodeStart
<1>6. start = open + 2 => ~At(open + 2, "=")
  BY <1>1, <1>2 DEF CodeStart, At
<1> HIDE DEF start
<1>7. \A k \in (open + 2)..Len(page) : Mode[k] \in {"head", "code"} /\ (k # open + 2 => Mode[k] = "code")
  <2>1. ASSUME NEW k \in (open + 2)..(Len(page) - 1) PROVE k \notin Tags("?", ">", open + 2)
    <3>1. CASE k < start
      BY <1>1, <1>2, <1>5, <3>1 DEF Tags
    <3>2. CASE ~(k < start)
      BY <1>1, <1>3, <3>2 DEF Tags
    <3>3. QED
      BY <3>1, <3>2
  <2>2. open + 2 \in Nat /\ open + 2 <= Len(page)
    BY <1>1, <1>2, <1>3
  <2>3. QED
    BY <1>1, <1>4, <2>1, <2>2, CodeGoesOn
<1>8. ASSUME NEW k \in start..(Len(page) - 1) PROVE IsCode(Mode, k)
  <2>1. k \in (open + 2)..Len(page) /\ k \in start..Len(page)
    BY <1>1, <1>3
  <2>2. ~(At(k, "?") /\ At(k + 1, ">"))
    BY <1>1, <1>3, <2>1 DEF At, Tags
  <2>3. ~(Mode[k] = "head" /\ At(k, "="))
    <3>1. Mode[k] = "head" => k = open + 2
      BY <1>7, <2>1
    <3>2. k = open + 2 => start = open + 2
      BY <1>1, <1>2
    <3>3. QED
      BY <1>6, <3>1, <3>2
  <2>4. QED
    BY <1>7, <2>1, <2>2, <2>3 DEF IsCode
<1>9. \A k \in Len(page)..(Len(page) - 1) : ~IsCode(Mode, k)
  BY <1>1
<1>10. QED
  BY <1>1, <1>2, <1>3, <1>4, <1>8, <1>9, CodeGrows

\* When no tag is left, the rest of the page is text.
LEMMA CodeFinish ==
  ASSUME RegionsRight, CodeSoFar, Finish
  PROVE  CodeSoFar'
<1>1. /\ TypeOK /\ Len(page) \in Nat /\ i \in Nat /\ i <= Len(page)
      /\ Tags("<", "?", i) = {} /\ UNCHANGED <<page, i, mapping>>
  BY Types DEF RegionsRight, Finish, TypeOK
<1>2. Mode' = Mode /\ \A k : IsCode(Mode, k)' <=> IsCode(Mode, k)
  BY <1>1 DEF Mode, ModeAfter, IsCode, At
<1>3. \A k : Mapped(k)' <=> Mapped(k)
  BY <1>1 DEF Mapped, InSource
<1>4. ASSUME NEW k \in 0..(Len(page) - 1)
      PROVE  Mapped(k) <=> IsCode(Mode, k)
  <2>1. CASE k < i
    BY <1>1, <2>1 DEF CodeSoFar
  <2>2. CASE ~(k < i)
    <3>1. Mode[i] = "text"
      BY <1>1, <2>2 DEF CodeSoFar
    <3>2. \A j \in i..Len(page) : Mode[j] = "text"
      BY <1>1, <3>1, TextGoesOn
    <3>3. ~IsCode(Mode, k)
      BY <1>1, <2>2, <3>2 DEF IsCode
    <3>4. ~Mapped(k)
      BY <2>2, MappedIsRead
    <3>5. QED
      BY <3>3, <3>4
  <2>3. QED
    BY <2>1, <2>2
<1>5. QED
  BY <1>1, <1>2, <1>3, <1>4 DEF CodeSoFar

LEMMA CodeInit == Init => CodeSoFar
<1> SUFFICES ASSUME Init PROVE CodeSoFar
  OBVIOUS
<1>1. TypeOK /\ i = 0 /\ ~done
  BY InitMap DEF RegionsRight, Init
<1>2. QED
  BY <1>1, ModeIs DEF CodeSoFar

LEMMA CodeNext == RegionsRight /\ CodeSoFar /\ [Next]_vars => CodeSoFar'
<1> SUFFICES ASSUME RegionsRight, CodeSoFar, [Next]_vars PROVE CodeSoFar'
  OBVIOUS
<1>1. CASE UNCHANGED vars
  <2>1. Mode' = Mode /\ \A k : IsCode(Mode, k)' <=> IsCode(Mode, k)
    BY <1>1 DEF vars, Mode, ModeAfter, IsCode, At
  <2>2. \A k : Mapped(k)' <=> Mapped(k)
    BY <1>1 DEF vars, Mapped, InSource
  <2>3. QED
    BY <1>1, <2>1, <2>2 DEF vars, CodeSoFar
<1>2. QED
  BY <1>1, CodeRegion, CodeUnterminated, CodeFinish DEF Next

\* The regions are in order, apart and copied verbatim, the wrapper is not
\* mapped, and what Extract has read it has split as Rivet does: what both
\* translations of package rvt rest on, for every page.
THEOREM MapInvHolds == Spec => []MapInv
<1>1. Init => MapInv
  BY InitMap, CodeInit DEF MapInv
<1>2. MapInv /\ [Next]_vars => MapInv'
  BY StepKeepsMap, CodeNext DEF MapInv
<1>3. QED
  BY <1>1, <1>2, PTL DEF Spec

\* An offset has a place in the script when it is in a region.
LEMMA MappedTranslates ==
  ASSUME RegionsRight, NEW k \in Nat
  PROVE  ToVirtual(k) # Unmapped <=> Mapped(k)
<1>1. ASSUME Mapped(k) PROVE ToVirtual(k) # Unmapped
  <2>1. PICK j \in DOMAIN mapping : InSource(j, k)
    BY <1>1 DEF Mapped
  <2>2. ToVirtual(k) = mapping[j].virt + (k - mapping[j].src)
    BY <2>1, ToVirtualInSource
  <2>3. mapping[j].virt \in Nat /\ mapping[j].src \in Nat /\ mapping[j].src <= k
    BY <2>1, Types DEF RegionsRight, InSource
  <2>4. ToVirtual(k) \in Nat
    BY <2>2, <2>3
  <2>5. QED
    BY <2>4, UnmappedAssumption
<1>2. QED
  BY <1>1, ToVirtualOnlyInSource DEF Mapped

\* On every page, the code Rivet would run, and only it, has a place in the
\* script that is analysed.
THEOREM CodeIsMappedHolds == Spec => []CodeIsMapped
<1>1. MapInv => CodeIsMapped
  BY MappedTranslates DEF MapInv, CodeSoFar, CodeIsMapped
<1>2. QED
  BY <1>1, MapInvHolds, PTL

----------------------------------------------------------------------------
(* Cursors and their positions (PageCursor).                               *)

\* Units of the offsets from start to end.
AreUnits(u, text, start, end) ==
  u = [k \in start..end |-> IF k = start THEN 0 ELSE u[k - 1] + Units[text[k]]]

\* Every offset behind start has its units: those to the first offset without
\* could be continued by one more.
LEMMA UnitsExist ==
  ASSUME NEW text \in Seq(Bytes), NEW start \in Nat, NEW end \in Nat, start <= end
  PROVE  \E u : AreUnits(u, text, start, end)
<1> DEFINE Without == {k \in Nat : start <= k /\ ~ \E u : AreUnits(u, text, start, k)}
<1>1. SUFFICES ASSUME Without # {} PROVE FALSE
  OBVIOUS
<1>2. Without \in SUBSET Nat
  OBVIOUS
<1>3. PICK n \in Without : First(n, Without)
  BY <1>1, <1>2, FirstExists
<1>4. n \in Nat /\ start <= n /\ \A j \in Nat : start <= j /\ j < n => \E u : AreUnits(u, text, start, j)
  BY <1>3 DEF First
<1>5. n # start
  <2>1. AreUnits([j \in start..start |-> 0], text, start, start)
    BY DEF AreUnits
  <2>2. QED
    BY <1>3, <2>1
<1>6. n - 1 \in Nat /\ start <= n - 1 /\ n - 1 < n
  BY <1>4, <1>5
<1>7. PICK u : AreUnits(u, text, start, n - 1)
  BY <1>4, <1>6
<1> DEFINE U == [j \in start..n |-> IF j = n THEN u[n - 1] + Units[text[n]] ELSE u[j]]
<1>8. \A j \in start..(n - 1) : u[j] = IF j = start THEN 0 ELSE u[j - 1] + Units[text[j]]
  BY <1>7 DEF AreUnits
<1>9. \A j \in start..n : U[j] = IF j = start THEN 0 ELSE U[j - 1] + Units[text[j]]
  <2> SUFFICES ASSUME NEW j \in start..n
               PROVE  U[j] = IF j = start THEN 0 ELSE U[j - 1] + Units[text[j]]
    OBVIOUS
  <2>1. CASE j = start
    BY <1>4, <1>5, <1>6, <1>8, <2>1
  <2>2. CASE j # start
    <3>1. j - 1 \in start..(n - 1) /\ U[j - 1] = u[j - 1]
      BY <1>4, <2>2
    <3>2. QED
      BY <1>4, <1>8, <2>2, <3>1
  <2>3. QED
    BY <2>1, <2>2
<1>10. AreUnits(U, text, start, n)
  <2> DEFINE W == [j \in start..n |-> IF j = start THEN 0 ELSE U[j - 1] + Units[text[j]]]
  <2>1. \A j \in start..n : U[j] = W[j]
    BY <1>9
  <2>2. U = W
    BY <2>1
  <2>3. QED
    BY <2>2 DEF AreUnits
<1>11. QED
  BY <1>3, <1>10

LEMMA UnitsAre ==
  ASSUME NEW text \in Seq(Bytes), NEW start \in 0..Len(text)
  PROVE  /\ UnitsFrom(text, start)[start] = 0
         /\ \A k \in (start + 1)..Len(text) :
              UnitsFrom(text, start)[k] = UnitsFrom(text, start)[k - 1] + Units[text[k]]
<1>1. Len(text) \in Nat /\ start \in Nat /\ start <= Len(text)
  OBVIOUS
<1>2. AreUnits(UnitsFrom(text, start), text, start, Len(text))
  BY <1>1, UnitsExist DEF UnitsFrom, AreUnits
<1>3. QED
  BY <1>1, <1>2 DEF AreUnits

\* Units are counted in numbers,
LEMMA UnitsType ==
  ASSUME NEW text \in Seq(Bytes), NEW start \in 0..Len(text)
  PROVE  \A k \in start..Len(text) : UnitsFrom(text, start)[k] \in Nat
<1> DEFINE u == UnitsFrom(text, start)
           Others == {k \in start..Len(text) : u[k] \notin Nat}
<1>1. SUFFICES ASSUME Others # {} PROVE FALSE
  OBVIOUS
<1>2. Others \in SUBSET Nat
  OBVIOUS
<1>3. PICK k \in Others : First(k, Others)
  BY <1>1, <1>2, FirstExists
<1>4. u[start] \in Nat
  BY UnitsAre
<1>5. k \in (start + 1)..Len(text) /\ k - 1 \in start..Len(text) /\ k - 1 < k /\ k \in 1..Len(text)
  BY <1>3, <1>4
<1>6. u[k] = u[k - 1] + Units[text[k]]
  BY <1>5, UnitsAre
<1> HIDE DEF u
<1>7. u[k - 1] \in Nat
  BY <1>3, <1>5 DEF First
<1>8. Units[text[k]] \in Nat
  BY <1>5, UnitsAssumption
<1>9. QED
  BY <1>3, <1>6, <1>7, <1>8

\* and grow behind the start of a rune.
LEMMA UnitsGrow ==
  ASSUME NEW text \in Seq(Bytes), NEW start \in 0..Len(text),
         NEW a \in start..Len(text), NEW b \in start..Len(text), a < b, Boundary(text, a)
  PROVE  UnitsFrom(text, start)[a] < UnitsFrom(text, start)[b]
<1> DEFINE u == UnitsFrom(text, start)
           Others == {k \in start..Len(text) : a < k /\ ~(u[a] < u[k])}
<1>1. SUFFICES ASSUME Others # {} PROVE FALSE
  OBVIOUS
<1>2. Others \in SUBSET Nat
  OBVIOUS
<1>3. PICK k \in Others : First(k, Others)
  BY <1>1, <1>2, FirstExists
<1>4. k \in (start + 1)..Len(text) /\ k - 1 \in start..Len(text) /\ k - 1 < k /\ k \in 1..Len(text) /\ a <= k - 1
  BY <1>3
<1>5. u[k] = u[k - 1] + Units[text[k]] /\ u[a] \in Nat /\ u[k - 1] \in Nat
  BY <1>4, UnitsAre, UnitsType
<1> HIDE DEF u
<1>6. Units[text[k]] \in Nat
  BY <1>4, UnitsAssumption
<1>7. CASE a = k - 1
  <2>1. Units[text[k]] > 0
    BY <1>4, <1>7 DEF Boundary
  <2>2. QED
    BY <1>3, <1>5, <1>6, <1>7, <2>1
<1>8. CASE a # k - 1
  <2>1. u[a] < u[k - 1]
    BY <1>3, <1>4, <1>8 DEF First
  <2>2. QED
    BY <1>3, <1>5, <1>6, <2>1
<1>9. QED
  BY <1>7, <1>8

----------------------------------------------------------------------------
(* Lines.                                                                  *)

\* The breaks before an offset are finitely many.
LEMMA BreaksFinite ==
  ASSUME NEW text \in Seq(Bytes), NEW k \in 0..Len(text)
  PROVE  /\ Breaks(text, k) \subseteq 0..(k - 1) /\ IsFiniteSet(Breaks(text, k))
         /\ Cardinality(Breaks(text, k)) \in Nat
<1>1. IsFiniteSet(0..(k - 1))
  BY FS_Interval
<1>2. Breaks(text, k) \subseteq 0..(k - 1)
  BY DEF Breaks
<1>3. QED
  BY <1>1, <1>2, FS_Subset, FS_CardinalityType

\* A later break has more breaks before it.
LEMMA BreaksGrow ==
  ASSUME NEW text \in Seq(Bytes), NEW k \in 0..Len(text),
         NEW a \in Breaks(text, k), NEW b \in 0..Len(text), a < b
  PROVE  Cardinality(Breaks(text, a)) < Cardinality(Breaks(text, b))
<1>1. a \in Nat /\ a \in 0..Len(text) /\ text[a + 1] = LineBreak
  BY DEF Breaks
<1>2. a \notin Breaks(text, a)
  BY <1>1 DEF Breaks
<1>3. Breaks(text, a) \cup {a} \subseteq Breaks(text, b)
  BY <1>1 DEF Breaks
<1>4. Cardinality(Breaks(text, a) \cup {a}) = Cardinality(Breaks(text, a)) + 1
  BY <1>1, <1>2, BreaksFinite, FS_AddElement
<1>5. Cardinality(Breaks(text, a) \cup {a}) <= Cardinality(Breaks(text, b))
  BY <1>3, BreaksFinite, FS_Subset
<1>6. QED
  BY <1>1, <1>4, <1>5, BreaksFinite

\* The last break before an offset, when there is one.
LEMMA LastBreak ==
  ASSUME NEW text \in Seq(Bytes), NEW k \in 0..Len(text), Breaks(text, k) # {}
  PROVE  \E b \in Breaks(text, k) : \A c \in Breaks(text, k) : c <= b
<1> DEFINE Behind == {n \in Nat : \A c \in Breaks(text, k) : c < n}
<1>1. Behind \in SUBSET Nat /\ k \in Nat
  OBVIOUS
<1>2. k \in Behind
  BY DEF Breaks
<1>3. PICK n \in Behind : First(n, Behind)
  BY <1>1, <1>2, FirstExists
<1>4. \A c \in Breaks(text, k) : c \in Nat /\ c < n
  BY <1>1, <1>3 DEF Breaks
<1>5. n - 1 \in Nat /\ n - 1 \notin Behind
  BY <1>3, <1>4 DEF First
<1>6. PICK b \in Breaks(text, k) : ~(b < n - 1)
  BY <1>5
<1>7. \A c \in Breaks(text, k) : c <= b
  BY <1>3, <1>4, <1>6
<1>8. QED
  BY <1>7

\* The line an offset is in starts at or before the offset, with no line
\* break between them.
LEMMA LineOfOffset ==
  ASSUME NEW text \in Seq(Bytes), NEW k \in 0..Len(text)
  PROVE  LET start == LineStart(text, Cardinality(Breaks(text, k)))
         IN  /\ start \in 0..k
             /\ \A j \in start..(k - 1) : text[j + 1] # LineBreak
<1>1. Len(text) \in Nat /\ Len(text) \in 0..Len(text) /\ k \in Nat
  OBVIOUS
<1>2. CASE Breaks(text, k) = {}
  <2>1. LineStart(text, Cardinality(Breaks(text, k))) = 0
    BY <1>2, FS_EmptySet DEF LineStart
  <2>2. \A j \in 0..(k - 1) : text[j + 1] # LineBreak
    BY <1>2 DEF Breaks
  <2>3. QED
    BY <1>1, <2>1, <2>2
<1>3. CASE Breaks(text, k) # {}
  <2>1. PICK b \in Breaks(text, k) : \A c \in Breaks(text, k) : c <= b
    BY <1>3, LastBreak
  <2>2. b \in 0..(k - 1) /\ b \in 0..Len(text) /\ b \in Nat /\ text[b + 1] = LineBreak /\ b < Len(text)
    BY <1>1 DEF Breaks
  <2>3. Breaks(text, k) = Breaks(text, b) \cup {b}
    BY <2>1, <2>2 DEF Breaks
  <2>4. b \notin Breaks(text, b)
    BY <2>2 DEF Breaks
  <2>5. Cardinality(Breaks(text, k)) = Cardinality(Breaks(text, b)) + 1
    BY <2>2, <2>3, <2>4, BreaksFinite, FS_AddElement
  <2> DEFINE line == Cardinality(Breaks(text, k))
             On == {c \in Breaks(text, Len(text)) : Cardinality(Breaks(text, c)) = line - 1}
  <2>6. On = {b}
    <3>1. b \in Breaks(text, Len(text)) /\ Cardinality(Breaks(text, b)) = line - 1
      <4>1. b \in Breaks(text, Len(text))
        BY <1>1, <2>2 DEF Breaks
      <4>2. Cardinality(Breaks(text, b)) \in Nat
        BY <2>2, BreaksFinite
      <4>3. QED
        BY <2>5, <4>1, <4>2
    <3>2. ASSUME NEW c \in On PROVE c = b
      <4>1. c \in 0..Len(text) /\ c \in Breaks(text, Len(text)) /\ Cardinality(Breaks(text, c)) = Cardinality(Breaks(text, b))
        BY <1>1, <3>1 DEF Breaks
      <4>2. Cardinality(Breaks(text, b)) \in Nat
        BY <2>2, BreaksFinite
      <4>3. c < b => Cardinality(Breaks(text, c)) < Cardinality(Breaks(text, b))
        BY <1>1, <2>2, <4>1, BreaksGrow
      <4>4. b < c => Cardinality(Breaks(text, b)) < Cardinality(Breaks(text, c))
        BY <1>1, <3>1, <4>1, BreaksGrow
      <4>5. QED
        BY <2>2, <4>1, <4>2, <4>3, <4>4
    <3>3. QED
      BY <3>1, <3>2
  <2>7. {c + 1 : c \in On} = {b + 1}
    BY <2>6
  <2>8. Min({b + 1}) = b + 1
    BY <2>2 DEF Min
  <2>9. line # 0
    BY <2>2, <2>5, BreaksFinite
  <2>10. LineStart(text, line) = b + 1
    BY <2>7, <2>8, <2>9 DEF LineStart
  <2>11. \A j \in (b + 1)..(k - 1) : text[j + 1] # LineBreak
    BY <1>1, <2>1, <2>2 DEF Breaks
  <2>12. QED
    BY <2>2, <2>10, <2>11
<1>4. QED
  BY <1>2, <1>3

\* The editor's position of an offset between two characters is that of no
\* other.
LEMMA OffsetComesBack ==
  ASSUME NEW text \in Seq(Bytes), NEW k \in 0..Len(text), Boundary(text, k)
  PROVE  ByteOffset(text, LSPPosition(text, k)) = k
<1> DEFINE line == Cardinality(Breaks(text, k))
           start == LineStart(text, line)
           u == UnitsFrom(text, start)
           reached == {j \in start..Len(text) : Boundary(text, j) /\ u[j] >= u[k]}
<1>1. Len(text) \in Nat /\ k \in Nat /\ k <= Len(text)
  OBVIOUS
<1>2. Min({k, Len(text)}) = k
  BY <1>1 DEF Min
<1>3. LSPPosition(text, k) = [line |-> line, character |-> u[k]]
  BY <1>2 DEF LSPPosition
<1>4. ByteOffset(text, LSPPosition(text, k)) = Min(Stops(text, start) \cup reached)
  BY <1>3 DEF ByteOffset
<1>5. start \in 0..k /\ \A j \in start..(k - 1) : text[j + 1] # LineBreak
  BY LineOfOffset
<1> HIDE DEF line, start
<1>6. start \in 0..Len(text) /\ k \in start..Len(text)
  BY <1>1, <1>5
<1>7. \A j \in start..Len(text) : u[j] \in Nat
  BY <1>6, UnitsType
<1>8. k \in reached
  BY <1>6, <1>7
<1>9. ASSUME NEW j \in reached PROVE j \in Nat /\ k <= j
  <2>1. j \in start..Len(text) /\ Boundary(text, j) /\ u[j] >= u[k]
    OBVIOUS
  <2>2. ~(j < k)
    BY <1>6, <1>7, <2>1, UnitsGrow
  <2>3. QED
    BY <1>1, <1>6, <2>1, <2>2
<1>10. ASSUME NEW j \in Stops(text, start) PROVE j \in Nat /\ k <= j
  BY <1>1, <1>5, <1>6 DEF Stops
<1> HIDE DEF reached
<1>11. Min(Stops(text, start) \cup reached) = k
  <2> DEFINE S == Stops(text, start) \cup reached
  <2>1. k \in S /\ \A j \in S : j \in Nat /\ k <= j
    BY <1>8, <1>9, <1>10
  <2> HIDE DEF S
  <2>2. \A x \in S : (\A y \in S : x =< y) => x = k
    BY <1>1, <2>1
  <2>3. Min(S) = k
    BY <2>1, <2>2 DEF Min
  <2>4. QED
    BY <2>3 DEF S
<1>12. QED
  BY <1>4, <1>11

\* A cursor between any two characters of a page, whatever runes are on its
\* line, comes back to its position from the script.
THEOREM CursorKeptHolds == Spec => []CursorKept
<1>1. MapInv => CursorKept
  <2> SUFFICES ASSUME MapInv, NEW k \in 0..Len(page), Boundary(page, k)
               PROVE  LET position == LSPPosition(page, k)
                          offset   == ByteOffset(page, position)
                      IN  /\ offset = k
                          /\ ToVirtual(offset) # Unmapped =>
                               LSPPosition(page, ToSource(ToVirtual(offset))) = position
    BY DEF CursorKept
  <2>1. RegionsRight /\ TypeOK /\ page \in Seq(Bytes) /\ Len(page) \in Nat
    BY Types DEF MapInv, RegionsRight
  <2>2. ByteOffset(page, LSPPosition(page, k)) = k
    BY <2>1, OffsetComesBack
  <2>3. ASSUME ToVirtual(k) # Unmapped PROVE ToSource(ToVirtual(k)) = k
    <3>1. k \in Nat /\ Mapped(k)
      BY <2>1, <2>3, MappedTranslates
    <3>2. k < i /\ i \in 0..Len(page)
      BY <2>1, <3>1, MappedIsRead DEF TypeOK
    <3>3. k \in 0..(Len(page) - 1)
      BY <2>1, <3>1, <3>2
    <3>4. QED
      BY <2>1, <2>3, <3>3, MapInverts DEF TranslationsInvert
  <2>4. QED
    BY <2>2, <2>3
<1>2. QED
  BY <1>1, MapInvHolds, PTL
=============================================================================
