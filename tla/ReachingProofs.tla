--------------------------- MODULE ReachingProofs ---------------------------
(* For every proc, whatever its size: the bindings that a use finds when   *)
(* the proc runs are among those the analysis notes at it.                 *)
EXTENDS ObjectTypes, FiniteSetTheorems, SequenceTheorems, WellFoundedInduction, TLAPS

----------------------------------------------------------------------------
(* Recursion and induction.                                                *)

\* What holds of 0 and, with k, of k + 1, holds up to n.
LEMMA UpTo ==
  ASSUME NEW n \in Nat, NEW P, 0 \in P, \A k \in 0..(n - 1) : k \in P => k + 1 \in P
  PROVE  0..n \subseteq P
<1> DEFINE Q == {k \in Nat : k \in 0..n /\ k \notin P}
<1>1. SUFFICES ASSUME Q # {} PROVE FALSE
  OBVIOUS
<1>2. PICK k \in Q : \A j \in Q : ~(<<j, k>> \in OpToRel(<, Nat))
  BY <1>1, NatLessThanWellFounded, WFMin
<1>3. \A j \in Q : ~(j < k)
  BY <1>2 DEF OpToRel
<1>4. k # 0 /\ k \in 0..n /\ k \notin P
  BY <1>2
<1>5. k - 1 \in 0..(n - 1) /\ k - 1 \in Nat /\ k - 1 < k
  BY <1>4
<1>6. k - 1 \in P
  BY <1>3, <1>5
<1>7. QED
  BY <1>4, <1>5, <1>6

\* Every value is what the step makes of the one before.
IsFold(after, step, start, n) ==
  /\ after = [k \in 0..n |-> IF k = 0 THEN start ELSE step[k][after[k - 1]]]
  /\ after[0] = start
  /\ \A k \in 1..n : after[k] = step[k][after[k - 1]]

\* A fold is one.
LEMMA FoldedIs ==
  ASSUME NEW n \in Nat, NEW step, NEW start
  PROVE  IsFold(Folded(step, start, n), step, start, n)
<1> DEFINE To(f, m) == f = [k \in 0..m |-> IF k = 0 THEN start ELSE step[k][f[k - 1]]]
           P == {m \in Nat : \E f : To(f, m)}
<1>1. 0 \in P
  <2>1. To([k \in 0..0 |-> start], 0)
    OBVIOUS
  <2>2. QED
    BY <2>1
<1>2. \A m \in 0..(n - 1) : m \in P => m + 1 \in P
  <2> SUFFICES ASSUME NEW m \in 0..(n - 1), m \in P PROVE m + 1 \in P
    OBVIOUS
  <2>1. PICK f : To(f, m)
    OBVIOUS
  <2> DEFINE g == [k \in 0..(m + 1) |-> IF k = m + 1 THEN step[m + 1][f[m]] ELSE f[k]]
             h == [k \in 0..(m + 1) |-> IF k = 0 THEN start ELSE step[k][g[k - 1]]]
  <2>2. \A k \in 0..m : f[k] = IF k = 0 THEN start ELSE step[k][f[k - 1]]
    BY <2>1
  <2>3. \A k \in 0..(m + 1) : g[k] = h[k]
    <3> TAKE k \in 0..(m + 1)
    <3>1. CASE k = m + 1
      BY <3>1
    <3>2. CASE k = 0
      BY <2>2, <3>2
    <3>3. CASE k \in 1..m
      BY <2>2, <3>3
    <3>4. QED
      BY <3>1, <3>2, <3>3
  <2>4. g = h
    BY <2>3
  <2>5. To(g, m + 1)
    BY <2>4
  <2> HIDE DEF To
  <2>6. QED
    BY <2>5
<1>3. n \in P
  <2> HIDE DEF P
  <2>1. n \in 0..n /\ 0..n \subseteq P
    BY <1>1, <1>2, UpTo
  <2>2. QED
    BY <2>1
<1>4. PICK f : To(f, n)
  BY <1>3
<1> DEFINE after == Folded(step, start, n)
<1>5. To(after, n)
  BY <1>4 DEF Folded
<1>6. \A k \in 0..n : after[k] = IF k = 0 THEN start ELSE step[k][after[k - 1]]
  BY <1>5
<1>7. QED
  BY <1>5, <1>6 DEF IsFold

\* A fold stays in the set that its steps stay in.
LEMMA FoldedStays ==
  ASSUME NEW n \in Nat, NEW S, NEW start \in S, NEW step \in [1..n -> [S -> S]]
  PROVE  Folded(step, start, n) \in [0..n -> S]
<1> DEFINE after == Folded(step, start, n)
           P == {k \in 0..n : after[k] \in S}
<1>1. after = [k \in 0..n |-> IF k = 0 THEN start ELSE step[k][after[k - 1]]]
  BY FoldedIs DEF IsFold
<1>2. after[0] = start /\ \A k \in 1..n : after[k] = step[k][after[k - 1]]
  BY FoldedIs DEF IsFold
<1>3. 0 \in P
  BY <1>2
<1>4. \A k \in 0..(n - 1) : k \in P => k + 1 \in P
  <2> TAKE k \in 0..(n - 1)
  <2> HAVE k \in P
  <2>1. k + 1 \in 1..n /\ after[k + 1] = step[k + 1][after[k]]
    BY <1>2
  <2>2. QED
    BY <2>1
<1>5. \A k \in 0..n : after[k] \in S
  BY <1>3, <1>4, UpTo
<1>6. QED
  BY <1>1, <1>5
----------------------------------------------------------------------------
(* The commands and what is in them.                                       *)

\* The commands are those the definition says.
LEMMA CommandsIs ==
  Commands = [d \in 0..Depth |-> IF d = 0 THEN Simple ELSE Nesting(Commands[d - 1])]
<1> DEFINE To(f, m) == f = [d \in 0..m |-> IF d = 0 THEN Simple ELSE Nesting(f[d - 1])]
           P == {m \in Nat : \E f : To(f, m)}
<1>1. 0 \in P
  <2>1. To([d \in 0..0 |-> Simple], 0)
    OBVIOUS
  <2> HIDE DEF To
  <2>2. QED
    BY <2>1
<1>2. \A m \in 0..(Depth - 1) : m \in P => m + 1 \in P
  <2> SUFFICES ASSUME NEW m \in 0..(Depth - 1), m \in P PROVE m + 1 \in P
    OBVIOUS
  <2>1. PICK f : To(f, m)
    OBVIOUS
  <2> DEFINE g == [d \in 0..(m + 1) |-> IF d = m + 1 THEN Nesting(f[m]) ELSE f[d]]
             h == [d \in 0..(m + 1) |-> IF d = 0 THEN Simple ELSE Nesting(g[d - 1])]
  <2>2. \A d \in 0..m : f[d] = IF d = 0 THEN Simple ELSE Nesting(f[d - 1])
    BY <2>1
  <2>3. \A d \in 0..(m + 1) : g[d] = h[d]
    <3> TAKE d \in 0..(m + 1)
    <3>1. CASE d = m + 1
      BY <3>1
    <3>2. CASE d = 0
      <4>1. g[d] = f[d] /\ d \in 0..m
        BY <3>2
      <4>2. f[d] = Simple
        BY <2>2, <3>2, <4>1
      <4>3. QED
        BY <3>2, <4>1, <4>2
    <3>3. CASE d \in 1..m
      <4>1. g[d - 1] = f[d - 1] /\ g[d] = f[d] /\ d # 0
        BY <3>3
      <4>2. f[d] = Nesting(f[d - 1])
        BY <2>2, <3>3, <4>1
      <4>3. QED
        BY <4>1, <4>2
    <3>4. QED
      BY <3>1, <3>2, <3>3
  <2>4. g = h
    BY <2>3
  <2>5. To(g, m + 1)
    BY <2>4
  <2> HIDE DEF To
  <2>6. QED
    BY <2>5
<1>3. Depth \in P
  <2> HIDE DEF P
  <2>1. Depth \in 0..Depth /\ 0..Depth \subseteq P
    BY <1>1, <1>2, UpTo, DepthAssumption
  <2>2. QED
    BY <2>1
<1>4. QED
  BY <1>3 DEF Commands

\* And so is what is seen in each.
LEMMA BelowIs ==
  ASSUME NEW view
  PROVE  Below(view) = [d \in 0..Depth |->
           InsideEach(view, Commands[d], IF d = 0 THEN << >> ELSE Below(view)[d - 1])]
<1> DEFINE To(f, m) == f = [d \in 0..m |-> InsideEach(view, Commands[d], IF d = 0 THEN << >> ELSE f[d - 1])]
           P == {m \in Nat : \E f : To(f, m)}
<1>1. 0 \in P
  <2>1. To([d \in 0..0 |-> InsideEach(view, Commands[d], << >>)], 0)
    OBVIOUS
  <2> HIDE DEF To
  <2>2. QED
    BY <2>1
<1>2. \A m \in 0..(Depth - 1) : m \in P => m + 1 \in P
  <2> SUFFICES ASSUME NEW m \in 0..(Depth - 1), m \in P PROVE m + 1 \in P
    OBVIOUS
  <2>1. PICK f : To(f, m)
    OBVIOUS
  <2> DEFINE g == [d \in 0..(m + 1) |-> IF d = m + 1 THEN InsideEach(view, Commands[m + 1], f[m]) ELSE f[d]]
             h == [d \in 0..(m + 1) |-> InsideEach(view, Commands[d], IF d = 0 THEN << >> ELSE g[d - 1])]
  <2>2. \A d \in 0..m : f[d] = InsideEach(view, Commands[d], IF d = 0 THEN << >> ELSE f[d - 1])
    BY <2>1
  <2>3. \A d \in 0..(m + 1) : g[d] = h[d]
    <3> TAKE d \in 0..(m + 1)
    <3>1. CASE d = m + 1
      BY <3>1
    <3>2. CASE d = 0
      <4>1. g[d] = f[d] /\ d \in 0..m
        BY <3>2
      <4>2. QED
        BY <2>2, <3>2, <4>1
    <3>3. CASE d \in 1..m
      <4>1. g[d - 1] = f[d - 1] /\ g[d] = f[d] /\ d # 0
        BY <3>3
      <4>2. QED
        BY <2>2, <3>3, <4>1
    <3>4. QED
      BY <3>1, <3>2, <3>3
  <2>4. g = h
    BY <2>3
  <2>5. To(g, m + 1)
    BY <2>4
  <2> HIDE DEF To
  <2>6. QED
    BY <2>5
<1>3. Depth \in P
  <2> HIDE DEF P
  <2>1. Depth \in 0..Depth /\ 0..Depth \subseteq P
    BY <1>1, <1>2, UpTo, DepthAssumption
  <2>2. QED
    BY <2>1
<1>4. QED
  BY <1>3 DEF Below

\* And what each does.
LEMMA FlowIs ==
  Flow = [d \in 0..Depth |-> FlowOver(d, IF d = 0 THEN << >> ELSE Flow[d - 1])]
<1> DEFINE To(f, m) == f = [d \in 0..m |-> FlowOver(d, IF d = 0 THEN << >> ELSE f[d - 1])]
           P == {m \in Nat : \E f : To(f, m)}
<1>1. 0 \in P
  <2>1. To([d \in 0..0 |-> FlowOver(d, << >>)], 0)
    OBVIOUS
  <2> HIDE DEF To
  <2>2. QED
    BY <2>1
<1>2. \A m \in 0..(Depth - 1) : m \in P => m + 1 \in P
  <2> SUFFICES ASSUME NEW m \in 0..(Depth - 1), m \in P PROVE m + 1 \in P
    OBVIOUS
  <2>1. PICK f : To(f, m)
    OBVIOUS
  <2> DEFINE g == [d \in 0..(m + 1) |-> IF d = m + 1 THEN FlowOver(m + 1, f[m]) ELSE f[d]]
             h == [d \in 0..(m + 1) |-> FlowOver(d, IF d = 0 THEN << >> ELSE g[d - 1])]
  <2>2. \A d \in 0..m : f[d] = FlowOver(d, IF d = 0 THEN << >> ELSE f[d - 1])
    BY <2>1
  <2>3. \A d \in 0..(m + 1) : g[d] = h[d]
    <3> TAKE d \in 0..(m + 1)
    <3>1. CASE d = m + 1
      BY <3>1
    <3>2. CASE d = 0
      <4>1. g[d] = f[d] /\ d \in 0..m
        BY <3>2
      <4>2. QED
        BY <2>2, <3>2, <4>1
    <3>3. CASE d \in 1..m
      <4>1. g[d - 1] = f[d - 1] /\ g[d] = f[d] /\ d # 0
        BY <3>3
      <4>2. QED
        BY <2>2, <3>3, <4>1
    <3>4. QED
      BY <3>1, <3>2, <3>3
  <2>4. g = h
    BY <2>3
  <2>5. To(g, m + 1)
    BY <2>4
  <2> HIDE DEF To
  <2>6. QED
    BY <2>5
<1>3. Depth \in P
  <2> HIDE DEF P
  <2>1. Depth \in 0..Depth /\ 0..Depth \subseteq P
    BY <1>1, <1>2, UpTo, DepthAssumption
  <2>2. QED
    BY <2>1
<1>4. QED
  BY <1>3 DEF Flow

\* The bodies of a command that is not simple are of the depth above it.
LEMMA Parts ==
  ASSUME NEW d \in 0..Depth, NEW c \in Commands[d], c \notin Simple
  PROVE  /\ d - 1 \in 0..Depth /\ d # 0
         /\ c.op \in {"if", "ifelse"} \cup ConservativeHeads \cup LoopHeads
         /\ c.id \in Ids
         /\ c.bodies \in Seq(Seq(Commands[d - 1]))
         /\ c.op = "for" => Len(c.bodies) = 3
         /\ c.op \in {"while", "foreach", "catch"} => Len(c.bodies) = 1
         /\ c.op \in {"switchline", "switchwords"} => c.bodies # << >>
<1>1. d # 0
  BY CommandsIs
<1>2. c \in Nesting(Commands[d - 1])
  BY <1>1, CommandsIs
<1>3. d - 1 \in 0..Depth
  BY <1>1, DepthAssumption
<1>4. QED
  BY <1>1, <1>2, <1>3 DEF Nesting

\* A simple command has no bodies.
LEMMA SimpleIs ==
  ASSUME NEW c \in Simple
  PROVE  /\ c.op \in {"set", "incr", "use", "return", "break", "continue"}
         /\ c.id \in Ids /\ c.bodies = << >>
BY DEF Simple

\* What a command is tells whether it has bodies.
LEMMA Heads ==
  ASSUME NEW d \in 0..Depth, NEW c \in Commands[d],
         c.op \in {"if", "ifelse"} \cup ConservativeHeads \cup LoopHeads
  PROVE  c \notin Simple
BY SimpleIs DEF ConservativeHeads, ArmLists, LoopHeads

\* Every command is somewhere.
LEMMA CommandPlaced ==
  ASSUME NEW d \in 0..Depth, NEW c \in Commands[d]
  PROVE  c.id \in Ids
BY SimpleIs, Parts

\* What each view opens is among the bodies.
Views == {"all", "children", "leaving"}

LEMMA OpenedIs ==
  ASSUME NEW d \in 0..Depth, NEW c \in Commands[d], NEW view \in Views
  PROVE  /\ Opened(view, c) \subseteq ToSet(c.bodies)
         /\ c \in Simple => Opened(view, c) = {}
         /\ Opened("all", c) = ToSet(c.bodies)
<1>1. CASE c \in Simple
  <2>1. c.op \notin {"switchline", "switchwords"} /\ c.bodies = << >> /\ ToSet(c.bodies) = {}
    BY <1>1, SimpleIs DEF ToSet
  <2>2. QED
    BY <2>1 DEF Opened, childBodies, Views
<1>2. CASE c \notin Simple
  <2>1. c.op \in {"switchline", "switchwords"} => Last(c.bodies) \in ToSet(c.bodies)
    <3>1. c.op \in {"switchline", "switchwords"} => c.bodies # << >>
      BY <1>2, Parts
    <3>2. c.bodies \in Seq(Seq(Commands[d - 1]))
      BY <1>2, Parts
    <3>3. c.bodies # << >> => Len(c.bodies) \in DOMAIN c.bodies
      BY <3>2
    <3>4. QED
      BY <3>1, <3>3 DEF Last, ToSet
  <2>2. childBodies(c) \subseteq ToSet(c.bodies)
    BY <2>1 DEF childBodies
  <2>3. QED
    BY <1>2, <2>2 DEF Opened, Views
<1>3. QED
  BY <1>1, <1>2

\* What is seen in a command.
Seen(view, c) == Below(view)[Depth][c]

\* A command is one of every greater depth, and the same is seen in it.
LEMMA Deeper ==
  ASSUME NEW view \in Views, NEW d \in 0..Depth, NEW c \in Commands[d]
  PROVE  c \in Commands[Depth] /\ Below(view)[d][c] = Seen(view, c)
<1> DEFINE L == Below(view)
           P == {e \in Nat : e + 1 \in 0..Depth =>
                   \A b \in Commands[e] : b \in Commands[e + 1] /\ L[e + 1][b] = L[e][b]}
<1>1. ASSUME NEW e \in 0..Depth, NEW b \in Commands[e]
      PROVE  L[e][b] = Inside(view, b, IF e = 0 THEN << >> ELSE L[e - 1])
  <2>1. L[e] = InsideEach(view, Commands[e], IF e = 0 THEN << >> ELSE L[e - 1])
    BY BelowIs
  <2>2. QED
    BY <2>1 DEF InsideEach
<1> HIDE DEF L
<1>2. ASSUME NEW e \in 0..Depth, NEW b \in Commands[e], b \in Simple PROVE L[e][b] = {b}
  BY <1>1, <1>2, OpenedIs DEF Inside
<1>3. \A e \in 0..Depth : Simple \subseteq Commands[e]
  BY CommandsIs DEF Nesting
<1>4. 0 \in P
  <2> SUFFICES ASSUME 1 \in 0..Depth, NEW b \in Commands[0] PROVE b \in Commands[1] /\ L[1][b] = L[0][b]
    OBVIOUS
  <2>1. b \in Simple /\ 0 \in 0..Depth
    BY CommandsIs, DepthAssumption
  <2>2. b \in Commands[1]
    BY <1>3, <2>1
  <2>3. L[0][b] = {b}
    BY <1>2, <2>1
  <2>4. L[1][b] = {b}
    BY <1>2, <2>1, <2>2
  <2>5. QED
    BY <2>2, <2>3, <2>4
<1>5. \A e \in 0..((Depth - 1) - 1) : e \in P => e + 1 \in P
  <2> SUFFICES ASSUME NEW e \in 0..((Depth - 1) - 1), e \in P, NEW b \in Commands[e + 1]
               PROVE  b \in Commands[(e + 1) + 1] /\ L[(e + 1) + 1][b] = L[e + 1][b]
    BY DepthAssumption
  <2>1. /\ e \in 0..Depth /\ e + 1 \in 0..Depth /\ (e + 1) + 1 \in 0..Depth
        /\ (e + 1) - 1 = e /\ ((e + 1) + 1) - 1 = e + 1 /\ e + 1 # 0 /\ (e + 1) + 1 # 0
    BY DepthAssumption
  <2>2. \A k \in Commands[e] : k \in Commands[e + 1] /\ L[e + 1][k] = L[e][k]
    BY <2>1
  <2>3. CASE b \in Simple
    <3>1. b \in Commands[(e + 1) + 1]
      BY <1>3, <2>1, <2>3
    <3>2. L[e + 1][b] = {b}
      BY <1>2, <2>1, <2>3
    <3>3. L[(e + 1) + 1][b] = {b}
      BY <1>2, <2>1, <2>3, <3>1
    <3>4. QED
      BY <3>1, <3>2, <3>3
  <2>4. CASE b \notin Simple
    <3>1. /\ Commands[e + 1] = Nesting(Commands[e])
          /\ Commands[(e + 1) + 1] = Nesting(Commands[e + 1])
      BY <2>1, CommandsIs
    <3>2. b.bodies \in Seq(Seq(Commands[e]))
      BY <2>1, <2>4, Parts
    <3>3. b.bodies \in Seq(Seq(Commands[e + 1]))
      <4>1. Commands[e] \subseteq Commands[e + 1]
        BY <2>2
      <4>2. \A body \in Seq(Commands[e]) : body \in Seq(Commands[e + 1])
        BY <4>1
      <4>3. QED
        BY <3>2, <4>2
    <3>4. b \in Nesting(Commands[e + 1])
      BY <2>4, <3>1, <3>3 DEF Nesting
    <3>5. \A body \in Opened(view, b) : \A k \in ToSet(body) : L[e + 1][k] = L[e][k]
      <4>1. \A body \in ToSet(b.bodies) : \A k \in ToSet(body) : k \in Commands[e]
        BY <3>2 DEF ToSet
      <4>2. QED
        BY <2>1, <2>2, <4>1, OpenedIs
    <3>6. Inside(view, b, L[e + 1]) = Inside(view, b, L[e])
      BY <3>5 DEF Inside
    <3>7. L[(e + 1) + 1][b] = Inside(view, b, L[e + 1]) /\ L[e + 1][b] = Inside(view, b, L[e])
      BY <1>1, <2>1, <3>1, <3>4
    <3>8. QED
      BY <3>1, <3>4, <3>6, <3>7
  <2>5. QED
    BY <2>3, <2>4
<1>6. \A e \in 0..(Depth - 1) : e \in P
  <2> HIDE DEF P
  <2>1. CASE Depth = 0
    BY <2>1
  <2>2. CASE Depth # 0
    <3>1. Depth - 1 \in Nat
      BY <2>2, DepthAssumption
    <3>2. 0..(Depth - 1) \subseteq P
      BY <1>4, <1>5, <3>1, UpTo
    <3>3. QED
      BY <3>2
  <2>3. QED
    BY <2>1, <2>2
<1> DEFINE Q == {j \in Nat : d + j <= Depth => c \in Commands[d + j] /\ L[d + j][c] = L[d][c]}
<1>7. 0 \in Q
  BY DepthAssumption
<1>8. \A j \in 0..((Depth - d) - 1) : j \in Q => j + 1 \in Q
  <2> SUFFICES ASSUME NEW j \in 0..((Depth - d) - 1), j \in Q
               PROVE  c \in Commands[d + (j + 1)] /\ L[d + (j + 1)][c] = L[d][c]
    BY DepthAssumption
  <2>1. d + j \in 0..(Depth - 1) /\ d + (j + 1) = (d + j) + 1 /\ d + j <= Depth /\ (d + j) + 1 \in 0..Depth
    BY DepthAssumption
  <2>2. c \in Commands[d + j] /\ L[d + j][c] = L[d][c]
    BY <2>1
  <2>3. \A b \in Commands[d + j] : b \in Commands[(d + j) + 1] /\ L[(d + j) + 1][b] = L[d + j][b]
    BY <1>6, <2>1
  <2>4. QED
    BY <2>1, <2>2, <2>3
<1>9. Depth - d \in Q /\ d + (Depth - d) = Depth
  <2> HIDE DEF Q
  <2>1. Depth - d \in Nat /\ Depth - d \in 0..(Depth - d) /\ d + (Depth - d) = Depth
    BY DepthAssumption
  <2>2. 0..(Depth - d) \subseteq Q
    BY <1>7, <1>8, <2>1, UpTo
  <2>3. QED
    BY <2>1, <2>2
<1>10. c \in Commands[Depth] /\ L[Depth][c] = L[d][c]
  BY <1>9, DepthAssumption
<1>11. QED
  BY <1>10 DEF Seen, L

\* In a command is seen itself and what is in the bodies opened.
LEMMA SeenIs ==
  ASSUME NEW view \in Views, NEW d \in 0..Depth, NEW c \in Commands[d]
  PROVE  Seen(view, c) = {c} \cup UNION {CommandsIn(view, body) : body \in Opened(view, c)}
<1> DEFINE below == IF d = 0 THEN << >> ELSE Below(view)[d - 1]
<1>1. Seen(view, c) = Inside(view, c, below)
  <2>1. Below(view)[d] = InsideEach(view, Commands[d], below)
    BY BelowIs
  <2>2. Below(view)[d][c] = Seen(view, c)
    BY Deeper
  <2> HIDE DEF below
  <2>3. QED
    BY <2>1, <2>2 DEF InsideEach
<1>2. CASE c \in Simple
  BY <1>1, <1>2, OpenedIs DEF Inside
<1>3. CASE c \notin Simple
  <2>1. below = Below(view)[d - 1] /\ d - 1 \in 0..Depth /\ c.bodies \in Seq(Seq(Commands[d - 1]))
    BY <1>3, Parts
  <2> HIDE DEF below
  <2>2. \A body \in ToSet(c.bodies) : \A k \in ToSet(body) : k \in Commands[d - 1]
    BY <2>1 DEF ToSet
  <2>3. \A body \in Opened(view, c) : \A k \in ToSet(body) : below[k] = Below(view)[Depth][k]
    BY <2>1, <2>2, OpenedIs, Deeper DEF Seen
  <2>4. QED
    BY <1>1, <2>3 DEF Inside, CommandsIn
<1>4. QED
  BY <1>2, <1>3

\* All that is seen in a command has a place.
LEMMA SeenTyped ==
  ASSUME NEW view \in Views, NEW d \in 0..Depth, NEW c \in Commands[d]
  PROVE  \A k \in Seen(view, c) : k.id \in Ids
<1> DEFINE P == {e \in 0..Depth : \A b \in Commands[e] : \A k \in Seen(view, b) : k.id \in Ids}
<1>1. ASSUME NEW e \in 0..Depth, NEW b \in Commands[e], b \in Simple PROVE Seen(view, b) = {b}
  BY <1>1, SeenIs, OpenedIs
<1>2. 0 \in P
  BY <1>1, CommandsIs, SimpleIs, DepthAssumption
<1>3. \A e \in 0..(Depth - 1) : e \in P => e + 1 \in P
  <2> SUFFICES ASSUME NEW e \in 0..(Depth - 1), e \in P,
                      NEW b \in Commands[e + 1], NEW k \in Seen(view, b)
               PROVE  k.id \in Ids
    BY DepthAssumption
  <2>1. e \in 0..Depth /\ e + 1 \in 0..Depth /\ e + 1 # 0 /\ (e + 1) - 1 = e
    BY DepthAssumption
  <2>2. CASE k = b
    BY <2>1, <2>2, CommandPlaced
  <2>3. CASE k # b
    <3>1. PICK body \in Opened(view, b) : k \in CommandsIn(view, body)
      BY <2>1, <2>3, SeenIs
    <3>2. PICK j \in ToSet(body) : k \in Seen(view, j)
      BY <3>1 DEF CommandsIn, Seen
    <3>3. body \in ToSet(b.bodies) /\ b \notin Simple
      BY <2>1, <3>1, OpenedIs
    <3>4. b.bodies \in Seq(Seq(Commands[e]))
      BY <2>1, <3>3, Parts
    <3>5. j \in Commands[e]
      BY <3>3, <3>4 DEF ToSet
    <3>6. QED
      BY <2>1, <3>2, <3>5
  <2>4. QED
    BY <2>2, <2>3
<1>4. 0..Depth \subseteq P
  <2> HIDE DEF P
  <2>1. QED
    BY <1>2, <1>3, UpTo, DepthAssumption
<1>5. QED
  BY <1>4

\* A command is in itself, and what is in its bodies is in it.
LEMMA InParts ==
  ASSUME NEW view \in Views, NEW d \in 0..Depth, NEW c \in Commands[d]
  PROVE  /\ c \in Seen(view, c)
         /\ \A body \in Opened(view, c) : CommandsIn(view, body) \subseteq Seen(view, c)
         /\ \A i \in DOMAIN c.bodies : CommandsIn("all", c.bodies[i]) \subseteq Seen("all", c)
<1>1. /\ c \in Seen(view, c)
      /\ \A body \in Opened(view, c) : CommandsIn(view, body) \subseteq Seen(view, c)
  BY SeenIs
<1>2. ASSUME NEW i \in DOMAIN c.bodies PROVE CommandsIn("all", c.bodies[i]) \subseteq Seen("all", c)
  <2>1. "all" \in Views /\ c.bodies[i] \in Opened("all", c)
    BY OpenedIs DEF Views, ToSet
  <2>2. QED
    BY <2>1, SeenIs
<1>3. QED
  BY <1>1, <1>2

\* Of the commands in a body each is in the body.
LEMMA InBody ==
  ASSUME NEW view \in Views, NEW d \in 0..Depth, NEW cmds \in Seq(Commands[d]), NEW k \in DOMAIN cmds
  PROVE  /\ cmds[k] \in Commands[d]
         /\ Seen(view, cmds[k]) \subseteq CommandsIn(view, cmds)
         /\ cmds[k] \in CommandsIn(view, cmds)
<1>1. cmds[k] \in Commands[d] /\ cmds[k] \in ToSet(cmds)
  BY DEF ToSet
<1>2. Seen(view, cmds[k]) \subseteq CommandsIn(view, cmds)
  BY <1>1 DEF CommandsIn, Seen
<1>3. QED
  BY <1>1, <1>2, InParts

\* What is bound in commands are bindings.
LEMMA BoundTyped ==
  ASSUME NEW view \in Views, NEW d \in 0..Depth, NEW cmds \in Seq(Commands[d])
  PROVE  Bound(view, cmds) \subseteq Bindings
<1>1. \A c \in ToSet(cmds) : c \in Commands[d]
  BY DEF ToSet
<1>2. \A k \in CommandsIn(view, cmds) : k.id \in Ids
  BY <1>1, SeenTyped DEF CommandsIn, Seen
<1>3. QED
  BY <1>2 DEF Bound, Bindings

\* The walkers see what there is, but for what is in earlier arms.
InArm(k, c) == \E m \in Seen("all", c) : \E arm \in EarlierArms(m) : k \in CommandsIn("all", arm)

LEMMA WalkersSee ==
  ASSUME NEW d \in 0..Depth, NEW c \in Commands[d]
  PROVE  /\ Seen("children", c) \subseteq Seen("all", c)
         /\ \A k \in Seen("all", c) : k \in Seen("children", c) \/ InArm(k, c)
<1> DEFINE P == {e \in 0..Depth : \A b \in Commands[e] :
                   /\ Seen("children", b) \subseteq Seen("all", b)
                   /\ \A k \in Seen("all", b) : k \in Seen("children", b) \/ InArm(k, b)}
<1>1. "all" \in Views /\ "children" \in Views
  BY DEF Views
<1>2. ASSUME NEW e \in 0..Depth, NEW b \in Commands[e], b \in Simple
      PROVE  Seen("all", b) = {b} /\ Seen("children", b) = {b}
  BY <1>1, <1>2, SeenIs, OpenedIs
<1>3. 0 \in P
  BY <1>2, CommandsIs, DepthAssumption
<1>4. \A e \in 0..(Depth - 1) : e \in P => e + 1 \in P
  <2> SUFFICES ASSUME NEW e \in 0..(Depth - 1), e \in P, NEW b \in Commands[e + 1]
               PROVE  /\ Seen("children", b) \subseteq Seen("all", b)
                      /\ \A k \in Seen("all", b) : k \in Seen("children", b) \/ InArm(k, b)
    BY DepthAssumption
  <2>1. e \in 0..Depth /\ e + 1 \in 0..Depth /\ e + 1 # 0 /\ (e + 1) - 1 = e
    BY DepthAssumption
  <2>2. CASE b \in Simple
    BY <1>2, <2>1, <2>2
  <2>3. CASE b \notin Simple
    <3>1. b.bodies \in Seq(Seq(Commands[e]))
      BY <2>1, <2>3, Parts
    <3>2. \A body \in ToSet(b.bodies) : \A j \in ToSet(body) : j \in Commands[e]
      BY <3>1 DEF ToSet
    <3>3. /\ Seen("all", b) = {b} \cup UNION {CommandsIn("all", body) : body \in ToSet(b.bodies)}
          /\ Seen("children", b) = {b} \cup UNION {CommandsIn("children", body) : body \in childBodies(b)}
          /\ childBodies(b) \subseteq ToSet(b.bodies)
      <4>1. Opened("children", b) = childBodies(b)
        BY DEF Opened
      <4>2. QED
        BY <1>1, <2>1, <4>1, SeenIs, OpenedIs
    <3>4. \A j \in Commands[e] : /\ Seen("children", j) \subseteq Seen("all", j)
                                 /\ \A k \in Seen("all", j) : k \in Seen("children", j) \/ InArm(k, j)
      OBVIOUS
    <3>5. \A body \in ToSet(b.bodies) : CommandsIn("children", body) \subseteq CommandsIn("all", body)
      BY <3>2, <3>4 DEF CommandsIn, Seen
    <3>6. ASSUME NEW k \in Seen("all", b) PROVE k \in Seen("children", b) \/ InArm(k, b)
      <4>1. CASE k = b
        BY <3>3, <4>1
      <4>2. CASE k # b
        <5>1. PICK body \in ToSet(b.bodies) : k \in CommandsIn("all", body)
          BY <3>3, <3>6, <4>2
        <5>2. PICK j \in ToSet(body) : k \in Seen("all", j)
          BY <5>1 DEF CommandsIn, Seen
        <5>3. CASE body \in childBodies(b)
          <6>1. CASE k \in Seen("children", j)
            <7>1. k \in CommandsIn("children", body)
              BY <5>2, <6>1 DEF CommandsIn, Seen
            <7>2. QED
              BY <3>3, <5>3, <7>1
          <6>2. CASE InArm(k, j)
            <7>1. Seen("all", j) \subseteq Seen("all", b)
              BY <3>3, <5>2 DEF CommandsIn, Seen
            <7>2. QED
              BY <6>2, <7>1 DEF InArm
          <6>3. QED
            BY <3>2, <3>4, <5>2, <6>1, <6>2
        <5>4. CASE body \notin childBodies(b)
          <6>1. b.op \in {"switchline", "switchwords"} /\ body # Last(b.bodies)
            BY <5>4 DEF childBodies
          <6>2. PICK i \in DOMAIN b.bodies : body = b.bodies[i]
            BY DEF ToSet
          <6>3. i \in 1..(Len(b.bodies) - 1)
            BY <3>1, <6>1, <6>2 DEF Last
          <6>4. body \in EarlierArms(b)
            BY <6>1, <6>2, <6>3 DEF EarlierArms
          <6>5. b \in Seen("all", b)
            BY <3>3
          <6>6. QED
            BY <5>1, <6>4, <6>5 DEF InArm
        <5>5. QED
          BY <5>3, <5>4
      <4>3. QED
        BY <4>1, <4>2
    <3>7. Seen("children", b) \subseteq Seen("all", b)
      BY <3>3, <3>5
    <3>8. QED
      BY <3>6, <3>7
  <2>4. QED
    BY <2>2, <2>3
<1>5. 0..Depth \subseteq P
  <2> HIDE DEF P
  <2>1. QED
    BY <1>3, <1>4, UpTo, DepthAssumption
<1>6. QED
  BY <1>5

\* So of a body they collect what it binds, but for what it binds in such arms.
LEMMA CollectedOrAside ==
  ASSUME NEW d \in 0..Depth, NEW cmds \in Seq(Commands[d])
  PROVE  /\ CommandsIn("children", cmds) \subseteq CommandsIn("all", cmds)
         /\ Bound("all", cmds) \subseteq collectBindings(cmds) \cup Aside(cmds)
         /\ \A k \in CommandsIn("all", cmds) :
              k.op \in Binding => k \in CommandsIn("children", cmds) \/ k.id \in Aside(cmds)
<1>1. \A c \in ToSet(cmds) : c \in Commands[d]
  BY DEF ToSet
<1>2. CommandsIn("children", cmds) \subseteq CommandsIn("all", cmds)
  BY <1>1, WalkersSee DEF CommandsIn, Seen
<1>3. ASSUME NEW k \in CommandsIn("all", cmds), k.op \in Binding
      PROVE  k \in CommandsIn("children", cmds) \/ k.id \in Aside(cmds)
  <2>1. PICK c \in ToSet(cmds) : k \in Seen("all", c)
    BY DEF CommandsIn, Seen
  <2>2. CASE k \in Seen("children", c)
    BY <2>1, <2>2 DEF CommandsIn, Seen
  <2>3. CASE InArm(k, c)
    <3>1. PICK m \in Seen("all", c) : \E arm \in EarlierArms(m) : k \in CommandsIn("all", arm)
      BY <2>3 DEF InArm
    <3>2. PICK arm \in EarlierArms(m) : k \in CommandsIn("all", arm)
      BY <3>1
    <3>3. m \in CommandsIn("all", cmds) /\ k.id \in Bound("all", arm)
      BY <1>3, <2>1, <3>2 DEF CommandsIn, Seen, Bound
    <3>4. QED
      BY <3>2, <3>3 DEF Aside
  <2>4. QED
    BY <1>1, <2>1, <2>2, <2>3, WalkersSee
<1>4. Bound("all", cmds) \subseteq collectBindings(cmds) \cup Aside(cmds)
  BY <1>3 DEF Bound, collectBindings
<1>5. QED
  BY <1>2, <1>3, <1>4

\* A command alone.
LEMMA Alone ==
  ASSUME NEW C, NEW c \in C
  PROVE  <<c>> \in Seq(C) /\ 1 \in DOMAIN <<c>> /\ <<c>>[1] = c
OBVIOUS

\* A conservative command gathers what its bodies bind, but for what is lost.
LEMMA GensCover ==
  ASSUME NEW p, NEW d \in 0..Depth, NEW c \in Commands[d], c.op \in ConservativeHeads,
         c \in CommandsIn("all", p), NEW i \in DOMAIN c.bodies
  PROVE  Bound("all", c.bodies[i]) \subseteq Gens(c) \cup Lost(p)
<1> DEFINE body == c.bodies[i]
           lost == IF c.op = "switchline" THEN Aside(<<c>>) ELSE UNION {Aside(b) : b \in ToSet(c.bodies)}
<1>1. d - 1 \in 0..Depth /\ c.bodies \in Seq(Seq(Commands[d - 1])) /\ body \in ToSet(c.bodies)
  BY Heads, Parts DEF ToSet
<1>2. body \in Seq(Commands[d - 1])
  BY <1>1
<1>3. Bound("all", body) \subseteq collectBindings(body) \cup Aside(body)
  BY <1>1, <1>2, CollectedOrAside
<1>4. lost \subseteq Lost(p)
  BY DEF Lost
<1>5. CASE c.op # "switchline"
  <2>1. collectBindings(body) \subseteq Gens(c)
    <3>1. c.op # "switchwords" => childBodies(c) = ToSet(c.bodies)
      BY <1>5 DEF childBodies
    <3>2. QED
      BY <1>1, <3>1 DEF Gens
  <2>2. Aside(body) \subseteq lost
    BY <1>1, <1>5
  <2>3. QED
    BY <1>3, <1>4, <2>1, <2>2
<1>6. CASE c.op = "switchline"
  <2>1. c \in CommandsIn("all", <<c>>) /\ Seen("all", c) \subseteq CommandsIn("all", <<c>>)
    <3>1. "all" \in Views
      BY DEF Views
    <3>2. <<c>> \in Seq(Commands[d]) /\ 1 \in DOMAIN <<c>> /\ <<c>>[1] = c
      BY Alone
    <3>3. QED
      BY <3>1, <3>2, InBody
  <2>2. CASE i = Len(c.bodies)
    <3>1. collectBindings(body) \subseteq Gens(c)
      <4>1. childBodies(c) = {body}
        BY <1>6, <2>2 DEF childBodies, Last
      <4>2. QED
        BY <1>6, <4>1 DEF Gens
    <3>2. Aside(body) \subseteq Aside(<<c>>)
      <4>1. CommandsIn("all", body) \subseteq CommandsIn("all", <<c>>)
        BY <2>1, InParts DEF Views
      <4>2. QED
        BY <4>1 DEF Aside
    <3>3. QED
      BY <1>3, <1>4, <1>6, <3>1, <3>2
  <2>3. CASE i # Len(c.bodies)
    <3>1. body \in EarlierArms(c)
      BY <1>1, <1>6, <2>3 DEF EarlierArms
    <3>2. Bound("all", body) \subseteq Aside(<<c>>)
      BY <2>1, <3>1 DEF Aside
    <3>3. QED
      BY <1>4, <1>6, <3>2
  <2>4. QED
    BY <2>2, <2>3
<1>7. QED
  BY <1>5, <1>6

\* What it gathers are bindings.
LEMMA GensTyped ==
  ASSUME NEW d \in 0..Depth, NEW c \in Commands[d], c \notin Simple
  PROVE  Gens(c) \subseteq Bindings
<1>1. c.bodies \in Seq(Seq(Commands[d - 1])) /\ d - 1 \in 0..Depth
  BY Parts
<1>2. \A body \in ToSet(c.bodies) : body \in Seq(Commands[d - 1])
  BY <1>1 DEF ToSet
<1>3. \A body \in ToSet(c.bodies) : collectBindings(body) \subseteq Bindings
  BY <1>1, <1>2, BoundTyped DEF collectBindings, Views
<1>4. childBodies(c) \subseteq ToSet(c.bodies)
  BY OpenedIs DEF Opened, Views
<1>5. QED
  BY <1>3, <1>4 DEF Gens

----------------------------------------------------------------------------
(* What the parts of the walk return.                                      *)

\* What the commands of a depth do to sets.
Flows(C) == [C -> [SUBSET Bindings -> Results]]

\* The walk over commands, point by point.
IsWalk(w, flow, cmds, in) ==
  /\ w \in [0..Len(cmds) -> Results]
  /\ w[0] = Walked(in, TRUE)
  /\ \A k \in 1..Len(cmds) :
       w[k] = IF w[k - 1].live THEN Then(w[k - 1], flow[cmds[k]][w[k - 1].out]) ELSE w[k - 1]

\* The walk of commands is the function it is defined by.
LEMMA WalkIs ==
  ASSUME NEW C, NEW flow \in Flows(C), NEW cmds \in Seq(C), NEW in \in SUBSET Bindings
  PROVE  IsWalk(Walk(flow, cmds, in), flow, cmds, in)
<1> DEFINE w == Walk(flow, cmds, in)
           step == [k \in 1..Len(cmds) |->
                      [b \in Results |-> IF b.live THEN Then(b, flow[cmds[k]][b.out]) ELSE b]]
<1>1. Len(cmds) \in Nat /\ w = Folded(step, Walked(in, TRUE), Len(cmds))
  BY DEF Walk
<1>2. Walked(in, TRUE) \in Results
  BY DEF Walked, Results
<1>3. ASSUME NEW k \in 1..Len(cmds), NEW b \in Results
      PROVE  (IF b.live THEN Then(b, flow[cmds[k]][b.out]) ELSE b) \in Results
  <2>1. cmds[k] \in C /\ b.out \in SUBSET Bindings
    BY DEF Results
  <2>2. flow[cmds[k]][b.out] \in Results
    BY <2>1 DEF Flows
  <2>3. Then(b, flow[cmds[k]][b.out]) \in Results
    BY <2>2 DEF Then, Results
  <2>4. QED
    BY <2>3
<1>4. step \in [1..Len(cmds) -> [Results -> Results]]
  BY <1>3
<1>5. w \in [0..Len(cmds) -> Results]
  <2> HIDE DEF step, w
  <2>1. Folded(step, Walked(in, TRUE), Len(cmds)) \in [0..Len(cmds) -> Results]
    BY <1>1, <1>2, <1>4, FoldedStays
  <2>2. QED
    BY <1>1, <2>1
<1>6. w[0] = Walked(in, TRUE) /\ \A k \in 1..Len(cmds) : w[k] = step[k][w[k - 1]]
  <2> HIDE DEF step, w
  <2>1. IsFold(w, step, Walked(in, TRUE), Len(cmds))
    BY <1>1, FoldedIs
  <2>2. QED
    BY <2>1 DEF IsFold
<1>7. ASSUME NEW k \in 1..Len(cmds)
      PROVE  w[k] = IF w[k - 1].live THEN Then(w[k - 1], flow[cmds[k]][w[k - 1].out]) ELSE w[k - 1]
  <2>1. w[k - 1] \in Results
    BY <1>5
  <2>2. QED
    BY <1>6, <2>1
<1>8. QED
  BY <1>5, <1>6, <1>7 DEF IsWalk

\* So the walk returns what it should.
LEMMA SeqTyped ==
  ASSUME NEW C, NEW flow \in Flows(C), NEW cmds \in Seq(C), NEW in \in SUBSET Bindings
  PROVE  seq(flow, cmds, in) \in Results
<1>1. Walk(flow, cmds, in) \in [0..Len(cmds) -> Results]
  BY WalkIs DEF IsWalk
<1>2. Len(cmds) \in 0..Len(cmds)
  OBVIOUS
<1>3. QED
  BY <1>1, <1>2 DEF seq

\* What alternatives return.
LEMMA JoinedTyped ==
  ASSUME NEW ws \in SUBSET Results, NEW out \in SUBSET Bindings, NEW live \in BOOLEAN
  PROVE  Joined(ws, out, live) \in Results
<1>1. \A w \in ws : /\ w.brk \in SUBSET Bindings /\ w.cont \in SUBSET Bindings
                    /\ w.noted \in SUBSET (Ids \X SUBSET Bindings)
  BY DEF Results
<1>2. UNION {w.brk : w \in ws} \in SUBSET Bindings
  BY <1>1
<1>3. UNION {w.cont : w \in ws} \in SUBSET Bindings
  BY <1>1
<1>4. UNION {w.noted : w \in ws} \in SUBSET (Ids \X SUBSET Bindings)
  BY <1>1
<1>5. QED
  BY <1>2, <1>3, <1>4 DEF Joined, Results

----------------------------------------------------------------------------
(* Loops.                                                                  *)

\* There are as many bindings as passes but one.
LEMMA PassCount == IsFiniteSet(Bindings) /\ Cardinality(Bindings) \in Nat /\ MaxPasses \in Nat \ {0}
<1>1. IsFiniteSet(Bindings)
  <2>1. IsFiniteSet({Parameter})
    BY FS_Singleton
  <2>2. QED
    BY <2>1, IdsAssumption, FS_Union DEF Bindings
<1>2. QED
  BY <1>1, FS_CardinalityType DEF MaxPasses

\* What the passes make of the walk, pass by pass.
ArePasses(w, flow, c, entry) ==
  /\ w \in [0..MaxPasses -> Results]
  /\ w[0] = Walked(entry, TRUE)
  /\ \A k \in 1..MaxPasses : /\ seq(flow, Block(c), w[k - 1].out) \in Results
                             /\ w[k] = AfterPass(w[k - 1], seq(flow, Block(c), w[k - 1].out))

\* The passes of a loop are what they are defined by.
LEMMA PassesIs ==
  ASSUME NEW C, NEW flow \in Flows(C), NEW c, Block(c) \in Seq(C), NEW entry \in SUBSET Bindings
  PROVE  ArePasses(Passes(flow, c, entry), flow, c, entry)
<1> DEFINE w == Passes(flow, c, entry)
           step == [k \in 1..MaxPasses |-> [b \in Results |-> AfterPass(b, seq(flow, Block(c), b.out))]]
<1>1. MaxPasses \in Nat /\ w = Folded(step, Walked(entry, TRUE), MaxPasses)
  BY PassCount DEF Passes
<1>2. Walked(entry, TRUE) \in Results
  BY DEF Walked, Results
<1>3. ASSUME NEW b \in Results
      PROVE  /\ seq(flow, Block(c), b.out) \in Results
             /\ AfterPass(b, seq(flow, Block(c), b.out)) \in Results
  <2>1. b.out \in SUBSET Bindings
    BY DEF Results
  <2>2. seq(flow, Block(c), b.out) \in Results
    BY <2>1, SeqTyped
  <2>3. QED
    BY <2>2 DEF AfterPass, Results
<1>4. step \in [1..MaxPasses -> [Results -> Results]]
  BY <1>3
<1>5. w \in [0..MaxPasses -> Results]
  <2> HIDE DEF step, w
  <2>1. Folded(step, Walked(entry, TRUE), MaxPasses) \in [0..MaxPasses -> Results]
    BY <1>1, <1>2, <1>4, FoldedStays
  <2>2. QED
    BY <1>1, <2>1
<1>6. w[0] = Walked(entry, TRUE) /\ \A k \in 1..MaxPasses : w[k] = step[k][w[k - 1]]
  <2> HIDE DEF step, w
  <2>1. IsFold(w, step, Walked(entry, TRUE), MaxPasses)
    BY <1>1, FoldedIs
  <2>2. QED
    BY <2>1 DEF IsFold
<1>7. ASSUME NEW k \in 1..MaxPasses
      PROVE  /\ seq(flow, Block(c), w[k - 1].out) \in Results
             /\ w[k] = AfterPass(w[k - 1], seq(flow, Block(c), w[k - 1].out))
  <2>1. w[k - 1] \in Results
    <3>1. k - 1 \in 0..MaxPasses
      BY PassCount
    <3> HIDE DEF step, w
    <3>2. QED
      BY <1>5, <3>1
  <2>2. QED
    BY <1>3, <1>6, <2>1
<1>8. QED
  BY <1>5, <1>6, <1>7 DEF ArePasses

\* A pass adds to what has come round, and what comes round is in the set.
LEMMA PassAdds ==
  ASSUME NEW w \in Results, NEW pass \in Results
  PROVE  LET after == AfterPass(w, pass)
         IN  /\ w.out \subseteq after.out /\ w.brk \subseteq after.brk /\ w.noted \subseteq after.noted
             /\ pass.live => pass.out \subseteq after.out
             /\ pass.brk \subseteq after.brk /\ pass.cont \subseteq after.out
BY DEF AfterPass, Results

\* So does every number of passes.
LEMMA PassesGrow ==
  ASSUME NEW C, NEW flow \in Flows(C), NEW c, Block(c) \in Seq(C), NEW entry \in SUBSET Bindings,
         NEW k \in 1..MaxPasses
  PROVE  LET w == Passes(flow, c, entry)
         IN  /\ w[1].out \subseteq w[k].out /\ w[1].brk \subseteq w[k].brk /\ w[1].noted \subseteq w[k].noted
             /\ entry \subseteq w[k].out
<1> DEFINE w == Passes(flow, c, entry)
           P == {j \in Nat : j + 1 \in 1..MaxPasses =>
                   /\ w[1].out \subseteq w[j + 1].out /\ w[1].brk \subseteq w[j + 1].brk
                   /\ w[1].noted \subseteq w[j + 1].noted}
<1>1. MaxPasses \in Nat \ {0}
  BY PassCount
<1>a. ArePasses(w, flow, c, entry)
  BY PassesIs
<1> HIDE DEF w
<1>2. \A j \in 1..MaxPasses :
         w[j - 1].out \subseteq w[j].out /\ w[j - 1].brk \subseteq w[j].brk /\ w[j - 1].noted \subseteq w[j].noted
  <2> TAKE j \in 1..MaxPasses
  <2>1. w[j - 1] \in Results
    BY <1>1, <1>a DEF ArePasses
  <2>2. seq(flow, Block(c), w[j - 1].out) \in Results /\ w[j] = AfterPass(w[j - 1], seq(flow, Block(c), w[j - 1].out))
    BY <1>a DEF ArePasses
  <2>3. QED
    BY <2>1, <2>2, PassAdds
<1>3. 0 \in P
  OBVIOUS
<1>4. \A j \in 0..((MaxPasses - 1) - 1) : j \in P => j + 1 \in P
  <2> SUFFICES ASSUME NEW j \in 0..((MaxPasses - 1) - 1), j \in P, (j + 1) + 1 \in 1..MaxPasses
               PROVE  /\ w[1].out \subseteq w[(j + 1) + 1].out /\ w[1].brk \subseteq w[(j + 1) + 1].brk
                      /\ w[1].noted \subseteq w[(j + 1) + 1].noted
    BY <1>1
  <2>1. j + 1 \in 1..MaxPasses /\ ((j + 1) + 1) - 1 = j + 1
    BY <1>1
  <2>2. QED
    BY <1>2, <2>1
<1>5. k - 1 \in P /\ (k - 1) + 1 = k
  <2> HIDE DEF P
  <2>1. MaxPasses - 1 \in Nat /\ k - 1 \in 0..(MaxPasses - 1)
    BY <1>1
  <2>2. 0..(MaxPasses - 1) \subseteq P
    BY <1>3, <1>4, <2>1, UpTo
  <2>3. QED
    BY <2>1, <2>2
<1>6. w[1].out \subseteq w[k].out /\ w[1].brk \subseteq w[k].brk /\ w[1].noted \subseteq w[k].noted
  BY <1>5
<1>7. entry \subseteq w[1].out
  <2>1. w[0].out = entry
    BY <1>a DEF ArePasses, Walked
  <2>2. 1 \in 1..MaxPasses /\ 1 - 1 = 0
    BY <1>1
  <2>3. QED
    BY <1>2, <2>1, <2>2
<1>8. QED
  BY <1>6, <1>7 DEF w

\* Sooner or later nothing new comes round.
LEMMA Settles ==
  ASSUME NEW C, NEW flow \in Flows(C), NEW c, Block(c) \in Seq(C), NEW entry \in SUBSET Bindings
  PROVE  \E k \in 1..MaxPasses : Passes(flow, c, entry)[k].out = Passes(flow, c, entry)[k - 1].out
<1> DEFINE w == Passes(flow, c, entry)
<1>1. ArePasses(w, flow, c, entry) /\ MaxPasses \in Nat \ {0}
  BY PassesIs, PassCount
<1> HIDE DEF w
<1>2. \A j \in 0..MaxPasses : w[j] \in Results /\ w[j].out \in SUBSET Bindings
  BY <1>1 DEF ArePasses, Results
<1>3. SUFFICES ASSUME \A k \in 1..MaxPasses : w[k].out # w[k - 1].out PROVE FALSE
  BY DEF w
<1>4. \A j \in 1..MaxPasses : w[j - 1].out \subseteq w[j].out
  <2> TAKE j \in 1..MaxPasses
  <2>1. w[j - 1] \in Results
    BY <1>1, <1>2
  <2>2. seq(flow, Block(c), w[j - 1].out) \in Results /\ w[j] = AfterPass(w[j - 1], seq(flow, Block(c), w[j - 1].out))
    BY <1>1 DEF ArePasses
  <2>3. QED
    BY <2>1, <2>2, PassAdds
<1>5. \A j \in 0..MaxPasses : IsFiniteSet(w[j].out) /\ Cardinality(w[j].out) \in Nat
                              /\ Cardinality(w[j].out) <= Cardinality(Bindings)
  BY <1>2, PassCount, FS_Subset, FS_CardinalityType
<1> DEFINE P == {j \in 0..MaxPasses : Cardinality(w[j].out) >= j}
<1>6. 0 \in P
  BY <1>1, <1>5
<1>7. \A j \in 0..(MaxPasses - 1) : j \in P => j + 1 \in P
  <2> SUFFICES ASSUME NEW j \in 0..(MaxPasses - 1), Cardinality(w[j].out) >= j
               PROVE  Cardinality(w[j + 1].out) >= j + 1
    BY <1>1
  <2>1. j + 1 \in 1..MaxPasses /\ (j + 1) - 1 = j /\ j \in 0..MaxPasses /\ j + 1 \in 0..MaxPasses
    BY <1>1
  <2>2. w[j].out \subseteq w[j + 1].out /\ w[j].out # w[j + 1].out
    BY <1>3, <1>4, <2>1
  <2>3. Cardinality(w[j].out) < Cardinality(w[j + 1].out)
    BY <1>5, <2>1, <2>2, FS_Subset
  <2>4. QED
    BY <1>5, <2>1, <2>3
<1>8. Cardinality(w[MaxPasses].out) >= MaxPasses
  <2> HIDE DEF P
  <2>1. 0..MaxPasses \subseteq P
    BY <1>1, <1>6, <1>7, UpTo
  <2>2. MaxPasses \in 0..MaxPasses
    BY <1>1
  <2>3. QED
    BY <2>1, <2>2 DEF P
<1>9. QED
  BY <1>1, <1>5, <1>8, PassCount DEF MaxPasses

\* What the analysis of a loop comes to.  It covers the first pass and, from
\* the set that has come round, every later one.
Covered(flow, c, entry, fix) ==
  LET first == seq(flow, Block(c), entry)
      again == seq(flow, Block(c), fix.out)
  IN  /\ fix \in Results
      /\ entry \subseteq fix.out
      /\ first.live => first.out \subseteq fix.out
      /\ first.brk \subseteq fix.brk /\ first.cont \subseteq fix.out /\ first.noted \subseteq fix.noted
      /\ again.live => again.out \subseteq fix.out
      /\ again.brk \subseteq fix.brk /\ again.cont \subseteq fix.out

\* What a loop ends with covers its entry, its first pass and a pass over
\* what comes round.
LEMMA LoopCovers ==
  ASSUME NEW C, NEW flow \in Flows(C), NEW c, Block(c) \in Seq(C), NEW entry \in SUBSET Bindings
  PROVE  Covered(flow, c, entry, Settled(flow, c, entry))
<1> DEFINE w == Passes(flow, c, entry)
           k == CHOOSE j \in 1..MaxPasses : w[j].out = w[j - 1].out
           first == seq(flow, Block(c), entry)
           again == seq(flow, Block(c), w[k].out)
<1>1. ArePasses(w, flow, c, entry) /\ MaxPasses \in Nat \ {0}
  BY PassesIs, PassCount
<1>2. k \in 1..MaxPasses /\ w[k].out = w[k - 1].out
  <2>1. \E j \in 1..MaxPasses : w[j].out = w[j - 1].out
    BY Settles
  <2> HIDE DEF w
  <2>2. QED
    BY <2>1
<1>3. Settled(flow, c, entry) = w[k]
  BY DEF Settled
<1>4. /\ w[1].out \subseteq w[k].out /\ w[1].brk \subseteq w[k].brk /\ w[1].noted \subseteq w[k].noted
      /\ entry \subseteq w[k].out
  BY <1>2, PassesGrow
<1> HIDE DEF w, k
<1>5. /\ w[k - 1] \in Results /\ w[k] \in Results /\ again \in Results
      /\ w[k] = AfterPass(w[k - 1], again)
  BY <1>1, <1>2 DEF ArePasses
<1>6. w[0] \in Results /\ first \in Results /\ w[1] = AfterPass(w[0], first)
  <2>1. w[0].out = entry
    BY <1>1 DEF ArePasses, Walked
  <2>2. 1 \in 1..MaxPasses /\ 1 - 1 = 0 /\ 0 \in 0..MaxPasses
    BY <1>1
  <2>3. QED
    BY <1>1, <2>1, <2>2 DEF ArePasses
<1>7. /\ again.live => again.out \subseteq w[k].out
      /\ again.brk \subseteq w[k].brk /\ again.cont \subseteq w[k].out
  BY <1>5, PassAdds
<1>8. /\ first.live => first.out \subseteq w[1].out
      /\ first.brk \subseteq w[1].brk /\ first.cont \subseteq w[1].out /\ first.noted \subseteq w[1].noted
  <2>1. w[0] = Walked(entry, TRUE) /\ w[0].noted = {}
    BY <1>1 DEF ArePasses, Walked
  <2>2. first.noted \subseteq w[1].noted
    <3> HIDE DEF first
    <3>1. w[1].noted = w[0].noted \cup {n \in first.noted : \A m \in w[0].noted : m[1] # n[1]}
      BY <1>6 DEF AfterPass
    <3>2. QED
      BY <2>1, <3>1
  <2>3. QED
    BY <1>6, <2>2, PassAdds
<1>9. QED
  BY <1>3, <1>4, <1>5, <1>7, <1>8 DEF Covered

----------------------------------------------------------------------------
(* Commands.                                                               *)

\* The bodies of a command, each on its own and as a loop's block.
LEMMA BodiesTyped ==
  ASSUME NEW d \in 0..Depth, NEW c \in Commands[d], c \notin Simple
  PROVE  /\ \A body \in ToSet(c.bodies) : body \in Seq(Commands[d - 1])
         /\ \A i \in DOMAIN c.bodies : c.bodies[i] \in Seq(Commands[d - 1]) /\ c.bodies[i] \in ToSet(c.bodies)
         /\ c.op \in LoopHeads => Block(c) \in Seq(Commands[d - 1])
<1>1. c.bodies \in Seq(Seq(Commands[d - 1]))
  BY Parts
<1>2. \A i \in DOMAIN c.bodies : c.bodies[i] \in Seq(Commands[d - 1]) /\ c.bodies[i] \in ToSet(c.bodies)
  BY <1>1 DEF ToSet
<1>3. \A body \in ToSet(c.bodies) : body \in Seq(Commands[d - 1])
  BY <1>1 DEF ToSet
<1>4. ASSUME c.op \in LoopHeads PROVE Block(c) \in Seq(Commands[d - 1])
  <2>1. CASE c.op = "for"
    <3>1. Len(c.bodies) = 3
      BY <2>1, Parts
    <3>2. 1 \in DOMAIN c.bodies /\ 2 \in DOMAIN c.bodies /\ 3 \in DOMAIN c.bodies
      BY <1>1, <3>1
    <3>3. Block(c) = c.bodies[1] \o c.bodies[2] \o c.bodies[3]
      BY <2>1 DEF Block
    <3>4. /\ c.bodies[1] \in Seq(Commands[d - 1]) /\ c.bodies[2] \in Seq(Commands[d - 1])
          /\ c.bodies[3] \in Seq(Commands[d - 1])
      BY <1>2, <3>2
    <3> DEFINE C == Commands[d - 1]
               start == c.bodies[1]
               next == c.bodies[2]
               body == c.bodies[3]
    <3>5. start \in Seq(C) /\ next \in Seq(C) /\ body \in Seq(C)
      BY <3>4
    <3> HIDE DEF C, start, next, body
    <3>6. start \o next \in Seq(C)
      BY <3>5, ConcatProperties
    <3>7. start \o next \o body \in Seq(C)
      BY <3>5, <3>6, ConcatProperties
    <3>8. QED
      BY <3>3, <3>7 DEF C, start, next, body
  <2>2. CASE c.op # "for"
    <3>1. Len(c.bodies) = 1
      BY <1>4, <2>2, Parts DEF LoopHeads
    <3>2. 1 \in DOMAIN c.bodies
      BY <1>1, <3>1
    <3>3. QED
      BY <1>2, <2>2, <3>2 DEF Block
  <2>3. QED
    BY <2>1, <2>2
<1>5. QED
  BY <1>2, <1>3, <1>4

\* What each command returns, from what those in its bodies return.
LEMMA EndsTyped ==
  ASSUME NEW d \in 0..Depth, NEW c \in Commands[d], c \notin Simple,
         NEW flow \in Flows(Commands[d - 1]), NEW in \in SUBSET Bindings
  PROVE  /\ Ends(flow, c, in) \in SUBSET Results
         /\ \A i \in DOMAIN c.bodies : seq(flow, c.bodies[i], in) \in Ends(flow, c, in)
BY BodiesTyped, SeqTyped DEF Ends

\* What an if returns is a result;
LEMMA IfTyped ==
  ASSUME NEW d \in 0..Depth, NEW c \in Commands[d], c.op \in {"if", "ifelse"},
         NEW flow \in Flows(Commands[d - 1]), NEW in \in SUBSET Bindings
  PROVE  analyzeIf(flow, c, in) \in Results
<1> DEFINE live == {w \in Ends(flow, c, in) : w.live}
           all == UNION {w.out : w \in live}
           rest == IF c.op = "if" THEN in ELSE {}
           may == c.op = "if" \/ live # {}
<1>1. Ends(flow, c, in) \in SUBSET Results
  BY Heads, EndsTyped
<1>2. \A w \in live : w.out \in SUBSET Bindings
  BY <1>1 DEF Results
<1>3. all \subseteq Bindings /\ rest \subseteq Bindings
  <2> HIDE DEF live
  <2>1. QED
    BY <1>2
<1>4. analyzeIf(flow, c, in) = Joined(Ends(flow, c, in), rest \cup all, may)
  BY DEF analyzeIf
<1>5. may \in BOOLEAN
  OBVIOUS
<1> HIDE DEF all, rest, may
<1>6. QED
  BY <1>1, <1>3, <1>4, <1>5, JoinedTyped

\* The set a conservative command is analyzed with.
View(c, in) == in \cup Gens(c)

\* What a catch or switch sees is a set of bindings,
LEMMA ViewTyped ==
  ASSUME NEW d \in 0..Depth, NEW c \in Commands[d], c \notin Simple, NEW in \in SUBSET Bindings
  PROVE  View(c, in) \in SUBSET Bindings
BY GensTyped DEF View

\* what it returns is a result,
LEMMA ConservativeTyped ==
  ASSUME NEW d \in 0..Depth, NEW c \in Commands[d], c \notin Simple,
         NEW flow \in Flows(Commands[d - 1]), NEW in \in SUBSET Bindings
  PROVE  analyzeConservative(flow, c, in) \in Results
<1> DEFINE ends == IF c.op \in ArmLists THEN {} ELSE Ends(flow, c, View(c, in))
<1>1. View(c, in) \in SUBSET Bindings
  BY ViewTyped
<1>2. ends \in SUBSET Results
  BY <1>1, EndsTyped
<1>3. Joined(ends, View(c, in), TRUE) \in Results
  BY <1>1, <1>2, JoinedTyped
<1>4. QED
  BY <1>3 DEF analyzeConservative, View

\* what a loop returns, too, and it covers its passes,
LEMMA LoopTyped ==
  ASSUME NEW d \in 0..Depth, NEW c \in Commands[d], c.op \in LoopHeads,
         NEW flow \in Flows(Commands[d - 1]), NEW in \in SUBSET Bindings
  PROVE  /\ LoopEntry(c, in) \in SUBSET Bindings
         /\ Covered(flow, c, LoopEntry(c, in), Settled(flow, c, LoopEntry(c, in)))
         /\ analyzeLoop(flow, c, in) \in Results
<1> DEFINE fix == Settled(flow, c, LoopEntry(c, in))
<1>1. LoopEntry(c, in) \in SUBSET Bindings
  BY CommandPlaced DEF LoopEntry, Bindings
<1>2. Block(c) \in Seq(Commands[d - 1])
  BY Heads, BodiesTyped
<1>3. Covered(flow, c, LoopEntry(c, in), fix)
  BY <1>1, <1>2, LoopCovers
<1> HIDE DEF fix
<1>4. fix \in Results
  BY <1>3 DEF Covered
<1>5. [Walked(fix.out \cup fix.brk, TRUE) EXCEPT !.noted = fix.noted] \in Results
  BY <1>4 DEF Walked, Results
<1>6. QED
  BY <1>1, <1>3, <1>5 DEF analyzeLoop, fix

\* what a command without bodies returns,
LEMMA SimpleTyped ==
  ASSUME NEW d, NEW c \in Simple, NEW flow, NEW in \in SUBSET Bindings
  PROVE  command(flow, c, in) \in Results
<1>1. c.op \in {"set", "incr", "use", "return", "break", "continue"} /\ c.id \in Ids /\ c.id \in Bindings
  BY SimpleIs DEF Bindings
<1>2. \A out \in SUBSET Bindings, live \in BOOLEAN : Walked(out, live) \in Results
  BY DEF Walked, Results
<1>3. {c.id} \in SUBSET Bindings /\ {<<c.id, in>>} \in SUBSET (Ids \X SUBSET Bindings)
  BY <1>1
<1>4. CASE c.op \in {"return", "set"}
  BY <1>2, <1>3, <1>4 DEF command, ConservativeHeads, ArmLists, LoopHeads
<1>5. CASE c.op \in {"break", "continue"}
  BY <1>2, <1>5 DEF command, ConservativeHeads, ArmLists, LoopHeads, Walked, Results
<1>6. CASE c.op \in {"use", "incr"}
  BY <1>2, <1>3, <1>6 DEF command, ConservativeHeads, ArmLists, LoopHeads, Walked, Results
<1>7. QED
  BY <1>1, <1>4, <1>5, <1>6

\* and so what any command returns.
LEMMA CommandTyped ==
  ASSUME NEW d \in 0..Depth, NEW c \in Commands[d], NEW flow, NEW in \in SUBSET Bindings,
         d # 0 => flow \in Flows(Commands[d - 1])
  PROVE  command(flow, c, in) \in Results
<1>1. CASE c \in Simple
  BY <1>1, SimpleTyped
<1>2. CASE c \notin Simple
  <2>1. flow \in Flows(Commands[d - 1]) /\ c.op \in {"if", "ifelse"} \cup ConservativeHeads \cup LoopHeads
    BY <1>2, Parts
  <2>2. CASE c.op \in {"if", "ifelse"}
    <3>1. command(flow, c, in) = analyzeIf(flow, c, in)
      BY <2>2 DEF command, ConservativeHeads, ArmLists, LoopHeads
    <3>2. QED
      BY <2>1, <2>2, <3>1, IfTyped
  <2>3. CASE c.op \in ConservativeHeads
    <3>1. command(flow, c, in) = analyzeConservative(flow, c, in)
      BY <2>3 DEF command, ConservativeHeads, ArmLists, LoopHeads
    <3>2. QED
      BY <1>2, <2>1, <3>1, ConservativeTyped
  <2>4. CASE c.op \in LoopHeads
    <3>1. command(flow, c, in) = analyzeLoop(flow, c, in)
      BY <2>4 DEF command, ConservativeHeads, ArmLists, LoopHeads
    <3>2. QED
      BY <2>1, <2>4, <3>1, LoopTyped
  <2>5. QED
    BY <2>1, <2>2, <2>3, <2>4
<1>3. QED
  BY <1>1, <1>2

\* So what the commands of every depth do is typed.
LEMMA FlowTyped ==
  ASSUME NEW d \in 0..Depth
  PROVE  /\ Flow[d] \in Flows(Commands[d])
         /\ \A c \in Commands[d], in \in SUBSET Bindings :
              Flow[d][c][in] = command(IF d = 0 THEN << >> ELSE Flow[d - 1], c, in)
<1> DEFINE P == {e \in 0..Depth : Flow[e] \in Flows(Commands[e])}
<1>1. \A e \in 0..Depth : Flow[e] = FlowOver(e, IF e = 0 THEN << >> ELSE Flow[e - 1])
  BY FlowIs
<1>2. ASSUME NEW e \in 0..Depth, NEW flow, e # 0 => flow \in Flows(Commands[e - 1])
      PROVE  FlowOver(e, flow) \in Flows(Commands[e])
  <2>1. \A c \in Commands[e], in \in SUBSET Bindings : command(flow, c, in) \in Results
    BY <1>2, CommandTyped
  <2>2. QED
    BY <2>1 DEF FlowOver, Flows
<1>3. 0 \in P
  BY <1>1, <1>2, DepthAssumption
<1>4. \A e \in 0..(Depth - 1) : e \in P => e + 1 \in P
  <2> SUFFICES ASSUME NEW e \in 0..(Depth - 1), Flow[e] \in Flows(Commands[e])
               PROVE  e + 1 \in 0..Depth /\ Flow[e + 1] \in Flows(Commands[e + 1])
    OBVIOUS
  <2>1. e + 1 \in 0..Depth /\ e + 1 # 0 /\ (e + 1) - 1 = e
    BY DepthAssumption
  <2>2. Flow[e + 1] = FlowOver(e + 1, Flow[e])
    BY <1>1, <2>1
  <2>3. QED
    BY <1>2, <2>1, <2>2
<1>5. 0..Depth \subseteq P
  <2> HIDE DEF P
  <2>1. QED
    BY <1>3, <1>4, UpTo, DepthAssumption
<1>6. \A c \in Commands[d], in \in SUBSET Bindings :
        Flow[d][c][in] = command(IF d = 0 THEN << >> ELSE Flow[d - 1], c, in)
  <2>1. \A flow : \A c \in Commands[d], in \in SUBSET Bindings : FlowOver(d, flow)[c][in] = command(flow, c, in)
    BY DEF FlowOver
  <2>2. QED
    BY <1>1, <2>1
<1>7. QED
  BY <1>5, <1>6

\* What a walk b, of a body, leaves by and notes is in what the command a does.
Kept(b, a) == b.brk \subseteq a.brk /\ b.cont \subseteq a.cont /\ b.noted \subseteq a.noted

\* What alternatives leave by and note is in what all of them do.
LEMMA JoinedKeeps ==
  ASSUME NEW ws, NEW w \in ws, NEW out, NEW live
  PROVE  Kept(w, Joined(ws, out, live))
BY DEF Kept, Joined

\* An if covers its branches and, with no else, the way around them.
LEMMA IfDoes ==
  ASSUME NEW d \in 0..Depth, NEW c \in Commands[d], NEW in \in SUBSET Bindings, c.op \in {"if", "ifelse"}
  PROVE  LET r == Flow[d][c][in]
         IN  /\ \A i \in DOMAIN c.bodies :
                  LET b == seq(Flow[d - 1], c.bodies[i], in)
                  IN  (b.live => r.live /\ b.out \subseteq r.out) /\ Kept(b, r)
             /\ c.op = "if" => r.live /\ in \subseteq r.out
<1> DEFINE flow == Flow[d - 1]
           ends == Ends(flow, c, in)
           r == Flow[d][c][in]
<1>1. c \notin Simple /\ d # 0 /\ d - 1 \in 0..Depth
  BY Heads, Parts
<1>2. flow \in Flows(Commands[d - 1])
  BY <1>1, FlowTyped
<1>3. r = analyzeIf(flow, c, in)
  <2>1. r = command(flow, c, in)
    BY <1>1, FlowTyped
  <2> HIDE DEF flow, r
  <2>2. QED
    BY <2>1 DEF command, ConservativeHeads, ArmLists, LoopHeads
<1>4. /\ r.live = (c.op = "if" \/ {w \in ends : w.live} # {})
      /\ r.out = (IF c.op = "if" THEN in ELSE {}) \cup UNION {w.out : w \in {v \in ends : v.live}}
  BY <1>3 DEF analyzeIf, Joined
<1>5. \A w \in ends : Kept(w, r)
  BY <1>3, JoinedKeeps DEF analyzeIf
<1>6. \A i \in DOMAIN c.bodies : seq(flow, c.bodies[i], in) \in ends
  BY <1>1, <1>2, EndsTyped
<1> HIDE DEF flow, ends, r
<1>7. \A w \in ends : w.live => r.live /\ w.out \subseteq r.out
  <2> SUFFICES ASSUME NEW w \in ends, w.live PROVE r.live /\ w.out \subseteq r.out
    OBVIOUS
  <2> DEFINE live == {v \in ends : v.live}
  <2>1. w \in live
    OBVIOUS
  <2>2. r.live /\ r.out = (IF c.op = "if" THEN in ELSE {}) \cup UNION {v.out : v \in live}
    BY <1>4, <2>1
  <2> HIDE DEF live
  <2>3. QED
    BY <2>1, <2>2
<1>8. c.op = "if" => r.live /\ in \subseteq r.out
  BY <1>4
<1>9. QED
  BY <1>5, <1>6, <1>7, <1>8 DEF flow, r

\* A catch or switch covers the way around its bodies, what they bind but for
\* what is lost, and, if it is no list, their ends.
LEMMA ConservativeDoes ==
  ASSUME NEW d \in 0..Depth, NEW c \in Commands[d], NEW in \in SUBSET Bindings, c.op \in ConservativeHeads
  PROVE  LET r == Flow[d][c][in]
         IN  /\ r.live /\ in \subseteq r.out /\ r.out \in SUBSET Bindings
             /\ \A p : c \in CommandsIn("all", p) =>
                  \A i \in DOMAIN c.bodies : Bound("all", c.bodies[i]) \subseteq r.out \cup Lost(p)
             /\ c.op \notin ArmLists =>
                  \A i \in DOMAIN c.bodies : Kept(seq(Flow[d - 1], c.bodies[i], r.out), r)
<1> DEFINE flow == Flow[d - 1]
           view == View(c, in)
           ends == IF c.op \in ArmLists THEN {} ELSE Ends(flow, c, view)
           r == Flow[d][c][in]
<1>1. c \notin Simple /\ d # 0 /\ d - 1 \in 0..Depth
  BY Heads, Parts
<1>2. flow \in Flows(Commands[d - 1]) /\ view \in SUBSET Bindings
  BY <1>1, FlowTyped, ViewTyped
<1>3. r = analyzeConservative(flow, c, in)
  <2>1. r = command(flow, c, in)
    BY <1>1, FlowTyped
  <2> HIDE DEF flow, r
  <2>2. QED
    BY <2>1 DEF command, ConservativeHeads, ArmLists, LoopHeads
<1>4. r = Joined(ends, view, TRUE)
  BY <1>3 DEF analyzeConservative, View
<1>5. r.live /\ r.out = view
  BY <1>4 DEF Joined
<1>6. \A w \in ends : Kept(w, r)
  BY <1>4, JoinedKeeps
<1>7. c.op \notin ArmLists => \A i \in DOMAIN c.bodies : seq(flow, c.bodies[i], view) \in ends
  BY <1>1, <1>2, EndsTyped
<1>8. in \subseteq view /\ Gens(c) \subseteq view
  BY DEF View
<1> HIDE DEF flow, view, ends, r
<1>9. ASSUME NEW p, c \in CommandsIn("all", p), NEW i \in DOMAIN c.bodies
      PROVE  Bound("all", c.bodies[i]) \subseteq r.out \cup Lost(p)
  BY <1>5, <1>8, <1>9, GensCover
<1>10. QED
  BY <1>2, <1>5, <1>6, <1>7, <1>8, <1>9 DEF flow, r

\* Nothing in a body leaves a loop around it.
NoExits(cmds) == \A k \in CommandsIn("leaving", cmds) : k.op \notin {"break", "continue"}

\* What alternatives leave by when none leaves.
LEMMA JoinedStays ==
  ASSUME NEW ws, NEW out, NEW live, NEW r, r = Joined(ws, out, live), \A w \in ws : w.brk = {} /\ w.cont = {}
  PROVE  r.brk = {} /\ r.cont = {}
BY DEF Joined

\* A walk over such commands leaves no loop.
LEMMA WalkStays ==
  ASSUME NEW C, NEW flow \in Flows(C), NEW cmds \in Seq(C), NEW in \in SUBSET Bindings,
         \A k \in DOMAIN cmds : \A e \in SUBSET Bindings :
           flow[cmds[k]][e].brk = {} /\ flow[cmds[k]][e].cont = {}
  PROVE  seq(flow, cmds, in).brk = {} /\ seq(flow, cmds, in).cont = {}
<1> DEFINE w == Walk(flow, cmds, in)
           P == {i \in 0..Len(cmds) : w[i].brk = {} /\ w[i].cont = {}}
<1>1. IsWalk(w, flow, cmds, in) /\ Len(cmds) \in Nat
  BY WalkIs
<1> HIDE DEF w
<1>2. 0 \in P
  BY <1>1 DEF IsWalk, Walked
<1>3. \A i \in 0..(Len(cmds) - 1) : i \in P => i + 1 \in P
  <2> SUFFICES ASSUME NEW i \in 0..(Len(cmds) - 1), w[i].brk = {}, w[i].cont = {}
               PROVE  w[i + 1].brk = {} /\ w[i + 1].cont = {}
    BY <1>1
  <2>1. i + 1 \in 1..Len(cmds) /\ (i + 1) - 1 = i /\ i \in 0..Len(cmds) /\ i + 1 \in DOMAIN cmds
    BY <1>1
  <2>2. w[i].out \in SUBSET Bindings
    BY <1>1, <2>1 DEF IsWalk, Results
  <2> DEFINE b == flow[cmds[i + 1]][w[i].out]
  <2>3. b.brk = {} /\ b.cont = {}
    BY <2>1, <2>2
  <2>4. w[i + 1] = IF w[i].live THEN Then(w[i], b) ELSE w[i]
    BY <1>1, <2>1 DEF IsWalk
  <2> HIDE DEF b
  <2>5. QED
    BY <2>3, <2>4 DEF Then
<1>4. Len(cmds) \in P
  <2> DEFINE n == Len(cmds)
  <2>1. n \in Nat /\ n \in 0..n /\ \A i \in 0..(n - 1) : i \in P => i + 1 \in P
    BY <1>1, <1>3
  <2> HIDE DEF P, n
  <2>2. 0..n \subseteq P
    BY <1>2, <2>1, UpTo
  <2>3. QED
    BY <2>1, <2>2 DEF n
<1>5. QED
  BY <1>4 DEF seq, w

\* Nor does the walk of a body with nothing in it that leaves a loop.
LEMMA BodyStays ==
  ASSUME NEW d \in 0..Depth, NEW cmds \in Seq(Commands[d]), NoExits(cmds), NEW in \in SUBSET Bindings
  PROVE  seq(Flow[d], cmds, in).brk = {} /\ seq(Flow[d], cmds, in).cont = {}
<1> DEFINE Stays(e, b) == \A i \in SUBSET Bindings : Flow[e][b][i].brk = {} /\ Flow[e][b][i].cont = {}
           Clean(b) == \A k \in Seen("leaving", b) : k.op \notin {"break", "continue"}
           P == {e \in 0..Depth : \A b \in Commands[e] : Clean(b) => Stays(e, b)}
<1>0. "leaving" \in Views
  BY DEF Views
<1>1. ASSUME NEW e \in 0..Depth, NEW b \in Commands[e], b \in Simple, Clean(b) PROVE Stays(e, b)
  <2> SUFFICES ASSUME NEW i \in SUBSET Bindings
               PROVE  Flow[e][b][i].brk = {} /\ Flow[e][b][i].cont = {}
    OBVIOUS
  <2>1. b \in Seen("leaving", b)
    BY <1>0, InParts
  <2>2. b.op \in {"set", "incr", "use", "return"}
    BY <1>1, <2>1, SimpleIs
  <2>3. PICK flow : Flow[e][b][i] = command(flow, b, i)
    BY FlowTyped
  <2>4. QED
    BY <2>2, <2>3 DEF command, Walked, ConservativeHeads, ArmLists, LoopHeads
<1>2. 0 \in P
  <2>1. \A b \in Commands[0] : b \in Simple
    BY CommandsIs, DepthAssumption
  <2> HIDE DEF Stays, Clean
  <2>2. QED
    BY <1>1, <2>1, DepthAssumption
<1>3. \A e \in 0..(Depth - 1) : e \in P => e + 1 \in P
  <2> SUFFICES ASSUME NEW e \in 0..(Depth - 1), e \in P, NEW b \in Commands[e + 1], Clean(b)
               PROVE  Stays(e + 1, b)
    <3> HIDE DEF Stays, Clean
    <3>1. QED
      BY DepthAssumption
  <2> SUFFICES ASSUME NEW i \in SUBSET Bindings
               PROVE  Flow[e + 1][b][i].brk = {} /\ Flow[e + 1][b][i].cont = {}
    OBVIOUS
  <2>1. e \in 0..Depth /\ e + 1 \in 0..Depth /\ e + 1 # 0 /\ (e + 1) - 1 = e
    BY DepthAssumption
  <2>2. Flow[e + 1][b][i] = command(Flow[e], b, i) /\ Flow[e] \in Flows(Commands[e])
    BY <2>1, FlowTyped
  <2>3. CASE b \in Simple
    BY <1>1, <2>1, <2>3
  <2>4. CASE b \notin Simple /\ b.op \in LoopHeads
    <3>1. command(Flow[e], b, i) = analyzeLoop(Flow[e], b, i)
      BY <2>4 DEF command, ConservativeHeads, ArmLists, LoopHeads
    <3>2. QED
      BY <2>2, <3>1 DEF analyzeLoop, Walked
  <2>5. CASE b \notin Simple /\ b.op \notin LoopHeads
    <3>1. b.bodies \in Seq(Seq(Commands[e])) /\ b.op \in {"if", "ifelse"} \cup ConservativeHeads
      BY <2>1, <2>5, Parts
    <3>2. ASSUME NEW body \in ToSet(b.bodies), NEW in2 \in SUBSET Bindings
          PROVE  seq(Flow[e], body, in2).brk = {} /\ seq(Flow[e], body, in2).cont = {}
      <4>1. body \in Seq(Commands[e])
        BY <3>1 DEF ToSet
      <4>2. body \in Opened("leaving", b)
        BY <2>5 DEF Opened
      <4>3. CommandsIn("leaving", body) \subseteq Seen("leaving", b)
        BY <1>0, <2>1, <4>2, InParts
      <4>4. ASSUME NEW k \in DOMAIN body PROVE Stays(e, body[k])
        <5>1. body[k] \in Commands[e] /\ Seen("leaving", body[k]) \subseteq CommandsIn("leaving", body)
          BY <1>0, <2>1, <4>1, InBody
        <5>2. Clean(body[k])
          BY <4>3, <5>1
        <5> HIDE DEF Clean, Stays
        <5>3. QED
          BY <5>1, <5>2
      <4>5. QED
        BY <2>2, <4>1, <4>4, WalkStays
    <3>3. ASSUME NEW in2 \in SUBSET Bindings, NEW w \in Ends(Flow[e], b, in2) PROVE w.brk = {} /\ w.cont = {}
      BY <3>2 DEF Ends
    <3>4. CASE b.op \in {"if", "ifelse"}
      <4>1. command(Flow[e], b, i) = analyzeIf(Flow[e], b, i)
        BY <3>4 DEF command, ConservativeHeads, ArmLists, LoopHeads
      <4> DEFINE ends == Ends(Flow[e], b, i)
                 live == {w \in ends : w.live}
                 out == (IF b.op = "if" THEN i ELSE {}) \cup UNION {w.out : w \in live}
                 may == b.op = "if" \/ live # {}
      <4>2. \A w \in ends : w.brk = {} /\ w.cont = {}
        BY <3>3
      <4>3. Flow[e + 1][b][i] = Joined(ends, out, may)
        BY <2>2, <4>1 DEF analyzeIf
      <4> HIDE DEF ends, out, may
      <4>4. QED
        BY <4>2, <4>3, JoinedStays
    <3>5. CASE b.op \in ConservativeHeads
      <4>1. command(Flow[e], b, i) = analyzeConservative(Flow[e], b, i)
        BY <3>5 DEF command, ConservativeHeads, ArmLists, LoopHeads
      <4>2. View(b, i) \in SUBSET Bindings
        BY <2>1, <2>5, ViewTyped
      <4> DEFINE ends == IF b.op \in ArmLists THEN {} ELSE Ends(Flow[e], b, View(b, i))
                 out == View(b, i)
                 may == TRUE
      <4>3. \A w \in ends : w.brk = {} /\ w.cont = {}
        BY <3>3, <4>2
      <4>4. Flow[e + 1][b][i] = Joined(ends, out, may)
        BY <2>2, <4>1 DEF analyzeConservative, View
      <4> HIDE DEF ends, out, may
      <4>5. QED
        BY <4>3, <4>4, JoinedStays
    <3>6. QED
      BY <3>1, <3>4, <3>5
  <2>6. QED
    BY <2>3, <2>4, <2>5
<1>4. 0..Depth \subseteq P
  <2> HIDE DEF P
  <2>1. QED
    BY <1>2, <1>3, UpTo, DepthAssumption
<1>5. \A k \in DOMAIN cmds : Stays(d, cmds[k])
  <2> TAKE k \in DOMAIN cmds
  <2>1. cmds[k] \in Commands[d] /\ Seen("leaving", cmds[k]) \subseteq CommandsIn("leaving", cmds)
    BY <1>0, InBody
  <2>2. Clean(cmds[k])
    BY <2>1 DEF NoExits
  <2> HIDE DEF Clean, Stays
  <2>3. QED
    BY <1>4, <2>1, <2>2
<1>6. Flow[d] \in Flows(Commands[d])
  BY FlowTyped
<1>7. QED
  BY <1>5, <1>6, WalkStays

\* What comes round in a loop.
Round(d, c, in) == Settled(Flow[d - 1], c, LoopEntry(c, in)).out

\* A while covers its entry, its first pass and every later one.
LEMMA WhileDoes ==
  ASSUME NEW d \in 0..Depth, NEW c \in Commands[d], NEW in \in SUBSET Bindings, c.op = "while"
  PROVE  LET r == Flow[d][c][in]
             first == seq(Flow[d - 1], c.bodies[1], in)
             again == seq(Flow[d - 1], c.bodies[1], Round(d, c, in))
         IN  /\ r.live /\ in \subseteq Round(d, c, in) /\ Round(d, c, in) \subseteq r.out
             /\ Round(d, c, in) \in SUBSET Bindings /\ Len(c.bodies) = 1
             /\ first.live => first.out \subseteq Round(d, c, in)
             /\ again.live => again.out \subseteq Round(d, c, in)
             /\ first.brk \subseteq r.out /\ again.brk \subseteq r.out
             /\ first.cont \subseteq Round(d, c, in) /\ again.cont \subseteq Round(d, c, in)
             /\ first.noted \subseteq r.noted
<1> DEFINE flow == Flow[d - 1]
           fix == Settled(flow, c, LoopEntry(c, in))
           r == Flow[d][c][in]
<1>1. c \notin Simple /\ d # 0 /\ d - 1 \in 0..Depth /\ Len(c.bodies) = 1 /\ c.op \in LoopHeads
  BY Heads, Parts DEF LoopHeads
<1>2. flow \in Flows(Commands[d - 1])
  BY <1>1, FlowTyped
<1>3. r = analyzeLoop(flow, c, in)
  <2>1. r = command(flow, c, in)
    BY <1>1, FlowTyped
  <2> HIDE DEF flow, r
  <2>2. QED
    BY <2>1 DEF command, ConservativeHeads, ArmLists, LoopHeads
<1>4. LoopEntry(c, in) = in /\ Block(c) = c.bodies[1]
  BY DEF LoopEntry, Block
<1>5. Covered(flow, c, in, fix)
  BY <1>1, <1>2, <1>4, LoopTyped
<1>6. r = [Walked(fix.out \cup fix.brk, TRUE) EXCEPT !.noted = fix.noted]
  BY <1>3 DEF analyzeLoop
<1>7. r.live /\ r.out = fix.out \cup fix.brk /\ r.noted = fix.noted
  BY <1>6 DEF Walked
<1>8. Round(d, c, in) = fix.out
  BY DEF Round
<1>9. fix.out \in SUBSET Bindings
  BY <1>5 DEF Covered, Results
<1> HIDE DEF flow, fix, r
<1>10. QED
  BY <1>1, <1>4, <1>5, <1>7, <1>8, <1>9 DEF Covered, flow, r

\* First one, then the other.
LEMMA ThenIs ==
  ASSUME NEW w, NEW b
  PROVE  /\ Then(w, b).live = b.live /\ Then(w, b).out = b.out
         /\ Kept(w, Then(w, b)) /\ Kept(b, Then(w, b))
BY DEF Then, Kept

\* What a walk leaves by and notes grows along it, and dead is dead.
LEMMA WalkGrows ==
  ASSUME NEW C, NEW flow \in Flows(C), NEW cmds \in Seq(C), NEW in \in SUBSET Bindings,
         NEW j \in 0..Len(cmds), NEW k \in j..Len(cmds)
  PROVE  LET w == Walk(flow, cmds, in) IN Kept(w[j], w[k]) /\ (w[k].live => w[j].live)
<1> DEFINE w == Walk(flow, cmds, in)
           P == {i \in Nat : j + i <= Len(cmds) => Kept(w[j], w[j + i]) /\ (w[j + i].live => w[j].live)}
<1>1. IsWalk(w, flow, cmds, in) /\ Len(cmds) \in Nat
  BY WalkIs
<1> HIDE DEF w
<1>2. \A i \in 1..Len(cmds) : Kept(w[i - 1], w[i]) /\ (w[i].live => w[i - 1].live)
  <2> TAKE i \in 1..Len(cmds)
  <2>1. CASE w[i - 1].live
    <3>1. w[i] = Then(w[i - 1], flow[cmds[i]][w[i - 1].out])
      BY <1>1, <2>1 DEF IsWalk
    <3>2. QED
      BY <2>1, <3>1, ThenIs
  <2>2. CASE ~w[i - 1].live
    <3>1. w[i] = w[i - 1]
      BY <1>1, <2>2 DEF IsWalk
    <3>2. QED
      BY <3>1 DEF Kept
  <2>3. QED
    BY <2>1, <2>2
<1>3. 0 \in P
  BY DEF Kept
<1>4. \A i \in 0..((Len(cmds) - j) - 1) : i \in P => i + 1 \in P
  <2> SUFFICES ASSUME NEW i \in 0..((Len(cmds) - j) - 1), i \in P, j + (i + 1) <= Len(cmds)
               PROVE  Kept(w[j], w[j + (i + 1)]) /\ (w[j + (i + 1)].live => w[j].live)
    BY <1>1
  <2>1. j + (i + 1) \in 1..Len(cmds) /\ (j + (i + 1)) - 1 = j + i /\ j + i <= Len(cmds)
    BY <1>1
  <2>2. QED
    BY <1>2, <2>1 DEF Kept
<1>5. k - j \in P /\ j + (k - j) = k
  <2> HIDE DEF P
  <2>1. Len(cmds) - j \in Nat /\ k - j \in 0..(Len(cmds) - j) /\ j + (k - j) = k
    BY <1>1
  <2>2. 0..(Len(cmds) - j) \subseteq P
    BY <1>3, <1>4, <2>1, UpTo
  <2>3. QED
    BY <2>1, <2>2
<1>6. QED
  BY <1>5 DEF w

\* One step of a walk that is live does what the command does.
LEMMA WalkSteps ==
  ASSUME NEW C, NEW flow \in Flows(C), NEW cmds \in Seq(C), NEW in \in SUBSET Bindings,
         NEW k \in 1..Len(cmds), Walk(flow, cmds, in)[k - 1].live
  PROVE  LET w == Walk(flow, cmds, in)
             r == flow[cmds[k]][w[k - 1].out]
         IN  /\ w[k - 1] \in Results /\ w[k - 1].out \in SUBSET Bindings /\ cmds[k] \in C
             /\ r \in Results
             /\ w[k].live = r.live /\ w[k].out = r.out /\ Kept(r, w[k])
<1> DEFINE w == Walk(flow, cmds, in)
<1>1. IsWalk(w, flow, cmds, in)
  BY WalkIs
<1> HIDE DEF w
<1>2. w[k - 1] \in Results /\ cmds[k] \in C
  BY <1>1 DEF IsWalk
<1>3. w[k - 1].out \in SUBSET Bindings
  BY <1>2 DEF Results
<1>4. flow[cmds[k]][w[k - 1].out] \in Results
  BY <1>2, <1>3 DEF Flows
<1>5. w[k] = Then(w[k - 1], flow[cmds[k]][w[k - 1].out])
  BY <1>1 DEF IsWalk, w
<1> DEFINE r == flow[cmds[k]][w[k - 1].out]
<1>6. w[k].live = r.live /\ w[k].out = r.out /\ Kept(r, w[k])
  <2>1. w[k] = Then(w[k - 1], r)
    BY <1>5
  <2> HIDE DEF r
  <2>2. QED
    BY <2>1, ThenIs
<1>7. QED
  BY <1>2, <1>3, <1>4, <1>6 DEF w

----------------------------------------------------------------------------
(* The invariant.  To each body that runs belongs a visit of the analysis: *)
(* its depth and the set it was entered with.  The walk of the visit tells *)
(* at every point what the execution may find there.                       *)

Visits == [d : 0..Depth, in : SUBSET Bindings]

AllCommands == UNION {Commands[d] : d \in 0..Depth}
Kinds   == {"block", "arm", "catch"} \cup Pass
Passing == {"block", "arm"}   \* a break and a continue leave the loop around
Frames  == [kind : Kinds, cmds : Seq(AllCommands), pc : Nat \ {0}, loop : {"no", "entered", "again"}]

\* The walk of a body, at its end, before the command it is at and behind it.
WalkOf(f, v) == Walk(Flow[v.d], f.cmds, v.in)
EndOf(f, v)  == WalkOf(f, v)[Len(f.cmds)]
Before(f, v) == WalkOf(f, v)[f.pc - 1]
Behind(f, v) == WalkOf(f, v)[f.pc]

\* What the analysis has for the point the frame is at: between two passes of
\* a loop what comes round in it.
Here(f, v) == IF f.loop = "again" THEN Round(v.d, f.cmds[f.pc], Before(f, v).out) ELSE Before(f, v).out

\* What the execution may find there.
Known(f, v, p) == Here(f, v) \cup Lost(p)

BindsOf(f) == Bound("all", f.cmds)

FrameOK(f, v, p) ==
  /\ f.cmds \in Seq(Commands[v.d])
  /\ f.pc <= Len(f.cmds) + 1
  /\ f.loop \in {"no", "again"}
  /\ f.loop = "again" => f.pc <= Len(f.cmds) /\ f.cmds[f.pc].op = "while"
  /\ CommandsIn("all", f.cmds) \subseteq CommandsIn("all", p)

\* The body f ends, and the one below, fp, goes on, with a set that covers:
\* what f's walk ends with,
Falls(f, v, fp, vp) == EndOf(f, v).live => Before(fp, vp).live /\ EndOf(f, v).out \subseteq Here(fp, vp)

\* and of a pass what goes on and what leaves the loop;
Rounds(f, v, fp, vp) ==
  /\ fp.loop = "again" /\ Before(fp, vp).live
  /\ EndOf(f, v).cont \subseteq Here(fp, vp)
  /\ EndOf(f, v).brk \subseteq Behind(fp, vp).out

\* or whatever y is now and all that the bodies above may make of it.
Safe(s, g, p, i, y) ==
  /\ Before(s[i + 1], g[i + 1]).live
  /\ y \in Known(s[i + 1], g[i + 1], p)
  /\ \A j \in 1..i : BindsOf(s[j]) \subseteq Known(s[i + 1], g[i + 1], p)

Resumes(s, g, p, i, y) ==
  /\ s[i].kind = "block" => Safe(s, g, p, i, y) \/ Falls(s[i], g[i], s[i + 1], g[i + 1])
  /\ s[i].kind \in {"arm", "catch"} => Safe(s, g, p, i, y)
  /\ s[i].kind \in Pass => /\ Falls(s[i], g[i], s[i + 1], g[i + 1])
                           /\ Rounds(s[i], g[i], s[i + 1], g[i + 1])

\* What a body in no later pass and no list's arm notes is noted of the proc.
NotedOf(p) == seq(Flow[Depth], p, {Parameter}).noted
Notes(s, g, p, i) ==
  (\A j \in i..Len(s) : s[j].kind \notin {"later", "arm"}) => EndOf(s[i], g[i]).noted \subseteq NotedOf(p)

\* What leaves the body at i leaves, through blocks and arms, the one at k.
Leaving(s, g, i, k) ==
  (\A j \in i..(k - 1) : s[j].kind \in Passing) =>
     /\ EndOf(s[i], g[i]).brk \subseteq EndOf(s[k], g[k]).brk
     /\ EndOf(s[i], g[i]).cont \subseteq EndOf(s[k], g[k]).cont

Awaits(s, g, p, y) ==
  /\ s \in Seq(Frames) /\ g \in Seq(Visits) /\ Len(g) = Len(s)
  /\ \A i \in 1..Len(s) : FrameOK(s[i], g[i], p)
  /\ s # << >> => s[Len(s)].kind = "block"
  /\ \A i \in 1..(Len(s) - 1) : Resumes(s, g, p, i, y)
  /\ \A i \in 1..Len(s) : Notes(s, g, p, i)
  /\ \A k \in 1..Len(s) : \A i \in 1..k : Leaving(s, g, i, k)

\* The innermost body is at a point that the analysis covers.
Stands(s, g, p, y) == s # << >> => Before(s[1], g[1]).live /\ y \in Known(s[1], g[1], p)

NoFor(p) == \A c \in CommandsIn("all", p) : c.op \notin {"for", "foreach"}

Covers(s, p, y) == \E g : Awaits(s, g, p, y) /\ Stands(s, g, p, y)
ReachInv == program \in Programs /\ (NoFor(program) /\ ~ArmExits(program) => Covers(stack, program, x))

\* What is behind the first i bodies.
LEMMA SuffixIs ==
  ASSUME NEW S, NEW s \in Seq(S), NEW i \in 0..Len(s)
  PROVE  LET t == SubSeq(s, i + 1, Len(s))
         IN  /\ t \in Seq(S) /\ Len(t) = Len(s) - i
             /\ \A j \in 1..Len(t) : t[j] = s[j + i]
<1> DEFINE t == SubSeq(s, i + 1, Len(s))
<1>1. Len(s) \in Nat /\ t \in Seq(S)
  OBVIOUS
<1>2. Len(t) = Len(s) - i
  BY <1>1
<1>3. \A j \in 1..Len(t) : t[j] = s[j + i]
  BY <1>1, <1>2
<1>4. QED
  BY <1>1, <1>2, <1>3

\* A body put before the others.
LEMMA PrefixedIs ==
  ASSUME NEW S, NEW s \in Seq(S), NEW f \in S
  PROVE  LET t == <<f>> \o s
         IN  /\ t \in Seq(S) /\ Len(t) = Len(s) + 1 /\ t[1] = f
             /\ \A j \in 1..Len(s) : t[j + 1] = s[j]
             /\ t # << >>
OBVIOUS

\* The innermost body changed.
LEMMA HeadedIs ==
  ASSUME NEW S, NEW s \in Seq(S), s # << >>, NEW f \in S
  PROVE  LET t == <<f>> \o Tail(s)
         IN  /\ t \in Seq(S) /\ Len(t) = Len(s) /\ t[1] = f /\ t # << >>
             /\ \A j \in 2..Len(s) : t[j] = s[j]
             /\ Len(s) \in Nat \ {0} /\ s[1] = Head(s)
OBVIOUS

\* When bodies end, the others still wait.
LEMMA Dropped ==
  ASSUME NEW s, NEW g, NEW p, NEW y, Awaits(s, g, p, y), NEW i \in 0..Len(s)
  PROVE  Awaits(SubSeq(s, i + 1, Len(s)), SubSeq(g, i + 1, Len(g)), p, y)
<1> DEFINE t == SubSeq(s, i + 1, Len(s))
           h == SubSeq(g, i + 1, Len(g))
<1>1. s \in Seq(Frames) /\ g \in Seq(Visits) /\ Len(g) = Len(s) /\ Len(s) \in Nat
  BY DEF Awaits
<1>2. /\ t \in Seq(Frames) /\ Len(t) = Len(s) - i
      /\ \A j \in 1..Len(t) : t[j] = s[j + i]
  BY <1>1, SuffixIs
<1>3. /\ h \in Seq(Visits) /\ Len(h) = Len(t)
      /\ \A j \in 1..Len(t) : h[j] = g[j + i]
  BY <1>1, <1>2, SuffixIs
<1> HIDE DEF t, h
<1>4. \A j \in 1..Len(t) : j + i \in 1..Len(s)
  BY <1>1, <1>2
<1>5. \A j \in 1..Len(t) : FrameOK(t[j], h[j], p)
  BY <1>2, <1>3, <1>4 DEF Awaits
<1>6. t # << >> => t[Len(t)].kind = "block"
  <2> SUFFICES ASSUME t # << >> PROVE t[Len(t)].kind = "block"
    OBVIOUS
  <2>1. Len(t) \in 1..Len(t) /\ Len(t) + i = Len(s) /\ s # << >>
    BY <1>1, <1>2
  <2>2. QED
    BY <1>2, <2>1 DEF Awaits
<1>7. \A j \in 1..(Len(t) - 1) : Resumes(t, h, p, j, y)
  <2> TAKE j \in 1..(Len(t) - 1)
  <2>1. j \in 1..Len(t) /\ j + 1 \in 1..Len(t) /\ j + i \in 1..(Len(s) - 1) /\ (j + 1) + i = (j + i) + 1
    BY <1>1, <1>2
  <2>2. Resumes(s, g, p, j + i, y)
    BY <2>1 DEF Awaits
  <2>3. /\ t[j] = s[j + i] /\ h[j] = g[j + i]
        /\ t[j + 1] = s[(j + i) + 1] /\ h[j + 1] = g[(j + i) + 1]
    <3>1. t[j] = s[j + i] /\ h[j] = g[j + i] /\ t[j + 1] = s[(j + 1) + i] /\ h[j + 1] = g[(j + 1) + i]
      BY <1>2, <1>3, <2>1
    <3>2. QED
      BY <2>1, <3>1
  <2>4. Safe(s, g, p, j + i, y) => Safe(t, h, p, j, y)
    <3> SUFFICES ASSUME Safe(s, g, p, j + i, y), NEW m \in 1..j
                 PROVE  BindsOf(t[m]) \subseteq Known(t[j + 1], h[j + 1], p)
      BY <2>3 DEF Safe
    <3>1. m \in 1..Len(t) /\ m + i \in 1..(j + i)
      <4>1. i \in Nat /\ Len(t) \in Nat /\ j \in 1..Len(t) /\ m \in 1..j
        BY <1>1, <1>2, <2>1
      <4>2. QED
        BY <4>1
    <3>2. t[m] = s[m + i] /\ h[m] = g[m + i]
      BY <1>2, <1>3, <3>1
    <3>3. QED
      BY <2>3, <3>1, <3>2 DEF Safe
  <2>5. QED
    BY <2>2, <2>3, <2>4 DEF Resumes
<1>8. \A j \in 1..Len(t) : Notes(t, h, p, j)
  <2> TAKE j \in 1..Len(t)
  <2> SUFFICES ASSUME \A m \in j..Len(t) : t[m].kind \notin {"later", "arm"}
               PROVE  EndOf(t[j], h[j]).noted \subseteq NotedOf(p)
    BY DEF Notes
  <2>1. \A m \in (j + i)..Len(s) : s[m].kind \notin {"later", "arm"}
    <3> TAKE m \in (j + i)..Len(s)
    <3>1. m - i \in j..Len(t) /\ m - i \in 1..Len(t) /\ (m - i) + i = m
      BY <1>1, <1>2
    <3>2. QED
      BY <1>2, <3>1
  <2>2. Notes(s, g, p, j + i)
    BY <1>4 DEF Awaits
  <2>3. QED
    BY <1>2, <1>3, <2>1, <2>2 DEF Notes
<1>9. \A k \in 1..Len(t) : \A j \in 1..k : Leaving(t, h, j, k)
  <2> TAKE k \in 1..Len(t)
  <2> TAKE j \in 1..k
  <2>1. j \in 1..Len(t) /\ k + i \in 1..Len(s) /\ j + i \in 1..(k + i)
    BY <1>1, <1>2
  <2>2. ASSUME \A m \in j..(k - 1) : t[m].kind \in Passing
        PROVE  \A m \in (j + i)..((k + i) - 1) : s[m].kind \in Passing
    <3> TAKE m \in (j + i)..((k + i) - 1)
    <3>1. m - i \in j..(k - 1) /\ m - i \in 1..Len(t) /\ (m - i) + i = m
      BY <1>1, <1>2
    <3>2. QED
      BY <1>2, <2>2, <3>1
  <2>3. Leaving(s, g, j + i, k + i)
    BY <2>1 DEF Awaits
  <2>4. QED
    BY <1>2, <1>3, <2>1, <2>2, <2>3 DEF Leaving
<1>10. QED
  BY <1>2, <1>3, <1>5, <1>6, <1>7, <1>8, <1>9 DEF Awaits, t, h

\* When the innermost body goes on, the others wait as before.
LEMMA Headed ==
  ASSUME NEW s, NEW g, NEW p, NEW y, Awaits(s, g, p, y), s # << >>,
         NEW f \in Frames, f.cmds = s[1].cmds, f.kind = s[1].kind, FrameOK(f, g[1], p)
  PROVE  Awaits(<<f>> \o Tail(s), g, p, y)
<1> DEFINE t == <<f>> \o Tail(s)
<1>1. s \in Seq(Frames) /\ g \in Seq(Visits) /\ Len(g) = Len(s) /\ Len(s) \in Nat
  BY DEF Awaits
<1>2. /\ t \in Seq(Frames) /\ Len(t) = Len(s) /\ t[1] = f /\ t # << >>
      /\ \A j \in 2..Len(s) : t[j] = s[j]
      /\ Len(s) \in Nat \ {0}
  BY <1>1, HeadedIs
<1> HIDE DEF t
<1>3. \A j \in 1..Len(s) : t[j].cmds = s[j].cmds /\ t[j].kind = s[j].kind
  BY <1>2
<1>4. \A j \in 1..Len(s) : EndOf(t[j], g[j]) = EndOf(s[j], g[j]) /\ BindsOf(t[j]) = BindsOf(s[j])
  BY <1>3 DEF EndOf, WalkOf, BindsOf
<1>5. \A j \in 1..Len(t) : FrameOK(t[j], g[j], p)
  BY <1>2 DEF Awaits
<1>6. t[Len(t)].kind = "block"
  BY <1>2, <1>3 DEF Awaits
<1>7. \A j \in 1..(Len(t) - 1) : Resumes(t, g, p, j, y)
  <2> TAKE j \in 1..(Len(t) - 1)
  <2>1. j \in 1..Len(s) /\ j + 1 \in 2..Len(s) /\ j \in 1..(Len(s) - 1)
    BY <1>2
  <2>2. Resumes(s, g, p, j, y)
    BY <2>1 DEF Awaits
  <2>3. t[j + 1] = s[j + 1] /\ t[j].kind = s[j].kind /\ EndOf(t[j], g[j]) = EndOf(s[j], g[j])
    BY <1>2, <1>3, <1>4, <2>1
  <2>4. Safe(s, g, p, j, y) => Safe(t, g, p, j, y)
    <3> SUFFICES ASSUME Safe(s, g, p, j, y), NEW m \in 1..j
                 PROVE  BindsOf(t[m]) \subseteq Known(t[j + 1], g[j + 1], p)
      BY <2>3 DEF Safe
    <3>1. m \in 1..Len(s)
      BY <1>2, <2>1
    <3>2. QED
      BY <1>4, <2>3, <3>1 DEF Safe
  <2>5. QED
    BY <2>2, <2>3, <2>4 DEF Resumes, Falls, Rounds
<1>8. \A j \in 1..Len(t) : Notes(t, g, p, j)
  <2> TAKE j \in 1..Len(t)
  <2> SUFFICES ASSUME \A m \in j..Len(t) : t[m].kind \notin {"later", "arm"}
               PROVE  EndOf(t[j], g[j]).noted \subseteq NotedOf(p)
    BY DEF Notes
  <2>1. \A m \in j..Len(s) : s[m].kind \notin {"later", "arm"}
    <3> TAKE m \in j..Len(s)
    <3>1. m \in 1..Len(s) /\ m \in j..Len(t)
      BY <1>2
    <3>2. QED
      BY <1>3, <3>1
  <2>2. Notes(s, g, p, j)
    BY <1>2 DEF Awaits
  <2>3. QED
    BY <1>2, <1>4, <2>1, <2>2 DEF Notes
<1>9. \A k \in 1..Len(t) : \A j \in 1..k : Leaving(t, g, j, k)
  <2> TAKE k \in 1..Len(t)
  <2> TAKE j \in 1..k
  <2>1. j \in 1..Len(s) /\ k \in 1..Len(s)
    BY <1>2
  <2>2. ASSUME \A m \in j..(k - 1) : t[m].kind \in Passing
        PROVE  \A m \in j..(k - 1) : s[m].kind \in Passing
    <3> TAKE m \in j..(k - 1)
    <3>1. m \in 1..Len(s)
      BY <1>2, <2>1
    <3>2. QED
      BY <1>3, <2>2, <3>1
  <2>3. Leaving(s, g, j, k)
    BY <2>1 DEF Awaits
  <2>4. QED
    BY <1>4, <2>1, <2>2, <2>3 DEF Leaving
<1>10. QED
  BY <1>1, <1>2, <1>5, <1>6, <1>7, <1>8, <1>9 DEF Awaits, t

\* When the variable gets a binding that the innermost body makes.
LEMMA Rebound ==
  ASSUME NEW s, NEW g, NEW p, NEW y, Awaits(s, g, p, y), s # << >>, NEW z \in BindsOf(s[1])
  PROVE  Awaits(s, g, p, z)
<1>1. Len(s) \in Nat
  BY DEF Awaits
<1>2. ASSUME NEW j \in 1..(Len(s) - 1) PROVE Resumes(s, g, p, j, z)
  <2>1. Resumes(s, g, p, j, y)
    BY DEF Awaits
  <2>2. 1 \in 1..j
    BY <1>1
  <2>3. Safe(s, g, p, j, y) => Safe(s, g, p, j, z)
    BY <2>2 DEF Safe
  <2>4. QED
    BY <2>1, <2>3 DEF Resumes
<1>3. QED
  BY <1>2 DEF Awaits

\* A body that starts to run in the innermost one.
Starts(f, v, fp, vp, p, y) ==
  /\ BindsOf(f) \subseteq BindsOf(fp)
  /\ f.kind \notin {"later", "arm"} => EndOf(f, v).noted \subseteq EndOf(fp, vp).noted
  /\ f.kind \in Passing => /\ EndOf(f, v).brk \subseteq EndOf(fp, vp).brk
                           /\ EndOf(f, v).cont \subseteq EndOf(fp, vp).cont
  /\ \/ /\ f.kind \in {"block", "arm", "catch"}
        /\ Before(fp, vp).live /\ y \in Known(fp, vp, p) /\ BindsOf(f) \subseteq Known(fp, vp, p)
     \/ f.kind = "block" /\ Falls(f, v, fp, vp)
     \/ f.kind \in Pass /\ Falls(f, v, fp, vp) /\ Rounds(f, v, fp, vp)

\* A body that starts leaves those below it waiting as they were.
LEMMA Pushed ==
  ASSUME NEW s, NEW g, NEW p, NEW y, Awaits(s, g, p, y), s # << >>,
         NEW f \in Frames, NEW v \in Visits, FrameOK(f, v, p), Starts(f, v, s[1], g[1], p, y)
  PROVE  Awaits(<<f>> \o s, <<v>> \o g, p, y)
<1> DEFINE t == <<f>> \o s
           h == <<v>> \o g
<1>1. s \in Seq(Frames) /\ g \in Seq(Visits) /\ Len(g) = Len(s) /\ Len(s) \in Nat \ {0}
  BY DEF Awaits
<1>2. /\ t \in Seq(Frames) /\ Len(t) = Len(s) + 1 /\ t[1] = f /\ t # << >>
      /\ \A j \in 1..Len(s) : t[j + 1] = s[j]
  BY <1>1, PrefixedIs
<1>3. /\ h \in Seq(Visits) /\ Len(h) = Len(t) /\ h[1] = v
      /\ \A j \in 1..Len(s) : h[j + 1] = g[j]
  BY <1>1, <1>2, PrefixedIs
<1> HIDE DEF t, h
<1>4. \A j \in 1..Len(t) : j = 1 \/ j - 1 \in 1..Len(s)
  BY <1>1, <1>2
<1>5. \A j \in 1..Len(s) : t[j + 1] = s[j] /\ h[j + 1] = g[j]
  BY <1>2, <1>3
<1>6. \A j \in 2..Len(t) : j - 1 \in 1..Len(s) /\ t[j] = s[j - 1] /\ h[j] = g[j - 1]
  <2> TAKE j \in 2..Len(t)
  <2>1. j - 1 \in 1..Len(s) /\ (j - 1) + 1 = j
    BY <1>1, <1>2
  <2>2. QED
    BY <1>5, <2>1
<1>7. \A j \in 1..Len(t) : FrameOK(t[j], h[j], p)
  <2> TAKE j \in 1..Len(t)
  <2>1. CASE j = 1
    BY <1>2, <1>3, <2>1
  <2>2. CASE j # 1
    BY <1>1, <1>2, <1>6, <2>2 DEF Awaits
  <2>3. QED
    BY <2>1, <2>2
<1>8. t[Len(t)].kind = "block"
  <2>1. Len(s) \in 1..Len(s) /\ t[Len(s) + 1] = s[Len(s)]
    BY <1>1, <1>2
  <2>2. QED
    BY <1>2, <2>1 DEF Awaits
<1>9. t[2] = s[1] /\ h[2] = g[1] /\ 1 \in 1..Len(s)
  BY <1>1, <1>2, <1>6
<1>10. \A j \in 1..(Len(t) - 1) : Resumes(t, h, p, j, y)
  <2> TAKE j \in 1..(Len(t) - 1)
  <2>1. CASE j = 1
    <3>1. Resumes(t, h, p, 1, y)
      <4>1. t[1 + 1] = s[1] /\ h[1 + 1] = g[1] /\ t[1] = f /\ h[1] = v
        BY <1>2, <1>3, <1>9
      <4>2. (f.kind \in {"block", "arm", "catch"} /\ Before(s[1], g[1]).live /\ y \in Known(s[1], g[1], p)
               /\ BindsOf(f) \subseteq Known(s[1], g[1], p)) => Safe(t, h, p, 1, y)
        BY <4>1 DEF Safe
      <4>3. QED
        BY <4>1, <4>2 DEF Resumes, Starts, Pass
    <3>2. QED
      BY <2>1, <3>1
  <2>2. CASE j # 1
    <3>1. j - 1 \in 1..(Len(s) - 1) /\ j \in 2..Len(t) /\ j + 1 \in 2..Len(t) /\ (j - 1) + 1 = j /\ (j + 1) - 1 = j
      BY <1>1, <1>2, <2>2
    <3>2. Resumes(s, g, p, j - 1, y)
      BY <3>1 DEF Awaits
    <3>3. t[j] = s[j - 1] /\ h[j] = g[j - 1] /\ t[j + 1] = s[(j - 1) + 1] /\ h[j + 1] = g[(j - 1) + 1]
      BY <1>6, <3>1
    <3>4. Safe(s, g, p, j - 1, y) => Safe(t, h, p, j, y)
      <4> SUFFICES ASSUME Safe(s, g, p, j - 1, y), NEW m \in 1..j
                   PROVE  BindsOf(t[m]) \subseteq Known(t[j + 1], h[j + 1], p)
        BY <3>3 DEF Safe
      <4>1. CASE m = 1
        <5>1. 1 \in 1..(j - 1)
          BY <3>1
        <5>2. BindsOf(s[1]) \subseteq Known(t[j + 1], h[j + 1], p)
          BY <3>3, <5>1 DEF Safe
        <5>3. QED
          BY <1>2, <1>3, <4>1, <5>2 DEF Starts
      <4>2. CASE m # 1
        <5>1. m \in 2..Len(t) /\ m - 1 \in 1..(j - 1)
          BY <1>2, <3>1, <4>2
        <5>2. QED
          BY <1>6, <3>3, <5>1 DEF Safe
      <4>3. QED
        BY <4>1, <4>2
    <3>5. QED
      BY <3>2, <3>3, <3>4 DEF Resumes
  <2>3. QED
    BY <2>1, <2>2
<1>11. \A j \in 1..Len(t) : Notes(t, h, p, j)
  <2> TAKE j \in 1..Len(t)
  <2> SUFFICES ASSUME \A m \in j..Len(t) : t[m].kind \notin {"later", "arm"}
               PROVE  EndOf(t[j], h[j]).noted \subseteq NotedOf(p)
    BY DEF Notes
  <2>1. ASSUME NEW i \in 1..Len(s), j <= i + 1
        PROVE  EndOf(s[i], g[i]).noted \subseteq NotedOf(p)
    <3>1. \A m \in i..Len(s) : s[m].kind \notin {"later", "arm"}
      <4> TAKE m \in i..Len(s)
      <4>1. m \in 1..Len(s) /\ m + 1 \in j..Len(t)
        BY <1>1, <1>2, <2>1
      <4>2. QED
        BY <1>5, <4>1
    <3>2. QED
      BY <3>1 DEF Awaits, Notes
  <2>2. CASE j = 1
    <3>1. EndOf(s[1], g[1]).noted \subseteq NotedOf(p)
      BY <1>9, <2>1, <2>2
    <3>2. f.kind \notin {"later", "arm"}
      BY <1>2, <2>2
    <3>3. QED
      BY <1>2, <1>3, <2>2, <3>1, <3>2 DEF Starts
  <2>3. CASE j # 1
    <3>1. j \in 2..Len(t) /\ j - 1 \in 1..Len(s) /\ j <= (j - 1) + 1
      BY <1>1, <1>2, <2>3
    <3>2. QED
      BY <1>6, <2>1, <3>1
  <2>4. QED
    BY <2>2, <2>3
<1>12. \A k \in 1..Len(t) : \A j \in 1..k : Leaving(t, h, j, k)
  <2> TAKE k \in 1..Len(t)
  <2> TAKE j \in 1..k
  <2> SUFFICES ASSUME \A m \in j..(k - 1) : t[m].kind \in Passing
               PROVE  /\ EndOf(t[j], h[j]).brk \subseteq EndOf(t[k], h[k]).brk
                      /\ EndOf(t[j], h[j]).cont \subseteq EndOf(t[k], h[k]).cont
    BY DEF Leaving
  <2>1. CASE k = j
    BY <2>1
  <2>2. ASSUME NEW i \in 1..Len(s), j <= i + 1, i + 1 <= k
        PROVE  /\ EndOf(s[i], g[i]).brk \subseteq EndOf(t[k], h[k]).brk
               /\ EndOf(s[i], g[i]).cont \subseteq EndOf(t[k], h[k]).cont
    <3>1. k \in 2..Len(t) /\ k - 1 \in 1..Len(s) /\ i \in 1..(k - 1)
      BY <1>1, <1>2, <2>2
    <3>2. \A m \in i..((k - 1) - 1) : s[m].kind \in Passing
      <4> TAKE m \in i..((k - 1) - 1)
      <4>1. m \in 1..Len(s) /\ m + 1 \in j..(k - 1)
        BY <1>1, <1>2, <2>2, <3>1
      <4>2. QED
        BY <1>5, <4>1
    <3>3. t[k] = s[k - 1] /\ h[k] = g[k - 1]
      BY <1>6, <3>1
    <3>4. Leaving(s, g, i, k - 1)
      BY <3>1 DEF Awaits
    <3>5. QED
      BY <3>2, <3>3, <3>4 DEF Leaving
  <2>3. CASE k # j /\ j = 1
    <3>1. f.kind \in Passing
      BY <1>2, <2>3
    <3>2. 1 <= k /\ 1 + 1 <= k /\ 1 <= 1 + 1
      BY <2>3
    <3>3. /\ EndOf(s[1], g[1]).brk \subseteq EndOf(t[k], h[k]).brk
          /\ EndOf(s[1], g[1]).cont \subseteq EndOf(t[k], h[k]).cont
      BY <1>9, <2>2, <2>3, <3>2
    <3>4. QED
      BY <1>2, <1>3, <2>3, <3>1, <3>3 DEF Starts
  <2>4. CASE j # 1
    <3>1. j \in 2..Len(t) /\ j - 1 \in 1..Len(s) /\ j <= (j - 1) + 1 /\ (j - 1) + 1 <= k
      BY <1>1, <1>2, <2>4
    <3>2. QED
      BY <1>6, <2>2, <3>1
  <2>5. QED
    BY <2>1, <2>3, <2>4
<1>13. QED
  BY <1>2, <1>3, <1>7, <1>8, <1>10, <1>11, <1>12 DEF Awaits, t, h

----------------------------------------------------------------------------
(* Bodies and the commands they are at.                                    *)

\* What the innermost body is at and what the analysis makes of it.
LEMMA AtCommand ==
  ASSUME NEW f \in Frames, NEW v \in Visits, NEW p, FrameOK(f, v, p), NoFor(p),
         f.pc <= Len(f.cmds), Before(f, v).live
  PROVE  LET c == f.cmds[f.pc]
             e == Before(f, v).out
             r == Flow[v.d][c][e]
         IN  /\ v.d \in 0..Depth /\ c \in Commands[v.d] /\ e \in SUBSET Bindings
             /\ c.op \notin {"for", "foreach"}
             /\ Seen("all", c) \subseteq CommandsIn("all", f.cmds)
             /\ c \in CommandsIn("all", f.cmds) /\ c \in CommandsIn("all", p)
             /\ Behind(f, v).live = r.live /\ Behind(f, v).out = r.out
             /\ Kept(r, EndOf(f, v))
             /\ c.op # "while" => Here(f, v) = e
             /\ f.loop = "again" => c.op = "while" /\ Here(f, v) = Round(v.d, c, e)
<1> DEFINE c == f.cmds[f.pc]
           e == Before(f, v).out
           r == Flow[v.d][c][e]
<1>1. v.d \in 0..Depth /\ v.in \in SUBSET Bindings /\ f.pc \in Nat \ {0}
  BY DEF Visits, Frames
<1>2. f.cmds \in Seq(Commands[v.d]) /\ Flow[v.d] \in Flows(Commands[v.d])
  BY <1>1, FlowTyped DEF FrameOK
<1>3. f.pc \in 1..Len(f.cmds) /\ Len(f.cmds) \in Nat /\ Len(f.cmds) \in f.pc..Len(f.cmds) /\ f.pc \in 0..Len(f.cmds)
  BY <1>1, <1>2
<1>4. WalkOf(f, v)[f.pc - 1].live
  BY DEF Before
<1>5. /\ e \in SUBSET Bindings /\ c \in Commands[v.d]
      /\ Behind(f, v).live = r.live /\ Behind(f, v).out = r.out /\ Kept(r, Behind(f, v))
  <2>1. Walk(Flow[v.d], f.cmds, v.in)[f.pc - 1].live
    BY <1>4 DEF WalkOf
  <2> DEFINE C == Commands[v.d]
             flow == Flow[v.d]
             cmds == f.cmds
             in == v.in
             k == f.pc
             w == Walk(flow, cmds, in)
  <2>2. Before(f, v) = w[k - 1] /\ Behind(f, v) = w[k] /\ c = cmds[k]
    BY DEF Before, Behind, WalkOf
  <2>3. w[k - 1].live /\ flow \in Flows(C) /\ cmds \in Seq(C) /\ in \in SUBSET Bindings /\ k \in 1..Len(cmds)
    BY <1>1, <1>2, <1>3, <2>1
  <2>4. /\ w[k - 1].out \in SUBSET Bindings /\ cmds[k] \in C
        /\ w[k].live = flow[cmds[k]][w[k - 1].out].live /\ w[k].out = flow[cmds[k]][w[k - 1].out].out
        /\ Kept(flow[cmds[k]][w[k - 1].out], w[k])
    <3> HIDE DEF C, flow, cmds, in, k
    <3>1. QED
      BY <2>3, WalkSteps
  <2>5. QED
    BY <2>2, <2>4
<1>6. Kept(Behind(f, v), EndOf(f, v))
  BY <1>1, <1>2, <1>3, WalkGrows DEF WalkOf, Behind, EndOf
<1> HIDE DEF r
<1>7. Kept(r, EndOf(f, v))
  BY <1>5, <1>6 DEF Kept
<1>8. /\ Seen("all", c) \subseteq CommandsIn("all", f.cmds)
      /\ c \in CommandsIn("all", f.cmds) /\ c \in CommandsIn("all", p)
  <2>1. "all" \in Views /\ f.pc \in DOMAIN f.cmds
    BY <1>2, <1>3 DEF Views
  <2>2. Seen("all", c) \subseteq CommandsIn("all", f.cmds) /\ c \in CommandsIn("all", f.cmds)
    BY <1>1, <1>2, <2>1, InBody
  <2>3. QED
    BY <2>2 DEF FrameOK
<1>9. c.op \notin {"for", "foreach"}
  BY <1>8 DEF NoFor
<1>10. /\ f.loop = "again" => c.op = "while" /\ Here(f, v) = Round(v.d, c, e)
       /\ c.op # "while" => Here(f, v) = e
  BY DEF FrameOK, Here
<1>11. QED
  BY <1>1, <1>5, <1>7, <1>8, <1>9, <1>10 DEF r

\* The body behind the command it is at.
LEMMA PastIs ==
  ASSUME NEW f \in Frames, NEW v, NEW p, FrameOK(f, v, p), f.pc <= Len(f.cmds)
  PROVE  /\ Past(f) \in Frames /\ Past(f).cmds = f.cmds /\ Past(f).kind = f.kind
         /\ FrameOK(Past(f), v, p)
         /\ Before(Past(f), v) = Behind(f, v) /\ Here(Past(f), v) = Behind(f, v).out
         /\ EndOf(Past(f), v) = EndOf(f, v) /\ BindsOf(Past(f)) = BindsOf(f)
<1>1. f.pc \in Nat \ {0} /\ Len(f.cmds) \in Nat
  BY DEF Frames, FrameOK
<1>2. /\ Past(f) \in Frames /\ Past(f).cmds = f.cmds /\ Past(f).kind = f.kind
      /\ Past(f).pc = f.pc + 1 /\ Past(f).loop = "no"
  <2>1. f.pc + 1 \in Nat \ {0}
    BY <1>1
  <2>2. Past(f) = [f EXCEPT !.pc = f.pc + 1, !.loop = "no"]
    BY DEF Past
  <2>3. QED
    BY <2>1, <2>2 DEF Frames
<1>3. Past(f).pc - 1 = f.pc
  BY <1>1, <1>2
<1>4. FrameOK(Past(f), v, p)
  BY <1>1, <1>2 DEF FrameOK
<1>5. WalkOf(Past(f), v) = WalkOf(f, v)
  BY <1>2 DEF WalkOf
<1>6. QED
  BY <1>2, <1>3, <1>4, <1>5 DEF Before, Behind, Here, EndOf, BindsOf

\* The loop whose next pass is one again.
AtAgain(f) == [f EXCEPT !.loop = "again"]

\* The analysis sees the same of it, but what has come round.
LEMMA AgainIs ==
  ASSUME NEW f \in Frames, NEW v, NEW p, FrameOK(f, v, p), f.pc <= Len(f.cmds), f.cmds[f.pc].op = "while"
  PROVE  /\ AtAgain(f) \in Frames /\ AtAgain(f).cmds = f.cmds /\ AtAgain(f).kind = f.kind
         /\ AtAgain(f).loop = "again"
         /\ FrameOK(AtAgain(f), v, p)
         /\ Before(AtAgain(f), v) = Before(f, v) /\ Behind(AtAgain(f), v) = Behind(f, v)
         /\ Here(AtAgain(f), v) = Round(v.d, f.cmds[f.pc], Before(f, v).out)
         /\ EndOf(AtAgain(f), v) = EndOf(f, v) /\ BindsOf(AtAgain(f)) = BindsOf(f)
<1>1. /\ AtAgain(f) \in Frames /\ AtAgain(f).cmds = f.cmds /\ AtAgain(f).kind = f.kind
      /\ AtAgain(f).pc = f.pc /\ AtAgain(f).loop = "again"
  BY DEF AtAgain, Frames
<1>2. FrameOK(AtAgain(f), v, p)
  BY <1>1 DEF FrameOK
<1>3. WalkOf(AtAgain(f), v) = WalkOf(f, v)
  BY <1>1 DEF WalkOf
<1>4. QED
  BY <1>1, <1>2, <1>3 DEF Before, Behind, Here, EndOf, BindsOf

\* The frame is at a command that the analysis comes to,
At(f, v, p) ==
  /\ f \in Frames /\ v \in Visits /\ FrameOK(f, v, p) /\ NoFor(p)
  /\ f.pc <= Len(f.cmds) /\ Before(f, v).live

\* and it is one that has bodies.
Entering(c) == c.op \in {"if", "ifelse", "while"} \cup ConservativeHeads

\* The frame b with the visit u of a body, entered with a set from f.
EnteredAs(b, u, f, v, p, body, in) ==
  /\ b \in Frames /\ u \in Visits /\ FrameOK(b, u, p)
  /\ BindsOf(b) = Bound("all", body) /\ BindsOf(b) \subseteq BindsOf(f)
  /\ Before(b, u).live /\ Here(b, u) = in
  /\ EndOf(b, u) = seq(Flow[v.d - 1], body, in)

\* A body of the command, entered with a set.
LEMMA EnteredIs ==
  ASSUME NEW f, NEW v, NEW p, At(f, v, p), NEW c, c = f.cmds[f.pc], Entering(c),
         NEW i \in DOMAIN c.bodies, NEW in \in SUBSET Bindings,
         NEW kind \in Kinds,
         NEW b, b = Frame(kind, c.bodies[i]), NEW u, u = [d |-> v.d - 1, in |-> in]
  PROVE  EnteredAs(b, u, f, v, p, c.bodies[i], in)
<1> DEFINE body == c.bodies[i]
<1>1. v.d \in 0..Depth /\ c \in Commands[v.d] /\ Seen("all", c) \subseteq CommandsIn("all", f.cmds)
  BY AtCommand DEF At
<1>2. c \notin Simple
  BY <1>1, Heads DEF Entering, LoopHeads
<1>3. v.d - 1 \in 0..Depth /\ v.d # 0 /\ body \in Seq(Commands[v.d - 1])
  BY <1>1, <1>2, Parts, BodiesTyped
<1>4. CommandsIn("all", body) \subseteq CommandsIn("all", f.cmds)
  <2>1. "all" \in Views
    BY DEF Views
  <2>2. QED
    BY <1>1, <2>1, InParts
<1>5. u \in Visits /\ u.d = v.d - 1 /\ u.in = in
  BY <1>3 DEF Visits
<1>6. body \in Seq(AllCommands)
  <2>1. Commands[v.d - 1] \subseteq AllCommands
    BY <1>3 DEF AllCommands
  <2> HIDE DEF body
  <2>2. QED
    BY <1>3, <2>1
<1>7. b.kind = kind /\ b.cmds = body /\ b.pc = 1 /\ b.loop = "no"
  BY DEF Frame
<1>8. b \in Frames
  BY <1>6 DEF Frame, Frames, Kinds
<1>9. Len(body) \in Nat
  BY <1>3
<1>10. FrameOK(b, u, p)
  <2>1. FrameOK(f, v, p)
    BY DEF At
  <2> HIDE DEF body
  <2>2. QED
    BY <1>3, <1>4, <1>5, <1>7, <1>9, <2>1 DEF FrameOK
<1>11. BindsOf(b) = Bound("all", body)
  BY <1>5, <1>7 DEF BindsOf
<1>12. BindsOf(b) \subseteq BindsOf(f)
  BY <1>4, <1>11 DEF BindsOf, Bound
<1>13. Flow[v.d - 1] \in Flows(Commands[v.d - 1])
  BY <1>3, FlowTyped
<1>14. IsWalk(WalkOf(b, u), Flow[v.d - 1], body, in)
  BY <1>3, <1>5, <1>7, <1>13, WalkIs DEF WalkOf
<1>15. Before(b, u) = Walked(in, TRUE)
  <2>1. WalkOf(b, u)[0] = Walked(in, TRUE)
    BY <1>14 DEF IsWalk
  <2>2. b.pc - 1 = 0
    BY <1>7
  <2>3. QED
    BY <2>1, <2>2 DEF Before
<1>16. EndOf(b, u) = seq(Flow[v.d - 1], body, in)
  BY <1>5, <1>7 DEF EndOf, WalkOf, seq
<1>17. Before(b, u).live /\ Here(b, u) = in
  <2> HIDE DEF body
  <2>1. Before(b, u).live /\ Before(b, u).out = in
    BY <1>15 DEF Walked
  <2>2. b.loop = "no"
    BY <1>7
  <2>3. QED
    BY <2>1, <2>2 DEF Here
<1>18. QED
  BY <1>5, <1>8, <1>10, <1>11, <1>12, <1>16, <1>17 DEF EnteredAs

----------------------------------------------------------------------------
(* Steps.                                                                  *)

\* A command of one of these kinds is about to run.
LEMMA Runs ==
  ASSUME NEW g, Awaits(stack, g, program, x), Stands(stack, g, program, x), NEW ops, Running(ops)
  PROVE  /\ stack \in Seq(Frames) /\ stack # << >> /\ Head(stack) = stack[1] /\ Len(stack) \in Nat \ {0}
         /\ stack[1] \in Frames /\ g[1] \in Visits /\ FrameOK(stack[1], g[1], program)
         /\ stack[1].pc <= Len(stack[1].cmds)
         /\ Before(stack[1], g[1]).live /\ x \in Known(stack[1], g[1], program)
         /\ Current = stack[1].cmds[stack[1].pc] /\ Current.op \in ops
<1>1. stack # << >> /\ stack \in Seq(Frames) /\ g \in Seq(Visits) /\ Len(g) = Len(stack)
  BY DEF Running, Awaits
<1>2. Head(stack) = stack[1] /\ Len(stack) \in Nat \ {0} /\ 1 \in 1..Len(stack)
  BY <1>1
<1>3. stack[1] \in Frames /\ g[1] \in Visits /\ FrameOK(stack[1], g[1], program)
  BY <1>1, <1>2 DEF Awaits
<1>4. QED
  BY <1>1, <1>2, <1>3 DEF Running, Current, Stands

\* The innermost body goes on behind its command.
LEMMA Advances ==
  ASSUME NEW s, NEW g, NEW p, NEW y, Awaits(s, g, p, y), s # << >>, s[1].pc <= Len(s[1].cmds)
  PROVE  LET t == <<Past(s[1])>> \o Tail(s)
         IN  /\ Awaits(t, g, p, y) /\ t # << >> /\ t[1] = Past(s[1])
             /\ Behind(s[1], g[1]).live /\ y \in Behind(s[1], g[1]).out \cup Lost(p) => Stands(t, g, p, y)
<1> DEFINE t == <<Past(s[1])>> \o Tail(s)
<1>1. s \in Seq(Frames) /\ Len(s) \in Nat \ {0} /\ s[1] \in Frames /\ FrameOK(s[1], g[1], p)
  BY DEF Awaits
<1>2. /\ Past(s[1]) \in Frames /\ Past(s[1]).cmds = s[1].cmds /\ Past(s[1]).kind = s[1].kind
      /\ FrameOK(Past(s[1]), g[1], p)
      /\ Before(Past(s[1]), g[1]) = Behind(s[1], g[1]) /\ Here(Past(s[1]), g[1]) = Behind(s[1], g[1]).out
  BY <1>1, PastIs
<1>3. Awaits(t, g, p, y)
  BY <1>2, Headed
<1>4. t # << >> /\ t[1] = Past(s[1])
  BY <1>1, <1>2, HeadedIs
<1>5. QED
  BY <1>2, <1>3, <1>4 DEF Stands, Known

\* What a command without bodies does is said by command alone.
LEMMA FlowOf ==
  ASSUME NEW d \in 0..Depth, NEW c \in Commands[d], NEW e \in SUBSET Bindings
  PROVE  \E flow : Flow[d][c][e] = command(flow, c, e)
BY FlowTyped

\* A binding is all there is behind it.
LEMMA BindingDoes ==
  ASSUME NEW d \in 0..Depth, NEW c \in Commands[d], NEW e \in SUBSET Bindings, c.op \in {"set", "incr"}
  PROVE  Flow[d][c][e].live /\ Flow[d][c][e].out = {c.id}
<1>1. PICK flow : Flow[d][c][e] = command(flow, c, e)
  BY FlowOf
<1>2. CASE c.op = "set"
  BY <1>1, <1>2 DEF command, Walked, ConservativeHeads, ArmLists, LoopHeads
<1>3. CASE c.op = "incr"
  BY <1>1, <1>3 DEF command, Walked, ConservativeHeads, ArmLists, LoopHeads
<1>4. QED
  BY <1>2, <1>3

\* A use binds nothing.
LEMMA UseDoes ==
  ASSUME NEW d \in 0..Depth, NEW c \in Commands[d], NEW e \in SUBSET Bindings, c.op = "use"
  PROVE  Flow[d][c][e].live /\ Flow[d][c][e].out = e
<1>1. PICK flow : Flow[d][c][e] = command(flow, c, e)
  BY FlowOf
<1>2. QED
  BY <1>1 DEF command, Walked, ConservativeHeads, ArmLists, LoopHeads

\* What reads the variable notes what reaches it.
LEMMA ReadingNotes ==
  ASSUME NEW d \in 0..Depth, NEW c \in Commands[d], NEW e \in SUBSET Bindings, c.op \in {"use", "incr"}
  PROVE  <<c.id, e>> \in Flow[d][c][e].noted
<1>1. PICK flow : Flow[d][c][e] = command(flow, c, e)
  BY FlowOf
<1>2. QED
  BY <1>1 DEF command, Walked, ConservativeHeads, ArmLists, LoopHeads

\* A break leaves the loop with what reaches it,
LEMMA BreakDoes ==
  ASSUME NEW d \in 0..Depth, NEW c \in Commands[d], NEW e \in SUBSET Bindings, c.op = "break"
  PROVE  Flow[d][c][e].brk = e
<1>1. PICK flow : Flow[d][c][e] = command(flow, c, e)
  BY FlowOf
<1>2. QED
  BY <1>1 DEF command, Walked, ConservativeHeads, ArmLists, LoopHeads

\* and a continue goes on with it.
LEMMA ContinueDoes ==
  ASSUME NEW d \in 0..Depth, NEW c \in Commands[d], NEW e \in SUBSET Bindings, c.op = "continue"
  PROVE  Flow[d][c][e].cont = e
<1>1. PICK flow : Flow[d][c][e] = command(flow, c, e)
  BY FlowOf
<1>2. QED
  BY <1>1 DEF command, Walked, ConservativeHeads, ArmLists, LoopHeads

\* Bind: what is bound is what the analysis has behind it.
LEMMA BindKeeps ==
  ASSUME NoFor(program), Covers(stack, program, x), Bind
  PROVE  Covers(stack', program, x')
<1>1. PICK g : Awaits(stack, g, program, x) /\ Stands(stack, g, program, x)
  BY DEF Covers
<1> DEFINE f == stack[1]
           v == g[1]
           c == f.cmds[f.pc]
<1>2. Running({"set", "incr"})
  BY DEF Bind
<1>3. /\ stack # << >> /\ Head(stack) = f /\ f \in Frames /\ v \in Visits /\ FrameOK(f, v, program)
      /\ f.pc <= Len(f.cmds) /\ Before(f, v).live /\ Current = c /\ c.op \in {"set", "incr"}
  BY <1>1, <1>2, Runs
<1>4. /\ v.d \in 0..Depth /\ c \in Commands[v.d] /\ Before(f, v).out \in SUBSET Bindings
      /\ c \in CommandsIn("all", f.cmds)
      /\ Behind(f, v).live = Flow[v.d][c][Before(f, v).out].live
      /\ Behind(f, v).out = Flow[v.d][c][Before(f, v).out].out
  BY <1>3, AtCommand
<1>5. Behind(f, v).live /\ c.id \in Behind(f, v).out
  <2> DEFINE d == v.d
             e == Before(f, v).out
  <2>1. d \in 0..Depth /\ c \in Commands[d] /\ e \in SUBSET Bindings /\ c.op \in {"set", "incr"}
    BY <1>3, <1>4
  <2> HIDE DEF f, v, c, d, e
  <2>2. Flow[d][c][e].live /\ Flow[d][c][e].out = {c.id}
    BY <2>1, BindingDoes
  <2>3. QED
    BY <1>4, <2>2 DEF d, e
<1>6. c.id \in BindsOf(f)
  BY <1>3, <1>4 DEF BindsOf, Bound, Binding
<1>7. Awaits(stack, g, program, c.id)
  BY <1>1, <1>3, <1>6, Rebound
<1>8. /\ Awaits(<<Past(f)>> \o Tail(stack), g, program, c.id)
      /\ Stands(<<Past(f)>> \o Tail(stack), g, program, c.id)
  BY <1>3, <1>5, <1>7, Advances
<1>9. stack' = <<Past(f)>> \o Tail(stack) /\ x' = c.id
  BY <1>3 DEF Bind, Advanced
<1>10. QED
  BY <1>8, <1>9 DEF Covers

\* Read: nothing changes but the place.
LEMMA ReadKeeps ==
  ASSUME NoFor(program), Covers(stack, program, x), Read
  PROVE  Covers(stack', program, x')
<1>1. PICK g : Awaits(stack, g, program, x) /\ Stands(stack, g, program, x)
  BY DEF Covers
<1> DEFINE f == stack[1]
           v == g[1]
           c == f.cmds[f.pc]
<1>2. Running({"use"})
  BY DEF Read
<1>3. /\ stack # << >> /\ Head(stack) = f /\ f \in Frames /\ v \in Visits /\ FrameOK(f, v, program)
      /\ f.pc <= Len(f.cmds) /\ Before(f, v).live /\ x \in Known(f, v, program) /\ c.op = "use"
  BY <1>1, <1>2, Runs
<1>4. /\ v.d \in 0..Depth /\ c \in Commands[v.d] /\ Before(f, v).out \in SUBSET Bindings
      /\ Behind(f, v).live = Flow[v.d][c][Before(f, v).out].live
      /\ Behind(f, v).out = Flow[v.d][c][Before(f, v).out].out
      /\ Here(f, v) = Before(f, v).out
  BY <1>3, AtCommand
<1>5. Behind(f, v).live /\ x \in Behind(f, v).out \cup Lost(program)
  <2> HIDE DEF f, v, c
  <2>1. Flow[v.d][c][Before(f, v).out].live /\ Flow[v.d][c][Before(f, v).out].out = Before(f, v).out
    BY <1>3, <1>4, UseDoes
  <2>2. QED
    BY <1>3, <1>4, <2>1 DEF Known
<1>6. /\ Awaits(<<Past(f)>> \o Tail(stack), g, program, x)
      /\ Stands(<<Past(f)>> \o Tail(stack), g, program, x)
  BY <1>1, <1>3, <1>5, Advances
<1>7. stack' = <<Past(f)>> \o Tail(stack) /\ x' = x
  BY <1>3 DEF Read, Advanced
<1>8. QED
  BY <1>6, <1>7 DEF Covers

\* A body starts to run.
LEMMA PushCovers ==
  ASSUME NEW s, NEW g, NEW p, NEW y, Awaits(s, g, p, y), s # << >>,
         NEW b \in Frames, NEW u \in Visits, FrameOK(b, u, p), Starts(b, u, s[1], g[1], p, y),
         Before(b, u).live, y \in Known(b, u, p)
  PROVE  Covers(<<b>> \o s, p, y)
<1>1. Awaits(<<b>> \o s, <<u>> \o g, p, y)
  BY Pushed
<1>2. (<<b>> \o s)[1] = b /\ (<<u>> \o g)[1] = u
  BY DEF Awaits
<1>3. Stands(<<b>> \o s, <<u>> \o g, p, y)
  BY <1>2 DEF Stands
<1>4. QED
  BY <1>1, <1>3 DEF Covers

\* The forms of an if and of a switch.
Forms == {"if", "ifelse", "switchwords"} \cup ArmLists

\* What leaves an arm of a list leaves no loop around it.
LEMMA ArmStays ==
  ASSUME ~ArmExits(program), NEW d \in 0..Depth, NEW c \in Commands[d], c \in CommandsIn("all", program),
         c.op \in ArmLists, NEW i \in DOMAIN c.bodies, NEW in \in SUBSET Bindings
  PROVE  seq(Flow[d - 1], c.bodies[i], in).brk = {} /\ seq(Flow[d - 1], c.bodies[i], in).cont = {}
<1>1. c \notin Simple
  BY Heads DEF ConservativeHeads
<1>2. d - 1 \in 0..Depth /\ c.bodies[i] \in Seq(Commands[d - 1]) /\ c.bodies[i] \in ToSet(c.bodies)
  BY <1>1, Parts, BodiesTyped
<1>3. NoExits(c.bodies[i])
  BY <1>2 DEF ArmExits, NoExits
<1>4. QED
  BY <1>2, <1>3, BodyStays

\* Branch: a branch starts, with what the analysis enters it with.  An arm of
\* a list starts above a place safe from all it may bind.
LEMMA BranchKeeps ==
  ASSUME NoFor(program), ~ArmExits(program), Covers(stack, program, x), Branch
  PROVE  Covers(stack', program, x')
<1>1. PICK g : Awaits(stack, g, program, x) /\ Stands(stack, g, program, x)
  BY DEF Covers
<1> DEFINE f == stack[1]
           v == g[1]
           c == f.cmds[f.pc]
           e == Before(f, v).out
           r == Flow[v.d][c][e]
           s == <<Past(f)>> \o Tail(stack)
           kind == IF c.op \in ArmLists THEN "arm" ELSE "block"
<1>2. Running(Forms)
  BY DEF Branch, Forms
<1>3. /\ stack # << >> /\ Head(stack) = f /\ f \in Frames /\ v \in Visits /\ FrameOK(f, v, program)
      /\ f.pc <= Len(f.cmds) /\ Before(f, v).live /\ x \in Known(f, v, program) /\ Current = c
      /\ c.op \in Forms
  BY <1>1, <1>2, Runs
<1>4. /\ v.d \in 0..Depth /\ c \in Commands[v.d] /\ e \in SUBSET Bindings
      /\ c \in CommandsIn("all", program)
      /\ Behind(f, v).live = r.live /\ Behind(f, v).out = r.out
      /\ Kept(r, EndOf(f, v)) /\ Here(f, v) = e
  BY <1>3, AtCommand DEF Forms, ArmLists
<1>5. /\ Awaits(s, g, program, x) /\ s # << >> /\ s[1] = Past(f)
      /\ r.live /\ x \in r.out \cup Lost(program) => Stands(s, g, program, x)
  BY <1>1, <1>3, <1>4, Advances
<1>6. /\ Before(Past(f), v) = Behind(f, v) /\ Here(Past(f), v) = Behind(f, v).out
      /\ EndOf(Past(f), v) = EndOf(f, v) /\ BindsOf(Past(f)) = BindsOf(f)
  BY <1>3, PastIs
<1>7. x' = x /\ (\/ \E i \in DOMAIN c.bodies : stack' = <<Frame(kind, c.bodies[i])>> \o s
                 \/ c.op # "ifelse" /\ stack' = s)
  BY <1>3 DEF Branch, Advanced, Enter
<1>8. x \in e \cup Lost(program)
  BY <1>3, <1>4 DEF Known
<1>9. c.op \in {"if", "ifelse"} \/ c.op \in ConservativeHeads
  BY <1>3 DEF Forms, ConservativeHeads
<1>10. At(f, v, program) /\ c = f.cmds[f.pc] /\ Entering(c)
  BY <1>3, <1>9 DEF At, Entering
<1> HIDE DEF f, v, c, e, r, s, kind
<1>11. c.op = "if" => r.live /\ e \subseteq r.out
  BY <1>4, IfDoes DEF r
<1>12. c.op \in ConservativeHeads => r.live /\ e \subseteq r.out /\ r.out \in SUBSET Bindings
  BY <1>4, ConservativeDoes DEF r
<1>13. CASE c.op # "ifelse" /\ stack' = s
  <2>1. Stands(s, g, program, x)
    BY <1>5, <1>8, <1>9, <1>11, <1>12, <1>13
  <2>2. QED
    BY <1>5, <1>7, <1>13, <2>1 DEF Covers
<1>14. ASSUME NEW i \in DOMAIN c.bodies, stack' = <<Frame(kind, c.bodies[i])>> \o s
       PROVE  Covers(stack', program, x')
  <2> DEFINE b == Frame(kind, c.bodies[i])
             in == IF c.op \in ConservativeHeads THEN r.out ELSE e
             u == [d |-> v.d - 1, in |-> in]
             end == seq(Flow[v.d - 1], c.bodies[i], in)
  <2>1. in \in SUBSET Bindings /\ x \in in \cup Lost(program)
    BY <1>4, <1>8, <1>12
  <2>2. kind \in Passing /\ kind \in Kinds /\ (kind = "arm" <=> c.op \in ArmLists)
    BY DEF kind, Kinds, Passing
  <2> HIDE DEF in
  <2>3. /\ b \in Frames /\ u \in Visits /\ FrameOK(b, u, program) /\ b.kind = kind
        /\ BindsOf(b) = Bound("all", c.bodies[i]) /\ BindsOf(b) \subseteq BindsOf(f)
        /\ Before(b, u).live /\ Here(b, u) = in /\ EndOf(b, u) = end
    <3>1. b = Frame(kind, c.bodies[i]) /\ u = [d |-> v.d - 1, in |-> in]
      OBVIOUS
    <3>2. end = seq(Flow[v.d - 1], c.bodies[i], in) /\ b.kind = kind
      BY DEF Frame
    <3> HIDE DEF b, u, end
    <3>3. EnteredAs(b, u, f, v, program, c.bodies[i], in)
      BY <1>10, <2>1, <2>2, <3>1, EnteredIs
    <3>4. QED
      BY <3>2, <3>3 DEF EnteredAs
  <2>4. ASSUME c.op \notin ConservativeHeads
        PROVE  (end.live => r.live /\ end.out \subseteq r.out) /\ Kept(end, r)
    <3> DEFINE d == v.d
    <3>1. d \in 0..Depth /\ c \in Commands[d] /\ e \in SUBSET Bindings /\ r = Flow[d][c][e]
      BY <1>4 DEF r
    <3>2. in = e /\ c.op \in {"if", "ifelse"}
      BY <1>9, <2>4 DEF in
    <3>3. end = seq(Flow[d - 1], c.bodies[i], e)
      BY <3>2
    <3> HIDE DEF d, end
    <3>4. QED
      BY <3>1, <3>2, <3>3, IfDoes
  <2>5. ASSUME c.op \in ConservativeHeads
        PROVE  /\ BindsOf(b) \subseteq r.out \cup Lost(program)
               /\ c.op \notin ArmLists => Kept(end, r)
    <3> DEFINE d == v.d
    <3>1. d \in 0..Depth /\ c \in Commands[d] /\ e \in SUBSET Bindings /\ r = Flow[d][c][e]
      BY <1>4 DEF r
    <3>2. end = seq(Flow[d - 1], c.bodies[i], r.out)
      BY <2>5 DEF in
    <3> HIDE DEF d, end
    <3>3. Bound("all", c.bodies[i]) \subseteq r.out \cup Lost(program)
      BY <1>4, <2>5, <3>1, ConservativeDoes
    <3>4. c.op \notin ArmLists => Kept(seq(Flow[d - 1], c.bodies[i], r.out), r)
      BY <2>5, <3>1, ConservativeDoes
    <3>5. QED
      BY <2>3, <3>2, <3>3, <3>4
  <2>6. c.op \in ArmLists => end.brk = {} /\ end.cont = {}
    <3> DEFINE d == v.d
    <3>1. d \in 0..Depth /\ c \in Commands[d] /\ end = seq(Flow[d - 1], c.bodies[i], in)
      BY <1>4
    <3> HIDE DEF d, end
    <3>2. QED
      BY <1>4, <2>1, <3>1, ArmStays
  <2> HIDE DEF b, u, end
  <2>7. /\ b.kind \notin {"later", "arm"} => EndOf(b, u).noted \subseteq EndOf(Past(f), v).noted
        /\ EndOf(b, u).brk \subseteq EndOf(Past(f), v).brk
        /\ EndOf(b, u).cont \subseteq EndOf(Past(f), v).cont
    <3>1. CASE c.op \in ArmLists
      BY <2>2, <2>3, <2>6, <3>1
    <3>2. CASE c.op \notin ArmLists
      BY <1>4, <1>6, <2>3, <2>4, <2>5, <3>2 DEF Kept
    <3>3. QED
      BY <3>1, <3>2
  <2>8. Starts(b, u, Past(f), v, program, x)
    <3>1. CASE c.op \in ConservativeHeads
      <4>1. /\ Before(Past(f), v).live /\ x \in Known(Past(f), v, program)
            /\ BindsOf(b) \subseteq Known(Past(f), v, program)
        BY <1>4, <1>6, <1>8, <1>12, <2>5, <3>1 DEF Known
      <4>2. b.kind \in {"block", "arm", "catch"}
        BY <2>2, <2>3 DEF Passing
      <4>3. QED
        BY <1>6, <2>3, <2>7, <4>1, <4>2 DEF Starts
    <3>2. CASE c.op \notin ConservativeHeads
      <4>1. Falls(b, u, Past(f), v)
        BY <1>4, <1>6, <2>3, <2>4, <3>2 DEF Falls
      <4>2. b.kind = "block"
        BY <2>2, <2>3, <3>2 DEF Passing, ConservativeHeads
      <4>3. QED
        BY <1>6, <2>3, <2>7, <4>1, <4>2 DEF Starts
    <3>3. QED
      BY <3>1, <3>2
  <2>9. x \in Known(b, u, program)
    BY <2>1, <2>3 DEF Known
  <2>10. QED
    BY <1>5, <1>7, <1>14, <2>3, <2>8, <2>9, PushCovers DEF b, v
<1>15. QED
  BY <1>7, <1>13, <1>14

\* Catch: its body starts, above a place safe from all it may bind.
LEMMA CatchKeeps ==
  ASSUME NoFor(program), Covers(stack, program, x), Catch
  PROVE  Covers(stack', program, x')
<1>1. PICK g : Awaits(stack, g, program, x) /\ Stands(stack, g, program, x)
  BY DEF Covers
<1> DEFINE f == stack[1]
           v == g[1]
           c == f.cmds[f.pc]
           e == Before(f, v).out
           r == Flow[v.d][c][e]
           s == <<Past(f)>> \o Tail(stack)
<1>2. Running({"catch"})
  BY DEF Catch
<1>3. /\ stack # << >> /\ Head(stack) = f /\ f \in Frames /\ v \in Visits /\ FrameOK(f, v, program)
      /\ f.pc <= Len(f.cmds) /\ Before(f, v).live /\ x \in Known(f, v, program) /\ Current = c /\ c.op = "catch"
  BY <1>1, <1>2, Runs
<1>4. /\ v.d \in 0..Depth /\ c \in Commands[v.d] /\ e \in SUBSET Bindings
      /\ c \in CommandsIn("all", program)
      /\ Behind(f, v).live = r.live /\ Behind(f, v).out = r.out
      /\ Kept(r, EndOf(f, v)) /\ Here(f, v) = e
  BY <1>3, AtCommand
<1>5. Awaits(s, g, program, x) /\ s # << >> /\ s[1] = Past(f)
  BY <1>1, <1>3, Advances
<1>6. /\ Before(Past(f), v) = Behind(f, v) /\ Here(Past(f), v) = Behind(f, v).out
      /\ EndOf(Past(f), v) = EndOf(f, v) /\ BindsOf(Past(f)) = BindsOf(f)
  BY <1>3, PastIs
<1>7. x' = x /\ stack' = <<Frame("catch", c.bodies[1])>> \o s
  BY <1>3 DEF Catch, Advanced, Enter
<1>8. 1 \in DOMAIN c.bodies
  <2>1. c \notin Simple
    BY <1>3, <1>4, Heads DEF ConservativeHeads, ArmLists
  <2>2. Len(c.bodies) = 1 /\ c.bodies \in Seq(Seq(Commands[v.d - 1]))
    BY <1>3, <1>4, <2>1, Parts
  <2>3. QED
    BY <2>2
<1> DEFINE b == Frame("catch", c.bodies[1])
           u == [d |-> v.d - 1, in |-> r.out]
           end == seq(Flow[v.d - 1], c.bodies[1], r.out)
<1>9. At(f, v, program) /\ c = f.cmds[f.pc] /\ Entering(c) /\ "catch" \in Kinds
  BY <1>3 DEF At, Entering, ConservativeHeads, ArmLists, Kinds
<1> HIDE DEF f, v, c, e, r, s
<1>10. /\ r.live /\ e \subseteq r.out /\ r.out \in SUBSET Bindings
       /\ Bound("all", c.bodies[1]) \subseteq r.out \cup Lost(program) /\ Kept(end, r)
  <2> DEFINE d == v.d
  <2>1. d \in 0..Depth /\ c \in Commands[d] /\ e \in SUBSET Bindings /\ r = Flow[d][c][e]
    BY <1>4 DEF r
  <2>2. c.op \in ConservativeHeads /\ c.op \notin ArmLists
    BY <1>3 DEF ConservativeHeads, ArmLists
  <2> HIDE DEF d, end
  <2>3. r.live /\ e \subseteq r.out /\ r.out \in SUBSET Bindings
    BY <2>1, <2>2, ConservativeDoes
  <2>4. Bound("all", c.bodies[1]) \subseteq r.out \cup Lost(program)
    BY <1>4, <1>8, <2>1, <2>2, ConservativeDoes
  <2>5. Kept(seq(Flow[d - 1], c.bodies[1], r.out), r)
    BY <1>8, <2>1, <2>2, ConservativeDoes
  <2>6. QED
    BY <2>3, <2>4, <2>5 DEF d, end
<1>11. /\ b \in Frames /\ u \in Visits /\ FrameOK(b, u, program) /\ b.kind = "catch"
       /\ BindsOf(b) = Bound("all", c.bodies[1]) /\ BindsOf(b) \subseteq BindsOf(f)
       /\ Before(b, u).live /\ Here(b, u) = r.out /\ EndOf(b, u) = end
  <2>1. b = Frame("catch", c.bodies[1]) /\ u = [d |-> v.d - 1, in |-> r.out]
    OBVIOUS
  <2>2. end = seq(Flow[v.d - 1], c.bodies[1], r.out) /\ b.kind = "catch"
    BY DEF Frame
  <2>3. r.out \in SUBSET Bindings
    BY <1>10
  <2> HIDE DEF b, u, end
  <2>4. EnteredAs(b, u, f, v, program, c.bodies[1], r.out)
    BY <1>8, <1>9, <2>1, <2>3, EnteredIs
  <2>5. QED
    BY <2>2, <2>4 DEF EnteredAs
<1> HIDE DEF b, u, end
<1>12. Kept(EndOf(b, u), EndOf(Past(f), v))
  BY <1>4, <1>6, <1>10, <1>11 DEF Kept
<1>13. /\ Before(Past(f), v).live /\ x \in Known(Past(f), v, program)
       /\ BindsOf(b) \subseteq Known(Past(f), v, program)
  BY <1>3, <1>4, <1>6, <1>10, <1>11 DEF Known
<1>14. x \in Known(b, u, program)
  BY <1>3, <1>4, <1>10, <1>11 DEF Known
<1>15. Starts(b, u, s[1], g[1], program, x)
  BY <1>5, <1>6, <1>11, <1>12, <1>13 DEF Starts, Kept, Passing, v
<1>16. QED
  BY <1>5, <1>7, <1>11, <1>14, <1>15, PushCovers DEF b

\* No loop but while runs in such a proc.
LEMMA OnlyWhile ==
  ASSUME NoFor(program), NEW g, Awaits(stack, g, program, x), Stands(stack, g, program, x)
  PROVE  /\ ~StartFor
         /\ AtTest => Running({"while"})
<1>1. ASSUME NEW ops, Running(ops) PROVE Current.op \notin {"for", "foreach"}
  BY <1>1, Runs, AtCommand
<1>2. ~StartFor
  BY <1>1 DEF StartFor, Running, Current
<1>3. AtTest => Running({"while"})
  BY <1>1 DEF AtTest, Running, Current, LoopHeads
<1>4. QED
  BY <1>2, <1>3

\* RunPass: a first pass is that of the analysis, a later one one from what
\* comes round.
LEMMA RunPassKeeps ==
  ASSUME NoFor(program), Covers(stack, program, x), RunPass
  PROVE  Covers(stack', program, x')
<1>1. PICK g : Awaits(stack, g, program, x) /\ Stands(stack, g, program, x)
  BY DEF Covers
<1> DEFINE f == stack[1]
           v == g[1]
           c == f.cmds[f.pc]
           e == Before(f, v).out
           r == Flow[v.d][c][e]
           s == <<AtAgain(f)>> \o Tail(stack)
<1>2. Running({"while"})
  BY <1>1, OnlyWhile DEF RunPass
<1>3. /\ stack \in Seq(Frames) /\ stack # << >> /\ Head(stack) = f /\ f \in Frames /\ v \in Visits
      /\ FrameOK(f, v, program)
      /\ f.pc <= Len(f.cmds) /\ Before(f, v).live /\ x \in Known(f, v, program) /\ Current = c /\ c.op = "while"
  BY <1>1, <1>2, Runs
<1>4. /\ v.d \in 0..Depth /\ c \in Commands[v.d] /\ e \in SUBSET Bindings
      /\ Behind(f, v).live = r.live /\ Behind(f, v).out = r.out /\ Kept(r, EndOf(f, v))
      /\ f.loop = "again" => Here(f, v) = Round(v.d, c, e)
      /\ f.loop # "again" => Here(f, v) = e
  BY <1>3, AtCommand DEF Here
<1>5. /\ AtAgain(f) \in Frames /\ AtAgain(f).cmds = f.cmds /\ AtAgain(f).kind = f.kind
      /\ AtAgain(f).loop = "again" /\ FrameOK(AtAgain(f), v, program)
      /\ Before(AtAgain(f), v) = Before(f, v) /\ Behind(AtAgain(f), v) = Behind(f, v)
      /\ Here(AtAgain(f), v) = Round(v.d, c, e)
      /\ EndOf(AtAgain(f), v) = EndOf(f, v) /\ BindsOf(AtAgain(f)) = BindsOf(f)
  BY <1>3, AgainIs
<1>6. Awaits(s, g, program, x) /\ s # << >> /\ s[1] = AtAgain(f)
  BY <1>1, <1>3, <1>5, Headed, HeadedIs
<1>7. At(f, v, program) /\ c = f.cmds[f.pc] /\ Entering(c)
  BY <1>3 DEF At, Entering
<1>8. c \notin Simple
  BY <1>3, <1>4, Heads DEF LoopHeads
<1>9. Len(c.bodies) = 1 /\ Last(c.bodies) = c.bodies[1] /\ 1 \in DOMAIN c.bodies
  <2>1. Len(c.bodies) = 1 /\ c.bodies \in Seq(Seq(Commands[v.d - 1]))
    BY <1>3, <1>4, <1>8, Parts
  <2>2. QED
    BY <2>1 DEF Last
<1> DEFINE kind == IF f.loop = "again" THEN "later" ELSE "first"
           in == Here(f, v)
           b == Frame(kind, c.bodies[1])
           u == [d |-> v.d - 1, in |-> in]
           end == seq(Flow[v.d - 1], c.bodies[1], in)
<1>10. x' = x /\ stack' = <<b>> \o s
  BY <1>3, <1>9 DEF RunPass, Enter, AtLoop, AtAgain
<1> HIDE DEF f, v, c, e, r, s, in, kind
<1>11. kind \in Pass /\ kind \in Kinds
  BY DEF kind, Pass, Kinds
<1> DEFINE first == seq(Flow[v.d - 1], c.bodies[1], e)
           again == seq(Flow[v.d - 1], c.bodies[1], Round(v.d, c, e))
<1>12. /\ r.live /\ e \subseteq Round(v.d, c, e) /\ Round(v.d, c, e) \subseteq r.out
       /\ Round(v.d, c, e) \in SUBSET Bindings
       /\ first.live => first.out \subseteq Round(v.d, c, e)
       /\ again.live => again.out \subseteq Round(v.d, c, e)
       /\ first.brk \subseteq r.out /\ again.brk \subseteq r.out
       /\ first.cont \subseteq Round(v.d, c, e) /\ again.cont \subseteq Round(v.d, c, e)
       /\ first.noted \subseteq r.noted
  BY <1>3, <1>4, WhileDoes DEF r
<1>13. in \in SUBSET Bindings /\ x \in in \cup Lost(program)
  BY <1>3, <1>4, <1>12 DEF in, Known
<1>14. /\ b \in Frames /\ u \in Visits /\ FrameOK(b, u, program) /\ b.kind = kind
       /\ BindsOf(b) \subseteq BindsOf(f)
       /\ Before(b, u).live /\ Here(b, u) = in /\ EndOf(b, u) = end
  <2>1. b = Frame(kind, c.bodies[1]) /\ u = [d |-> v.d - 1, in |-> in]
    OBVIOUS
  <2>2. end = seq(Flow[v.d - 1], c.bodies[1], in) /\ b.kind = kind
    BY DEF Frame
  <2>3. 1 \in DOMAIN c.bodies /\ kind \in Kinds /\ in \in SUBSET Bindings
    BY <1>9, <1>11, <1>13
  <2> HIDE DEF b, u, end
  <2>4. EnteredAs(b, u, f, v, program, c.bodies[1], in)
    BY <1>7, <2>1, <2>3, EnteredIs
  <2>5. QED
    BY <2>2, <2>4 DEF EnteredAs
<1>15. /\ end.live => end.out \subseteq Round(v.d, c, e)
       /\ end.brk \subseteq r.out /\ end.cont \subseteq Round(v.d, c, e)
       /\ kind # "later" => end.noted \subseteq r.noted
  <2>1. CASE f.loop = "again"
    <3>1. end = again /\ kind = "later"
      BY <1>4, <2>1 DEF in, kind
    <3> HIDE DEF end, again, first
    <3>2. QED
      BY <1>12, <3>1
  <2>2. CASE f.loop # "again"
    <3>1. end = first
      BY <1>4, <2>2 DEF in
    <3> HIDE DEF end, again, first
    <3>2. QED
      BY <1>12, <3>1
  <2>3. QED
    BY <2>1, <2>2
<1> HIDE DEF b, u, end, first, again
<1>16. Falls(b, u, AtAgain(f), v)
  BY <1>3, <1>5, <1>14, <1>15 DEF Falls
<1>17. Rounds(b, u, AtAgain(f), v)
  BY <1>3, <1>4, <1>5, <1>14, <1>15 DEF Rounds
<1>18. Starts(b, u, AtAgain(f), v, program, x)
  <2>1. kind # "later" => EndOf(b, u).noted \subseteq EndOf(AtAgain(f), v).noted
    BY <1>4, <1>5, <1>14, <1>15 DEF Kept
  <2>2. b.kind \notin Passing
    BY <1>14 DEF kind, Passing
  <2>3. QED
    BY <1>5, <1>11, <1>14, <1>16, <1>17, <2>1, <2>2 DEF Starts
<1>19. x \in Known(b, u, program)
  BY <1>13, <1>14 DEF Known
<1>20. QED
  BY <1>6, <1>10, <1>14, <1>18, <1>19, PushCovers DEF v

\* LeaveLoop: what comes round goes on behind the loop.
LEMMA LeaveLoopKeeps ==
  ASSUME NoFor(program), Covers(stack, program, x), LeaveLoop
  PROVE  Covers(stack', program, x')
<1>1. PICK g : Awaits(stack, g, program, x) /\ Stands(stack, g, program, x)
  BY DEF Covers
<1> DEFINE f == stack[1]
           v == g[1]
           c == f.cmds[f.pc]
           e == Before(f, v).out
           r == Flow[v.d][c][e]
           s == <<Past(f)>> \o Tail(stack)
<1>2. Running({"while"})
  BY <1>1, OnlyWhile DEF LeaveLoop
<1>3. /\ stack # << >> /\ Head(stack) = f /\ f \in Frames /\ v \in Visits /\ FrameOK(f, v, program)
      /\ f.pc <= Len(f.cmds) /\ Before(f, v).live /\ x \in Known(f, v, program) /\ c.op = "while"
  BY <1>1, <1>2, Runs
<1>4. /\ v.d \in 0..Depth /\ c \in Commands[v.d] /\ e \in SUBSET Bindings
      /\ Behind(f, v).live = r.live /\ Behind(f, v).out = r.out
      /\ Here(f, v) = Round(v.d, c, e) \/ Here(f, v) = e
  BY <1>3, AtCommand DEF Here
<1>5. Awaits(s, g, program, x) /\ (Behind(f, v).live /\ x \in Behind(f, v).out \cup Lost(program) => Stands(s, g, program, x))
  BY <1>1, <1>3, Advances
<1>6. stack' = s /\ x' = x
  BY <1>3 DEF LeaveLoop, Advanced
<1> HIDE DEF f, v, c, e, r, s
<1>7. r.live /\ e \subseteq Round(v.d, c, e) /\ Round(v.d, c, e) \subseteq r.out
  BY <1>3, <1>4, WhileDoes DEF r
<1>8. QED
  BY <1>3, <1>4, <1>5, <1>6, <1>7 DEF Covers, Known

\* The innermost body of some kinds.
LEMMA InnermostIs ==
  ASSUME stack \in Seq(Frames), NEW kinds
  PROVE  LET i == Innermost(kinds)
         IN  \/ i = 0 /\ \A j \in 1..Len(stack) : stack[j].kind \notin kinds
             \/ /\ i \in 1..Len(stack) /\ stack[i].kind \in kinds
                /\ \A j \in 1..(i - 1) : stack[j].kind \notin kinds
<1> DEFINE I == {i \in 1..Len(stack) : stack[i].kind \in kinds}
           i == Innermost(kinds)
<1>1. Len(stack) \in Nat
  OBVIOUS
<1>2. i = IF I # {} THEN Min(I) ELSE 0
  BY DEF Innermost, SelectInSeq
<1>3. CASE I = {}
  BY <1>2, <1>3
<1>4. CASE I # {}
  <2>1. \E k \in I : \A j \in I : k <= j
    <3>1. I \in SUBSET Nat
      BY <1>1
    <3> HIDE DEF I
    <3>2. PICK k \in I : \A j \in I : ~(<<j, k>> \in OpToRel(<, Nat))
      BY <1>4, <3>1, NatLessThanWellFounded, WFMin
    <3>3. \A j \in I : ~(j < k)
      BY <3>1, <3>2 DEF OpToRel
    <3>4. QED
      BY <3>1, <3>3
  <2>2. i = Min(I)
    BY <1>2, <1>4
  <2> HIDE DEF i
  <2>3. i \in I /\ \A j \in I : i <= j
    <3> HIDE DEF I
    <3>1. QED
      BY <2>1, <2>2 DEF Min
  <2>4. QED
    BY <1>1, <2>3 DEF i
<1>5. QED
  BY <1>3, <1>4

\* What is below the body at i waits for its end.
LEMMA WaitsBelow ==
  ASSUME NEW g, Awaits(stack, g, program, x), NEW i \in 1..(Len(stack) - 1)
  PROVE  LET t == SubSeq(stack, i + 1, Len(stack))
             h == SubSeq(g, i + 1, Len(g))
         IN  /\ Awaits(t, h, program, x) /\ t # << >>
             /\ t[1] = stack[i + 1] /\ h[1] = g[i + 1]
             /\ t[1] \in Frames /\ h[1] \in Visits /\ FrameOK(t[1], h[1], program)
             /\ Resumes(stack, g, program, i, x)
             /\ Before(t[1], h[1]).live /\ x \in Known(t[1], h[1], program) => Covers(t, program, x)
<1> DEFINE t == SubSeq(stack, i + 1, Len(stack))
           h == SubSeq(g, i + 1, Len(g))
<1>1. stack \in Seq(Frames) /\ g \in Seq(Visits) /\ Len(g) = Len(stack) /\ Len(stack) \in Nat
      /\ i \in 0..Len(stack) /\ 1 + i = i + 1
  BY DEF Awaits
<1>2. Awaits(t, h, program, x)
  BY <1>1, Dropped
<1>3. Len(t) = Len(stack) - i /\ Len(h) = Len(t) /\ t \in Seq(Frames)
      /\ \A j \in 1..Len(t) : t[j] = stack[j + i] /\ h[j] = g[j + i]
  BY <1>1, SuffixIs
<1> HIDE DEF t, h
<1>4. t # << >> /\ 1 \in 1..Len(t)
  BY <1>1, <1>3
<1>5. t[1] = stack[i + 1] /\ h[1] = g[i + 1]
  BY <1>1, <1>3, <1>4
<1>6. t[1] \in Frames /\ h[1] \in Visits /\ FrameOK(t[1], h[1], program)
  BY <1>2, <1>4 DEF Awaits
<1>7. Resumes(stack, g, program, i, x)
  BY DEF Awaits
<1>8. Before(t[1], h[1]).live /\ x \in Known(t[1], h[1], program) => Covers(t, program, x)
  BY <1>2 DEF Stands, Covers
<1>9. QED
  BY <1>2, <1>4, <1>5, <1>6, <1>7, <1>8 DEF t, h

\* The proc has ended.
LEMMA EndedCovers ==
  ASSUME NEW p, NEW y
  PROVE  Covers(<< >>, p, y)
<1>1. Awaits(<< >>, << >>, p, y)
  BY DEF Awaits
<1>2. QED
  BY <1>1 DEF Stands, Covers

\* A catch ends, wherever in it.
LEMMA CatchEnds ==
  ASSUME NEW g, Awaits(stack, g, program, x), NEW i \in 1..Len(stack), stack[i].kind = "catch"
  PROVE  Covers(After(i), program, x)
<1>1. stack \in Seq(Frames) /\ Len(stack) \in Nat
  BY DEF Awaits
<1>2. i # Len(stack)
  BY <1>1 DEF Awaits
<1>3. i \in 1..(Len(stack) - 1)
  BY <1>1, <1>2
<1>4. Safe(stack, g, program, i, x)
  BY <1>3, WaitsBelow DEF Resumes
<1>5. QED
  BY <1>3, <1>4, WaitsBelow DEF Safe, After

\* Fail: behind the catch all that its body has bound is expected.
LEMMA FailKeeps ==
  ASSUME Covers(stack, program, x), Fail
  PROVE  Covers(stack', program, x')
<1>1. PICK g : Awaits(stack, g, program, x)
  BY DEF Covers
<1>2. stack \in Seq(Frames)
  BY <1>1 DEF Awaits
<1> DEFINE i == Innermost({"catch"})
<1>3. i \in 1..Len(stack) /\ stack[i].kind = "catch"
  BY <1>2, InnermostIs DEF Fail
<1> HIDE DEF i
<1>4. QED
  BY <1>1, <1>3, CatchEnds DEF Fail, i

\* Return: the same, or the proc has ended.
LEMMA ReturnKeeps ==
  ASSUME Covers(stack, program, x), Return
  PROVE  Covers(stack', program, x')
<1>1. PICK g : Awaits(stack, g, program, x)
  BY DEF Covers
<1>2. stack \in Seq(Frames)
  BY <1>1 DEF Awaits
<1> DEFINE i == Innermost({"catch"})
<1>3. i = 0 \/ (i \in 1..Len(stack) /\ stack[i].kind = "catch")
  BY <1>2, InnermostIs
<1>4. stack' = (IF i > 0 THEN After(i) ELSE << >>) /\ x' = x /\ program' = program
  BY DEF Return
<1> HIDE DEF i
<1>5. QED
  BY <1>1, <1>2, <1>3, <1>4, CatchEnds, EndedCovers

\* A pass runs in its loop, and behind it comes the test.
LEMMA PassEnds ==
  ASSUME NEW g, Awaits(stack, g, program, x), NEW i \in 1..Len(stack), stack[i].kind \in Pass
  PROVE  /\ i \in 1..(Len(stack) - 1)
         /\ Falls(stack[i], g[i], stack[i + 1], g[i + 1]) /\ Rounds(stack[i], g[i], stack[i + 1], g[i + 1])
         /\ stack[i + 1].pc <= Len(stack[i + 1].cmds)
         /\ stack[i + 1].cmds[stack[i + 1].pc].op = "while"
         /\ NextPass(i) => stack' = After(i)
<1>1. stack \in Seq(Frames) /\ Len(stack) \in Nat
  BY DEF Awaits
<1>2. i # Len(stack)
  BY <1>1 DEF Awaits, Pass
<1>3. i \in 1..(Len(stack) - 1) /\ i + 1 \in 1..Len(stack)
  BY <1>1, <1>2
<1>4. Falls(stack[i], g[i], stack[i + 1], g[i + 1]) /\ Rounds(stack[i], g[i], stack[i + 1], g[i + 1])
  BY <1>3 DEF Awaits, Resumes
<1>5. stack[i + 1].pc <= Len(stack[i + 1].cmds) /\ stack[i + 1].cmds[stack[i + 1].pc].op = "while"
  BY <1>3, <1>4 DEF Rounds, Awaits, FrameOK
<1>6. QED
  BY <1>3, <1>4, <1>5 DEF NextPass

\* EndBody: what is below resumes.
LEMMA EndBodyKeeps ==
  ASSUME NoFor(program), Covers(stack, program, x), EndBody
  PROVE  Covers(stack', program, x')
<1>1. PICK g : Awaits(stack, g, program, x) /\ Stands(stack, g, program, x)
  BY DEF Covers
<1> DEFINE f == stack[1]
           v == g[1]
<1>2. stack \in Seq(Frames) /\ stack # << >> /\ Head(stack) = f /\ f \in Frames /\ FrameOK(f, v, program)
      /\ Len(stack) \in Nat \ {0} /\ 1 \in 1..Len(stack)
  BY <1>1 DEF EndBody, Awaits
<1>3. f.pc > Len(f.cmds) /\ f.pc \in Nat /\ Len(f.cmds) \in Nat /\ f.pc <= Len(f.cmds) + 1 /\ f.loop = "no"
  BY <1>2 DEF EndBody, FrameOK, Frames
<1>4. Before(f, v) = EndOf(f, v) /\ Here(f, v) = EndOf(f, v).out
  <2>1. f.pc - 1 = Len(f.cmds)
    BY <1>3
  <2>2. QED
    BY <1>3, <2>1 DEF Before, EndOf, Here
<1>5. EndOf(f, v).live /\ x \in EndOf(f, v).out \cup Lost(program)
  BY <1>1, <1>2, <1>4 DEF Stands, Known
<1>6. Tail(stack) = After(1)
  BY <1>2 DEF After
<1>7. x' = x /\ stack' = After(1)
  <2>1. CASE f.kind \in Pass
    BY <1>1, <1>2, <2>1, PassEnds DEF EndBody
  <2>2. CASE f.kind \notin Pass
    BY <1>2, <1>6, <2>2 DEF EndBody
  <2>3. QED
    BY <2>1, <2>2
<1>8. CASE Len(stack) = 1
  <2>1. After(1) = << >>
    BY <1>2, <1>8 DEF After
  <2>2. QED
    BY <1>7, <2>1, EndedCovers
<1>9. CASE Len(stack) # 1
  <2>1. 1 \in 1..(Len(stack) - 1)
    <3>1. Len(stack) \in Nat \ {0} /\ Len(stack) # 1
      BY <1>2, <1>9
    <3>2. \A n \in Nat \ {0} : n # 1 => 1 \in 1..(n - 1)
      OBVIOUS
    <3>3. QED
      BY <3>1, <3>2
  <2>2. Resumes(stack, g, program, 1, x)
    BY <1>1, <2>1, WaitsBelow
  <2>3. Safe(stack, g, program, 1, x) \/ Falls(f, v, stack[1 + 1], g[1 + 1])
    BY <1>2, <2>2 DEF Resumes, Frames, Kinds
  <2>4. Before(stack[1 + 1], g[1 + 1]).live /\ x \in Known(stack[1 + 1], g[1 + 1], program)
    BY <1>5, <2>3 DEF Safe, Falls, Known
  <2>5. QED
    BY <1>1, <1>7, <2>1, <2>4, WaitsBelow DEF After
<1>10. QED
  BY <1>8, <1>9

\* Where a break or a continue comes to: the proc's or the catch's end, or
\* the pass it leaves, with what the walk has left by.
LEMMA LeavesFrom ==
  ASSUME NEW g, Awaits(stack, g, program, x), stack # << >>
  PROVE  LET i == Innermost({"catch"} \cup Pass)
         IN  \/ i = 0
             \/ i \in 1..Len(stack) /\ stack[i].kind = "catch"
             \/ /\ i \in 1..Len(stack) /\ stack[i].kind \in Pass
                /\ EndOf(stack[1], g[1]).brk \subseteq EndOf(stack[i], g[i]).brk
                /\ EndOf(stack[1], g[1]).cont \subseteq EndOf(stack[i], g[i]).cont
<1> DEFINE i == Innermost({"catch"} \cup Pass)
<1>1. stack \in Seq(Frames) /\ Len(stack) \in Nat \ {0}
  BY DEF Awaits
<1>2. \/ i = 0
      \/ /\ i \in 1..Len(stack) /\ stack[i].kind \in {"catch"} \cup Pass
         /\ \A j \in 1..(i - 1) : stack[j].kind \notin {"catch"} \cup Pass
  BY <1>1, InnermostIs
<1> HIDE DEF i
<1>3. ASSUME i \in 1..Len(stack), \A j \in 1..(i - 1) : stack[j].kind \notin {"catch"} \cup Pass
      PROVE  Leaving(stack, g, 1, i) /\ \A j \in 1..(i - 1) : stack[j].kind \in Passing
  <2>1. \A j \in 1..Len(stack) : stack[j].kind \in Kinds
    <3>1. \A b \in Frames : b.kind \in Kinds
      BY DEF Frames
    <3>2. QED
      BY <1>1, <3>1
  <2>2. \A j \in 1..(i - 1) : j \in 1..Len(stack)
    BY <1>1, <1>3
  <2>3. 1 \in 1..i
    BY <1>3
  <2>4. QED
    BY <1>3, <2>1, <2>2, <2>3 DEF Awaits, Kinds, Passing
<1>4. QED
  BY <1>2, <1>3 DEF Leaving, i

\* Continue: what goes on has come round in the loop it belongs to.
LEMMA ContinueKeeps ==
  ASSUME NoFor(program), Covers(stack, program, x), Continue
  PROVE  Covers(stack', program, x')
<1>1. PICK g : Awaits(stack, g, program, x) /\ Stands(stack, g, program, x)
  BY DEF Covers
<1> DEFINE f == stack[1]
           v == g[1]
           c == f.cmds[f.pc]
           e == Before(f, v).out
           i == Innermost({"catch"} \cup Pass)
<1>2. Running({"continue"})
  BY DEF Continue
<1>3. /\ stack # << >> /\ f \in Frames /\ v \in Visits /\ FrameOK(f, v, program)
      /\ f.pc <= Len(f.cmds) /\ Before(f, v).live /\ x \in Known(f, v, program) /\ c.op = "continue"
  BY <1>1, <1>2, Runs
<1>4. /\ v.d \in 0..Depth /\ c \in Commands[v.d] /\ e \in SUBSET Bindings /\ Here(f, v) = e
      /\ Kept(Flow[v.d][c][e], EndOf(f, v))
  BY <1>3, AtCommand
<1>5. x \in EndOf(f, v).cont \cup Lost(program)
  <2> HIDE DEF f, v, c, e
  <2>1. Flow[v.d][c][e].cont = e
    BY <1>3, <1>4, ContinueDoes
  <2>2. QED
    BY <1>3, <1>4, <2>1 DEF Kept, Known
<1>6. \/ i = 0
      \/ i \in 1..Len(stack) /\ stack[i].kind = "catch"
      \/ /\ i \in 1..Len(stack) /\ stack[i].kind \in Pass
         /\ EndOf(f, v).cont \subseteq EndOf(stack[i], g[i]).cont
  BY <1>1, <1>3, LeavesFrom
<1>7. x' = x /\ (IF Leaves(i) THEN stack' = IF i > 0 THEN After(i) ELSE << >> ELSE NextPass(i))
  BY DEF Continue
<1> HIDE DEF f, v, c, e, i
<1>8. CASE i = 0
  BY <1>7, <1>8, EndedCovers DEF Leaves
<1>9. CASE i \in 1..Len(stack) /\ stack[i].kind = "catch"
  BY <1>1, <1>7, <1>9, CatchEnds DEF Leaves
<1>10. CASE i \in 1..Len(stack) /\ stack[i].kind \in Pass /\ EndOf(f, v).cont \subseteq EndOf(stack[i], g[i]).cont
  <2>1. /\ i \in 1..(Len(stack) - 1) /\ Rounds(stack[i], g[i], stack[i + 1], g[i + 1])
        /\ NextPass(i) => stack' = After(i)
    BY <1>1, <1>10, PassEnds
  <2>2. ~Leaves(i)
    BY <1>10 DEF Leaves, Pass
  <2>3. Before(stack[i + 1], g[i + 1]).live /\ x \in Known(stack[i + 1], g[i + 1], program)
    BY <1>5, <1>10, <2>1 DEF Rounds, Known
  <2>4. Covers(After(i), program, x)
    BY <1>1, <2>1, <2>3, WaitsBelow DEF After
  <2>5. QED
    BY <1>7, <2>1, <2>2, <2>4
<1>11. QED
  BY <1>6, <1>8, <1>9, <1>10

\* Break: what leaves is behind the loop it belongs to.
LEMMA BreakKeeps ==
  ASSUME NoFor(program), Covers(stack, program, x), Break
  PROVE  Covers(stack', program, x')
<1>1. PICK g : Awaits(stack, g, program, x) /\ Stands(stack, g, program, x)
  BY DEF Covers
<1> DEFINE f == stack[1]
           v == g[1]
           c == f.cmds[f.pc]
           e == Before(f, v).out
           i == Innermost({"catch"} \cup Pass)
<1>2. Running({"break"})
  BY DEF Break
<1>3. /\ stack # << >> /\ f \in Frames /\ v \in Visits /\ FrameOK(f, v, program)
      /\ f.pc <= Len(f.cmds) /\ Before(f, v).live /\ x \in Known(f, v, program) /\ c.op = "break"
  BY <1>1, <1>2, Runs
<1>4. /\ v.d \in 0..Depth /\ c \in Commands[v.d] /\ e \in SUBSET Bindings /\ Here(f, v) = e
      /\ Kept(Flow[v.d][c][e], EndOf(f, v))
  BY <1>3, AtCommand
<1>5. x \in EndOf(f, v).brk \cup Lost(program)
  <2> HIDE DEF f, v, c, e
  <2>1. Flow[v.d][c][e].brk = e
    BY <1>3, <1>4, BreakDoes
  <2>2. QED
    BY <1>3, <1>4, <2>1 DEF Kept, Known
<1>6. \/ i = 0
      \/ i \in 1..Len(stack) /\ stack[i].kind = "catch"
      \/ /\ i \in 1..Len(stack) /\ stack[i].kind \in Pass
         /\ EndOf(f, v).brk \subseteq EndOf(stack[i], g[i]).brk
  BY <1>1, <1>3, LeavesFrom
<1>7. x' = x /\ (IF Leaves(i) THEN stack' = IF i > 0 THEN After(i) ELSE << >>
                 ELSE stack' = <<Past(stack[i + 1])>> \o After(i + 1))
  BY DEF Break, Enter
<1> HIDE DEF f, v, c, e, i
<1>8. CASE i = 0
  BY <1>7, <1>8, EndedCovers DEF Leaves
<1>9. CASE i \in 1..Len(stack) /\ stack[i].kind = "catch"
  BY <1>1, <1>7, <1>9, CatchEnds DEF Leaves
<1>10. CASE i \in 1..Len(stack) /\ stack[i].kind \in Pass /\ EndOf(f, v).brk \subseteq EndOf(stack[i], g[i]).brk
  <2> DEFINE t == SubSeq(stack, i + 1, Len(stack))
             h == SubSeq(g, i + 1, Len(g))
             q == t[1]
             w == h[1]
  <2>1. /\ i \in 1..(Len(stack) - 1) /\ Rounds(stack[i], g[i], stack[i + 1], g[i + 1])
        /\ stack[i + 1].pc <= Len(stack[i + 1].cmds)
        /\ stack[i + 1].cmds[stack[i + 1].pc].op = "while"
    BY <1>1, <1>10, PassEnds
  <2>2. ~Leaves(i)
    BY <1>10 DEF Leaves, Pass
  <2>3. /\ Awaits(t, h, program, x) /\ t # << >> /\ q = stack[i + 1] /\ w = g[i + 1]
        /\ q \in Frames /\ w \in Visits /\ FrameOK(q, w, program)
    BY <1>1, <2>1, WaitsBelow
  <2>4. /\ Before(q, w).live /\ EndOf(stack[i], g[i]).brk \subseteq Behind(q, w).out
        /\ q.pc <= Len(q.cmds) /\ q.cmds[q.pc].op = "while"
    BY <2>1, <2>3 DEF Rounds
  <2>5. /\ w.d \in 0..Depth /\ q.cmds[q.pc] \in Commands[w.d] /\ Before(q, w).out \in SUBSET Bindings
        /\ Behind(q, w).live = Flow[w.d][q.cmds[q.pc]][Before(q, w).out].live
    BY <2>3, <2>4, AtCommand
  <2>6. Tail(t) = After(i + 1)
    <3>1. stack \in Seq(Frames) /\ Len(stack) \in Nat
      BY <1>1 DEF Awaits
    <3>2. QED
      BY <2>1, <3>1 DEF After
  <2> HIDE DEF t, h, q, w
  <2>7. Behind(q, w).live
    BY <2>4, <2>5, WhileDoes
  <2>8. x \in Behind(q, w).out \cup Lost(program)
    BY <1>5, <1>10, <2>4
  <2>9. Awaits(<<Past(t[1])>> \o Tail(t), h, program, x) /\ Stands(<<Past(t[1])>> \o Tail(t), h, program, x)
    BY <2>3, <2>4, <2>7, <2>8, Advances DEF q, w
  <2>10. stack' = <<Past(t[1])>> \o Tail(t)
    BY <1>7, <2>2, <2>3, <2>6 DEF q
  <2>11. QED
    BY <1>7, <2>9, <2>10 DEF Covers
<1>11. QED
  BY <1>6, <1>8, <1>9, <1>10

----------------------------------------------------------------------------
(* The theorems.                                                           *)

\* A proc starts where its analysis does.
LEMMA InitCovers ==
  ASSUME Init
  PROVE  ReachInv
<1> DEFINE f == Frame("block", program)
           v == [d |-> Depth, in |-> {Parameter}]
           s == <<f>>
           g == <<v>>
<1>1. program \in Programs /\ program \in Seq(Commands[Depth]) /\ Depth \in 0..Depth
  BY ProgramsAssumption, DepthAssumption DEF Init
<1>2. Len(program) \in Nat
  BY <1>1
<1>3. v \in Visits /\ v.d = Depth /\ v.in = {Parameter} /\ {Parameter} \in SUBSET Bindings
  BY <1>1 DEF Visits, Bindings
<1>4. f.kind = "block" /\ f.cmds = program /\ f.pc = 1 /\ f.loop = "no"
  BY DEF Frame
<1>5. f \in Frames
  <2>1. Commands[Depth] \subseteq AllCommands
    BY <1>1 DEF AllCommands
  <2>2. program \in Seq(AllCommands)
    BY <1>1, <2>1
  <2>3. QED
    BY <2>2 DEF Frame, Frames, Kinds
<1> HIDE DEF f, v
<1>6. FrameOK(f, v, program)
  BY <1>1, <1>2, <1>3, <1>4 DEF FrameOK
<1>7. IsWalk(WalkOf(f, v), Flow[Depth], program, {Parameter})
  <2>1. Flow[Depth] \in Flows(Commands[Depth])
    BY <1>1, FlowTyped
  <2>2. QED
    BY <1>1, <1>3, <1>4, <2>1, WalkIs DEF WalkOf
<1>8. Before(f, v) = Walked({Parameter}, TRUE)
  <2>1. WalkOf(f, v)[0] = Walked({Parameter}, TRUE)
    BY <1>7 DEF IsWalk
  <2>2. f.pc - 1 = 0
    BY <1>4
  <2>3. QED
    BY <2>1, <2>2 DEF Before
<1>9. Before(f, v).live /\ Parameter \in Here(f, v)
  BY <1>4, <1>8 DEF Here, Walked
<1>10. EndOf(f, v).noted = NotedOf(program)
  BY <1>3, <1>4 DEF EndOf, WalkOf, NotedOf, seq
<1>11. s \in Seq(Frames) /\ g \in Seq(Visits) /\ Len(s) = 1 /\ Len(g) = 1 /\ s[1] = f /\ g[1] = v
  BY <1>3, <1>5
<1>12. stack = s /\ x = Parameter
  BY DEF Init, f
<1> HIDE DEF s, g
<1>13. Awaits(s, g, program, x)
  <2>1. \A i \in 1..Len(s) : i = 1
    BY <1>11
  <2>2. \A i \in 1..Len(s) : Notes(s, g, program, i)
    BY <1>10, <1>11, <2>1 DEF Notes
  <2>3. \A k \in 1..Len(s) : \A i \in 1..k : Leaving(s, g, i, k)
    <3> TAKE k \in 1..Len(s)
    <3> TAKE i \in 1..k
    <3>1. i = k
      BY <1>11
    <3>2. QED
      BY <3>1 DEF Leaving
  <2>4. QED
    BY <1>4, <1>6, <1>11, <2>1, <2>2, <2>3 DEF Awaits
<1>14. Stands(s, g, program, x)
  BY <1>9, <1>11, <1>12 DEF Stands, Known
<1>15. QED
  BY <1>1, <1>12, <1>13, <1>14 DEF ReachInv, Covers

\* And every step keeps to it.
LEMMA NextCovers ==
  ASSUME ReachInv, [Next]_vars
  PROVE  ReachInv'
<1>1. program' = program
  BY DEF Next, vars, Bind, Read, Branch, StartFor, RunPass, LeaveLoop, Catch, EndBody, Fail, Return, Break, Continue
<1>2. SUFFICES ASSUME NoFor(program), ~ArmExits(program) PROVE Covers(stack', program, x')
  BY <1>1 DEF ReachInv
<1>3. Covers(stack, program, x)
  BY <1>2 DEF ReachInv
<1>4. CASE Bind
  BY <1>2, <1>3, <1>4, BindKeeps
<1>5. CASE Read
  BY <1>2, <1>3, <1>5, ReadKeeps
<1>6. CASE Branch
  BY <1>2, <1>3, <1>6, BranchKeeps
<1>7. CASE StartFor
  BY <1>2, <1>3, <1>7, OnlyWhile DEF Covers
<1>8. CASE RunPass
  BY <1>2, <1>3, <1>8, RunPassKeeps
<1>9. CASE LeaveLoop
  BY <1>2, <1>3, <1>9, LeaveLoopKeeps
<1>10. CASE Catch
  BY <1>2, <1>3, <1>10, CatchKeeps
<1>11. CASE EndBody
  BY <1>2, <1>3, <1>11, EndBodyKeeps
<1>12. CASE Fail
  BY <1>3, <1>12, FailKeeps
<1>13. CASE Return
  BY <1>3, <1>13, ReturnKeeps
<1>14. CASE Break
  BY <1>2, <1>3, <1>14, BreakKeeps
<1>15. CASE Continue
  BY <1>2, <1>3, <1>15, ContinueKeeps
<1>16. CASE UNCHANGED vars
  BY <1>3, <1>16 DEF vars
<1>17. QED
  BY <1>4, <1>5, <1>6, <1>7, <1>8, <1>9, <1>10, <1>11, <1>12, <1>13, <1>14, <1>15, <1>16 DEF Next

\* The analysis follows the execution: whatever the execution does, the
\* analysis has a live point for each body that runs, with the variable's
\* binding in the set there (seq, analyzeIf, analyzeConservative, analyzeLoop).
THEOREM ReachInvHolds == Spec => []ReachInv
<1>1. Init => ReachInv
  BY InitCovers
<1>2. ReachInv /\ [Next]_vars => ReachInv'
  BY NextCovers
<1>3. QED
  BY <1>1, <1>2, PTL DEF Spec

\* What a use finds is noted at it.
LEMMA InvAnswers ==
  ASSUME ReachInv
  PROVE  NothingDroppedWhereFollowed
<1>1. SUFFICES ASSUME Reading, Followed PROVE Answered
  BY DEF NothingDroppedWhereFollowed
<1>2. NoFor(program) /\ ~ArmExits(program) /\ x \notin Lost(program)
  BY <1>1 DEF Followed, OnFirstPass, NoFor
<1>3. PICK g : Awaits(stack, g, program, x) /\ Stands(stack, g, program, x)
  BY <1>2 DEF ReachInv, Covers
<1> DEFINE f == stack[1]
           v == g[1]
           c == f.cmds[f.pc]
           e == Before(f, v).out
<1>4. /\ stack \in Seq(Frames) /\ stack # << >> /\ Len(stack) \in Nat \ {0}
      /\ f \in Frames /\ v \in Visits /\ FrameOK(f, v, program)
      /\ f.pc <= Len(f.cmds) /\ Before(f, v).live /\ x \in Known(f, v, program) /\ Current = c /\ c.op \in {"use", "incr"}
  BY <1>1, <1>3, Runs DEF Reading
<1>5. /\ v.d \in 0..Depth /\ c \in Commands[v.d] /\ e \in SUBSET Bindings /\ Here(f, v) = e
      /\ Kept(Flow[v.d][c][e], EndOf(f, v))
  <2>1. /\ NoFor(program) /\ f \in Frames /\ v \in Visits /\ FrameOK(f, v, program)
        /\ f.pc <= Len(f.cmds) /\ Before(f, v).live /\ c.op \in {"use", "incr"}
    BY <1>2, <1>4
  <2> HIDE DEF f, v
  <2>2. QED
    BY <2>1, AtCommand
<1>6. EndOf(f, v).noted \subseteq NotedOf(program)
  <2>1. 1 \in 1..Len(stack) /\ \A j \in 1..Len(stack) : stack[j].kind \notin {"later", "arm"}
    BY <1>1, <1>4 DEF Followed, OnFirstPass
  <2>2. QED
    BY <1>3, <2>1 DEF Awaits, Notes
<1> HIDE DEF f, v, c, e
<1>7. <<c.id, e>> \in Flow[v.d][c][e].noted
  BY <1>4, <1>5, ReadingNotes
<1>8. <<c.id, e>> \in NotedOf(program)
  BY <1>5, <1>6, <1>7 DEF Kept
<1> DEFINE n == <<c.id, e>>
<1>9. n \in {m \in seq(Flow[Depth], program, {Parameter}).noted : m[1] = c.id} /\ x \in n[2]
  BY <1>2, <1>4, <1>5, <1>8 DEF NotedOf, Known
<1>10. x \in ReachingAt(program, c.id)
  <2> HIDE DEF n
  <2>1. QED
    BY <1>9 DEF ReachingAt, NotedAt
<1>11. QED
  BY <1>4, <1>10 DEF Answered

\* "Never drops a real reaching def" (reaching.go:7), for every proc without
\* for and foreach in which no arm of a switch's list leaves a loop around the
\* switch, as long as no loop is past its first pass: outside the arms of such
\* lists, whatever binding a use finds when it runs is in the analysis' answer
\* at it, if it is none of an earlier arm that the walkers pass over.
THEOREM NothingDroppedHolds == Spec => []NothingDroppedWhereFollowed
<1>1. ReachInv => NothingDroppedWhereFollowed
  BY InvAnswers
<1>2. QED
  BY <1>1, ReachInvHolds, PTL

\* The class of the object that x holds is among those of the receiver when
\* the binding of x is among those that reach the call.
LEMMA HeldIsReceiver ==
  ASSUME ReachInv, Answered, x \notin Aside(program), Held # NoClass
  PROVE  Held \in ReceiverClasses(program, Current.id, Self)
<1>1. program \in Seq(Commands[Depth]) /\ Depth \in 0..Depth /\ "all" \in Views
  BY ProgramsAssumption, DepthAssumption DEF ReachInv, Views
<1>2. /\ CommandsIn("children", program) \subseteq CommandsIn("all", program)
      /\ \A k \in CommandsIn("all", program) :
           k.op \in Binding => k \in CommandsIn("children", program) \/ k.id \in Aside(program)
  BY <1>1, CollectedOrAside
<1>3. CASE x = Parameter
  <2>1. \A c \in CommandsIn("all", program) : c.id # x
    <3>1. \A k \in ToSet(program) : k \in Commands[Depth]
      BY <1>1 DEF ToSet
    <3>2. \A c \in CommandsIn("all", program) : c.id \in Ids
      BY <1>1, <3>1, SeenTyped DEF CommandsIn, Seen
    <3>3. QED
      BY <1>3, <3>2, IdsAssumption
  <2>2. Held = Self
    BY <1>3, <2>1 DEF Held
  <2>3. Bound("all", program) = {}
    BY <2>2 DEF Self
  <2>4. ~\E k \in CommandsIn("all", program) : k.op = "set"
    BY <2>3 DEF Bound, Binding
  <2>5. ClassOf(program, Current.id) = {}
    BY <1>2, <2>4 DEF ClassOf, walkCmds
  <2>6. QED
    BY <2>2, <2>5 DEF ReceiverClasses
<1>4. CASE x # Parameter
  <2>1. (\E c \in CommandsIn("all", program) : c.op = "set" /\ c.id = x) /\ Held = Instantiates(x)
    BY <1>4 DEF Held
  <2>2. PICK c \in CommandsIn("all", program) : c.op = "set" /\ c.id = x
    BY <2>1
  <2>3. c \in CommandsIn("children", program)
    BY <1>2, <2>2 DEF Binding
  <2>4. c.id \in ReachingAt(program, Current.id)
    BY <2>2 DEF Answered
  <2>5. Held \in ClassOf(program, Current.id)
    BY <2>1, <2>2, <2>3, <2>4 DEF ClassOf, walkCmds
  <2>6. QED
    BY <2>5 DEF ReceiverClasses
<1>5. QED
  BY <1>3, <1>4

\* Whatever object the receiver of $x method holds when the call runs, the
\* method that runs is among the answers (classof.go:6-7), for every class
\* hierarchy, every proc and moment of which NothingDroppedHolds speaks, and
\* every object not made in an arm that the walkers pass over.
THEOREM ReceiverMethodHolds == Spec => []ReceiverMethodFound
<1>1. ReachInv /\ NothingDroppedWhereFollowed => ReceiverMethodFound
  <2>1. SUFFICES ASSUME ReachInv, Answered, x \notin Aside(program), Held # NoClass
                 PROVE  methodInClass[Held] \subseteq MethodDefinition(program, Current.id, Self)
    BY DEF NothingDroppedWhereFollowed, ReceiverMethodFound
  <2>2. Held \in ReceiverClasses(program, Current.id, Self)
    BY <2>1, HeldIsReceiver
  <2>3. QED
    BY <2>2 DEF MethodDefinition
<1>2. QED
  BY <1>1, ReachInvHolds, NothingDroppedHolds, PTL
=============================================================================
