--------------------------- MODULE TclDataProofs ---------------------------
(* Nothing inside the data of a command is taken for code: the other half  *)
(* of FoldsAreBodies, with the places of words it needs.                   *)
EXTENDS TclProofs

----------------------------------------------------------------------------
(* Where bodies run.                                                       *)

\* The frame of all bodies of a command.
BodyFrame(w, p) ==
  IF Ends(w) /\ isCmd(w, "namespace") /\ Len(w) >= 4 /\ w[2].text = <<"eval">> THEN "namespace"
  ELSE IF Ends(w) /\ IsItcl(w, "class") /\ Len(w) >= 3 THEN "class"
  ELSE IF Enters(w, p) \/ decoratedProcDef(w) > 0 THEN "proc" ELSE p.frame

LEMMA BodyFrameIs ==
  ASSUME NEW d, NEW w, HasCommandWords(w, d), NEW p, NEW b \in ToSet(bodiesOf(w, p))
  PROVE  b.frame = BodyFrame(w, p)
<1>1. \A head : isCmd(w, head) => /\ \A other : isCmd(w, other) <=> other = head
                                  /\ \A heads : IsOneOf(w, heads) <=> head \in heads
                                  /\ \A other : ~IsItcl(w, other)
  BY HeadIs
<1>2. \A head : IsItcl(w, head) => /\ \A other : ~isCmd(w, other)
                                   /\ \A heads : ~IsOneOf(w, heads)
                                   /\ \A other : IsItcl(w, other) <=> other = head
  BY ItclIs
<1>3. \A i, ns, frame, class : \A x \in ToSet(<<Entering(w[i], ns, frame, class)>>) : x.frame = frame
  BY OneElement DEF Entering
<1>4. CASE Enters(w, p) /\ isCmd(w, "namespace") /\ Len(w) >= 4 /\ w[2].text = <<"eval">>
  <2>1. bodiesOf(w, p) = <<Entering(w[Len(w)], qualifyName(w[3].text, p.ns), "namespace", p.class)>>
    BY <1>4, BodiesBy DEF Enters
  <2>2. b.frame = "namespace"
    BY <1>3, <2>1
  <2>3. QED
    BY <1>4, <2>2 DEF BodyFrame, Enters
<1>5. CASE Enters(w, p) /\ IsItcl(w, "class") /\ Len(w) >= 3
  <2>1. bodiesOf(w, p) = <<Entering(w[Len(w)], p.ns, "class", qualifyName(w[2].text, p.ns))>>
    BY <1>5, BodiesBy DEF Enters
  <2>2. b.frame = "class"
    BY <1>3, <2>1
  <2>3. QED
    BY <1>2, <1>5, <2>2 DEF BodyFrame, Enters
<1>6. ASSUME Enters(w, p), isCmd(w, "proc") \/ IsItcl(w, "body") \/ IsMember(w, p) PROVE BodyFrame(w, p) = "proc"
  <2>1. ~isCmd(w, "namespace") /\ ~IsItcl(w, "class")
    BY <1>1, <1>2, <1>6 DEF IsMember, IsOneOf
  <2>2. QED
    BY <1>6, <2>1 DEF BodyFrame
<1>7. \A i : \A x \in ToSet(Known(w, i, p)) : x.frame = "proc"
  BY <1>3 DEF Known
<1>8. CASE Enters(w, p) /\ isCmd(w, "proc") /\ Len(w) >= 4
  BY <1>6, <1>7, <1>8, BodiesBy DEF Enters
<1>9. CASE Enters(w, p) /\ IsItcl(w, "body") /\ Len(w) >= 4
  <2>1. bodiesOf(w, p) = Where(Front(w[2].text) \notin {<< >>, <<"">>},
                               <<Entering(w[Len(w)], p.ns, "proc", ClassOfBody(w[2].text, p.ns))>>)
    BY <1>9, BodiesBy DEF Enters
  <2>2. b \in ToSet(<<Entering(w[Len(w)], p.ns, "proc", ClassOfBody(w[2].text, p.ns))>>)
    BY <2>1, EmptySequence DEF Where
  <2>3. QED
    BY <1>3, <1>6, <1>9, <2>2
<1>10. CASE Enters(w, p) /\ IsMember(w, p)
  <2> DEFINE init == Where(isCmd(w, "constructor") /\ Len(w) >= 4 /\ Braced(w, Len(w) - 1), Known(w, Len(w) - 1, p))
  <2>1. IsSequence(init) /\ \A x \in ToSet(init) : x.frame = "proc"
    BY <1>7, EmptySequence, OneElement DEF Where, Known
  <2> HIDE DEF init
  <2>2. bodiesOf(w, p) = Where(Len(w) >= minMemberBodyWords(w), Known(w, Len(w), p) \o init)
    BY <1>10, BodiesBy DEF Enters, init
  <2>3. IsSequence(Known(w, Len(w), p))
    BY OneElement DEF Known
  <2>4. ToSet(Known(w, Len(w), p) \o init) = ToSet(Known(w, Len(w), p)) \cup ToSet(init)
    BY <2>1, <2>3, Joined
  <2>5. b \in ToSet(Known(w, Len(w), p) \o init)
    BY <2>2, EmptySequence DEF Where
  <2>6. b.frame = "proc"
    BY <1>7, <2>1, <2>4, <2>5
  <2>7. QED
    BY <1>6, <1>10, <2>6
<1>11. CASE ~Enters(w, p)
  <2>1. bodiesOf(w, p) = IF decoratedProcDef(w) > 0 THEN Known(w, decoratedProcDef(w) + 3, p) ELSE Stay(w, p)
    BY <1>11, BodiesBy
  <2>2. BodyFrame(w, p) = IF decoratedProcDef(w) > 0 THEN "proc" ELSE p.frame
    BY <1>11 DEF BodyFrame, Enters
  <2>3. \A x \in ToSet(Stay(w, p)) : x.frame = p.frame
    <3>1. \A word : Staying(word, p).frame = p.frame
      BY DEF Staying
    <3>2. QED
      BY <3>1 DEF Stay, ToSet
  <2>4. QED
    BY <1>7, <2>1, <2>2, <2>3
<1>12. QED
  BY <1>4, <1>5, <1>8, <1>9, <1>10, <1>11 DEF Enters

LEMMA SameFrame ==
  ASSUME NEW d, NEW c, HasCommandWords(c, d), NEW p, NEW q, p.frame = q.frame,
         NEW b \in ToSet(childBodies(c, p)), NEW e \in ToSet(childBodies(c, q))
  PROVE  b.frame = e.frame
<1> DEFINE w == IF p.frame = "class" THEN memberWords(c) ELSE c
<1>1. HasCommandWords(w, d)
  <2>1. Len(c) >= 2 => HasCommandWords(Tail(c), d)
    BY TailIs DEF HasCommandWords
  <2>2. QED
    BY <2>1 DEF memberWords
<1>2. childBodies(c, p) = bodiesOf(w, p) /\ childBodies(c, q) = bodiesOf(w, q)
  BY DEF childBodies
<1> HIDE DEF w
<1>3. b.frame = BodyFrame(w, p) /\ e.frame = BodyFrame(w, q)
  BY <1>1, <1>2, BodyFrameIs
<1>4. BodyFrame(w, p) = BodyFrame(w, q)
  BY DEF BodyFrame, Enters, IsMember
<1>5. QED
  BY <1>3, <1>4

----------------------------------------------------------------------------
(* The commands the walk and the brackets reach, each where it was reached *)
(* from, and the words that lead to further ones.                          *)

Spot(c, frame, listed) == [cmd |-> c, frame |-> frame, listed |-> listed]
Spots(script) ==
  {Spot(p.cmd, p.frame, TRUE) : p \in PointOf(script)}
    \cup {Spot(c, "", FALSE) : c \in UNION {substRefs(p.cmd) : p \in PointOf(script)}}

\* The contexts in which the bodies of a command are looked for.
Contexts(script, s) ==
  IF s.listed THEN {p \in PointOf(script) : p.cmd = s.cmd /\ p.frame = s.frame} ELSE {TopLevel}
BodiesAt(script, s) == UNION {ToSet(childBodies(s.cmd, p)) : p \in Contexts(script, s)}

Substitutes(c, k) == c[k] \in Substituting(c) /\ (c[k].kind # "braced" \/ c[k] \in ToSet(exprBodies(c)))
Opened(script, s, k) == Substitutes(s.cmd, k) \/ \E b \in BodiesAt(script, s) : b.at = s.cmd[k].at

\* The words of a command stand at the nth command inside the word at `at`.
Stands(c, at, n) == \A j \in DOMAIN c : c[j].at = at \o <<n, j>>

LEMMA SpotBy ==
  ASSUME NEW script, NEW s \in Spots(script)
  PROVE  /\ s.listed \in BOOLEAN /\ s = Spot(s.cmd, s.frame, s.listed)
         /\ \E p \in PointOf(script) : s.cmd \in {p.cmd} \cup substRefs(p.cmd)
<1>1. CASE \E p \in PointOf(script) : s = Spot(p.cmd, p.frame, TRUE)
  <2>1. PICK p \in PointOf(script) : s = Spot(p.cmd, p.frame, TRUE)
    BY <1>1
  <2>2. s.cmd = p.cmd /\ s.frame = p.frame /\ s.listed = TRUE
    BY <2>1 DEF Spot
  <2>3. QED
    BY <2>1, <2>2
<1>2. CASE \E p \in PointOf(script) : \E c \in substRefs(p.cmd) : s = Spot(c, "", FALSE)
  <2>1. PICK p \in PointOf(script) : \E c \in substRefs(p.cmd) : s = Spot(c, "", FALSE)
    BY <1>2
  <2>2. PICK c \in substRefs(p.cmd) : s = Spot(c, "", FALSE)
    BY <2>1
  <2>3. s.cmd = c /\ s.frame = "" /\ s.listed = FALSE
    BY <2>2 DEF Spot
  <2>4. QED
    BY <2>2, <2>3
<1>3. QED
  BY <1>1, <1>2 DEF Spots

LEMMA SpotIs ==
  ASSUME NEW script \in Sources, NEW s \in Spots(script)
  PROVE  /\ \E d \in 0..Nesting : HasCommandWords(s.cmd, d)
         /\ \A i \in DOMAIN s.cmd : /\ s.cmd[i].at \in Seq(Nat) /\ IsSequence(s.cmd[i].script) /\ IsSequence(s.cmd[i].subst)
                                    /\ InPlace(s.cmd[i].script \o s.cmd[i].subst, s.cmd[i].at)
         /\ s.cmd # << >>
<1>1. PICK p \in PointOf(script) : s.cmd \in {p.cmd} \cup substRefs(p.cmd)
  BY SpotBy
<1>2. PICK n \in 0..Nesting : p.cmd \in Command(n)
  BY SourcesAre, PointIs
<1>3. PICK d \in 0..Nesting : s.cmd \in Command(d)
  BY <1>1, <1>2, SubstRefsAre
<1> DEFINE c == s.cmd
<1>4. HasCommandWords(c, d)
  BY <1>3, CommandIs
<1>5. c \in Seq(Words(Script(d))) /\ c # << >>
  BY <1>3 DEF Command, Commands, Script
<1>6. \A w \in ToSet(c) : InPlace(w.script \o w.subst, w.at)
  BY <1>1, SourcesAre
<1> HIDE DEF c
<1>7. \A i \in DOMAIN c : c[i].at \in Seq(Nat)
  <2>1. \A i \in DOMAIN c : c[i] \in Words(Script(d))
    BY <1>5
  <2>2. QED
    BY <2>1 DEF Words
<1>8. \A i \in DOMAIN c : c[i] \in ToSet(c) /\ IsSequence(c[i].script) /\ IsSequence(c[i].subst)
  BY <1>4, ScriptIs DEF HasCommandWords
<1>9. QED
  BY <1>4, <1>5, <1>6, <1>7, <1>8 DEF c

\* Two words of a command that stands somewhere have two places.
InBody(script, s, k, n, t) ==
  /\ n \in DOMAIN s.cmd[k].script /\ t.cmd = s.cmd[k].script[n] /\ t.listed = s.listed
  /\ \E b \in BodiesAt(script, s) : b.at = s.cmd[k].at /\ t.frame = IF s.listed THEN b.frame ELSE ""
InBrackets(s, k, n, t) ==
  /\ Substitutes(s.cmd, k)
  /\ n - Len(s.cmd[k].script) \in DOMAIN s.cmd[k].subst
  /\ t = Spot(s.cmd[k].subst[n - Len(s.cmd[k].script)], "", FALSE)
InFile(script, n, t) == n \in DOMAIN script /\ t = Spot(script[n], "namespace", TRUE) /\ Stands(t.cmd, << >>, n)

\* Every command is reached from the word of another one or stands in the file.
InWord(script, s, k, n, t) ==
  /\ s \in Spots(script) /\ k \in DOMAIN s.cmd /\ Stands(t.cmd, s.cmd[k].at, n)
  /\ InBody(script, s, k, n, t) \/ InBrackets(s, k, n, t)

LEMMA InScript ==
  ASSUME NEW script \in Sources, NEW s \in Spots(script), NEW k \in DOMAIN s.cmd, NEW c
  PROVE  /\ c \in ToSet(s.cmd[k].script) =>
              \E n \in DOMAIN s.cmd[k].script : n \in Nat /\ c = s.cmd[k].script[n] /\ Stands(c, s.cmd[k].at, n)
         /\ c \in ToSet(s.cmd[k].subst) =>
              \E n \in Nat : /\ n - Len(s.cmd[k].script) \in DOMAIN s.cmd[k].subst
                             /\ c = s.cmd[k].subst[n - Len(s.cmd[k].script)] /\ Stands(c, s.cmd[k].at, n)
<1> DEFINE u == s.cmd[k].script
           v == s.cmd[k].subst
           w == u \o v
           at == s.cmd[k].at
<1>1. IsSequence(u) /\ IsSequence(v) /\ InPlace(w, at)
  BY SpotIs
<1> HIDE DEF u, v, at
<1>2. Len(u) \in Nat /\ DOMAIN u = 1..Len(u) /\ Len(v) \in Nat /\ DOMAIN v = 1..Len(v)
  BY <1>1 DEF IsSequence
<1>3. /\ \A n \in 1..Len(u) : n \in DOMAIN w /\ w[n] = u[n]
      /\ \A n \in 1..Len(v) : Len(u) + n \in DOMAIN w /\ w[Len(u) + n] = v[n]
  <2> DEFINE S == ToSet(u) \cup ToSet(v)
  <2>1. u \in Seq(S) /\ v \in Seq(S)
    BY <1>1 DEF IsSequence
  <2> HIDE DEF S
  <2>2. QED
    BY <1>2, <2>1
<1>4. \A n \in DOMAIN w : Stands(w[n], at, n)
  BY <1>1 DEF InPlace, Stands
<1> HIDE DEF w
<1>5. ASSUME NEW n \in 1..Len(u) PROVE Stands(u[n], at, n)
  BY <1>3, <1>4, <1>5
<1>6. ASSUME NEW n \in 1..Len(v) PROVE Stands(v[n], at, Len(u) + n)
  BY <1>3, <1>4, <1>6
<1>7. ASSUME c \in ToSet(u) PROVE \E n \in DOMAIN u : n \in Nat /\ c = u[n] /\ Stands(c, at, n)
  BY <1>2, <1>5, <1>7 DEF ToSet
<1>8. ASSUME c \in ToSet(v) PROVE \E n \in Nat : n - Len(u) \in DOMAIN v /\ c = v[n - Len(u)] /\ Stands(c, at, n)
  <2>1. PICK m \in DOMAIN v : c = v[m]
    BY <1>8 DEF ToSet
  <2> DEFINE n == Len(u) + m
  <2>2. n \in Nat /\ n - Len(u) = m /\ Stands(c, at, n)
    BY <1>2, <1>6, <2>1
  <2> HIDE DEF n
  <2>3. n - Len(u) \in DOMAIN v /\ c = v[n - Len(u)]
    BY <2>1, <2>2
  <2>4. QED
    BY <2>2, <2>3
<1>9. QED
  BY <1>7, <1>8 DEF u, v, at

\* What a command in brackets, or the brackets of a command, lead to.
LEMMA BelowComes ==
  ASSUME NEW script \in Sources, NEW s \in Spots(script), NEW c,
         c \in Bracketed(s.cmd) \/ (~s.listed /\ c \in BodyCommands(s.cmd))
  PROVE  \E k, n : n \in Nat /\ InWord(script, s, k, n, Spot(c, "", FALSE))
<1> DEFINE t == Spot(c, "", FALSE)
<1>0. t.cmd = c /\ t.frame = "" /\ t.listed = FALSE
  BY DEF Spot
<1>1. PICK d \in 0..Nesting : HasCommandWords(s.cmd, d)
  BY SpotIs
<1>2. CASE c \in Bracketed(s.cmd)
  <2>1. PICK w \in Substituting(s.cmd) : c \in ToSet(w.subst) /\ (w.kind # "braced" \/ w \in ToSet(exprBodies(s.cmd)))
    BY <1>2 DEF Bracketed
  <2>2. PICK k \in DOMAIN s.cmd : w = s.cmd[k]
    BY <1>1, SubstitutingIs
  <2>3. Substitutes(s.cmd, k)
    BY <2>1, <2>2 DEF Substitutes
  <2>4. PICK n \in Nat : /\ n - Len(s.cmd[k].script) \in DOMAIN s.cmd[k].subst
                         /\ c = s.cmd[k].subst[n - Len(s.cmd[k].script)] /\ Stands(c, s.cmd[k].at, n)
    BY <2>1, <2>2, InScript
  <2>5. InBrackets(s, k, n, t)
    BY <2>3, <2>4 DEF InBrackets
  <2> HIDE DEF t
  <2>6. InWord(script, s, k, n, t)
    BY <1>0, <2>4, <2>5 DEF InWord
  <2>7. QED
    BY <2>6 DEF t
<1>3. CASE ~s.listed /\ c \in BodyCommands(s.cmd)
  <2>1. PICK b \in ToSet(childBodies(s.cmd, TopLevel)) : c \in ToSet(b.script)
    BY <1>3 DEF BodyCommands
  <2>2. PICK k \in DOMAIN s.cmd : b.script = s.cmd[k].script /\ b.at = s.cmd[k].at
    BY <1>1, ChildBodiesAre DEF FromWords
  <2>3. PICK n \in DOMAIN s.cmd[k].script : n \in Nat /\ c = s.cmd[k].script[n] /\ Stands(c, s.cmd[k].at, n)
    BY <2>1, <2>2, InScript
  <2>4. b \in BodiesAt(script, s)
    BY <1>3 DEF BodiesAt, Contexts
  <2> HIDE DEF t
  <2>5. s.listed \in BOOLEAN
    BY SpotBy
  <2>6. InBody(script, s, k, n, t)
    BY <1>0, <1>3, <2>2, <2>3, <2>4, <2>5 DEF InBody
  <2>7. InWord(script, s, k, n, t)
    BY <1>0, <2>3, <2>6 DEF InWord
  <2>8. QED
    BY <2>3, <2>7 DEF t
<1>4. QED
  BY <1>2, <1>3

LEMMA SpotComes ==
  ASSUME NEW script \in Sources, NEW t \in Spots(script)
  PROVE  \E n \in Nat : InFile(script, n, t) \/ \E s, k : InWord(script, s, k, n, t)
<1>0. script \in Script(Nesting) /\ InPlace(script, << >>) /\ Nesting \in 0..Nesting
  BY SourcesAre, NestingAssumption
<1>1. IsSequence(script)
  BY <1>0, ScriptIs
<1>2. CASE \E q \in PointOf(script) : t = Spot(q.cmd, q.frame, TRUE)
  <2>1. PICK q \in PointOf(script) : t = Spot(q.cmd, q.frame, TRUE)
    BY <1>2
  <2>2. t.cmd = q.cmd /\ t.frame = q.frame /\ t.listed = TRUE
    BY <2>1 DEF Spot
  <2>3. Comes(q, File(script)) \/ \E p \in PointOf(script) : \E b \in ToSet(childBodies(p.cmd, p)) : Comes(q, b)
    BY <1>0, WalkReaches DEF Held, PointOf
  <2>4. CASE Comes(q, File(script))
    <3>1. q.cmd \in ToSet(script) /\ q.frame = "namespace"
      BY <2>4 DEF Comes, File, Staying, Lies, TopLevel
    <3>2. PICK n \in DOMAIN script : q.cmd = script[n]
      BY <3>1 DEF ToSet
    <3>3. n \in Nat
      BY <1>1 DEF IsSequence
    <3>4. Stands(script[n], << >>, n)
      BY <1>0 DEF InPlace, Stands
    <3>5. InFile(script, n, t)
      BY <2>1, <2>2, <3>1, <3>2, <3>4 DEF InFile
    <3>6. QED
      BY <3>3, <3>5
  <2>5. CASE \E p \in PointOf(script) : \E b \in ToSet(childBodies(p.cmd, p)) : Comes(q, b)
    <3>1. PICK p \in PointOf(script) : \E b \in ToSet(childBodies(p.cmd, p)) : Comes(q, b)
      BY <2>5
    <3>2. PICK b \in ToSet(childBodies(p.cmd, p)) : Comes(q, b)
      BY <3>1
    <3> DEFINE s == Spot(p.cmd, p.frame, TRUE)
    <3>3. s \in Spots(script) /\ s.cmd = p.cmd /\ s.frame = p.frame /\ s.listed = TRUE
      BY DEF Spots, Spot
    <3> HIDE DEF s
    <3>4. PICK d \in 0..Nesting : HasCommandWords(s.cmd, d)
      BY <3>3, SpotIs
    <3>5. PICK k \in DOMAIN s.cmd : b.script = s.cmd[k].script /\ b.at = s.cmd[k].at
      BY <3>3, <3>4, ChildBodiesAre DEF FromWords
    <3>6. q.cmd \in ToSet(s.cmd[k].script) /\ q.frame = b.frame
      BY <3>2, <3>5 DEF Comes, Lies
    <3>7. PICK n \in DOMAIN s.cmd[k].script : n \in Nat /\ q.cmd = s.cmd[k].script[n] /\ Stands(q.cmd, s.cmd[k].at, n)
      BY <3>3, <3>6, InScript
    <3>8. b \in BodiesAt(script, s)
      BY <3>3 DEF BodiesAt, Contexts
    <3>9. InBody(script, s, k, n, t)
      BY <2>2, <3>3, <3>5, <3>6, <3>7, <3>8 DEF InBody
    <3>10. InWord(script, s, k, n, t)
      BY <2>2, <3>3, <3>7, <3>9 DEF InWord
    <3>11. QED
      BY <3>7, <3>10
  <2>6. QED
    BY <2>3, <2>4, <2>5
<1>3. CASE \E q \in PointOf(script) : \E c \in substRefs(q.cmd) : t = Spot(c, "", FALSE)
  <2>1. PICK q \in PointOf(script) : \E c \in substRefs(q.cmd) : t = Spot(c, "", FALSE)
    BY <1>3
  <2>2. PICK c \in substRefs(q.cmd) : t = Spot(c, "", FALSE)
    BY <2>1
  <2>3. PICK n \in 0..Nesting : q.cmd \in Command(n)
    BY <1>0, PointIs
  <2>4. c \in Bracketed(q.cmd) \/ \E x \in substRefs(q.cmd) : c \in Bracketed(x) \cup BodyCommands(x)
    BY <2>3, SubstRefsAre
  <2>5. CASE c \in Bracketed(q.cmd)
    <3> DEFINE s == Spot(q.cmd, q.frame, TRUE)
    <3>1. s \in Spots(script) /\ s.cmd = q.cmd
      BY DEF Spots, Spot
    <3> HIDE DEF s
    <3>2. \E k, m : m \in Nat /\ InWord(script, s, k, m, t)
      BY <2>2, <2>5, <3>1, BelowComes
    <3>3. QED
      BY <3>2
  <2>6. CASE \E x \in substRefs(q.cmd) : c \in Bracketed(x) \cup BodyCommands(x)
    <3>1. PICK x \in substRefs(q.cmd) : c \in Bracketed(x) \cup BodyCommands(x)
      BY <2>6
    <3> DEFINE s == Spot(x, "", FALSE)
    <3>2. s \in Spots(script) /\ s.cmd = x /\ s.listed = FALSE
      BY DEF Spots, Spot
    <3> HIDE DEF s
    <3>3. \E k, m : m \in Nat /\ InWord(script, s, k, m, t)
      BY <2>2, <3>1, <3>2, BelowComes
    <3>4. QED
      BY <3>3
  <2>7. QED
    BY <2>4, <2>5, <2>6
<1>4. QED
  BY <1>2, <1>3 DEF Spots

----------------------------------------------------------------------------
(* A place is that of one word, and the words around it are opened.        *)

\* Two places inside words, and what it says of these that one begins with
\* the other.
Put(at, n, i) == at \o <<n, i>>

LEMMA PlacesAre ==
  ASSUME NEW at \in Seq(Nat), NEW n, NEW i, NEW to \in Seq(Nat), NEW m, NEW j
  PROVE  /\ Len(Put(at, n, i)) = Len(at) + 2
         /\ Put(at, n, i) = Put(to, m, j) => at = to /\ n = m /\ i = j
<1> DEFINE a == at \o <<n, i>>
           b == to \o <<m, j>>
           x == Len(at)
           y == Len(to)
<1>1. x \in Nat /\ y \in Nat /\ Len(<<n, i>>) = 2 /\ Len(<<m, j>>) = 2
  OBVIOUS
<1>2. /\ Len(a) = x + 2 /\ \A k \in 1..x : a[k] = at[k]
      /\ a[x + 1] = n /\ a[x + 2] = i
  OBVIOUS
<1>3. /\ Len(b) = y + 2 /\ \A k \in 1..y : b[k] = to[k]
      /\ b[y + 1] = m /\ b[y + 2] = j
  OBVIOUS
<1> HIDE DEF a, b
<1>4. ASSUME a = b PROVE at = to /\ n = m /\ i = j
  <2>1. x = y
    BY <1>1, <1>2, <1>3, <1>4
  <2>2. \A k \in 1..x : at[k] = to[k]
    BY <1>2, <1>3, <1>4, <2>1
  <2>3. at = to
    BY <2>1, <2>2
  <2>4. n = m /\ i = j
    BY <1>2, <1>3, <1>4, <2>1
  <2>5. QED
    BY <2>3, <2>4
<1>5. QED
  BY <1>2, <1>4 DEF a, b, Put

LEMMA PrefixIs ==
  ASSUME NEW s \in Seq(Nat), NEW at \in Seq(Nat), NEW n \in Nat, NEW i \in Nat, IsPrefix(s, Put(at, n, i))
  PROVE  /\ Len(s) <= Len(at) => IsPrefix(s, at)
         /\ Len(s) <= Len(at) + 2
         /\ Len(s) = Len(at) + 2 => s = Put(at, n, i)
<1> DEFINE t == Put(at, n, i)
<1>1. t \in Seq(Nat) /\ Len(t) = Len(at) + 2 /\ \A k \in 1..Len(at) : t[k] = at[k]
  BY DEF Put
<1>2. IsPrefix(s, t)
  OBVIOUS
<1> HIDE DEF t
<1>3. Len(s) <= Len(t) /\ SubSeq(s, 1, Len(s)) = SubSeq(t, 1, Len(s))
  BY <1>2 DEF IsPrefix
<1>4. \A k \in 1..Len(s) : s[k] = t[k]
  <2>1. \A k \in 1..Len(s) : SubSeq(s, 1, Len(s))[k] = s[k] /\ SubSeq(t, 1, Len(s))[k] = t[k]
    BY <1>1, <1>3
  <2>2. QED
    BY <1>3, <2>1
<1>5. ASSUME Len(s) <= Len(at) PROVE IsPrefix(s, at)
  <2>1. \A k \in 1..Len(s) : s[k] = at[k]
    BY <1>1, <1>4, <1>5
  <2> DEFINE N == Len(s)
             u == SubSeq(s, 1, N)
             v == SubSeq(at, 1, N)
  <2>2. N \in Nat /\ N <= Len(at)
    BY <1>5
  <2>3. u \in Seq(Nat) /\ Len(u) = N /\ \A k \in 1..N : u[k] = s[k]
    BY <2>2
  <2>4. v \in Seq(Nat) /\ Len(v) = N /\ \A k \in 1..N : v[k] = at[k]
    BY <2>2
  <2> HIDE DEF u, v, N
  <2>5. Len(u) = Len(v) /\ \A k \in 1..Len(u) : u[k] = v[k]
    BY <2>1, <2>3, <2>4 DEF N
  <2>6. u = v
    BY <2>3, <2>4, <2>5, SeqEqual
  <2>7. QED
    BY <1>5, <2>6 DEF IsPrefix, u, v, N
<1>6. ASSUME Len(s) = Len(at) + 2 PROVE s = t
  BY <1>1, <1>4, <1>6
<1>7. QED
  BY <1>1, <1>3, <1>5, <1>6 DEF t

\* The place of a word is that of one around it with two numbers more.
Around(script, n, t, at) ==
  \/ InFile(script, n, t) /\ at = << >>
  \/ \E s, k : InWord(script, s, k, n, t) /\ at = s.cmd[k].at

Placed(script, n, t, at) ==
  /\ at \in Seq(Nat) /\ Len(at) \in Nat /\ Around(script, n, t, at)
  /\ \A j \in DOMAIN t.cmd : j \in Nat /\ t.cmd[j].at = Put(at, n, j) /\ Len(t.cmd[j].at) = Len(at) + 2

LEMMA PlaceIs ==
  ASSUME NEW script \in Sources, NEW t \in Spots(script)
  PROVE  \E n \in Nat : \E at : Placed(script, n, t, at)
<1>1. PICK n \in Nat : InFile(script, n, t) \/ \E s, k : InWord(script, s, k, n, t)
  BY SpotComes
<1>2. \A j \in DOMAIN t.cmd : j \in Nat
  BY SpotIs DEF HasCommandWords
<1>3. ASSUME NEW at \in Seq(Nat), Stands(t.cmd, at, n), Around(script, n, t, at)
      PROVE  Placed(script, n, t, at)
  <2>1. \A j \in DOMAIN t.cmd : t.cmd[j].at = Put(at, n, j)
    BY <1>3 DEF Stands, Put
  <2>2. \A j : Len(Put(at, n, j)) = Len(at) + 2
    BY <1>3, PlacesAre
  <2>3. Len(at) \in Nat
    OBVIOUS
  <2>4. QED
    BY <1>2, <1>3, <2>1, <2>2, <2>3 DEF Placed
<1>4. CASE InFile(script, n, t)
  <2>1. Around(script, n, t, << >>)
    BY <1>4 DEF Around
  <2>2. Stands(t.cmd, << >>, n)
    BY <1>4 DEF InFile
  <2>3. << >> \in Seq(Nat)
    OBVIOUS
  <2>4. QED
    BY <1>3, <2>1, <2>2, <2>3
<1>5. CASE \E s, k : InWord(script, s, k, n, t)
  <2>1. PICK s, k : InWord(script, s, k, n, t)
    BY <1>5
  <2>2. Around(script, n, t, s.cmd[k].at)
    BY <2>1 DEF Around
  <2>3. Stands(t.cmd, s.cmd[k].at, n) /\ s.cmd[k].at \in Seq(Nat)
    BY <2>1, SpotIs DEF InWord
  <2>4. QED
    BY <1>3, <2>2, <2>3
<1>6. QED
  BY <1>1, <1>4, <1>5

\* A word leads to one command at each number.
LEMMA OneInWord ==
  ASSUME NEW script \in Sources, NEW r, NEW k, NEW n \in Nat, NEW s \in Spots(script), NEW t \in Spots(script),
         InWord(script, r, k, n, s), InWord(script, r, k, n, t)
  PROVE  s = t
<1> DEFINE u == r.cmd[k].script
<1>1. r \in Spots(script) /\ k \in DOMAIN r.cmd
  BY DEF InWord
<1>2. IsSequence(u) /\ IsSequence(r.cmd[k].subst)
  BY <1>1, SpotIs
<1>3. Len(u) \in Nat /\ DOMAIN u = 1..Len(u) /\ \A i \in DOMAIN r.cmd[k].subst : i \in Nat /\ i >= 1
  BY <1>2 DEF IsSequence
<1>4. ASSUME NEW x, InBrackets(r, k, n, x) PROVE n \notin DOMAIN u
  <2>1. n - Len(u) \in DOMAIN r.cmd[k].subst
    BY <1>4 DEF InBrackets
  <2> HIDE DEF u
  <2>2. n - Len(u) >= 1
    BY <1>3, <2>1
  <2>3. QED
    BY <1>3, <2>2
<1>5. \A x : InBody(script, r, k, n, x) => n \in DOMAIN u
  BY DEF InBody
<1>6. PICK d : HasCommandWords(r.cmd, d)
  BY <1>1, SpotIs
<1>7. CASE InBody(script, r, k, n, s) /\ InBody(script, r, k, n, t)
  <2>1. s.cmd = t.cmd /\ s.listed = t.listed
    BY <1>7 DEF InBody
  <2>2. PICK b \in BodiesAt(script, r) : s.frame = IF r.listed THEN b.frame ELSE ""
    BY <1>7 DEF InBody
  <2>3. PICK e \in BodiesAt(script, r) : t.frame = IF r.listed THEN e.frame ELSE ""
    BY <1>7 DEF InBody
  <2>4. PICK p \in Contexts(script, r) : b \in ToSet(childBodies(r.cmd, p))
    BY DEF BodiesAt
  <2>5. PICK q \in Contexts(script, r) : e \in ToSet(childBodies(r.cmd, q))
    BY DEF BodiesAt
  <2>6. p.frame = q.frame
    <3>1. CASE r.listed
      BY <3>1 DEF Contexts
    <3>2. CASE ~r.listed
      BY <3>2 DEF Contexts
    <3>3. QED
      BY <3>1, <3>2
  <2>7. b.frame = e.frame
    BY <1>6, <2>4, <2>5, <2>6, SameFrame
  <2>8. s.frame = t.frame
    BY <2>2, <2>3, <2>7
  <2>9. s = Spot(s.cmd, s.frame, s.listed) /\ t = Spot(t.cmd, t.frame, t.listed)
    BY SpotBy
  <2>10. QED
    BY <2>1, <2>8, <2>9
<1>8. CASE InBrackets(r, k, n, s) /\ InBrackets(r, k, n, t)
  BY <1>8 DEF InBrackets
<1>9. QED
  BY <1>4, <1>5, <1>7, <1>8 DEF InWord

\* What holds of a word if it holds of the word around it holds of every word.
LEMMA Inward ==
  ASSUME NEW script \in Sources, NEW P,
         \A t \in Spots(script) : \A j \in DOMAIN t.cmd :
           (\A n \in Nat : \A s, k : InWord(script, s, k, n, t) => <<s, k>> \in P) => <<t, j>> \in P
  PROVE  \A t \in Spots(script) : \A j \in DOMAIN t.cmd : <<t, j>> \in P
<1> DEFINE Upto(m) == \A t \in Spots(script) : \A j \in DOMAIN t.cmd : Len(t.cmd[j].at) <= m => <<t, j>> \in P
           Q == {m \in Nat : Upto(m)}
<1>1. ASSUME NEW t \in Spots(script), NEW j \in DOMAIN t.cmd, NEW n \in Nat, NEW s, NEW k, InWord(script, s, k, n, t)
      PROVE  /\ s \in Spots(script) /\ k \in DOMAIN s.cmd /\ Len(s.cmd[k].at) \in Nat
             /\ Len(t.cmd[j].at) = Len(s.cmd[k].at) + 2
  <2>1. s \in Spots(script) /\ k \in DOMAIN s.cmd /\ Stands(t.cmd, s.cmd[k].at, n)
    BY <1>1 DEF InWord
  <2>2. s.cmd[k].at \in Seq(Nat)
    BY <2>1, SpotIs
  <2>3. t.cmd[j].at = Put(s.cmd[k].at, n, j)
    BY <2>1 DEF Stands, Put
  <2>4. Len(Put(s.cmd[k].at, n, j)) = Len(s.cmd[k].at) + 2
    BY <2>2, PlacesAre
  <2>5. QED
    BY <2>1, <2>2, <2>3, <2>4
<1>2. ASSUME NEW m \in Nat, m = 0 \/ Upto(m - 1) PROVE Upto(m)
  <2> SUFFICES ASSUME NEW t \in Spots(script), NEW j \in DOMAIN t.cmd, Len(t.cmd[j].at) <= m PROVE <<t, j>> \in P
    OBVIOUS
  <2>1. ASSUME NEW n \in Nat, NEW s, NEW k, InWord(script, s, k, n, t) PROVE <<s, k>> \in P
    <3>1. /\ s \in Spots(script) /\ k \in DOMAIN s.cmd /\ Len(s.cmd[k].at) \in Nat
          /\ Len(t.cmd[j].at) = Len(s.cmd[k].at) + 2
      BY <1>1, <2>1
    <3>2. m # 0 /\ Len(s.cmd[k].at) <= m - 1
      BY <3>1
    <3>3. QED
      BY <1>2, <3>1, <3>2
  <2>2. QED
    BY <2>1
<1> HIDE DEF Upto
<1>3. 0 \in Q
  BY <1>2
<1>4. \A m \in Nat : m \in Q => m + 1 \in Q
  <2> TAKE m \in Nat
  <2> DEFINE o == m + 1
  <2>1. o \in Nat /\ o - 1 = m
    OBVIOUS
  <2> HIDE DEF o
  <2>2. QED
    BY <1>2, <2>1 DEF o
<1> HIDE DEF Q
<1>5. ASSUME NEW t \in Spots(script), NEW j \in DOMAIN t.cmd PROVE <<t, j>> \in P
  <2> DEFINE N == Len(t.cmd[j].at)
  <2>1. N \in Nat
    BY SpotIs
  <2> HIDE DEF N
  <2>2. \A m \in 0..(N - 1) : m \in Q => m + 1 \in Q
    BY <1>4, <2>1
  <2>3. 0..N \subseteq Q
    BY <1>3, <2>1, <2>2, UpTo
  <2>4. Upto(N)
    BY <2>1, <2>3 DEF Q
  <2>5. QED
    BY <2>1, <2>4 DEF Upto, N
<1>6. QED
  BY <1>5

\* No two words have the same place.
LEMMA OneSpot ==
  ASSUME NEW script \in Sources, NEW s \in Spots(script), NEW i \in DOMAIN s.cmd,
         NEW t \in Spots(script), NEW j \in DOMAIN t.cmd, s.cmd[i].at = t.cmd[j].at
  PROVE  s = t /\ i = j
<1> DEFINE Alone(x, k) == \A y \in Spots(script) : \A l \in DOMAIN y.cmd : x.cmd[k].at = y.cmd[l].at => x = y /\ k = l
           W == {<<x, k>> : x \in Spots(script), k \in UNION {DOMAIN x.cmd : x \in Spots(script)}}
           P == {w \in W : Alone(w[1], w[2])}
<1>1. \A x \in Spots(script) : \A k \in DOMAIN x.cmd : <<x, k>> \in P <=> Alone(x, k)
  OBVIOUS
<1>2. ASSUME NEW x \in Spots(script), NEW k \in DOMAIN x.cmd,
             \A n \in Nat : \A z, v : InWord(script, z, v, n, x) => <<z, v>> \in P
      PROVE  <<x, k>> \in P
  <2> HIDE DEF P
  <2> SUFFICES ASSUME NEW y \in Spots(script), NEW l \in DOMAIN y.cmd, x.cmd[k].at = y.cmd[l].at
               PROVE  x = y /\ k = l
    BY <1>1
  <2> HIDE DEF Alone
  <2>1. PICK n \in Nat : \E at : Placed(script, n, x, at)
    BY PlaceIs
  <2>2. PICK at : Placed(script, n, x, at)
    BY <2>1
  <2>3. PICK o \in Nat : \E to : Placed(script, o, y, to)
    BY PlaceIs
  <2>4. PICK to : Placed(script, o, y, to)
    BY <2>3
  <2>5. Put(at, n, k) = Put(to, o, l) /\ at \in Seq(Nat) /\ to \in Seq(Nat)
    BY <2>2, <2>4 DEF Placed
  <2>6. at = to /\ n = o /\ k = l
    BY <2>5, PlacesAre
  <2>7. \A z, v, w : InWord(script, z, v, n, w) => z \in Spots(script) /\ v \in DOMAIN z.cmd
    BY DEF InWord
  <2>8. ASSUME NEW z \in Spots(script), NEW v \in DOMAIN z.cmd PROVE z.cmd[v].at # << >>
    <3>1. PICK o1 \in Nat : \E a : Placed(script, o1, z, a)
      BY PlaceIs
    <3>2. PICK a : Placed(script, o1, z, a)
      BY <3>1
    <3>3. Len(z.cmd[v].at) = Len(a) + 2 /\ Len(a) \in Nat
      BY <3>2 DEF Placed
    <3>4. Len(z.cmd[v].at) # 0
      BY <3>3
    <3>5. QED
      BY <3>4
  <2>9. CASE InFile(script, n, x) /\ at = << >>
    <3>1. InFile(script, n, y)
      BY <2>4, <2>6, <2>7, <2>8, <2>9 DEF Around, Placed
    <3>2. QED
      BY <2>6, <2>9, <3>1 DEF InFile
  <2>10. CASE \E z, v : InWord(script, z, v, n, x) /\ at = z.cmd[v].at
    <3>1. PICK z, v : InWord(script, z, v, n, x) /\ at = z.cmd[v].at
      BY <2>10
    <3>2. at # << >>
      BY <2>7, <2>8, <3>1
    <3>3. PICK zz, vv : InWord(script, zz, vv, n, y) /\ at = zz.cmd[vv].at
      BY <2>4, <2>6, <3>2 DEF Around, Placed
    <3>4. z \in Spots(script) /\ v \in DOMAIN z.cmd /\ zz \in Spots(script) /\ vv \in DOMAIN zz.cmd
      BY <2>7, <3>1, <3>3
    <3>5. Alone(z, v)
      BY <1>1, <1>2, <3>1, <3>4
    <3>6. z = zz /\ v = vv
      BY <3>1, <3>3, <3>4, <3>5 DEF Alone
    <3>7. x = y
      BY <3>1, <3>3, <3>6, OneInWord
    <3>8. QED
      BY <2>6, <3>7
  <2>11. QED
    BY <2>2, <2>9, <2>10 DEF Around, Placed
<1>3. <<s, i>> \in P
  <2> HIDE DEF P
  <2>1. QED
    BY <1>2, Inward
<1>4. QED
  BY <1>1, <1>3

\* A path has two numbers for every word.
LEMMA EvenIs ==
  ASSUME NEW script \in Sources, NEW s \in Spots(script), NEW i \in DOMAIN s.cmd
  PROVE  \E q \in Nat : Len(s.cmd[i].at) = 2 * q
<1> DEFINE W == {<<x, k>> : x \in Spots(script), k \in UNION {DOMAIN x.cmd : x \in Spots(script)}}
           P == {w \in W : \E q \in Nat : Len(w[1].cmd[w[2]].at) = 2 * q}
<1>1. \A x \in Spots(script) : \A k \in DOMAIN x.cmd : <<x, k>> \in P <=> \E q \in Nat : Len(x.cmd[k].at) = 2 * q
  OBVIOUS
<1> HIDE DEF P
<1>2. ASSUME NEW x \in Spots(script), NEW k \in DOMAIN x.cmd,
             \A n \in Nat : \A z, v : InWord(script, z, v, n, x) => <<z, v>> \in P
      PROVE  <<x, k>> \in P
  <2>1. PICK n \in Nat : \E at : Placed(script, n, x, at)
    BY PlaceIs
  <2>2. PICK at : Placed(script, n, x, at)
    BY <2>1
  <2>3. Len(x.cmd[k].at) = Len(at) + 2 /\ Around(script, n, x, at)
    BY <2>2 DEF Placed
  <2>4. CASE at = << >>
    <3>1. Len(x.cmd[k].at) = 2 * 1
      BY <2>3, <2>4
    <3>2. QED
      BY <1>1, <3>1
  <2>5. CASE \E z, v : InWord(script, z, v, n, x) /\ at = z.cmd[v].at
    <3>1. PICK z, v : InWord(script, z, v, n, x) /\ at = z.cmd[v].at
      BY <2>5
    <3>2. <<z, v>> \in P /\ z \in Spots(script) /\ v \in DOMAIN z.cmd
      BY <1>2, <3>1 DEF InWord
    <3>3. PICK q \in Nat : Len(at) = 2 * q
      BY <1>1, <3>1, <3>2
    <3>4. Len(x.cmd[k].at) = 2 * (q + 1) /\ q + 1 \in Nat
      BY <2>3, <3>3
    <3>5. QED
      BY <1>1, <3>4
  <2>6. QED
    BY <2>3, <2>4, <2>5 DEF Around
<1>3. <<s, i>> \in P
  BY <1>2, Inward
<1>4. QED
  BY <1>1, <1>3

\* A word that a command stands inside is opened.
LEMMA AroundOpened ==
  ASSUME NEW script \in Sources, NEW s \in Spots(script), NEW i \in DOMAIN s.cmd,
         NEW t \in Spots(script), NEW j \in DOMAIN t.cmd, IsPrefix(s.cmd[i].at, t.cmd[j].at)
  PROVE  (s = t /\ i = j) \/ Opened(script, s, i)
<1> DEFINE Fine(x, k) == IsPrefix(s.cmd[i].at, x.cmd[k].at) => (s = x /\ i = k) \/ Opened(script, s, i)
           W == {<<x, k>> : x \in Spots(script), k \in UNION {DOMAIN x.cmd : x \in Spots(script)}}
           P == {w \in W : Fine(w[1], w[2])}
           a == s.cmd[i].at
<1>1. \A x \in Spots(script) : \A k \in DOMAIN x.cmd : <<x, k>> \in P <=> Fine(x, k)
  OBVIOUS
<1>2. PICK q \in Nat : Len(a) = 2 * q
  BY EvenIs
<1>3. a \in Seq(Nat) /\ Len(a) > 0
  <2>1. PICK o1 \in Nat : \E to : Placed(script, o1, s, to)
    BY PlaceIs
  <2>2. PICK to : Placed(script, o1, s, to)
    BY <2>1
  <2>3. Len(a) = Len(to) + 2 /\ Len(to) \in Nat
    BY <2>2 DEF Placed
  <2>4. a \in Seq(Nat)
    BY SpotIs
  <2> HIDE DEF a
  <2>5. QED
    BY <2>3, <2>4
<1>4. ASSUME NEW x \in Spots(script), NEW k \in DOMAIN x.cmd,
             \A n \in Nat : \A z, v : InWord(script, z, v, n, x) => <<z, v>> \in P
      PROVE  <<x, k>> \in P
  <2> HIDE DEF P
  <2> SUFFICES ASSUME IsPrefix(a, x.cmd[k].at)
               PROVE  (s = x /\ i = k) \/ Opened(script, s, i)
    BY <1>1
  <2>1. PICK n \in Nat : \E at : Placed(script, n, x, at)
    BY PlaceIs
  <2>2. PICK at : Placed(script, n, x, at)
    BY <2>1
  <2>3. /\ x.cmd[k].at = Put(at, n, k) /\ Len(x.cmd[k].at) = Len(at) + 2 /\ Around(script, n, x, at)
        /\ at \in Seq(Nat) /\ Len(at) \in Nat /\ k \in Nat
    BY <2>2 DEF Placed
  <2>4. PICK r \in Nat : Len(x.cmd[k].at) = 2 * r
    BY EvenIs
  <2> HIDE DEF a, Fine
  <2>5. /\ Len(a) <= Len(at) => IsPrefix(a, at)
        /\ Len(a) <= Len(at) + 2
        /\ Len(a) = Len(at) + 2 => a = Put(at, n, k)
    BY <1>3, <2>3, PrefixIs
  <2>6. Len(a) # Len(at) + 1
    BY <1>2, <2>3, <2>4
  <2>7. CASE Len(a) = Len(at) + 2
    <3>1. s.cmd[i].at = x.cmd[k].at
      BY <2>3, <2>5, <2>7 DEF a
    <3>2. QED
      BY <3>1, OneSpot
  <2>8. CASE Len(a) <= Len(at)
    <3>1. at # << >>
      BY <1>2, <1>3, <2>8
    <3>2. PICK z, v : InWord(script, z, v, n, x) /\ at = z.cmd[v].at
      BY <2>3, <3>1 DEF Around
    <3>3. <<z, v>> \in P /\ z \in Spots(script) /\ v \in DOMAIN z.cmd
      BY <1>4, <3>2 DEF InWord
    <3>4. (s = z /\ i = v) \/ Opened(script, s, i)
      BY <1>1, <2>5, <2>8, <3>2, <3>3 DEF Fine, a
    <3>5. Opened(script, z, v)
      BY <3>2 DEF InWord, InBody, InBrackets, Opened
    <3>6. QED
      BY <3>4, <3>5
  <2>9. QED
    BY <1>2, <2>3, <2>5, <2>6, <2>7, <2>8
<1>5. <<t, j>> \in P
  <2> HIDE DEF P, Fine
  <2>1. QED
    BY <1>4, Inward
<1>6. QED
  BY <1>1, <1>5

\* Nothing inside the word at `at` is a fold or a reference.
Apart(found1, at) == /\ at \notin found1.folds
                     /\ \A r \in found1.refs : ~IsPrefix(at, r.at) \/ r.at = at

\* So it is with a word that is not opened.
LEMMA UnopenedApart ==
  ASSUME NEW script \in Sources, NEW s \in Spots(script), NEW k \in DOMAIN s.cmd, ~Opened(script, s, k)
  PROVE  Apart(FileAll(script), s.cmd[k].at)
<1> DEFINE at == s.cmd[k].at
<1>0. at \in Seq(Nat)
  BY SpotIs
<1>1. ASSUME at \in FileAll(script).folds PROVE FALSE
  <2>1. FileAll(script).folds = UNION {{b.at : b \in ToSet(childBodies(p.cmd, p))} : p \in PointOf(script)}
    BY DEF FileAll, FileFolds, PointOf
  <2>2. PICK p \in PointOf(script) : \E b \in ToSet(childBodies(p.cmd, p)) : b.at = at
    BY <1>1, <2>1
  <2>3. PICK b \in ToSet(childBodies(p.cmd, p)) : b.at = at
    BY <2>2
  <2> DEFINE t == Spot(p.cmd, p.frame, TRUE)
  <2>4. t \in Spots(script) /\ t.cmd = p.cmd /\ t.frame = p.frame /\ t.listed = TRUE
    BY DEF Spots, Spot
  <2> HIDE DEF t
  <2>5. PICK d \in 0..Nesting : HasCommandWords(t.cmd, d)
    BY <2>4, SpotIs
  <2>6. PICK j \in DOMAIN t.cmd : b.at = t.cmd[j].at
    BY <2>4, <2>5, ChildBodiesAre DEF FromWords
  <2>7. s = t /\ k = j
    <3>1. s.cmd[k].at = t.cmd[j].at
      BY <2>3, <2>6
    <3>2. QED
      BY <2>4, <3>1, OneSpot
  <2>8. b \in BodiesAt(script, t)
    BY <2>4 DEF BodiesAt, Contexts
  <2>9. QED
    BY <2>3, <2>7, <2>8 DEF Opened
<1>2. ASSUME NEW r \in FileAll(script).refs, IsPrefix(at, r.at) PROVE r.at = at
  <2>1. FileAll(script).refs = UNION {{Here(x, q) : x \in CommandRefs(q.cmd)} : q \in PointOf(script)}
    BY DEF FileAll, Here, PointOf
  <2>2. PICK q \in PointOf(script) : \E x \in CommandRefs(q.cmd) : r = Here(x, q)
    BY <2>1
  <2>3. PICK x \in CommandRefs(q.cmd) : r = Here(x, q)
    BY <2>2
  <2>4. PICK e \in {q.cmd} \cup substRefs(q.cmd) : x \in OwnRefs(e)
    BY DEF CommandRefs
  <2> DEFINE t == IF e = q.cmd THEN Spot(q.cmd, q.frame, TRUE) ELSE Spot(e, "", FALSE)
  <2>5. t \in Spots(script) /\ t.cmd = e
    BY DEF Spots, Spot
  <2> HIDE DEF t
  <2>6. PICK d \in 0..Nesting : HasCommandWords(t.cmd, d)
    BY <2>5, SpotIs
  <2>7. PICK j \in DOMAIN t.cmd : x.at = t.cmd[j].at
    <3>1. 1 \in DOMAIN t.cmd
      BY <2>6 DEF HasCommandWords
    <3>2. \A w \in Substituting(t.cmd) : \E j \in DOMAIN t.cmd : w = t.cmd[j]
      BY <2>6, SubstitutingIs
    <3>3. x.at = t.cmd[1].at \/ \E w \in Substituting(t.cmd) : x.at = w.at
      BY <2>4, <2>5 DEF OwnRefs
    <3>4. QED
      BY <3>1, <3>2, <3>3
  <2>8. r.at = t.cmd[j].at
    BY <2>3, <2>7 DEF Here
  <2>9. s = t /\ k = j
    BY <1>2, <2>5, <2>8, AroundOpened
  <2>10. QED
    BY <2>8, <2>9
<1>3. QED
  BY <1>1, <1>2 DEF Apart

----------------------------------------------------------------------------
(* The words of data.                                                      *)

\* No body that the command has at the point q is its word k.
Shut(c, k, q) == \A b \in ToSet(childBodies(c, q)) : \E j \in DOMAIN c : j # k /\ b.at = c[j].at

\* Most commands have only their last word for a body.
LEMMA LastBodies ==
  ASSUME NEW d, NEW w, HasCommandWords(w, d), NEW q, ~IsOneOf(w, {"dict", "catch", "for", "if", "try"}),
         decoratedProcDef(w) \in {0, Len(w) - 3}, NEW b \in ToSet(bodiesOf(w, q))
  PROVE  b.at = w[Len(w)].at \/ (isCmd(w, "constructor") /\ Len(w) >= 4 /\ b.at = w[Len(w) - 1].at)
<1> DEFINE last == w[Len(w)]
           Last1(s) == \A x \in ToSet(s) : x.at = last.at
<1>0. Len(w) \in Nat
  BY DEF HasCommandWords
<1>1. \A ns, frame, class : Last1(<<Entering(last, ns, frame, class)>>)
  BY OneElement DEF Entering
<1>2. Last1(<< >>)
  BY EmptySequence
<1>3. Last1(Known(w, Len(w), q))
  BY <1>1 DEF Known
<1> HIDE DEF Last1
<1>4. CASE Enters(w, q) /\ isCmd(w, "namespace") /\ Len(w) >= 4 /\ w[2].text = <<"eval">>
  <2>1. bodiesOf(w, q) = <<Entering(w[Len(w)], qualifyName(w[3].text, q.ns), "namespace", q.class)>>
    BY <1>4, BodiesBy DEF Enters
  <2>2. QED
    BY <1>1, <2>1 DEF Last1
<1>5. CASE Enters(w, q) /\ isCmd(w, "proc") /\ Len(w) >= 4
  <2>1. bodiesOf(w, q) = Known(w, Len(w), q)
    BY <1>5, BodiesBy DEF Enters
  <2>2. QED
    BY <1>3, <2>1 DEF Last1
<1>6. CASE Enters(w, q) /\ IsItcl(w, "class") /\ Len(w) >= 3
  <2>1. bodiesOf(w, q) = <<Entering(w[Len(w)], q.ns, "class", qualifyName(w[2].text, q.ns))>>
    BY <1>6, BodiesBy DEF Enters
  <2>2. QED
    BY <1>1, <2>1 DEF Last1
<1>7. CASE Enters(w, q) /\ IsItcl(w, "body") /\ Len(w) >= 4
  <2>1. bodiesOf(w, q) = Where(Front(w[2].text) \notin {<< >>, <<"">>},
                               <<Entering(w[Len(w)], q.ns, "proc", ClassOfBody(w[2].text, q.ns))>>)
    BY <1>7, BodiesBy DEF Enters
  <2>2. Last1(bodiesOf(w, q))
    BY <1>1, <1>2, <2>1 DEF Where
  <2>3. QED
    BY <2>2 DEF Last1
<1>8. CASE Enters(w, q) /\ IsMember(w, q)
  <2> DEFINE second == isCmd(w, "constructor") /\ Len(w) >= 4 /\ Braced(w, Len(w) - 1)
             init == Where(second, Known(w, Len(w) - 1, q))
  <2>1. bodiesOf(w, q) = Where(Len(w) >= minMemberBodyWords(w), Known(w, Len(w), q) \o init)
    BY <1>8, BodiesBy DEF Enters
  <2>2. IsSequence(init) /\ \A x \in ToSet(init) : second /\ x.at = w[Len(w) - 1].at
    BY EmptySequence, OneElement DEF Where, Known, Entering
  <2>3. IsSequence(Known(w, Len(w), q))
    BY OneElement DEF Known
  <2> HIDE DEF init, second
  <2>4. ToSet(Known(w, Len(w), q) \o init) = ToSet(Known(w, Len(w), q)) \cup ToSet(init)
    BY <2>2, <2>3, Joined
  <2>5. b \in ToSet(Known(w, Len(w), q) \o init)
    BY <2>1, EmptySequence DEF Where
  <2>6. b.at = last.at \/ (second /\ b.at = w[Len(w) - 1].at)
    BY <1>3, <2>2, <2>4, <2>5 DEF Last1
  <2>7. QED
    BY <2>6 DEF second
<1>9. CASE ~Enters(w, q)
  <2>1. bodiesOf(w, q) = IF decoratedProcDef(w) > 0 THEN Known(w, decoratedProcDef(w) + 3, q) ELSE Stay(w, q)
    BY <1>9, BodiesBy
  <2>2. decoratedProcDef(w) > 0 => decoratedProcDef(w) + 3 = Len(w)
    BY <1>0
  <2>3. Last1(Stay(w, q))
    <3>1. scriptBodies(w) = << >> \/ scriptBodies(w) = <<last>>
      BY ScriptBodiesBy DEF Where, LastBody
    <3>2. \A i \in DOMAIN scriptBodies(w) : scriptBodies(w)[i] = last
      BY <3>1
    <3>3. \A i \in DOMAIN scriptBodies(w) : Stay(w, q)[i].at = last.at
      BY <3>2 DEF Stay, Staying
    <3>4. DOMAIN Stay(w, q) = DOMAIN scriptBodies(w)
      BY DEF Stay
    <3>5. QED
      BY <3>3, <3>4 DEF Last1, ToSet
  <2>4. Last1(bodiesOf(w, q))
    BY <1>3, <2>1, <2>2, <2>3
  <2>5. QED
    BY <2>4 DEF Last1
<1>10. QED
  BY <1>4, <1>5, <1>6, <1>7, <1>8, <1>9 DEF Enters

\* A command that Tcl's conventions do not decorate is not decorated.
LEMMA Undecorated ==
  ASSUME NEW d, NEW c, HasCommandWords(c, d), HasWords(c), ~IsOneOf(c, {"CACHE_PROC"} \cup Modifiers)
  PROVE  decoratedProcDef(c) = 0
<1>1. ~(decoratedProcDef(c) > 0)
  BY DEF HasWords
<1>2. Len(c) \in Nat
  BY DEF HasCommandWords
<1>3. QED
  BY <1>1, <1>2, DecoratedIs

\* A word before the last one and before the bodies of a constructor.
LEMMA EarlierShut ==
  ASSUME NEW d, NEW c, HasCommandWords(c, d), HasWords(c), NEW q, NEW k \in DOMAIN c, k < Len(c),
         ~IsKeyword(c[1], Modifiers), isCmd(c, "constructor") => k = 2,
         ~IsOneOf(c, {"dict", "catch", "for", "if", "try"}), ~IsOneOf(c, {"CACHE_PROC"} \cup Modifiers)
  PROVE  Shut(c, k, q)
<1>1. decoratedProcDef(c) = 0 /\ childBodies(c, q) = bodiesOf(c, q)
  BY Undecorated, NotModified
<1>2. Len(c) \in Nat /\ DOMAIN c = 1..Len(c)
  BY DEF HasCommandWords
<1> SUFFICES ASSUME NEW b \in ToSet(bodiesOf(c, q)) PROVE \E j \in DOMAIN c : j # k /\ b.at = c[j].at
  BY <1>1 DEF Shut
<1>3. decoratedProcDef(c) \in {0, Len(c) - 3}
  BY <1>1
<1>4. b.at = c[Len(c)].at \/ (isCmd(c, "constructor") /\ Len(c) >= 4 /\ b.at = c[Len(c) - 1].at)
  BY <1>3, LastBodies
<1>5. Len(c) \in DOMAIN c /\ Len(c) # k
  BY <1>2
<1>6. isCmd(c, "constructor") /\ Len(c) >= 4 => Len(c) - 1 \in DOMAIN c /\ Len(c) - 1 # k
  BY <1>2
<1>7. QED
  BY <1>4, <1>5, <1>6

\* The value of a set or a variable, and the parameters of a method that is
\* only declared.
LEMMA NothingShut ==
  ASSUME NEW d, NEW c, HasCommandWords(c, d), HasWords(c), NEW q, NEW k,
         \/ IsOneOf(c, {"set", "variable"})
         \/ isCmd(c, "method") /\ Len(c) = 3 /\ Ends(c) /\ q.frame = "class"
  PROVE  Shut(c, k, q)
<1>1. \A head : isCmd(c, head) => /\ \A other : isCmd(c, other) <=> other = head
                                  /\ \A heads : IsOneOf(c, heads) <=> head \in heads
                                  /\ \A texts : IsKeyword(c[1], texts) <=> head \in texts
                                  /\ \A other : ~IsItcl(c, other)
  BY HeadIs
<1>2. childBodies(c, q) = << >>
  <2>1. CASE IsOneOf(c, {"set", "variable"})
    <3>1. PICK head \in {"set", "variable"} : isCmd(c, head)
      BY <2>1 DEF IsOneOf
    <3>2. ~Enters(c, q)
      BY <1>1, <3>1 DEF Enters, IsMember
    <3>3. decoratedProcDef(c) = 0 /\ childBodies(c, q) = bodiesOf(c, q)
      <4>1. ~IsOneOf(c, {"CACHE_PROC"} \cup Modifiers) /\ ~IsKeyword(c[1], Modifiers)
        BY <1>1, <3>1 DEF Modifiers
      <4>2. QED
        BY <4>1, Undecorated, NotModified
    <3>4. bodiesOf(c, q) = Stay(c, q)
      <4>1. bodiesOf(c, q) = IF decoratedProcDef(c) > 0 THEN Known(c, decoratedProcDef(c) + 3, q) ELSE Stay(c, q)
        BY <3>2, BodiesBy
      <4>2. QED
        BY <3>3, <4>1
    <3>5. scriptBodies(c) = << >>
      <4>1. ~IsOneOf(c, {"dict", "catch", "for", "if", "try"}) /\ IsKeyword(c[1], dataBraceCommands)
        BY <1>1, <3>1 DEF dataBraceCommands
      <4>2. QED
        BY <4>1, ScriptBodiesBy DEF Where
    <3>6. QED
      BY <3>3, <3>4, <3>5 DEF Stay
  <2>2. CASE isCmd(c, "method") /\ Len(c) = 3 /\ Ends(c) /\ q.frame = "class"
    <3>1. ~IsKeyword(c[1], Modifiers) /\ IsOneOf(c, {"method", "constructor", "destructor"})
      BY <1>1, <2>2 DEF Modifiers
    <3>2. IsMember(c, q) /\ minMemberBodyWords(c) = 4
      BY <1>1, <2>2, <3>1 DEF IsMember, minMemberBodyWords
    <3>3. ~(Len(c) >= minMemberBodyWords(c))
      BY <2>2, <3>2
    <3>4. bodiesOf(c, q) = << >>
      BY <2>2, <3>2, <3>3, BodiesBy DEF Where
    <3>5. QED
      BY <3>1, <3>4, NotModified
  <2>3. QED
    BY <2>1, <2>2
<1>3. QED
  BY <1>2, EmptySequence DEF Shut

\* The parameters of a proc behind the decorator,
LEMMA CacheProcShut ==
  ASSUME NEW d, NEW c, HasCommandWords(c, d), HasWords(c), NEW q, isCmd(c, "CACHE_PROC")
  PROVE  Shut(c, 4, q)
<1>1. decoratedProcDef(c) = 2 /\ Len(c) > 4 /\ Len(c) \in Nat /\ DOMAIN c = 1..Len(c)
  BY CacheProcIs DEF HasCommandWords
<1>2. ~IsKeyword(c[1], Modifiers)
  BY HeadIs DEF Modifiers
<1>3. /\ ~isCmd(c, "namespace") /\ ~isCmd(c, "proc") /\ ~IsItcl(c, "class") /\ ~IsItcl(c, "body")
      /\ ~IsOneOf(c, {"method", "constructor", "destructor"})
  BY HeadIs
<1>4. ~Enters(c, q)
  BY <1>3 DEF Enters, IsMember
<1>5. bodiesOf(c, q) = Known(c, 5, q)
  <2>1. bodiesOf(c, q) = IF decoratedProcDef(c) > 0 THEN Known(c, decoratedProcDef(c) + 3, q) ELSE Stay(c, q)
    BY <1>4, BodiesBy
  <2>2. decoratedProcDef(c) > 0 /\ decoratedProcDef(c) + 3 = 5
    BY <1>1
  <2>3. QED
    BY <2>1, <2>2
<1>6. \A b \in ToSet(childBodies(c, q)) : b.at = c[5].at
  BY <1>2, <1>5, NotModified, OneElement DEF Known, Entering
<1>7. 5 \in DOMAIN c
  BY <1>1
<1>8. QED
  BY <1>6, <1>7 DEF Shut

\* and of a method behind a modifier.
LEMMA ModifiedShut ==
  ASSUME NEW d, NEW c, HasCommandWords(c, d), HasMemberWords(c), NEW q, IsKeyword(c[1], Modifiers), Len(c) = 5
  PROVE  Shut(c, 4, q)
<1>1. DOMAIN c = 1..5
  BY DEF HasCommandWords
<1>2. CASE q.frame = "class"
  <2> DEFINE m == Member(c)
  <2>1. /\ childBodies(c, q) = bodiesOf(m, q) /\ HasCommandWords(m, d) /\ Len(m) = 4 /\ m[4] = c[5]
        /\ IsOneOf(m, {"method", "proc", "variable", "common"})
    <3>1. 4 \in 1..(Len(c) - 1) /\ 4 + 1 = 5 /\ Len(c) - 1 = 4
      OBVIOUS
    <3>2. memberWords(c) = m /\ HasCommandWords(m, d)
      BY MemberIs
    <3>3. /\ Len(m) = Len(c) - 1 /\ \A i \in 1..(Len(c) - 1) : m[i] = c[i + 1]
          /\ IsOneOf(m, {"method", "proc", "variable", "common"})
      BY MemberIs
    <3> HIDE DEF m
    <3>4. m[4] = c[4 + 1]
      BY <3>1, <3>3
    <3>5. QED
      BY <1>2, <3>1, <3>2, <3>3, <3>4 DEF childBodies
  <2> HIDE DEF m
  <2>2. PICK head \in {"method", "proc", "variable", "common"} : isCmd(m, head)
    BY <2>1 DEF IsOneOf
  <2>3. ~IsOneOf(m, {"dict", "catch", "for", "if", "try"}) /\ ~isCmd(m, "constructor")
    BY <2>2, HeadIs
  <2>4. decoratedProcDef(m) \in {0, Len(m) - 3}
    <3>1. decoratedProcDef(m) = 0 \/ decoratedProcDef(m) \in 2..Len(m) - 3
      BY <2>1, DecoratedIs
    <3>2. 2..Len(m) - 3 = {}
      BY <2>1
    <3>3. QED
      BY <3>1, <3>2
  <2>5. \A b \in ToSet(bodiesOf(m, q)) : b.at = m[Len(m)].at
    BY <2>1, <2>3, <2>4, LastBodies
  <2>6. 5 \in DOMAIN c /\ 5 # 4
    BY <1>1
  <2>7. QED
    BY <2>1, <2>5, <2>6 DEF Shut
<1>3. CASE q.frame # "class"
  <2>1. childBodies(c, q) = bodiesOf(c, q)
    BY <1>3 DEF childBodies
  <2>2. PICK head \in Modifiers : isCmd(c, head)
    BY DEF IsKeyword, isCmd, HasCommandWords
  <2>3. ~IsOneOf(c, {"dict", "catch", "for", "if", "try"}) /\ ~isCmd(c, "constructor")
    BY <2>2, HeadIs DEF Modifiers
  <2>4. decoratedProcDef(c) \in {0, Len(c) - 3}
    <3>1. decoratedProcDef(c) = 0 \/ decoratedProcDef(c) \in 2..Len(c) - 3
      BY DecoratedIs
    <3>2. 2..Len(c) - 3 = {Len(c) - 3}
      OBVIOUS
    <3>3. QED
      BY <3>1, <3>2
  <2>5. \A b \in ToSet(bodiesOf(c, q)) : b.at = c[Len(c)].at
    BY <2>3, <2>4, LastBodies
  <2>6. 5 \in DOMAIN c /\ 5 # 4
    BY <1>1
  <2>7. QED
    BY <2>1, <2>5, <2>6 DEF Shut
<1>4. QED
  BY <1>2, <1>3

\* Where the parameters of a method stand.
LEMMA MethodParamsAre ==
  ASSUME NEW c, NEW f, f.frame = "class", NEW m \in Callables(c, f)
  PROVE  \/ isCmd(Member(c), "method") /\ Len(Member(c)) = 4 /\ m.params = Member(c)[3]
         \/ isCmd(Member(c), "proc") /\ m.params = Member(c)[3]
         \/ isCmd(Member(c), "constructor") /\ Len(Member(c)) \in {3, 4} /\ m.params = Member(c)[2]
<1> DEFINE w == Member(c)
           Method(params, k) == {Made(params, w[k], f.ns, f.class, f, "method")}
<1>1. Callables(c, f) = CASE isCmd(w, "method") /\ Len(w) = 4      -> Method(w[3], 4)
                          [] isCmd(w, "proc")                      -> Method(w[3], 4)
                          [] isCmd(w, "constructor") /\ Len(w) = 3 -> Method(w[2], 3)
                          [] isCmd(w, "constructor") /\ Len(w) = 4 -> Method(w[2], 3) \cup Method(w[2], 4)
                          [] OTHER                                 -> {}
  BY DEF Callables, Callable, Made
<1>2. \A head : isCmd(w, head) => \A other : isCmd(w, other) <=> other = head
  BY HeadIs
<1>3. \A params, k : \A x \in Method(params, k) : x.params = params
  BY DEF Made
<1> HIDE DEF w, Method
<1>4. CASE isCmd(w, "method") /\ Len(w) = 4
  BY <1>1, <1>2, <1>3, <1>4 DEF w
<1>5. CASE isCmd(w, "proc")
  BY <1>1, <1>2, <1>3, <1>5 DEF w
<1>6. CASE isCmd(w, "constructor") /\ Len(w) = 3
  BY <1>1, <1>2, <1>3, <1>6 DEF w
<1>7. CASE isCmd(w, "constructor") /\ Len(w) = 4
  BY <1>1, <1>2, <1>3, <1>7 DEF w
<1>8. CASE /\ ~(isCmd(w, "method") /\ Len(w) = 4) /\ ~isCmd(w, "proc")
           /\ ~(isCmd(w, "constructor") /\ Len(w) = 3) /\ ~(isCmd(w, "constructor") /\ Len(w) = 4)
  BY <1>1, <1>8
<1>9. QED
  BY <1>4, <1>5, <1>6, <1>7, <1>8

\* The word k of c, braced, is no expression and no body.
Idle(c, k, f) == /\ k \in DOMAIN c /\ Braced(c, k) /\ exprBodies(c) = << >>
                 /\ \A q : (f.listed => q.frame = f.frame) => Shut(c, k, q)

LEMMA ParamsIdle ==
  ASSUME NEW f, f.listed \in BOOLEAN, NEW c, NEW p, NEW d, Runs(f, c, p, d),
         NEW m \in Callables(c, f), m.params.kind = "braced"
  PROVE  \E k \in DOMAIN c : c[k] = m.params /\ Idle(c, k, f)
<1>1. HasCommandWords(c, d) /\ HasWords(c) /\ (f.frame = "class" => HasMemberWords(c))
  BY DEF Runs
<1>2. Len(c) \in Nat /\ DOMAIN c = 1..Len(c)
  BY <1>1 DEF HasCommandWords
<1>3. \A head : isCmd(c, head) => /\ \A other : isCmd(c, other) <=> other = head
                                  /\ \A heads : IsOneOf(c, heads) <=> head \in heads
                                  /\ \A texts : IsKeyword(c[1], texts) <=> head \in texts
  BY HeadIs
<1>4. ~IsOneOf(c, {"expr", "while", "for", "if"}) => exprBodies(c) = << >>
  BY DEF exprBodies, IsOneOf
\* A word with a later one behind it.
<1>5. ASSUME NEW k \in DOMAIN c, k < Len(c), Braced(c, k), ~IsKeyword(c[1], Modifiers), isCmd(c, "constructor") => k = 2,
             ~IsOneOf(c, {"expr", "while", "for", "if"}), ~IsOneOf(c, {"dict", "catch", "for", "if", "try"}),
             ~IsOneOf(c, {"CACHE_PROC"} \cup Modifiers)
      PROVE  Idle(c, k, f)
  BY <1>1, <1>4, <1>5, EarlierShut DEF Idle
<1>6. ASSUME NEW head \in {"proc", "method", "constructor"}, isCmd(c, head), NEW k \in DOMAIN c, k < Len(c), c[k] = m.params,
             head = "constructor" => k = 2
      PROVE  Idle(c, k, f)
  <2>1. /\ ~IsKeyword(c[1], Modifiers) /\ isCmd(c, "constructor") => k = 2
        /\ ~IsOneOf(c, {"expr", "while", "for", "if"}) /\ ~IsOneOf(c, {"dict", "catch", "for", "if", "try"})
        /\ ~IsOneOf(c, {"CACHE_PROC"} \cup Modifiers)
    BY <1>3, <1>6 DEF Modifiers
  <2>2. Braced(c, k)
    BY <1>6 DEF Braced
  <2>3. QED
    BY <1>3, <1>5, <1>6, <2>1, <2>2 DEF Modifiers
<1>7. CASE f.frame # "class"
  <2>1. CASE isCmd(c, "proc") /\ m.params = c[3]
    <3>0. Len(c) = 4
      BY <1>1, <2>1 DEF HasWords
    <3>1. Len(c) = 4 /\ 3 \in DOMAIN c
      BY <1>2, <3>0
    <3>2. QED
      BY <1>6, <2>1, <3>1
  <2>2. CASE isCmd(c, "CACHE_PROC") /\ m.params = c[4]
    <3>1. 4 \in DOMAIN c
      BY <1>1, <1>2, <2>2, CacheProcIs
    <3>2. Braced(c, 4) /\ exprBodies(c) = << >>
      BY <1>3, <1>4, <2>2, <3>1 DEF Braced
    <3>3. \A q : Shut(c, 4, q)
      BY <1>1, <2>2, CacheProcShut
    <3>4. QED
      BY <2>2, <3>1, <3>2, <3>3 DEF Idle
  <2>3. CASE IsItcl(c, "body") /\ m.params = c[3]
    <3>0. Len(c) = 4
      BY <1>1, <2>3 DEF HasWords
    <3>1. Len(c) = 4 /\ 3 \in DOMAIN c
      BY <1>2, <3>0
    <3>2. /\ ~IsKeyword(c[1], Modifiers) /\ ~isCmd(c, "constructor")
          /\ ~IsOneOf(c, {"expr", "while", "for", "if"}) /\ ~IsOneOf(c, {"dict", "catch", "for", "if", "try"})
          /\ ~IsOneOf(c, {"CACHE_PROC"} \cup Modifiers)
      BY <2>3, ItclIs
    <3>3. Braced(c, 3)
      BY <2>3, <3>1 DEF Braced
    <3>4. QED
      BY <1>5, <2>3, <3>1, <3>2, <3>3
  <2>4. m.params = c[3] \/ m.params = c[4]
    BY <1>7, ProcsMade DEF Made
  <2>5. QED
    BY <1>7, <2>1, <2>2, <2>3, ProcsMade DEF Made
<1>8. CASE f.frame = "class" /\ ~IsKeyword(c[1], Modifiers)
  <2>1. Member(c) = c
    BY <1>8 DEF Member
  <2>2. \/ isCmd(c, "method") /\ Len(c) = 4 /\ m.params = c[3]
        \/ isCmd(c, "proc") /\ m.params = c[3]
        \/ isCmd(c, "constructor") /\ Len(c) \in {3, 4} /\ m.params = c[2]
    BY <1>8, <2>1, MethodParamsAre
  <2>3. isCmd(c, "proc") => Len(c) = 4
    BY <1>1 DEF HasWords
  <2>4. CASE isCmd(c, "constructor") /\ Len(c) \in {3, 4} /\ m.params = c[2]
    <3>1. 2 \in DOMAIN c /\ 2 < Len(c)
      <4>1. Len(c) = 3 \/ Len(c) = 4
        BY <2>4
      <4>2. QED
        BY <1>2, <4>1
    <3>2. QED
      BY <1>6, <2>4, <3>1
  <2>5. CASE (isCmd(c, "method") \/ isCmd(c, "proc")) /\ Len(c) = 4 /\ m.params = c[3]
    <3>1. 3 \in DOMAIN c /\ 3 < Len(c)
      BY <1>2, <2>5
    <3>2. QED
      BY <1>6, <2>5, <3>1
  <2>6. QED
    BY <2>2, <2>3, <2>4, <2>5
<1>9. CASE f.frame = "class" /\ IsKeyword(c[1], Modifiers)
  <2> DEFINE w == Member(c)
  <2>1. Len(c) > 1 /\ Len(w) = Len(c) - 1 /\ IsOneOf(w, {"method", "proc", "variable", "common"})
    BY <1>1, <1>9, MemberIs
  <2>2. \A i \in 1..(Len(c) - 1) : w[i] = c[i + 1]
    BY <1>1, <1>9, MemberIs
  <2>3. isCmd(w, "proc") => Len(w) = 4
    BY <1>1, <1>9 DEF HasMemberWords
  <2>4. \/ isCmd(w, "method") /\ Len(w) = 4 /\ m.params = w[3]
        \/ isCmd(w, "proc") /\ m.params = w[3]
        \/ isCmd(w, "constructor")
    BY <1>9, MethodParamsAre
  <2> HIDE DEF w
  <2>5. ~isCmd(w, "constructor")
    <3>1. PICK head \in {"method", "proc", "variable", "common"} : isCmd(w, head)
      BY <2>1 DEF IsOneOf
    <3>2. QED
      BY <3>1, HeadIs
  <2>6. Len(c) = 5 /\ m.params = c[4]
    <3>1. Len(w) = 4 /\ m.params = w[3]
      BY <2>3, <2>4, <2>5
    <3>2. Len(c) - 1 = 4
      BY <2>1, <3>1
    <3>3. \A n \in Nat : n - 1 = 4 => n = 5
      OBVIOUS
    <3>4. Len(c) = 5
      BY <1>2, <3>2, <3>3
    <3>5. 3 \in 1..4 /\ 3 + 1 = 4
      OBVIOUS
    <3>6. w[3] = c[4]
      BY <2>2, <3>2, <3>5
    <3>7. QED
      BY <3>1, <3>4, <3>6
  <2>7. 4 \in DOMAIN c /\ Braced(c, 4)
    BY <1>2, <2>6 DEF Braced
  <2>8. exprBodies(c) = << >>
    <3>1. PICK head \in Modifiers : isCmd(c, head)
      BY <1>1, <1>9 DEF IsKeyword, isCmd, HasCommandWords
    <3>2. QED
      BY <1>3, <1>4, <3>1 DEF Modifiers
  <2>9. \A q : Shut(c, 4, q)
    BY <1>1, <1>9, <2>6, ModifiedShut
  <2>10. QED
    BY <2>6, <2>7, <2>8, <2>9 DEF Idle
<1>10. QED
  BY <1>7, <1>8, <1>9

\* The words that the data of a command are looked for in.
DataAt(c, f) == CASE IsOneOf(c, {"set", "variable"}) -> {3}
                  [] isCmd(c, "method") /\ f.frame = "class" -> {3}
                  [] isCmd(c, "foreach")             -> 2..Len(c) - 1
                  [] OTHER                           -> {}

LEMMA DataIdle ==
  ASSUME NEW f, f.listed \in BOOLEAN, NEW c, NEW p, NEW d, Runs(f, c, p, d), NEW a \in Data(c, f)
  PROVE  \E k \in DOMAIN c : c[k].at = a /\ Idle(c, k, f)
<1>1. HasCommandWords(c, d) /\ HasWords(c) /\ (f.frame = "class" => HasMemberWords(c))
      /\ (~f.listed => (isCmd(c, "method") => Len(c) # 3))
  BY DEF Runs
<1>2. Len(c) \in Nat /\ DOMAIN c = 1..Len(c)
  BY <1>1 DEF HasCommandWords
<1>3. \A head : isCmd(c, head) => /\ \A other : isCmd(c, other) <=> other = head
                                  /\ \A heads : IsOneOf(c, heads) <=> head \in heads
                                  /\ \A texts : IsKeyword(c[1], texts) <=> head \in texts
  BY HeadIs
<1>4. ~IsOneOf(c, {"expr", "while", "for", "if"}) => exprBodies(c) = << >>
  BY DEF exprBodies, IsOneOf
<1>5. PICK w \in {m.params : m \in Callables(c, f)} \cup {c[i] : i \in DataAt(c, f) \cap DOMAIN c} : w.kind = "braced" /\ w.at = a
  BY DEF Data, DataAt
<1>6. CASE w \in {m.params : m \in Callables(c, f)}
  <2>1. PICK m \in Callables(c, f) : w = m.params
    BY <1>6
  <2>2. QED
    BY <1>5, <2>1, ParamsIdle
<1>7. CASE w \in {c[i] : i \in DataAt(c, f) \cap DOMAIN c}
  <2>1. PICK k \in DataAt(c, f) \cap DOMAIN c : w = c[k]
    BY <1>7
  <2>2. Braced(c, k) /\ c[k].at = a
    BY <1>5, <2>1 DEF Braced
  <2>3. CASE IsOneOf(c, {"set", "variable"})
    <3>1. \A q : Shut(c, k, q)
      BY <1>1, <2>3, NothingShut
    <3>2. exprBodies(c) = << >>
      BY <1>3, <1>4, <2>3 DEF IsOneOf
    <3>3. QED
      BY <2>1, <2>2, <3>1, <3>2 DEF Idle
  <2>4. ASSUME NEW head \in {"method", "foreach"}, isCmd(c, head), k < Len(c) PROVE Idle(c, k, f)
    <3>1. /\ ~IsKeyword(c[1], Modifiers) /\ ~isCmd(c, "constructor")
          /\ ~IsOneOf(c, {"expr", "while", "for", "if"}) /\ ~IsOneOf(c, {"dict", "catch", "for", "if", "try"})
          /\ ~IsOneOf(c, {"CACHE_PROC"} \cup Modifiers)
      BY <1>3, <2>4 DEF Modifiers
    <3>2. exprBodies(c) = << >> /\ \A q : Shut(c, k, q)
      BY <1>1, <1>4, <2>1, <2>4, <3>1, EarlierShut
    <3>3. QED
      BY <2>1, <2>2, <3>2 DEF Idle
  <2>5. CASE isCmd(c, "method") /\ f.frame = "class"
    <3>1. k = 3
      BY <1>3, <2>1, <2>5 DEF DataAt
    <3>2. CASE k < Len(c)
      BY <2>2, <2>1, <2>4, <2>5, <3>2
    <3>3. CASE ~(k < Len(c))
      <4>1. Len(c) = 3 /\ Ends(c) /\ f.listed
        BY <1>1, <1>2, <2>1, <2>2, <2>5, <3>1, <3>3 DEF Ends, Braced
      <4>2. \A q : q.frame = "class" => Shut(c, k, q)
        BY <1>1, <2>5, <4>1, NothingShut
      <4>3. exprBodies(c) = << >>
        BY <1>3, <1>4, <2>5
      <4>4. QED
        BY <2>1, <2>2, <2>5, <4>1, <4>2, <4>3 DEF Idle
    <3>4. QED
      BY <3>2, <3>3
  <2>6. CASE isCmd(c, "foreach")
    <3>1. k \in 2..Len(c) - 1
      BY <1>3, <2>1, <2>6 DEF DataAt
    <3>2. k < Len(c)
      BY <1>2, <3>1
    <3>3. QED
      BY <2>1, <2>2, <2>4, <2>6, <3>2
  <2>7. CASE ~IsOneOf(c, {"set", "variable"}) /\ ~(isCmd(c, "method") /\ f.frame = "class") /\ ~isCmd(c, "foreach")
    BY <2>1, <2>7 DEF DataAt
  <2>8. QED
    BY <2>3, <2>5, <2>6, <2>7
<1>8. QED
  BY <1>5, <1>6, <1>7

\* Nothing inside the data of a command that runs is a fold or a reference.
LEMMA DataApart ==
  ASSUME NEW script \in Sources, NEW f, f.listed \in BOOLEAN, NEW c, NEW p \in PointOf(script), NEW d, Runs(f, c, p, d),
         NEW a \in Data(c, f)
  PROVE  Apart(FileAll(script), a)
<1> DEFINE s == IF f.listed THEN Spot(c, p.frame, TRUE) ELSE Spot(c, "", FALSE)
<1>1. /\ f.listed => c = p.cmd /\ f.frame = p.frame
      /\ ~f.listed => c \in substRefs(p.cmd)
  BY DEF Runs, Follows
<1>2. s \in Spots(script) /\ s.cmd = c /\ s.listed = f.listed /\ (f.listed => s.frame = f.frame)
  BY <1>1 DEF Spots, Spot
<1> HIDE DEF s
<1>3. PICK k \in DOMAIN c : c[k].at = a /\ Idle(c, k, f)
  BY DataIdle
<1>4. ~Substitutes(c, k)
  BY <1>3, EmptySequence DEF Idle, Substitutes, Braced
<1>5. ASSUME NEW b \in BodiesAt(script, s), b.at = c[k].at PROVE FALSE
  <2>1. PICK q \in Contexts(script, s) : b \in ToSet(childBodies(c, q))
    BY <1>2 DEF BodiesAt
  <2>2. f.listed => q.frame = f.frame
    BY <1>2 DEF Contexts
  <2>3. PICK j \in DOMAIN c : j # k /\ b.at = c[j].at
    BY <1>3, <2>1, <2>2 DEF Idle, Shut
  <2>4. j \in DOMAIN s.cmd /\ k \in DOMAIN s.cmd /\ s.cmd[j].at = s.cmd[k].at
    BY <1>2, <1>5, <2>3
  <2>5. j = k
    BY <1>2, <2>4, OneSpot
  <2>6. QED
    BY <2>3, <2>5
<1>6. ~Opened(script, s, k)
  BY <1>2, <1>4, <1>5 DEF Opened
<1>7. QED
  BY <1>2, <1>3, <1>6, UnopenedApart

----------------------------------------------------------------------------
(* The theorem.                                                            *)

\* What FoldsAreBodies says beside BodiesFold.
DataStays == \A at \in now.data : Apart(found, at)

LEMMA DataStaysFirst ==
  ASSUME Init
  PROVE  DataStays
BY DEF Init, Nothing, DataStays

LEMMA DataStaysNext ==
  ASSUME TclInv, DataStays, [Next]_vars
  PROVE  DataStays'
<1>1. CASE Execute
  <2> DEFINE f == Top
             c == Head(f.todo)
  <2>1. Running /\ found' = found /\ file \in Sources /\ found = FileAll(file) /\ now'.data = Data(c, f)
    BY <1>1 DEF Execute, TclInv
  <2>2. f.listed \in BOOLEAN
    BY <2>1, TopIs DEF FrameFollows
  <2>3. PICK p \in PointOf(file) : \E d \in 0..Nesting : Runs(f, c, p, d)
    BY <2>1, TopIs
  <2> HIDE DEF f, c
  <2>4. \A a \in Data(c, f) : Apart(found, a)
    BY <2>1, <2>2, <2>3, DataApart
  <2>5. QED
    BY <2>1, <2>4 DEF DataStays
<1>2. CASE Call
  BY <1>2 DEF Call, Nothing, DataStays
<1>3. CASE UNCHANGED vars
  BY <1>3 DEF vars, DataStays, Apart
<1>4. QED
  BY <1>1, <1>2, <1>3 DEF Next

\* A body that runs outside brackets is a fold of the file, and nothing inside
\* a word of data is a fold or a reference (fold.go:14-16).
THEOREM FoldsAreBodiesHolds == Spec => []FoldsAreBodies
<1>1. Init => DataStays
  BY DataStaysFirst
<1>2. TclInv /\ DataStays /\ [Next]_vars => DataStays'
  BY DataStaysNext
<1>3. TclInv /\ DataStays => FoldsAreBodies
  BY DEF TclInv, FoldsAreBodies, BodiesFold, DataStays, Apart
<1>4. QED
  BY <1>1, <1>2, <1>3, TclInvHolds, PTL DEF Spec
=============================================================================
