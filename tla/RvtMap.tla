------------------------------- MODULE RvtMap -------------------------------
(* A Rivet page and the Tcl script stitched from it (packages rvt and      *)
(* source).  Extract copies the code between <? and ?> into one script, a  *)
(* line break after each region, and remembers where each came from; what  *)
(* the analysis finds in the script is translated back to the page.        *)
(*                                                                         *)
(* Offsets count bytes from 0, sequences from 1: the byte at offset k of s *)
(* is s[k + 1].                                                            *)
EXTENDS Naturals, Sequences

CONSTANTS
  Bytes,
  Newline,
  Prefix,    \* nsPrefix, "namespace eval ::request {" and a line break
  Suffix,    \* nsSuffix
  Pages,     \* bound: the pages considered
  Unmapped   \* -1, the result of a translation that fails

ASSUME BytesAssumption ==
  /\ Newline \in Bytes
  /\ Prefix \in Seq(Bytes) /\ Suffix \in Seq(Bytes)
  /\ Prefix # << >> /\ Prefix[Len(Prefix)] = Newline
ASSUME PagesAssumption == Pages \subseteq Seq(Bytes)
ASSUME UnmappedAssumption == Unmapped \notin Nat

VARIABLES
  page,
  i,         \* where the next tag is looked for
  script,
  mapping,   \* the regions that are not empty, in their order
  done
vars == <<page, i, script, mapping, done>>

Segment == [virt : Nat, src : Nat, len : Nat \ {0}]

Init == /\ page \in Pages
        /\ i = 0
        /\ script = Prefix
        /\ mapping = << >>
        /\ done = FALSE

\* Where the tag of bytes a and b occurs, at from or later; strings.Index
\* returns the first.
Tags(a, b, from) == {k \in from..Len(page) : k + 2 <= Len(page) /\ page[k + 1] = a /\ page[k + 2] = b}
First(k, S) == k \in S /\ \A j \in S : k <= j

\* Mutant of CodeStart: <?= is a tag like any other.
CodeStartOfTag(open) == open + 2

\* The code behind the tag at open: the = of <?= is skipped.
CodeStart(open) == IF open + 3 <= Len(page) /\ page[open + 3] = "=" THEN open + 3 ELSE open + 2

\* Mutants of Emit: no line break between regions; the length of the tag is
\* not accounted for.
EmitUnbroken(start, end) ==
  IF start < end
  THEN /\ mapping' = Append(mapping, [virt |-> Len(script), src |-> start, len |-> end - start])
       /\ script' = script \o SubSeq(page, start + 1, end)
  ELSE UNCHANGED <<script, mapping>>
EmitFromTag(start, end) ==
  IF start < end
  THEN /\ mapping' = Append(mapping, [virt |-> Len(script), src |-> start - 2, len |-> end - start])
       /\ script' = (script \o SubSeq(page, start + 1, end)) \o <<Newline>>
  ELSE UNCHANGED <<script, mapping>>

\* The region from start to end joins the script, unless it is empty.
Emit(start, end) ==
  IF start < end
  THEN /\ mapping' = Append(mapping, [virt |-> Len(script), src |-> start, len |-> end - start])
       /\ script' = (script \o SubSeq(page, start + 1, end)) \o <<Newline>>
  ELSE UNCHANGED <<script, mapping>>

Region(open, close) ==
  /\ ~done
  /\ First(open, Tags("<", "?", i))
  /\ First(close, Tags("?", ">", CodeStart(open)))
  /\ Emit(CodeStart(open), close)
  /\ i' = close + 2
  /\ UNCHANGED <<page, done>>

\* A tag that is never closed: the rest of the page is code.
Unterminated(open) ==
  /\ ~done
  /\ First(open, Tags("<", "?", i))
  /\ Tags("?", ">", CodeStart(open)) = {}
  /\ Emit(CodeStart(open), Len(page))
  /\ i' = Len(page)
  /\ UNCHANGED <<page, done>>

\* No tag is left.
Finish == /\ ~done
          /\ Tags("<", "?", i) = {}
          /\ script' = script \o Suffix
          /\ done' = TRUE
          /\ UNCHANGED <<page, i, mapping>>

Next == \/ \E open, close \in 0..Len(page) : Region(open, close)
        \/ \E open \in 0..Len(page) : Unterminated(open)
        \/ Finish
Spec == Init /\ [][Next]_vars

----------------------------------------------------------------------------
(* Translation.                                                            *)

\* sort.Search finds the first segment that ends behind the offset, because
\* the segments are in order (MappingOrdered).
EndsAfter(v) == {k \in DOMAIN mapping : mapping[k].virt + mapping[k].len > v}

\* Mutant of ToSource: the offset right behind a region belongs to it.
ToSourceInclusive(v) ==
  LET S == {k \in DOMAIN mapping : mapping[k].virt + mapping[k].len >= v}
      m == mapping[CHOOSE k \in S : First(k, S)]
  IN  IF S # {} /\ m.virt <= v THEN m.src + (v - m.virt) ELSE Unmapped

ToSource(v) ==
  LET m == mapping[CHOOSE k \in EndsAfter(v) : First(k, EndsAfter(v))]
  IN  IF EndsAfter(v) # {} /\ m.virt <= v THEN m.src + (v - m.virt) ELSE Unmapped

SourceEndsAfter(s) == {k \in DOMAIN mapping : mapping[k].src + mapping[k].len > s}
ToVirtual(s) ==
  LET m == mapping[CHOOSE k \in SourceEndsAfter(s) : First(k, SourceEndsAfter(s))]
  IN  IF SourceEndsAfter(s) # {} /\ m.src <= s THEN m.virt + (s - m.src) ELSE Unmapped

\* The range of a name, start to end: its start is translated and its length
\* kept.  What does not translate is dropped.
NoRange == <<Unmapped, Unmapped>>
TranslatedRange(start, end) ==
  IF ToSource(start) = Unmapped THEN NoRange
  ELSE <<ToSource(start), ToSource(start) + (end - start)>>

----------------------------------------------------------------------------
(* Properties.                                                             *)

TypeOK == /\ page \in Seq(Bytes)
          /\ i \in 0..Len(page)
          /\ script \in Seq(Bytes)
          /\ mapping \in Seq(Segment)
          /\ done \in BOOLEAN

\* The regions are in order and apart, in the script and in the page: what
\* the binary searches of both directions rest on.
MappingOrdered ==
  \A j, k \in DOMAIN mapping :
    j < k => /\ mapping[j].virt + mapping[j].len < mapping[k].virt
             /\ mapping[j].src + mapping[j].len < mapping[k].src

\* Every mapped byte of the script is the byte of the page it is mapped to,
\* and a line break follows each region.
Verbatim ==
  \A k \in DOMAIN mapping :
    LET m == mapping[k]
    IN  /\ m.virt + m.len < Len(script)
        /\ m.src + m.len <= i
        /\ \A n \in 0..(m.len - 1) : script[m.virt + n + 1] = page[m.src + n + 1]
        /\ script[m.virt + m.len + 1] = Newline

\* Nothing of the wrapper's first line is mapped, and it ends in a line break.
WrapperApart ==
  /\ Len(Prefix) <= Len(script)
  /\ script[Len(Prefix)] = Newline
  /\ \A k \in DOMAIN mapping : Len(Prefix) <= mapping[k].virt

\* Rivet's view of a page, byte by byte: what it is in before each byte.
\* "tag" and "end" are the second bytes of <? and ?>; "head" comes right
\* behind <?.
At(k, b) == k < Len(page) /\ page[k + 1] = b
ModeAfter(before, k) ==
  CASE before = "text" -> IF At(k - 1, "<") /\ At(k, "?") THEN "tag" ELSE "text"
    [] before = "tag"  -> "head"
    [] before = "end"  -> "text"
    [] OTHER           -> IF At(k - 1, "?") /\ At(k, ">") THEN "end" ELSE "code"
Mode ==
  LET mode[k \in 0..Len(page)] == IF k = 0 THEN "text" ELSE ModeAfter(mode[k - 1], k)
  IN  mode
IsCode(mode, k) ==
  /\ mode[k] \in {"head", "code"}
  /\ ~(At(k, "?") /\ At(k + 1, ">"))
  /\ ~(mode[k] = "head" /\ At(k, "="))

\* The offset of the page is in region j.
InSource(j, s) == mapping[j].src <= s /\ s < mapping[j].src + mapping[j].len
Mapped(s) == \E j \in DOMAIN mapping : InSource(j, s)

\* Extract and Rivet agree on what they have both read: the next tag is
\* looked for where Rivet is in text, and what lies before it is in a region
\* exactly if it is code.  When no tag is left, that holds of the whole page.
CodeSoFar ==
  LET mode == Mode
  IN  /\ i = Len(page) \/ mode[i] = "text"
      /\ \A k \in 0..(i - 1) : Mapped(k) <=> IsCode(mode, k)
      /\ done => \A k \in 0..(Len(page) - 1) : Mapped(k) <=> IsCode(mode, k)

\* The inductive invariant.
RegionsRight == TypeOK /\ MappingOrdered /\ Verbatim /\ WrapperApart
MapInv == RegionsRight /\ CodeSoFar

\* Every byte of code has a place in the script, and no other byte has.
CodeIsMapped ==
  done => LET mode == Mode
          IN  \A k \in 0..(Len(page) - 1) : ToVirtual(k) # Unmapped <=> IsCode(mode, k)

\* The translations undo each other: a cursor that is taken to the script and
\* an answer that is taken back stay where they are.
TranslationsInvert ==
  /\ \A v \in 0..(Len(script) - 1) : ToSource(v) # Unmapped => ToVirtual(ToSource(v)) = v
  /\ \A s \in 0..(Len(page) - 1) : ToVirtual(s) # Unmapped => ToSource(ToVirtual(s)) = s

\* A range within a line, as a name or a reference is, is dropped or
\* translated to the same bytes in the page: it never reaches from a region
\* into the next, whatever the page has in between.
OnOneLine(start, end) == \A k \in start..(end - 1) : script[k + 1] # Newline
WordsKept ==
  \A start, end \in 0..Len(script) :
    start < end /\ OnOneLine(start, end) /\ TranslatedRange(start, end) # NoRange =>
      \A k \in 0..(end - start - 1) :
        /\ ToSource(start) + k < Len(page)
        /\ page[ToSource(start) + k + 1] = script[start + k + 1]
=============================================================================
