------------------------------ MODULE Position ------------------------------
(* Positions as the editor counts them, a line and UTF-16 units in it, and *)
(* offsets into the bytes of a text (position.go).  The text is well       *)
(* formed UTF-8.                                                           *)
EXTENDS Naturals, Sequences, FiniteSets, SequencesExt

CONSTANTS
  LineBreak,
  Units   \* of a byte: RuneLen of the rune it starts, 0 within a rune

\* The offsets a rune starts at, and the end of the text.
Boundary(text, k) == k = Len(text) \/ Units[text[k + 1]] > 0

\* Units of the runes from start up to each offset.
UnitsFrom(text, start) ==
  LET units[k \in start..Len(text)] == IF k = start THEN 0 ELSE units[k - 1] + Units[text[k]]
  IN  units

Breaks(text, offset) == {k \in 0..(offset - 1) : text[k + 1] = LineBreak}

\* Where the line starts; the end of the text when there is no such line.
LineStart(text, line) ==
  LET starts == {k + 1 : k \in {b \in Breaks(text, Len(text)) : Cardinality(Breaks(text, b)) = line - 1}}
  IN  IF line = 0 THEN 0 ELSE IF starts = {} THEN Len(text) ELSE Min(starts)

\* Reading from the start of the line ends at its break, or with the text.
Stops(text, start) ==
  {k \in start..Len(text) : k = Len(text) \/ text[k + 1] = LineBreak}

\* A character past the end of its line is its end.
ByteOffset(text, position) ==
  LET start   == LineStart(text, position.line)
      reached == {k \in start..Len(text) : /\ Boundary(text, k)
                                           /\ UnitsFrom(text, start)[k] >= position.character}
  IN  Min(Stops(text, start) \cup reached)

\* Mutant of LSPPosition: bytes are counted.
LSPPositionInBytes(text, offset) ==
  LET end  == Min({offset, Len(text)})
      line == Cardinality(Breaks(text, end))
  IN  [line |-> line, character |-> end - LineStart(text, line)]

\* An offset past the end of the text is its end.
LSPPosition(text, offset) ==
  LET end  == Min({offset, Len(text)})
      line == Cardinality(Breaks(text, end))
  IN  [line |-> line, character |-> UnitsFrom(text, LineStart(text, line))[end]]
=============================================================================
