----------------------------- MODULE PageCursor -----------------------------
(* The way of a cursor: from the editor's position to an offset of the     *)
(* page, into the stitched script, and back from an answer found there.    *)
EXTENDS RvtMap, Position

ASSUME UnitsAssumption == Units \in [Bytes -> Nat]

\* A cursor between any two characters of the page survives the way to the
\* script and back, whatever else is on its line: every position is that of
\* one offset, and every offset of code comes back to where it was.
CursorKept ==
  done => \A k \in {b \in 0..Len(page) : Boundary(page, b)} :
            LET position == LSPPosition(page, k)
                offset   == ByteOffset(page, position)
            IN  /\ offset = k
                /\ ToVirtual(offset) # Unmapped =>
                     LSPPosition(page, ToSource(ToVirtual(offset))) = position
=============================================================================
