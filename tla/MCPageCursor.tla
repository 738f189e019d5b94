---------------------------- MODULE MCPageCursor ----------------------------
(* Pages of up to four pieces, and of up to six that start with a tag:     *)
(* tags, the = of a shorthand, a line break, a > that is no tag, a rune of *)
(* two bytes and one unit and one of four bytes and two units.             *)
EXTENDS PageCursor

Short == <<"s1", "s">>
Long  == <<"l2", "l", "l", "l">>

MCBytes  == {"<", "?", ">", "=", "n", "{", "}"} \cup ToSet(Short) \cup ToSet(Long)
MCUnits  == [b \in MCBytes |-> CASE b \in {"s", "l"} -> 0 [] b = "l2" -> 2 [] OTHER -> 1]
MCPrefix == <<"{", "n">>
MCSuffix == <<"}", "n">>

Pieces  == {<<"<", "?">>, <<"?", ">">>, <<"=">>, <<"n">>, <<">">>, Short, Long}
UpTo(m) == {FlattenSeq(p) : p \in UNION {[1..n -> Pieces] : n \in 0..m}}
MCPages == UpTo(4) \cup {<<"<", "?">> \o p : p \in UpTo(5)}
=============================================================================
