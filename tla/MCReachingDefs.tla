--------------------------- MODULE MCReachingDefs ---------------------------
(* Small proc bodies for ReachingDefs: a compound command of two items and *)
(* a use behind it.  The ids of an item start at i.                        *)
EXTENDS ObjectTypes

Command(op, id, bodies) == [op |-> op, id |-> id, bodies |-> bodies]
Plain(op, i) == Command(op, i, << >>)
Leaves1(i) == {Plain(op, i) : op \in {"set", "use", "incr", "break", "continue", "return"}}
Exits(i)  == {Plain(op, i) : op \in {"set", "break", "continue", "return"}}
Stays(i)  == {Plain(op, i) : op \in {"set", "return"}}

Nested(i) ==
  {Command("if", i, <<<<l>>>>) : l \in Leaves1(i + 1)}
    \cup {Command("while", i, <<<<l>>>>) : l \in Leaves1(i + 1)}
    \cup {Command("ifelse", i, <<<<l>>, <<m>>>>) : l \in Exits(i + 1), m \in Exits(i + 2)}
    \cup {Command("catch", i, <<<<l, m>>>>) : l \in Exits(i + 1), m \in Exits(i + 2)}
    \cup {Command("switchwords", i, <<<<l>>, <<m>>>>) : l \in Exits(i + 1), m \in Exits(i + 2)}
    \cup {Command(op, i, <<<<l>>, <<m>>>>) : op \in ArmLists, l \in Stays(i + 1), m \in Stays(i + 2)}
Item(i) == Leaves1(i) \cup Nested(i)

Used(c) == <<c, Plain("use", 20)>>

Loops        == {Used(Command("while", 1, <<<<p, q>>>>)) : p \in Item(2), q \in Item(6)}
Alternatives == {Used(Command("ifelse", 1, <<<<p>>, <<q>>>>)) : p \in Item(2), q \in Item(6)}
Catches      == {Used(Command("catch", 1, <<<<p, q>>>>)) : p \in Item(2), q \in Item(6)}
ForLoops     == {Used(Command("for", 1, <<<<Plain("set", 2)>>, <<Plain("incr", 3)>>, <<p>>>>)) : p \in Item(4)}
Foreachs     == {Used(Command("foreach", 1, <<<<p>>>>)) : p \in Item(2)}

\* Switches of two arms, one of them with a compound command, or a loop with a
\* break.
Arms(i) == Item(i) \cup {Command("while", i, <<<<Plain("set", i + 1), Plain("break", i + 2)>>>>)}
Switches ==
  {Used(Command(op, 1, <<<<p>>, <<q>>>>)) :
     op \in ArmLists \cup {"switchwords"}, p \in Arms(2), q \in Leaves1(6)}
    \cup {Used(Command(op, 1, <<<<p>>, <<q>>>>)) :
            op \in ArmLists \cup {"switchwords"}, p \in Leaves1(2), q \in Arms(6)}

MCIds      == 1..8 \cup {20}
MCPrograms == Loops \cup Alternatives \cup Catches \cup ForLoops \cup Foreachs \cup Switches

\* Loops in which a use finds what comes round.
MCLoops == {Used(Command("while", 1, <<<<p, q>>>>)) : p \in Leaves1(2), q \in Leaves1(6)}

\* A diamond of classes: depth first from 1, the declaration in 4 comes
\* before the one in 3.  One set in three makes no object.
MCBases     == <<<<2, 3>>, <<4>>, <<4>>, << >>>>
MCDeclaring == {3, 4}
MCInstantiates(id) == CASE id % 3 = 0 -> NoClass [] id % 3 = 1 -> 1 [] id % 3 = 2 -> 3
=============================================================================
