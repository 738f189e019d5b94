---------------------------- MODULE ReachingDefs ----------------------------
(* Which bindings of a proc-local variable may reach a use of it           *)
(* (reaching.go).  The analysis is one walk over the commands of the proc  *)
(* with the set of bindings that reach each point; at a use it notes the   *)
(* set.  Beside it runs what it approximates: a proc that executes, with   *)
(* every outcome of its conditions.                                        *)
(*                                                                         *)
(* Variables do not influence each other, so there is one, and a binding   *)
(* is the id of the command that makes it (0 is the proc's parameter).  A  *)
(* command is a record; its use and its binding have the command's id.     *)
EXTENDS Naturals, Sequences, FiniteSets, SequencesExt

CONSTANTS
  Ids,       \* where the commands stand
  Depth,     \* bound: how deep bodies nest
  Programs   \* bound: the bodies considered

\* The forms of a switch: its arms in one braced list, each on a line of its
\* own ("switch") or all on one line ("switchline"), or as words of the
\* command ("switchwords").
ArmLists          == {"switch", "switchline"}
LoopHeads         == {"while", "for", "foreach"}
ConservativeHeads == {"catch", "switchwords"} \cup ArmLists
Binding           == {"set", "incr", "foreach"}
Parameter         == 0
Bindings          == Ids \cup {Parameter}

ASSUME IdsAssumption == IsFiniteSet(Ids) /\ Parameter \notin Ids
ASSUME DepthAssumption == Depth \in Nat

\* The bodies of a command are its script arguments in order: of a for its
\* start, next and body, of the other loops the body alone, of a switch its
\* arms.  Commands[d] nest to the depth d.
Simple  == [op : {"set", "incr", "use", "return", "break", "continue"}, id : Ids, bodies : {<< >>}]
Nesting(inner) ==
  Simple \cup {c \in [op : {"if", "ifelse"} \cup ConservativeHeads \cup LoopHeads, id : Ids, bodies : Seq(Seq(inner))] :
     CASE c.op = "for"                           -> Len(c.bodies) = 3
       [] c.op \in {"while", "foreach", "catch"} -> Len(c.bodies) = 1
       [] OTHER                                  -> c.bodies # << >>}
Commands[d \in 0..Depth] == IF d = 0 THEN Simple ELSE Nesting(Commands[d - 1])

ASSUME ProgramsAssumption == Programs \subseteq Seq(Commands[Depth])

\* The bodies that the code's walkers go into.  The list of a switch is parsed
\* as a script whose commands are the lines, and of a command it does not know
\* only the last braced word is taken for a body: so of a list on one line, or
\* of arms that are words, the last arm alone.
childBodies(c) == IF c.op \in {"switchline", "switchwords"} THEN {Last(c.bodies)} ELSE ToSet(c.bodies)

\* The bodies of c that are opened to see all there is, what the walkers see
\* ("children"), or whatever may leave a loop around c ("leaving").
Opened(view, c) ==
  CASE view = "all"      -> ToSet(c.bodies)
    [] view = "children" -> childBodies(c)
    [] view = "leaving"  -> IF c.op \in LoopHeads THEN {} ELSE ToSet(c.bodies)

\* The commands seen in a command, at any depth, with itself.
Inside(view, c, below) == {c} \cup UNION {UNION {below[k] : k \in ToSet(body)} : body \in Opened(view, c)}
InsideEach(view, cmds, below) == [c \in cmds |-> Inside(view, c, below)]
Below(view) ==
  LET below[d \in 0..Depth] == InsideEach(view, Commands[d], IF d = 0 THEN << >> ELSE below[d - 1]) IN below
CommandsIn(view, cmds) == UNION {Below(view)[Depth][c] : c \in ToSet(cmds)}
Bound(view, cmds) == {c.id : c \in {k \in CommandsIn(view, cmds) : k.op \in Binding}}

----------------------------------------------------------------------------
(* The analysis.  Each part of the walk returns the set at its end, and    *)
(* whether that point is live; the sets that leave the loop around it by   *)
(* break and that go on by continue; and what it noted, each use with the  *)
(* set there.                                                              *)

Results == [out : SUBSET Bindings, live : BOOLEAN, brk : SUBSET Bindings, cont : SUBSET Bindings,
            noted : SUBSET (Ids \X SUBSET Bindings)]

Walked(out, live) == [out |-> out, live |-> live, brk |-> {}, cont |-> {}, noted |-> {}]

\* First w, then b.
Then(w, b) ==
  [out |-> b.out, live |-> b.live, brk |-> w.brk \cup b.brk, cont |-> w.cont \cup b.cont,
   noted |-> w.noted \cup b.noted]

\* What the step functions step[1], ..., step[k] make of start.
Folded(step, start, n) ==
  LET after[k \in 0..n] == IF k = 0 THEN start ELSE step[k][after[k - 1]] IN after

\* seq: the commands in order, up to one behind which nothing is live.  flow
\* is what each command does to a set.
Walk(flow, cmds, in) ==
  Folded([k \in 1..Len(cmds) |-> [w \in Results |-> IF w.live THEN Then(w, flow[cmds[k]][w.out]) ELSE w]],
         Walked(in, TRUE), Len(cmds))
seq(flow, cmds, in) == Walk(flow, cmds, in)[Len(cmds)]

\* Alternatives: what all of them note and leave by.
Joined(ws, out, live) ==
  [out |-> out, live |-> live, brk |-> UNION {w.brk : w \in ws}, cont |-> UNION {w.cont : w \in ws},
   noted |-> UNION {w.noted : w \in ws}]

\* The ends of the bodies of c, each entered with the same set.
Ends(flow, c, in) == {seq(flow, body, in) : body \in ToSet(c.bodies)}

\* The ends of the live branches, and with no else the set before the if.
analyzeIf(flow, c, in) ==
  LET live == {w \in Ends(flow, c, in) : w.live}
  IN  Joined(Ends(flow, c, in), (IF c.op = "if" THEN in ELSE {}) \cup UNION {w.out : w \in live},
             c.op = "if" \/ live # {})

\* Every binding that the walkers see in cmds.
collectBindings(cmds) == Bound("children", cmds)

\* What a conservative command may bind.  Arms that are words are each looked
\* into, by a loop of their own.
Gens(c) ==
  UNION {collectBindings(body) : body \in IF c.op = "switchwords" THEN ToSet(c.bodies) ELSE childBodies(c)}

\* The bodies may run or not and stop anywhere: what any binds joins the set.
\* They are walked with that set; but in a list each arm is a command named
\* for its pattern, which command passes over.
analyzeConservative(flow, c, in) ==
  LET view == in \cup Gens(c)
  IN  Joined(IF c.op \in ArmLists THEN {} ELSE Ends(flow, c, view), view, TRUE)

\* The bodies of a loop in order, as one block.
Block(c) == IF c.op = "for" THEN c.bodies[1] \o c.bodies[2] \o c.bodies[3] ELSE c.bodies[1]

\* One pass over the block, from what has come round so far.  A use that an
\* earlier pass has noted is not noted again.
AfterPass(w, pass) ==
  [out   |-> w.out \cup (IF pass.live THEN pass.out ELSE {}) \cup w.cont \cup pass.cont,
   live  |-> TRUE,
   brk   |-> w.brk \cup pass.brk,
   cont  |-> w.cont \cup pass.cont,
   noted |-> w.noted \cup {n \in pass.noted : \A m \in w.noted : m[1] # n[1]}]
\* Every pass before the last adds a binding.  (The code gives up after 200
\* passes, but two are enough: a pass adds what it binds or lets through.)
MaxPasses == Cardinality(Bindings) + 1
Passes(flow, c, entry) ==
  Folded([k \in 1..MaxPasses |-> [w \in Results |-> AfterPass(w, seq(flow, Block(c), w.out))]],
         Walked(entry, TRUE), MaxPasses)

\* Until nothing new comes round; later passes would add nothing.
Settled(flow, c, entry) ==
  LET after == Passes(flow, c, entry)
  IN  after[CHOOSE k \in 1..MaxPasses : after[k].out = after[k - 1].out]

LoopEntry(c, in) == IF c.op = "foreach" THEN {c.id} ELSE in

\* Mutant of analyzeLoop: paths that break are dropped.
analyzeLoopButBreaks(flow, c, in) ==
  LET fix == Settled(flow, c, LoopEntry(c, in))
  IN  [Walked(fix.out, TRUE) EXCEPT !.noted = fix.noted]

analyzeLoop(flow, c, in) ==
  LET fix == Settled(flow, c, LoopEntry(c, in))
  IN  [Walked(fix.out \cup fix.brk, TRUE) EXCEPT !.noted = fix.noted]

command(flow, c, in) ==
  CASE c.op \in {"if", "ifelse"}  -> analyzeIf(flow, c, in)
    [] c.op \in ConservativeHeads -> analyzeConservative(flow, c, in)
    [] c.op \in LoopHeads         -> analyzeLoop(flow, c, in)
    [] c.op = "return"            -> Walked(in, FALSE)
    [] c.op = "break"             -> [Walked(in, FALSE) EXCEPT !.brk = in]
    [] c.op = "continue"          -> [Walked(in, FALSE) EXCEPT !.cont = in]
    [] c.op = "use"               -> [Walked(in, TRUE) EXCEPT !.noted = {<<c.id, in>>}]
    [] c.op = "set"               -> Walked({c.id}, TRUE)
    [] c.op = "incr"              -> [Walked({c.id}, TRUE) EXCEPT !.noted = {<<c.id, in>>}]

\* What each command of depth d does, from what the less deep ones do.
FlowOver(d, flow) == [c \in Commands[d] |-> [in \in SUBSET Bindings |-> command(flow, c, in)]]
Flow[d \in 0..Depth] == FlowOver(d, IF d = 0 THEN << >> ELSE Flow[d - 1])

\* The bindings that may reach the use; none when the walk does not meet it.
NotedAt(proc, use) == {n \in seq(Flow[Depth], proc, {Parameter}).noted : n[1] = use}
ReachingAt(proc, use) == UNION {n[2] : n \in NotedAt(proc, use)}

----------------------------------------------------------------------------
(* The execution.  The stack holds, innermost first, the bodies that run:  *)
(* the proc, a branch, an arm of a list, a loop's pass, a catch, with the  *)
(* command each is at.  A frame stays at a loop until it is left.          *)

VARIABLES
  program,
  stack,
  x           \* the binding the variable has
vars == <<program, stack, x>>

\* loop: of the loop at pc, "no" pass has begun, its start has been "entered"
\* (for), or the next pass is one "again".  A pass is the "first" or a "later".
Frame(kind, cmds) == [kind |-> kind, cmds |-> cmds, pc |-> 1, loop |-> "no"]
Pass == {"first", "later"}

Init == /\ program \in Programs
        /\ stack = <<Frame("block", program)>>
        /\ x = Parameter

Running(ops) == /\ stack # << >>
                /\ Head(stack).pc <= Len(Head(stack).cmds)
                /\ Head(stack).cmds[Head(stack).pc].op \in ops
Current == Head(stack).cmds[Head(stack).pc]
Past(f) == [f EXCEPT !.pc = @ + 1, !.loop = "no"]
Advanced == <<Past(Head(stack))>> \o Tail(stack)
AtLoop(state) == <<[Head(stack) EXCEPT !.loop = state]>> \o Tail(stack)
Enter(frame, below) == stack' = <<frame>> \o below

Bind == /\ Running({"set", "incr"})
        /\ x' = Current.id
        /\ stack' = Advanced
        /\ UNCHANGED program

Read == /\ Running({"use"})
        /\ stack' = Advanced
        /\ UNCHANGED <<program, x>>

Branch == /\ Running({"if", "ifelse", "switchwords"} \cup ArmLists)
          /\ \/ LET kind == IF Current.op \in ArmLists THEN "arm" ELSE "block"
                IN  \E i \in DOMAIN Current.bodies : Enter(Frame(kind, Current.bodies[i]), Advanced)
             \/ Current.op # "ifelse" /\ stack' = Advanced
          /\ UNCHANGED <<program, x>>

\* A for runs its start first.
StartFor == /\ Running({"for"})
            /\ Head(stack).loop = "no"
            /\ Enter(Frame("block", Current.bodies[1]), AtLoop("entered"))
            /\ UNCHANGED <<program, x>>

AtTest == Running(LoopHeads) /\ (Current.op = "for" => Head(stack).loop # "no")

\* A pass of a loop; a foreach binds its variable.
RunPass ==
  /\ AtTest
  /\ Enter(Frame(IF Head(stack).loop = "again" THEN "later" ELSE "first", Last(Current.bodies)), AtLoop("again"))
  /\ x' = IF Current.op = "foreach" THEN Current.id ELSE x
  /\ UNCHANGED program

LeaveLoop == /\ AtTest
             /\ stack' = Advanced
             /\ UNCHANGED <<program, x>>

Catch == /\ Running({"catch"})
         /\ Enter(Frame("catch", Current.bodies[1]), Advanced)
         /\ UNCHANGED <<program, x>>

\* What the stack is after the frame at i has ended.
After(i) == SubSeq(stack, i + 1, Len(stack))

\* The innermost frame of one of these kinds, 0 if there is none.
Innermost(kinds) == SelectInSeq(stack, LAMBDA f : f.kind \in kinds)

\* The pass at i is over: the next of a for comes, then the test.
NextPass(i) ==
  LET c == stack[i + 1].cmds[stack[i + 1].pc]
  IN  IF c.op = "for" THEN Enter(Frame("block", c.bodies[2]), After(i)) ELSE stack' = After(i)

EndBody == /\ stack # << >>
           /\ Head(stack).pc > Len(Head(stack).cmds)
           /\ IF Head(stack).kind \in Pass THEN NextPass(1) ELSE stack' = Tail(stack)
           /\ UNCHANGED <<program, x>>

\* An error inside a catch, where any command may fail.
Fail == /\ Innermost({"catch"}) > 0
        /\ stack' = After(Innermost({"catch"}))
        /\ UNCHANGED <<program, x>>

\* A catch stops return, break and continue too.  Outside every loop the
\* latter end the proc.
Return == /\ Running({"return"})
          /\ LET i == Innermost({"catch"})
             IN  stack' = IF i > 0 THEN After(i) ELSE << >>
          /\ UNCHANGED <<program, x>>

Leaves(i) == i = 0 \/ stack[i].kind = "catch"
Break ==
  /\ Running({"break"})
  /\ LET i == Innermost({"catch"} \cup Pass)
     IN  IF Leaves(i) THEN stack' = IF i > 0 THEN After(i) ELSE << >>
         ELSE Enter(Past(stack[i + 1]), After(i + 1))
  /\ UNCHANGED <<program, x>>

Continue ==
  /\ Running({"continue"})
  /\ LET i == Innermost({"catch"} \cup Pass)
     IN  IF Leaves(i) THEN stack' = IF i > 0 THEN After(i) ELSE << >> ELSE NextPass(i)
  /\ UNCHANGED <<program, x>>

Next == Bind \/ Read \/ Branch \/ StartFor \/ RunPass \/ LeaveLoop \/ Catch \/ EndBody \/ Fail
          \/ Return \/ Break \/ Continue

Spec == Init /\ [][Next]_vars

----------------------------------------------------------------------------
(* Properties.                                                             *)

\* The execution is about to read x, and what the analysis says of it.
Reading == Running({"use", "incr"})
Answered == x \in ReachingAt(program, Current.id)

\* "Never drops a real reaching def" (reaching.go:7): whatever binding a use
\* finds when it runs is in the answer.  The code breaks it inside loops: the
\* answer is noted on the first pass, before what comes round is known.
NothingDropped == Reading => Answered

\* The proc has no for or foreach and no loop is past its first pass.
OnFirstPass == /\ \A c \in CommandsIn("all", program) : c.op \notin {"for", "foreach"}
               /\ \A i \in DOMAIN stack : stack[i].kind # "later"

\* "Sound for may-reach; never drops a real reaching def" (reaching.go:219) and
\* a use in an arm "is found" (222-223) do not hold of every switch.  Where
\* switches mislead the analysis, read off the proc alone.  The arms of
\* a command before the last that no more than the last stands for,
EarlierArms(c) ==
  IF c.op \in {"switchline", "switchwords"} THEN {c.bodies[i] : i \in 1..(Len(c.bodies) - 1)} ELSE {}
\* what cmds bind in such arms,
Aside(cmds) == UNION {UNION {Bound("all", arm) : arm \in EarlierArms(c)} : c \in CommandsIn("all", cmds)}
\* and what of it is bound in a conservative command around such a switch, or
\* in a list on one line;
Lost(cmds) ==
  UNION {IF c.op = "switchline" THEN Aside(<<c>>) ELSE UNION {Aside(body) : body \in ToSet(c.bodies)} :
           c \in {k \in CommandsIn("all", cmds) : k.op \in ConservativeHeads}}
\* and the lists with an arm that leaves a loop around them.
ArmExits(cmds) ==
  \E c \in CommandsIn("all", cmds) :
    c.op \in ArmLists /\ \E arm \in ToSet(c.bodies) :
      \E k \in CommandsIn("leaving", arm) : k.op \in {"break", "continue"}

\* The analysis follows the execution to this point, and x's binding.
Followed == /\ OnFirstPass
            /\ ~ArmExits(program) /\ \A i \in DOMAIN stack : stack[i].kind # "arm"
            /\ x \notin Lost(program)

\* Apart from that nothing is dropped: not after a loop, however it is left,
\* not in its first pass, nor behind switches or around returns and caught
\* errors.  (A for whose next rebinds x, and a foreach over x that runs no
\* pass, lose bindings too, reaching.go:152-157 and 149-151.)
NothingDroppedWhereFollowed == Reading /\ Followed => Answered
=============================================================================
