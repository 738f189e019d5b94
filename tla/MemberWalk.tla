----------------------------- MODULE MemberWalk -----------------------------
(* Looking a member up along inherit edges.  Goto-definition walks the     *)
(* bases of a class depth first and takes the first declaration it meets   *)
(* (methodInClass, and ivarInClass for instance variables); incoming calls *)
(* repeat the walk to decide whether a call reaches the method they are    *)
(* asked about (methodResolvesTo).  Both mark classes in a visited set     *)
(* that the whole walk shares, because the edges may form a cycle.         *)
(*                                                                         *)
(* The recursion is a stack of classes still to be visited.  The two walks *)
(* run one after the other, from the same class.                           *)
EXTENDS Hierarchy

CONSTANTS
  Classes,     \* fully-qualified class names
  NoClass,     \* nothing found
  Hierarchies, \* bound: the inherit edges considered
  Callers      \* bound: the classes in which the call is made

ASSUME ClassesAssumption == IsFiniteSet(Classes)
ASSUME NoClassAssumption == NoClass \notin Classes
ASSUME HierarchiesAssumption == Hierarchies \subseteq [Classes -> Seq(Classes)]
ASSUME CallersAssumption == Callers \subseteq Classes

VARIABLES
  bases,      \* ClassInfo.Inherit, empty for a class the index does not know
  members,    \* the classes whose Methods hold the name
  start,      \* the class of the call
  anchor,     \* the class that declares the method incoming calls ask about
  walk,       \* "methodInClass", "methodResolvesTo" or "done"
  stack,      \* classes to visit, the next one first
  seen,
  found,      \* what methodInClass returned: the class of the declaration
  resolves    \* what methodResolvesTo returned
table == <<bases, members, start, anchor>>
vars == <<table, walk, stack, seen, found, resolves>>

Init ==
  /\ bases \in Hierarchies
  /\ members \in SUBSET Classes
  /\ start \in Callers
  /\ anchor \in members
  /\ walk = "methodInClass"
  /\ stack = <<start>>
  /\ seen = {}
  /\ found = NoClass
  /\ resolves = FALSE

\* Mutant of IsNew: the set is kept and not asked.
AlwaysNew(k) == k \in Classes
IsNew(k) == k \notin seen

\* The walk in progress visits k.
Visit(k) == /\ walk # "done"
            /\ stack # << >>
            /\ Head(stack) = k

\* The visited set ends the recursion on a class it holds.
Skip(k) == /\ Visit(k)
           /\ ~IsNew(k)
           /\ stack' = Tail(stack)
           /\ UNCHANGED <<table, walk, seen, found, resolves>>

\* Mutants of Push: only the first base counts; breadth first.
PushFirst(k) == stack' = (IF bases[k] = << >> THEN << >> ELSE <<Head(bases[k])>>) \o Tail(stack)
PushLast(k) == stack' = Tail(stack) \o bases[k]

\* Depth first: the bases of k come before what was left to visit.
Push(k) == stack' = bases[k] \o Tail(stack)

Descend(k) == /\ Visit(k)
              /\ IsNew(k)
              /\ k \notin members
              /\ seen' = seen \cup {k}
              /\ Push(k)
              /\ UNCHANGED <<table, walk, found, resolves>>

\* Mutant of Return: the second walk inherits the visited set.
ReturnKeepingSeen == \/ /\ walk = "methodInClass"
                        /\ walk' = "methodResolvesTo"
                        /\ stack' = <<start>>
                        /\ UNCHANGED seen
                     \/ /\ walk = "methodResolvesTo"
                        /\ walk' = "done"
                        /\ UNCHANGED <<stack, seen>>

\* The walk returns; after the first one the second starts afresh.
Return == \/ /\ walk = "methodInClass"
             /\ walk' = "methodResolvesTo"
             /\ stack' = <<start>>
             /\ seen' = {}
          \/ /\ walk = "methodResolvesTo"
             /\ walk' = "done"
             /\ UNCHANGED <<stack, seen>>

Exhausted == /\ stack = << >>
             /\ Return
             /\ UNCHANGED <<table, found, resolves>>

\* methodInClass: the first declaration is the answer.
Match(k) == /\ Visit(k)
            /\ IsNew(k)
            /\ walk = "methodInClass"
            /\ k \in members
            /\ found' = k
            /\ Return
            /\ UNCHANGED <<table, resolves>>

\* methodResolvesTo: the declaration is the anchor's ...
Reach(k) == /\ Visit(k)
            /\ IsNew(k)
            /\ walk = "methodResolvesTo"
            /\ k = anchor
            /\ resolves' = TRUE
            /\ Return
            /\ UNCHANGED <<table, found>>

\* ... or another one, which hides the bases of k; the walk goes on.
Override(k) == /\ Visit(k)
               /\ IsNew(k)
               /\ walk = "methodResolvesTo"
               /\ k \in members \ {anchor}
               /\ seen' = seen \cup {k}
               /\ stack' = Tail(stack)
               /\ UNCHANGED <<table, walk, found, resolves>>

Next == \/ Exhausted
        \/ \E k \in Classes : Skip(k) \/ Descend(k) \/ Match(k) \/ Reach(k) \/ Override(k)

Spec == Init /\ [][Next]_vars

\* A function call runs until it returns.
FairSpec == Spec /\ WF_vars(Next)

----------------------------------------------------------------------------
(* Properties.                                                             *)

TypeOK ==
  /\ bases \in [Classes -> Seq(Classes)]
  /\ members \in SUBSET Classes
  /\ start \in Classes
  /\ anchor \in Classes
  /\ walk \in {"methodInClass", "methodResolvesTo", "done"}
  /\ stack \in Seq(Classes)
  /\ seen \in SUBSET Classes
  /\ found \in Classes \cup {NoClass}
  /\ resolves \in BOOLEAN

\* While methodInClass runs, what it has visited lacks the member, and every
\* base of a visited class is visited or waiting.
Frontier ==
  walk = "methodInClass" =>
    /\ found = NoClass
    /\ start \in seen \cup ToSet(stack)
    /\ seen \cup ToSet(stack) \subseteq Ancestors(bases, start)
    /\ \A k \in seen : k \notin members /\ ToSet(bases[k]) \subseteq seen \cup ToSet(stack)

\* What the recursion of methodInClass is about while it runs.  The calls in
\* progress are those for a path from start over visited classes, of which
\* the last may just have returned; depth tells which of them lists each
\* waiting class as a base.
Chains == {<< >>} \cup {p \in Paths(bases, start) : ToSet(p) \subseteq seen}
InProgress(calls, depth) ==
  /\ \A a, b \in DOMAIN stack : a <= b => depth[b] <= depth[a]
  /\ \A a \in DOMAIN stack :
       IF depth[a] = 0 THEN stack = <<start>> ELSE Contains(bases[calls[depth[a]]], stack[a])

\* A base of a visited class is visited or waits for this class.
BasesWait(calls, depth) ==
  \A k \in seen : \A base \in ToSet(bases[k]) \ seen :
    \E a \in DOMAIN stack : depth[a] > 0 /\ calls[depth[a]] = k /\ stack[a] = base

\* The end of the path p is reached by way of the class waiting at a, and of
\* no class that is visited before: those are earlier bases.
Place(c, k) == IndexFirstSubSeq(<<c>>, bases[k])
WaitsAt(calls, depth, a, p) ==
  LET n == depth[a]
  IN  /\ n < Len(p)
      /\ \A m \in 1..n : p[m] = calls[m]
      /\ p[n + 1] = stack[a]
      /\ n > 0 =>
           /\ n < Len(calls) => Place(calls[n + 1], calls[n]) < Place(stack[a], calls[n])
           /\ \A b \in 1..a - 1 : depth[b] = n => Place(stack[b], calls[n]) < Place(stack[a], calls[n])
Hits == {p \in Paths(bases, start) : Last(p) \in members}
HitsWait(calls, depth) == \A p \in Hits : \E a \in DOMAIN stack : WaitsAt(calls, depth, a, p)

DepthFirst ==
  walk = "methodInClass" =>
    \E calls \in Chains : \E depth \in [DOMAIN stack -> 0..Len(calls)] :
      InProgress(calls, depth) /\ BasesWait(calls, depth) /\ HitsWait(calls, depth)

\* The first declaration depth first wins (resolve.go:126-128): the set that
\* all branches share, which may stop a branch early, never changes the order.
FirstMatchWins ==
  walk # "methodInClass" =>
    FirstMatch(bases, members, start) = IF found = NoClass THEN {} ELSE {found}

\* A member that is not found is declared nowhere above the class, and one
\* that is found is declared above it.
MissIsComplete ==
  walk # "methodInClass" =>
    IF found = NoClass THEN Ancestors(bases, start) \cap members = {}
                       ELSE found \in Ancestors(bases, start) \cap members

\* The inductive invariant.
WalkInv == TypeOK /\ Frontier /\ MissIsComplete

\* Both walks meet only classes that no other declaration hides; what the
\* second one has visited is not the anchor's class, and every base of a
\* visited class without the member is visited or waiting.
Reached(k) == ReachedPastOthers(bases, members, start, k)
ReachInv ==
  /\ anchor \in members
  /\ \A k \in ToSet(stack) : Reached(k)
  /\ found # NoClass => Reached(found)
  /\ resolves => walk = "done" /\ Reached(anchor)
  /\ walk = "methodResolvesTo" =>
       /\ start \in seen \cup ToSet(stack)
       /\ anchor \notin seen
       /\ \A k \in seen \ members : ToSet(bases[k]) \subseteq seen \cup ToSet(stack)
  /\ walk = "done" => resolves \/ ~Reached(anchor)

\* Incoming calls miss no call that goto-definition takes to the anchor.
NoCallMissed == walk = "done" /\ found = anchor => resolves

\* methodResolvesTo says yes exactly when some path to the anchor has no other
\* declaration on it: the shared visited set hides no such path.
ResolvesPastOthers ==
  walk = "done" => (resolves <=> Reached(anchor))

\* Both walks return, however the classes inherit from each other.
Returns == <>(walk = "done")

\* What bounds the recursion, whatever the edges: every step ends a walk, or
\* marks a class that was not marked, or drops a class to visit.  Each step
\* may push any number of bases, so the stack alone shows nothing.
Rank == CASE walk = "methodInClass" -> 2 [] walk = "methodResolvesTo" -> 1 [] walk = "done" -> 0
Unseen == Cardinality(Classes \ seen)
Shrinks == \/ Rank' < Rank
           \/ Rank' = Rank /\ Unseen' < Unseen
           \/ Rank' = Rank /\ Unseen' = Unseen /\ Len(stack') < Len(stack)
WalkShrinks == [][Shrinks]_vars

\* methodResolvesTo is "first match wins ... lands on the anchor's definition
\* site" (callhierarchy.go:190-192): it says yes only where goto-definition
\* goes.  The code breaks it: after an override in the first base it tries
\* the second.
ResolvesLikeDefinition == walk = "done" /\ resolves => found = anchor
=============================================================================
