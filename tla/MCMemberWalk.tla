---------------------------- MODULE MCMemberWalk ----------------------------
(* A method called in a class of four: the caller has up to two bases, the *)
(* first of the others too, so that a class can be met on two paths, and   *)
(* the edges may close cycles.  Four classes are what it takes to tell     *)
(* depth first from breadth first.                                         *)
EXTENDS MemberWalk

CONSTANTS Caller, Left, Right, Top

MCClasses == {Caller, Left, Right, Top}
MCCallers == {Caller}

\* At most n of the classes in S, in any order.
Lists(n, S) == {s \in UNION {[1..i -> S] : i \in 0..n} : IsInjective(s)}

MCHierarchies ==
  {h \in [MCClasses -> Lists(2, MCClasses)] :
     /\ h[Caller] \in Lists(2, {Left, Right, Top})
     /\ h[Left] \in Lists(2, {Caller, Right, Top})
     /\ h[Right] \in Lists(1, {Caller, Top})
     /\ h[Top] \in Lists(1, {Caller, Left})}
=============================================================================
