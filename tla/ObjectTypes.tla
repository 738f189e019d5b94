---------------------------- MODULE ObjectTypes ----------------------------
(* Where a call of the form $x method goes (classof.go, resolve.go): the   *)
(* bindings that may reach the receiver give the classes it may be an      *)
(* object of, and each class the first declaration of the method on it and *)
(* its bases.  The proc that executes beside the analysis of ReachingDefs  *)
(* says which object x holds when the call runs.                           *)
EXTENDS ReachingDefs, Hierarchy

CONSTANTS
  Bases,             \* the bases of each class, in order
  Declaring,         \* the classes that declare the method
  Instantiates(_),   \* the class of the object that a set command makes, or NoClass
  ThisClass          \* the class around the body, for $this

NoClass == 0

\* extractInstantiationClass of the commands that the walkers see in cmds and
\* that make one of the wanted bindings with a set.
walkCmds(cmds, wanted) ==
  {Instantiates(c.id) : c \in {k \in CommandsIn("children", cmds) : k.op = "set" /\ k.id \in wanted}} \ {NoClass}

\* Mutant of ClassOf: only the commands of the proc itself are searched.
ClassOfFlat(proc, use) ==
  {Instantiates(proc[i].id) : i \in {j \in DOMAIN proc : /\ proc[j].op = "set"
                                                         /\ proc[j].id \in ReachingAt(proc, use)}} \ {NoClass}

ClassOf(proc, use) == walkCmds(proc, ReachingAt(proc, use))

\* The receiver is $this in a method of class self, or self is NoClass.
ReceiverClasses(proc, use, self) ==
  LET classes == ClassOf(proc, use)
  IN  IF classes = {} THEN {self} \ {NoClass} ELSE classes

methodInClass == [class \in DOMAIN Bases |-> FirstMatch(Bases, Declaring, class)]

\* The declarations that goto-definition answers on the method of the call.
MethodDefinition(proc, use, self) ==
  UNION {methodInClass[class] : class \in ReceiverClasses(proc, use, self)}

----------------------------------------------------------------------------
(* Properties.                                                             *)

\* A body that binds x nowhere is read as that of a method, and x as this.
Self == IF Bound("all", program) = {} THEN ThisClass ELSE NoClass

\* The class of the object x holds, or NoClass: only a set makes one.
Held == CASE x = Parameter -> Self
          [] \E c \in CommandsIn("all", program) : c.op = "set" /\ c.id = x -> Instantiates(x)
          [] OTHER -> NoClass

\* Whatever object the receiver of a call holds when the call runs, the method
\* that runs is among the answers (classof.go:6-7: the classes "the variable
\* may hold at that point"), where the reaching analysis itself drops nothing
\* and the object was not made in an arm that walkCmds does not see.
ReceiverMethodFound ==
  Reading /\ Followed /\ x \notin Aside(program) /\ Held # NoClass
    => methodInClass[Held] \subseteq MethodDefinition(program, Current.id, Self)
=============================================================================
