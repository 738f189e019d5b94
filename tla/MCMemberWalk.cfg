CONSTANTS
  Caller = Caller
  Left = Left
  Right = Right
  Top = Top
  NoClass = NoClass
  Classes <- MCClasses
  Callers <- MCCallers
  Hierarchies <- MCHierarchies
SPECIFICATION FairSpec
INVARIANTS
  WalkInv
  DepthFirst
  FirstMatchWins
  NoCallMissed
  ResolvesPastOthers
PROPERTIES
  Returns
  WalkShrinks
CHECK_DEADLOCK FALSE
