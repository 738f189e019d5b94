CONSTANTS
  Caller = Caller
  Left = Left
  Right = Right
  Top = Top
  NoClass = NoClass
  Classes <- MCClasses
  Callers <- MCCallers
  Hierarchies <- MCHierarchies
SPECIFICATION Spec
INVARIANT ResolvesLikeDefinition
CHECK_DEADLOCK FALSE
