CONSTANTS
  Nesting = 7
  Sources <- MCSources
SPECIFICATION Spec
INVARIANTS
  EveryReferenceFound
  ContextsExact
  EveryDefinitionFound
  EveryLocalFound
  FoldsAreBodies
  DeclarationsExact
  OutlineComplete
  OutlineOrdered
CHECK_DEADLOCK FALSE
