CONSTANTS
  lib = lib
  first = first
  second = second
  NoText = NoText
  NoClass = NoClass
  NoName = NoName
  Glob = "*"
  Global = "::"
  Requests <- MCRequests
  Names <- MCNames
  Simple <- MCSimple
  Namespaces <- MCNamespaces
  Classes <- MCClasses
  Positions <- MCPositions
  BaseOrder <- MCBaseOrder
  Bindings <- MCBindings
  Files <- MCFiles
  FileOrder <- MCFileOrder
  Pages <- MCPages
  Contents <- MCContents
  Refs <- MCRefs
  Analysis <- MCAnalysis
SPECIFICATION Spec
INVARIANTS
  ReferencesInvertDefinition
  NoCallerMissing
  PagesApart
