\* The index on three files and three texts: every invariant and the refinement.
CONSTANTS
  a = a
  b = b
  page = page
  declares = declares
  inherits = inherits
  bodies = bodies
  NoText = NoText
  NoClass = NoClass
  NotCached = NotCached
  Files <- MCFiles
  FileOrder <- MCFileOrder
  Contents <- MCContents
  Names <- MCNames
  Classes <- MCClasses
  Namespaces <- MCNamespaces
  Refs <- MCRefs
  Positions <- MCPositions
  Analysis <- MCAnalysis
SPECIFICATION Spec
INVARIANTS
  TypeOK
  LedgersExact
  DefsExact
  MembersExact
  StoresExact
  EdgesCredited
  NsCacheCoherent
PROPERTY ImplementsTable
