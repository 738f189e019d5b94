\* Two files declare the same inherit edge: the run that shows one of them loses it.
CONSTANTS
  a = a
  b = b
  page = page
  declares = declares
  inherits = inherits
  bodies = bodies
  NoText = NoText
  NoClass = NoClass
  NotCached = NotCached
  Files <- MCFiles
  FileOrder <- MCFileOrder
  Contents <- MCContents
  Names <- MCNames
  Classes <- MCClasses
  Namespaces <- MCNamespaces
  Refs <- MCRefs
  Positions <- MCPositions
  Analysis <- MCAnalysis
SPECIFICATION Spec
INVARIANT InheritComplete
