CONSTANT Ids <- MCIds
CONSTANT Depth = 2
CONSTANT Programs <- MCLoops
CONSTANT Bases <- MCBases
CONSTANT Declaring <- MCDeclaring
CONSTANT Instantiates <- MCInstantiates
CONSTANT ThisClass = 2
SPECIFICATION Spec
INVARIANT NothingDropped
CHECK_DEADLOCK FALSE
