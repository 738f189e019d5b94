CONSTANT Ids <- MCIds
CONSTANT Depth = 2
CONSTANT Programs <- MCPrograms
CONSTANT Bases <- MCBases
CONSTANT Declaring <- MCDeclaring
CONSTANT Instantiates <- MCInstantiates
CONSTANT ThisClass = 2
SPECIFICATION Spec
INVARIANTS NothingDroppedWhereFollowed ReceiverMethodFound
CHECK_DEADLOCK FALSE
