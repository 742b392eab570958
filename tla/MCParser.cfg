SPECIFICATION Spec
CONSTANTS
  Mantissa = 4
  Limit = 16
  MaxInt = 9
  MaxPriority = 1
  MaxSize = 5
  LeafSize = 3
  MaxDefs = 2
  Words <- MCWords
  Signs <- MCSigns
  Names <- MCNames
  Priorities <- MCPriorities
  Leaves <- MCLeaves
INVARIANT
  GroupsByPrecedence
  ParsedPrintsBack
  DefinitionsCompose
CHECK_DEADLOCK FALSE
