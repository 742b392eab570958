SPECIFICATION ValuesSpec
CONSTANTS
  Subjects <- MCSubjects
  Patterns <- MCPatterns
  Mantissa = 2
  Limit = 16
  Equals <- MCSameValue
  Samples <- MCSamples
INVARIANT
  ResultIsRight
  OrderIsCoherent
PROPERTY
  AlwaysAdvances
CHECK_DEADLOCK FALSE
