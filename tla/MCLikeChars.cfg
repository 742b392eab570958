SPECIFICATION Spec
CONSTANTS
  Subjects <- MCSubjects
  Patterns <- MCPatterns
INVARIANT
  WildcardsAreCharacters
CHECK_DEADLOCK FALSE
