SPECIFICATION FairSpec
CONSTANTS
  a = a
  b = b
  c = c
  d = d
  NoName = NoName
  NoCondition = NoCondition
  Mantissa = 2
  Limit = 16
  Name <- MCName
  Condition <- MCCondition
  RefsOf <- MCRefsOf
  RuleLists <- MCRuleLists
INVARIANT
  TypeOK
  DegreeCountsPending
  QueuedOnce
  DependenciesFirst
  OutcomeCorrect
  SearchTypeOK
  MarksAgree
  PathIsCycle
  DoneIsSafe
  EmptyOnlyIfAcyclic
PROPERTY
  Terminates
  SearchTerminates
CHECK_DEADLOCK FALSE
