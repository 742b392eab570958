SPECIFICATION Spec
CONSTANTS
  a = a
  b = b
  c = c
  d = d
  e = e
  t1 = t1
  t2 = t2
  Nothing = Nothing
  Mantissa = 2
  Limit = 16
  STACK_THRESHOLD = 4
  Name <- MCName
  CompiledCondition <- MCCompiledCondition
  RuleSets <- MCRuleSets
  Contexts <- MCContexts
  Holds <- MCHolds
  Reads <- MCReads
  Caller <- MCCaller
INVARIANT
  TypeOK
  ResultsStand
  ReportMatchesResults
  AnswersAgree
PROPERTY
  Decides
