SPECIFICATION EngineSpec
CONSTANTS
  a = a
  b = b
  c = c
  NoCondition = NoCondition
  NoError = NoError
  Mantissa = 2
  Limit = 16
  MaxRules = 3
  MaxTerminals = 2
  Name <- MCName
  Condition <- MCCondition
  RefsOf <- MCRefsOf
  RuleCalls <- MCFewCalls
  TerminalCalls <- MCFewTerminals
  FieldPath <- MCFieldPath
  FieldsOf <- MCFieldsOf
  Translate <- MCTranslate
  CompiledCondition <- MCReloadedCondition
  Holds <- MCHolds
  Reads <- MCReads
  Means <- MCMeans
  Environments <- MCFewEnvironments
  t1 = t1
  t2 = t2
  Caller <- MCCaller
  STACK_THRESHOLD = 2
  Nothing = Nothing
  text = text
  Sources <- MCSources
  RefIndices <- MCRefIndices
  ToNary <- MCToNary
  FromNary <- MCFromNary
  Visited <- MCVisited
  MAGIC = MAGIC
  FORMAT_VERSION = 1
SYMMETRY MCThreads
INVARIANT
  AnswersMeanRules
  NothingIsRefused
CHECK_DEADLOCK FALSE
