SPECIFICATION Spec
CONSTANTS
  a = a
  b = b
  c = c
  NoCondition = NoCondition
  NoError = NoError
  Mantissa = 2
  Limit = 16
  MaxRules = 3
  MaxTerminals = 2
  Name <- MCName
  Condition <- MCCondition
  RefsOf <- MCRefsOf
  RuleCalls <- MCRuleCalls
  TerminalCalls <- MCTerminalCalls
  FieldPath <- MCFieldPath
  FieldsOf <- MCFieldsOf
  Translate <- MCTranslate
  CompiledCondition <- MCCompiledCondition
  Holds <- MCHolds
  Reads <- MCReads
  Means <- MCMeans
  Environments <- MCEnvironments
INVARIANT
  TypeOK
  LookupsSucceed
  OutcomeIsRight
  OutputWellFormed
  SameVerdict
CHECK_DEADLOCK FALSE
