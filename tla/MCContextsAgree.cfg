SPECIFICATION Spec
CONSTANTS
  Mantissa = 2
  Limit = 16
  MaxCalls = 4
  Segment <- MCSegment
  Path <- MCPath
  Value <- MCValue
  Registries <- MCRegistries
INVARIANT
  EvaluationsAgree
CHECK_DEADLOCK FALSE
