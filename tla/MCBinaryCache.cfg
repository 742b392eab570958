SPECIFICATION Spec
CONSTANTS
  a = a
  b = b
  c = c
  s1 = s1
  s2 = s2
  w1 = w1
  w2 = w2
  r1 = r1
  Absent = Absent
  MAGIC = MAGIC
  Theirs = Theirs
  FORMAT_VERSION = 4
  Mantissa = 2
  Limit = 16
  MaxSaves = 2
  Name <- MCName
  Calls <- MCCalls
  Cuts <- MCCuts
  CompiledCondition <- MCConditions
  Serialized <- MCSerialized
  Flatten <- FlattenExpr
  Unflatten <- UnflattenExpr
  Nodes <- NodesOf
  Holds <- EvalExpr
  Refs <- RuleRefIndices
  Contexts <- MCContexts
  Delivered <- MCDelivered
  Sources <- MCSources
  Writer <- MCWriter
  Reader <- MCReader
INVARIANT
  LoadedMeansSaved
  SettledFileLoads
  DigestTellsStaleness
  CrashLooksShort
  AcceptedIsOrdered
