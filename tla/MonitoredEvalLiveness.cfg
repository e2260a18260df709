SPECIFICATION FairSpec
CONSTANTS
  InstructionQuota = 1
  MaxCalls = 1
  MayFail <- HandledFailures
PROPERTIES
  CompletionWakesHost
  EvalReturns
