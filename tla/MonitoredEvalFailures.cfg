SPECIFICATION Spec
CONSTANTS
  InstructionQuota = 1
  MaxCalls = 2
  MayFail <- HandledFailures
INVARIANTS
  EvaluatorsUseLiveSync
  GateIsExact
  QuotaErrorSurvivesHandler
PROPERTIES
  ImplementsSandbox
