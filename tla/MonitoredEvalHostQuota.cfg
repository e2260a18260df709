SPECIFICATION Spec
CONSTANTS
  InstructionQuota = 1
  MaxCalls = 1
  MayFail <- NoFailures
INVARIANTS
  QuotaIsReported
