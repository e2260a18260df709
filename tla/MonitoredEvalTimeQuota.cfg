SPECIFICATION Spec
CONSTANTS
  InstructionQuota = 1
  MaxCalls = 2
  MayFail <- NoFailures
INVARIANTS
  EveryQuotaRefuses
