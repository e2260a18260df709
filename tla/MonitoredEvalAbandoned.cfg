SPECIFICATION Spec
CONSTANTS
  InstructionQuota = 1
  MaxCalls = 2
  MayFail <- AbandoningFailures
INVARIANTS
  VerdictIsEarned
CHECK_DEADLOCK FALSE
