SPECIFICATION Spec
CONSTANTS
  InstructionQuota = 2
  MaxCalls = 3
  MayFail <- NoFailures
INVARIANTS
  InterpreterExclusive
  CpuClockOfLiveThread
  FitAfterCleanCalls
