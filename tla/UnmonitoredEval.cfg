SPECIFICATION FairSpec
CONSTANTS
  InstructionQuota = 2
  MaxCalls = 3
INVARIANTS
  NoJumpToDeadFrame
  CleanBetweenCalls
PROPERTIES
  ImplementsSandbox
  EvalReturns
