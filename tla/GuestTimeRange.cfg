SPECIFICATION Spec
CONSTANTS
  Objects = {o1, o2}
  Blocks = {b1, b2}
  Null = Null
  UsecPerSec = 2
  LocalOffset = 1
  MinTm <- MCMinTm
  MaxTm = 3
  MaxTimeT = 8
  Doubles <- MCDoubles
  Usecs <- MCUsecs
INVARIANTS
  SumInRangeIsATime
