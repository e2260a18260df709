SPECIFICATION MCSpec
CONSTANTS
  Objects = {o1, o2}
  Blocks = {b1, b2}
  Null = Null
  UsecPerSec = 2
  LocalOffset = 1
  MinTm <- MCMinTm
  MaxTm = 3
  MaxTimeT = 8
  Doubles <- MCDoubles
  Usecs <- MCUsecs
  FirstYear = 1970
  LastYear = 2101
  DepthMax = 2
  HostFixnums = {0, 1}
  Texts = {"word", "accent", "bytes"}
  Utf8Texts = {"word", "accent"}
  AsciiTexts = {"word"}
  Encodings = {"UTF-8", "US-ASCII", "binary"}
  MaxNesting = 3
  HostValues <- MCHostValues
  GuestValues <- MCGuestValues
INVARIANTS
  BlocksAreOwned
  CmpIsOrder
  MinusUndoesPlus
  DatetimeIsCurrent
  CountsTheDays
  RoundTrips
  TooDeepMeansDeep
PROPERTIES
  LossNeedsRangeError
  FailedInjectIsHarmless
CHECK_DEADLOCK FALSE
