SPECIFICATION MCSpec
CONSTANTS
  RDigits = 4
  UintMax = 16383
  SsizeMax = 8191
  MaxPrec = 9
  MaxEmax = 9
  MinEmin <- MCMinEmin
  Contexts <- MCContexts
  Offers <- MCOffers
  Variables = {x, y}
  Precision = 2
  Arguments <- MCArguments
  MaxCalls = 4
  Moduli <- MCModuli
  Roots <- MCRoots
  SixStepThreshold = 16
  MinallocMax = 4
  BaseLimit = 2
  KaratsubaLimit = 12
  KaratsubaBase = 4
  FntBase = 4
  Pow2Limit = 32
  MaxTransform = 16
  WordOffers <- MCWordOffers
INVARIANTS
  WordsAreNumbers
  ProductsAgree
  CorrectlyRounded
  QuotientAndRemainder
  OrderIsSound
  PowersAreFaithful
  TextComesBack
  FormatShowsTheNumber
  EqlMeansSameHash
  TextMakesItAgain
CHECK_DEADLOCK FALSE
