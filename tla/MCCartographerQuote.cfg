SPECIFICATION Spec
CONSTANTS
  MaxDim = 7
  Arity <- MCQuoting
  Worlds <- MCUnquoted
  Surveys <- MCQuoted
  Theories <- MCTheories
  Core <- MCCore
  Language <- MCLanguage
  Headrooms = {0, 1}
  Sizes = {2, 3}
  MaxRequests = 4
INVARIANT CarrierValid
CHECK_DEADLOCK FALSE
