SPECIFICATION Spec
CONSTANTS
  MaxDim = 7
  Arity <- MCArity
  Worlds <- MCWorlds
  Surveys <- MCDropped
  Theories <- MCTheories
  Core <- MCCore
  Language <- MCLanguage
  Headrooms = {0, 1}
  Sizes = {2, 3}
  MaxRequests = 4
INVARIANT DefinedIsDefinable
CHECK_DEADLOCK FALSE
