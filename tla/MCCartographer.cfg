SPECIFICATION FairSpec
CONSTANTS
  MaxDim = 8
  Arity <- MCArity
  Worlds <- MCWorlds
  Surveys <- MCSurveys
  Theories <- MCTheories
  Core <- MCCore
  Language <- MCLanguage
  Headrooms = {0, 4}
  Sizes = {2, 3}
  MaxRequests = 4
INVARIANTS WorldValid Quotient RegionFaithful FailsForCauseOnly
PROPERTY RequestsAnswered
CHECK_DEADLOCK FALSE
