CONSTANTS
  Worker = {w1, w2}
  ItemDim = 2
  QueueOrder <- OneQueue
  TypeCount = 2
  Phases = {"initialize", "survey", "deadline"}
  Budget = 2
SPECIFICATION FairSpec
PROPERTY EveryoneQuits
