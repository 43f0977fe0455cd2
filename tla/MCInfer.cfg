SPECIFICATION FairSpec
CONSTANTS
  Dim = 6
  Thread = {t1, t2}
  NoThread = NoThread
  Worlds <- MCWorlds
  Orders <- MCOrders
INVARIANTS LoopsOK Saturated
PROPERTIES Sound Normalizes
