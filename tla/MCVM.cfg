SPECIFICATION FairSpec
CONSTANTS
  Thread = {t1, t2}
  BlockSize = 2
  Worlds <- MCWorlds
  Certificate <- MCCertificate
INVARIANTS
  Sound
  AssertionsHold
  OrderClosed
  CleanupCovers
PROPERTY WorkEnds
