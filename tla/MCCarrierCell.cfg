CONSTANTS
  ItemDim = 3
  Thread = {t1, t2}
  AndCell = {c1}
  OrCell = {c2}
  NoCell = NoCell
SYMMETRY ThreadSymmetry
SPECIFICATION Spec
INVARIANTS
  TypeOK
  ChainsDescend
  ClassesAsRequested
  FindInClass
  CellsInClass
  MergeScheduledOnce
  CountsExact
PROPERTIES
  SetReturnsAgreed
  CellKeepsItsClass
  ImplementsPartition
