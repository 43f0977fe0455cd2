CONSTANTS
  ItemDim = 3
  Kinds = {"binary", "symmetric", "injective", "relation", "unary"}
  Thread = {t1, t2}
  Effort = 3
SYMMETRY ThreadSymmetry
CHECK_DEADLOCK FALSE
SPECIFICATION Spec
INVARIANTS
  TableValid
  LinesLag
  RelationsTold
  CongruenceReached
