CONSTANTS
  ItemDim = 3
  Thread = {t1, t2}
  AndCell = {c1}
  OrCell = {}
  NoCell = NoCell
SPECIFICATION FairSpec
PROPERTY OperationsReturn
