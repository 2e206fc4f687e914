CONSTANTS
  MAX_NKEYS = 3
  None = None
  Word = {0, 1, 2, 3, 4, 5, 6, 7, 8, 9, 10, 11, 12, 13, 14, 15}
  Ops <- MCOps
  Keys = {1, 2, 3, 4, 5, 6, 7, 8, 9, 10}
  Updated = {}
  Lookups = {}
  Bounds = {}
  Limits = {}
  Few = {}
  GrownSize = 0
  FillOrders = {"up"}
  FillSize = 9
  MaxBlocks = 12
SPECIFICATION PSpec
ACTION_CONSTRAINT FewOrFilledThenDrained
INVARIANTS
  TypeOK
  NodesFit
  SearchTree
  Balanced
