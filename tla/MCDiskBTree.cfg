CONSTANTS
  MAX_NKEYS = 2
  None = None
  Word = {0, 1, 2, 3, 4, 5, 6, 7, 8, 9, 10, 11, 12, 13, 14, 15, 16, 17}
  Ops <- MCOps
  Keys = {1, 2, 3, 4, 5, 6, 7, 8, 9}
  Updated = {7}
  Lookups = {}
  Bounds = {}
  Limits = {}
  Few = {5, 6, 7, 8, 9}
  GrownSize = 5
  FillOrders = {"up"}
  FillSize = 9
  MaxBlocks = 12
SPECIFICATION PSpec
ACTION_CONSTRAINT FewOrFilledThenDrained
INVARIANTS
  Integrity
  SearchTree
  Balanced
  CrashFindsNoWrongValue
  LeafListIsBeforeOrAfter
  InsertLeavesNoDanglingChild
  FreeListIsMarked
