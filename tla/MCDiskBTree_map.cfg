CONSTANTS
  MAX_NKEYS = 2
  None = None
  Word = {0, 1, 2, 3, 4, 5, 6, 7, 8, 9, 10, 11}
  Ops <- MCOps
  Keys = {1, 2, 3, 4, 20}
  Updated = {1, 2}
  Lookups = {2, 5}
  Bounds = {1, 3, None}
  Limits = {0, 2, None}
  Few = {1, 2, 3}
  GrownSize = 0
  FillOrders = {}
  FillSize = 0
  MaxBlocks = 5
SPECIFICATION PSpec
ACTION_CONSTRAINT UnfitStaysSmall
INVARIANT
  IntegrityCheckIsRight
PROPERTIES
  ImplementsMap
  CallsReturn
