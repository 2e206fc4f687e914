CONSTANTS
  MAX_NKEYS = 2
  None = None
  Word = {0, 1, 2, 3, 4, 5, 6, 7, 8, 9, 10, 11}
  Ops <- MCOps
  Keys = {1, 2, 3, 20}
  Updated = {2, 20}
  Lookups = {2, 4}
  Bounds = {2, None}
  Limits = {2, None}
  Few = {1, 2, 3}
  GrownSize = 0
  FillOrders = {}
  FillSize = 0
  MaxBlocks = 5
SPECIFICATION PSpec
ACTION_CONSTRAINT UnfitStaysSmall
INVARIANT
  NoOrphans
