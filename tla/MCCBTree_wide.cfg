CONSTANTS
  MAX_NKEYS = 2
  NUM_BUFS = 10
  KEY_BITS = 4
  INT_BITS = 3
  None = None
  Word <- MCWord
  Ops <- MCOps
  Keys = {1, 4, 5, 6, 7}
  Updated = {}
  Lookups = {}
  Bounds = {}
  Limits = {}
  Few = {}
  GrownSize = 0
  FillOrders = {}
  FillSize = 0
SPECIFICATION CPSpec
INVARIANTS
  DuplicateIsError
