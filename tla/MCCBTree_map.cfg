CONSTANTS
  MAX_NKEYS = 2
  NUM_BUFS = 10
  KEY_BITS = 5
  INT_BITS = 5
  None = None
  Word <- MCWord
  Ops <- MCOps
  Keys = {1, 2, 3, 4}
  Updated = {2}
  Lookups = {2, 5}
  Bounds = {1, 3}
  Limits = {0, 2}
  Few = {}
  GrownSize = 0
  FillOrders = {}
  FillSize = 0
SPECIFICATION CPSpec
PROPERTIES
  ImplementsCMap
  CallsEnd
