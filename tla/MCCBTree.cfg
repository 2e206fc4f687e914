CONSTANTS
  MAX_NKEYS = 2
  NUM_BUFS = 10
  KEY_BITS = 5
  INT_BITS = 5
  None = None
  Word <- MCWord
  Ops <- MCOps
  Keys = {1, 2, 3, 4, 5, 6, 7, 8, 9, 12, 13, 14, 15}
  Updated = {}
  Lookups = {}
  Bounds = {}
  Limits = {}
  Few = {12, 13, 14, 15}
  GrownSize = 5
  FillOrders = {"up", "down"}
  FillSize = 9
SPECIFICATION CPSpec
ACTION_CONSTRAINT FewOrFilledThenDrained
INVARIANTS
  CTypeOK
  FileIntact
  KeysFound
  Level
  NoBufferLeaked
  OnlyAnUnwrittenParentMisleads
  DeleteKeepsACopy
PROPERTIES
  BuffersFollowDepth
  MergesOnlyWithoutLender
