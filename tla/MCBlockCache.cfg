CONSTANTS
  Addrs = {a0, a1, a2}
  Contents = {Blank, c1}
  Blank = Blank
  Nothing = Nothing
  Unsure = Unsure
  Sizes = {0, 1, 2}
  MaxFaults = 1
SPECIFICATION CPSpec
INVARIANTS
  CacheHoldsMostRecent
  NoWriteLost
  ClosedIsWritten
  FlushFindsItsBlocks
PROPERTIES
  FailStop
  ImplementsStore
SYMMETRY Symmetry
