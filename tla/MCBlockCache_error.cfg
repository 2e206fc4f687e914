CONSTANTS
  Addrs = {a0, a1}
  Contents = {Blank, c1}
  Blank = Blank
  Nothing = Nothing
  Unsure = Unsure
  Sizes = {0}
  MaxFaults = 1
SPECIFICATION CPSpec
PROPERTIES
  NoIoUnderWay
