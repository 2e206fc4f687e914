CONSTANTS
  N = 2
  None = None
  Word = {1, 2, 3, 4, 5, 6, 11, 12, 13, 14, 15, 16}
  Ops <- MCOps
  Keys = {1, 2, 3, 4, 5, 6}
  Touched = {3, 4}
SPECIFICATION PSpec
INVARIANTS
  AssertionsHold
  SizeAndDepthAgree
  SortedAndFull
  CallsActOnAMap
  IterationIsRight
PROPERTIES
  IterationEnds
ACTION_CONSTRAINT LoopTouchesFew
