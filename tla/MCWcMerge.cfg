\* Two scans of up to two frames each, merged in either order, or one
\* with itself; a ceiling the second capture can overflow.
SPECIFICATION MergeSpec
CONSTANTS
  s1 = s1
  r1 = r1
  r2 = r2
  n1 = n1
  n2 = n2
  NoName = NoName
  Macs <- MCMacs
  RandomMacs <- MCRandomMacs
  OuiType <- MCOuiType
  Names = {n1, n2}
  Observations <- MCFrames
  Times = {0, 1}
  Ceilings = {}
  Grow = 1
  MaxDevices = 3
  MaxFrames = 2
  MaxCaptures = 3
SYMMETRY Symmetry
INVARIANTS
  MergeExact
  SelfMergeAddsNobody
  CompareMutual
  FoldOrderFree
  StoredUnique
CHECK_DEADLOCK FALSE
