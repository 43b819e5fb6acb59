\* What a record accumulates: readings present or missing, a clock or none.
SPECIFICATION Spec
CONSTANTS
  s1 = s1
  s2 = s2
  r1 = r1
  r2 = r2
  r3 = r3
  n1 = n1
  n2 = n2
  NoName = NoName
  Macs = {s1, r1, r2}
  RandomMacs = {r1, r2}
  OuiType <- MCOuiType
  Names = {n1}
  Observations <- ReadingFrames
  Times = {0, 1, 2}
  Ceilings = {}
  Grow = 2
  MaxDevices = 3
  MaxFrames = 3
SYMMETRY Symmetry
INVARIANTS
  MergeIsAbsorb
