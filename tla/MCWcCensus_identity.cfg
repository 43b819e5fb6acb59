\* Who is who: two stable and three randomized addresses, two names, five
\* frames, a ceiling that two or three devices reach.
SPECIFICATION Spec
CONSTANTS
  s1 = s1
  s2 = s2
  r1 = r1
  r2 = r2
  r3 = r3
  n1 = n1
  n2 = n2
  NoName = NoName
  Macs <- MCMacs
  RandomMacs <- MCRandomMacs
  OuiType <- MCOuiType
  Names = {n1, n2}
  Observations <- IdentityFrames
  Times = {1}
  Ceilings = {4}
  Grow = 2
  MaxDevices = 3
  MaxFrames = 5
SYMMETRY Symmetry
INVARIANTS
  TypeOK
  InBounds
  UniqueMacs
  StableIdentity
  PlaceNames
  FramesAccounted
PROPERTY StableKept
