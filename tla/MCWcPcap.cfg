SPECIFICATION Spec

CONSTANTS
  MaxFrame = 2
  MaxFaults = 1
  Files <- MCFiles

INVARIANT SameFrames

CHECK_DEADLOCK FALSE
