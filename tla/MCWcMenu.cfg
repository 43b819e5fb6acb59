SPECIFICATION Spec

CONSTANTS
  ListMax = 10
  Word = 64
  MaxScroll = 2
  MaxFaults = 2
  Lists <- MCLists
  Stored <- MCStored

INVARIANTS
  PageFull
  SettingsKept

PROPERTY NudgeStays
