\* Three names, two devices to a capture, two names to a list.
SPECIFICATION Spec
CONSTANTS
  Names <- MCNames
  MaxDevices = 2
  MaxNamed = 2
  Imported <- MCImported
  Cards <- MCCards
  MaxFaults = 1
  MaxSaves = 1
INVARIANTS
  SelectedOnCard
  ShownIsStored
  BlameIsTrue
  SidecarsMatch
PROPERTIES
  ImplementsShelf
