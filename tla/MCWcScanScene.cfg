\* Three devices in all, a rotation at two of them, two names to choose from.
SPECIFICATION Spec
CONSTANTS
  MaxDevices = 3
  RotateAt = 2
  UserNames = 2
  MaxSeen = 3
  MaxMinutes = 1
INVARIANTS
  TypeOK
  ReservedWhileScanning
  LinkOkIsTrue
PROPERTIES
  QuietCensus
  ReleasedWhenSaved
  CapturesKept
  RotatesAtTheMark
