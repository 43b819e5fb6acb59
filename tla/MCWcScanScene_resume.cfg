\* A scan in hand is resumed while the port is busy.
SPECIFICATION Spec
CONSTANTS
  MaxDevices = 3
  RotateAt = 2
  UserNames = 2
  MaxSeen = 3
  MaxMinutes = 1
PROPERTY CaptureInHandKept
