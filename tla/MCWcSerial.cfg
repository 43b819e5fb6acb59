\* A stream of three bytes emptied two at a time, lines of at most two
\* characters, two sessions.
SPECIFICATION Spec
CONSTANTS
  StreamSize = 3
  ChunkSize = 2
  LineMax = 3
  MaxBytes = 6
  MaxReturns = 1
  MaxSessions = 2
INVARIANTS
  NoDangling
  NoLostWakeup
  LinesIntact
  OwnSession
  Resynchronized
PROPERTIES
  LineHandedOn
  ImplementsPort
CHECK_DEADLOCK FALSE
