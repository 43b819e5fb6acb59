SPECIFICATION Spec

CONSTANTS
  KnownMax = 3
  MaxFaults = 2
  Devices <- MCDevices
  Networks <- MCNetworks
  Labels <- MCLabels
  Registries <- MCRegistries

INVARIANT NoneWrittenOver
