SPECIFICATION PatientSpec
CONSTANTS
  MaxWritten = 2
  MaxOutput = 3
  PipeCapacity = 1
  MaxCancels = 1
PROPERTY NoPipeDeadlock
