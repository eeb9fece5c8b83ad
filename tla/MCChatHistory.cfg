SPECIFICATION Spec
CONSTANTS
  Chats = {a, b}
  Newest = 2
  Wanted <- MCWanted
  Outside <- MCOutside
  MaxSaves = 2
  Values <- MCValues
  Initial <- MCInitial
  None = None
  LateFailures = FALSE
  MaxFaults = 1
INVARIANTS
  AlwaysRecoverable
PROPERTIES
  KeepsGeneration
  RetriedUntilDone
CHECK_DEADLOCK FALSE
