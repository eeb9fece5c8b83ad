SPECIFICATION Spec
CONSTANTS
  Chats = {a, b}
  Newest = 2
  Wanted <- MCWanted
  Outside = {}
  MaxSaves = 2
  Values <- MCValues
  Initial <- MCInitial
  None = None
  LateFailures = FALSE
  MaxFaults = 1
INVARIANTS
  NothingForgotten
CHECK_DEADLOCK FALSE
