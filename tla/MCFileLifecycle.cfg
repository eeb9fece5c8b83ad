CONSTANTS
  Missing = 1
  Fetched = 2
  Workers = 2
  CloudUpload = TRUE
  MaxFaults = 1
SPECIFICATION FairSpec
CHECK_DEADLOCK FALSE
INVARIANTS
  RowsAreBacked
  ResultAfterWork
  CountersTellResults
PROPERTIES
  TerminalTaskStays
  PackageEnds
