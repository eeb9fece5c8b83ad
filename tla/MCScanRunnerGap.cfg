CONSTANTS
  Libraries = {a}
  Modes = {"messages"}
  MaxMessage = 2
  MaxJobs = 4
  Batch = 1
  MaxRetries = 0
  MaxRequests = 4
  MaxUpsets = 2
SPECIFICATION UndisturbedSpec
INVARIANTS ReadyIsIndexed
CHECK_DEADLOCK FALSE
