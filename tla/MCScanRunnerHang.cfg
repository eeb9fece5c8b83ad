CONSTANTS
  Libraries = {a}
  Modes = {"messages", "comments"}
  MaxMessage = 2
  MaxJobs = 3
  Batch = 1
  MaxRetries = 1
  MaxRequests = 1
  MaxUpsets = 2
SPECIFICATION Spec
INVARIANTS IndexYields
CHECK_DEADLOCK FALSE
