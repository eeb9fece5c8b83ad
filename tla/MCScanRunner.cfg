CONSTANTS
  Libraries = {a}
  Modes = {"messages", "comments"}
  MaxMessage = 2
  MaxJobs = 3
  Batch = 1
  MaxRetries = 1
  MaxRequests = 1
  MaxUpsets = 2
SPECIFICATION FairSpec
INVARIANTS TypeOK NoSilentGap ReadyIsComplete NoFailureStranded
PROPERTIES ScansEnd
CHECK_DEADLOCK FALSE
