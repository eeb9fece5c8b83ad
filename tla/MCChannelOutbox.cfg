CONSTANTS
  Batches = {b1}
  Packages = {p1, p2, p3}
  NoBatch = NoBatch
  NoPackage = NoPackage
  Outcomes = {"completed", "completed_with_errors", "upload_failed", "cancelled", "failed", "not_found"}
  UnknownSize = {p3}
  Slots = 1
  MaxRestarts = 1
  MaxRequests = 1
SPECIFICATION FairSpec
CHECK_DEADLOCK FALSE
INVARIANTS
  TypeOK
  DatabasesAgree
PROPERTIES
  UsesStore
  CompletedStays
  StartupKeepsCancellation
  BatchesEnd
