CONSTANTS
  Batches = {b1, b2}
  Packages = {p1, p2}
  NoBatch = NoBatch
  Outcomes = {"completed", "completed_with_errors", "upload_failed", "cancelled"}
SPECIFICATION StoreSpec
SYMMETRY Symmetry
INVARIANTS
  OneActiveAttempt
  BatchMatchesAttempts
  SummaryMatchesLatest
PROPERTIES
  KeepsLease
