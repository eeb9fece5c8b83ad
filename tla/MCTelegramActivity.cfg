CONSTANTS
  Intents = {d1, d2, d3}
  Scanners = {s1, s2}
SPECIFICATION FairSpec
INVARIANTS
  CountersAgree
  ScanIsAlone
PROPERTIES
  KeepsPriority
  NobodyIsForgotten
