CONSTANTS
  whole = whole
  stream = stream
  small = small
  first = first
  second = second
  Keys <- MCKeys
  Workers <- MCWorkers
  Total <- MCTotal
  Largest <- MCLargest
  Streams <- MCStreams
  Disk = 4
  MinFree = 1
  MaxForeign = 1
SPECIFICATION FairSpec
INVARIANTS
  TypeOK
  NothingLeftBehind
  OutstandingFits
  FreeSpacePreserved
PROPERTIES
  PipelineMoves
