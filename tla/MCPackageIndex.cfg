SPECIFICATION Spec
CONSTANTS
  Last = 4
  Early = 3
  Channels <- MCChannels
  Album = {2, 3}
  Posts = {4}
  Modes = {"comments", "both"}
  MaxComments = 1
  Batch = 2
  Bounds <- MCBounds
INVARIANTS
  StableIsTrue
  FirstIndexIsPlan
  SelectionIsCurrent
CHECK_DEADLOCK FALSE
