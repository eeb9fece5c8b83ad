CONSTANTS
  WebIds = {w1, w2}
  BotIds = {1}
  Packages = {1, 2}
  Media <- OneAndTwo
  MaxRuns = 2
  LinkPackage = 2
  Callers = {c1, c2}
  MaxBatches = 2
  MaxRequests = 4
  Tokens = {k1}
  Taps = {h1}
SPECIFICATION FairSpec
INVARIANTS RowsAreOwned CompletedIsOver BotRunsAreStoppable
PROPERTIES LinksEnd DownloadedStaysListed
CHECK_DEADLOCK FALSE
