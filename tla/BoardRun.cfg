CONSTANTS
  Run = {1, 2}
  PostRun = {4}
  PassRun = {5}
  Prefix <- MCPrefix
  Provider = {"p"}
  RunResult <- MCRunResult
  PostResult <- MCPostResult
  Refused <- MCRefused
  PassReturn = {10}
  Fetch = 2
  PoolPer = 1
  PoolMin = 3
  Grain = 10
  LineLimit = 2
  SyncLimit = 2
  Submits = {TRUE}
  MaxEvents = 3
  KeepLast = 1
  MaxTotal = 1
SPECIFICATION BoardSpec
CHECK_DEADLOCK FALSE
INVARIANTS BoardTypeOK CountsOnce BestIsShown
PROPERTY EventuallySynced
