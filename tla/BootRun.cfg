SPECIFICATION Spec
CONSTANTS
  Attempts = 12
  Wait = 15
  SendTimeout = 20
  MaxRetryAfter = 20
  CollectAttempts = 6
  CollectWait = 5
  QueryTimes <- MCQueryTimes
  SlowestQuery = 19
  SaveTime = 1
  TimeLimit = 600
INVARIANTS
  InsideTimeLimit
  CleanExitIsRecorded
  SentMeansAllOfIt
  DeliveredIsTold
