SPECIFICATION Spec
CONSTANTS
  BeforeBoot = 4
  AfterBoot = 30
  MaxBoots = 3
  Downtimes <- MCDowntimes
  Uptimes <- MCUptimes
  Closings <- MCQuickClosings
  Lags <- MCLags
  MinSession = 7
  Steps <- MCNoSteps
  MaxClock = 40
  Requests <- MCRequests
  StopRecords <- MCStopRecords
  Recent = 10
INVARIANTS
  TypeOK
  ReasonIsRight
  DowntimeIsTrue
  NoFalseAlarm
  FailureIsOfThisBoot
