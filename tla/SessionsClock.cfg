SPECIFICATION Spec
CONSTANTS
  BeforeBoot = 4
  AfterBoot = 30
  MaxBoots = 2
  Downtimes <- MCLongDowntimes
  Uptimes <- MCUptimes
  Closings <- MCClosings
  Lags <- MCLags
  MinSession = 0
  Steps <- MCSteps
  MaxClock = 40
  Requests <- MCManual
  StopRecords <- MCStopRecords
  Recent = 10
INVARIANTS
  PendingIsCurrent
  PendingIsFound
  CycleIsLast
