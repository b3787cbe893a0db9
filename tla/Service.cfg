SPECIFICATION Spec
CONSTANTS
  Limit = 3
  Batch = 2
  BeforeBoot = 4
  AfterBoot = 30
  Logs <- MCLogs
  Now = 20
  Recent = 10
  ReadTimes <- MCTimes
  SlowestRead = 15
  SendTimes <- MCSendTimes
  SendTimeout = 16
  Pause = 3
  WaitHint = 50
  Statuses <- MCStatuses
INVARIANTS
  TypeOK
  EmptyIsTrue
  InsideWaitHint
  NoticeIsAccounted
  OneNotice
  NamedIsTrue
PROPERTIES
  ShutdownIsNotHeldUp
