SPECIFICATION Spec
CONSTANTS
  Attempts = 12
  Wait = 15
  SendTimeout = 20
  MaxRetryAfter = 20
  Durations <- MCDurations
  Statuses <- MCStatuses
  Delays <- MCDelays
  Absent = Absent
  NaN = NaN
INVARIANTS
  TypeOK
  WithinWorstCase
  SuccessWasPosted
  CopiesNeedLostAnswers
  OutlastsOutage
PROPERTIES
  LastingEndsIt
  KeepsCall
