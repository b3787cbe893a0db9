SPECIFICATION Spec
CONSTANTS
  Runs = {task, hand}
  Task = task
  Faults <- MCLiveFaults
  MaxBoots = 2
  MaxStarts = 1
  MaxCopies = 3
INVARIANTS
  QuietRunMeansSettled
PROPERTIES
  RecordMovesForward
  OnlyThisBootIsTold
  EveryBootReported
