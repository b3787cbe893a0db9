SPECIFICATION Spec
CONSTANTS
  Runs = {task, hand}
  Task = task
  Faults <- MCAllFaults
  MaxBoots = 2
  MaxStarts = 1
  MaxCopies = 2
INVARIANTS
  TypeOK
  RecordedIsSettled
  LogIsTruthful
PROPERTIES
  KeepsPromise
