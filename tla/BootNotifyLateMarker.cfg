SPECIFICATION Spec
CONSTANTS
  Runs = {task, hand}
  Task = task
  Faults <- MCLate
  MaxBoots = 2
  MaxStarts = 0
  MaxCopies = 2
INVARIANTS
  SkipMeansReported
