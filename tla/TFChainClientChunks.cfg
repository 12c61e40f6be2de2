SPECIFICATION Spec
CONSTANTS
  a = a
  b = b
  c = c
  here = here
  there = there
  Tasks = {a, b}
  NoTask = NoTask
  Processes = {here}
  ProcessOf <- OneProcess
  Size <- ManyAndNone
  AllTasks = {a, b}
  Cancelling = {}
  BATCH_SIZE = 2
INVARIANTS
  FailedExtrinsicRollsBackAll
CHECK_DEADLOCK FALSE
