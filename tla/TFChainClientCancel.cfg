SPECIFICATION Spec
CONSTANTS
  a = a
  b = b
  c = c
  here = here
  there = there
  Tasks = {a, b}
  NoTask = NoTask
  Processes = {here}
  ProcessOf <- OneProcess
  Size <- ManyAndNone
  AllTasks = {a, b}
  Cancelling = {a, b}
  BATCH_SIZE = 2
INVARIANTS
  CancelledIdsReturned
CHECK_DEADLOCK FALSE
