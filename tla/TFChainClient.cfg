SPECIFICATION FairSpec
CONSTANTS
  a = a
  b = b
  c = c
  here = here
  there = there
  Tasks = {a, b, c}
  NoTask = NoTask
  Processes = {here, there}
  ProcessOf <- TwoAndOne
  Size <- Sizes
  AllTasks = {b, c}
  Cancelling = {b}
  BATCH_SIZE = 2
INVARIANTS
  TypeOK
  NoNonceRace
  ReturnsWhatWasApplied
  BatchAllRollsBack
PROPERTIES
  CallSettles
CHECK_DEADLOCK FALSE
