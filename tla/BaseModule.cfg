SPECIFICATION Spec
CONSTANTS
  here = here
  there = there
  ipA = ipA
  NoChange = "one"
  Change = "another"
  c1 = c1
  c2 = c2
  c3 = c3
  c4 = c4
  Calls = {c1, c2, c3, c4}
  Wishes <- MCWishes
  Extras <- MCExtras
  NoIp = NoIp
  NoNode = NoNode
  Unlisted = Unlisted
  MaxBusy = 2
  MaxCrashes = 1
CONSTRAINTS
  MCBound
  MCOrder
INVARIANTS
  TypeOK
  OneDeployment
  NotWrittenOff
  UpdateReaches
CHECK_DEADLOCK FALSE
