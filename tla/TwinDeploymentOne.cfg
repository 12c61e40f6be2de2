\* One call with an operation of every kind.
CONSTANTS
  c1 = c1
  c2 = c2
  Calls = {c1}
  NoCall = NoCall
  NoName = "none"
  Requests <- FullRequests
  Preexisting <- MCPreexisting
  OldWorkloads <- MCOldWorkloads
  OldName <- MCOldName
SPECIFICATION FairSpec
INVARIANTS TypeOK NothingDeletedEarly RestoredIsOriginal
PROPERTIES CallEnds
CHECK_DEADLOCK FALSE
