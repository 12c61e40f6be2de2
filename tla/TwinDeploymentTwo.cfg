\* Two concurrent calls that share contracts and a name.
CONSTANTS
  c1 = c1
  c2 = c2
  Calls = {c1, c2}
  NoCall = NoCall
  NoName = "none"
  Requests <- MeetingRequests
  Preexisting <- MCPreexisting
  OldWorkloads <- MCOldWorkloads
  OldName <- MCOldName
SPECIFICATION Spec
INVARIANTS FailureLeavesNothing NothingDeletedEarly
PROPERTIES CancelledForAReason AllOrNothing
CHECK_DEADLOCK FALSE
