SPECIFICATION FairSpec
CONSTANTS
  ask = ask
  ping = ping
  pingAgain = pingAgain
  NoPing = NoPing
  RetriesOf <- MCRetries
  NodeJs = TRUE
  Requests = {ask}
  Pings = {ping}
  MaxConnects = 1
INVARIANTS
  TypeOK
  NoOrphans
PROPERTIES
  CallSettles
CHECK_DEADLOCK FALSE
