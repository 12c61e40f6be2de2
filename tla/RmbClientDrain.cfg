SPECIFICATION Spec
CONSTANTS
  ask = ask
  ping = ping
  pingAgain = pingAgain
  NoPing = NoPing
  RetriesOf <- MCRetries
  NodeJs = TRUE
  Requests = {ask}
  Pings = {ping}
  MaxConnects = 1
INVARIANTS
  DrainListens
CHECK_DEADLOCK FALSE
