SPECIFICATION Spec
CONSTANTS
  ask = ask
  ping = ping
  pingAgain = pingAgain
  NoPing = NoPing
  RetriesOf <- MCRetries
  NodeJs = TRUE
  Requests = {}
  Pings = {ping, pingAgain}
  MaxConnects = 1
INVARIANTS
  MissedPongReconnects
CHECK_DEADLOCK FALSE
