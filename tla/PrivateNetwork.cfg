SPECIFICATION Spec
CONSTANTS
  gate = gate
  plain = plain
  hidden = hidden
  c1 = c1
  c2 = c2
  c3 = c3
  c4 = c4
  Nodes = {gate, plain, hidden}
  Hidden = {hidden}
  Gateways = {gate}
  Calls = {c1, c2, c3, c4}
  NoNode = NoNode
  Wishes <- MCWishes
  MaxBusy = 2
  MaxCrashes = 1
CONSTRAINT MCBound
SYMMETRY MCSymmetry
INVARIANTS
  TypeOK
  SubnetsApart
  AccessApart
  AddressesApart
  AccessKept
  Mesh
  NothingLeft
PROPERTIES
  LoadsSucceed
CHECK_DEADLOCK FALSE
