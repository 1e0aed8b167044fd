SPECIFICATION Spec
CONSTANTS
  msc = msc
  hlr = hlr
  Nodes = {msc, hlr}
  Ssn <- SsnOf
  PointCode <- PointCodeOf
  MaxRoutes = 2
  Transactions = {1, 2}
  Subsystems = {6}
  PeerAddresses <- SomeAddresses
  PeerPayloads <- SomePayloads
INVARIANT
  ResolutionDelivers
CHECK_DEADLOCK FALSE
