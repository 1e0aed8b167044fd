SPECIFICATION FairSpec
CONSTANTS
  Burst = TRUE
  UpStatuses <- SoleInactive
  ActStatuses <- SoleActive
  NtfyContexts <- WithRoutingContext
  MaxBeats = 4
  MaxSendFailures = 0
INVARIANTS
  ActCarriesContext
PROPERTIES
  HandshakeCompletes
