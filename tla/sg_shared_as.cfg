SPECIFICATION Spec
CONSTANTS
  Burst = TRUE
  UpStatuses <- SharedAs
  ActStatuses <- SoleActive
  NtfyContexts <- WithRoutingContext
  MaxBeats = 0
  MaxSendFailures = 0
INVARIANTS
  ActCarriesContext
