SPECIFICATION NodeSpec
CONSTANTS
  Burst = TRUE
  UpStatuses <- SoleInactive
  ActStatuses <- SoleActive
  NtfyContexts <- WithRoutingContext
  MaxBeats = 0
  MaxSendFailures = 0
  MaxData = 0
  MaxSignals = 1
INVARIANTS
  SignalClosesConnections
