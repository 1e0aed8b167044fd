SPECIFICATION NodeSpec
CONSTANTS
  Burst = TRUE
  UpStatuses <- SoleInactive
  ActStatuses <- SoleActive
  NtfyContexts <- WithRoutingContext
  MaxBeats = 1
  MaxSendFailures = 0
  MaxData = 0
  MaxSignals = 0
INVARIANTS
  HeartbeatIsHandled
