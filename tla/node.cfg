SPECIFICATION NodeFairSpec
CONSTANTS
  Burst = TRUE
  UpStatuses <- SoleInactive
  ActStatuses <- SoleActive
  NtfyContexts <- WithRoutingContext
  MaxBeats = 1
  MaxSendFailures = 0
  MaxData = 1
  MaxSignals = 1
INVARIANTS
  NodeTypeOK
  CompleteOnlyWhenActive
  SaysGoodbye
  DataOnce
PROPERTIES
  DataReachesWorker
  SignalEndsNode
