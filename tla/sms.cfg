SPECIFICATION FairSpec
CONSTANTS
  Burst = FALSE
  UpStatuses <- UpMay
  ActStatuses <- SoleActive
  NtfyContexts <- WithRoutingContext
  MaxBeats = 1
  Receivers = {"abroad", "home"}
  India = {"home"}
  MaxAttempts = 3
  MaxDbFailures = 1
  MaxLosses = 1
  MaxStrays = 2
INVARIANTS
  SmsTypeOK
  OneTransaction
  MoReachesAsked
  EveryOtherAttempt
  NeverReported
  EachLossHasItsFailure
PROPERTIES
  ClientImplementsPeering
  ClientCompletes
  RequestIsAnswered
  SilenceLasts
CHECK_DEADLOCK FALSE
