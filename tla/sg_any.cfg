SPECIFICATION FairSpec
CONSTANTS
  Burst = FALSE
  UpStatuses <- AnyStatus
  ActStatuses <- AnyStatus
  NtfyContexts <- AnyContext
  MaxBeats = 2
  MaxSendFailures = 1
INVARIANTS
  TypeOK
  CompleteOnlyWhenActive
  PeerStateTruthful
PROPERTIES
  LostPlaceIsForever
  HandshakeSettles
  ImplementsPeering
