SPECIFICATION FairSpec
INVARIANTS
  TypeOK
  NothingLeftBehind
PROPERTIES
  BothComplete
  ImplementsPeering
