SPECIFICATION Spec
INVARIANTS
  ActiveOnlyAfterUpAck
