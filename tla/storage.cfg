SPECIFICATION Spec
CONSTANTS
  Requests <- Buffers
  Columns <- ColumnNames
  Values <- ColumnValues
  IdColumn = "global_msg_id"
  Null = Null
  MaxCalls = 5
INVARIANTS
  TypeOK
  RowsAreNotMixed
PROPERTIES
  ImplementsStore
  SelectFreezesTables
CHECK_DEADLOCK FALSE
