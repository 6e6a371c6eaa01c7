CONSTANTS
  Default = "default"
  Parcels = {"tenant1", "tenant2"}
  Scopes <- MCScopes
  MaxTxs = 2
  MaxOps = 2
  MaxFaults = 1
SPECIFICATION Spec
INVARIANTS TypeOK ReadsMissNothing HistoryFollows
PROPERTIES ListFollows
CHECK_DEADLOCK FALSE
