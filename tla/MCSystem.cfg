CONSTANTS
  Editable = {"a", "e", "k", "s"}
  MaxEdits = 1
  MaxOrders = 2
  MaxCalls = 1
  MaxFaults = 1
SPECIFICATION FairSpec
INVARIANTS TypeOK Wired OneAtATime 
PROPERTIES EditsTakeEffect ShutdownEnds
CHECK_DEADLOCK FALSE
