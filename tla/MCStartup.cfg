CONSTANTS
  n1 = n1
  n2 = n2
  Nodes = {n1, n2}
  Initializers = {n1}
  Callers = {n2}
  Signers = 2
  MaxStarts = 5
  MaxGenesis = 2
  MaxCrashes = 2
SPECIFICATION Spec
INVARIANTS TypeOK 
PROPERTIES KeysStay ExitReasons
CHECK_DEADLOCK FALSE
