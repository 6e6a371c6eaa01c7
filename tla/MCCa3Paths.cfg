CONSTANTS
  n1 = n1
  n2 = n2
  n3 = n3
  n4 = n4
  n5 = n5
  c1 = c1
  c2 = c2
  c3 = c3
  Nodes = {n1, n2, n3, n4, n5}
  Txs = {t1}
  Parcels <- CloseOne
  Calls = {c1}
  Owner <- OneCall
  MaxSign = 3
  MinSign = 2
  Down = {}
  Abnormal = {}
  Keyless = {n5}
  MaxLosses = 1
  MaxExpiries = 1
  MaxAttempts = 2
SPECIFICATION Spec
INVARIANTS TypeOK 
CHECK_DEADLOCK FALSE
