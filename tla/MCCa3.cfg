CONSTANTS
  n1 = n1
  n2 = n2
  n3 = n3
  n4 = n4
  n5 = n5
  c1 = c1
  c2 = c2
  c3 = c3
  Nodes = {n1, n2, n3}
  Txs = {t1, t2}
  Parcels <- NoParcels
  Calls = {c1, c2, c3}
  Owner <- SameOwner
  MaxSign = 3
  MinSign = 2
  Down = {}
  Abnormal = {}
  Keyless = {}
  MaxLosses = 0
  MaxExpiries = 0
  MaxAttempts = 1
SPECIFICATION Spec
INVARIANTS AtMostOnce SomeoneWins QuietAgreement
PROPERTIES ImplementsBlocking EveryCallEnds
CHECK_DEADLOCK FALSE
