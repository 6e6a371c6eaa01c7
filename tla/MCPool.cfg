CONSTANTS
  n1 = n1  n2 = n2  n3 = n3  t1 = t1
  Nodes = {n1, n2, n3}
  Txs = {t1}
  Origin <- OneUser
  Blocks = {1, 2, 3}
  MaxLosses = 1
  MaxScans = 1
SPECIFICATION FairSpec
INVARIANTS TypeOK NeverLost FlagMeansKnown
PROPERTIES BlockedOnceIfPropagated 
CHECK_DEADLOCK FALSE
