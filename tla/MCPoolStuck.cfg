CONSTANTS
  n1 = n1  n2 = n2  n3 = n3  t1 = t1
  Nodes = {n1, n2}
  Txs = {t1}
  Origin <- OneUser
  Blocks = {1}
  MaxLosses = 0
  MaxScans = 2
SPECIFICATION FairSpec
PROPERTY EventuallyBlocked
CHECK_DEADLOCK FALSE
