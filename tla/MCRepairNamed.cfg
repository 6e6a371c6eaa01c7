CONSTANTS
  n1 = n1  n2 = n2  n3 = n3  t1 = t1  t2 = t2
  Nodes = {n1, n2, n3}
  Txs = {t1, t2}
  MaxBlocks = 2
  NameOf <- Named
  AddressOf <- Addressed
  Scanners = {n1}
  MaxScans = 1
  MaxFaults = 0
SPECIFICATION FairSpec
PROPERTIES SyncsWithMajority
CHECK_DEADLOCK FALSE
