CONSTANTS
  n1 = n1  n2 = n2  n3 = n3  t1 = t1  t2 = t2
  Nodes = {n1, n2, n3}
  Txs = {t1, t2}
  MaxBlocks = 2
  NameOf <- Mixed
  AddressOf <- Addressed
  Scanners = {n1}
  MaxScans = 1
  MaxFaults = 1
SPECIFICATION FairSpec
INVARIANTS TypeOK ReportRight
PROPERTIES NothingVanishes LaterBlocksStay ScanEnds
CHECK_DEADLOCK FALSE
