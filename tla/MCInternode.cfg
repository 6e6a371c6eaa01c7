CONSTANTS
  p1 = p1  p2 = p2  r1 = r1  r2 = r2
  Peers = {p1}
  Runs = {r1, r2}
  Waiters = {r2}
  Limit = 1
  CallRetry = 1
  WaitRetry = 1
  Excluders = {p1}
  MaxFaults = 1
SPECIFICATION FairSpec
INVARIANTS TypeOK ReturnedMeansOnce 
PROPERTIES RunEnds
CHECK_DEADLOCK FALSE
