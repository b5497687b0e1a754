SPECIFICATION FairSpec
CONSTANTS
  n1 = n1
  n2 = n2
  n3 = n3
  Nodes <- Three
  Shards = {1, 2}
  Point <- ThreePoints
  Key <- Places
  MaxFaults = 1
INVARIANT TypeOK
PROPERTIES ShardsServed LockKept RebalanceIsLocal
CHECK_DEADLOCK FALSE
