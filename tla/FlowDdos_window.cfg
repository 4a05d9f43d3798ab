SPECIFICATION Spec
CONSTANTS
  NULL = NULL
  b1 = b1
  b2 = b2
  n1 = n1
  n2 = n2
  n3 = n3
  a1 = a1
  a2 = a2
  a3 = a3
  p1 = p1
  p2 = p2
  a4 = a4
  Bucket <- OneBucket
  Node <- ThreeNodes
  Addr <- OneAddr
  BucketOf <- AllInOne
  SrcPort <- TwoPorts
  ListMax = 2
  ScanNumber = 1
  ScanMs = 4
  EntryMax = 2
  TimeMod = 16
  TimeFactor = 3
  TimeStart = 15
  TimeNever = 11
  MaxClock = 2
  SetBack = FALSE
SYMMETRY NodesAndPorts
INVARIANTS WindowAlarm
CHECK_DEADLOCK FALSE
