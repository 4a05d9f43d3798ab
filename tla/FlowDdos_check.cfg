SPECIFICATION Spec
CONSTANTS
  NULL = NULL
  b1 = b1
  b2 = b2
  n1 = n1
  n2 = n2
  n3 = n3
  a1 = a1
  a2 = a2
  a3 = a3
  p1 = p1
  p2 = p2
  a4 = a4
  Bucket <- TwoBuckets
  Node <- ThreeNodes
  Addr <- FourAddrs
  BucketOf <- Apart
  SrcPort <- TwoPorts
  ListMax = 2
  ScanNumber = 1
  ScanMs = 4
  EntryMax = 2
  TimeMod = 16
  TimeFactor = 3
  TimeStart = 15
  TimeNever = 11
  MaxClock = 1
  SetBack = TRUE
VIEW View
SYMMETRY Buckets
INVARIANTS TypeOK WalkSafe OneNode EntryBound AlarmSound ListWhole
CHECK_DEADLOCK FALSE
