SPECIFICATION FairSpec
CONSTANTS
  m1 = m1
  m2 = m2
  m3 = m3
  Mbuf <- MCTwo
  Lcore <- MCLcore
  Port <- MCPort
  RxPorts <- MCRxPorts2
  DefaultPort = 1
  DefQueue <- MCDefQueue
  Packet <- MCShared
  BurstSize = 1
  RingSize = 2
  TxDesc = 1
PROPERTIES EveryPortRead
CHECK_DEADLOCK FALSE
