SPECIFICATION FairSpec
CONSTANTS
  m1 = m1
  m2 = m2
  m3 = m3
  Mbuf <- MCTwo
  Lcore <- MCLcore
  Port <- MCPort
  RxPorts <- MCRxPorts2
  DefaultPort = 1
  DefQueue <- MCDefQueue
  Packet <- MCApart
  BurstSize = 2
  RingSize = 2
  TxDesc = 1
INVARIANTS TypeOK MbufOwned BurstHeld RouteKept
PROPERTIES MbufProtocol  RingDrained 
CHECK_DEADLOCK FALSE
