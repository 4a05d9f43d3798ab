SPECIFICATION HSpec
CONSTANTS
  m1 = m1
  m2 = m2
  m3 = m3
  Mbuf <- MCMbuf
  Lcore <- MCLcore
  Port <- MCPort
  RxPorts <- MCRxPorts
  DefaultPort = 1
  DefQueue <- MCDefQueue
  Packet <- MCPacket
  BurstSize = 2
  RingSize = 4
  TxDesc = 2
  MaxArrive = 3
SYMMETRY Symmetry
INVARIANTS InOrder
CHECK_DEADLOCK FALSE
