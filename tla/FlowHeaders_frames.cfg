SPECIFICATION Spec
CONSTANTS
  Frames <- MCFrames
  Ipv4Header = 20
  Ipv6Header = 40
  TcpHeader = 20
INVARIANTS Ipv4Payload ParsedWithin
