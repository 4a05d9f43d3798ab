SPECIFICATION FairSpec
CONSTANTS
  Ports = 2
  Hosts <- MCHosts
  Times = {0, 1}
INVARIANTS TypeOK QueuesServed
PROPERTIES MaskFits ClockHeld DumpServed StopEnds ThreadsStart
CHECK_DEADLOCK FALSE
