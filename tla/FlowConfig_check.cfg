SPECIFICATION Spec
CONSTANTS
  NULL = NULL
  Empty = Empty
  eth1 = eth1
  eth10 = eth10
  eth2 = eth2
  eth9 = eth9
  chrome = chrome
  miui = miui
  toolong = toolong
  Long <- TooLong
  Files <- MCFiles
  Slots = 2
  IdxSlots = 2
  Ports = 3
  RuleNames <- MCRules
  Extends <- Begins
  DefaultNumber = 3
  DefaultMs = 4
INVARIANTS TableRight IdxLists
CHECK_DEADLOCK FALSE
