SPECIFICATION FairSpec
CONSTANTS
  MaxInterfaces = 2
  Baud = {CAN_BAUD_1M}
  CAN_BAUD_1M = CAN_BAUD_1M
  BadBaud = BadBaud
  NULL = NULL
  b1 = b1
  b2 = b2
  desc = desc
  Board <- MCBoard
  Description <- MCDescription
  CanBus <- MCCanBus
  Device <- MCDevice
  Asked = {CAN_BAUD_1M}
  MaxRefs = 2
  MaxFifo = 2
INVARIANTS
  TypeOK
  RefsHeld
PROPERTIES
  FlagMisledBySetBaudrate
  RefLostByReopen
  RecvReturns
  Refinement
