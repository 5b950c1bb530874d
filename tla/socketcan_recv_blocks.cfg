\* One slot, one device: an open that fails and a can_recv after it.
SPECIFICATION FairSpec
CONSTANTS
  MaxInterfaces = 1
  Device = {can0}
  Baud = {CAN_BAUD_1M}
  CAN_BAUD_1M = CAN_BAUD_1M
  BadBaud = BadBaud
  NULL = NULL
  Asked = {CAN_BAUD_1M, BadBaud}
  Fd = {fd1}
  NoFd = NoFd
PROPERTIES
  RecvReturns
