\* One channel, opened twice.
SPECIFICATION Spec
CONSTANTS
  MaxInterfaces = 2
  Device = {leaf}
  Baud = {CAN_BAUD_1M}
  CAN_BAUD_1M = CAN_BAUD_1M
  BadBaud = BadBaud
  NULL = NULL
  Channels = 1
  Handle = {h1, h2}
  NoHandle = NoHandle
INVARIANTS
  ReleaseClosesAll
