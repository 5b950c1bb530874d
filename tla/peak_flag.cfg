\* One channel for one slot, opened and closed.
SPECIFICATION Spec
CONSTANTS
  MaxInterfaces = 1
  Device = {usb1, NoneBus}
  Baud = {CAN_BAUD_1M}
  CAN_BAUD_1M = CAN_BAUD_1M
  BadBaud = BadBaud
  NULL = NULL
  Channel = {usb1}
  Named = {usb1}
  PCAN_NONEBUS = PCAN_NONEBUS
  NoneBus = NoneBus
INVARIANTS
  FlagTrue
