\* One channel that may be unplugged, and one that never needs to be there.
SPECIFICATION Spec
CONSTANTS
  MaxInterfaces = 2
  Device = {usb1, usb2, NoneBus}
  Baud = {CAN_BAUD_1M}
  CAN_BAUD_1M = CAN_BAUD_1M
  BadBaud = BadBaud
  NULL = NULL
  Channel = {usb1, usb2}
  Named = {usb1, usb2}
  PCAN_NONEBUS = PCAN_NONEBUS
  NoneBus = NoneBus
PROPERTIES
  RegistersListed
