\* A device of every vendor for two slots.  A Softing channel may be given any
\* name, here that of the PEAK channel.
SPECIFICATION Spec
CONSTANTS
  MaxInterfaces = 2
  Device = {}
  Baud = {CAN_BAUD_1M}
  CAN_BAUD_1M = CAN_BAUD_1M
  BadBaud = BadBaud
  NULL = NULL
  PeakChannel = {usb1}
  Named = {usb1}
  PCAN_NONEBUS = PCAN_NONEBUS
  NoneBus = NoneBus
  KvaserDevice = {leaf}
  Channels = 1
  KvaserHandle = {kh}
  b1 = b1
  desc = desc
  Board = {b1}
  Description <- MCDescription
  CanBus <- MCCanBus
  IxxatDevice <- MCIxxatDevice
  MaxRefs = 1
  MaxFifo = 1
  SoftingDevice = {usb1}
  SoftingHandle = {sh}
  NoHandle = NoHandle
  Asked = {CAN_BAUD_1M}
INVARIANT WindowsTable
PROPERTY Refinement
