\* Three names for two slots, so that the table fills up, and two channels that
\* share one of the names.
SPECIFICATION Spec
CONSTANTS
  MaxInterfaces = 2
  Device = {usb1, usb2, NoneBus}
  Baud = {CAN_BAUD_1M}
  CAN_BAUD_1M = CAN_BAUD_1M
  BadBaud = BadBaud
  NULL = NULL
  Channel = {usb1, usb2, other1, other2}
  Named = {usb1, usb2}
  PCAN_NONEBUS = PCAN_NONEBUS
  NoneBus = NoneBus
SYMMETRY Symmetry
INVARIANTS
  TypeOK
  InitializedOwned
PROPERTIES
  FlagLeftByClose
  FindComplete
  Refinement
