\* Three channels for two slots, so that the table fills up; three handles, so
\* that two slots may be open and a handle lost besides.
SPECIFICATION Spec
CONSTANTS
  MaxInterfaces = 2
  Device = {canusb1, canusb2, canpro}
  Baud = {CAN_BAUD_1M}
  CAN_BAUD_1M = CAN_BAUD_1M
  BadBaud = BadBaud
  NULL = NULL
  Handle = {h1, h2, h3}
  NoHandle = NoHandle
SYMMETRY Symmetry
INVARIANTS
  TypeOK
  HandlesOwned
PROPERTIES
  DamageByReopenOnly
  Refinement
