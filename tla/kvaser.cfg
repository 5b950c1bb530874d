\* Three channels for two slots, and three descriptions, so that the table fills
\* up and channels may share a description or not; two handles for two slots.
SPECIFICATION Spec
CONSTANTS
  MaxInterfaces = 2
  Device = {leaf, memorator, usbcan}
  Baud = {CAN_BAUD_1M}
  CAN_BAUD_1M = CAN_BAUD_1M
  BadBaud = BadBaud
  NULL = NULL
  Channels = 3
  Handle = {h1, h2}
  NoHandle = NoHandle
SYMMETRY Symmetry
INVARIANTS
  TypeOK
  HandlesOwned
  FindComplete
PROPERTIES
  RegistrationStable
  FailedOpenIsClean
  HandleLostByReopen
  Refinement
