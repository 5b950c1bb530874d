\* Three devices for two slots, so that the table fills up; two descriptors, so
\* that a failed open can lose one and the next socket() may find none.  No
\* symmetry, since the run checks liveness.
SPECIFICATION FairSpec
CONSTANTS
  MaxInterfaces = 2
  Device = {can0, can1, can2}
  Baud = {CAN_BAUD_1M}
  CAN_BAUD_1M = CAN_BAUD_1M
  BadBaud = BadBaud
  NULL = NULL
  Asked = {CAN_BAUD_1M}
  Fd = {fd1, fd2}
  NoFd = NoFd
INVARIANTS
  TypeOK
  UniqueNames
  DescriptorsOwned
  OpenedIsReady
  CompletedSocketsOwned
  CrashNeedsHalfRegistration
  FindComplete
PROPERTIES
  OpenOutcome
  RegistrationStable
  Refinement
  ScanReturns
  OpenedRecvReturns
