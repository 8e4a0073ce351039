SPECIFICATION FairSpec
CONSTANTS
  Byte <- MCByte
  Frames <- MCFrames
  Kinds <- MCAllKinds
  MaxBuf = 3
  MaxBytes = 5
  MaxLog = 3
INVARIANTS
  TypeOK
  NothingLost
  GracefulClose
  WritePending
  ReportPending
  NoIdleBacklog
  Listening
  CallbackOrder
  ClosedOnce
PROPERTIES
  NoReopen
  ImplementsChannel
  CloseReported
  DrainEnds
