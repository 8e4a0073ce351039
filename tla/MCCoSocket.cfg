SPECIFICATION CoSpec
CONSTANTS
  Byte <- MCByte
  Frames <- MCFrames
  Kinds <- MCAllKinds
  MaxBuf = 2
  MaxBytes = 2
  MaxLog = 3
INVARIANTS
  CallbackOrder
