\* A steady reading whose checksum is 0xAC.
CONSTANTS
  Frames <- ChecksumIsHeader
  FifoCap = 1
  COUNTER_MOD = 2
  MaxDebug = 0
SPECIFICATION Spec
PROPERTIES FramesGetThrough
