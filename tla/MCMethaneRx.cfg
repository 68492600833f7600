\* Frames that look like headers, and a run of uart2_debug.
CONSTANTS
  Frames <- NastyFrames
  FifoCap = 1
  COUNTER_MOD = 2
  MaxDebug = 1
SPECIFICATION Spec
INVARIANTS TypeOK NoSplitFrame CountsAreItsOwn PublishedWasSent
PROPERTIES PlainFramesGetThrough StaysInStep
