\* The reporter against a network that may fail six times.
CONSTANTS
  Fds = {0, 1}
  SndBuf = 2
  MaxFaults = 6
SPECIFICATION Spec
INVARIANTS TypeOK SocketsOwned FailCountIsStreak
PROPERTIES BrokenSocketDropped ReportsArrive
