\* The oxygen thread, disturbed by the flame thread alone.
CONSTANTS
  N = 2
  FIRE_MIN = 2
  FlameChannel <- MCFlameChannel
  HotSets <- MCHotSets
  ShellReads = 0
SPECIFICATION Spec
INVARIANTS O2FromItsChannel
