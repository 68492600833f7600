\* The flame thread, disturbed by the oxygen thread and one o2_debug.
CONSTANTS
  N = 2
  FIRE_MIN = 2
  FlameChannel <- MCFlameChannel
  HotSets <- MCHotSets
  ShellReads = 1
SPECIFICATION Spec
INVARIANTS TypeOK OwnChannelOrHarmless
PROPERTIES NoFalseAlarm
