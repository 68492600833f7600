\* The stress sensor comes back after an outage.
CONSTANTS
  Worlds <- OutageOnly
  NoUnit = "none"
  MaxShell = 0
SPECIFICATION Spec
INVARIANTS ValidIsCurrent
