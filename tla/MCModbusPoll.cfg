\* Readings that change, and devices that come and go.
CONSTANTS
  Worlds <- BothWorlds
  NoUnit = "none"
  MaxShell = 1
SPECIFICATION Spec
INVARIANTS TypeOK FlowFromOneReply LastValueKept
PROPERTIES PolledForEver SilenceNoticed
