\* A disconnection reported between two rounds.
CONSTANTS
  RxCap = 4
  ReportLen = 3
  TestLen = 2
  Kinds <- OrdinaryKind
  MaxFaults = 1
  MaxUploads = 0
SPECIFICATION Spec
PROPERTIES DisconnectNoticed
