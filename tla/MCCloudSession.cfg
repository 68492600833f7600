\* Every kind of module, with two faults and two uploads.
CONSTANTS
  RxCap = 13
  ReportLen = 3
  TestLen = 2
  Kinds <- MCKinds
  MaxFaults = 2
  MaxUploads = 2
SPECIFICATION Spec
INVARIANTS TypeOK OnlyWholeReports
PROPERTIES  ReportsFlow
