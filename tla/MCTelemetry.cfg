\* Two publications in the course of a report.
CONSTANTS
  Measurements <- MCMeasurements
  Disturbances <- MCDisturbances
  Profiles <- MCProfiles
  Samples <- MCSamples
  O2Products <- MCO2Products
  MaxPublications = 2
SPECIFICATION Spec
INVARIANTS TypeOK LowerReadingsStand CloudSeesWholeReadings ReportFits OnlyMeasured
