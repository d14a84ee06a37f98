CONSTANTS
  Samples <- MCSamples
  Fold <- MCFold
  MaxExecs = 3
  MaxReports = 2
  MaxClock = 7
  Half = 4
  Minute = 2
  Day = 3
  Window = 2
SPECIFICATION Spec
INVARIANTS TypeOK OneRowPerStatement ChartCountsStored DurationsInOrder ChartInOrder PagesPartition
