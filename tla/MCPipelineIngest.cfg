CONSTANTS
  Events = {e1, e2}
  Tasks = {t1, t2}
  Handlers = {h1, h2}
  ReportBatchSize = 2
  ReportMaxInFlight = 2
  FlushImmediately = TRUE
  None = None
  Broken = Broken
  Faults <- ProcessFaults
  MaxCleanups = 1

SPECIFICATION PipelineSpec
CHECK_DEADLOCK FALSE

PROPERTY ImplementsIngest
