CONSTANTS
  Events = {e1, e2}
  Tasks = {t1, t2}
  Handlers = {h1, h2}
  ReportBatchSize = 1
  ReportMaxInFlight = 2
  FlushImmediately = FALSE
  None = None
  Broken = Broken
  Faults <- NetworkFaults
  MaxCleanups = 0

SPECIFICATION FairPipeline
CHECK_DEADLOCK FALSE

PROPERTY EventuallyCharged
