CONSTANTS
  Directions = {"reports", "snapshots"}
  Events = {e1, e2, e3}
  Tasks = {t1, t2}
  Handlers = {h1, h2}
  ReportBatchSize = 2
  ReportMaxInFlight = 2
  FlushImmediately = FALSE
  None = None
  Broken = Broken
  Faults <- StorageFaults
  MaxCleanups = 0
  Publishers = {p1, p2}
  Workers = {g1}
  SnapshotFaults <- AllSnapshotFaults
  MaxChanges = 3
  MaxQuotaOnly = 1
SPECIFICATION Spec
SYMMETRY ExchangeSymmetry
INVARIANTS BusIsCurrent WorkerIsCurrent
PROPERTIES ImplementsBilling NeverOlder
CHECK_DEADLOCK FALSE
