CONSTANTS
  Services = {"snapshots"}
  Publishers = {h1, h2}
  Workers = {g1}
  SnapshotFaults <- UsageStoreFault
  MaxChanges = 2
  MaxQuotaOnly = 1
  Replicas = {p1, p2}
  Tables = {"users", "channels"}
  Kinds = {"settle", "reserve", "edit"}
  Touches <- MCTouches
  TableOrder <- MCTableOrder
  MaxWrites = 2
  MaxFaults = 2
  TaskSlots = {1, 2}
  Starters = {s1, s2}
  Runners = {r1, r2, r3}
  TaskTypes = {"log_cleanup", "channel_test"}
  NoRunner = NoRunner
  MaxProgress = 1
  Unreliable = FALSE
SPECIFICATION Spec
INVARIANT ExhaustionPublished
