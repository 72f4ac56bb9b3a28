CONSTANTS
  Events = {e1, e2}
  Handlers = {h1, h2}
  Faults <- SlowSettlement
  MaxCleanups = 0

SPECIFICATION Spec
CHECK_DEADLOCK FALSE

INVARIANT RetryNotSwallowed
