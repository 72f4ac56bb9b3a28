CONSTANTS
  Events = {e1, e2}
  Handlers = {h1, h2, h3}
  Faults <- AnyFault
  MaxCleanups = 1

SPECIFICATION Spec
SYMMETRY IngestSymmetry

INVARIANTS
  ChargesCovered
  SettledOncePerRow
  RowSettledOrOwned
