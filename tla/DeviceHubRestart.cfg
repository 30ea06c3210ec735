SPECIFICATION Spec
CONSTANTS
  Conns = {d1, d2}
  Viewers = {v1}
  None = None
  Migrated = FALSE
  D1Fails = TRUE
  MaxSockets = 3
  MaxRestarts = 1
SYMMETRY HubSymmetry
INVARIANTS
  SlotIsBacked
  OneDeviceSocket
