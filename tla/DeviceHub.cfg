SPECIFICATION Spec
CONSTANTS
  Conns = {d1, d2}
  Viewers = {v1, v2}
  None = None
  Migrated = TRUE
  D1Fails = FALSE
  MaxSockets = 4
  MaxRestarts = 0
SYMMETRY HubSymmetry
INVARIANTS
  TypeOK
  ClaimHasDevice
  AlarmArmed
PROPERTIES
  OnlyIdleEvicted
  ImplementsViewerSlot
