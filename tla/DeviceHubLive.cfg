SPECIFICATION FairSpec
CONSTANTS
  Conns = {d1, d2}
  Viewers = {v1, v2}
  None = None
  Migrated = TRUE
  D1Fails = FALSE
  MaxSockets = 3
  MaxRestarts = 0
PROPERTIES
  HalfOpenReaped
  PresenceRecovers
  SilentViewerFreed
  DeviceLearnsOfLeaving
