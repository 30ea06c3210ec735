SPECIFICATION FairSpec
CHECK_DEADLOCK FALSE
CONSTANTS
  None = None
  Corrupt = Corrupt
  Forms <- Typed
  Networks <- HomeOnly
  AutoOta = TRUE
  MaxCuts = 2
  OtaBufferSize = 4
  MaxChunk = 3
  MaxBody = 6
INVARIANTS
  TypeOK
  NothingDangles
  SavedIsKept
  PrefillWhole
PROPERTIES
  UnusableReachesPortal
