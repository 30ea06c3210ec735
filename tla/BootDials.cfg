SPECIFICATION Spec
CHECK_DEADLOCK FALSE
CONSTANTS
  None = None
  Corrupt = Corrupt
  Forms <- Typed
  Networks <- HomeOnly
  AutoOta = TRUE
  MaxCuts = 0
  OtaBufferSize = 4
  MaxChunk = 3
  MaxBody = 6
INVARIANT
  DialsConfigured
