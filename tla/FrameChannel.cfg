SPECIFICATION Spec
CONSTANTS
  MaxFrames = 3
  MaxChunks = 3
  StagedChunks = 2
  CacheSize = 3
  MaxSessions = 2
INVARIANTS
  TypeOK
  Resyncs
  CalmDrawsWhole
