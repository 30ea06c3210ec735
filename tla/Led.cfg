SPECIFICATION Spec
CONSTANTS
  QueueLen = 4
INVARIANTS
  TypeOK
  FlashRestores
  WrongOnlyByRace
