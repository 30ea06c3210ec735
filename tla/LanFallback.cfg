SPECIFICATION FairSpec
CONSTANTS
  ClockSize = 5
  FallbackTicks = 2
  PingTicks = 1
  BootTicks = 0
  StartFails = TRUE
  ErrorEvents = TRUE
INVARIANTS
  TypeOK
  LanInStep
  FlagIsFresh
PROPERTIES
  StormKeepsCountdown
  FallbackEngages
  DeadCameraCannotWedge
