SPECIFICATION Spec
CONSTANTS
  MaxOffers = 3
  Bodies <- OfferBodies
  MaxIceServers = 3
INVARIANTS
  TypeOK
  FlagTracksChannel
  TurnKept
PROPERTIES
  OfferTearsDown
