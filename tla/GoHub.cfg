SPECIFICATION Spec
CONSTANTS
  Conns = {d1, d2}
  Viewers = {v1, v2}
  None = None
  FromViewer = {"offer"}
  FromDevice = {"answer"}
  CanStop = FALSE
  MaxInbox = 1
  MaxUp = 1
SYMMETRY HubSymmetry
INVARIANTS
  TypeOK
  SlotIsReleasable
  OnlineIsServed
  OneServedViewer
PROPERTIES
  OnlyOwnerTakesOffline
  ImplementsViewerSlot
