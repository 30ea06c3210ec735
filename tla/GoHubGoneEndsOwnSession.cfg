SPECIFICATION Spec
CONSTANTS
  Conns = {d1, d2}
  Viewers = {v1, v2}
  None = None
  FromViewer = {"offer"}
  FromDevice = {"answer"}
  CanStop = FALSE
  MaxInbox = 2
  MaxUp = 1
PROPERTIES
  GoneEndsOwnSession
