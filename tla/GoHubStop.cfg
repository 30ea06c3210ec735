SPECIFICATION FairSpec
CONSTANTS
  Conns = {d1, d2}
  Viewers = {v1}
  None = None
  FromViewer = {"offer"}
  FromDevice = {"answer"}
  CanStop = TRUE
  MaxInbox = 1
  MaxUp = 1
PROPERTIES
  BrokenSocketUnwinds
  DeviceLearnsOfLeaving
