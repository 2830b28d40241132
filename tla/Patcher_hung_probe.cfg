SPECIFICATION SpecHanging
CONSTANTS
  ChannelSize = 1
  Preferred = TRUE
  Servers = 1
  MaxPatches = 1
  MaxClicks = 2
PROPERTIES CancelEndsUpdate
CHECK_DEADLOCK FALSE
