SPECIFICATION FairSpec
CONSTANTS
  ChannelSize = 2
  Preferred = TRUE
  Servers = 2
  MaxPatches = 1
  MaxClicks = 4
INVARIANTS TypeOK FlagSettles PageSettles LockFollowsTask
PROPERTIES CancelAdvances CloseEnds SendReturns Quiesces CancelEndsDownload
CHECK_DEADLOCK FALSE
