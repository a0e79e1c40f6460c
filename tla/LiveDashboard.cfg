SPECIFICATION LiveFairSpec
CONSTANTS
  Loaded = {TRUE}
  MaxSockets = 6
  MaxDisturbances = 3
  Messages <- MCMessages
  Early = 1
  ServerRows = 2
  LiveRows = 2
  BadgeMax = 1
  ChannelCapacity = 1
  MaxFailures = 1
INVARIANTS
  LiveTypeOK
  OneSocketUnlessOvertaken
  HandledOnce
  NumbersMatchAReload
  OnlyLateCountedTwice
  BadgeCoversUnread
  RowsDistinct
PROPERTIES
  OpenMissesNothing
  NoSocketIsBornStopped
  Reconnects
CHECK_DEADLOCK FALSE
