SPECIFICATION FairSpec
CONSTANTS
  Chats = {c1}
  MaxId = 2
  BatchLimit = 2
  NormalizeLimit = 2
  MaxAttempts = 2
  Window = 2
  TopicGap = 1
  SentAt <- MCSameTime
  ReplyTo <- MCNoReply
  Outcome <- MCUsable
  MaxPerPass = 1
  MaxManual = 1
  MaxChanges = 0
  MaxShown = 0
  MaxBotCrashes = 0
  MaxCrashes = 0
  MaxFaults = 0
  SyncMayFail = TRUE
CHECK_DEADLOCK FALSE
PROPERTIES LockWinnerStored LinkedIsPosted Quiesces
