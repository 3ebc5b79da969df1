SPECIFICATION Spec
CONSTANTS
  Chats = {c1, c2}
  MaxId = 2
  BatchLimit = 2
  NormalizeLimit = 2
  MaxAttempts = 2
  Window = 2
  TopicGap = 1
  SentAt <- MCApart
  ReplyTo <- MCNoReply
  Outcome <- MCBlank
  MaxPerPass = 0
  MaxManual = 0
  MaxChanges = 1
  MaxShown = 0
  MaxBotCrashes = 0
  MaxCrashes = 0
  MaxFaults = 0
  SyncMayFail = FALSE
CHECK_DEADLOCK FALSE
INVARIANTS BatchAboveRows NothingHalfWay
