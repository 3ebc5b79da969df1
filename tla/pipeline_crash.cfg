SPECIFICATION Spec
CONSTANTS
  Chats = {c1}
  MaxId = 2
  BatchLimit = 2
  NormalizeLimit = 2
  MaxAttempts = 2
  Window = 2
  TopicGap = 1
  SentAt <- MCSameTime
  ReplyTo <- MCNoReply
  Outcome <- MCUsable
  MaxPerPass = 1
  MaxManual = 0
  MaxChanges = 0
  MaxShown = 1
  MaxBotCrashes = 1
  MaxCrashes = 1
  MaxFaults = 1
  SyncMayFail = TRUE
CHECK_DEADLOCK FALSE
INVARIANTS TypeOK WatermarkIsLastRow RunsAccounted ExtractionsBounded AnnouncedOnce
CONSTRAINT MCOne
PROPERTY LedgerSpec
