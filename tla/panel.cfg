SPECIFICATION Spec
CONSTANTS
  g1 = g1
  g2 = g2
  Chats = {g1, g2}
  Private = {g2}
  Candidates = {1, 2, 3}
  Facts <- MCFacts
  Stages = {"inbox", "review", "done"}
  CardLimit = 1
  HistoryRows = 2
  TaskRows = 1
  ListLimit = 2
  MenuLimit = 3
  MaxMoves = 4
INVARIANTS TypeOK HistoryNamesTasks CountsAgree NamedOrHidden
PROPERTIES ReopenedKnowingly
