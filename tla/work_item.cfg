SPECIFICATION FairSpec
CONSTANTS
  a1 = a1
  a2 = a2
  d1 = d1
  d2 = d2
  d3 = d3
  Drawers = {d1, d2, d3}
  Assignees = {a1, a2}
  Role <- MCRole
  Columns = {"title", "due_date"}
  Title = "title"
  Values = {"none", "old", "new"}
  Blank = "none"
  Resent <- MCResent
  Statuses = {"inbox", "done"}
  Names = {"urgent"}
  Original <- MCOriginal
  Promotions <- MCPromotions
  MaxRequests = 3
  MaxNew = 2
CHECK_DEADLOCK FALSE
INVARIANTS TypeOK LinkedOnce TrailReplays NoOrphanLabel
PROPERTIES SaveKeepsRest RequestsEnd
