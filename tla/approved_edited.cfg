SPECIFICATION Spec
CONSTANTS
  a1 = a1
  a2 = a2
  t1 = t1
  t2 = t2
  Candidates = {c1}
  Requests = {r1, r2}
  Assignees = {a1, a2}
  Titles = {t1, t2}
  Created <- MCReady
  Unresolved = {}
  WebhookSet = TRUE
  MaxRequests = 2
  MaxRacing = 2
CHECK_DEADLOCK FALSE
PROPERTY ApprovedImmutable
