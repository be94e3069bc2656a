SPECIFICATION MCSpec
CONSTANTS
  Drafts = {d1, d2}
  Urls = {u1}
  Slugs = {s1, s2}
  Taken = s1
  Expected = {1}
  Deliveries = {x1, x2}
  NoDraft = NoDraft
  NoUrl = NoUrl
  NoVersion = NoVersion
  NoRow = NoRow
  Gone = Gone
  Idle = Idle
  MaxIds = 5
  MaxFaults = 2
  MaxTimeouts = 0
  MaxEdits = 1
PROPERTIES
  UncontestedSettle
CHECK_DEADLOCK FALSE
