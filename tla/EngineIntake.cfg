SPECIFICATION MCSpec
CONSTANTS
  Drafts = {d1, d2}
  Urls = {u1}
  Slugs = {s1, s2}
  Taken = s1
  Expected = {1}
  Deliveries = {x1, x2}
  NoDraft = NoDraft
  NoUrl = NoUrl
  NoVersion = NoVersion
  NoRow = NoRow
  Gone = Gone
  Idle = Idle
  MaxIds = 5
  MaxFaults = 1
  MaxTimeouts = 1
  MaxEdits = 1
SYMMETRY MCSymmetry
INVARIANTS
  DoublesNeedOverlap
PROPERTIES
  ImplementsPromise
CHECK_DEADLOCK FALSE
