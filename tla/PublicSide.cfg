SPECIFICATION MCSpec
CONSTANTS
  t1 = t1
  t2 = t2
  i1 = i1
  r1 = r1
  r2 = r2
  a1 = a1
  NoTime = NoTime
  Tokens = {t1, t2}
  Instances = {i1}
  Requests = {r1, r2}
  Admins = {a1}
  TTL = 1
  SweepAbove = 1
  MaxTime = 2
  Lists = {n1, n2}
  NoRow = NoRow
  NoCall = NoCall
  MaxCalls = 3
  MaxIds = 2
  Readers = {v1, v2}
  Editors = {e1, e2}
  NoArticle = NoArticle
  NoWork = NoWork
  MaxViews = 4
  MaxSaves = 3
SYMMETRY MCSymmetry
INVARIANTS
  AnswersAgeNoMoreThanTTL
  LinksKeepWorking
  EveryViewCounts
PROPERTIES
  OnlyRacesLose
CHECK_DEADLOCK FALSE
