SPECIFICATION BoundedSpec
CONSTANTS
  Pillars = {p1, p2}
  Keys = {home, plain, other}
  HomeKeys = {home}
  OwnKeys = {home, plain}
  Subs = {s1}
  Articles = {a1}
  Writers = {w1, w2}
  MaxWrites = 2
  MaxChanges = 2
  Unborn = Unborn
  Gone = Gone
  NoPillar = NoPillar
  NoSub = NoSub
  NoArticle = NoArticle
  Idle = Idle
  AuthorNames = {n1, n2}
  TagSlugs = {t1, t2}
  Callers = {q1, q2, q3}
  AuthorCap = 1
  TagCap = 1
  NoCall = NoCall
  MaxCalls = 4
  MaxRemovals = 1
SYMMETRY MCSymmetry
INVARIANTS
  RuleStands
  RacesStayBounded
PROPERTIES
  HubFailsOnlyAfterDelete
CHECK_DEADLOCK FALSE
