SPECIFICATION Spec
CONSTANTS
  a1 = a1
  a2 = a2
  s1 = s1
  s2 = s2
  r1 = r1
  r2 = r2
  Articles = {a1, a2}
  Slugs = {s1, s2}
  Requests = {r1, r2}
  NoSlug = NoSlug
  NoOp = NoOp
  MaxVersion = 1
INVARIANTS
  SlugsUnique
PROPERTIES
  ImplementsDrafts
  AllAnswered
CHECK_DEADLOCK FALSE
