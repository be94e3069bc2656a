SPECIFICATION MCSpec
CONSTANTS
  k1 = k1
  k2 = k2
  r1 = r1
  r2 = r2
  NotSigned = NotSigned
  good = good
  junk = junk
  odd = odd
  huge = huge
  Keys = {k1, k2}
  Contents = {good, junk, odd, huge}
  Fitting = {good, junk, huge}
  Images = {good, huge, odd}
  TooBig = {huge}
  Requests = {r1, r2}
  PutTtl = 1
  IdTtl = 2
  MaxTime = 3
  MaxPuts = 2
  MaxDocs = 2
  Tenants = {t1, t2}
  Root = Root
  Uploads = {u1, u2, u3}
  NoFile = NoFile
  MaxNumber = 2
  MaxDeaths = 1
SYMMETRY MCSymmetry
INVARIANTS
  TwinsOnlyFromARace
  FilesStand
CHECK_DEADLOCK FALSE
