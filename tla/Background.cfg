SPECIFICATION BoundedSpec
CONSTANTS
  a1 = a1
  a2 = a2
  r1 = r1
  r2 = r2
  Articles = {a1, a2}
  Requests = {r1, r2}
  Bad = {a2}
  Lead = 1
  TxTime = 1
  NoHour = NoHour
  MaxTime = 4
  MaxTexts = 2
  MaxCrashes = 1
  Rows = {w1, w2}
  Models = {m1, m2}
  Fields = {f1, f2}
  Figures = {v1}
  Own = {o1}
  NoModel = NoModel
  NoRow = NoRow
  NoFigure = NoFigure
  Rests = Rests
  MaxFaults = 2
  MaxEdits = 1
  MaxDrifts = 1
  NoPage = NoPage
  NoSave = NoSave
  MaxSaves = 3
INVARIANTS
  PromisesAreKept
  StaleOnlyFromTheGap
PROPERTIES
  CronKeepsPromises
  DueIsPublished
  RefreshIsCareful
  EventuallyCurrent
  EverySaveLands
CHECK_DEADLOCK FALSE
