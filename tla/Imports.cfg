SPECIFICATION MCSpec
CONSTANTS
  Parts = {"legacy", "export"}
  NItems = 2
  NRuns = 2
  WithHero = {1, 2}
  WithTag = {1}
  Batch = 2
  StopAfter = 2
  MaxIds = 3
  MaxUploads = 2
  MaxCrashes = 1
  MaxLost = 1
  MaxEdits = 1
  LegacyIds = {1, 2, 3}
  Bases <- MCBases
  Reserved <- MCReserved
  Year = 9
  MaxPlannings = 2
  MaxRenames = 1
  Pillars = {p1, p2}
  Subs = {s1, s2}
  Pictures = {m1, m2}
  Documents = {a1}
  Adopt = TRUE
  Nothing = Nothing
  Idle = Idle
  MaxRuns = 3
  MaxFailures = 1
INVARIANTS
  JournalsAreTrue
  HumanEditsSurvive
  ImportedAsExported
PROPERTIES
  CleanFinishCoversAll
  SurvivorsKeepTheirHero
  CleanLacksNothing
CHECK_DEADLOCK FALSE
