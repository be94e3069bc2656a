SPECIFICATION BoundedSpec
CONSTANTS
  Unset = Unset
  Writers = {"intake", "translation", "hub", "publishCron", "unpinCron"}
  AutoPublish = FALSE
  Choices = {"draft", "scheduled", "published"}
  MaxTexts = 2
  MaxVersion = 2
  MaxOverlaps = 1
  MaxReadings = 2
  r1 = r1
  r2 = r2
  Requests = {r1, r2}
  Words = {1, 2}
  Statuses = {"scheduled", "published"}
  Translates = TRUE
  Locales = {de, fr}
  de = de
  fr = fr
  Reviewed = {de}
  GivesJobId = TRUE
  MaxSaves = 3
  MaxFailures = 1
INVARIANTS
  OneTextPerVersion
  NothingLiveWithoutAuthority
  UnreleasedOnlyCarried
  QueueHoldsWhatIsOwed
PROPERTIES
  ContributorNeverTouchesLive
  UnpublishTakesDown
  OnlyTheEditGoesLive
  NoDraftSwallowed
  LandsOnItsVersion
  ProtectionHolds
  EventuallyTranslated
CHECK_DEADLOCK FALSE
