SPECIFICATION Spec
CONSTANTS
  Locales = {de, fr}
  de = de
  fr = fr
  Reviewed = {de}
  GivesJobId = FALSE
  MaxVersion = 4
  MaxFailures = 1
INVARIANT StaleIsQueued
CHECK_DEADLOCK FALSE
