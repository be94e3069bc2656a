SPECIFICATION Spec
CONSTANTS
  Unset = Unset
  Writers = {"intake"}
  AutoPublish = FALSE
  Choices = {"draft", "published"}
  MaxTexts = 3
  MaxVersion = 2
  MaxOverlaps = 0
  MaxReadings = 1
PROPERTY HumanTextNotOverwritten
CHECK_DEADLOCK FALSE
