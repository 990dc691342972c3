SPECIFICATION Spec
CONSTANTS
  FREE = FREE
  DELETED = DELETED
  MIXED = MIXED
  GARBAGE = GARBAGE
  PerBlock = 6
  LastPage = 18
  HdrLen = 1
  IxLen = 2
  ScanLen = 9
  Sizes = {1, 2}
  Shifts = {0, 2, 3}
  CallNames = {"rename"}
  Damages = {}
  LossCap = 1
INVARIANT SurvivesOneLoss
CHECK_DEADLOCK FALSE
