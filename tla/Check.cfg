SPECIFICATION Spec
CONSTANTS
  FREE = FREE
  DELETED = DELETED
  MIXED = MIXED
  GARBAGE = GARBAGE
  PerBlock = 6
  LastPage = 18
  HdrLen = 1
  IxLen = 2
  ScanLen = 9
  Sizes = {0, 1, 2, 3, 4}
  Shifts = {0, 2, 3}
  CallNames = {"create", "append", "modify", "rename", "truncate", "remove", "collectData", "collectIndex"}
  Damages = {"cleared", "flag", "id"}
  LossCap = 2
INVARIANTS TypeOK OldOrNew OtherIntact CleanUntouched FlashConsistent
PROPERTY CheckEnds
CHECK_DEADLOCK FALSE
