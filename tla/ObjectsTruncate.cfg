CONSTANTS
  Obj = {1}
  Fd = {1}
  Val = {"a", "b"}
  Lens = {1, 2}
  Appends = {}
  LastPage = 14
  DPS = 3
  HdrLen = 1
  IxLen = 1
  Cuts = {"clean", "short"}
  Places = {0}
  MaxSize = 5
  Long = 9
  CallCap = 5
  Movable = {1, 2}
  OwnVal = FALSE
SPECIFICATION Spec
CHECK_DEADLOCK FALSE
INVARIANT BytesAsWritten
