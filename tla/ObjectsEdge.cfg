CONSTANTS
  Obj = {1}
  Fd = {1}
  Val = {"a"}
  Lens = {1}
  Appends = {}
  LastPage = 14
  DPS = 1
  HdrLen = 1
  IxLen = 1
  Cuts = {"clean", "edge"}
  Places = {0}
  MaxSize = 4
  Long = 9
  CallCap = 6
  Movable = {1, 2}
  OwnVal = FALSE
SPECIFICATION Spec
CHECK_DEADLOCK FALSE
INVARIANT OneIndexPage
