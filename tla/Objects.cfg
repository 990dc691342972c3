CONSTANTS
  Obj = {1, 2}
  Fd = {f1, f2}
  Val = {f1, f2}
  Lens = {2, 9}
  Appends = {f2}
  LastPage = 17
  DPS = 2
  HdrLen = 1
  IxLen = 1
  Cuts = {"clean"}
  Places = {1}
  MaxSize = 9
  Long = 7
  CallCap = 4
  Movable = {1, 4}
  OwnVal = TRUE
SPECIFICATION Spec
CHECK_DEADLOCK FALSE
INVARIANTS TypeOK DescriptorsAgree NothingStray AppendOnlyAdds
PROPERTIES MidwayFull ImplementsFiles
