CONSTANTS
  Obj = {1, 2}
  Fd = {1, 2}
  DPS = 2
  HdrLen = 1
  IxLen = 2
  MaxSize = 3
  Offsets = {1, 2, 4}
  Lens = {2}
  FarMoves = FALSE
SPECIFICATION Spec
INVARIANTS TypeOK MapLeads MapFilled
