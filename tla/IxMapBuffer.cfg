CONSTANTS
  Obj = {1, 2}
  Fd = {1, 2}
  DPS = 2
  HdrLen = 1
  IxLen = 2
  MaxSize = 3
  Offsets = {1, 2, 4}
  Lens = {1, 2}
  FarMoves = TRUE
SPECIFICATION Spec
INVARIANT BufferKept
