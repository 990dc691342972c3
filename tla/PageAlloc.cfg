SPECIFICATION Spec
CONSTANTS
  B = 3
  E = 2
  Ids = {1}
  FREE = FREE
  DELETED = DELETED
  QuickArgs = {0}
  FreeCap = 4
INVARIANTS TypeOK StatsExact FreeBlocksNotUnderCounted NoHoles
