SPECIFICATION Spec
CONSTANTS
  B = 4
  E = 3
  FREE = FREE
  DELETED = DELETED
  Objs = {1, 2}
  Spans = 2
  PerIx = 1
  GcSizes = {1}
  FreeCap = 4
  CallCap = 5
INVARIANTS TypeOK NoPageLost IndexIntact NothingLeftOver NoStepFails
PROPERTY ImplementsAlloc
