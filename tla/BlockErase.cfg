SPECIFICATION Spec
CONSTANTS
  B = 4
  S = 2
  OBJ_ID_IX_FLAG = 32
  CountCap = 4
  Blank = 1000
INVARIANTS TypeOK MountablePastFormat MagicMeansErased ProbeFindsSize AgesTrue
