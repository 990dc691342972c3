CONSTANTS
  Blocks = 2
  E = 2
  Obj = {1, 2}
  Name = {"a", "b", "c"}
  FREE = FREE
  DELETED = DELETED
  USED = USED
  NoName = NoName
  NoObj = NoObj
SPECIFICATION Spec
INVARIANT TypeOK
PROPERTIES ListedOnce EntryOpens DirEnds
