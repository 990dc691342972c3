CONSTANTS
  W = 3
  Bits = 3
  Byte = 8
  MaxObjects = 14
SPECIFICATION Spec
INVARIANTS TypeOK FreshId FullIsFull
PROPERTY SearchEnds
