-------------------------- MODULE FreeObjIdProofs --------------------------
(***************************************************************************)
(* Proofs about the search for an object id: for pages of any size and any *)
(* number of objects that FreeObjIdAssumption allows, a new file gets an   *)
(* id of its own if there is one.                                          *)
(***************************************************************************)
EXTENDS FreeObjId, FiniteSetTheorems, TLAPS

-----------------------------------------------------------------------------
(* The inductive invariant.                                                *)

(* There are more ids than fit the bitmap.                                 *)
Big == LastId - 1 > BitmapSize
C == FirstCompaction

(* The ids of range i of the first count.                                  *)
Block(i) == 1 + i * C .. i * C + C

Whole == min = 1 /\ max = LastId

(* The search goes on in a range in which an id is free.                   *)
Narrow == \E i \in Ranges :
  min = 1 + i * C /\ max = min + C /\ Block(i) \ files # {}

(* The counts of the first round.                                          *)
Counts == compaction = C /\ \A i \in Ranges : map[i] = Cardinality(Block(i) \cap files)

Round == \/ Whole /\ (counted => Big /\ Counts)
         \/ Big /\ ~counted /\ Narrow

IInv ==
  /\ TypeOK /\ FreshId /\ FullIsFull
  /\ pc = "idle" => Whole /\ ~counted
  /\ pc = "search" => Round

-----------------------------------------------------------------------------
(* Division, and the ranges it makes.                                      *)

LEMMA DivBounds ==
  ASSUME NEW x \in Nat, NEW c \in Nat, c > 0
  PROVE  /\ x \div c \in Nat
         /\ (x \div c) * c <= x
         /\ x < (x \div c) * c + c
BY SMTT(30)

LEMMA ModSmall ==
  ASSUME NEW x \in Nat, NEW c \in Nat, x < c
  PROVE  x % c = x
BY SMTT(30)

(* Range i ends where, or before, range w begins.                          *)
LEMMA Product ==
  ASSUME NEW i \in Nat, NEW w \in Nat, NEW c \in Nat, i < w
  PROVE  i * c + c <= w * c
<1> DEFINE k == w - i - 1
<1>1. k \in Nat /\ w = i + 1 + k
  OBVIOUS
<1>2. k * c \in Nat
  BY <1>1
<1>3. w * c = i * c + c + k * c
  BY <1>1, SMTT(30)
<1> QED
  BY <1>2, <1>3, SMTT(30)

LEMMA DivUnique ==
  ASSUME NEW x \in Nat, NEW c \in Nat, NEW i \in Nat,
         c > 0, i * c <= x, x < i * c + c
  PROVE  x \div c = i
<1> DEFINE q == x \div c
<1>1. q \in Nat /\ q * c <= x /\ x < q * c + c
  BY DivBounds
<1>2. q * c \in Nat /\ i * c \in Nat
  BY <1>1
<1> HIDE DEF q
<1>3. CASE q < i
  <2>1. q * c + c <= i * c
    BY <1>1, <1>3, Product
  <2> QED
    BY <1>1, <1>2, <2>1
<1>4. CASE i < q
  <2>1. i * c + c <= q * c
    BY <1>1, <1>4, Product
  <2> QED
    BY <1>1, <1>2, <2>1
<1>5. q = i
  BY <1>1, <1>3, <1>4
<1> QED
  BY <1>5 DEF q

(* Sizes, and the first compaction.                                        *)
LEMMA Sizes ==
  /\ LastId \in Nat /\ LastId >= 1 /\ W \in Nat \ {0}
  /\ BitmapSize \in Nat /\ BitmapSize > 0
  /\ C \in Nat
  /\ Big => C > 0 /\ C <= BitmapSize /\ C < Byte
<1>1. W \in Nat \ {0} /\ Bits \in Nat \ {0} /\ MaxObjects \in Nat
  BY FreeObjIdAssumption
<1>2. LastId \in Nat /\ LastId >= 1 /\ LastId - 1 \in Nat
  BY <1>1 DEF LastId
<1>3. BitmapSize \in Nat /\ BitmapSize > 0
  BY <1>1, SMTT(30) DEF BitmapSize
<1>4. C \in Nat
  BY <1>1, <1>2, DivBounds DEF C, FirstCompaction
<1> QED
  BY <1>1, <1>2, <1>3, <1>4, FreeObjIdAssumption DEF Big, C

(* A range has C ids, which are ids a file can have.                       *)
LEMMA BlockSize ==
  ASSUME NEW i \in Ranges, Big
  PROVE  /\ IsFiniteSet(Block(i)) /\ Cardinality(Block(i)) = C
         /\ Block(i) \subseteq Ids
         /\ i \in Nat /\ i * C \in Nat
<1>1. C \in Nat /\ C > 0 /\ W \in Nat
  BY Sizes
<1>2. i \in Nat /\ i < W
  BY <1>1 DEF Ranges
<1>3. i * C \in Nat /\ W * C \in Nat
  BY <1>1, <1>2
<1>4. i * C + C <= W * C
  BY <1>1, <1>2, Product
<1>5. IsFiniteSet(Block(i)) /\ Cardinality(Block(i)) = C
  <2> DEFINE a == 1 + i * C
             b == i * C + C
  <2>1. a \in Int /\ b \in Int /\ ~(a > b) /\ b - a + 1 = C
    BY <1>1, <1>3
  <2>2. Block(i) = a .. b
    BY DEF Block
  <2> HIDE DEF a, b
  <2>3. IsFiniteSet(a .. b) /\ Cardinality(a .. b) = C
    BY <2>1, FS_Interval
  <2> QED
    BY <2>2, <2>3
<1>6. Ids = 1 .. W * C
  BY Sizes DEF Ids, Big, C
<1>7. Block(i) \subseteq 1 .. W * C
  BY <1>1, <1>3, <1>4 DEF Block
<1> QED
  BY <1>2, <1>3, <1>5, <1>6, <1>7

(* Every id is in the range its division names.                            *)
LEMMA BlockOf ==
  ASSUME NEW id \in Ids, Big
  PROVE  /\ (id - 1) \div C \in Ranges
         /\ \A i \in Ranges : (id - 1) \div C = i <=> id \in Block(i)
<1> DEFINE q == (id - 1) \div C
<1>1. C \in Nat /\ C > 0 /\ W \in Nat \ {0} /\ W * C \in Nat
  BY Sizes
<1>2. Ids = 1 .. W * C
  BY Sizes DEF Ids, Big, C
<1>3. id - 1 \in Nat /\ id - 1 < W * C /\ id \in Nat
  BY <1>1, <1>2
<1>4. q \in Nat /\ q * C <= id - 1 /\ id - 1 < q * C + C
  BY <1>1, <1>3, DivBounds
<1>5. q * C \in Nat
  BY <1>1, <1>4
<1>6. q < W
  <2> HIDE DEF q
  <2>1. CASE W <= q
    <3>1. CASE W = q
      <4>1. W * C = q * C
        BY <3>1
      <4> QED
        BY <1>1, <1>3, <1>4, <1>5, <4>1
    <3>2. CASE W < q
      <4>1. W * C + C <= q * C
        BY <1>1, <1>4, <3>2, Product
      <4> QED
        BY <1>1, <1>3, <1>4, <1>5, <4>1
    <3> QED
      BY <1>1, <1>4, <2>1, <3>1, <3>2
  <2> QED
    BY <1>1, <1>4, <2>1
<1>7. q \in Ranges
  BY <1>1, <1>4, <1>6 DEF Ranges
<1>8. ASSUME NEW i \in Ranges
      PROVE  q = i <=> id \in Block(i)
  <2>1. i \in Nat /\ i * C \in Nat
    BY BlockSize
  <2>2. ASSUME q = i PROVE id \in Block(i)
    <3> HIDE DEF q
    <3> QED
      BY <1>1, <1>3, <1>4, <2>1, <2>2 DEF Block
  <2>3. ASSUME id \in Block(i) PROVE q = i
    <3>1. i * C <= id - 1 /\ id - 1 < i * C + C
      BY <1>1, <1>3, <2>1, <2>3 DEF Block
    <3> QED
      BY <1>1, <1>3, <2>1, <3>1, DivUnique
  <2> QED
    BY <2>2, <2>3
<1> QED
  BY <1>7, <1>8

(* The files of a range: none if their number is 0, all if it is C.        *)
LEMMA FilesOfBlock ==
  ASSUME NEW i \in Ranges, Big
  PROVE  LET n == Cardinality(Block(i) \cap files)
         IN  /\ n \in 0 .. C
             /\ n = 0 => Block(i) \cap files = {}
             /\ n = C => Block(i) \subseteq files
             /\ n # C => Block(i) \ files # {}
<1> DEFINE S == Block(i) \cap files
<1>1. IsFiniteSet(Block(i)) /\ Cardinality(Block(i)) = C /\ C \in Nat
  BY BlockSize, Sizes
<1>2. S \in SUBSET Block(i)
  OBVIOUS
<1>3. /\ IsFiniteSet(S) /\ Cardinality(S) <= C
      /\ C = Cardinality(S) => Block(i) = S
  BY <1>1, <1>2, FS_Subset
<1>4. Cardinality(S) \in Nat
  BY <1>3, FS_CardinalityType
<1>5. Cardinality(S) = 0 => S = {}
  BY <1>3, FS_EmptySet
<1>6. Block(i) \ files = {} => S = Block(i)
  OBVIOUS
<1> QED
  BY <1>1, <1>3, <1>4, <1>5, <1>6

-----------------------------------------------------------------------------
(* The steps.                                                              *)

LEMMA InitStep == Init => IInv
<1> SUFFICES ASSUME Init PROVE IInv
  OBVIOUS
<1>1. LastId \in Nat /\ 0 \in 0 .. Byte
  BY Sizes, FreeObjIdAssumption
<1>2. map \in [Ranges -> 0 .. Byte]
  BY <1>1 DEF Init
<1>3. TypeOK
  BY <1>1, <1>2 DEF Init, TypeOK
<1> QED
  BY <1>3 DEF Init, IInv, FreshId, FullIsFull, Whole

(* An id found in the bitmap is one of Ids, and that none is found means   *)
(* that all are taken.                                                     *)
LEMMA BitmapStep ==
  ASSUME IInv, SearchBitmap
  PROVE  IInv'
<1>1. /\ TypeOK /\ Round /\ pc = "search"
      /\ max - min <= BitmapSize
  BY DEF IInv, SearchBitmap, FitsBitmap
<1>2. /\ LastId \in Nat /\ BitmapSize \in Nat /\ BitmapSize > 0
      /\ C \in Nat /\ (Big => C > 0 /\ C <= BitmapSize)
  BY Sizes
<1>3. files \subseteq Ids
  BY <1>1 DEF TypeOK
<1>4. /\ Bitmap \ files = {} => files = Ids
      /\ \A id \in Bitmap \ files :
           (\A other \in Bitmap \ files : id <= other) => id \in Ids \ files /\ id \in Nat
  <2>1. CASE Whole
    <3>1. ~Big
      BY <1>1, <1>2, <2>1 DEF Whole, Big
    <3>2. Ids = 1 .. BitmapSize
      BY <1>2, <3>1 DEF Ids, Big, LastId
    <3>3. Bitmap = 1 .. BitmapSize
      BY <1>2, <2>1 DEF Bitmap, Whole
    <3>4. Ids = Bitmap /\ Bitmap \subseteq Nat
      BY <1>2, <3>2, <3>3
    <3> QED
      BY <1>3, <3>4
  <2>2. CASE Big /\ Narrow
    <3>1. PICK i \in Ranges :
            min = 1 + i * C /\ max = min + C /\ Block(i) \ files # {}
      BY <2>2 DEF Narrow
    <3>2. PICK k \in Block(i) : k \notin files
      BY <3>1
    <3>3. Block(i) \subseteq Ids /\ i * C \in Nat
      BY <2>2, BlockSize
    <3>4. k \in Bitmap \ files
      BY <1>2, <2>2, <3>1, <3>2, <3>3 DEF Block, Bitmap
    <3>5. ASSUME NEW id \in Bitmap, id <= k
          PROVE  id \in Block(i) /\ id \in Nat
      BY <1>2, <3>1, <3>2, <3>3, <3>5 DEF Block, Bitmap
    <3> QED
      BY <3>3, <3>4, <3>5
  <2> QED
    BY <1>1, <2>1, <2>2 DEF Round
<1>5. CASE Full
  <2>1. files = Ids
    BY <1>4, <1>5 DEF SearchBitmap, Full, Result
  <2> QED
    BY <1>1, <1>5, <2>1
    DEF Full, range, IInv, TypeOK, FreshId, FullIsFull, Ids
<1>6. ASSUME NEW id \in Bitmap \ files,
             \A other \in Bitmap \ files : id <= other, Result(id)
      PROVE  IInv'
  <2>1. id \in Ids \ files /\ id \in Nat
    BY <1>4, <1>6
  <2> QED
    BY <1>1, <1>6, <2>1
    DEF Result, range, IInv, TypeOK, FreshId, FullIsFull, Ids
<1> QED
  BY <1>5, <1>6 DEF SearchBitmap

(* The ranges are counted in the first round only, exactly, and no file is *)
(* past the last of them.                                                  *)
LEMMA CountStep ==
  ASSUME IInv, Count
  PROVE  IInv'
<1>1. /\ TypeOK /\ Round /\ pc = "search" /\ ~counted
      /\ ~(max - min <= BitmapSize)
  BY DEF IInv, Count, FitsBitmap
<1>2. /\ LastId \in Nat /\ BitmapSize \in Nat /\ C \in Nat /\ Byte \in Nat
      /\ W \in Nat \ {0} /\ (Big => C > 0 /\ C <= BitmapSize /\ C < Byte)
  BY Sizes, FreeObjIdAssumption
<1>3. Whole
  <2>1. ASSUME Big, Narrow PROVE FALSE
    <3>1. max = min + C
      BY <2>1 DEF Narrow
    <3>2. max - min = C
      BY <1>1, <1>2, <3>1 DEF TypeOK
    <3> QED
      BY <1>1, <1>2, <2>1, <3>2
  <2> QED
    BY <1>1, <2>1 DEF Round
<1>4. Big
  BY <1>1, <1>2, <1>3 DEF Whole, Big
<1>5. (max - min) \div W = C
  BY <1>3 DEF Whole, C, FirstCompaction
<1>6. Ids = 1 .. W * C /\ W * C \in Nat /\ W * C <= LastId - 1
  <2>1. LastId - 1 \in Nat
    BY Sizes
  <2>2. C * W <= LastId - 1
    BY <1>2, <2>1, DivBounds DEF C, FirstCompaction
  <2>3. Ids = 1 .. W * C
    BY <1>2, <1>4 DEF Ids, Big, C
  <2> QED
    BY <1>2, <2>2, <2>3
<1>7. \A id \in files : /\ id \in Ids /\ min <= id /\ id <= max
                        /\ RangeOf(id, C) = (id - 1) \div C
  <2>1. min = 1 /\ max = LastId
    BY <1>3 DEF Whole
  <2> QED
    BY <1>1, <1>2, <1>6, <2>1 DEF TypeOK, RangeOf
<1>8. ASSUME NEW i \in Ranges
      PROVE  Cardinality(FilesIn(i, C)) % Byte = Cardinality(Block(i) \cap files)
  <2>1. FilesIn(i, C) = Block(i) \cap files
    BY <1>4, <1>7, BlockOf DEF FilesIn
  <2>2. Cardinality(Block(i) \cap files) \in 0 .. C
    BY <1>4, FilesOfBlock
  <2> QED
    BY <1>2, <1>4, <2>1, <2>2, ModSmall
<1>9. map' = [i \in Ranges |-> Cardinality(FilesIn(i, C)) % Byte]
  BY <1>5 DEF Count
<1>10. compaction' = C
  BY <1>5 DEF Count
<1>11. /\ counted' = TRUE
       /\ UNCHANGED <<files, pc, min, max, obj_id>>
  BY DEF Count
<1>12. \A i \in Ranges : map'[i] = Cardinality(Block(i) \cap files)
  BY <1>8, <1>9
<1>13. map' \in [Ranges -> 0 .. Byte]
  <2>1. ASSUME NEW i \in Ranges
        PROVE  Cardinality(FilesIn(i, C)) % Byte \in 0 .. Byte
    <3>1. Cardinality(Block(i) \cap files) \in 0 .. C
      BY <1>4, FilesOfBlock
    <3>2. Cardinality(Block(i) \cap files) \in 0 .. Byte
      BY <1>2, <1>4, <3>1
    <3> QED
      BY <1>8, <3>2
  <2> QED
    BY <1>9, <2>1
<1>14. TypeOK'
  BY <1>1, <1>2, <1>10, <1>11, <1>13 DEF TypeOK, Ids
<1>15. Round'
  BY <1>3, <1>4, <1>10, <1>11, <1>12 DEF Round, Whole, Counts, Block, Big, C
<1> QED
  BY <1>1, <1>11, <1>14, <1>15
  DEF IInv, FreshId, FullIsFull

(* What the counts say of the range with the fewest files.                 *)
LEMMA SelectStep ==
  ASSUME IInv, NEW i \in Ranges, Select(i)
  PROVE  IInv'
<1>1. /\ TypeOK /\ Round /\ pc = "search" /\ counted /\ Fewest(i)
  BY DEF IInv, Select
<1>2. Whole /\ Big /\ Counts
  BY <1>1 DEF Round
<1>3. /\ C \in Nat /\ C > 0 /\ C < Byte /\ Byte \in Nat
  BY <1>2, Sizes, FreeObjIdAssumption
<1>4. i * C \in Nat /\ Block(i) \subseteq Ids
  BY <1>2, BlockSize
<1>5. min = 1 /\ compaction = C /\ map[i] = Cardinality(Block(i) \cap files)
  BY <1>2 DEF Whole, Counts
<1>6. min + i * compaction = 1 + i * C /\ 1 + i * C \in Nat
  BY <1>4, <1>5
<1>7. CASE AllFull(i) /\ Full
  <2>1. ASSUME NEW j \in Ranges PROVE Block(j) \subseteq files
    <3>1. map[j] = Cardinality(Block(j) \cap files)
      BY <1>2 DEF Counts
    <3>2. map[i] = C /\ map[i] <= map[j]
      BY <1>1, <1>5, <1>7 DEF AllFull, Fewest
    <3>3. Cardinality(Block(j) \cap files) \in 0 .. C
      BY <1>2, FilesOfBlock
    <3>4. Cardinality(Block(j) \cap files) = C
      BY <1>3, <3>1, <3>2, <3>3
    <3> QED
      BY <1>2, <3>4, FilesOfBlock
  <2>2. ASSUME NEW id \in Ids PROVE id \in files
    BY <1>2, <2>1, BlockOf
  <2>3. files = Ids
    BY <1>1, <2>2 DEF TypeOK
  <2> QED
    BY <1>1, <1>7, <2>3
    DEF Full, range, IInv, TypeOK, FreshId, FullIsFull, Ids
<1>8. CASE map[i] = 0 /\ Result(min + i * compaction)
  <2>1. Block(i) \cap files = {}
    BY <1>2, <1>5, <1>8, FilesOfBlock
  <2>2. 1 + i * C \in Block(i)
    BY <1>3, <1>4 DEF Block
  <2>3. obj_id' = 1 + i * C /\ obj_id' \in Nat /\ obj_id' \in Ids \ files
    BY <1>4, <1>6, <1>8, <2>1, <2>2 DEF Result
  <2> QED
    BY <1>1, <1>8, <2>3
    DEF Result, range, IInv, TypeOK, FreshId, FullIsFull, Ids
<1>9. CASE /\ ~AllFull(i) /\ Narrowed(i) /\ counted' = FALSE
           /\ UNCHANGED <<files, pc, compaction, map, obj_id>>
  <2>1. Block(i) \ files # {}
    <3>1. Cardinality(Block(i) \cap files) # C
      BY <1>5, <1>9 DEF AllFull
    <3> QED
      BY <1>2, <3>1, FilesOfBlock
  <2>2. min' = 1 + i * C /\ max' = min' + C /\ min' \in Nat /\ max' \in Nat
    BY <1>3, <1>5, <1>6, <1>9 DEF Narrowed
  <2>3. Round'
    BY <1>2, <1>9, <2>1, <2>2 DEF Round, Narrow, Block, Big, C
  <2>4. TypeOK'
    BY <1>1, <1>9, <2>2 DEF TypeOK, Ids
  <2> QED
    BY <1>1, <1>9, <2>3, <2>4 DEF IInv, FreshId, FullIsFull
<1> QED
  BY <1>7, <1>8, <1>9 DEF Select

(* The end of a call: as Init, but for the files.                          *)
LEMMA ReturnStep ==
  ASSUME IInv, Return, files' \subseteq Ids
  PROVE  IInv'
<1>1. TypeOK
  BY DEF IInv
<1>2. LastId \in Nat /\ 0 \in 0 .. Byte
  BY Sizes, FreeObjIdAssumption
<1>3. map' \in [Ranges -> 0 .. Byte]
  BY <1>2 DEF Return
<1>4. files' \subseteq Ids'
  BY DEF Ids
<1>5. TypeOK'
  BY <1>2, <1>3, <1>4 DEF Return, TypeOK
<1> QED
  BY <1>5 DEF Return, IInv, FreshId, FullIsFull, Whole

LEMMA CreateStep ==
  ASSUME IInv, Create
  PROVE  IInv'
<1>1. TypeOK /\ Whole /\ ~counted
  BY DEF IInv, Create
<1>2. TypeOK'
  BY <1>1 DEF Create, range, TypeOK, Ids
<1>3. Round'
  BY <1>1 DEF Create, range, Round, Whole
<1> QED
  BY <1>1, <1>2, <1>3 DEF Create, range, IInv, FreshId, FullIsFull

LEMMA RemoveStep ==
  ASSUME IInv, NEW id \in files, Remove(id)
  PROVE  IInv'
<1>1. TypeOK /\ Whole /\ ~counted
  BY DEF IInv, Remove
<1>2. TypeOK'
  BY <1>1 DEF Remove, range, TypeOK, Ids
<1> QED
  BY <1>1, <1>2 DEF Remove, range, IInv, FreshId, FullIsFull, Whole

LEMMA NextStep == IInv /\ [Next]_vars => IInv'
<1> SUFFICES ASSUME IInv, [Next]_vars PROVE IInv'
  OBVIOUS
<1>1. CASE Create
  BY <1>1, CreateStep
<1>2. CASE Search
  BY <1>2, BitmapStep, CountStep, SelectStep DEF Search
<1>3. CASE Created
  <2>1. obj_id \in Ids /\ files \subseteq Ids
    BY <1>3 DEF IInv, TypeOK, FreshId, Created
  <2> QED
    BY <1>3, <2>1, ReturnStep DEF Created
<1>4. CASE Refused
  BY <1>4, ReturnStep DEF Refused, IInv, TypeOK
<1>5. CASE \E id \in files : Remove(id)
  BY <1>5, RemoveStep
<1>6. CASE UNCHANGED vars
  BY <1>6 DEF vars, IInv, TypeOK, FreshId, FullIsFull, Round, Whole,
    Narrow, Counts, Block, Ids
<1> QED
  BY <1>1, <1>2, <1>3, <1>4, <1>5, <1>6 DEF Next

-----------------------------------------------------------------------------
(* The theorems.                                                           *)

(* The strengthened invariant holds in every state of every behaviour of   *)
(* spiffs_obj_lu_find_free_obj_id and its callers.                         *)
THEOREM Invariance == Spec => []IInv
<1>1. Init => IInv
  BY InitStep
<1>2. IInv /\ [Next]_vars => IInv'
  BY NextStep
<1> QED
  BY <1>1, <1>2, PTL DEF Spec

(* Counters, ranges and ids keep their types, whatever the size of a page  *)
(* and the number of objects (spiffs_nucleus.c:2074-2079).                 *)
THEOREM TypeCorrect == Spec => []TypeOK
<1>1. IInv => TypeOK
  BY DEF IInv
<1> QED
  BY <1>1, Invariance, PTL

(* The id found is the id of no file (spiffs_nucleus.c:2144), for any      *)
(* sizes that keep a range within a byte and the bitmap.                   *)
THEOREM FreshIdCorrect == Spec => []FreshId
<1>1. IInv => FreshId
  BY DEF IInv
<1> QED
  BY <1>1, Invariance, PTL

(* SPIFFS_ERR_FULL of the search means that every id is taken              *)
(* (spiffs_nucleus.c:2204): counting ranges hides no free id.              *)
THEOREM FullIsFullCorrect == Spec => []FullIsFull
<1>1. IInv => FullIsFull
  BY DEF IInv
<1> QED
  BY <1>1, Invariance, PTL
=============================================================================
