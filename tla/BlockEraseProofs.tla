-------------------------- MODULE BlockEraseProofs --------------------------
(***************************************************************************)
(* A power loss during an erase never costs the file system, and the ages  *)
(* of the blocks are true as long as the erase count stays clear of its    *)
(* wrap, for every number of blocks and sectors and every width of the     *)
(* count.                                                                  *)
(***************************************************************************)
EXTENDS BlockErase, TLAPS

USE GeometryAssumption, CountAssumption

(* Who erases, and when.                                                   *)
JobInv ==
  /\ job.by = "none" => job = NoJob
  /\ mounted \/ job.by # "none" => configured
  /\ job.by \in {"mount", "format"} => ~mounted
  /\ job.by = "gc" => mounted
  /\ job.by = "format" => \A b \in Block : b < job.bix => magic[b]

(* How far the block being erased is.                                      *)
StepInv ==
  job.step > 0 =>
    /\ ~magic[job.bix]
    /\ \A i \in Sector : i < job.step => i \notin data[job.bix]

(* Only the block being erased lacks its magic: while mounted or about to  *)
(* be, and whenever a formatted file system has been looked at since the   *)
(* last loss of power.                                                     *)
OnlyTheErased ==
  mounted \/ job.by = "mount" \/ (formatted /\ configured) =>
    \A b \in Block : ~magic[b] => job.by # "none" /\ b = job.bix

IInv == TypeOK /\ JobInv /\ StepInv /\ OnlyTheErased /\ MountablePastFormat /\ MagicMeansErased

JobType == [by : {"none", "gc", "mount", "format"}, bix : Block, step : 0 .. S + 1]

LEMMA JobParts ==
  /\ NoJob \in JobType /\ NoJob.by = "none" /\ NoJob.step = 0
  /\ \A by \in {"gc", "mount", "format"}, b \in Block :
       /\ Job(by, b) \in JobType
       /\ Job(by, b).by = by /\ Job(by, b).bix = b /\ Job(by, b).step = 0
BY DEF NoJob, Job, JobType, Block

LEMMA CountIsCount ==
  /\ 0 \in Count /\ OBJ_ID_FREE \in Count
  /\ \A m \in Count : Incremented(m) \in Count
BY DEF Count, OBJ_ID_FREE, Word, Incremented

LEMMA FinalIsCount == \A min, max \in Count : CountFinal(min, max) \in Count
<1>1. Word \in Nat /\ Word > 0 /\ Count = 0 .. Word - 1
  BY DEF Word, Count, OBJ_ID_FREE
<1>2. \A x \in Int : x % Word \in Count
  BY <1>1
<1>3. QED
  BY <1>1, <1>2 DEF CountFinal

LEMMA TypeInductive == TypeOK /\ [Next]_vars => TypeOK'
<1> SUFFICES ASSUME TypeOK, [Next]_vars PROVE TypeOK'
  OBVIOUS
<1> USE JobParts, CountIsCount DEF TypeOK, JobType
<1>1. CASE EraseSector
  BY <1>1 DEF EraseSector
<1>2. CASE WriteCount
  BY <1>2 DEF WriteCount
<1>3. CASE WriteMagic
  <2>1. job.by = "format" /\ job.bix + 1 < B => job.bix + 1 \in Block
    BY DEF Block
  <2>2. QED
    BY <1>3, <2>1 DEF WriteMagic, MoreToFormat
<1>4. ASSUME NEW b \in Block, GcEraseBlock(b) PROVE TypeOK'
  BY <1>4 DEF GcEraseBlock, flash
<1>5. ASSUME NEW b \in Block, Use(b) PROVE TypeOK'
  BY <1>5 DEF Use
<1>6. CASE Mount
  <2>1. Counts \cup {0, OBJ_ID_FREE} \subseteq Count
    BY DEF Counts
  <2>2. max_erase_count' \in Count
    BY <1>6, <2>1, FinalIsCount DEF Mount
  <2>3. ASSUME Unerased # {} PROVE (CHOOSE b \in Block : ~magic[b]) \in Block
    BY <2>3 DEF Unerased
  <2>4. job' \in JobType
    BY <1>6, <2>3 DEF Mount
  <2>5. QED
    BY <1>6, <2>2, <2>4 DEF Mount, flash
<1>7. CASE Format
  BY <1>7 DEF Format, flash, Block
<1>8. CASE Unmount
  BY <1>8 DEF Unmount, flash
<1>9. CASE PowerLoss
  BY <1>9 DEF PowerLoss, flash
<1>10. CASE UNCHANGED vars
  BY <1>10 DEF vars, flash
<1>11. QED
  BY <1>1, <1>2, <1>3, <1>4, <1>5, <1>6, <1>7, <1>8, <1>9, <1>10 DEF Next

LEMMA InitType == Init => TypeOK
<1> SUFFICES ASSUME Init PROVE TypeOK
  OBVIOUS
<1>1. data \in [Block -> SUBSET Sector]
  BY DEF Init
<1>2. magic \in [Block -> BOOLEAN] /\ count \in [Block -> Count]
  BY CountIsCount DEF Init
<1>3. QED
  BY <1>1, <1>2, JobParts, CountIsCount DEF Init, TypeOK, JobType

(* Every variable keeps to its range.                                      *)
THEOREM TypeCorrect == Spec => []TypeOK
  BY InitType, TypeInductive, PTL DEF Spec

-----------------------------------------------------------------------------
LEMMA JobInductive == TypeOK /\ JobInv /\ [Next]_vars => JobInv'
<1> SUFFICES ASSUME TypeOK, JobInv, [Next]_vars PROVE JobInv'
  OBVIOUS
<1> USE JobParts DEF JobInv
<1>1. CASE EraseSector
  BY <1>1 DEF EraseSector, TypeOK, Block
<1>2. CASE WriteCount
  BY <1>2 DEF WriteCount, TypeOK
<1>3. CASE WriteMagic
  <2>1. CASE job.by = "format" /\ job.bix + 1 < B
    <3>1. job' = Job("format", job.bix + 1) /\ job.bix + 1 \in Block
      BY <1>3, <2>1 DEF WriteMagic, MoreToFormat, TypeOK, Block
    <3>2. \A b \in Block : b < job.bix + 1 => magic'[b]
      BY <1>3, <2>1 DEF WriteMagic, MoreToFormat, TypeOK, Block
    <3>3. job'.by = "format" /\ job'.bix = job.bix + 1
      BY <3>1
    <3>4. configured' /\ ~mounted'
      BY <1>3, <2>1 DEF WriteMagic, MoreToFormat
    <3>5. QED
      BY <3>2, <3>3, <3>4
  <2>2. CASE ~(job.by = "format" /\ job.bix + 1 < B)
    BY <1>3, <2>2 DEF WriteMagic, MoreToFormat
  <2>3. QED
    BY <2>1, <2>2
<1>4. ASSUME NEW b \in Block, GcEraseBlock(b) PROVE JobInv'
  BY <1>4 DEF GcEraseBlock, flash
<1>5. ASSUME NEW b \in Block, Use(b) PROVE JobInv'
  BY <1>5 DEF Use
<1>6. CASE Mount
  <2>1. configured' /\ (job' = NoJob \/ (~mounted' /\ job'.by = "mount"))
    <3>1. ASSUME Unerased # {} PROVE (CHOOSE b \in Block : ~magic[b]) \in Block
      BY <3>1 DEF Unerased
    <3>2. QED
      BY <1>6, <3>1 DEF Mount
  <2>2. QED
    BY <2>1
<1>7. CASE Format
  BY <1>7 DEF Format, flash, Block
<1>8. CASE Unmount
  BY <1>8 DEF Unmount, flash
<1>9. CASE PowerLoss
  BY <1>9 DEF PowerLoss, flash
<1>10. CASE UNCHANGED vars
  BY <1>10 DEF vars, flash
<1>11. QED
  BY <1>1, <1>2, <1>3, <1>4, <1>5, <1>6, <1>7, <1>8, <1>9, <1>10 DEF Next

LEMMA StepInductive == TypeOK /\ JobInv /\ StepInv /\ [Next]_vars => StepInv'
<1> SUFFICES ASSUME TypeOK, JobInv, StepInv, [Next]_vars, job'.step > 0 PROVE StepInv'
  BY DEF StepInv
<1>1. CASE EraseSector
  BY <1>1 DEF EraseSector, StepInv, TypeOK, Sector
<1>2. CASE WriteCount
  BY <1>2 DEF WriteCount, StepInv, TypeOK, Sector
<1>3. CASE WriteMagic
  <2>1. job.bix + 1 < B => job.bix + 1 \in Block
    BY DEF TypeOK, Block
  <2>2. QED
    BY <1>3, <2>1, JobParts DEF WriteMagic, MoreToFormat
<1>4. ASSUME NEW b \in Block, GcEraseBlock(b) PROVE StepInv'
  BY <1>4, JobParts DEF GcEraseBlock
<1>5. ASSUME NEW b \in Block, Use(b) PROVE StepInv'
  BY <1>5, JobParts DEF Use
<1>6. CASE Mount
  <2>1. ASSUME Unerased # {} PROVE (CHOOSE b \in Block : ~magic[b]) \in Block
    BY <2>1 DEF Unerased
  <2>2. QED
    BY <1>6, <2>1, JobParts DEF Mount
<1>7. CASE Format
  BY <1>7, JobParts DEF Format, Block
<1>8. CASE Unmount
  BY <1>8, JobParts DEF Unmount
<1>9. CASE PowerLoss
  BY <1>9, JobParts DEF PowerLoss
<1>10. CASE UNCHANGED vars
  BY <1>10 DEF vars, flash, StepInv
<1>11. QED
  BY <1>1, <1>2, <1>3, <1>4, <1>5, <1>6, <1>7, <1>8, <1>9, <1>10 DEF Next

(* The step that matters for MountablePastFormat: SPIFFS_format is refused *)
(* before SPIFFS_mount has erased the block a power loss has left.         *)
LEMMA OnlyTheErasedInductive ==
  IInv /\ [Next]_vars => OnlyTheErased' /\ MountablePastFormat'
<1> SUFFICES ASSUME IInv, [Next]_vars PROVE OnlyTheErased' /\ MountablePastFormat'
  OBVIOUS
<1> USE JobParts DEF IInv, OnlyTheErased, MountablePastFormat, Unerased
<1>1. CASE EraseSector
  BY <1>1 DEF EraseSector, JobInv, TypeOK
<1>2. CASE WriteCount
  BY <1>2 DEF WriteCount, JobInv, TypeOK
<1>3. CASE WriteMagic
  <2>1. \A b \in Block : magic'[b] <=> magic[b] \/ b = job.bix
    BY <1>3 DEF WriteMagic, MoreToFormat, TypeOK
  <2>2. CASE job.by = "format"
    <3>1. CASE job.bix + 1 < B
      <4>1. job' = Job("format", job.bix + 1) /\ job.bix + 1 \in Block
        BY <1>3, <2>2, <3>1 DEF WriteMagic, MoreToFormat, TypeOK, Block
      <4>2. ~mounted' /\ formatted' = formatted /\ configured' = configured
        BY <1>3, <2>2, <3>1 DEF WriteMagic, MoreToFormat, JobInv, TypeOK
      <4>3. formatted => \A b \in Block : magic'[b]
        BY <2>1, <2>2 DEF JobInv
      <4>4. QED
        BY <4>1, <4>2, <4>3
    <3>2. CASE ~(job.bix + 1 < B)
      <4>1. \A b \in Block : b < job.bix \/ b = job.bix
        BY <3>2 DEF Block, TypeOK
      <4>2. \A b \in Block : magic'[b]
        BY <2>1, <2>2, <4>1 DEF JobInv
      <4>3. QED
        BY <4>2
    <3>3. QED
      BY <3>1, <3>2
  <2>3. CASE job.by \in {"gc", "mount"}
    <3>1. \A b \in Block : magic'[b]
      BY <2>1, <2>3 DEF JobInv
    <3>2. QED
      BY <3>1
  <2>4. QED
    BY <1>3, <2>2, <2>3 DEF WriteMagic, MoreToFormat, TypeOK
<1>4. ASSUME NEW b \in Block, GcEraseBlock(b) PROVE OnlyTheErased' /\ MountablePastFormat'
  BY <1>4 DEF GcEraseBlock, flash
<1>5. ASSUME NEW b \in Block, Use(b) PROVE OnlyTheErased' /\ MountablePastFormat'
  BY <1>5 DEF Use
<1>6. CASE Mount
  <2>1. MountablePastFormat' /\ magic' = magic /\ formatted' = formatted
    BY <1>6 DEF Mount, flash
  <2>2. CASE Unerased = {}
    BY <2>1, <2>2
  <2>3. CASE Unerased # {} /\ ~Refused
    <3> DEFINE x == CHOOSE b \in Block : ~magic[b]
    <3>1. x \in Unerased /\ job' = Job("mount", x)
      BY <1>6, <2>3 DEF Mount
    <3>2. \A b \in Unerased : b = x
      BY <2>3, <3>1 DEF Refused
    <3>3. QED
      BY <2>1, <3>1, <3>2
  <2>4. CASE Refused
    <3>1. ~formatted
      BY <2>4 DEF Refused
    <3>2. Unerased # {}
      BY <2>4 DEF Refused
    <3>3. ~mounted' /\ job'.by = "none"
      BY <1>6, <2>4, <3>2 DEF Mount
    <3>4. QED
      BY <2>1, <3>1, <3>3
  <2>5. QED
    BY <2>2, <2>3, <2>4
<1>7. CASE Format
  <2>1. /\ configured /\ ~mounted /\ job.by = "none" /\ job' = Job("format", 0)
        /\ magic' = magic /\ mounted' = mounted /\ formatted' = formatted
    BY <1>7 DEF Format, flash
  <2>2. 0 \in Block
    BY DEF Block
  <2>3. formatted => \A b \in Block : magic[b]
    BY <2>1
  <2>4. QED
    BY <2>1, <2>2, <2>3
<1>8. CASE Unmount
  BY <1>8 DEF Unmount, flash
<1>9. CASE PowerLoss
  BY <1>9 DEF PowerLoss, flash
<1>10. CASE UNCHANGED vars
  BY <1>10 DEF vars, flash
<1>11. QED
  BY <1>1, <1>2, <1>3, <1>4, <1>5, <1>6, <1>7, <1>8, <1>9, <1>10 DEF Next

LEMMA ErasedInductive == IInv /\ [Next]_vars => MagicMeansErased'
<1> SUFFICES ASSUME IInv, [Next]_vars PROVE MagicMeansErased'
  OBVIOUS
<1> USE DEF IInv, MagicMeansErased
<1>1. CASE EraseSector
  <2> SUFFICES ASSUME NEW b \in Block, magic'[b], 0 \notin data'[b] PROVE data'[b] = {}
    OBVIOUS
  <2>1. CASE b = job.bix
    BY <1>1, <2>1 DEF EraseSector, StepInv, TypeOK
  <2>2. CASE b # job.bix
    BY <1>1, <2>2 DEF EraseSector, TypeOK
  <2>3. QED
    BY <2>1, <2>2
<1>2. CASE WriteCount
  BY <1>2 DEF WriteCount
<1>3. CASE WriteMagic
  <2> SUFFICES ASSUME NEW b \in Block, magic'[b], 0 \notin data'[b] PROVE data'[b] = {}
    OBVIOUS
  <2>1. CASE b = job.bix
    <3>1. \A i \in Sector : i \notin data[b]
      BY <1>3, <2>1 DEF WriteMagic, MoreToFormat, StepInv, Sector
    <3>2. QED
      BY <1>3, <3>1 DEF WriteMagic, MoreToFormat, TypeOK
  <2>2. CASE b # job.bix
    BY <1>3, <2>2 DEF WriteMagic, MoreToFormat, TypeOK
  <2>3. QED
    BY <2>1, <2>2
<1>4. ASSUME NEW b \in Block, GcEraseBlock(b) PROVE MagicMeansErased'
  BY <1>4 DEF GcEraseBlock, flash
<1>5. ASSUME NEW b \in Block, Use(b) PROVE MagicMeansErased'
  BY <1>5 DEF Use, TypeOK, Sector
<1>6. CASE Mount
  BY <1>6 DEF Mount, flash
<1>7. CASE Format
  BY <1>7 DEF Format, flash
<1>8. CASE Unmount
  BY <1>8 DEF Unmount, flash
<1>9. CASE PowerLoss
  BY <1>9 DEF PowerLoss, flash
<1>10. CASE UNCHANGED vars
  BY <1>10 DEF vars, flash
<1>11. QED
  BY <1>1, <1>2, <1>3, <1>4, <1>5, <1>6, <1>7, <1>8, <1>9, <1>10 DEF Next

LEMMA InitInvariant == Init => IInv
<1> SUFFICES ASSUME Init PROVE IInv
  OBVIOUS
<1>1. TypeOK
  BY InitType
<1>2. MagicMeansErased
  BY DEF Init, MagicMeansErased
<1>3. QED
  BY <1>1, <1>2, JobParts
     DEF Init, IInv, JobInv, StepInv, OnlyTheErased, MountablePastFormat

LEMMA Invariant == Spec => []IInv
<1>1. IInv /\ [Next]_vars => IInv'
  BY TypeInductive, JobInductive, StepInductive, OnlyTheErasedInductive, ErasedInductive
     DEF IInv
<1>2. QED
  BY <1>1, InitInvariant, PTL DEF Spec

(* Wherever the power goes, during an erase by the collector, by a mount   *)
(* or by a format, a formatted flash never has two blocks without magic:   *)
(* SPIFFS_mount never answers SPIFFS_ERR_NOT_A_FS.                         *)
THEOREM MountableCorrect == Spec => []MountablePastFormat
  BY Invariant, PTL DEF IInv

(* A block that has its magic is not half erased.                          *)
THEOREM MagicCorrect == Spec => []MagicMeansErased
  BY Invariant, PTL DEF IInv

(* spiffs_probe finds the size of every formatted flash, wherever the      *)
(* power went.                                                             *)
THEOREM ProbeCorrect == Spec => []ProbeFindsSize
<1>1. MountablePastFormat => ProbeFindsSize
  <2> SUFFICES ASSUME formatted, \A b, c \in Unerased : b = c PROVE ProbedBlocks = B
    BY DEF MountablePastFormat, ProbeFindsSize
  <2>1. 0 \in Block /\ 1 \in Block /\ 2 \in Block
    BY DEF Block
  <2>2. (magic[0] \/ magic[1]) /\ (magic[0] \/ magic[2]) /\ (magic[1] \/ magic[2])
    BY <2>1 DEF Unerased
  <2>3. QED
    BY <2>2, BlankAssumption DEF ProbedBlocks, bix_count
<1>2. QED
  BY <1>1, MountableCorrect, PTL

-----------------------------------------------------------------------------
(* The highest count block b can come to: a format that is cut again and   *)
(* again raises a count by one for each block that comes after it.         *)
Limit(b) == CountCap + B - b

(* A block with its magic has its count.                                   *)
CountKept == \A b \in Block : magic[b] => count[b] # OBJ_ID_FREE

Limited == \A b \in Block : count[b] # OBJ_ID_FREE => count[b] <= Limit(b)

(* The mount that erases block b again gives it a higher count than any.   *)
RoomToErase ==
  \A b, c \in Block :
    ~magic[b] /\ count[c] # OBJ_ID_FREE
      /\ ~(job.by = "mount" /\ c = job.bix /\ job.step = S + 1)
    => count[c] < Limit(b)

CounterOf ==
  /\ job.by = "gc" => max_erase_count <= CountCap
  /\ job.by = "mount" => ~magic[job.bix] /\ max_erase_count <= Limit(job.bix)
  /\ job.by = "format" =>
       /\ max_erase_count = 0
       /\ newest = NoBlock
       /\ \A b \in Block : b < job.bix => count[b] = 0

(* What is written of the block being erased.                              *)
Written ==
  job.by # "none" =>
    /\ job.step > 0 /\ job.step <= S => count[job.bix] = OBJ_ID_FREE
    /\ job.step = S + 1 => count[job.bix] = max_erase_count

(* The counter is above every count on flash but the one it has just been  *)
(* written to.                                                             *)
Ahead ==
  mounted \/ job.by = "mount" =>
    \A b \in Block :
      count[b] # OBJ_ID_FREE /\ ~(job.by # "none" /\ b = job.bix /\ job.step = S + 1)
      => count[b] < max_erase_count

(* The block erased last has the highest count, unless one is half erased. *)
Young ==
  newest # NoBlock /\ (\A b \in Block : magic[b]) =>
    \A b \in Block \ {newest} : count[b] < count[newest]

AgesInv ==
  /\ CountKept /\ Limited /\ RoomToErase /\ CounterOf /\ Written /\ Ahead /\ Young

(* The counter stays clear of the wrap.                                    *)
NoWrap == CountCap + B + 1 < OBJ_ID_IX_FLAG

-----------------------------------------------------------------------------
(* Arithmetic of the counter below its wrap.                               *)

LEMMA Numbers ==
  /\ OBJ_ID_FREE \in Nat /\ Count = 0 .. OBJ_ID_FREE
  /\ \A b \in Block : Limit(b) \in Nat /\ Limit(b) > CountCap /\ Limit(b) <= CountCap + B
  /\ \A b, c \in Block : b < c => Limit(c) < Limit(b)
BY DEF OBJ_ID_FREE, Word, Count, Limit, Block

LEMMA NoWrapNumbers ==
  ASSUME NoWrap
  PROVE  /\ CountCap + B + 1 < OBJ_ID_FREE
         /\ \A m \in Nat : m <= CountCap + B => Incremented(m) = m + 1
<1>1. Word = 2 * OBJ_ID_IX_FLAG /\ OBJ_ID_FREE = Word - 1 /\ CountCap + B + 1 < OBJ_ID_IX_FLAG
  BY DEF Word, OBJ_ID_FREE, NoWrap
<1>2. CountCap + B + 1 < OBJ_ID_FREE
  BY <1>1
<1>3. ASSUME NEW m \in Nat, m <= CountCap + B PROVE Incremented(m) = m + 1
  <2>1. m + 1 \in 0 .. Word - 1 /\ m + 1 # OBJ_ID_IX_FLAG
    BY <1>1, <1>3
  <2>2. (m + 1) % Word = m + 1
    BY <1>1, <2>1
  <2>3. QED
    BY <2>1, <2>2 DEF Incremented
<1>4. QED
  BY <1>2, <1>3

(* A mount goes on one above the highest count.                            *)
LEMMA FinalIsNext ==
  ASSUME NoWrap, NEW min \in Nat, NEW max \in Nat, min <= max, max <= CountCap + B
  PROVE  CountFinal(min, max) = max + 1
<1>1. Word = 2 * OBJ_ID_IX_FLAG /\ OBJ_ID_FREE = Word - 1 /\ CountCap + B + 1 < OBJ_ID_IX_FLAG
  BY DEF Word, OBJ_ID_FREE, NoWrap
<1>2. max # OBJ_ID_FREE
  BY <1>1
<1>3. (max - min) % Word = max - min /\ (max + 1) % Word = max + 1
  <2>1. max - min \in 0 .. Word - 1 /\ max + 1 \in 0 .. Word - 1
    BY <1>1
  <2>2. QED
    BY <1>1, <2>1
<1>4. OBJ_ID_FREE \div 2 = OBJ_ID_IX_FLAG - 1
  BY <1>1
<1>5. ~((max - min) % Word > OBJ_ID_FREE \div 2)
  BY <1>1, <1>3, <1>4
<1>6. QED
  BY <1>2, <1>3, <1>5 DEF CountFinal

-----------------------------------------------------------------------------
(* The steps.                                                              *)

LEMMA EraseSectorAges ==
  ASSUME IInv, AgesInv, EraseSector
  PROVE  AgesInv'
<1> USE Numbers
<1>0. /\ job \in JobType /\ job.bix \in Block /\ job.step \in Nat /\ job.step < S
      /\ count \in [Block -> Count] /\ magic \in [Block -> BOOLEAN]
      /\ max_erase_count \in Count
  BY DEF EraseSector, IInv, TypeOK, JobType
<1>1. /\ job'.by = job.by /\ job'.bix = job.bix /\ job'.step = job.step + 1
      /\ max_erase_count' = max_erase_count /\ newest' = newest /\ mounted' = mounted
      /\ job.by # "none"
  BY <1>0 DEF EraseSector, JobType
<1>2. count'[job.bix] = OBJ_ID_FREE /\ ~magic'[job.bix]
  <2>1. CASE job.step = 0
    BY <1>0, <2>1 DEF EraseSector
  <2>2. CASE job.step > 0
    BY <1>0, <1>1, <2>2 DEF EraseSector, AgesInv, Written, IInv, StepInv
  <2>3. QED
    BY <1>0, <2>1, <2>2
<1>3. \A b \in Block \ {job.bix} : count'[b] = count[b] /\ magic'[b] = magic[b]
  BY <1>0 DEF EraseSector
<1>4. CountKept' /\ Limited'
  BY <1>0, <1>2, <1>3 DEF AgesInv, CountKept, Limited, Limit
<1>5. RoomToErase'
  <2> SUFFICES ASSUME NEW b \in Block, NEW c \in Block, ~magic'[b], count'[c] # OBJ_ID_FREE,
                      ~(job'.by = "mount" /\ c = job'.bix /\ job'.step = S + 1)
               PROVE  count'[c] < Limit(b)
    BY DEF RoomToErase, Limit
  <2>1. c # job.bix /\ count'[c] = count[c] /\ count[c] # OBJ_ID_FREE /\ count[c] \in Nat
    BY <1>0, <1>2, <1>3
  <2>2. CASE ~magic[b]
    BY <2>1, <2>2 DEF AgesInv, RoomToErase
  <2>3. CASE magic[b]
    <3>1. b = job.bix
      BY <1>3, <2>3
    <3>2. CASE job.by = "gc"
      <4>1. count[c] < max_erase_count /\ max_erase_count <= CountCap
        BY <2>1, <3>2 DEF AgesInv, Ahead, CounterOf, IInv, JobInv
      <4>2. QED
        BY <1>0, <2>1, <4>1
    <3>3. CASE job.by = "mount"
      BY <2>3, <3>1, <3>3 DEF AgesInv, CounterOf
    <3>4. CASE job.by = "format"
      <4>1. CASE c < job.bix
        <5>1. count[c] = 0
          BY <3>4, <4>1 DEF AgesInv, CounterOf
        <5>2. Limit(b) \in Nat /\ Limit(b) > CountCap
          OBVIOUS
        <5>3. QED
          BY <2>1, <5>1, <5>2
      <4>2. CASE c > job.bix
        <5>1. count[c] <= Limit(c) /\ Limit(c) < Limit(b) /\ Limit(c) \in Nat /\ Limit(b) \in Nat
          BY <2>1, <3>1, <4>2 DEF AgesInv, Limited, Block
        <5>2. QED
          BY <2>1, <5>1
      <4>3. QED
        BY <2>1, <4>1, <4>2, <1>0 DEF Block
    <3>5. QED
      BY <1>0, <1>1, <3>2, <3>3, <3>4 DEF JobType
  <2>4. QED
    BY <2>2, <2>3
<1>6. CounterOf'
  BY <1>0, <1>1, <1>2, <1>3 DEF AgesInv, CounterOf, Limit, Block
<1>7. Written'
  BY <1>0, <1>1, <1>2 DEF Written
<1>8. Ahead'
  BY <1>0, <1>1, <1>2, <1>3 DEF AgesInv, Ahead
<1>9. Young'
  BY <1>0, <1>2 DEF Young
<1>10. QED
  BY <1>4, <1>5, <1>6, <1>7, <1>8, <1>9 DEF AgesInv

LEMMA WriteCountAges ==
  ASSUME IInv, AgesInv, WriteCount
  PROVE  AgesInv'
<1> USE Numbers
<1>0. /\ job \in JobType /\ job.bix \in Block /\ job.step = S /\ S > 0
      /\ count \in [Block -> Count] /\ magic \in [Block -> BOOLEAN]
      /\ max_erase_count \in Count
  BY DEF WriteCount, IInv, TypeOK, JobType
<1>1. /\ job'.by = job.by /\ job'.bix = job.bix /\ job'.step = S + 1
      /\ max_erase_count' = max_erase_count /\ newest' = newest /\ mounted' = mounted
      /\ magic' = magic /\ job.by # "none" /\ ~magic[job.bix]
  BY <1>0 DEF WriteCount, JobType, IInv, StepInv
<1>2. count'[job.bix] = max_erase_count
  BY <1>0 DEF WriteCount
<1>3. \A b \in Block \ {job.bix} : count'[b] = count[b]
  BY <1>0 DEF WriteCount
<1>4. /\ job.by = "gc" => max_erase_count <= CountCap
      /\ job.by = "mount" => max_erase_count <= Limit(job.bix)
      /\ job.by = "format" => max_erase_count = 0
      /\ job.by \in {"gc", "mount", "format"}
  BY <1>0, <1>1 DEF AgesInv, CounterOf, JobType
<1>5. CountKept' /\ Limited'
  <2>1. max_erase_count <= Limit(job.bix)
    BY <1>0, <1>4
  <2>2. QED
    BY <1>0, <1>1, <1>2, <1>3, <2>1 DEF AgesInv, CountKept, Limited, Limit
<1>6. RoomToErase'
  <2> SUFFICES ASSUME NEW b \in Block, NEW c \in Block, ~magic[b], count'[c] # OBJ_ID_FREE,
                      ~(job.by = "mount" /\ c = job.bix)
               PROVE  count'[c] < Limit(b)
    BY <1>0, <1>1 DEF RoomToErase, Limit
  <2>1. CASE c = job.bix
    BY <1>0, <1>2, <1>4, <2>1
  <2>2. CASE c # job.bix
    BY <1>3, <2>2 DEF AgesInv, RoomToErase
  <2>3. QED
    BY <2>1, <2>2
<1>7. CounterOf'
  BY <1>0, <1>1, <1>3 DEF AgesInv, CounterOf, Limit, Block
<1>8. Written'
  BY <1>0, <1>1, <1>2 DEF Written
<1>9. Ahead'
  BY <1>0, <1>1, <1>3 DEF AgesInv, Ahead
<1>10. Young'
  BY <1>0, <1>1 DEF Young
<1>11. QED
  BY <1>5, <1>6, <1>7, <1>8, <1>9, <1>10 DEF AgesInv

LEMMA WriteMagicAges ==
  ASSUME NoWrap, IInv, AgesInv, WriteMagic
  PROVE  AgesInv'
<1> USE Numbers
<1>0. /\ job \in JobType /\ job.bix \in Block /\ job.step = S + 1
      /\ count \in [Block -> Count] /\ magic \in [Block -> BOOLEAN]
      /\ max_erase_count \in Count /\ count' = count
      /\ job.by \in {"gc", "mount", "format"}
      /\ count[job.bix] = max_erase_count
  BY DEF WriteMagic, IInv, TypeOK, JobType, AgesInv, Written
<1>1. magic'[job.bix] /\ \A b \in Block \ {job.bix} : magic'[b] = magic[b]
  BY <1>0 DEF WriteMagic
<1>2. max_erase_count \in Nat /\ max_erase_count <= CountCap + B
  BY <1>0 DEF AgesInv, CounterOf
<1>3. CountKept'
  <2>1. max_erase_count # OBJ_ID_FREE
    BY <1>2, NoWrapNumbers
  <2>2. ASSUME NEW b \in Block, magic'[b] PROVE count'[b] # OBJ_ID_FREE
    BY <1>0, <1>1, <2>1, <2>2 DEF AgesInv, CountKept
  <2>3. QED
    BY <2>2 DEF CountKept
<1>4. Limited'
  BY <1>0 DEF AgesInv, Limited, Limit
<1>5. job' = NoJob \/ (job' = Job("format", job.bix + 1) /\ job.bix + 1 \in Block /\ job.by = "format")
  <2>1. job' = IF MoreToFormat THEN Job("format", job.bix + 1) ELSE NoJob
    BY DEF WriteMagic
  <2>2. MoreToFormat => job.by = "format" /\ job.bix + 1 \in Block
    <3>1. job.bix \in 0 .. B - 1
      BY <1>0 DEF Block
    <3>2. job.bix + 1 < B => job.bix + 1 \in 0 .. B - 1
      BY <3>1
    <3>3. QED
      BY <3>2 DEF MoreToFormat, Block
  <2>3. QED
    BY <2>1, <2>2
<1>6. job'.by \in {"none", "format"} /\ job'.step = 0
  BY <1>5, JobParts
<1>7. RoomToErase'
  <2> SUFFICES ASSUME NEW b \in Block, NEW c \in Block, ~magic'[b], count[c] # OBJ_ID_FREE
               PROVE  count[c] < Limit(b)
    BY <1>0 DEF RoomToErase, Limit
  <2>1. b # job.bix /\ ~magic[b]
    BY <1>1
  <2>2. job.by # "mount"
    BY <2>1 DEF IInv, OnlyTheErased
  <2>3. QED
    BY <2>1, <2>2 DEF AgesInv, RoomToErase
<1>8. CounterOf'
  <2>1. CASE job' = NoJob
    BY <2>1, JobParts DEF CounterOf
  <2>2. CASE job' = Job("format", job.bix + 1) /\ job.bix + 1 \in Block /\ job.by = "format"
    <3>1. job'.by = "format" /\ job'.bix = job.bix + 1
      BY <2>2, JobParts
    <3>2. max_erase_count' = 0 /\ newest' = NoBlock
      BY <2>2, JobParts, <3>1 DEF WriteMagic
    <3>3. \A b \in Block : b < job.bix + 1 => count[b] = 0
      BY <1>0, <2>2 DEF AgesInv, CounterOf, Block
    <3>4. QED
      BY <1>0, <3>1, <3>2, <3>3 DEF CounterOf
  <2>3. QED
    BY <1>5, <2>1, <2>2
<1>9. Written'
  BY <1>6 DEF Written
<1>10. Ahead'
  <2>1. CASE job.by = "format"
    <3>1. ~mounted'
      BY <2>1 DEF WriteMagic, IInv, JobInv
    <3>2. QED
      BY <1>6, <3>1 DEF Ahead
  <2>2. CASE job.by # "format"
    <3>1. max_erase_count' = max_erase_count + 1
      BY <1>2, <2>2, NoWrapNumbers DEF WriteMagic, MoreToFormat
    <3>2. \A b \in Block \ {job.bix} : count[b] # OBJ_ID_FREE => count[b] < max_erase_count
      BY <1>0, <2>2 DEF AgesInv, Ahead, IInv, JobInv
    <3>3. \A b \in Block : count[b] # OBJ_ID_FREE => count[b] < max_erase_count + 1
      BY <1>0, <1>2, <3>2
    <3>4. QED
      BY <1>0, <3>1, <3>3 DEF Ahead
  <2>3. QED
    BY <2>1, <2>2
<1>11. Young'
  <2>1. CASE job.by = "format"
    BY <2>1 DEF WriteMagic, Young
  <2>2. CASE job.by # "format"
    <3>1. newest' = job.bix
      BY <2>2 DEF WriteMagic
    <3>2. ASSUME NEW b \in Block \ {job.bix}, \A x \in Block : magic'[x] PROVE count[b] < count[job.bix]
      <4>1. count[b] # OBJ_ID_FREE
        BY <1>1, <3>2 DEF AgesInv, CountKept
      <4>2. QED
        BY <1>0, <2>2, <4>1 DEF AgesInv, Ahead, IInv, JobInv
    <3>3. QED
      BY <1>0, <3>1, <3>2 DEF Young
  <2>3. QED
    BY <2>1, <2>2
<1>12. QED
  BY <1>3, <1>4, <1>7, <1>8, <1>9, <1>10, <1>11 DEF AgesInv

(* What SPIFFS_mount makes of the counts it finds.                         *)
LEMMA MountAges ==
  ASSUME NoWrap, IInv, AgesInv, Mount
  PROVE  AgesInv'
<1> USE Numbers
<1>0. /\ count \in [Block -> Count] /\ magic \in [Block -> BOOLEAN] /\ job = NoJob
      /\ count' = count /\ magic' = magic /\ newest' = newest /\ job.by = "none"
  BY JobParts DEF Mount, flash, IInv, TypeOK
<1> DEFINE u == CHOOSE b \in Block : ~magic[b]
<1>1. \/ job' = NoJob /\ (mounted' => Unerased = {})
      \/ ~Refused /\ Unerased # {} /\ job' = Job("mount", u)
  BY DEF Mount
<1>2. Unerased # {} => u \in Block /\ ~magic[u]
  BY DEF Unerased
<1>3. job'.step = 0 /\ job'.by \in {"none", "mount"} /\ (job'.by = "mount" => ~Refused /\ job'.bix = u /\ Unerased # {})
  BY <1>1, <1>2, JobParts
<1>4. CountKept' /\ Limited' /\ Young'
  BY <1>0 DEF AgesInv, CountKept, Limited, Limit, Young
<1>5. RoomToErase'
  BY <1>0, <1>3 DEF AgesInv, RoomToErase, Limit
<1>6. Written'
  BY <1>3 DEF Written
<1>7. ASSUME mounted' \/ job'.by = "mount"
      PROVE  \E max \in Counts : /\ \A c \in Counts : c <= max
                                 /\ max_erase_count' = max + 1
  <2>1. ~Refused
    <3>1. CASE mounted'
      <4>1. Unerased = {}
        BY <3>1 DEF Mount
      <4>2. QED
        BY <4>1 DEF Refused
    <3>2. CASE job'.by = "mount"
      BY <1>3, <3>2
    <3>3. QED
      BY <1>7, <3>1, <3>2
  <2>2. PICK b \in Block : b \notin Unerased
    <3>1. 0 \in Block /\ 1 \in Block
      BY DEF Block
    <3>2. ~(0 \in Unerased /\ 1 \in Unerased)
      <4>1. 0 # 1
        OBVIOUS
      <4>2. QED
        BY <2>1, <4>1 DEF Refused
    <3>3. QED
      BY <3>1, <3>2
  <2>3. count[b] \in Counts
    BY <1>0, <2>2 DEF Counts, Unerased, AgesInv, CountKept
  <2>4. PICK min \in Counts \cup {0, OBJ_ID_FREE}, max \in Counts \cup {0, OBJ_ID_FREE} :
          CountRange(min, max) /\ max_erase_count' = CountFinal(min, max)
    BY <2>1 DEF Mount
  <2>5. min \in Counts /\ max \in Counts /\ \A c \in Counts : min <= c /\ c <= max
    BY <2>3, <2>4 DEF CountRange
  <2>6. \A c \in Counts : c \in Nat /\ c <= CountCap + B
    BY <1>0 DEF Counts, AgesInv, Limited
  <2>7. max_erase_count' = max + 1
    BY <2>4, <2>5, <2>6, FinalIsNext
  <2>8. QED
    BY <2>5, <2>7
<1>8. Ahead'
  <2> SUFFICES ASSUME mounted' \/ job'.by = "mount", NEW b \in Block, count[b] # OBJ_ID_FREE
               PROVE  count[b] < max_erase_count'
    BY <1>0 DEF Ahead
  <2>1. PICK max \in Counts : (\A c \in Counts : c <= max) /\ max_erase_count' = max + 1
    BY <1>7
  <2>2. count[b] \in Counts /\ count[b] \in Nat /\ max \in Nat
    BY <1>0 DEF Counts
  <2>3. QED
    BY <2>1, <2>2
<1>9. CounterOf'
  <2> SUFFICES ASSUME job'.by = "mount" PROVE ~magic[u] /\ max_erase_count' <= Limit(u)
    BY <1>0, <1>3 DEF CounterOf, Limit
  <2>1. u \in Block /\ ~magic[u]
    BY <1>2, <1>3
  <2>2. PICK max \in Counts : max_erase_count' = max + 1
    BY <1>7
  <2>3. max < Limit(u) /\ max \in Nat /\ Limit(u) \in Nat
    BY <1>0, <2>1, <2>2 DEF Counts, AgesInv, RoomToErase
  <2>4. QED
    BY <2>1, <2>2, <2>3
<1>10. QED
  BY <1>4, <1>5, <1>6, <1>8, <1>9 DEF AgesInv

LEMMA PowerLossAges ==
  ASSUME IInv, AgesInv, PowerLoss
  PROVE  AgesInv'
<1> USE Numbers, JobParts
<1>0. /\ count \in [Block -> Count] /\ magic \in [Block -> BOOLEAN] /\ max_erase_count \in Count
      /\ job \in JobType
      /\ count' = count /\ magic' = magic /\ newest' = newest /\ job' = NoJob /\ ~mounted'
      /\ job # NoJob => max_erase_count <= CountCap
  BY DEF PowerLoss, flash, IInv, TypeOK, JobType
<1>1. CountKept' /\ Limited' /\ Young'
  BY <1>0 DEF AgesInv, CountKept, Limited, Limit, Young
<1>2. RoomToErase'
  <2> SUFFICES ASSUME NEW b \in Block, NEW c \in Block, ~magic[b], count[c] # OBJ_ID_FREE
               PROVE  count[c] < Limit(b)
    BY <1>0 DEF RoomToErase, Limit
  <2>1. CASE job.by = "mount" /\ c = job.bix /\ job.step = S + 1
    <3>1. count[c] = max_erase_count /\ max_erase_count <= CountCap
      BY <1>0, <2>1 DEF AgesInv, Written
    <3>2. QED
      BY <1>0, <3>1
  <2>2. CASE ~(job.by = "mount" /\ c = job.bix /\ job.step = S + 1)
    BY <2>2 DEF AgesInv, RoomToErase
  <2>3. QED
    BY <2>1, <2>2
<1>3. CounterOf' /\ Written' /\ Ahead'
  BY <1>0 DEF CounterOf, Written, Ahead
<1>4. QED
  BY <1>1, <1>2, <1>3 DEF AgesInv

LEMMA AgesInductive ==
  ASSUME NoWrap, IInv, AgesInv, [Next]_vars
  PROVE  AgesInv'
<1> USE JobParts
<1>1. CASE EraseSector
  BY <1>1, EraseSectorAges
<1>2. CASE WriteCount
  BY <1>2, WriteCountAges
<1>3. CASE WriteMagic
  BY <1>3, WriteMagicAges
<1>4. ASSUME NEW b \in Block, GcEraseBlock(b) PROVE AgesInv'
  <2>1. /\ job.by = "none" /\ job'.by = "gc" /\ job'.bix = b /\ job'.step = 0 /\ mounted
        /\ count' = count /\ magic' = magic /\ newest' = newest /\ mounted' = mounted
        /\ max_erase_count' = max_erase_count /\ max_erase_count <= CountCap
    BY <1>4 DEF GcEraseBlock, flash
  <2>2. CountKept' /\ Limited' /\ RoomToErase' /\ Young'
    BY <2>1 DEF AgesInv, CountKept, Limited, Limit, RoomToErase, Young
  <2>3. CounterOf' /\ Written' /\ Ahead'
    BY <2>1 DEF AgesInv, CounterOf, Written, Ahead
  <2>4. QED
    BY <2>2, <2>3 DEF AgesInv
<1>5. ASSUME NEW b \in Block, Use(b) PROVE AgesInv'
  BY <1>5 DEF Use, AgesInv, CountKept, Limited, Limit, RoomToErase, CounterOf, Written, Ahead, Young
<1>6. CASE Mount
  BY <1>6, MountAges
<1>7. CASE Format
  <2>1. 0 \in Block /\ \A b \in Block : ~(b < 0)
    BY DEF Block
  <2>2. /\ job'.by = "format" /\ job'.bix = 0 /\ job'.step = 0 /\ ~mounted'
        /\ count' = count /\ magic' = magic /\ newest' = NoBlock /\ max_erase_count' = 0
        /\ job.by = "none"
    BY <1>7, <2>1 DEF Format, flash
  <2>3. CountKept' /\ Limited' /\ RoomToErase' /\ Young'
    BY <2>2 DEF AgesInv, CountKept, Limited, Limit, RoomToErase, Young
  <2>4. CounterOf' /\ Written' /\ Ahead'
    BY <2>1, <2>2 DEF CounterOf, Written, Ahead
  <2>5. QED
    BY <2>3, <2>4 DEF AgesInv
<1>8. CASE Unmount
  BY <1>8 DEF Unmount, flash, AgesInv, CountKept, Limited, Limit, RoomToErase, CounterOf, Written, Ahead, Young
<1>9. CASE PowerLoss
  BY <1>9, PowerLossAges
<1>10. CASE UNCHANGED vars
  BY <1>10 DEF vars, flash, AgesInv, CountKept, Limited, Limit, RoomToErase, CounterOf, Written, Ahead, Young
<1>11. QED
  BY <1>1, <1>2, <1>3, <1>4, <1>5, <1>6, <1>7, <1>8, <1>9, <1>10 DEF Next

LEMMA InitAges == Init => AgesInv
<1> SUFFICES ASSUME Init PROVE AgesInv
  OBVIOUS
<1>1. job.by = "none" /\ ~mounted /\ newest = NoBlock /\ \A b \in Block : ~magic[b] /\ count[b] = OBJ_ID_FREE
  BY JobParts DEF Init
<1>2. QED
  BY <1>1 DEF AgesInv, CountKept, Limited, RoomToErase, CounterOf, Written, Ahead, Young

(* The ages spiffs_gc_find_candidate weighs the blocks with are true: the  *)
(* counter is above every count, and the block erased last has the         *)
(* highest, wherever a mount had to start from, after an erase or a format *)
(* cut short too, as long as the counter stays clear of its wrap.          *)
THEOREM AgesCorrect ==
  ASSUME CountCap + B + 1 < OBJ_ID_IX_FLAG
  PROVE  Spec => []AgesTrue
<1>1. NoWrap
  BY DEF NoWrap
<1>2. Init => AgesInv
  BY InitAges
<1>3. IInv /\ AgesInv /\ [Next]_vars => AgesInv'
  BY <1>1, AgesInductive
<1>4. IInv /\ AgesInv => AgesTrue
  <2> SUFFICES ASSUME IInv, AgesInv, mounted, job = NoJob PROVE AgesTrue
    BY DEF AgesTrue, CounterAhead, NewestIsYoungest
  <2>1. job.by = "none" /\ \A b \in Block : magic[b]
    BY JobParts DEF IInv, OnlyTheErased
  <2>2. CounterAhead
    BY <2>1 DEF CounterAhead, AgesInv, Ahead, CountKept
  <2>3. NewestIsYoungest
    BY <2>1 DEF NewestIsYoungest, AgesInv, Young
  <2>4. QED
    BY <2>2, <2>3 DEF AgesTrue
<1>5. QED
  BY <1>2, <1>3, <1>4, Invariant, PTL DEF Spec
=============================================================================
