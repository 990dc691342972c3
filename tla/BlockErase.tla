----------------------------- MODULE BlockErase -----------------------------
(***************************************************************************)
(* Erasing a block, and what a mount makes of an erase that was cut short. *)
(*                                                                         *)
(* Every erased block gets an erase count and, last, a magic word.  A      *)
(* mount tolerates one block without its magic, and erases that block      *)
(* again; a second one makes it refuse the file system.  Each flash        *)
(* operation is a step here, and the power may go between any two.         *)
(***************************************************************************)
EXTENDS Integers, FiniteSets

CONSTANTS
  B,         (* fs->block_count                                            *)
  S,         (* phys_erase_blocks (sectors) in a logical block             *)
  OBJ_ID_IX_FLAG, (* SPIFFS_OBJ_ID_IX_FLAG: the top bit of a spiffs_obj_id *)
  CountCap,  (* bound: while max_erase_count is above it, no block is      *)
             (* collected and the power does not go in an erase            *)
  Blank      (* magic of an erased block, as spiffs_probe decodes it       *)

ASSUME GeometryAssumption == B \in Nat /\ B >= 3 /\ S \in Nat /\ S >= 1
ASSUME CountAssumption == OBJ_ID_IX_FLAG \in Nat /\ OBJ_ID_IX_FLAG >= 2 /\ CountCap \in Nat
ASSUME BlankAssumption == Blank \in Nat /\ Blank > B + 1

Block == 0 .. B - 1
Sector == 0 .. S - 1

(* Erase counts are of type spiffs_obj_id; an erased one reads all ones.   *)
Word == 2 * OBJ_ID_IX_FLAG
OBJ_ID_FREE == Word - 1
Count == 0 .. OBJ_ID_FREE

VARIABLES
  magic,            (* flash: the block has its magic word                 *)
  count,            (* flash: the erase count of the block                 *)
  data,             (* flash: the sectors that hold anything               *)
  configured,       (* fs->config_magic is set                             *)
  mounted,          (* fs->mounted                                         *)
  max_erase_count,  (* fs->max_erase_count                                 *)
  job,              (* the spiffs_erase_block in progress, and its caller  *)
  formatted,        (* history: a SPIFFS_format has once been completed    *)
  newest            (* history: the block erased last since the last       *)
                    (* format, or NoBlock                                  *)

flash == <<magic, count, data>>
vars == <<flash, configured, mounted, max_erase_count, job, formatted, newest>>

NoBlock == -1
NoJob == [by |-> "none", bix |-> 0, step |-> 0]
Job(by, bix) == [by |-> by, bix |-> bix, step |-> 0]

-----------------------------------------------------------------------------
(* spiffs_erase_block, one flash operation at a time.  The magic and the   *)
(* count are in the first sector, with the object lookup.                  *)

(* Mutant: the last sector is left out.                                    *)
EraseSectorButLast ==
  /\ job.by # "none" /\ job.step < S
  /\ data' = [data EXCEPT ![job.bix] = @ \ ({job.step} \ {S - 1})]
  /\ magic' = IF job.step = 0 THEN [magic EXCEPT ![job.bix] = FALSE] ELSE magic
  /\ count' = IF job.step = 0 THEN [count EXCEPT ![job.bix] = OBJ_ID_FREE] ELSE count
  /\ job' = [job EXCEPT !.step = @ + 1]
  /\ UNCHANGED <<configured, mounted, max_erase_count, formatted, newest>>

EraseSector ==
  /\ job.by # "none" /\ job.step < S
  /\ data' = [data EXCEPT ![job.bix] = @ \ {job.step}]
  /\ magic' = IF job.step = 0 THEN [magic EXCEPT ![job.bix] = FALSE] ELSE magic
  /\ count' = IF job.step = 0 THEN [count EXCEPT ![job.bix] = OBJ_ID_FREE] ELSE count
  /\ job' = [job EXCEPT !.step = @ + 1]
  /\ UNCHANGED <<configured, mounted, max_erase_count, formatted, newest>>

WriteCount ==
  /\ job.by # "none" /\ job.step = S
  /\ count' = [count EXCEPT ![job.bix] = max_erase_count]
  /\ job' = [job EXCEPT !.step = @ + 1]
  /\ UNCHANGED <<magic, data, configured, mounted, max_erase_count, formatted, newest>>

(* Mutant: the counter stays.                                              *)
IncrementedForgotten(m) == m

Incremented(m) == IF (m + 1) % Word = OBJ_ID_IX_FLAG THEN 0 ELSE (m + 1) % Word

(* The loop of SPIFFS_format over the blocks goes on; in the mutant, once  *)
(* too often.                                                              *)
MoreToFormatPastEnd == job.by = "format" /\ job.bix + 1 <= B
MoreToFormat == job.by = "format" /\ job.bix + 1 < B

(* The magic comes last; then the caller goes on.  SPIFFS_format takes the *)
(* next block with the counter at zero again, SPIFFS_mount is done.        *)
WriteMagic ==
  /\ job.by # "none" /\ job.step = S + 1
  /\ magic' = [magic EXCEPT ![job.bix] = TRUE]
  /\ LET more == MoreToFormat
     IN  /\ job' = IF more THEN Job("format", job.bix + 1) ELSE NoJob
         /\ max_erase_count' = IF more THEN 0 ELSE Incremented(max_erase_count)
         /\ formatted' = (formatted \/ (job.by = "format" /\ ~more))
  /\ mounted' = (mounted \/ job.by = "mount")
  /\ newest' = IF job.by = "format" THEN NoBlock ELSE job.bix
  /\ UNCHANGED <<count, data, configured>>

-----------------------------------------------------------------------------
(* The callers.                                                            *)

(* spiffs_gc_erase_block, for whatever block the collector has emptied.    *)
GcEraseBlock(b) ==
  /\ mounted /\ job = NoJob
  /\ max_erase_count <= CountCap
  /\ job' = Job("gc", b)
  /\ UNCHANGED <<flash, configured, mounted, max_erase_count, formatted, newest>>

(* The object layer fills a block.                                         *)
Use(b) ==
  /\ mounted /\ job = NoJob
  /\ data' = [data EXCEPT ![b] = Sector]
  /\ UNCHANGED <<magic, count, configured, mounted, max_erase_count, job, formatted, newest>>

(* SPIFFS_mount, through spiffs_obj_lu_scan.                               *)
Unerased == {b \in Block : ~magic[b]}
Refused == \E b, c \in Unerased : b # c         (* SPIFFS_ERR_NOT_A_FS    *)
Counts == {count[b] : b \in Block} \ {OBJ_ID_FREE}

(* The lowest and the highest erase count; FREE and 0 if no block has one. *)
CountRange(min, max) ==
  IF Counts = {} THEN min = OBJ_ID_FREE /\ max = 0
  ELSE min \in Counts /\ max \in Counts /\ \A c \in Counts : min <= c /\ c <= max

(* Mutant: the counter goes on at the highest count.                       *)
CountFinalAtMax(min, max) == max

CountFinal(min, max) ==
  IF min = 0 /\ max = OBJ_ID_FREE THEN 0
  ELSE IF (max - min) % Word > OBJ_ID_FREE \div 2 THEN (min + 1) % Word
  ELSE (max + 1) % Word

(* Mutant: the block of an aborted erase is not erased again.              *)
MountNoErase ==
  /\ ~mounted /\ job = NoJob
  /\ configured' = TRUE
  /\ \E min, max \in Counts \cup {0, OBJ_ID_FREE} :
       /\ CountRange(min, max)
       /\ max_erase_count' = IF Refused THEN 0 ELSE CountFinal(min, max)
  /\ mounted' = ~Refused
  /\ UNCHANGED <<flash, job, formatted, newest>>

Mount ==
  /\ ~mounted /\ job = NoJob
  /\ configured' = TRUE
  /\ \E min, max \in Counts \cup {0, OBJ_ID_FREE} :
       /\ CountRange(min, max)
       /\ max_erase_count' = IF Refused THEN 0 ELSE CountFinal(min, max)
  /\ mounted' = (Unerased = {})
  /\ job' = IF Unerased = {} \/ Refused
            THEN NoJob
            ELSE Job("mount", CHOOSE b \in Block : ~magic[b])
  /\ UNCHANGED <<flash, formatted, newest>>

(* SPIFFS_format wants a struct that SPIFFS_mount has configured, but not  *)
(* mounted.                                                                *)
Format ==
  /\ configured /\ ~mounted /\ job = NoJob
  /\ job' = Job("format", 0)
  /\ max_erase_count' = 0
  /\ newest' = NoBlock
  /\ UNCHANGED <<flash, configured, mounted, formatted>>

Unmount ==
  /\ mounted /\ job = NoJob
  /\ mounted' = FALSE
  /\ UNCHANGED <<flash, configured, max_erase_count, job, formatted, newest>>

PowerLoss ==
  /\ configured
  /\ job # NoJob => max_erase_count <= CountCap
  /\ configured' = FALSE /\ mounted' = FALSE
  /\ max_erase_count' = 0
  /\ job' = NoJob
  /\ UNCHANGED <<flash, formatted, newest>>

-----------------------------------------------------------------------------
(* spiffs_probe reads the magic of the first three blocks.  Decoded, the   *)
(* magic of block b is the number of blocks from b on; an erased word      *)
(* decodes to a huge number.                                               *)

bix_count(b) == IF magic[b] THEN B - b ELSE Blank

ProbeNotAFs == -1

(* Mutant: an aborted erase of the second block is not thought of.         *)
ProbedBlocksNotSecond ==
  IF bix_count(0) < 3 THEN ProbeNotAFs
  ELSE IF ~magic[0] /\ bix_count(1) - bix_count(2) = 1 THEN bix_count(1) + 1
  ELSE IF ~magic[2] /\ bix_count(0) - bix_count(1) = 1 THEN bix_count(0)
  ELSE IF bix_count(0) - bix_count(1) = 1 /\ bix_count(1) - bix_count(2) = 1 THEN bix_count(0)
  ELSE ProbeNotAFs

ProbedBlocks ==
  IF bix_count(0) < 3 THEN ProbeNotAFs
  ELSE IF ~magic[0] /\ bix_count(1) - bix_count(2) = 1 THEN bix_count(1) + 1
  ELSE IF ~magic[1] /\ bix_count(0) - bix_count(2) = 2 THEN bix_count(0)
  ELSE IF ~magic[2] /\ bix_count(0) - bix_count(1) = 1 THEN bix_count(0)
  ELSE IF bix_count(0) - bix_count(1) = 1 /\ bix_count(1) - bix_count(2) = 1 THEN bix_count(0)
  ELSE ProbeNotAFs

-----------------------------------------------------------------------------
(* A flash chip that never held a file system holds no magic word, and     *)
(* anything else.                                                          *)
Init ==
  /\ magic = [b \in Block |-> FALSE]
  /\ count = [b \in Block |-> OBJ_ID_FREE]
  /\ data \in [Block -> {{}, Sector}]
  /\ configured = FALSE /\ mounted = FALSE
  /\ max_erase_count = 0
  /\ job = NoJob
  /\ formatted = FALSE
  /\ newest = NoBlock

Next ==
  \/ EraseSector
  \/ WriteCount
  \/ WriteMagic
  \/ \E b \in Block : GcEraseBlock(b)
  \/ \E b \in Block : Use(b)
  \/ Mount
  \/ Format
  \/ Unmount
  \/ PowerLoss

Spec == Init /\ [][Next]_vars

-----------------------------------------------------------------------------
TypeOK ==
  /\ magic \in [Block -> BOOLEAN]
  /\ count \in [Block -> Count]
  /\ data \in [Block -> SUBSET Sector]
  /\ configured \in BOOLEAN /\ mounted \in BOOLEAN /\ formatted \in BOOLEAN
  /\ max_erase_count \in Count
  /\ job \in [by : {"none", "gc", "mount", "format"}, bix : Block, step : 0 .. S + 1]
  /\ newest \in Block \cup {NoBlock}

(* Once formatted, a file system can always be mounted again: wherever the *)
(* power went, two blocks never lack their magic at once, so that          *)
(* spiffs_obj_lu_scan does not answer SPIFFS_ERR_NOT_A_FS (after which     *)
(* pico_spiffs_mount_onboard_filesystem would format).                     *)
MountablePastFormat == formatted => \A b, c \in Unerased : b = c

(* A block with its magic is never half erased: when its lookup sector is  *)
(* blank the other sectors are.                                            *)
MagicMeansErased == \A b \in Block : magic[b] /\ 0 \notin data[b] => data[b] = {}

(* spiffs_probe tells the size of a formatted file system, whichever block *)
(* is in an aborted erase.                                                 *)
ProbeFindsSize == formatted => ProbedBlocks = B

(* While mounted, the counter is above the erase count of every block: the *)
(* ages spiffs_gc_find_candidate derives from them are not negative.  (As  *)
(* long as the counter has not wrapped.)                                   *)
CounterAhead ==
  mounted /\ job = NoJob => \A b \in Block : count[b] < max_erase_count

(* No erase is ever forgotten: the block erased last has the highest count *)
(* of all, whether or not its counter survived in RAM.                     *)
NewestIsYoungest ==
  mounted /\ job = NoJob /\ newest # NoBlock =>
    \A b \in Block \ {newest} : count[b] < count[newest]

(* The ages the collector computes from counter and counts                 *)
(* (spiffs_gc.c:307-312) are true: no block seems erased after the one     *)
(* erased last, before or after a mount.                                   *)
AgesTrue == CounterAhead /\ NewestIsYoungest
=============================================================================
