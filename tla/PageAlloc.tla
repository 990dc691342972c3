----------------------------- MODULE PageAlloc -----------------------------
(***************************************************************************)
(* The page allocator of SPIFFS: the object lookup table on flash, the     *)
(* free cursor and the page statistics in RAM, and every operation of      *)
(* spiffs_nucleus.c and spiffs_gc.c that reads or writes them.             *)
(*                                                                         *)
(* The flash holds B blocks of E pages each; lu[b][e] is the lookup entry  *)
(* of page e of block b.  A NOR flash clears bits only, so an entry goes   *)
(* from FREE (all ones) to an object id to DELETED (all zeros), and the    *)
(* only way back is to erase the whole block.                              *)
(*                                                                         *)
(* The callers (the object layer) are abstract here: between two calls     *)
(* they may allocate, move or delete any page.  So is the choice of the    *)
(* block to collect and the order in which the collector empties it;       *)
(* module Gc has both and is shown to implement this one.                  *)
(***************************************************************************)
EXTENDS Integers, FiniteSets

CONSTANTS
  B,            (* fs->block_count                                         *)
  E,            (* SPIFFS_OBJ_LOOKUP_MAX_ENTRIES, pages of a block         *)
  Ids,          (* object ids a lookup entry may hold                      *)
  FREE,         (* SPIFFS_OBJ_ID_FREE                                      *)
  DELETED,      (* SPIFFS_OBJ_ID_DELETED                                   *)
  QuickArgs,    (* arguments the user gives to SPIFFS_gc_quick             *)
  FreeCap       (* bound: free_blocks is not driven above it (see GcStart) *)

ASSUME GeometryAssumption == B \in Nat /\ B >= 3 /\ E \in Nat /\ E >= 1
ASSUME IdsAssumption == FREE # DELETED /\ FREE \notin Ids /\ DELETED \notin Ids
ASSUME BoundAssumption == QuickArgs \subseteq Nat /\ FreeCap \in Nat

Block == 0 .. B - 1
Entry == 0 .. E - 1
Page == Block \X Entry

(* No block: the value of `cleaning` outside of spiffs_gc_clean.           *)
NoBlock == -1

VARIABLES
  lu,                 (* flash: object lookup entries                      *)
  mounted,            (* fs->mounted                                       *)
  free_blocks,        (* fs->free_blocks                                   *)
  stats_p_allocated,  (* fs->stats_p_allocated                             *)
  stats_p_deleted,    (* fs->stats_p_deleted                               *)
  free_cursor,        (* fs->free_cursor_block_ix, free_cursor_obj_lu_entry*)
  cleaning,           (* the block spiffs_gc_clean empties, or NoBlock     *)
  moving,             (* the spiffs_page_move in progress                  *)
  wrapped             (* history: gc has moved a page into the block it    *)
                      (* was cleaning                                      *)

ram == <<free_blocks, stats_p_allocated, stats_p_deleted, free_cursor>>
vars == <<lu, mounted, ram, cleaning, moving, wrapped>>

Cursor(b, e) == [bix |-> b, entry |-> e]
NoMove == [stage |-> "none", src |-> <<0, 0>>, dst |-> <<0, 0>>]
Moving(stage, src, dst) == [stage |-> stage, src |-> src, dst |-> dst]

Idle == mounted /\ cleaning = NoBlock /\ moving = NoMove

-----------------------------------------------------------------------------
(* Lookup tables.                                                          *)

FreePages(l) == {p \in Page : l[p[1]][p[2]] = FREE}
DeletedPages(l) == {p \in Page : l[p[1]][p[2]] = DELETED}
UsedPages(l) == {p \in Page : l[p[1]][p[2]] \in Ids}

(* spiffs_obj_lu_scan_v counts a block as free by its first entry alone.   *)
FreeBlocks(l) == {b \in Block : l[b][0] = FREE}

(* spiffs_erase_block, as far as the lookup of the blocks S goes.          *)
Erased(l, S) == [b \in Block |-> IF b \in S THEN [e \in Entry |-> FREE] ELSE l[b]]

Marked(l, p, id) == [l EXCEPT ![p[1]][p[2]] = id]

-----------------------------------------------------------------------------
(* spiffs_obj_lu_find_entry_visitor: the order in which it visits pages.   *)

(* "wrap initial": a cursor past the last entry starts at the next block.  *)
ScanStart(c) ==
  IF c.entry > E - 1
  THEN Cursor(IF c.bix + 1 >= B THEN 0 ELSE c.bix + 1, 0)
  ELSE c

(* Pages from s to the end of the flash are visited first, then the rest.  *)
SecondLap(s, p) == p[1] < s.bix \/ (p[1] = s.bix /\ p[2] < s.entry)

Below(p, q) == p[1] < q[1] \/ (p[1] = q[1] /\ p[2] < q[2])

VisitedBefore(s, p, q) ==
  \/ ~SecondLap(s, p) /\ SecondLap(s, q)
  \/ (SecondLap(s, p) <=> SecondLap(s, q)) /\ Below(p, q)

(* The page spiffs_obj_lu_find_id returns for the id FREE.                 *)
FirstFree(l, c, p) ==
  /\ p \in FreePages(l)
  /\ \A q \in FreePages(l) : ~VisitedBefore(ScanStart(c), q, p)

-----------------------------------------------------------------------------
(* spiffs_gc_quick: the first block with no used page and at most max free *)
(* ones.  The set has at most one element.                                 *)

(* Mutant: a block with one free page more is taken.                       *)
QuickVictimOneMore(max, b) ==
  /\ \A e \in Entry : lu[b][e] \notin Ids
  /\ Cardinality({e \in Entry : lu[b][e] = FREE}) <= max + 1

QuickVictim(max, b) ==
  /\ \A e \in Entry : lu[b][e] \notin Ids
  /\ Cardinality({e \in Entry : lu[b][e] = FREE}) <= max

QuickVictims(max) ==
  {b \in Block : QuickVictim(max, b) /\ \A c \in Block : QuickVictim(max, c) => b <= c}

DeletedIn(S) == Cardinality({p \in DeletedPages(lu) : p[1] \in S})
AllocatedIn(S) == Cardinality({p \in UsedPages(lu) : p[1] \in S})

-----------------------------------------------------------------------------
(* spiffs_obj_lu_find_free.  Outside of a collection, and with fewer than  *)
(* two free blocks, it first runs spiffs_gc_quick(0).                      *)

QuickErased == IF cleaning = NoBlock /\ free_blocks < 2 THEN QuickVictims(0) ELSE {}
QuickLu == Erased(lu, QuickErased)
(* Mutant: the erase in between is not counted.                            *)
QuickFreeBlocksNotRaised == free_blocks
QuickFreeBlocks == IF QuickErased = {} THEN free_blocks ELSE free_blocks + 1

QuickRuns ==
  /\ lu' = QuickLu
  /\ free_blocks' = QuickFreeBlocks
  /\ stats_p_deleted' = stats_p_deleted - DeletedIn(QuickErased)

(* Mutant: the cursor skips a page.                                        *)
FindFreeSkips(p) ==
  /\ cleaning # NoBlock \/ QuickFreeBlocks >= 2
  /\ FirstFree(QuickLu, free_cursor, p)
  /\ free_cursor' = Cursor(p[1], p[2] + 2)
  /\ free_blocks' = IF p[2] = 0 THEN QuickFreeBlocks - 1 ELSE QuickFreeBlocks
  /\ stats_p_deleted' = stats_p_deleted - DeletedIn(QuickErased)

FindFree(p) ==
  /\ cleaning # NoBlock \/ QuickFreeBlocks >= 2
  /\ FirstFree(QuickLu, free_cursor, p)
  /\ free_cursor' = Cursor(p[1], p[2] + 1)
  /\ free_blocks' = IF p[2] = 0 THEN QuickFreeBlocks - 1 ELSE QuickFreeBlocks
  /\ stats_p_deleted' = stats_p_deleted - DeletedIn(QuickErased)

(* It returns SPIFFS_ERR_FULL when even that leaves fewer than two.        *)
FindFreeFull ==
  /\ Idle
  /\ QuickErased # {}
  /\ QuickFreeBlocks < 2
  /\ QuickRuns
  /\ UNCHANGED <<mounted, stats_p_allocated, free_cursor, cleaning, moving, wrapped>>

-----------------------------------------------------------------------------
(* Page operations.                                                        *)

(* spiffs_page_allocate_data and spiffs_object_create: the lookup entry is *)
(* written right after spiffs_obj_lu_find_free.                            *)
Allocate(id) ==
  /\ Idle
  /\ \E p \in Page :
       /\ FindFree(p)
       /\ lu' = Marked(QuickLu, p, id)
  /\ stats_p_allocated' = stats_p_allocated + 1
  /\ UNCHANGED <<mounted, cleaning, moving, wrapped>>

(* spiffs_page_move, up to the copy of the page.                           *)
MoveCopy(src) ==
  /\ mounted /\ moving = NoMove
  /\ src \in UsedPages(lu)
  /\ \E p \in Page :
       /\ FindFree(p)
       /\ moving' = Moving("copied", src, p)
       /\ wrapped' = (wrapped \/ p[1] = cleaning)
  /\ lu' = QuickLu
  /\ UNCHANGED <<mounted, stats_p_allocated, cleaning>>

(* spiffs_page_move: the destination is entered in the lookup.             *)
MoveMark ==
  /\ mounted /\ moving.stage = "copied"
  /\ lu' = Marked(lu, moving.dst, lu[moving.src[1]][moving.src[2]])
  /\ stats_p_allocated' = stats_p_allocated + 1
  /\ moving' = Moving("marked", moving.src, moving.dst)
  /\ UNCHANGED <<mounted, free_blocks, stats_p_deleted, free_cursor, cleaning, wrapped>>

(* Mutant: the page stays counted as allocated.                            *)
PageDeleteKeepsCount(p) ==
  /\ lu' = Marked(lu, p, DELETED)
  /\ stats_p_deleted' = stats_p_deleted + 1
  /\ UNCHANGED <<mounted, free_blocks, stats_p_allocated, free_cursor, cleaning, wrapped>>

(* spiffs_page_delete of the page p.                                       *)
PageDelete(p) ==
  /\ lu' = Marked(lu, p, DELETED)
  /\ stats_p_deleted' = stats_p_deleted + 1
  /\ stats_p_allocated' = stats_p_allocated - 1
  /\ UNCHANGED <<mounted, free_blocks, free_cursor, cleaning, wrapped>>

(* spiffs_page_move: last, the source is deleted.                          *)
MoveDrop ==
  /\ mounted /\ moving.stage = "marked"
  /\ PageDelete(moving.src)
  /\ moving' = NoMove

(* A page the object layer drops, or one the collector finds orphaned.     *)
Delete(p) ==
  /\ mounted /\ moving = NoMove
  /\ cleaning # NoBlock => p[1] = cleaning
  /\ p \in UsedPages(lu)
  /\ PageDelete(p)
  /\ UNCHANGED moving

-----------------------------------------------------------------------------
(* Garbage collection.                                                     *)

(* SPIFFS_gc_quick.                                                        *)
GcQuick(max) ==
  /\ Idle
  /\ \E b \in QuickVictims(max) :
       /\ lu' = Erased(lu, {b})
       /\ stats_p_deleted' = stats_p_deleted - DeletedIn({b})
       /\ free_blocks < FreeCap
       /\ free_blocks' = free_blocks + 1
  /\ UNCHANGED <<mounted, stats_p_allocated, free_cursor, cleaning, moving, wrapped>>

(* spiffs_gc_check has chosen b; spiffs_gc_clean moves the free cursor out *)
(* of it.  Collecting a block that is free already raises free_blocks, so  *)
(* that is bounded by FreeCap.                                             *)
GcStart(b) ==
  /\ Idle
  /\ lu[b][0] = FREE => free_blocks < FreeCap
  /\ cleaning' = b
  /\ free_cursor' = IF free_cursor.bix = b THEN Cursor((b + 1) % B, 0) ELSE free_cursor
  /\ UNCHANGED <<lu, mounted, free_blocks, stats_p_allocated, stats_p_deleted, moving, wrapped>>

(* spiffs_gc_clean is done: spiffs_gc_erase_page_stats, then the erase.    *)
EraseCleaned ==
  /\ mounted /\ cleaning # NoBlock /\ moving = NoMove
  /\ stats_p_allocated' = stats_p_allocated - AllocatedIn({cleaning})
  /\ stats_p_deleted' = stats_p_deleted - DeletedIn({cleaning})
  /\ lu' = Erased(lu, {cleaning})
  /\ free_blocks' = free_blocks + 1
  /\ cleaning' = NoBlock
  /\ UNCHANGED <<mounted, free_cursor, moving, wrapped>>

(* Nothing used is left in the block unless a page was moved into it.      *)
GcErase ==
  /\ wrapped \/ AllocatedIn({cleaning}) = 0
  /\ EraseCleaned

(* spiffs_gc_clean found no free page at all: gc_check returns the error.  *)
GcFail ==
  /\ mounted /\ cleaning # NoBlock /\ moving = NoMove
  /\ FreePages(lu) = {}
  /\ cleaning' = NoBlock
  /\ UNCHANGED <<lu, mounted, ram, moving, wrapped>>

-----------------------------------------------------------------------------
(* Mounting, and the loss of power.                                        *)

(* SPIFFS_mount clears the whole struct, spiffs_obj_lu_scan counts.        *)
Mount ==
  /\ ~mounted
  /\ mounted' = TRUE
  /\ free_blocks' = Cardinality(FreeBlocks(lu))
  /\ stats_p_allocated' = Cardinality(UsedPages(lu))
  /\ stats_p_deleted' = Cardinality(DeletedPages(lu))
  /\ free_cursor' = Cursor(0, 0)
  /\ UNCHANGED <<lu, cleaning, moving, wrapped>>

RamLost ==
  /\ mounted' = FALSE
  /\ free_blocks' = 0 /\ stats_p_allocated' = 0 /\ stats_p_deleted' = 0
  /\ free_cursor' = Cursor(0, 0)
  /\ cleaning' = NoBlock
  /\ moving' = NoMove

(* SPIFFS_unmount between two calls, or a power loss between any two flash *)
(* operations.                                                             *)
PowerLoss == mounted /\ RamLost /\ UNCHANGED <<lu, wrapped>>

(* SPIFFS_format is refused while mounted.                                 *)
Format ==
  /\ ~mounted
  /\ lu' = Erased(lu, Block)
  /\ UNCHANGED <<mounted, ram, cleaning, moving, wrapped>>

-----------------------------------------------------------------------------
Init ==
  /\ lu = [b \in Block |-> [e \in Entry |-> FREE]]
  /\ mounted = FALSE
  /\ free_blocks = 0 /\ stats_p_allocated = 0 /\ stats_p_deleted = 0
  /\ free_cursor = Cursor(0, 0)
  /\ cleaning = NoBlock
  /\ moving = NoMove
  /\ wrapped = FALSE

Next ==
  \/ \E id \in Ids : Allocate(id)
  \/ FindFreeFull
  \/ \E p \in Page : MoveCopy(p)
  \/ MoveMark
  \/ MoveDrop
  \/ \E p \in Page : Delete(p)
  \/ \E max \in QuickArgs : GcQuick(max)
  \/ \E b \in Block : GcStart(b)
  \/ GcErase
  \/ GcFail
  \/ Mount
  \/ PowerLoss
  \/ Format

Spec == Init /\ [][Next]_vars

-----------------------------------------------------------------------------
(* Properties.                                                             *)

TypeOK ==
  /\ lu \in [Block -> [Entry -> Ids \cup {FREE, DELETED}]]
  /\ mounted \in BOOLEAN
  /\ free_blocks \in Int
  /\ stats_p_allocated \in Int
  /\ stats_p_deleted \in Int
  /\ free_cursor \in [bix : Block, entry : 0 .. E]
  /\ cleaning \in Block \cup {NoBlock}
  /\ moving \in [stage : {"none", "copied", "marked"}, src : Page, dst : Page]
  /\ wrapped \in BOOLEAN

(* The two page counters are exact whenever the file system is mounted,    *)
(* in the middle of a move or of a collection too: spiffs_gc_check decides *)
(* from them whether there is room.                                        *)
StatsExact ==
  mounted =>
    /\ stats_p_allocated = Cardinality(UsedPages(lu))
    /\ stats_p_deleted = Cardinality(DeletedPages(lu))

(* A page reserved by spiffs_page_move, not yet entered in the lookup.     *)
Reserved == IF moving.stage = "copied" THEN {moving.dst} ELSE {}

(* free_blocks never falls below the number of blocks that are free, so    *)
(* it never underflows and spiffs_obj_lu_find_free never reports a full    *)
(* file system that has two free blocks.                                   *)
FreeBlocksNotUnderCounted ==
  mounted =>
    free_blocks >= Cardinality({b \in FreeBlocks(lu) : <<b, 0>> \notin Reserved})

(* spiffs_gc_find_candidate: "when a free entry is encountered, scan logic *)
(* ensures that all following entries are free also".                      *)
FreeSuffix ==
  \A b \in Block : \A e, f \in Entry : e <= f /\ lu[b][e] = FREE => lu[b][f] = FREE

(* ... as long as the collector never moved a page into the block it       *)
(* cleaned.                                                                *)
NoHoles == ~wrapped => FreeSuffix

-----------------------------------------------------------------------------
(* The inductive invariant behind NoHoles.                                 *)

(* The pages find_free may still hand out.                                 *)
Avail == FreePages(lu) \ Reserved

Suffix(F) == \A b \in Block : \A e, f \in Entry : e <= f /\ <<b, e>> \in F => <<b, f>> \in F

(* The cursor c stands on the first available page of its block, unless it *)
(* is at the beginning or past the end of it.                              *)
CursorOK(F, c) ==
  0 < c.entry /\ c.entry < E =>
    /\ <<c.bix, c.entry>> \in F
    /\ \A e \in Entry : e < c.entry => <<c.bix, e>> \notin F

(* A move has a used source and, until it is marked, a free destination.   *)
MoveInv ==
  /\ moving.stage = "none" => moving = NoMove
  /\ moving.stage # "none" => moving.src \in UsedPages(lu)
  /\ moving.stage = "copied" => moving.dst \in FreePages(lu)

UnmountedInv ==
  ~mounted => free_cursor = Cursor(0, 0) /\ cleaning = NoBlock /\ moving = NoMove

(* The free pages of a block are its last ones, and the cursor does not    *)
(* stand beyond one of them.                                               *)
Order ==
  /\ Suffix(Avail)
  /\ CursorOK(Avail, free_cursor)
  /\ moving.stage = "copied" =>
       \A f \in Entry : f > moving.dst[2] => <<moving.dst[1], f>> \in Avail

CursorInv ==
  ~wrapped => Order /\ (cleaning # NoBlock => free_cursor.bix # cleaning)

IInv == TypeOK /\ MoveInv /\ UnmountedInv /\ CursorInv
=============================================================================
