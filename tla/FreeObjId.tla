------------------------------ MODULE FreeObjId ------------------------------
(***************************************************************************)
(* The search for the object id of a new file                              *)
(* (spiffs_obj_lu_find_free_obj_id), and the files that come and go.  If   *)
(* the ids do not fit a bitmap of one page, the files of as many ranges of *)
(* ids as the page has bytes are counted, and the search goes on in the    *)
(* range that has the fewest.                                              *)
(*                                                                         *)
(* Of a file only its id is kept, and every page of an id belongs to a     *)
(* file: pages that outlive their header are the subject of Check.         *)
(***************************************************************************)
EXTENDS Integers, FiniteSets

CONSTANTS
  W,          (* SPIFFS_CFG_LOG_PAGE_SZ, the bytes of fs->work             *)
  Bits,       (* of a byte                                                 *)
  Byte,       (* the values of a byte                                      *)
  MaxObjects  (* half the entries of the object lookup                     *)

LastId == MaxObjects + 1
BitmapSize == W * Bits
Ranges == 0 .. W - 1

(* How many ids a range has in the first count.                            *)
FirstCompaction == (LastId - 1) \div W

(* The files of a range can be counted in a byte, and its ids fit the      *)
(* bitmap.  With at most 2^15 ids this holds for pages of 128 bytes and    *)
(* more; for smaller ones see the comment at spiffs_nucleus.c:2227.        *)
ASSUME FreeObjIdAssumption ==
  /\ W \in Nat \ {0} /\ Bits \in Nat \ {0} /\ MaxObjects \in Nat /\ Byte \in Nat
  /\ LastId - 1 > BitmapSize =>
       /\ FirstCompaction > 0 /\ FirstCompaction <= BitmapSize
       /\ FirstCompaction < Byte

VARIABLES
  files,    (* the ids of files                                            *)
  pc,       (* "idle", "search", "full" or "found"                         *)
  min, max, (* spiffs_free_obj_id_state                                    *)
  compaction,
  map,      (* fs->work as counters, of ranges                             *)
  counted,  (* map holds the counts of the present range                   *)
  obj_id    (* the result                                                  *)

vars == <<files, pc, min, max, compaction, map, counted, obj_id>>
range == <<min, max, compaction>>

Init ==
  /\ files = {}
  /\ pc = "idle"
  /\ min = 1 /\ max = LastId /\ compaction = 0
  /\ map = [i \in Ranges |-> 0]
  /\ counted = FALSE
  /\ obj_id = 0

(* fs->work, and the locals of the search, are not used between two calls. *)
Return ==
  /\ pc' = "idle"
  /\ min' = 1 /\ max' = LastId /\ compaction' = 0
  /\ map' = [i \in Ranges |-> 0]
  /\ counted' = FALSE /\ obj_id' = 0

-----------------------------------------------------------------------------
(* SPIFFS_creat, or SPIFFS_open with SPIFFS_O_CREAT, begins the search.    *)
Create ==
  /\ pc = "idle"
  /\ pc' = "search"
  /\ UNCHANGED <<files, range, map, counted, obj_id>>

FitsBitmap == max - min <= BitmapSize

Result(id) ==
  /\ pc' = "found" /\ obj_id' = id
  /\ UNCHANGED <<files, range, map, counted>>

Full ==
  /\ pc' = "full"
  /\ UNCHANGED <<files, range, map, counted, obj_id>>

(* The ids of the bitmap: as many as it has bits, whatever max is.         *)
Bitmap == min .. min + BitmapSize - 1

(* spiffs_obj_lu_find_free_obj_id_bitmap_v, and the first bit that is 0.   *)
SearchBitmap ==
  /\ pc = "search" /\ FitsBitmap
  /\ LET free == Bitmap \ files
     IN  \/ free = {} /\ Full
         \/ \E id \in free : (\A other \in free : id <= other) /\ Result(id)

RangeOf(id, c) == (id - min) \div c
(* Mutant: the last range is not looked at.                                *)
FilesBelow(i, c) == {id \in files : min <= id /\ id < max - c /\ RangeOf(id, c) = i}
FilesIn(i, c) == {id \in files : min <= id /\ id <= max /\ RangeOf(id, c) = i}

(* spiffs_obj_lu_find_free_obj_id_compact_v for every header.  The index   *)
(* of an id past the last range would be behind fs->work.                  *)
Count ==
  /\ pc = "search" /\ ~FitsBitmap /\ ~counted
  /\ LET c == (max - min) \div W
     IN  /\ compaction' = c
         /\ map' = [i \in Ranges |-> Cardinality(FilesIn(i, c)) % Byte]
  /\ counted' = TRUE
  /\ UNCHANGED <<files, pc, min, max, obj_id>>

(* The first of the ranges with the fewest files.                          *)
Fewest(i) == /\ \A j \in Ranges : map[i] <= map[j]
             /\ \A j \in Ranges : j < i => map[i] < map[j]

(* Mutants: the range after the one chosen; the range stays as it was.     *)
NarrowedPast(i) == min' = min + (i + 1) * compaction /\ max' = min' + compaction
NarrowedNot(i) == min' = min /\ max' = max
Narrowed(i) == min' = min + i * compaction /\ max' = min' + compaction

(* Mutant: one id of the range may be free.                                *)
AllFullButOne(i) == map[i] >= compaction - 1
AllFull(i) == map[i] = compaction

Select(i) ==
  /\ pc = "search" /\ ~FitsBitmap /\ counted
  /\ Fewest(i)
  /\ IF AllFull(i) THEN Full
     ELSE IF map[i] = 0 THEN Result(min + i * compaction)
     ELSE /\ Narrowed(i)
          /\ counted' = FALSE
          /\ UNCHANGED <<files, pc, compaction, map, obj_id>>

(* spiffs_object_create                                                    *)
Created ==
  /\ pc = "found"
  /\ files' = files \cup {obj_id}
  /\ Return

(* The call returns an error: that the search met a file of the same name, *)
(* that it found no id, or that there is no page for the header.           *)
Refused ==
  /\ pc # "idle"
  /\ pc = "search" => files # {}
  /\ Return
  /\ UNCHANGED files

(* SPIFFS_remove                                                           *)
Remove(id) ==
  /\ pc = "idle"
  /\ files' = files \ {id}
  /\ UNCHANGED <<pc, range, map, counted, obj_id>>

Search == SearchBitmap \/ Count \/ \E i \in Ranges : Select(i)

Next ==
  \/ Create \/ Search \/ Created \/ Refused
  \/ \E id \in files : Remove(id)

(* A call is not interrupted.                                              *)
Spec == Init /\ [][Next]_vars /\ WF_vars(Search)

-----------------------------------------------------------------------------
(* Properties.                                                             *)

(* The ids that are ever given to a file: all of the bitmap, or of the     *)
(* ranges of the first count.                                              *)
Ids == IF LastId - 1 <= BitmapSize THEN 1 .. BitmapSize ELSE 1 .. W * FirstCompaction

(* Counters, ranges and ids keep their types                               *)
(* (spiffs_nucleus.c:2074-2079).                                           *)
TypeOK ==
  /\ files \subseteq Ids
  /\ pc \in {"idle", "search", "full", "found"}
  /\ min \in Nat /\ max \in Nat /\ compaction \in Nat
  /\ map \in [Ranges -> 0 .. Byte]
  /\ counted \in BOOLEAN
  /\ obj_id \in Nat

(* The id of a new file is not that of another (spiffs_nucleus.c:2144),    *)
(* however the files before it came and went; and it is in one of the      *)
(* ranges, so that no count is made behind fs->work (:2137), where         *)
(* fs->lu_work holds the lookup entries being scanned.                     *)
FreshId == pc = "found" => obj_id \in Ids \ files

(* An id is refused only when all are taken: "there are no free objids!"   *)
(* (spiffs_nucleus.c:2204), though the few ids past the last range are not *)
(* looked at.                                                              *)
FullIsFull == pc = "full" => files = Ids

(* The search ends (the loop at spiffs_nucleus.c:2160).                    *)
SearchEnds == pc = "search" ~> pc # "search"
=============================================================================
