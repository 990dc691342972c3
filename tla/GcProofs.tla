------------------------------ MODULE GcProofs ------------------------------
(***************************************************************************)
(* Theorems about Gc, for every size of the flash, of the files and of the *)
(* index pages: it implements PageAlloc, and the free pages of every block *)
(* are its last ones; then, about the files, that no page of one is ever   *)
(* lost, and that the index pages, between two calls, refer to the data    *)
(* pages and to nothing else.                                              *)
(***************************************************************************)
EXTENDS Gc, FiniteSetTheorems, WellFoundedInduction, TLAPS

-----------------------------------------------------------------------------
(* A data page is known by its index page and its place there.             *)

LEMMA DivModExact ==
  ASSUME NEW n \in Nat \ {0}, NEW s \in Nat
  PROVE  s = n * (s \div n) + (s % n)
OBVIOUS

LEMMA DivModUnique ==
  ASSUME NEW n \in Nat \ {0}, NEW s \in Nat, NEW t \in Nat, s \div n = t \div n, s % n = t % n
  PROVE  s = t
<1>1. s = n * (s \div n) + (s % n) /\ t = n * (t \div n) + (t % n)
  BY DivModExact
<1>2. QED
  BY <1>1

LEMMA DivModOrder ==
  ASSUME NEW n \in Nat \ {0}, NEW s \in Nat, NEW t \in Nat
  PROVE  /\ s <= t => s \div n <= t \div n
         /\ s < t /\ t % n = 0 => s \div n < t \div n
<1>1. s <= t => s \div n <= t \div n
  OBVIOUS
<1>2. s < t /\ t % n = 0 => s \div n < t \div n
  OBVIOUS
<1>3. QED
  BY <1>1, <1>2

LEMMA DivModBefore ==
  ASSUME NEW n \in Nat \ {0}, NEW s \in Nat, s % n # 0
  PROVE  s > 0 /\ (s - 1) \div n = s \div n
OBVIOUS

(* The lemmas about PageAlloc, for the allocator as Gc uses it.            *)
AP == INSTANCE PageAllocProofs WITH Ids <- LookupIds, QuickArgs <- {0}

-----------------------------------------------------------------------------
(* Alloc and AP are two names of one module.                               *)

LEMMA SameNames ==
  /\ AP!Block = Alloc!Block /\ AP!Entry = Alloc!Entry /\ AP!Page = Alloc!Page
  /\ AP!NoBlock = Alloc!NoBlock /\ AP!NoMove = Alloc!NoMove
BY DEF AP!Block, Alloc!Block, AP!Entry, Alloc!Entry, AP!Page, Alloc!Page, AP!NoBlock,
       Alloc!NoBlock, AP!NoMove, Alloc!NoMove

LEMMA SamePages ==
  /\ \A l : /\ AP!FreePages(l) = Alloc!FreePages(l) /\ AP!UsedPages(l) = Alloc!UsedPages(l)
            /\ AP!DeletedPages(l) = Alloc!DeletedPages(l) /\ AP!FreeBlocks(l) = Alloc!FreeBlocks(l)
  /\ \A l, S : AP!Erased(l, S) = Alloc!Erased(l, S)
  /\ \A l, p, id : AP!Marked(l, p, id) = Alloc!Marked(l, p, id)
  /\ \A l, c, p : AP!FirstFree(l, c, p) = Alloc!FirstFree(l, c, p)
BY SameNames
   DEF AP!FreePages, AP!UsedPages, AP!DeletedPages, AP!FreeBlocks, AP!Erased, AP!Marked,
       AP!FirstFree, AP!VisitedBefore, AP!ScanStart, AP!SecondLap, AP!Below, AP!Cursor,
       Alloc!FreePages, Alloc!UsedPages, Alloc!DeletedPages, Alloc!FreeBlocks, Alloc!Erased,
       Alloc!Marked, Alloc!FirstFree, Alloc!VisitedBefore, Alloc!ScanStart, Alloc!SecondLap,
       Alloc!Below, Alloc!Cursor

LEMMA SameCardinality == \A S : AP!Cardinality(S) = Alloc!Cardinality(S)
BY DEF AP!Cardinality, Alloc!Cardinality

LEMMA SameVictims == \A m : AP!QuickVictims(m) = Alloc!QuickVictims(m)
<1>1. \A m, b : AP!QuickVictim(m, b) <=> Alloc!QuickVictim(m, b)
  BY SameNames, SameCardinality DEF AP!QuickVictim, Alloc!QuickVictim
<1>2. QED
  BY <1>1, SameNames DEF AP!QuickVictims, Alloc!QuickVictims

LEMMA SameCounts ==
  \A S : AP!DeletedIn(S) = Alloc!DeletedIn(S) /\ AP!AllocatedIn(S) = Alloc!AllocatedIn(S)
BY SamePages, SameCardinality
   DEF AP!DeletedIn, Alloc!DeletedIn, AP!AllocatedIn, Alloc!AllocatedIn

LEMMA SameFindFree ==
  /\ AP!QuickErased = Alloc!QuickErased /\ AP!QuickLu = Alloc!QuickLu
  /\ AP!QuickFreeBlocks = Alloc!QuickFreeBlocks /\ AP!QuickRuns = Alloc!QuickRuns
  /\ \A p : AP!FindFree(p) = Alloc!FindFree(p) /\ AP!PageDelete(p) = Alloc!PageDelete(p)
  /\ AP!Idle = Alloc!Idle
BY SameNames, SamePages, SameVictims, SameCounts
   DEF AP!QuickErased, AP!QuickLu, AP!QuickFreeBlocks, AP!QuickRuns, AP!FindFree, AP!Idle,
       AP!Cursor, AP!PageDelete, Alloc!QuickErased, Alloc!QuickLu, Alloc!QuickFreeBlocks,
       Alloc!QuickRuns, Alloc!FindFree, Alloc!Idle, Alloc!Cursor, Alloc!PageDelete

LEMMA SamePageSteps ==
  /\ \A id : AP!Allocate(id) = Alloc!Allocate(id)
  /\ AP!FindFreeFull = Alloc!FindFreeFull
  /\ \A p : AP!MoveCopy(p) = Alloc!MoveCopy(p) /\ AP!Delete(p) = Alloc!Delete(p)
  /\ AP!MoveMark = Alloc!MoveMark /\ AP!MoveDrop = Alloc!MoveDrop
BY SameNames, SamePages, SameVictims, SameCounts, SameFindFree
   DEF AP!Allocate, AP!FindFreeFull, AP!MoveCopy, AP!MoveMark, AP!MoveDrop, AP!Delete, AP!Moving,
       AP!Cursor, Alloc!Allocate, Alloc!FindFreeFull, Alloc!MoveCopy, Alloc!MoveMark,
       Alloc!MoveDrop, Alloc!Delete, Alloc!Moving, Alloc!Cursor

LEMMA SameBlockSteps ==
  /\ \A m : AP!GcQuick(m) = Alloc!GcQuick(m)
  /\ \A b : AP!GcStart(b) = Alloc!GcStart(b)
  /\ AP!GcErase = Alloc!GcErase /\ AP!GcFail = Alloc!GcFail
BY SameNames, SamePages, SameVictims, SameCounts, SameFindFree
   DEF AP!GcQuick, AP!GcStart, AP!GcErase, AP!GcFail, AP!EraseCleaned, AP!Cursor, AP!ram,
       Alloc!GcQuick, Alloc!GcStart, Alloc!GcErase, Alloc!GcFail, Alloc!EraseCleaned,
       Alloc!Cursor, Alloc!ram

LEMMA SameMount == AP!Mount <=> Alloc!Mount
BY SameNames, SamePages, SameCardinality DEF AP!Mount, AP!Cursor, Alloc!Mount, Alloc!Cursor

LEMMA SamePowerLoss == AP!PowerLoss <=> Alloc!PowerLoss
BY SameNames
   DEF AP!PowerLoss, AP!RamLost, AP!Cursor, Alloc!PowerLoss, Alloc!RamLost, Alloc!Cursor

LEMMA SameFormat == AP!Format = Alloc!Format
BY SameNames, SamePages DEF AP!Format, AP!ram, Alloc!Format, Alloc!ram

LEMMA SameNext == [AP!Next]_(AP!vars) <=> [Alloc!Next]_(Alloc!vars)
BY SameNames, SamePageSteps, SameBlockSteps, SameMount, SamePowerLoss, SameFormat
   DEF AP!Next, AP!vars, AP!ram, Alloc!Next, Alloc!vars, Alloc!ram

LEMMA SameInit == AP!Init <=> Alloc!Init
BY SameNames DEF AP!Init, AP!Cursor, Alloc!Init, Alloc!Cursor

LEMMA SameTypeOK == AP!TypeOK <=> Alloc!TypeOK
BY SameNames DEF AP!TypeOK, Alloc!TypeOK

LEMMA SameMoveInv == (AP!MoveInv <=> Alloc!MoveInv) /\ (AP!UnmountedInv <=> Alloc!UnmountedInv)
BY SameNames, SamePages
   DEF AP!MoveInv, Alloc!MoveInv, AP!UnmountedInv, Alloc!UnmountedInv, AP!Cursor, Alloc!Cursor

LEMMA SameOrder == AP!Order <=> Alloc!Order
BY SameNames, SamePages
   DEF AP!Avail, Alloc!Avail, AP!Reserved, Alloc!Reserved, AP!Suffix, Alloc!Suffix,
       AP!CursorOK, Alloc!CursorOK, AP!Order, Alloc!Order

-----------------------------------------------------------------------------
(* What is proved of PageAlloc, in the names Gc uses.                      *)

AllocOK == Alloc!TypeOK /\ Alloc!MoveInv /\ Alloc!UnmountedInv /\ Alloc!Order

LEMMA AllocAssumptions ==
  /\ B \in Nat /\ B >= 3 /\ E \in Nat /\ E >= 1
  /\ FREE # DELETED /\ FREE \notin LookupIds /\ DELETED \notin LookupIds
  /\ {0} \subseteq Nat /\ FreeCap \in Nat
BY AllocAssumption DEF LookupIds

LEMMA AllocInit == Alloc!Init => AllocOK
<1>1. AP!Init => AP!TypeOK /\ AP!MoveInv /\ AP!UnmountedInv /\ AP!CursorInv
  BY AllocAssumptions, AP!InitInvariant DEF AP!IInv
<1>2. AP!Init => ~wrapped
  BY DEF AP!Init
<1>3. QED
  BY <1>1, <1>2, SameInit, SameTypeOK, SameMoveInv, SameOrder DEF AllocOK, AP!CursorInv

LEMMA AllocStep ==
  ASSUME AllocOK, [Alloc!Next]_(Alloc!vars), Alloc!GcErase => free_cursor.bix # cleaning
  PROVE  AllocOK'
<1>1. AP!TypeOK /\ AP!MoveInv /\ AP!UnmountedInv /\ AP!Order /\ [AP!Next]_(AP!vars)
  BY SameTypeOK, SameMoveInv, SameOrder, SameNext DEF AllocOK
<1>2. AP!TypeOK'
  BY <1>1, AllocAssumptions, AP!TypeInductive
<1>3. AP!MoveInv' /\ AP!UnmountedInv'
  BY <1>1, AllocAssumptions, AP!MoveInvInductive
<1>4. AP!GcErase => free_cursor.bix # cleaning
  BY SameBlockSteps
<1>5. AP!Order'
  BY <1>1, <1>4, AllocAssumptions, AP!OrderInductive
<1>6. (AP!TypeOK <=> Alloc!TypeOK)'
  BY SameTypeOK, PTL
<1>7. (AP!MoveInv <=> Alloc!MoveInv)' /\ (AP!UnmountedInv <=> Alloc!UnmountedInv)'
  BY SameMoveInv, PTL
<1>8. (AP!Order <=> Alloc!Order)'
  BY SameOrder, PTL
<1>9. QED
  BY <1>2, <1>3, <1>5, <1>6, <1>7, <1>8 DEF AllocOK

-----------------------------------------------------------------------------
(* What the allocator's steps do to the lookup entry of a page.            *)

LUType == [Block -> [Entry -> LookupIds \cup {FREE, DELETED}]]

LEMMA Geometry ==
  /\ Block = 0 .. B - 1 /\ Entry = 0 .. E - 1 /\ Page = Block \X Entry
  /\ Alloc!Block = Block /\ Alloc!Entry = Entry /\ Alloc!Page = Page
BY DEF Block, Entry, Page, Alloc!Block, Alloc!Entry, Alloc!Page

LEMMA PageParts ==
  /\ \A p \in Page : p = <<p[1], p[2]>> /\ p[1] \in Block /\ p[2] \in Entry
  /\ \A b \in Block, e \in Entry : <<b, e>> \in Page
  /\ \A b, e, c, f : <<b, e>> = <<c, f>> <=> b = c /\ e = f
  /\ NoPage \notin Page
BY Geometry DEF NoPage

LEMMA MarkedEntry ==
  ASSUME NEW l \in LUType, NEW p \in Page, NEW q \in Page, NEW x
  PROVE  Alloc!Marked(l, p, x)[q[1]][q[2]] = IF q = p THEN x ELSE l[q[1]][q[2]]
<1>1. /\ p[1] \in Block /\ p[2] \in Entry /\ q[1] \in Block /\ q[2] \in Entry
      /\ q = p <=> q[1] = p[1] /\ q[2] = p[2]
  BY PageParts
<1>2. QED
  BY <1>1 DEF Alloc!Marked, LUType

LEMMA ErasedEntry ==
  ASSUME NEW l, NEW S, NEW q \in Page
  PROVE  Alloc!Erased(l, S)[q[1]][q[2]] = IF q[1] \in S THEN FREE ELSE l[q[1]][q[2]]
BY Geometry, PageParts DEF Alloc!Erased

LEMMA LookupType ==
  ASSUME AllocOK
  PROVE  lu \in LUType /\ \A p \in Page : Id(p) \in LookupIds \cup {FREE, DELETED}
<1>1. lu \in LUType
  BY Geometry DEF AllocOK, Alloc!TypeOK, LUType
<1>2. QED
  BY <1>1, PageParts DEF LUType, Id

(* A block spiffs_gc_quick(0) takes has deleted pages only.                *)
LEMMA VictimDeleted ==
  ASSUME AllocOK, NEW b \in Alloc!QuickVictims(0), NEW e \in Entry
  PROVE  b \in Block /\ lu[b][e] = DELETED
<1>1. b \in Block /\ lu[b][e] # FREE /\ lu[b][e] \notin LookupIds
  BY SameVictims, SameNames, Geometry, AllocAssumptions, AP!VictimNotFree
<1>2. QED
  BY <1>1, LookupType DEF LUType

(* What spiffs_gc_quick(0) changes, if spiffs_obj_lu_find_free runs it.    *)
Swapped(p) == Id(p)' = Id(p) \/ (Id(p) = DELETED /\ Id(p)' = FREE)

LEMMA QuickEntry ==
  ASSUME AllocOK, NEW q \in Page
  PROVE  LET x == Alloc!QuickLu[q[1]][q[2]]
         IN  x = Id(q) \/ (Id(q) = DELETED /\ x = FREE)
<1>1. q[1] \in Alloc!QuickErased => Id(q) = DELETED
  BY VictimDeleted, PageParts DEF Alloc!QuickErased, Id
<1>2. QED
  BY <1>1, ErasedEntry DEF Alloc!QuickLu, Id

LEMMA QuickLuType ==
  ASSUME AllocOK
  PROVE  Alloc!QuickLu \in LUType /\ (cleaning # Alloc!NoBlock => Alloc!QuickLu = lu)
BY LookupType, Geometry DEF Alloc!QuickLu, Alloc!QuickErased, Alloc!Erased, LUType

LEMMA StepAllocate ==
  ASSUME AllocOK, NEW id \in LookupIds, Alloc!Allocate(id)
  PROVE  \E p \in Page :
           /\ p = Allocated /\ Id(p) \notin LookupIds /\ Id(p)' = id
           /\ \A q \in Page \ {p} : Swapped(q)
           /\ moving = Alloc!NoMove /\ moving' = moving /\ mounted /\ mounted' = mounted
           /\ cleaning = Alloc!NoBlock /\ cleaning' = cleaning
<1>1. PICK p \in Page : Alloc!FindFree(p) /\ lu' = Alloc!Marked(Alloc!QuickLu, p, id)
  BY Geometry DEF Alloc!Allocate
<1>2. p = Allocated
  <2>1. free_cursor' = [bix |-> p[1], entry |-> p[2] + 1]
    BY <1>1 DEF Alloc!FindFree, Alloc!Cursor
  <2>2. p = <<p[1], p[2]>> /\ p[2] \in Int
    BY Geometry, PageParts
  <2>3. free_cursor'.bix = p[1] /\ free_cursor'.entry - 1 = p[2]
    BY <2>1, <2>2
  <2>4. QED
    BY <2>2, <2>3, Zenon DEF Allocated
<1>3. Alloc!QuickLu[p[1]][p[2]] = FREE
  BY <1>1, Geometry DEF Alloc!FindFree, Alloc!FirstFree, Alloc!FreePages
<1>4. Id(p) \notin LookupIds
  BY <1>3, QuickEntry, AllocAssumptions
<1>5. ASSUME NEW q \in Page PROVE IF q = p THEN Id(q)' = id ELSE Swapped(q)
  <2>1. Id(q)' = IF q = p THEN id ELSE Alloc!QuickLu[q[1]][q[2]]
    BY <1>1, QuickLuType, MarkedEntry DEF Id
  <2>2. QED
    BY <2>1, QuickEntry DEF Swapped
<1>6. QED
  BY <1>2, <1>4, <1>5 DEF Alloc!Allocate, Alloc!Idle

LEMMA StepCopy ==
  ASSUME AllocOK, NEW src, Alloc!MoveCopy(src)
  PROVE  \E p \in Page :
           /\ moving = Alloc!NoMove /\ moving' = [stage |-> "copied", src |-> src, dst |-> p]
           /\ mounted /\ mounted' = mounted /\ cleaning' = cleaning
           /\ free_cursor' = [bix |-> p[1], entry |-> p[2] + 1]
           /\ src \in Page /\ src # p /\ Id(src) \in LookupIds /\ Id(p) \notin LookupIds
           /\ \A q \in Page : Swapped(q)
           /\ cleaning # Alloc!NoBlock => lu' = lu /\ Id(p) = FREE
<1>1. PICK p \in Page : Alloc!FindFree(p) /\ moving' = Alloc!Moving("copied", src, p)
  BY Geometry DEF Alloc!MoveCopy
<1>2. free_cursor' = [bix |-> p[1], entry |-> p[2] + 1]
  BY <1>1 DEF Alloc!FindFree, Alloc!Cursor
<1>3. Alloc!QuickLu[p[1]][p[2]] = FREE
  BY <1>1, Geometry DEF Alloc!FindFree, Alloc!FirstFree, Alloc!FreePages
<1>4. Id(p) \notin LookupIds
  BY <1>3, QuickEntry, AllocAssumptions
<1>5. src \in Page /\ Id(src) \in LookupIds
  BY Geometry DEF Alloc!MoveCopy, Alloc!UsedPages, Id
<1>6. lu' = Alloc!QuickLu
  BY DEF Alloc!MoveCopy
<1>7. \A q \in Page : Swapped(q)
  BY <1>6, QuickEntry DEF Swapped, Id
<1>8. cleaning # Alloc!NoBlock => lu' = lu /\ Id(p) = FREE
  BY <1>3, <1>6, QuickLuType DEF Id
<1>9. QED
  BY <1>1, <1>2, <1>4, <1>5, <1>7, <1>8 DEF Alloc!MoveCopy, Alloc!Moving

LEMMA StepMark ==
  ASSUME AllocOK, Alloc!MoveMark
  PROVE  /\ moving.stage = "copied" /\ moving.src \in Page /\ moving.dst \in Page
         /\ moving' = [stage |-> "marked", src |-> moving.src, dst |-> moving.dst]
         /\ mounted' = mounted /\ cleaning' = cleaning /\ free_cursor' = free_cursor
         /\ \A q \in Page : Id(q)' = IF q = moving.dst THEN Id(moving.src) ELSE Id(q)
<1>1. moving.src \in Page /\ moving.dst \in Page
  BY Geometry DEF AllocOK, Alloc!TypeOK
<1>2. \A q \in Page : Id(q)' = IF q = moving.dst THEN Id(moving.src) ELSE Id(q)
  BY <1>1, LookupType, MarkedEntry DEF Alloc!MoveMark, Id
<1>3. QED
  BY <1>1, <1>2 DEF Alloc!MoveMark, Alloc!Moving

LEMMA StepPageDelete ==
  ASSUME AllocOK, NEW p \in Page, Alloc!PageDelete(p)
  PROVE  /\ mounted' = mounted /\ cleaning' = cleaning /\ free_cursor' = free_cursor
         /\ \A q \in Page : Id(q)' = IF q = p THEN DELETED ELSE Id(q)
<1>1. \A q \in Page : Id(q)' = IF q = p THEN DELETED ELSE Id(q)
  BY LookupType, MarkedEntry DEF Alloc!PageDelete, Id
<1>2. QED
  BY <1>1 DEF Alloc!PageDelete

LEMMA StepDelete ==
  ASSUME AllocOK, NEW p, Alloc!Delete(p)
  PROVE  /\ p \in Page /\ Id(p) \in LookupIds
         /\ moving = Alloc!NoMove /\ moving' = moving /\ mounted
         /\ mounted' = mounted /\ cleaning' = cleaning /\ free_cursor' = free_cursor
         /\ \A q \in Page : Id(q)' = IF q = p THEN DELETED ELSE Id(q)
<1>1. p \in Page /\ Id(p) \in LookupIds /\ Alloc!PageDelete(p)
  BY Geometry DEF Alloc!Delete, Alloc!UsedPages, Id
<1>2. QED
  BY <1>1, StepPageDelete DEF Alloc!Delete

LEMMA StepDrop ==
  ASSUME AllocOK, Alloc!MoveDrop
  PROVE  /\ moving.stage = "marked" /\ moving.src \in Page /\ moving.dst \in Page
         /\ moving' = Alloc!NoMove /\ mounted
         /\ mounted' = mounted /\ cleaning' = cleaning /\ free_cursor' = free_cursor
         /\ \A q \in Page : Id(q)' = IF q = moving.src THEN DELETED ELSE Id(q)
<1>1. moving.src \in Page /\ moving.dst \in Page
  BY Geometry DEF AllocOK, Alloc!TypeOK
<1>2. QED
  BY <1>1, StepPageDelete DEF Alloc!MoveDrop

LEMMA StepErase ==
  ASSUME Alloc!EraseCleaned
  PROVE  /\ moving = Alloc!NoMove /\ moving' = moving /\ mounted /\ mounted' = mounted
         /\ cleaning # Alloc!NoBlock /\ cleaning' = Alloc!NoBlock /\ free_cursor' = free_cursor
         /\ \A q \in Page : Id(q)' = IF q[1] = cleaning THEN FREE ELSE Id(q)
BY ErasedEntry DEF Alloc!EraseCleaned, Id

LEMMA StepQuick ==
  ASSUME AllocOK, Alloc!GcQuick(0)
  PROVE  /\ moving = Alloc!NoMove /\ moving' = moving /\ mounted /\ mounted' = mounted
         /\ cleaning = Alloc!NoBlock /\ cleaning' = cleaning /\ free_cursor' = free_cursor
         /\ \A q \in Page : Swapped(q)
<1>1. PICK b \in Alloc!QuickVictims(0) : lu' = Alloc!Erased(lu, {b})
  BY DEF Alloc!GcQuick
<1>2. ASSUME NEW q \in Page PROVE Swapped(q)
  <2>1. Id(q)' = IF q[1] = b THEN FREE ELSE Id(q)
    BY <1>1, ErasedEntry DEF Id
  <2>2. q[1] = b => Id(q) = DELETED
    BY PageParts, VictimDeleted DEF Id
  <2>3. QED
    BY <2>1, <2>2 DEF Swapped
<1>3. QED
  BY <1>2 DEF Alloc!GcQuick, Alloc!Idle

-----------------------------------------------------------------------------
(* The types of what Gc adds to PageAlloc.                                 *)

Refs == [0 .. PerIx - 1 -> Page \cup {NoPage}]
PageData == [span : Span, refs : Refs, removed : BOOLEAN]

GcLocals ==
  [run : {"off", "find", "data", "ix", "again"}, cur : 0 .. E, stored : 0 .. E,
   obj : Objs \cup {0}, spix : Span, objix : Page \cup {NoPage}, work : Refs,
   need : Nat, tries : Nat, prev : Int]

(* UserGc is about no file, and fills in one of them.                      *)
Callees == Objs \cup {0, CHOOSE o \in Objs : TRUE}

CallLocals ==
  [op : {"none", "gc", "create", "append", "modify", "remove"}, obj : Callees,
   span : Span \cup {-1}, pix : Page \cup {NoPage},
   step : {"", "check", "body", "data", "index", "size", "last", "drop"}]

Types ==
  /\ page \in [Page -> PageData]
  /\ age \in [Block -> Nat]
  /\ gc \in GcLocals /\ call \in CallLocals
  /\ files \in [Objs -> 0 .. Spans \cup {NoFile}]
  /\ calls \in 0 .. CallCap /\ cut \in {"none", "clean", "dirty"}

LEMMA DivMod ==
  ASSUME NEW s \in Nat
  PROVE  /\ s \div PerIx \in Nat /\ s \div PerIx <= s /\ s % PerIx \in 0 .. PerIx - 1
         /\ s < PerIx => s \div PerIx = 0 /\ s % PerIx = s
BY GcAssumption

LEMMA SpanType ==
  /\ 0 \in Span /\ Span \subseteq Nat
  /\ \A s \in Span : s \div PerIx \in Span /\ s % PerIx \in 0 .. PerIx - 1
<1>1. ASSUME NEW s \in Span PROVE s \div PerIx \in Span /\ s % PerIx \in 0 .. PerIx - 1
  <2>1. s \in Nat /\ s < Spans
    BY GcAssumption DEF Span
  <2>2. s \div PerIx \in Nat /\ s \div PerIx <= s /\ s % PerIx \in 0 .. PerIx - 1
    BY <2>1, DivMod
  <2>3. QED
    BY <2>1, <2>2, GcAssumption DEF Span
<1>2. QED
  BY <1>1, GcAssumption DEF Span

LEMMA ContentType ==
  /\ NoRefs \in Refs /\ Blank \in PageData
  /\ \A s \in Span, r \in Refs : Content(s, r) \in PageData
BY SpanType DEF NoRefs, Refs, Blank, Content, PageData

LEMMA PageType ==
  ASSUME Types, NEW p \in Page
  PROVE  page[p] \in PageData /\ page[p].span \in Span /\ page[p].refs \in Refs
         /\ page[p].removed \in BOOLEAN
BY DEF Types, PageData

LEMMA NoGcType == NoGc \in GcLocals /\ NoCall \in CallLocals
BY SpanType, ContentType, GcAssumption, AllocAssumption DEF NoGc, NoCall, GcLocals, CallLocals, Callees

LEMMA AgedType == ASSUME Types, NEW S, Aged(S) PROVE age' \in [Block -> Nat]
BY DEF Aged, Types

(* How the collector, the moves and the calls depend on each other.        *)
Collecting == gc.run \in {"find", "data", "ix"}

Linked ==
  /\ Collecting <=> cleaning # Alloc!NoBlock
  /\ gc.run # "off" => call.step = "check"
  /\ moving # Alloc!NoMove => Collecting \/ (gc.run = "off" /\ call.step = "last")
  /\ ~mounted => call = NoCall /\ gc.run = "off"
  /\ call.op = "none" => call = NoCall

LEMMA CleaningType ==
  ASSUME AllocOK, Linked, Collecting
  PROVE  cleaning \in Block /\ \A e \in Entry : <<cleaning, e>> \in Page
BY Geometry, PageParts DEF AllocOK, Alloc!TypeOK, Linked

(* The calls: how far each can be, and of which pages of its file.         *)
CallOK ==
  /\ call.op = "gc" => call.step = "check"
  /\ call.op \in {"create", "append", "modify", "remove"} => call.obj \in Objs /\ cut = "none"
  /\ call.op = "create" => call.step \in {"check", "body"} /\ files[call.obj] = NoFile
  /\ call.op = "append" =>
       /\ call.span \in Span /\ files[call.obj] = call.span
       /\ call.step \in {"check", "body", "data", "index", "size", "last"}
       /\ call.step = "data" => NewIndex
       /\ call.step = "size" => call.span > 0
  /\ call.op = "modify" =>
       /\ call.span \in Span /\ call.span < files[call.obj]
       /\ call.step \in {"check", "body", "drop", "index", "last"}
  /\ call.op = "remove" =>
       /\ call.span \in Span \cup {-1} /\ files[call.obj] = NoFile
       /\ call.step \in {"body", "index"} /\ call.pix \in Page
       /\ call.step = "index" => call.span >= 0 /\ call.span % PerIx = 0

-----------------------------------------------------------------------------
(* Every step keeps the types.                                             *)

LEMMA MoveType ==
  ASSUME AllocOK, Types, NEW src, NEW d \in PageData, Move(src, d)
  PROVE  /\ page' \in [Page -> PageData] /\ age' \in [Block -> Nat] /\ moving'.dst \in Page
<1>1. \E p \in Page : moving'.dst = p
  BY StepCopy DEF Move
<1>2. QED
  BY <1>1, AgedType DEF Move, Types

LEMMA FillType ==
  ASSUME AllocOK, Types, NEW id \in LookupIds, NEW d \in PageData, AllocatePage(id, d)
  PROVE  page' \in [Page -> PageData] /\ age' \in [Block -> Nat] /\ Allocated \in Page
<1>1. Allocated \in Page
  BY StepAllocate DEF AllocatePage
<1>2. QED
  BY <1>1, AgedType DEF AllocatePage, Allocated, Types

LEMMA FreePageCountType == \A a, d \in Int : FreePageCount(a, d) \in Int
BY AllocAssumption DEF FreePageCount

LEMMA EntryOfBlock ==
  ASSUME AllocOK, Linked, Collecting, NEW S \in SUBSET Entry, NEW e \in NextEntry(S)
  PROVE  /\ e \in S /\ e \in Entry /\ e >= gc.cur /\ e + 1 \in 0 .. E
         /\ <<cleaning, e>> \in Page /\ Id(<<cleaning, e>>) = lu[cleaning][e]
BY CleaningType, Geometry, AllocAssumption DEF NextEntry, Id

LEMMA FindDataTypes ==
  ASSUME AllocOK, Types, Linked, GcFindData
  PROVE  Types'
<1> USE SpanType, ContentType DEF Types
<1>1. gc.run = "find" /\ Collecting
  BY DEF GcFindData, Collecting
<1>2. PICK e \in NextEntry(DataEntries) :
        LET p == <<cleaning, e>>
            obj == Id(p)[1]
            spix == page[p].span \div PerIx
        IN  \/ \E ix \in Page :
                 /\ Found(obj, "ix", spix, ix)
                 /\ gc' = [gc EXCEPT !.run = "data", !.cur = 0, !.stored = e + 1, !.obj = obj,
                                     !.spix = spix, !.objix = ix, !.work = page[ix].refs]
                 /\ UNCHANGED <<allocVars, page>>
            \/ /\ ~\E ix \in Page : Found(obj, "ix", spix, ix)
               /\ Alloc!Delete(p)
               /\ page' = [page EXCEPT ![p] = Blank]
               /\ gc' = [gc EXCEPT !.cur = e + 1]
  BY DEF GcFindData
<1>3. e \in DataEntries /\ e + 1 \in 0 .. E /\ <<cleaning, e>> \in Page
      /\ Id(<<cleaning, e>>) = lu[cleaning][e]
  BY <1>1, EntryOfBlock DEF DataEntries
<1>4. Id(<<cleaning, e>>)[1] \in Objs
  BY <1>3 DEF DataEntries
<1>5. page[<<cleaning, e>>].span \div PerIx \in Span
  BY <1>3, PageType
<1>6. gc' \in GcLocals
  <2>1. ASSUME NEW ix \in Page,
               gc' = [gc EXCEPT !.run = "data", !.cur = 0, !.stored = e + 1,
                                !.obj = Id(<<cleaning, e>>)[1],
                                !.spix = page[<<cleaning, e>>].span \div PerIx, !.objix = ix,
                                !.work = page[ix].refs]
        PROVE  gc' \in GcLocals
    <3>1. page[ix].refs \in Refs
      BY PageType
    <3>2. 0 \in 0 .. E
      BY Geometry, AllocAssumption
    <3>3. QED
      BY <2>1, <3>1, <3>2, <1>3, <1>4, <1>5 DEF GcLocals
  <2>2. CASE gc' = [gc EXCEPT !.cur = e + 1]
    BY <2>2, <1>3 DEF GcLocals
  <2>3. QED
    BY <1>2, <2>1, <2>2
<1>7. page' \in [Page -> PageData]
  BY <1>2, <1>3
<1>8. UNCHANGED <<age, call, files, calls, cut>>
  BY DEF GcFindData
<1>9. QED
  BY <1>6, <1>7, <1>8

LEMMA CollectorTypes ==
  ASSUME AllocOK, AllocOK', Types, Linked, CollectorStep
  PROVE  Types'
<1> USE SpanType, ContentType DEF Types
<1>1. CASE GcFindData
  BY <1>1, FindDataTypes
<1>2. CASE GcNoMoreData
  <2>1. gc' = [gc EXCEPT !.run = "ix", !.cur = 0] /\ 0 \in 0 .. E
    BY <1>2, GcAssumption, AllocAssumption DEF GcNoMoreData
  <2>2. gc' \in GcLocals
    BY <2>1 DEF GcLocals
  <2>3. QED
    BY <1>2, <2>2 DEF GcNoMoreData
<1>3. CASE GcMoveData
  <2>1. PICK e \in NextEntry(SameIndex) :
          /\ Move(<<cleaning, e>>, page[<<cleaning, e>>])
          /\ gc' = [gc EXCEPT !.cur = e + 1,
                              !.work[page[<<cleaning, e>>].span % PerIx] = moving'.dst]
    BY <1>3 DEF GcMoveData
  <2>2. e + 1 \in 0 .. E /\ <<cleaning, e>> \in Page
    BY <1>3, EntryOfBlock DEF SameIndex, GcMoveData, Collecting
  <2>3. /\ page' \in [Page -> PageData] /\ age' \in [Block -> Nat] /\ moving'.dst \in Page
    BY <2>1, <2>2, PageType, MoveType
  <2>4. [gc.work EXCEPT ![page[<<cleaning, e>>].span % PerIx] = moving'.dst] \in Refs
    BY <2>2, <2>3, PageType DEF Refs, GcLocals
  <2>5. gc' \in GcLocals
    <3> DEFINE work == [gc.work EXCEPT ![page[<<cleaning, e>>].span % PerIx] = moving'.dst]
    <3>1. gc' = [gc EXCEPT !.cur = e + 1, !.work = work]
      BY <2>1
    <3>2. work \in Refs
      BY <2>4
    <3> HIDE DEF work
    <3>3. QED
      BY <2>2, <3>1, <3>2 DEF GcLocals
  <2>6. QED
    BY <1>3, <2>3, <2>5 DEF GcMoveData
<1>4. CASE GcStoreIndex
  <2>1. Content(gc.spix, gc.work) \in PageData
    BY DEF GcLocals
  <2>2. /\ page' \in [Page -> PageData] /\ age' \in [Block -> Nat]
    BY <1>4, <2>1, MoveType DEF GcStoreIndex
  <2>3. gc' \in GcLocals
    BY <1>4 DEF GcStoreIndex, GcLocals
  <2>4. QED
    BY <1>4, <2>2, <2>3 DEF GcStoreIndex
<1>5. CASE GcMoveIndex
  <2>1. PICK e \in NextEntry(IndexEntries) :
          /\ Move(<<cleaning, e>>, page[<<cleaning, e>>])
          /\ gc' = [gc EXCEPT !.cur = e + 1]
    BY <1>5 DEF GcMoveIndex
  <2>2. e + 1 \in 0 .. E /\ <<cleaning, e>> \in Page
    BY <1>5, EntryOfBlock DEF IndexEntries, GcMoveIndex, Collecting
  <2>3. /\ page' \in [Page -> PageData] /\ age' \in [Block -> Nat]
    BY <2>1, <2>2, PageType, MoveType
  <2>4. gc' \in GcLocals
    BY <2>1, <2>2 DEF GcLocals
  <2>5. QED
    BY <1>5, <2>3, <2>4 DEF GcMoveIndex
<1>6. CASE GcEraseBlock
  <2>1. page' \in [Page -> PageData]
    BY <1>6 DEF GcEraseBlock
  <2>2. age' \in [Block -> Nat]
    BY <1>6, AgedType DEF GcEraseBlock
  <2>3. \/ gc' = NoGc
        \/ gc' = [gc EXCEPT !.run = "again", !.cur = 0, !.stored = 0, !.obj = 0, !.spix = 0,
                            !.objix = NoPage, !.work = NoRefs, !.tries = @ + 1]
    BY <1>6 DEF GcEraseBlock
  <2>4. gc' \in GcLocals
    <3> DEFINE t == gc.tries + 1
    <3>1. 0 \in 0 .. E /\ t \in Nat /\ gc \in GcLocals
      BY GcAssumption, AllocAssumption DEF GcLocals
    <3> HIDE DEF t
    <3>2. [gc EXCEPT !.run = "again", !.cur = 0, !.stored = 0, !.obj = 0, !.spix = 0,
                     !.objix = NoPage, !.work = NoRefs, !.tries = t] \in GcLocals
      BY <3>1 DEF GcLocals
    <3>3. QED
      BY <2>3, <3>2, NoGcType DEF t
  <2>5. call' \in {call, NoCall, Proceed}
    BY <1>6 DEF GcEraseBlock
  <2>6. call' \in CallLocals
    BY <2>5, NoGcType DEF Proceed, CallLocals
  <2>7. QED
    BY <1>6, <2>1, <2>2, <2>4, <2>6 DEF GcEraseBlock
<1>7. QED
  BY <1>1, <1>2, <1>3, <1>4, <1>5, <1>6 DEF CollectorStep

(* What a call in progress works on.                                       *)
LEMMA CallType ==
  ASSUME Types, CallOK
  PROVE  /\ call.obj \in Callees /\ call.pix \in Page \cup {NoPage}
         /\ call.op \in {"create", "append", "modify", "remove"} =>
              /\ call.obj \in Objs /\ <<call.obj, "ix">> \in LookupIds
              /\ <<call.obj, "da">> \in LookupIds
         /\ call.op \in {"append", "modify"} =>
              /\ call.span \in Span /\ call.span \div PerIx \in Span
              /\ call.span % PerIx \in 0 .. PerIx - 1
BY SpanType DEF Types, CallLocals, CallOK, LookupIds

LEMMA FoundType ==
  ASSUME Types, NEW ix, NEW o, NEW k, NEW s, Found(o, k, s, ix)
  PROVE  /\ ix \in Page /\ Id(ix) = <<o, k>> /\ page[ix].span = s /\ ~page[ix].removed
         /\ page[ix] \in PageData /\ page[ix].refs \in Refs
BY PageType DEF Found, Live

LEMMA BodyTypes ==
  ASSUME AllocOK, AllocOK', Types, Linked, CallOK, BodyStep
  PROVE  Types'
<1> USE SpanType, ContentType DEF Types
<1>r. \A r \in Refs, i \in 0 .. PerIx - 1, p \in Page \cup {NoPage} : [r EXCEPT ![i] = p] \in Refs
  BY DEF Refs
<1>p. \A p, d : d \in PageData => [page EXCEPT ![p] = d] \in [Page -> PageData]
  OBVIOUS
<1>c. \A step \in {"body", "data", "index", "size", "last", "drop"}, p \in Page \cup {NoPage} :
        /\ [call EXCEPT !.step = step] \in CallLocals
        /\ [call EXCEPT !.step = step, !.pix = p] \in CallLocals
  BY DEF CallLocals
<1>1. CASE CreateBody
  <2>1. <<call.obj, "ix">> \in LookupIds /\ call.obj \in Objs
    BY <1>1, CallType DEF CreateBody, Body
  <2>2. page' \in [Page -> PageData] /\ age' \in [Block -> Nat]
    BY <1>1, <2>1, FillType DEF CreateBody
  <2>3. files' \in [Objs -> 0 .. Spans \cup {NoFile}]
    <3>1. files' = [files EXCEPT ![call.obj] = 0] /\ 0 \in 0 .. Spans
      BY <1>1, GcAssumption DEF CreateBody
    <3>2. QED
      BY <3>1
  <2>4. QED
    BY <1>1, <2>2, <2>3, NoGcType DEF CreateBody
<1>2. CASE AppendIndex
  <2>1. <<call.obj, "ix">> \in LookupIds /\ call.span \div PerIx \in Span
    BY <1>2, CallType DEF AppendIndex, Body
  <2>2. Content(call.span \div PerIx, NoRefs) \in PageData
    BY <2>1
  <2>3. page' \in [Page -> PageData] /\ age' \in [Block -> Nat]
    BY <1>2, <2>1, <2>2, FillType DEF AppendIndex
  <2>4. call' \in CallLocals
    BY <1>2, <1>c DEF AppendIndex
  <2>5. QED
    BY <1>2, <2>3, <2>4 DEF AppendIndex
<1>3. CASE AppendData
  <2>1. <<call.obj, "da">> \in LookupIds /\ call.span \in Span
    BY <1>3, CallType DEF AppendData, Body
  <2>2. Content(call.span, NoRefs) \in PageData
    BY <2>1
  <2>3. page' \in [Page -> PageData] /\ age' \in [Block -> Nat] /\ Allocated \in Page
    BY <1>3, <2>1, <2>2, FillType DEF AppendData
  <2>4. call' \in CallLocals
    BY <1>3, <1>c, <2>3 DEF AppendData
  <2>5. QED
    BY <1>3, <2>3, <2>4 DEF AppendData
<1>4. CASE AppendInPlace
  <2>1. call.op = "append" /\ call.span % PerIx \in 0 .. PerIx - 1 /\ call.obj \in Objs
    BY <1>4, CallType DEF AppendInPlace, Body
  <2>2. PICK ix \in Page :
          /\ Found(call.obj, "ix", call.span \div PerIx, ix)
          /\ page' = [page EXCEPT ![ix].refs[call.span % PerIx] = call.pix]
    BY <1>4 DEF AppendInPlace
  <2>3. page' \in [Page -> PageData]
    <3> DEFINE r == [page[ix].refs EXCEPT ![call.span % PerIx] = call.pix]
               d == [page[ix] EXCEPT !.refs = r]
    <3>1. r \in Refs
      BY <1>r, <2>1, PageType, CallType
    <3>2. d \in PageData
      <4> HIDE DEF r
      <4>1. QED
        BY <3>1, PageType DEF PageData
    <3>3. page' = [page EXCEPT ![ix] = d]
      BY <2>2
    <3>4. QED
      BY <1>p, <3>2, <3>3
  <2>4. call' \in CallLocals
    BY <1>4, <1>c, NoGcType DEF AppendInPlace
  <2>5. files' \in [Objs -> 0 .. Spans \cup {NoFile}]
    BY <1>4, GcAssumption DEF AppendInPlace
  <2>6. QED
    BY <1>4, <2>3, <2>4, <2>5 DEF AppendInPlace
<1>5. CASE AppendHeader
  <2>1. call.op = "append" /\ call.span \in Span /\ call.pix \in Page \cup {NoPage}
    BY <1>5, CallType DEF AppendHeader, Body
  <2>2. PICK ix \in Page :
          Move(ix, IF call.step = "size" THEN page[ix]
                   ELSE Content(0, [page[ix].refs EXCEPT ![call.span] = call.pix]))
    BY <1>5 DEF AppendHeader
  <2>3. \/ Move(ix, page[ix])
        \/ /\ call.span \in 1 .. PerIx - 1
           /\ Move(ix, Content(0, [page[ix].refs EXCEPT ![call.span] = call.pix]))
    BY <1>5, <2>2 DEF AppendHeader, Body
  <2>4. page' \in [Page -> PageData] /\ age' \in [Block -> Nat]
    <3>1. CASE Move(ix, page[ix])
      BY <3>1, PageType, MoveType
    <3>2. CASE /\ call.span \in 1 .. PerIx - 1
               /\ Move(ix, Content(0, [page[ix].refs EXCEPT ![call.span] = call.pix]))
      <4>1. call.span \in 0 .. PerIx - 1
        BY <3>2
      <4>2. [page[ix].refs EXCEPT ![call.span] = call.pix] \in Refs
        BY <1>r, <2>1, <4>1, PageType
      <4>3. Content(0, [page[ix].refs EXCEPT ![call.span] = call.pix]) \in PageData
        BY <4>2
      <4>4. QED
        BY <3>2, <4>3, MoveType
    <3>3. QED
      BY <2>3, <3>1, <3>2
  <2>5. call' \in CallLocals
    BY <1>5, <1>c DEF AppendHeader
  <2>6. QED
    BY <1>5, <2>4, <2>5 DEF AppendHeader
<1>6. CASE ModifyData
  <2>1. <<call.obj, "da">> \in LookupIds /\ call.span \in Span
    BY <1>6, CallType DEF ModifyData, Body
  <2>2. Content(call.span, NoRefs) \in PageData
    BY <2>1
  <2>3. page' \in [Page -> PageData] /\ age' \in [Block -> Nat] /\ Allocated \in Page
    BY <1>6, <2>1, <2>2, FillType DEF ModifyData
  <2>4. call' \in CallLocals
    BY <1>6, <1>c, <2>3 DEF ModifyData
  <2>5. QED
    BY <1>6, <2>3, <2>4 DEF ModifyData
<1>7. CASE ModifyDrop
  <2>1. page' \in [Page -> PageData]
    BY <1>7, <1>p DEF ModifyDrop
  <2>2. call' \in CallLocals
    BY <1>7, <1>c DEF ModifyDrop
  <2>3. QED
    BY <1>7, <2>1, <2>2 DEF ModifyDrop
<1>8. CASE ModifyIndex
  <2>1. call.op = "modify" /\ call.span % PerIx \in 0 .. PerIx - 1
    BY <1>8, CallType DEF ModifyIndex, Body
  <2>2. PICK ix \in Page :
          Move(ix, Content(page[ix].span,
                           [page[ix].refs EXCEPT ![call.span % PerIx] = call.pix]))
    BY <1>8 DEF ModifyIndex
  <2>3. [page[ix].refs EXCEPT ![call.span % PerIx] = call.pix] \in Refs
    BY <1>r, <2>1, PageType, CallType
  <2>4. Content(page[ix].span, [page[ix].refs EXCEPT ![call.span % PerIx] = call.pix]) \in PageData
    BY <2>3, PageType
  <2>5. page' \in [Page -> PageData] /\ age' \in [Block -> Nat]
    BY <2>2, <2>4, MoveType
  <2>6. call' \in CallLocals
    BY <1>8, <1>c DEF ModifyIndex
  <2>7. QED
    BY <1>8, <2>5, <2>6 DEF ModifyIndex
<1>9. CASE RemoveData
  <2>1. page' \in [Page -> PageData]
    BY <1>9, <1>p DEF RemoveData
  <2>2. call' \in CallLocals
    <3>1. call.op = "remove" /\ call.span \in Span \cup {-1} /\ call.span >= 0
      BY <1>9 DEF RemoveData, Body, CallOK
    <3>2. call.span - 1 \in Span \cup {-1}
      BY <3>1, GcAssumption DEF Span
    <3>3. [call EXCEPT !.span = call.span - 1] \in CallLocals
      BY <3>2 DEF CallLocals
    <3>4. QED
      BY <1>9, <1>c, <3>3 DEF RemoveData
  <2>3. QED
    BY <1>9, <2>1, <2>2 DEF RemoveData
<1>10. CASE RemoveIndex
  <2>1. page' \in [Page -> PageData]
    BY <1>10, <1>p DEF RemoveIndex
  <2>2. call' \in CallLocals
    <3>1. call.op = "remove" /\ call.span \in Span \cup {-1}
      BY <1>10 DEF RemoveIndex, Body, CallOK
    <3>2. call.span > 0 => call.span - 1 \in Span \cup {-1}
      BY <3>1, GcAssumption DEF Span
    <3>3. call' = NoCall \/ (call.span > 0 /\ call' = [call EXCEPT !.step = "body", !.span = @ - 1])
      BY <1>10, <3>1 DEF RemoveIndex, Span
    <3>4. CASE call.span > 0 /\ call' = [call EXCEPT !.step = "body", !.span = call.span - 1]
      BY <3>2, <3>4 DEF CallLocals
    <3>5. QED
      BY <3>3, <3>4, NoGcType
  <2>3. QED
    BY <1>10, <2>1, <2>2 DEF RemoveIndex
<1>11. QED
  BY <1>1, <1>2, <1>3, <1>4, <1>5, <1>6, <1>7, <1>8, <1>9, <1>10 DEF BodyStep

LEMMA BeginTypes ==
  ASSUME Types, NEW op \in {"gc", "create", "append", "modify"}, NEW o \in Callees,
         NEW s \in Span, NEW n \in Nat, Begin(op, o, s, n)
  PROVE  Types'
<1>1. call' \in CallLocals
  BY DEF Begin, CallLocals
<1>2. gc' \in GcLocals
  BY NoGcType DEF Begin, GcLocals
<1>3. calls' \in 0 .. CallCap
  BY GcAssumption DEF Begin, Counted, Types
<1>4. QED
  BY <1>1, <1>2, <1>3 DEF Begin, Types

LEMMA CallTypes ==
  ASSUME Types,
         \/ \E o \in Objs : Create(o) \/ Append(o) \/ Remove(o) \/ \E s \in Span : Modify(o, s)
         \/ \E n \in GcSizes : UserGc(n)
  PROVE  Types'
<1>1. ASSUME NEW o \in Objs, Create(o) PROVE Types'
  BY <1>1, SpanType, BeginTypes DEF Create, Callees
<1>2. ASSUME NEW o \in Objs, Append(o) PROVE Types'
  BY <1>2, BeginTypes DEF Append, Callees, Span
<1>3. ASSUME NEW o \in Objs, NEW s \in Span, Modify(o, s) PROVE Types'
  BY <1>3, BeginTypes DEF Modify, Callees
<1>4. ASSUME NEW n \in GcSizes, UserGc(n) PROVE Types'
  BY <1>4, SpanType, BeginTypes, GcAssumption DEF UserGc, Callees
<1>5. ASSUME NEW o \in Objs, Remove(o) PROVE Types'
  <2>1. PICK hdr \in Page :
          /\ page' = [page EXCEPT ![hdr].removed = TRUE]
          /\ call' = [op |-> "remove", obj |-> o, span |-> files[o] - 1, step |-> "body", pix |-> hdr]
    BY <1>5 DEF Remove
  <2>2. page' \in [Page -> PageData]
    <3>1. [page[hdr] EXCEPT !.removed = TRUE] \in PageData
      BY PageType DEF PageData
    <3>2. page' = [page EXCEPT ![hdr] = [page[hdr] EXCEPT !.removed = TRUE]]
      BY <2>1
    <3>3. QED
      BY <3>1, <3>2 DEF Types
  <2>3. call' \in CallLocals
    <3>1. files[o] - 1 \in Span \cup {-1}
      BY <1>5, GcAssumption DEF Remove, Types, Span
    <3>2. QED
      BY <2>1, <3>1 DEF CallLocals, Callees
  <2>4. files' \in [Objs -> 0 .. Spans \cup {NoFile}]
    BY <1>5 DEF Remove, Types
  <2>5. calls' \in 0 .. CallCap
    BY <1>5, GcAssumption DEF Remove, Counted, Types
  <2>6. QED
    BY <1>5, <2>2, <2>3, <2>4, <2>5 DEF Remove, Types
<1>6. QED
  BY <1>1, <1>2, <1>3, <1>4, <1>5

LEMMA TypesInductive ==
  ASSUME AllocOK, AllocOK', Types, Linked, CallOK, [Next]_vars
  PROVE  Types'
<1>1. CASE GcCheckEnough \/ GcCheckFull
  <2>1. call' \in CallLocals /\ gc' = NoGc
    BY <1>1, NoGcType DEF GcCheckEnough, GcCheckFull, Proceed, Types, CallLocals
  <2>2. QED
    BY <1>1, <2>1, NoGcType DEF GcCheckEnough, GcCheckFull, Types
<1>2. CASE GcCheckRun
  <2>1. free_pages \in Int /\ 0 \in 0 .. E
    BY FreePageCountType, AllocAssumption DEF AllocOK, Alloc!TypeOK, free_pages
  <2>2. gc' \in GcLocals
    <3>1. gc' = [gc EXCEPT !.run = "find", !.cur = 0, !.prev = free_pages]
      BY <1>2 DEF GcCheckRun
    <3>2. QED
      BY <2>1, <3>1 DEF Types, GcLocals
  <2>3. QED
    BY <1>2, <2>2 DEF GcCheckRun, Types
<1>3. CASE CollectorStep
  BY <1>3, CollectorTypes
<1>4. CASE BodyStep
  BY <1>4, BodyTypes
<1>5. CASE MoveMark
  BY <1>5 DEF MoveMark, Types
<1>6. CASE MoveDrop
  <2>1. page' \in [Page -> PageData]
    BY <1>6, ContentType DEF MoveDrop, Types
  <2>2. /\ call' \in CallLocals
        /\ files' \in [Objs -> 0 .. Spans \cup {NoFile}]
    <3>1. CASE ~(call.step = "last" /\ gc.run = "off" /\ call.op = "append")
      BY <1>6, <3>1, NoGcType DEF MoveDrop, Types
    <3>2. CASE call.step = "last" /\ gc.run = "off" /\ call.op = "append"
      <4>1. files[call.obj] + 1 \in 0 .. Spans
        BY <3>2, GcAssumption DEF CallOK, Span
      <4>2. files' = [files EXCEPT ![call.obj] = files[call.obj] + 1] /\ call' = NoCall
        BY <1>6, <3>2 DEF MoveDrop
      <4>3. QED
        BY <4>1, <4>2, NoGcType DEF Types
    <3>3. QED
      BY <3>1, <3>2
  <2>3. QED
    BY <1>6, <2>1, <2>2 DEF MoveDrop, Types
<1>7. CASE \/ \E o \in Objs : Create(o) \/ Append(o) \/ Remove(o) \/ \E s \in Span : Modify(o, s)
           \/ \E n \in GcSizes : UserGc(n)
  BY <1>7, CallTypes
<1>8. CASE GcQuick
  <2>1. age' \in [Block -> Nat] /\ calls' \in 0 .. CallCap
    BY <1>8, AgedType, GcAssumption DEF GcQuick, Counted, Types
  <2>2. QED
    BY <1>8, <2>1 DEF GcQuick, Types
<1>9. CASE Mount
  BY <1>9 DEF Mount, Types
<1>10. CASE PowerLoss
  BY <1>10, NoGcType DEF PowerLoss, Types
<1>11. CASE UNCHANGED vars
  BY <1>11 DEF vars, Types
<1>12. QED
  BY <1>1, <1>2, <1>3, <1>4, <1>5, <1>6, <1>7, <1>8, <1>9, <1>10, <1>11 DEF Next

LEMMA InitTypes == Init => Types
<1> SUFFICES ASSUME Init PROVE Types
  OBVIOUS
<1>1. /\ page \in [Page -> PageData] /\ age \in [Block -> Nat]
      /\ files \in [Objs -> 0 .. Spans \cup {NoFile}]
  BY ContentType DEF Init
<1>2. QED
  BY <1>1, NoGcType, GcAssumption DEF Init, Types

-----------------------------------------------------------------------------
(* Every step keeps the order of the calls, the collections and the moves. *)

LEMMA CallEnds == ASSUME call' = NoCall PROVE CallOK'
<1>1. call'.op = "none"
  BY DEF NoCall
<1>2. QED
  BY <1>1 DEF CallOK

LEMMA CallGoesOn ==
  ASSUME CallOK, call' \in {NoCall, Proceed}, call.step = "check", UNCHANGED <<files, cut>>
  PROVE  CallOK'
<1>1. CASE call' = NoCall
  BY <1>1, CallEnds
<1>2. CASE call.op # "gc" /\ call' = [call EXCEPT !.step = "body"]
  BY <1>2 DEF CallOK, NewIndex
<1>3. QED
  BY <1>1, <1>2 DEF Proceed

LEMMA BodyCall ==
  ASSUME AllocOK, Types, CallOK, BodyStep
  PROVE  CallOK'
<1> USE DEF CallOK, Body
<1>a. call \in CallLocals
  BY DEF Types
<1>1. CASE CreateBody
  BY <1>1, CallEnds DEF CreateBody
<1>2. CASE AppendIndex
  BY <1>2, <1>a DEF AppendIndex, NewIndex, CallLocals
<1>3. CASE AppendData
  BY <1>3, <1>a DEF AppendData, NewIndex, CallLocals
<1>4. CASE AppendInPlace
  <2>1. CASE call.span = 0
    BY <1>4, <2>1, CallEnds DEF AppendInPlace
  <2>2. CASE call.span # 0
    <3>1. call.span > 0
      BY <1>4, <2>2 DEF AppendInPlace, Span
    <3>2. QED
      BY <1>4, <1>a, <2>2, <3>1 DEF AppendInPlace, NewIndex, CallLocals
  <2>3. QED
    BY <2>1, <2>2
<1>5. CASE AppendHeader
  BY <1>5, <1>a DEF AppendHeader, NewIndex, CallLocals
<1>6. CASE ModifyData
  BY <1>6, <1>a DEF ModifyData, CallLocals
<1>7. CASE ModifyDrop
  BY <1>7, <1>a DEF ModifyDrop, CallLocals
<1>8. CASE ModifyIndex
  BY <1>8, <1>a DEF ModifyIndex, CallLocals
<1>9. CASE RemoveData
  <2>1. call.span \in Span /\ call.span - 1 \in Span \cup {-1}
    BY <1>9, GcAssumption DEF RemoveData, Span
  <2>2. QED
    BY <1>9, <1>a, <2>1 DEF RemoveData, CallLocals
<1>10. CASE RemoveIndex
  <2>1. call.span > 0 => call.span - 1 \in Span \cup {-1}
    BY <1>10, GcAssumption DEF RemoveIndex, Span
  <2>2. call.span <= 0 \/ call.span > 0
    BY <1>10 DEF RemoveIndex, Span
  <2>3. CASE call.span > 0
    <3>1. call' = [call EXCEPT !.step = "body", !.span = call.span - 1]
      <4>1. ~(call.span <= 0)
        BY <1>10, <2>3 DEF RemoveIndex, Span
      <4>2. QED
        BY <1>10, <4>1 DEF RemoveIndex
    <3>2. call.op = "remove" /\ UNCHANGED <<files, cut>>
      BY <1>10 DEF RemoveIndex
    <3>3. QED
      BY <1>a, <2>1, <2>3, <3>1, <3>2 DEF CallLocals
  <2>4. CASE call.span <= 0
    BY <1>10, <2>4, CallEnds DEF RemoveIndex
  <2>5. QED
    BY <2>2, <2>3, <2>4
<1>11. QED
  BY <1>1, <1>2, <1>3, <1>4, <1>5, <1>6, <1>7, <1>8, <1>9, <1>10 DEF BodyStep

LEMMA CallInductive ==
  ASSUME AllocOK, Types, Linked, CallOK, [Next]_vars
  PROVE  CallOK'
<1>1. CASE GcCheckEnough \/ GcCheckFull
  BY <1>1, CallGoesOn DEF GcCheckEnough, GcCheckFull
<1>2. CASE UNCHANGED <<call, files, cut>>
  BY <1>2 DEF CallOK, NewIndex
<1>3. CASE CollectorStep
  <2>1. CASE GcEraseBlock
    <3>1. call.step = "check"
      BY <2>1 DEF GcEraseBlock, Linked
    <3>2. call' \in {call, NoCall, Proceed} /\ UNCHANGED <<files, cut>>
      BY <2>1 DEF GcEraseBlock
    <3>3. QED
      BY <1>2, <3>1, <3>2, CallGoesOn
  <2>2. QED
    BY <1>2, <1>3, <2>1
       DEF CollectorStep, GcFindData, GcNoMoreData, GcMoveData, GcStoreIndex, GcMoveIndex
<1>4. CASE BodyStep
  BY <1>4, BodyCall
<1>5. CASE MoveDrop
  <2>1. call' = NoCall \/ UNCHANGED <<call, files, cut>>
    BY <1>5 DEF MoveDrop
  <2>2. QED
    BY <1>2, <2>1, CallEnds
<1>6. ASSUME NEW o \in Objs, Create(o) PROVE CallOK'
  BY <1>6 DEF Create, Begin, CallOK
<1>7. ASSUME NEW o \in Objs, Append(o) PROVE CallOK'
  BY <1>7 DEF Append, Begin, CallOK, Span
<1>8. ASSUME NEW o \in Objs, NEW s \in Span, Modify(o, s) PROVE CallOK'
  BY <1>8 DEF Modify, Begin, CallOK
<1>9. ASSUME NEW n \in GcSizes, UserGc(n) PROVE CallOK'
  BY <1>9 DEF UserGc, Begin, CallOK
<1>10. ASSUME NEW o \in Objs, Remove(o) PROVE CallOK'
  <2>1. files[o] - 1 \in Span \cup {-1}
    BY <1>10, GcAssumption DEF Remove, Types, Span
  <2>2. QED
    BY <1>10, <2>1 DEF Remove, Ready, Types, CallOK
<1>11. CASE PowerLoss
  BY <1>11, CallEnds DEF PowerLoss
<1>12. QED
  BY <1>1, <1>2, <1>3, <1>4, <1>5, <1>6, <1>7, <1>8, <1>9, <1>10, <1>11
     DEF Next, GcCheckRun, MoveMark, GcQuick, Mount, vars

(* The collector runs while a call is being checked.                       *)
LEMMA NoParts ==
  NoCall.op = "none" /\ NoCall.step = "" /\ NoGc.run = "off" /\ NoGc.cur = 0 /\ NoGc.stored = 0
BY DEF NoCall, NoGc

LEMMA CheckedCall ==
  ASSUME Types, Linked, call.step = "check"
  PROVE  call # NoCall /\ call.op # "none"
<1>1. NoCall.step # "check"
  BY NoParts
<1>2. QED
  BY <1>1 DEF Linked

LEMMA LinkedInductive ==
  ASSUME AllocOK, AllocOK', Types, Linked, CallOK, [Next]_vars
  PROVE  Linked'
<1> USE DEF Linked, Collecting
<1>a. call \in CallLocals /\ gc \in GcLocals
  BY DEF Types
<1>n. /\ NoCall.op = "none" /\ NoGc.run = "off" /\ NoCall.step = ""
      /\ call.step = "check" => call # NoCall /\ call.op # "none"
  BY CheckedCall, NoParts
<1>1. CASE GcCheckEnough \/ GcCheckFull
  <2>1. /\ gc.run = "off" /\ gc' = NoGc /\ call' \in {NoCall, Proceed} /\ call.step = "check"
        /\ UNCHANGED allocVars
    BY <1>1 DEF GcCheckEnough, GcCheckFull
  <2>2. call'.op = "none" => call' = NoCall
    BY <1>a, <1>n, <2>1 DEF Proceed, CallLocals
  <2>3. mounted /\ cleaning = Alloc!NoBlock /\ moving = Alloc!NoMove
    BY <2>1, <1>n
  <2>4. QED
    BY <1>n, <2>1, <2>2, <2>3 DEF allocVars
<1>2. CASE GcCheckRun
  <2>1. gc'.run = "find" /\ call' = call /\ call.step = "check"
    BY <1>2, <1>a DEF GcCheckRun, GcLocals
  <2>2. \E b \in Block : Alloc!GcStart(b)
    BY <1>2 DEF GcCheckRun
  <2>3. mounted' = mounted /\ mounted /\ cleaning' \in Block
    BY <2>2 DEF Alloc!GcStart, Alloc!Idle
  <2>4. cleaning' # Alloc!NoBlock
    BY <2>3, Geometry DEF Alloc!NoBlock
  <2>5. QED
    BY <2>1, <2>3, <2>4
<1>3. CASE CollectorStep
  <2>1. CASE GcFindData \/ GcNoMoreData
    <3>1. /\ gc.run = "find" /\ gc'.run \in {"find", "data", "ix"} /\ call' = call
          /\ moving = Alloc!NoMove
      BY <2>1, <1>a DEF GcFindData, GcNoMoreData, GcLocals
    <3>2. mounted' = mounted /\ cleaning' = cleaning /\ moving' = moving
      <4>1. UNCHANGED allocVars \/ \E p : Alloc!Delete(p)
        BY <2>1 DEF GcFindData, GcNoMoreData
      <4>2. QED
        BY <4>1, StepDelete DEF allocVars
    <3>3. QED
      BY <3>1, <3>2
  <2>2. CASE GcMoveData \/ GcStoreIndex \/ GcMoveIndex
    <3>1. gc.run \in {"data", "ix"} /\ gc'.run \in {"find", "data", "ix"} /\ call' = call
      BY <2>2, <1>a DEF GcMoveData, GcStoreIndex, GcMoveIndex, GcLocals
    <3>2. \E src : Alloc!MoveCopy(src)
      BY <2>2 DEF GcMoveData, GcStoreIndex, GcMoveIndex, Move
    <3>3. mounted' = mounted /\ cleaning' = cleaning
      BY <3>2, StepCopy
    <3>4. QED
      BY <3>1, <3>3
  <2>3. CASE GcEraseBlock
    <3>1. Alloc!EraseCleaned /\ gc.run = "ix"
      BY <2>3 DEF GcEraseBlock
    <3>2. /\ moving' = Alloc!NoMove /\ mounted' /\ cleaning' = Alloc!NoBlock
      BY <3>1, StepErase
    <3>3. CASE gc'.run = "again" /\ call' = call
      BY <3>1, <3>2, <3>3
    <3>4. CASE gc' = NoGc /\ call' \in {NoCall, Proceed}
      <4>1. call'.op = "none" => call' = NoCall
        BY <1>a, <1>n, <3>1, <3>4 DEF Proceed, CallLocals
      <4>2. QED
        BY <1>n, <3>2, <3>4, <4>1
    <3>5. QED
      BY <2>3, <1>a, <3>3, <3>4 DEF GcEraseBlock, GcLocals
  <2>4. QED
    BY <1>3, <2>1, <2>2, <2>3 DEF CollectorStep
<1>4. CASE BodyStep
  <2>1. /\ call.op \in {"create", "append", "modify", "remove"}
        /\ call.step \notin {"check", ""} /\ gc' = gc /\ moving = Alloc!NoMove
    BY <1>4 DEF BodyStep, CreateBody, AppendIndex, AppendData, AppendInPlace, AppendHeader,
                ModifyData, ModifyDrop, ModifyIndex, RemoveData, RemoveIndex, Body
  <2>2. mounted /\ gc.run = "off" /\ cleaning = Alloc!NoBlock
    BY <2>1, <1>n
  <2>3. \/ call' = NoCall
        \/ call'.op = call.op
    BY <1>4, <1>a DEF BodyStep, CreateBody, AppendIndex, AppendData, AppendInPlace, AppendHeader,
                ModifyData, ModifyDrop, ModifyIndex, RemoveData, RemoveIndex, CallLocals
  <2>4. \/ UNCHANGED allocVars
        \/ \E id \in LookupIds : Alloc!Allocate(id)
        \/ \E p : Alloc!Delete(p)
        \/ (\E src : Alloc!MoveCopy(src)) /\ call'.step = "last"
    <3>1. \/ UNCHANGED allocVars
          \/ Alloc!Allocate(<<call.obj, "ix">>) \/ Alloc!Allocate(<<call.obj, "da">>)
          \/ \E p : Alloc!Delete(p)
          \/ (\E src : Alloc!MoveCopy(src)) /\ call' = [call EXCEPT !.step = "last"]
      <4>1. CASE CreateBody \/ AppendIndex \/ AppendData \/ ModifyData
        BY <4>1 DEF CreateBody, AppendIndex, AppendData, ModifyData, AllocatePage
      <4>2. CASE AppendInPlace
        BY <4>2 DEF AppendInPlace
      <4>3. CASE ModifyDrop \/ RemoveData \/ RemoveIndex
        BY <4>3 DEF ModifyDrop, RemoveData, RemoveIndex
      <4>4. CASE AppendHeader \/ ModifyIndex
        BY <4>4 DEF AppendHeader, ModifyIndex, Move
      <4>5. QED
        BY <1>4, <4>1, <4>2, <4>3, <4>4 DEF BodyStep
    <3>2. <<call.obj, "ix">> \in LookupIds /\ <<call.obj, "da">> \in LookupIds
      BY <2>1, CallType
    <3>3. QED
      BY <3>1, <3>2, <1>a DEF CallLocals
  <2>5. mounted' = mounted /\ cleaning' = cleaning
    BY <2>4, StepAllocate, StepDelete, StepCopy DEF allocVars
  <2>6. moving' = moving \/ call'.step = "last"
    BY <2>4, StepAllocate, StepDelete DEF allocVars
  <2>7. QED
    BY <2>1, <2>2, <2>3, <2>5, <2>6, <1>n
<1>5. CASE MoveMark
  <2>1. /\ mounted' = mounted /\ cleaning' = cleaning /\ moving # Alloc!NoMove
        /\ UNCHANGED <<gc, call>>
    BY <1>5, StepMark DEF MoveMark, Alloc!NoMove
  <2>2. QED
    BY <2>1
<1>6. CASE MoveDrop
  <2>1. /\ mounted' = mounted /\ cleaning' = cleaning /\ moving' = Alloc!NoMove /\ mounted
        /\ gc' = gc /\ (call' = call \/ (call' = NoCall /\ gc.run = "off"))
    BY <1>6, StepDrop DEF MoveDrop
  <2>2. QED
    BY <2>1, <1>n
<1>7. ASSUME NEW op \in {"gc", "create", "append", "modify"}, NEW o, NEW s, NEW n, Begin(op, o, s, n)
      PROVE  Linked'
  <2>1. /\ call'.op = op /\ call'.step = "check" /\ gc'.run = "off"
        /\ UNCHANGED allocVars /\ Alloc!Idle
    BY <1>7 DEF Begin, NoGc
  <2>2. QED
    BY <2>1 DEF allocVars, Alloc!Idle
<1>8. ASSUME NEW o \in Objs, Remove(o) PROVE Linked'
  <2>1. /\ call'.op = "remove" /\ gc' = gc /\ call = NoCall
        /\ UNCHANGED allocVars /\ Alloc!Idle
    BY <1>8 DEF Remove, Ready
  <2>2. QED
    BY <2>1, <1>n DEF allocVars, Alloc!Idle
<1>9. CASE GcQuick
  <2>1. /\ mounted' = mounted /\ cleaning' = cleaning /\ moving' = moving
        /\ UNCHANGED <<gc, call>>
    BY <1>9, StepQuick DEF GcQuick
  <2>2. QED
    BY <2>1
<1>10. CASE Mount
  BY <1>10 DEF Mount, Alloc!Mount
<1>11. CASE PowerLoss
  <2>1. /\ gc' = NoGc /\ call' = NoCall /\ cleaning' = Alloc!NoBlock /\ moving' = Alloc!NoMove
    BY <1>11 DEF PowerLoss, Alloc!PowerLoss, Alloc!RamLost
  <2>2. QED
    BY <2>1, <1>n
<1>12. CASE UNCHANGED vars
  BY <1>12 DEF vars, allocVars
<1>13. QED
  BY <1>1, <1>2, <1>3, <1>4, <1>5, <1>6, <1>7, <1>8, <1>9, <1>10, <1>11, <1>12
     DEF Next, Create, Append, Modify, UserGc

-----------------------------------------------------------------------------
(* The pages as they are once the move in progress is over: the copy       *)
(* stands for the page it is a copy of, and the index page in fs->work for *)
(* the one on flash.                                                       *)

IdAfter(p) ==
  IF moving.stage # "none" /\ p = moving.dst THEN Id(moving.src)
  ELSE IF moving.stage # "none" /\ p = moving.src THEN DELETED
  ELSE Id(p)

RefsAfter(p) == IF gc.run = "data" /\ p = gc.objix THEN gc.work ELSE page[p].refs

PageView(id, span, removed, refs) == [id |-> id, span |-> span, removed |-> removed, refs |-> refs]
Gone == PageView(DELETED, 0, FALSE, NoRefs)

View ==
  [p \in Page |-> IF IdAfter(p) \in LookupIds
                  THEN PageView(IdAfter(p), page[p].span, page[p].removed, RefsAfter(p))
                  ELSE Gone]

LEMMA PageViewParts ==
  /\ \A id, span, removed, refs :
       LET v == PageView(id, span, removed, refs)
       IN  v.id = id /\ v.span = span /\ v.removed = removed /\ v.refs = refs
  /\ Gone.id = DELETED /\ Gone.id \notin LookupIds
BY AllocAssumptions DEF PageView, Gone

LEMMA ViewAt ==
  ASSUME NEW p \in Page
  PROVE  IF IdAfter(p) \in LookupIds
         THEN /\ View[p] = PageView(IdAfter(p), page[p].span, page[p].removed, RefsAfter(p))
              /\ View[p].id = IdAfter(p) /\ View[p].span = page[p].span
              /\ View[p].removed = page[p].removed /\ View[p].refs = RefsAfter(p)
         ELSE View[p] = Gone /\ View[p].id = DELETED /\ View[p].id \notin LookupIds
BY PageViewParts DEF View

(* With no move in progress the lookup says it all.                        *)
LEMMA ViewWithoutMove ==
  ASSUME moving = Alloc!NoMove
  PROVE  /\ moving.stage = "none"
         /\ \A p : IdAfter(p) = Id(p)
BY DEF IdAfter, Alloc!NoMove

LEMMA SameView ==
  ASSUME \A p \in Page :
           /\ IdAfter(p)' \in LookupIds <=> IdAfter(p) \in LookupIds
           /\ IdAfter(p) \in LookupIds =>
                /\ IdAfter(p)' = IdAfter(p) /\ page'[p] = page[p]
                /\ RefsAfter(p)' = RefsAfter(p)
  PROVE  View' = View
<1>1. ASSUME NEW p \in Page PROVE View'[p] = View[p]
  BY DEF View
<1>2. View = [p \in Page |-> View[p]] /\ View' = [p \in Page |-> View'[p]]
  BY DEF View
<1>3. QED
  BY <1>1, <1>2

-----------------------------------------------------------------------------
(* A page that has been copied is the page it is a copy of.                *)

Copied ==
  moving.stage # "none" =>
    /\ moving.src # moving.dst
    /\ page[moving.dst].span = page[moving.src].span
    /\ page[moving.dst].removed = page[moving.src].removed
    /\ moving.stage = "marked" => Id(moving.dst) = Id(moving.src)

LEMMA MovedPages ==
  ASSUME AllocOK, moving.stage # "none"
  PROVE  /\ moving.src \in Page /\ moving.dst \in Page /\ Id(moving.src) \in LookupIds
         /\ moving.stage = "copied" => Id(moving.dst) = FREE
BY Geometry DEF AllocOK, Alloc!TypeOK, Alloc!MoveInv, Alloc!UsedPages, Alloc!FreePages, Id

LEMMA MarkView ==
  ASSUME AllocOK, Copied, MoveMark
  PROVE  View' = View /\ Copied'
<1>1. /\ moving.stage = "copied" /\ moving.src \in Page /\ moving.dst \in Page
      /\ moving' = [stage |-> "marked", src |-> moving.src, dst |-> moving.dst]
      /\ \A q \in Page : Id(q)' = IF q = moving.dst THEN Id(moving.src) ELSE Id(q)
      /\ UNCHANGED <<page, gc>> /\ moving.src # moving.dst
  BY StepMark DEF MoveMark, Copied
<1>2. moving'.stage = "marked" /\ moving'.src = moving.src /\ moving'.dst = moving.dst
  BY <1>1
<1>3. Id(moving.src)' = Id(moving.src)
  <2>1. \A q \in Page : q = moving.src => Id(q)' = Id(q)
    BY <1>1
  <2>2. lu'[moving.src[1]][moving.src[2]] = lu[moving.src[1]][moving.src[2]]
    BY <1>1, <2>1 DEF Id
  <2>3. QED
    BY <1>2, <2>2 DEF Id
<1>4. ASSUME NEW p \in Page
      PROVE  IdAfter(p)' = IdAfter(p) /\ RefsAfter(p)' = RefsAfter(p)
  BY <1>1, <1>2, <1>3 DEF IdAfter, RefsAfter
<1>5. View' = View
  BY <1>1, <1>4, SameView
<1>6. Copied'
  BY <1>1, <1>2, <1>3 DEF Copied, Id
<1>7. QED
  BY <1>5, <1>6

LEMMA DropView ==
  ASSUME AllocOK, Types, Copied, MoveDrop
  PROVE  View' = View
<1>1. /\ moving.stage = "marked" /\ moving.src \in Page /\ moving.dst \in Page
      /\ moving' = Alloc!NoMove /\ gc' = gc
      /\ page' = [page EXCEPT ![moving.src] = Blank]
      /\ \A q \in Page : Id(q)' = IF q = moving.src THEN DELETED ELSE Id(q)
  BY StepDrop DEF MoveDrop
<1>2. \A p : IdAfter(p)' = Id(p)'
  BY <1>1 DEF IdAfter, Alloc!NoMove, Id
<1>3. ASSUME NEW p \in Page PROVE IdAfter(p)' = IdAfter(p)
  BY <1>1, <1>2 DEF IdAfter, Copied
<1>4. ASSUME NEW p \in Page, IdAfter(p) \in LookupIds
      PROVE  page'[p] = page[p] /\ RefsAfter(p)' = RefsAfter(p)
  <2>1. p # moving.src
    BY <1>1, <1>4, AllocAssumptions DEF IdAfter, Copied
  <2>2. page'[p] = page[p]
    BY <1>1, <2>1 DEF Types
  <2>3. QED
    BY <1>1, <2>2 DEF RefsAfter
<1>5. QED
  BY <1>3, <1>4, SameView

(* A step that only gives deleted pages back, or changes no page at all.   *)
LEMMA IdleView ==
  ASSUME AllocOK, moving = Alloc!NoMove, moving' = moving, page' = page,
         \A q \in Page : Swapped(q),
         \A q \in Page : RefsAfter(q)' = RefsAfter(q)
  PROVE  View' = View
<1>1. \A p : IdAfter(p) = Id(p) /\ IdAfter(p)' = Id(p)'
  BY DEF IdAfter, Alloc!NoMove, Id
<1>2. QED
  BY <1>1, AllocAssumptions, SameView DEF Swapped

LEMMA UnchangedView ==
  ASSUME UNCHANGED <<lu, moving, page>>, gc.run # "data", gc'.run # "data"
  PROVE  View' = View
BY SameView DEF IdAfter, RefsAfter, Id

(* An erased block is out of view if no page of it was in view.            *)
LEMMA EraseView ==
  ASSUME AllocOK, gc.run # "data", gc'.run # "data",
         moving = Alloc!NoMove, moving' = moving,
         \A q \in Page : Id(q)' = IF q[1] = cleaning THEN FREE ELSE Id(q),
         page' = [p \in Page |-> IF p[1] = cleaning THEN Blank ELSE page[p]],
         \A q \in Page : q[1] = cleaning => Id(q) \notin LookupIds
  PROVE  View' = View
<1>1. \A p : IdAfter(p) = Id(p) /\ IdAfter(p)' = Id(p)'
  BY DEF IdAfter, Alloc!NoMove, Id
<1>2. ASSUME NEW p \in Page, Id(p) \in LookupIds PROVE Id(p)' = Id(p) /\ page'[p] = page[p]
  BY <1>2
<1>3. QED
  BY <1>1, <1>2, AllocAssumptions, SameView DEF RefsAfter

(* A page of the view is deleted.                                          *)
LEMMA DeleteView ==
  ASSUME AllocOK, Types, gc.run # "data", gc'.run # "data", NEW p, Alloc!Delete(p),
         page' = [page EXCEPT ![p] = Blank]
  PROVE  /\ p \in Page /\ View[p].id = Id(p) /\ View[p].id \in LookupIds
         /\ View' = [View EXCEPT ![p] = Gone]
<1>1. /\ p \in Page /\ Id(p) \in LookupIds
      /\ moving = Alloc!NoMove /\ moving' = moving
      /\ \A q \in Page : Id(q)' = IF q = p THEN DELETED ELSE Id(q)
  BY StepDelete
<1>2. \A q : IdAfter(q) = Id(q) /\ IdAfter(q)' = Id(q)'
  BY <1>1 DEF IdAfter, Alloc!NoMove, Id
<1>3. ASSUME NEW q \in Page PROVE View'[q] = IF q = p THEN Gone ELSE View[q]
  <2>1. View'[q] = IF Id(q)' \in LookupIds
                   THEN PageView(Id(q)', page'[q].span, page'[q].removed, RefsAfter(q)')
                   ELSE Gone
    BY <1>2 DEF View
  <2>2. View[q] = IF Id(q) \in LookupIds
                  THEN PageView(Id(q), page[q].span, page[q].removed, RefsAfter(q))
                  ELSE Gone
    BY <1>2 DEF View
  <2>3. CASE q = p
    BY <1>1, <2>1, <2>3, AllocAssumptions
  <2>4. CASE q # p
    <3>1. page'[q] = page[q] /\ RefsAfter(q)' = RefsAfter(q)
      BY <2>4 DEF RefsAfter, Types
    <3>2. QED
      BY <1>1, <2>1, <2>2, <2>4, <3>1
  <2>5. QED
    BY <2>3, <2>4
<1>4. View' = [q \in Page |-> View'[q]] /\ View = [q \in Page |-> View[q]]
  BY DEF View
<1>5. View' = [View EXCEPT ![p] = Gone]
  BY <1>3, <1>4
<1>6. QED
  BY <1>1, <1>2, <1>5, ViewAt

(* A page comes into view.                                                 *)
LEMMA FillView ==
  ASSUME AllocOK, Types, gc.run # "data", gc' = gc, NEW id \in LookupIds, NEW d,
         AllocatePage(id, d)
  PROVE  /\ Allocated \in Page
         /\ \E p \in Page : /\ p = Allocated /\ View[p] = Gone
                            /\ View' = [View EXCEPT ![p] = PageView(id, d.span, d.removed, d.refs)]
<1>1. PICK p \in Page :
           /\ p = Allocated /\ Id(p) \notin LookupIds /\ Id(p)' = id
           /\ \A q \in Page \ {p} : Swapped(q)
           /\ moving = Alloc!NoMove /\ moving' = moving
  BY StepAllocate DEF AllocatePage
<1>2. \A q : IdAfter(q) = Id(q) /\ IdAfter(q)' = Id(q)'
  BY <1>1 DEF IdAfter, Alloc!NoMove, Id
<1>3. page' = [page EXCEPT ![p] = d]
  BY <1>1 DEF AllocatePage, Allocated
<1>4. ASSUME NEW q \in Page
      PROVE  View'[q] = IF q = p THEN PageView(id, d.span, d.removed, d.refs) ELSE View[q]
  <2>1. View'[q] = IF Id(q)' \in LookupIds
                   THEN PageView(Id(q)', page'[q].span, page'[q].removed, page'[q].refs)
                   ELSE Gone
    BY <1>2 DEF View, RefsAfter
  <2>2. View[q] = IF Id(q) \in LookupIds
                  THEN PageView(Id(q), page[q].span, page[q].removed, page[q].refs)
                  ELSE Gone
    BY <1>2 DEF View, RefsAfter
  <2>3. CASE q = p
    BY <1>1, <1>3, <2>1, <2>3 DEF Types
  <2>4. CASE q # p
    <3>1. page'[q] = page[q]
      BY <1>3, <2>4 DEF Types
    <3>2. Id(q)' = Id(q) \/ (Id(q) \notin LookupIds /\ Id(q)' \notin LookupIds)
      BY <1>1, <2>4, AllocAssumptions DEF Swapped
    <3>3. QED
      BY <2>1, <2>2, <2>4, <3>1, <3>2
  <2>5. QED
    BY <2>3, <2>4
<1>5. View' = [q \in Page |-> View'[q]] /\ View = [q \in Page |-> View[q]]
  BY DEF View
<1>6. View' = [View EXCEPT ![p] = PageView(id, d.span, d.removed, d.refs)]
  BY <1>4, <1>5
<1>7. View[p] = Gone
  BY <1>1, <1>2, ViewAt
<1>8. QED
  BY <1>1, <1>6, <1>7

(* A page moves: its copy, with the content d, takes its place.            *)
LEMMA MoveView ==
  ASSUME AllocOK, Types, NEW src, NEW d, Move(src, d)
  PROVE  \E p \in Page :
           /\ p = moving'.dst /\ moving = Alloc!NoMove
           /\ moving' = [stage |-> "copied", src |-> src, dst |-> p]
           /\ mounted /\ mounted' = mounted /\ cleaning' = cleaning
           /\ free_cursor' = [bix |-> p[1], entry |-> p[2] + 1]
           /\ src \in Page /\ src # p /\ page' = [page EXCEPT ![p] = d]
           /\ View[src].id = Id(src) /\ View[src].id \in LookupIds /\ View[src].span = page[src].span
           /\ View[src].removed = page[src].removed /\ View[src].refs = RefsAfter(src)
           /\ View[p] = Gone /\ View'[src] = Gone
           /\ View'[p] = PageView(Id(src), d.span, d.removed, RefsAfter(p)')
           /\ \A q \in Page \ {src, p} :
                IF View[q].id \in LookupIds
                THEN View'[q] = PageView(View[q].id, View[q].span, View[q].removed, RefsAfter(q)')
                ELSE View[q] = Gone /\ View'[q] = Gone
           /\ cleaning # Alloc!NoBlock => lu' = lu /\ Id(p) = FREE
<1>1. PICK p \in Page :
           /\ moving = Alloc!NoMove /\ moving' = [stage |-> "copied", src |-> src, dst |-> p]
           /\ mounted /\ mounted' = mounted /\ cleaning' = cleaning
           /\ free_cursor' = [bix |-> p[1], entry |-> p[2] + 1]
           /\ src \in Page /\ src # p /\ Id(src) \in LookupIds /\ Id(p) \notin LookupIds
           /\ \A q \in Page : Swapped(q)
           /\ cleaning # Alloc!NoBlock => lu' = lu /\ Id(p) = FREE
  BY StepCopy DEF Move
<1>2. moving'.stage = "copied" /\ moving'.src = src /\ moving'.dst = p
  BY <1>1
<1>3. page' = [page EXCEPT ![p] = d]
  BY <1>2 DEF Move
<1>4. \A q : IdAfter(q) = Id(q)
  BY <1>1, ViewWithoutMove
<1>5. Id(src)' = Id(src)
  BY <1>1, AllocAssumptions DEF Swapped
<1>6. lu'[moving'.src[1]][moving'.src[2]] = Id(src)
  BY <1>2, <1>5 DEF Id
<1>7. ASSUME NEW q \in Page
      PROVE  IdAfter(q)' = IF q = p THEN Id(src) ELSE IF q = src THEN DELETED ELSE Id(q)'
  BY <1>2, <1>6 DEF IdAfter, Id
<1>8. View[p] = Gone
  BY <1>1, <1>4, ViewAt
<1>9. /\ View[src].id = Id(src) /\ View[src].id \in LookupIds /\ View[src].span = page[src].span
      /\ View[src].removed = page[src].removed /\ View[src].refs = RefsAfter(src)
  BY <1>1, <1>4, ViewAt
<1>10. View'[src] = Gone
  <2>1. IdAfter(src)' = DELETED
    BY <1>1, <1>7
  <2>2. QED
    BY <1>1, <2>1, AllocAssumptions DEF View
<1>11. View'[p] = PageView(Id(src), d.span, d.removed, RefsAfter(p)')
  <2>1. IdAfter(p)' = Id(src) /\ page'[p] = d
    BY <1>3, <1>7 DEF Types
  <2>2. QED
    BY <1>1, <2>1 DEF View
<1>12. ASSUME NEW q \in Page \ {src, p}
       PROVE  IF View[q].id \in LookupIds
              THEN View'[q] = PageView(View[q].id, View[q].span, View[q].removed, RefsAfter(q)')
              ELSE View[q] = Gone /\ View'[q] = Gone
  <2>1. IdAfter(q)' = Id(q)' /\ page'[q] = page[q]
    BY <1>3, <1>7 DEF Types
  <2>2. View'[q] = IF Id(q)' \in LookupIds
                   THEN PageView(Id(q)', page[q].span, page[q].removed, RefsAfter(q)')
                   ELSE Gone
    BY <2>1 DEF View
  <2>3. CASE Id(q) \in LookupIds
    <3>1. Id(q)' = Id(q)
      BY <1>1, <2>3, AllocAssumptions DEF Swapped
    <3>2. View[q].id = Id(q) /\ View[q].span = page[q].span /\ View[q].removed = page[q].removed
      BY <1>4, <2>3, ViewAt
    <3>3. QED
      BY <2>2, <2>3, <3>1, <3>2
  <2>4. CASE Id(q) \notin LookupIds
    <3>1. Id(q)' \notin LookupIds
      BY <1>1, <2>4, AllocAssumptions DEF Swapped
    <3>2. View[q] = Gone /\ View[q].id \notin LookupIds
      BY <1>4, <2>4, ViewAt
    <3>3. QED
      BY <2>2, <3>1, <3>2
  <2>5. QED
    BY <2>3, <2>4
<1>13. QED
  BY <1>1, <1>2, <1>3, <1>8, <1>9, <1>10, <1>11, <1>12

-----------------------------------------------------------------------------
(* What spiffs_gc_clean has done to the block it empties.                  *)

V(e) == View[<<cleaning, e>>]
IsDa(v) == \E o \in Objs : v.id = <<o, "da">>
IsIx(v) == \E o \in Objs : v.id = <<o, "ix">>
Same(v) == v.id = <<gc.obj, "da">> /\ v.span \div PerIx = gc.spix

(* The scan has passed no free page, and so no free page is behind it in   *)
(* which a moved page could land; what it has passed is as it leaves it.   *)
Swept ==
  /\ Collecting /\ gc.cur > 0 => Id(<<cleaning, gc.cur - 1>>) # FREE
  /\ gc.run = "data" /\ gc.stored > 0 => Id(<<cleaning, gc.stored - 1>>) # FREE
  /\ gc.run = "find" => \A e \in Entry : e < gc.cur => ~IsDa(V(e))
  /\ gc.run = "data" =>
       /\ \A e \in Entry : e < gc.stored /\ IsDa(V(e)) => Same(V(e))
       /\ \A e \in Entry : e < gc.cur => ~Same(V(e))
  /\ gc.run = "ix" =>
       /\ \A e \in Entry : ~IsDa(V(e))
       /\ \A e \in Entry : e < gc.cur => ~IsIx(V(e))

(* The index page in fs->work is the one on flash at gc.objix.             *)
IndexInHand ==
  gc.run = "data" =>
    /\ gc.obj \in Objs /\ gc.objix \in Page
    /\ View[gc.objix].id = <<gc.obj, "ix">> /\ View[gc.objix].span = gc.spix
    /\ ~View[gc.objix].removed

(* If the free cursor is back in the block, the page before it is one the  *)
(* collector wrote there and has not moved out yet.                        *)
CursorBack ==
  Collecting /\ free_cursor.bix = cleaning =>
    /\ free_cursor.entry > 0
    /\ V(free_cursor.entry - 1).id \in LookupIds
    /\ gc.run # "data" => IsIx(V(free_cursor.entry - 1))

ScanInv == Swept /\ IndexInHand /\ CursorBack

LEMMA Kinds ==
  ASSUME NEW v
  PROVE  /\ IsDa(v) \/ IsIx(v) <=> v.id \in LookupIds
         /\ ~(IsDa(v) /\ IsIx(v))
BY DEF IsDa, IsIx, LookupIds

LEMMA LessWellFounded ==
  \E R : IsWellFoundedOn(R, Nat) /\ \A m, n \in Nat : <<m, n>> \in R <=> m < n
BY NatLessThanWellFounded DEF OpToRel

LEMMA MinimalOfSet ==
  \A R, S, T : IsWellFoundedOn(R, S) /\ T \subseteq S /\ T # {} =>
    \E m \in T : \A n \in T : ~(<<n, m>> \in R)
BY WFMin

(* spiffs_obj_lu_find_entry_visitor finds an entry if there is one.        *)
LEMMA SmallestOfSet ==
  ASSUME NEW S \in SUBSET Nat, S # {}
  PROVE  \E g \in S : \A h \in S : g <= h
<1>1. PICK R : IsWellFoundedOn(R, Nat) /\ \A m, n \in Nat : <<m, n>> \in R <=> m < n
  BY LessWellFounded
<1>2. IsWellFoundedOn(R, Nat)
  BY <1>1
<1>3. PICK g \in S : \A h \in S : ~(<<h, g>> \in R)
  BY <1>2, MinimalOfSet
<1>4. \A h \in S : ~(h < g)
  BY <1>1, <1>3
<1>5. QED
  BY <1>4

LEMMA CursorType == ASSUME AllocOK PROVE free_cursor.bix \in Block /\ free_cursor.entry \in 0 .. E
<1>1. free_cursor \in [bix : Block, entry : 0 .. E]
  BY Geometry DEF AllocOK, Alloc!TypeOK
<1>2. QED
  BY <1>1

LEMMA NoneNext ==
  ASSUME Types, NEW S \in SUBSET Entry, NextEntry(S) = {}
  PROVE  \A e \in S : e < gc.cur
<1>1. SUFFICES ASSUME NEW e \in S, ~(e < gc.cur) PROVE FALSE
  OBVIOUS
<1>2. e >= gc.cur /\ e \in Nat /\ S \subseteq Nat
  BY <1>1, Geometry DEF Types, GcLocals
<1>3. PICK g \in {h \in S : h >= gc.cur} : \A h \in {h \in S : h >= gc.cur} : g <= h
  <2>1. {h \in S : h >= gc.cur} \in SUBSET Nat /\ {h \in S : h >= gc.cur} # {}
    BY <1>2
  <2>2. QED
    BY <2>1, SmallestOfSet
<1>4. g \in NextEntry(S)
  BY <1>3 DEF NextEntry
<1>5. QED
  BY <1>4

LEMMA FirstNext ==
  ASSUME AllocOK, Types, Linked, Collecting, NEW S \in SUBSET Entry, NEW e \in NextEntry(S)
  PROVE  /\ e \in S /\ e \in Entry /\ e + 1 \in 0 .. E
         /\ <<cleaning, e>> \in Page
         /\ \A f \in S : f < e + 1 /\ f # e => f < gc.cur
<1>1. /\ e \in S /\ e \in Entry /\ e \in Nat /\ e < E /\ e >= gc.cur
      /\ \A f \in S : f >= gc.cur => e <= f
  BY Geometry, AllocAssumption DEF NextEntry
<1>2. ASSUME NEW f \in S, f < e + 1, f # e PROVE f < gc.cur
  <2>1. f \in Nat /\ gc.cur \in Nat
    BY Geometry DEF Types, GcLocals
  <2>2. QED
    BY <1>1, <1>2, <2>1
<1>3. <<cleaning, e>> \in Page /\ e + 1 \in 0 .. E
  BY <1>1, CleaningType, Geometry, AllocAssumption
<1>4. QED
  BY <1>1, <1>2, <1>3

(* Between two moves the scans see the pages of the block as they are.     *)
LEMMA InBlock ==
  ASSUME AllocOK, Types, Linked, Collecting, moving = Alloc!NoMove, NEW e \in Entry
  PROVE  /\ IF lu[cleaning][e] \in LookupIds
            THEN V(e).id = lu[cleaning][e] /\ V(e).span = page[<<cleaning, e>>].span
            ELSE V(e).id = DELETED
         /\ IsDa(V(e)) <=> e \in DataEntries
         /\ IsIx(V(e)) <=> e \in IndexEntries
         /\ gc.obj \in Objs => (Same(V(e)) <=> e \in SameIndex)
<1>1. <<cleaning, e>> \in Page
  BY CleaningType
<1>2. IdAfter(<<cleaning, e>>) = lu[cleaning][e]
  BY ViewWithoutMove DEF Id
<1>3. IF lu[cleaning][e] \in LookupIds
      THEN V(e).id = lu[cleaning][e] /\ V(e).span = page[<<cleaning, e>>].span
      ELSE V(e).id = DELETED
  BY <1>1, <1>2, ViewAt DEF V
<1>4. (IsDa(V(e)) <=> e \in DataEntries) /\ (IsIx(V(e)) <=> e \in IndexEntries)
  BY <1>3, AllocAssumptions DEF IsDa, IsIx, DataEntries, IndexEntries, LookupIds
<1>5. gc.obj \in Objs => (Same(V(e)) <=> e \in SameIndex)
  BY <1>3, AllocAssumptions DEF Same, SameIndex, LookupIds
<1>6. QED
  BY <1>3, <1>4, <1>5

(* A moved page lands behind the pages that are not free.                  *)
LEMMA LandsBehind ==
  ASSUME AllocOK, moving = Alloc!NoMove, NEW p \in Page, Id(p) = FREE,
         NEW f \in Entry, Id(<<p[1], f>>) # FREE
  PROVE  f < p[2]
<1>1. Alloc!Suffix(Alloc!FreePages(lu))
  <2>1. moving.stage # "copied"
    BY DEF Alloc!NoMove
  <2>2. Alloc!Avail = Alloc!FreePages(lu)
    BY <2>1 DEF Alloc!Avail, Alloc!Reserved
  <2>3. QED
    BY <2>2 DEF AllocOK, Alloc!Order
<1>2. p[1] \in Block /\ p[2] \in Entry /\ p = <<p[1], p[2]>>
  BY PageParts
<1>3. <<p[1], p[2]>> \in Alloc!FreePages(lu) /\ <<p[1], f>> \notin Alloc!FreePages(lu)
  BY <1>2, Geometry DEF Alloc!FreePages, Id
<1>4. ~(p[2] <= f)
  BY <1>1, <1>2, <1>3, Geometry DEF Alloc!Suffix
<1>5. QED
  BY <1>2, <1>4, Geometry

LEMMA ScanSame ==
  ASSUME AllocOK, Types, Linked, ScanInv, View' = View, gc' = gc, cleaning' = cleaning,
         free_cursor' = free_cursor, \A q \in Page : Id(q) # FREE => Id(q)' # FREE
  PROVE  ScanInv'
<1>1. CASE ~Collecting
  BY <1>1 DEF ScanInv, Swept, IndexInHand, CursorBack, Collecting
<1>2. CASE Collecting
  <2>1. \A e : V(e)' = V(e)
    BY DEF V
  <2>2. gc.cur > 0 => <<cleaning, gc.cur - 1>> \in Page
    BY <1>2, CleaningType, Geometry, AllocAssumption DEF Types, GcLocals
  <2>3. gc.stored > 0 => <<cleaning, gc.stored - 1>> \in Page
    BY <1>2, CleaningType, Geometry, AllocAssumption DEF Types, GcLocals
  <2>4. \A k : <<cleaning, k>> \in Page /\ Id(<<cleaning, k>>) # FREE
               => Id(<<cleaning, k>>)' # FREE
    BY DEF Id
  <2>5. Swept'
    BY <2>1, <2>2, <2>3, <2>4 DEF ScanInv, Swept, Same, IsDa, IsIx, Collecting
  <2>6. IndexInHand' /\ CursorBack'
    BY <2>1 DEF ScanInv, IndexInHand, CursorBack, IsIx, Collecting
  <2>7. QED
    BY <2>5, <2>6 DEF ScanInv
<1>3. QED
  BY <1>1, <1>2

LEMMA ScanStart ==
  ASSUME AllocOK, Types, GcCheckRun
  PROVE  ScanInv' /\ UNCHANGED <<lu, moving, page>> /\ gc.run # "data" /\ gc'.run = "find"
<1>1. /\ gc' = [gc EXCEPT !.run = "find", !.cur = 0, !.prev = free_pages] /\ gc.run # "data"
      /\ \E b \in Block : Alloc!GcStart(b)
  BY DEF GcCheckRun
<1>2. gc'.run = "find" /\ gc'.cur = 0
  BY <1>1 DEF Types, GcLocals
<1>3. PICK b \in Block : Alloc!GcStart(b)
  BY <1>1
<1>4. UNCHANGED <<lu, moving>> /\ cleaning' = b
  BY <1>3 DEF Alloc!GcStart
<1>5. free_cursor'.bix # cleaning'
  <2>1. (b + 1) % B # b
    BY Geometry, AllocAssumption
  <2>2. QED
    BY <1>3, <2>1 DEF Alloc!GcStart, Alloc!Cursor
<1>6. Swept'
  BY <1>2, Geometry DEF Swept
<1>7. IndexInHand' /\ CursorBack'
  BY <1>2, <1>5 DEF IndexInHand, CursorBack
<1>8. QED
  BY <1>1, <1>2, <1>4, <1>6, <1>7 DEF ScanInv, GcCheckRun

(* The data page found next: the ones before it are of no file.            *)
LEMMA NextData ==
  ASSUME AllocOK, Types, Linked, ScanInv, gc.run = "find", moving = Alloc!NoMove,
         NEW e \in NextEntry(DataEntries)
  PROVE  /\ e \in Entry /\ e + 1 \in 0 .. E /\ <<cleaning, e>> \in Page
         /\ V(e).id = Id(<<cleaning, e>>) /\ V(e).span = page[<<cleaning, e>>].span
         /\ \E o \in Objs : Id(<<cleaning, e>>) = <<o, "da">>
         /\ \A f \in Entry : f < e => ~IsDa(V(f))
<1>1. Collecting
  BY DEF Collecting
<1>2. e \in DataEntries /\ e \in Entry /\ e >= gc.cur /\ e + 1 \in 0 .. E
      /\ <<cleaning, e>> \in Page /\ Id(<<cleaning, e>>) = lu[cleaning][e]
  BY <1>1, EntryOfBlock DEF DataEntries
<1>3. \E o \in Objs : Id(<<cleaning, e>>) = <<o, "da">>
  BY <1>2 DEF DataEntries
<1>4. V(e).id = Id(<<cleaning, e>>) /\ V(e).span = page[<<cleaning, e>>].span
  <2>1. IdAfter(<<cleaning, e>>) \in LookupIds /\ IdAfter(<<cleaning, e>>) = Id(<<cleaning, e>>)
    BY <1>3, ViewWithoutMove DEF LookupIds
  <2>2. QED
    BY <1>2, <2>1, ViewAt DEF V
<1>5. ASSUME NEW f \in Entry, f < e, IsDa(V(f)) PROVE FALSE
  <2>1. ~(f < gc.cur)
    BY <1>5 DEF ScanInv, Swept
  <2>2. <<cleaning, f>> \in Page
    BY <1>1, CleaningType
  <2>3. IdAfter(<<cleaning, f>>) = Id(<<cleaning, f>>)
    BY ViewWithoutMove
  <2>4. Id(<<cleaning, f>>) = V(f).id
    BY <1>5, <2>2, <2>3, ViewAt, Kinds DEF V
  <2>5. f \in DataEntries
    BY <1>5, <2>4 DEF DataEntries, IsDa, Id
  <2>6. f >= gc.cur
    BY <2>1, Geometry DEF Types, GcLocals
  <2>7. e <= f
    BY <2>5, <2>6 DEF NextEntry
  <2>8. QED
    BY <1>2, <1>5, <2>7, Geometry
<1>6. QED
  BY <1>2, <1>3, <1>4, <1>5

LEMMA ScanLoad ==
  ASSUME AllocOK, Types, Linked, ScanInv, gc.run = "find", moving = Alloc!NoMove,
         NEW e \in NextEntry(DataEntries), NEW ix \in Page,
         Found(Id(<<cleaning, e>>)[1], "ix", page[<<cleaning, e>>].span \div PerIx, ix),
         gc' = [gc EXCEPT !.run = "data", !.cur = 0, !.stored = e + 1,
                          !.obj = Id(<<cleaning, e>>)[1],
                          !.spix = page[<<cleaning, e>>].span \div PerIx, !.objix = ix,
                          !.work = page[ix].refs],
         UNCHANGED <<allocVars, page>>
  PROVE  View' = View /\ ScanInv'
<1> DEFINE o == Id(<<cleaning, e>>)[1]
           x == page[<<cleaning, e>>].span \div PerIx
<1>1. /\ gc'.run = "data" /\ gc'.cur = 0 /\ gc'.stored = e + 1 /\ gc'.obj = o /\ gc'.spix = x
      /\ gc'.objix = ix /\ gc'.work = page[ix].refs
  BY DEF Types, GcLocals
<1>2. /\ e \in Entry /\ e + 1 \in 0 .. E /\ <<cleaning, e>> \in Page
      /\ V(e).id = <<o, "da">> /\ V(e).span \div PerIx = x /\ o \in Objs
      /\ \A f \in Entry : f < e => ~IsDa(V(f))
  BY NextData
<1>3. Id(ix) = <<o, "ix">> /\ page[ix].span = x /\ ~page[ix].removed
  BY FoundType
<1>4. View' = View
  <2>1. \A p \in Page : IdAfter(p)' = IdAfter(p) /\ RefsAfter(p)' = RefsAfter(p)
    BY <1>1 DEF IdAfter, RefsAfter, Id, allocVars
  <2>2. QED
    BY <2>1, SameView
<1>5. IndexInHand'
  <2>1. IdAfter(ix) = <<o, "ix">> /\ IdAfter(ix) \in LookupIds
    BY <1>2, <1>3, ViewWithoutMove DEF LookupIds
  <2>2. View[ix].id = <<o, "ix">> /\ View[ix].span = x /\ ~View[ix].removed
    BY <1>3, <2>1, ViewAt
  <2>3. QED
    BY <1>1, <1>2, <1>4, <2>2 DEF IndexInHand
<1>6. cleaning' = cleaning /\ lu' = lu /\ free_cursor' = free_cursor
  BY DEF allocVars
<1>7. \A f : V(f)' = V(f)
  BY <1>4, <1>6 DEF V
<1>8. Swept'
  <2>1. Id(<<cleaning, e>>)' # FREE
    BY <1>6, NextData, AllocAssumptions DEF Id, LookupIds
  <2>2. gc'.stored - 1 = e
    BY <1>1, <1>2, Geometry
  <2>3. Id(<<cleaning, gc.stored - 1>>)' # FREE
    BY <2>1, <2>2 DEF Id
  <2>4. ASSUME NEW f \in Entry, f < e + 1, IsDa(V(f)) PROVE V(f).id = <<o, "da">> /\ V(f).span \div PerIx = x
    <3>1. f = e
      BY <1>2, <2>4, Geometry
    <3>2. QED
      BY <1>2, <3>1
  <2>5. QED
    BY <1>1, <1>7, <2>3, <2>4, Geometry DEF Swept, Collecting, Same, IsDa
<1>9. CursorBack'
  BY <1>1, <1>6, <1>7 DEF ScanInv, CursorBack, Collecting
<1>10. QED
  BY <1>4, <1>5, <1>8, <1>9 DEF ScanInv

LEMMA ScanOrphan ==
  ASSUME AllocOK, Types, Linked, ScanInv, gc.run = "find", moving = Alloc!NoMove,
         NEW e \in NextEntry(DataEntries), Alloc!Delete(<<cleaning, e>>),
         page' = [page EXCEPT ![<<cleaning, e>>] = Blank],
         gc' = [gc EXCEPT !.cur = e + 1]
  PROVE  ScanInv'
<1>1. /\ e \in Entry /\ e + 1 \in 0 .. E /\ <<cleaning, e>> \in Page
      /\ IsDa(V(e))
      /\ \A f \in Entry : f < e => ~IsDa(V(f))
  BY NextData DEF IsDa
<1>2. gc'.run = "find" /\ gc'.cur = e + 1
  BY DEF Types, GcLocals
<1>3. View' = [View EXCEPT ![<<cleaning, e>>] = Gone]
  BY <1>2, DeleteView
<1>4. /\ cleaning' = cleaning /\ free_cursor' = free_cursor
      /\ \A q \in Page : Id(q)' = IF q = <<cleaning, e>> THEN DELETED ELSE Id(q)
  BY StepDelete
<1>5. Id(<<cleaning, e>>)' = DELETED
  <2>1. lu'[cleaning][e] = DELETED
    BY <1>1, <1>4 DEF Id
  <2>2. QED
    BY <1>4, <2>1 DEF Id
<1>6. \A f \in Entry : V(f)' = IF f = e THEN Gone ELSE V(f)
  BY <1>3, <1>4, CleaningType DEF V, Collecting, View
<1>7. ~IsDa(Gone) /\ ~IsIx(Gone)
  BY PageViewParts, Kinds
<1>8. Swept'
  <2>1. gc'.cur - 1 = e
    BY <1>1, <1>2, Geometry
  <2>2. Id(<<cleaning, gc.cur - 1>>)' # FREE
    BY <1>5, <2>1, AllocAssumptions DEF Id
  <2>3. ASSUME NEW f \in Entry, f < e + 1 PROVE ~IsDa(V(f)')
    BY <1>1, <1>6, <1>7, <2>3, Geometry
  <2>4. QED
    BY <1>2, <2>2, <2>3 DEF Swept, Collecting, IsDa
<1>9. CursorBack'
  <2>1. CASE free_cursor.bix # cleaning
    BY <1>4, <2>1 DEF CursorBack
  <2>2. CASE free_cursor.bix = cleaning
    <3>1. free_cursor.entry > 0 /\ IsIx(V(free_cursor.entry - 1))
      BY <2>2 DEF ScanInv, CursorBack, Collecting
    <3>2. PICK k \in Entry : k = free_cursor.entry - 1
      <4>1. free_cursor.entry \in 0 .. E /\ E \in Nat
        BY CursorType, AllocAssumption
      <4>2. QED
        BY <3>1, <4>1, Geometry
    <3>3. k # e
      BY <1>1, <3>1, <3>2, Kinds
    <3>4. V(k)' = V(k)
      BY <1>6, <3>3
    <3>5. k = free_cursor'.entry - 1 /\ IsIx(V(k))
      BY <1>4, <3>1, <3>2
    <3>6. QED
      BY <1>4, <3>1, <3>4, <3>5, Kinds DEF CursorBack, IsIx, LookupIds
  <2>3. QED
    BY <2>1, <2>2
<1>10. IndexInHand'
  BY <1>2 DEF IndexInHand
<1>11. QED
  BY <1>8, <1>9, <1>10 DEF ScanInv

LEMMA ScanRestart ==
  ASSUME AllocOK, Types, Linked, ScanInv, GcNoMoreData
  PROVE  View' = View /\ ScanInv'
<1>1. /\ gc.run = "find" /\ moving = Alloc!NoMove /\ NextEntry(DataEntries) = {}
      /\ gc' = [gc EXCEPT !.run = "ix", !.cur = 0] /\ UNCHANGED <<allocVars, page>>
  BY DEF GcNoMoreData
<1>2. gc'.run = "ix" /\ gc'.cur = 0 /\ Collecting
  BY <1>1 DEF Types, GcLocals, Collecting
<1>3. UNCHANGED <<lu, moving, page, cleaning, free_cursor>>
  BY <1>1 DEF allocVars
<1>4. View' = View
  BY <1>1, <1>2, <1>3, UnchangedView
<1>5. \A f : V(f)' = V(f)
  BY <1>3, <1>4 DEF V
<1>6. \A f \in Entry : ~IsDa(V(f))
  <2>1. \A f \in DataEntries : f < gc.cur
    BY <1>1, NoneNext DEF DataEntries
  <2>2. \A f \in Entry : IsDa(V(f)) => f \in DataEntries
    BY <1>1, <1>2, InBlock
  <2>3. QED
    BY <1>1, <2>1, <2>2 DEF ScanInv, Swept
<1>7. Swept'
  BY <1>2, <1>5, <1>6, Geometry DEF Swept, IsDa
<1>8. IndexInHand' /\ CursorBack'
  BY <1>1, <1>2, <1>3, <1>5 DEF IndexInHand, ScanInv, CursorBack, Collecting, IsIx
<1>9. QED
  BY <1>4, <1>7, <1>8 DEF ScanInv

-----------------------------------------------------------------------------
(* spiffs_page_move in the block being emptied: the copy lands behind the  *)
(* pages that are not free, or in another block.                           *)
LEMMA MoveInBlock ==
  ASSUME AllocOK, Types, Linked, Collecting, NEW src, NEW d, Move(src, d)
  PROVE  \E p \in Page :
           /\ UNCHANGED <<lu, cleaning>> /\ src # p /\ src \in Page
           /\ View[p] = Gone /\ moving = Alloc!NoMove
           /\ \A f \in Entry :
                \/ <<cleaning, f>> = src /\ V(f)' = Gone
                \/ /\ <<cleaning, f>> = p /\ V(f)'.id = Id(src)
                   /\ \A g \in Entry : Id(<<cleaning, g>>) # FREE => g < f
                \/ /\ <<cleaning, f>> \notin {src, p}
                   /\ V(f)'.id = V(f).id /\ V(f)'.span = V(f).span
           /\ \A q \in Page \ {src, p} :
                /\ View'[q].id = View[q].id /\ View'[q].span = View[q].span
                /\ View'[q].removed = View[q].removed
           /\ free_cursor'.bix = cleaning =>
                \E k \in Entry : free_cursor'.entry = k + 1 /\ V(k)'.id = Id(src)
<1>0. cleaning # Alloc!NoBlock /\ cleaning \in Block
  BY CleaningType DEF Linked
<1>1. PICK p \in Page :
        /\ p = moving'.dst /\ moving = Alloc!NoMove /\ cleaning' = cleaning
        /\ free_cursor' = [bix |-> p[1], entry |-> p[2] + 1]
        /\ src \in Page /\ src # p
        /\ View[p] = Gone /\ View'[src] = Gone
        /\ View'[p] = PageView(Id(src), d.span, d.removed, RefsAfter(p)')
        /\ \A q \in Page \ {src, p} :
             IF View[q].id \in LookupIds
             THEN View'[q] = PageView(View[q].id, View[q].span, View[q].removed, RefsAfter(q)')
             ELSE View[q] = Gone /\ View'[q] = Gone
        /\ lu' = lu /\ Id(p) = FREE
  BY <1>0, MoveView
<1>2. \A q \in Page \ {src, p} :
        /\ View'[q].id = View[q].id /\ View'[q].span = View[q].span
        /\ View'[q].removed = View[q].removed
  BY <1>1, PageViewParts
<1>3. View'[p].id = Id(src)
  BY <1>1, PageViewParts
<1>4. \A f : V(f)' = View'[<<cleaning, f>>]
  BY <1>1 DEF V
<1>5. ASSUME NEW f \in Entry
      PROVE  \/ <<cleaning, f>> = src /\ V(f)' = Gone
             \/ /\ <<cleaning, f>> = p /\ V(f)'.id = Id(src)
                /\ \A g \in Entry : Id(<<cleaning, g>>) # FREE => g < f
             \/ /\ <<cleaning, f>> \notin {src, p}
                /\ V(f)'.id = V(f).id /\ V(f)'.span = V(f).span
  <2>1. <<cleaning, f>> \in Page
    BY CleaningType
  <2>2. CASE <<cleaning, f>> = src
    BY <1>1, <1>4, <2>2
  <2>3. CASE <<cleaning, f>> = p
    <3>1. p[1] = cleaning /\ p[2] = f
      BY <2>3
    <3>2. \A g \in Entry : Id(<<cleaning, g>>) # FREE => g < f
      BY <1>1, <3>1, LandsBehind
    <3>3. QED
      BY <1>3, <1>4, <2>3, <3>2
  <2>4. CASE <<cleaning, f>> \notin {src, p}
    BY <1>2, <1>4, <2>1, <2>4 DEF V
  <2>5. QED
    BY <2>2, <2>3, <2>4
<1>6. free_cursor'.bix = cleaning =>
        \E k \in Entry : free_cursor'.entry = k + 1 /\ V(k)'.id = Id(src)
  <2>1. p[1] \in Block /\ p[2] \in Entry /\ p = <<p[1], p[2]>>
    BY PageParts
  <2>2. free_cursor'.bix = p[1] /\ free_cursor'.entry = p[2] + 1
    BY <1>1
  <2>3. p[1] = cleaning => <<cleaning, p[2]>> = p
    BY <2>1
  <2>4. p[1] = cleaning => V(p[2])'.id = Id(src)
    BY <1>3, <1>4, <2>3
  <2>5. QED
    BY <2>1, <2>2, <2>4
<1>7. QED
  BY <1>1, <1>2, <1>5, <1>6

LEMMA CursorBackAt ==
  ASSUME free_cursor'.bix = cleaning' =>
           \E k \in Entry :
             /\ free_cursor'.entry = k + 1 /\ V(k)'.id \in LookupIds
             /\ gc'.run # "data" => IsIx(V(k)')
  PROVE  CursorBack'
<1>1. CASE free_cursor'.bix # cleaning'
  BY <1>1 DEF CursorBack
<1>2. CASE free_cursor'.bix = cleaning'
  <2>1. PICK k \in Entry :
          /\ free_cursor'.entry = k + 1 /\ V(k)'.id \in LookupIds
          /\ gc'.run # "data" => IsIx(V(k)')
    BY <1>2
  <2>2. free_cursor'.entry - 1 = k /\ free_cursor'.entry > 0
    BY <2>1, Geometry
  <2>3. QED
    BY <2>1, <2>2 DEF CursorBack, IsIx
<1>3. QED
  BY <1>1, <1>2

LEMMA ScanMoveData ==
  ASSUME AllocOK, Types, Linked, ScanInv, GcMoveData
  PROVE  ScanInv'
<1>1. gc.run = "data" /\ Collecting
  BY DEF GcMoveData, Collecting
<1>2. PICK e \in NextEntry(SameIndex) :
        /\ Move(<<cleaning, e>>, page[<<cleaning, e>>])
        /\ gc' = [gc EXCEPT !.cur = e + 1,
                            !.work[page[<<cleaning, e>>].span % PerIx] = moving'.dst]
  BY DEF GcMoveData
<1>3. /\ gc'.run = "data" /\ gc'.cur = e + 1 /\ gc'.stored = gc.stored /\ gc'.obj = gc.obj
      /\ gc'.spix = gc.spix /\ gc'.objix = gc.objix /\ gc.stored \in 0 .. E
  BY <1>1, <1>2 DEF Types, GcLocals
<1>4. /\ gc.obj \in Objs /\ gc.objix \in Page
      /\ View[gc.objix].id = <<gc.obj, "ix">> /\ View[gc.objix].span = gc.spix
      /\ ~View[gc.objix].removed
  BY <1>1 DEF ScanInv, IndexInHand
<1>5. /\ e \in SameIndex /\ e \in Entry /\ <<cleaning, e>> \in Page
      /\ \A f \in SameIndex : f < e + 1 /\ f # e => f < gc.cur
  BY <1>1, <1>2, FirstNext DEF SameIndex
<1>6. lu[cleaning][e] = <<gc.obj, "da">> /\ Id(<<cleaning, e>>) = <<gc.obj, "da">>
      /\ <<gc.obj, "da">> \in LookupIds /\ <<gc.obj, "da">> # FREE
  BY <1>4, <1>5, AllocAssumptions DEF SameIndex, Id, LookupIds
<1>7. PICK p \in Page :
           /\ UNCHANGED <<lu, cleaning>> /\ <<cleaning, e>> # p
           /\ View[p] = Gone /\ moving = Alloc!NoMove
           /\ \A f \in Entry :
                \/ <<cleaning, f>> = <<cleaning, e>> /\ V(f)' = Gone
                \/ /\ <<cleaning, f>> = p /\ V(f)'.id = Id(<<cleaning, e>>)
                   /\ \A g \in Entry : Id(<<cleaning, g>>) # FREE => g < f
                \/ /\ <<cleaning, f>> \notin {<<cleaning, e>>, p}
                   /\ V(f)'.id = V(f).id /\ V(f)'.span = V(f).span
           /\ \A q \in Page \ {<<cleaning, e>>, p} :
                /\ View'[q].id = View[q].id /\ View'[q].span = View[q].span
                /\ View'[q].removed = View[q].removed
           /\ free_cursor'.bix = cleaning =>
                \E k \in Entry : free_cursor'.entry = k + 1 /\ V(k)'.id = Id(<<cleaning, e>>)
  BY <1>1, <1>2, MoveInBlock
<1>8. Gone.id # <<gc.obj, "da">> /\ Gone.id # <<gc.obj, "ix">> /\ \A o \in Objs : Gone.id # <<o, "da">>
  BY <1>4, PageViewParts DEF LookupIds
<1>9. IndexInHand'
  <2>1. gc.objix \notin {<<cleaning, e>>, p}
    <3>1. V(e).id = <<gc.obj, "da">>
      BY <1>1, <1>5, <1>6, <1>7, InBlock
    <3>2. QED
      BY <1>4, <1>7, <1>8, <3>1 DEF V
  <2>2. QED
    BY <1>3, <1>4, <1>7, <2>1 DEF IndexInHand
<1>10. CursorBack'
  BY <1>3, <1>6, <1>7, CursorBackAt
<1>11. Swept'
  <2>1. Id(<<cleaning, gc.cur - 1>>)' # FREE
    <3>1. gc'.cur - 1 = e
      BY <1>3, <1>5, Geometry
    <3>2. QED
      BY <1>6, <1>7, <3>1 DEF Id
  <2>2. gc'.stored > 0 => Id(<<cleaning, gc.stored - 1>>)' # FREE
    BY <1>1, <1>3, <1>7 DEF ScanInv, Swept, Id
  <2>3. ASSUME NEW f \in Entry, f < gc.stored, IsDa(V(f)')
        PROVE  V(f)'.id = <<gc.obj, "da">> /\ V(f)'.span \div PerIx = gc.spix
    <3>1. <<cleaning, f>> # <<cleaning, e>>
      BY <1>7, <1>8, <2>3 DEF IsDa
    <3>2. <<cleaning, f>> # p
      <4>1. gc.stored - 1 \in Entry /\ Id(<<cleaning, gc.stored - 1>>) # FREE /\ f \in Nat
            /\ gc.stored \in Nat
        BY <1>1, <1>3, <2>3, Geometry, AllocAssumption DEF ScanInv, Swept
      <4>2. ~(gc.stored - 1 < f)
        BY <2>3, <4>1
      <4>3. QED
        BY <1>7, <3>1, <4>1, <4>2
    <3>3. V(f)'.id = V(f).id /\ V(f)'.span = V(f).span
      BY <1>7, <3>1, <3>2
    <3>4. IsDa(V(f))
      BY <2>3, <3>3 DEF IsDa
    <3>5. Same(V(f))
      BY <1>1, <2>3, <3>4 DEF ScanInv, Swept
    <3>6. QED
      BY <3>3, <3>5 DEF Same
  <2>4. ASSUME NEW f \in Entry, f < e + 1,
               V(f)'.id = <<gc.obj, "da">> /\ V(f)'.span \div PerIx = gc.spix
        PROVE  FALSE
    <3>1. f # e
      BY <1>7, <1>8, <2>4
    <3>2. <<cleaning, f>> # p
      <4>1. ~(e < f)
        BY <1>5, <2>4, Geometry
      <4>2. QED
        BY <1>5, <1>6, <1>7, <3>1, <4>1
    <3>3. Same(V(f))
      BY <1>7, <2>4, <3>1, <3>2 DEF Same
    <3>4. f \in SameIndex
      BY <1>1, <1>4, <1>7, <3>3, InBlock
    <3>5. f < gc.cur
      BY <1>5, <2>4, <3>1, <3>4
    <3>6. QED
      BY <1>1, <3>3, <3>5 DEF ScanInv, Swept
  <2>5. QED
    BY <1>3, <2>1, <2>2, <2>3, <2>4 DEF Swept, Same, IsDa
<1>12. QED
  BY <1>9, <1>10, <1>11 DEF ScanInv

LEMMA ScanStoreIndex ==
  ASSUME AllocOK, Types, Linked, ScanInv, GcStoreIndex
  PROVE  ScanInv'
<1>1. /\ gc.run = "data" /\ Collecting /\ moving = Alloc!NoMove /\ NextEntry(SameIndex) = {}
      /\ Move(gc.objix, Content(gc.spix, gc.work))
      /\ gc' = [gc EXCEPT !.run = "find", !.cur = gc.stored]
  BY DEF GcStoreIndex, Collecting
<1>2. gc'.run = "find" /\ gc'.cur = gc.stored /\ gc.stored \in 0 .. E
  BY <1>1 DEF Types, GcLocals
<1>3. /\ gc.obj \in Objs /\ gc.objix \in Page /\ View[gc.objix].id = <<gc.obj, "ix">>
  BY <1>1 DEF ScanInv, IndexInHand
<1>4. Id(gc.objix) = <<gc.obj, "ix">>
  <2>1. View[gc.objix].id # DELETED
    BY <1>3, AllocAssumptions DEF LookupIds
  <2>2. IdAfter(gc.objix) = Id(gc.objix)
    BY <1>1, ViewWithoutMove
  <2>3. QED
    BY <1>3, <2>1, <2>2, ViewAt
<1>5. PICK p \in Page :
           /\ UNCHANGED <<lu, cleaning>>
           /\ \A f \in Entry :
                \/ <<cleaning, f>> = gc.objix /\ V(f)' = Gone
                \/ /\ <<cleaning, f>> = p /\ V(f)'.id = Id(gc.objix)
                   /\ \A g \in Entry : Id(<<cleaning, g>>) # FREE => g < f
                \/ /\ <<cleaning, f>> \notin {gc.objix, p}
                   /\ V(f)'.id = V(f).id /\ V(f)'.span = V(f).span
           /\ free_cursor'.bix = cleaning =>
                \E k \in Entry : free_cursor'.entry = k + 1 /\ V(k)'.id = Id(gc.objix)
  BY <1>1, MoveInBlock
<1>6. ~IsDa(Gone)
  BY PageViewParts, Kinds
<1>7. \A v : v.id = Id(gc.objix) => IsIx(v) /\ ~IsDa(v) /\ v.id \in LookupIds
  BY <1>3, <1>4 DEF IsIx, IsDa, LookupIds
<1>8. Swept'
  <2>1. gc'.cur > 0 => Id(<<cleaning, gc.cur - 1>>)' # FREE
    BY <1>1, <1>2, <1>5 DEF ScanInv, Swept, Id
  <2>2. ASSUME NEW f \in Entry, f < gc.stored, IsDa(V(f)') PROVE FALSE
    <3>1. <<cleaning, f>> \notin {gc.objix, p} /\ V(f)'.id = V(f).id
      BY <1>5, <1>6, <1>7, <2>2
    <3>2. IsDa(V(f))
      BY <2>2, <3>1 DEF IsDa
    <3>3. Same(V(f))
      BY <1>1, <2>2, <3>2 DEF ScanInv, Swept
    <3>4. f \in SameIndex
      BY <1>1, <1>3, <3>3, InBlock
    <3>5. f < gc.cur
      BY <1>1, <3>4, NoneNext DEF SameIndex
    <3>6. QED
      BY <1>1, <3>3, <3>5 DEF ScanInv, Swept
  <2>3. QED
    BY <1>2, <2>1, <2>2 DEF Swept, IsDa
<1>9. CursorBack'
  BY <1>5, <1>7, CursorBackAt
<1>10. IndexInHand'
  BY <1>2 DEF IndexInHand
<1>11. QED
  BY <1>8, <1>9, <1>10 DEF ScanInv

LEMMA ScanMoveIndex ==
  ASSUME AllocOK, Types, Linked, ScanInv, GcMoveIndex
  PROVE  ScanInv'
<1>1. gc.run = "ix" /\ Collecting
  BY DEF GcMoveIndex, Collecting
<1>2. PICK e \in NextEntry(IndexEntries) :
        /\ Move(<<cleaning, e>>, page[<<cleaning, e>>])
        /\ gc' = [gc EXCEPT !.cur = e + 1]
  BY DEF GcMoveIndex
<1>3. gc'.run = "ix" /\ gc'.cur = e + 1
  BY <1>1, <1>2 DEF Types, GcLocals
<1>4. /\ e \in IndexEntries /\ e \in Entry
      /\ \A f \in IndexEntries : f < e + 1 /\ f # e => f < gc.cur
  BY <1>1, <1>2, FirstNext DEF IndexEntries
<1>5. PICK o \in Objs : Id(<<cleaning, e>>) = <<o, "ix">>
  BY <1>4 DEF IndexEntries, Id
<1>6. PICK p \in Page :
           /\ UNCHANGED <<lu, cleaning>> /\ <<cleaning, e>> # p /\ moving = Alloc!NoMove
           /\ \A f \in Entry :
                \/ <<cleaning, f>> = <<cleaning, e>> /\ V(f)' = Gone
                \/ /\ <<cleaning, f>> = p /\ V(f)'.id = Id(<<cleaning, e>>)
                   /\ \A g \in Entry : Id(<<cleaning, g>>) # FREE => g < f
                \/ /\ <<cleaning, f>> \notin {<<cleaning, e>>, p}
                   /\ V(f)'.id = V(f).id /\ V(f)'.span = V(f).span
           /\ free_cursor'.bix = cleaning =>
                \E k \in Entry : free_cursor'.entry = k + 1 /\ V(k)'.id = Id(<<cleaning, e>>)
  BY <1>1, <1>2, MoveInBlock
<1>7. ~IsDa(Gone) /\ ~IsIx(Gone)
  BY PageViewParts, Kinds
<1>8. \A v : v.id = Id(<<cleaning, e>>) => IsIx(v) /\ ~IsDa(v) /\ v.id \in LookupIds
  BY <1>5 DEF IsIx, IsDa, LookupIds
<1>9. Id(<<cleaning, e>>) # FREE
  BY <1>5, AllocAssumptions DEF LookupIds
<1>10. Swept'
  <2>1. Id(<<cleaning, gc.cur - 1>>)' # FREE
    <3>1. gc'.cur - 1 = e
      BY <1>3, <1>4, Geometry
    <3>2. QED
      BY <1>6, <1>9, <3>1 DEF Id
  <2>2. ASSUME NEW f \in Entry, IsDa(V(f)') PROVE FALSE
    <3>1. V(f)'.id = V(f).id
      BY <1>6, <1>7, <1>8, <2>2
    <3>2. IsDa(V(f))
      BY <2>2, <3>1 DEF IsDa
    <3>3. QED
      BY <1>1, <3>2 DEF ScanInv, Swept
  <2>3. ASSUME NEW f \in Entry, f < e + 1, IsIx(V(f)') PROVE FALSE
    <3>1. f # e
      BY <1>6, <1>7, <2>3
    <3>2. <<cleaning, f>> # p
      <4>1. ~(e < f)
        BY <1>4, <2>3, Geometry
      <4>2. QED
        BY <1>4, <1>6, <1>9, <3>1, <4>1
    <3>3. IsIx(V(f))
      BY <1>6, <2>3, <3>1, <3>2 DEF IsIx
    <3>4. f \in IndexEntries
      BY <1>1, <1>6, <3>3, InBlock
    <3>5. QED
      BY <1>1, <1>4, <2>3, <3>1, <3>3, <3>4 DEF ScanInv, Swept
  <2>4. QED
    BY <1>3, <2>1, <2>2, <2>3 DEF Swept, IsDa, IsIx
<1>11. CursorBack'
  BY <1>6, <1>8, CursorBackAt
<1>12. IndexInHand'
  BY <1>3 DEF IndexInHand
<1>13. QED
  BY <1>10, <1>11, <1>12 DEF ScanInv

-----------------------------------------------------------------------------
(* The block is erased when nothing in it is in use.                       *)
LEMMA NothingLeft ==
  ASSUME AllocOK, Types, Linked, ScanInv, GcEraseBlock
  PROVE  /\ \A q \in Page : q[1] = cleaning => Id(q) \notin LookupIds
         /\ free_cursor.bix # cleaning
         /\ Alloc!AllocatedIn({cleaning}) = 0
<1>1. /\ gc.run = "ix" /\ Collecting /\ moving = Alloc!NoMove /\ NextEntry(IndexEntries) = {}
  BY DEF GcEraseBlock, Collecting
<1>2. \A e \in Entry : ~IsDa(V(e)) /\ ~IsIx(V(e))
  <2>1. \A e \in IndexEntries : e < gc.cur
    BY <1>1, NoneNext DEF IndexEntries
  <2>2. \A e \in Entry : IsIx(V(e)) => e \in IndexEntries
    BY <1>1, InBlock
  <2>3. QED
    BY <1>1, <2>1, <2>2 DEF ScanInv, Swept
<1>3. \A e \in Entry : V(e).id \notin LookupIds
  BY <1>2, Kinds
<1>4. \A e \in Entry : lu[cleaning][e] \notin LookupIds
  BY <1>1, <1>3, InBlock
<1>5. \A q \in Page : q[1] = cleaning => Id(q) \notin LookupIds
  BY <1>4, PageParts DEF Id
<1>6. free_cursor.bix # cleaning
  <2>1. free_cursor.entry > 0 => free_cursor.entry - 1 \in Entry
    BY CursorType, Geometry, AllocAssumption
  <2>2. QED
    BY <1>1, <1>3, <2>1 DEF ScanInv, CursorBack
<1>7. Alloc!AllocatedIn({cleaning}) = 0
  <2>1. {p \in Alloc!UsedPages(lu) : p[1] \in {cleaning}} = {}
    BY <1>5, Geometry DEF Alloc!UsedPages, Id
  <2>2. Alloc!Cardinality({}) = Cardinality({})
    BY DEF Alloc!Cardinality, Cardinality
  <2>3. QED
    BY <2>1, <2>2, FS_EmptySet DEF Alloc!AllocatedIn
<1>8. QED
  BY <1>5, <1>6, <1>7

(* Every step is one of the allocator's.                                   *)
LEMMA ObjIds ==
  ASSUME Types, CallOK, NEW op \in {"create", "append", "modify", "remove"}, call.op = op
  PROVE  <<call.obj, "ix">> \in LookupIds /\ <<call.obj, "da">> \in LookupIds
BY DEF CallOK, LookupIds

LEMMA StepTypes ==
  ASSUME AllocOK
  PROVE  /\ \A p : Alloc!Delete(p) => p \in Alloc!Page
         /\ \A p : Alloc!MoveCopy(p) => p \in Alloc!Page
BY DEF Alloc!Delete, Alloc!MoveCopy, Alloc!UsedPages

LEMMA RefinesStep ==
  ASSUME AllocOK, Types, Linked, CallOK, ScanInv, [Next]_vars
  PROVE  [Alloc!Next]_(Alloc!vars) /\ (Alloc!GcErase => free_cursor.bix # cleaning)
<1>1. UNCHANGED allocVars => UNCHANGED Alloc!vars
  BY DEF allocVars, Alloc!vars, Alloc!ram
<1>2. [Alloc!Next]_(Alloc!vars)
  <2>1. CASE GcCheckEnough \/ GcCheckFull
    BY <1>1, <2>1 DEF GcCheckEnough, GcCheckFull
  <2>2. CASE GcCheckRun
    BY <2>2, Geometry DEF GcCheckRun, Alloc!Next
  <2>3. CASE CollectorStep
    <3>1. CASE GcFindData \/ GcNoMoreData
      <4>1. UNCHANGED allocVars \/ \E p : Alloc!Delete(p)
        BY <3>1 DEF GcFindData, GcNoMoreData
      <4>2. QED
        BY <1>1, <4>1, StepTypes DEF Alloc!Next
    <3>2. CASE GcMoveData \/ GcStoreIndex \/ GcMoveIndex
      <4>1. \E src : Alloc!MoveCopy(src)
        BY <3>2 DEF GcMoveData, GcStoreIndex, GcMoveIndex, Move
      <4>2. QED
        BY <4>1, StepTypes DEF Alloc!Next
    <3>3. CASE GcEraseBlock
      <4>1. Alloc!GcErase
        BY <3>3, NothingLeft DEF GcEraseBlock, Alloc!GcErase
      <4>2. QED
        BY <4>1 DEF Alloc!Next
    <3>4. QED
      BY <2>3, <3>1, <3>2, <3>3 DEF CollectorStep
  <2>4. CASE BodyStep
    <3>1. CASE CreateBody \/ AppendIndex \/ AppendData \/ ModifyData
      <4>1. Alloc!Allocate(<<call.obj, "ix">>) \/ Alloc!Allocate(<<call.obj, "da">>)
        BY <3>1 DEF CreateBody, AppendIndex, AppendData, ModifyData, AllocatePage
      <4>2. <<call.obj, "ix">> \in LookupIds /\ <<call.obj, "da">> \in LookupIds
        BY <3>1, ObjIds DEF CreateBody, AppendIndex, AppendData, ModifyData, Body
      <4>3. QED
        BY <4>1, <4>2 DEF Alloc!Next
    <3>2. CASE AppendInPlace
      BY <1>1, <3>2 DEF AppendInPlace
    <3>3. CASE ModifyDrop \/ RemoveData \/ RemoveIndex
      <4>1. \E p : Alloc!Delete(p)
        BY <3>3 DEF ModifyDrop, RemoveData, RemoveIndex
      <4>2. QED
        BY <4>1, StepTypes DEF Alloc!Next
    <3>4. CASE AppendHeader \/ ModifyIndex
      <4>1. \E src : Alloc!MoveCopy(src)
        BY <3>4 DEF AppendHeader, ModifyIndex, Move
      <4>2. QED
        BY <4>1, StepTypes DEF Alloc!Next
    <3>5. QED
      BY <2>4, <3>1, <3>2, <3>3, <3>4 DEF BodyStep
  <2>5. CASE MoveMark \/ MoveDrop \/ GcQuick \/ Mount \/ PowerLoss
    BY <2>5 DEF MoveMark, MoveDrop, GcQuick, Mount, PowerLoss, Alloc!Next
  <2>6. CASE \/ \E o \in Objs : Create(o) \/ Append(o) \/ Remove(o) \/ \E s \in Span : Modify(o, s)
             \/ \E n \in GcSizes : UserGc(n)
    BY <1>1, <2>6 DEF Create, Append, Remove, Modify, UserGc, Begin
  <2>7. CASE UNCHANGED vars
    BY <1>1, <2>7 DEF vars
  <2>8. QED
    BY <2>1, <2>2, <2>3, <2>4, <2>5, <2>6, <2>7 DEF Next
<1>3. ASSUME Alloc!GcErase PROVE free_cursor.bix # cleaning
  <2>1. cleaning # Alloc!NoBlock /\ cleaning' = Alloc!NoBlock /\ mounted' /\ mounted
    BY <1>3 DEF Alloc!GcErase, Alloc!EraseCleaned
  <2>2. GcEraseBlock
    <3>1. Collecting
      BY <2>1 DEF Linked
    <3>2. cleaning' # cleaning
      BY <2>1
    <3>3. \A op, o, s, n : ~Begin(op, o, s, n)
      BY <3>2 DEF Begin, allocVars
    <3>4. \A o \in Objs : ~Remove(o)
      BY <3>2 DEF Remove, allocVars
    <3>5. ~(GcCheckEnough \/ GcCheckFull \/ AppendInPlace)
      BY <3>2 DEF GcCheckEnough, GcCheckFull, AppendInPlace, allocVars
    <3>6. ~GcCheckRun
      BY <3>1 DEF GcCheckRun, Collecting
    <3>7. ~\E src : Alloc!MoveCopy(src)
      BY <3>2 DEF Alloc!MoveCopy
    <3>8. ~\E p : Alloc!Delete(p)
      BY <3>2, StepDelete
    <3>9. ~\E id : Alloc!Allocate(id)
      BY <3>2 DEF Alloc!Allocate
    <3>10. ~(GcFindData \/ GcNoMoreData \/ GcMoveData \/ GcStoreIndex \/ GcMoveIndex)
      BY <3>2, <3>7, <3>8
         DEF GcFindData, GcNoMoreData, GcMoveData, GcStoreIndex, GcMoveIndex, Move, allocVars
    <3>11. ~BodyStep
      BY <3>5, <3>7, <3>8, <3>9
         DEF BodyStep, CreateBody, AppendIndex, AppendData, AllocatePage, AppendHeader, Move,
             ModifyData, ModifyDrop, ModifyIndex, RemoveData, RemoveIndex
    <3>12. ~MoveMark /\ ~MoveDrop
      BY <3>2 DEF MoveMark, MoveDrop, Alloc!MoveMark, Alloc!MoveDrop, Alloc!PageDelete
    <3>13. ~GcQuick /\ ~Mount /\ ~PowerLoss
      BY <2>1, <3>2 DEF GcQuick, Mount, PowerLoss, Alloc!GcQuick, Alloc!Mount, Alloc!PowerLoss,
                        Alloc!RamLost
    <3>14. ~UNCHANGED vars
      BY <3>2 DEF vars, allocVars
    <3>15. QED
      BY <3>3, <3>4, <3>5, <3>6, <3>10, <3>11, <3>12, <3>13, <3>14
         DEF Next, CollectorStep, Create, Append, Modify, UserGc
  <2>3. QED
    BY <2>2, NothingLeft
<1>4. QED
  BY <1>2, <1>3

-----------------------------------------------------------------------------
(* While a page is being moved nothing else happens but a loss of power.   *)
LEMMA MovingSteps ==
  ASSUME AllocOK, Types, Linked, CallOK, [Next]_vars, moving # Alloc!NoMove
  PROVE  MoveMark \/ MoveDrop \/ PowerLoss \/ UNCHANGED vars
<1>1. ~Alloc!Idle
  BY DEF Alloc!Idle
<1>2. ~GcCheckEnough /\ ~GcCheckFull /\ ~GcCheckRun
  <2>1. gc.run \in {"off", "again"} => call.step = "last"
    BY DEF Linked, Collecting
  <2>2. \A b : ~Alloc!GcStart(b)
    BY <1>1 DEF Alloc!GcStart
  <2>3. QED
    BY <2>1, <2>2 DEF GcCheckEnough, GcCheckFull, GcCheckRun
<1>3. /\ \A p : ~Alloc!Delete(p) /\ ~Alloc!MoveCopy(p)
      /\ \A id : ~Alloc!Allocate(id)
  BY <1>1 DEF Alloc!Delete, Alloc!MoveCopy, Alloc!Allocate
<1>4. ~CollectorStep
  BY <1>3 DEF CollectorStep, GcFindData, GcNoMoreData, GcMoveData, GcStoreIndex, GcMoveIndex,
              GcEraseBlock, Move
<1>5. ~BodyStep
  BY DEF BodyStep, CreateBody, AppendIndex, AppendData, AppendInPlace, AppendHeader,
         ModifyData, ModifyDrop, ModifyIndex, RemoveData, RemoveIndex, Body
<1>6. /\ \A op, o, s, n : ~Begin(op, o, s, n)
      /\ \A o \in Objs : ~Remove(o)
  BY <1>1 DEF Begin, Remove, Ready
<1>7. ~GcQuick /\ ~Mount
  <2>1. mounted
    BY DEF AllocOK, Alloc!UnmountedInv
  <2>2. QED
    BY <1>1, <2>1 DEF GcQuick, Ready, Mount, Alloc!Mount
<1>8. QED
  BY <1>2, <1>4, <1>5, <1>6, <1>7 DEF Next, Create, Append, Modify, UserGc

LEMMA MoveCopied ==
  ASSUME AllocOK, Types, NEW src, NEW d, Move(src, d),
         d.span = page[src].span, d.removed = page[src].removed
  PROVE  Copied'
<1>1. PICK p \in Page :
        /\ moving' = [stage |-> "copied", src |-> src, dst |-> p]
        /\ src \in Page /\ src # p /\ page' = [page EXCEPT ![p] = d]
  BY MoveView
<1>2. moving'.stage = "copied" /\ moving'.src = src /\ moving'.dst = p
  BY <1>1
<1>3. page'[p] = d /\ page'[src] = page[src]
  BY <1>1 DEF Types
<1>4. QED
  BY <1>1, <1>2, <1>3 DEF Copied


LEMMA CopiedInductive ==
  ASSUME AllocOK, Types, Linked, CallOK, ScanInv, Copied, [Next]_vars
  PROVE  Copied'
<1>a. NoGc.run = "off" /\ \A s, r : Content(s, r).span = s /\ Content(s, r).removed = FALSE
  BY NoParts DEF Content
<1>b. moving' = Alloc!NoMove => Copied'
  BY DEF Copied, Alloc!NoMove
<1>1. CASE moving # Alloc!NoMove
  <2>1. CASE MoveMark
    BY <2>1, MarkView
  <2>2. CASE MoveDrop \/ PowerLoss
    BY <1>b, <2>2 DEF MoveDrop, PowerLoss, Alloc!MoveDrop, Alloc!PowerLoss, Alloc!RamLost
  <2>3. CASE UNCHANGED vars
    BY <2>3 DEF Copied, Id, vars, allocVars
  <2>4. QED
    BY <1>1, <2>1, <2>2, <2>3, MovingSteps
<1>2. CASE moving = Alloc!NoMove /\ moving' # Alloc!NoMove
  <2>1. CASE GcMoveData \/ GcMoveIndex
    <3>1. PICK src : Move(src, page[src])
      BY <2>1 DEF GcMoveData, GcMoveIndex
    <3>2. QED
      BY <3>1, MoveCopied
  <2>2. CASE GcStoreIndex
    <3>1. Move(gc.objix, Content(gc.spix, gc.work)) /\ gc.run = "data"
      BY <2>2 DEF GcStoreIndex
    <3>2. View[gc.objix].span = gc.spix /\ ~View[gc.objix].removed /\ gc.objix \in Page
      BY <3>1 DEF ScanInv, IndexInHand
    <3>3. page[gc.objix].span = gc.spix /\ page[gc.objix].removed = FALSE
      <4>1. View[gc.objix].span = page[gc.objix].span /\ View[gc.objix].removed = page[gc.objix].removed
        BY <3>1, MoveView
      <4>2. QED
        BY <3>2, <4>1, PageType
    <3>4. QED
      BY <1>a, <3>1, <3>3, MoveCopied
  <2>3. CASE AppendHeader
    <3>1. PICK ix \in Page :
            /\ Found(call.obj, "ix", 0, ix)
            /\ Move(ix, IF call.step = "size" THEN page[ix]
                        ELSE Content(0, [page[ix].refs EXCEPT ![call.span] = call.pix]))
      BY <2>3 DEF AppendHeader
    <3>2. page[ix].span = 0 /\ page[ix].removed = FALSE
      BY <3>1, PageType DEF Found, Live
    <3> DEFINE d == IF call.step = "size" THEN page[ix]
                    ELSE Content(0, [page[ix].refs EXCEPT ![call.span] = call.pix])
    <3>3. d.span = page[ix].span /\ d.removed = page[ix].removed
      BY <1>a, <3>2
    <3>4. Move(ix, d)
      BY <3>1
    <3> HIDE DEF d
    <3>5. QED
      BY <3>3, <3>4, MoveCopied
  <2>4. CASE ModifyIndex
    <3>1. PICK ix \in Page :
            /\ Found(call.obj, "ix", call.span \div PerIx, ix)
            /\ Move(ix, Content(page[ix].span,
                                [page[ix].refs EXCEPT ![call.span % PerIx] = call.pix]))
      BY <2>4 DEF ModifyIndex
    <3> DEFINE d == Content(page[ix].span,
                            [page[ix].refs EXCEPT ![call.span % PerIx] = call.pix])
    <3>2. d.span = page[ix].span /\ d.removed = page[ix].removed
      BY <1>a, <3>1, PageType DEF Found
    <3>3. Move(ix, d)
      BY <3>1
    <3> HIDE DEF d
    <3>4. QED
      BY <3>2, <3>3, MoveCopied
  <2>5. QED
    <3>1. /\ \A p : ~Alloc!Delete(p)
          /\ \A id : ~Alloc!Allocate(id)
          /\ ~UNCHANGED allocVars
      BY <1>2 DEF Alloc!Delete, Alloc!Allocate, allocVars
    <3>2. ~(GcCheckEnough \/ GcCheckFull \/ GcCheckRun)
      BY <1>2, <3>1 DEF GcCheckEnough, GcCheckFull, GcCheckRun, Alloc!GcStart
    <3>3. ~(GcFindData \/ GcNoMoreData \/ GcEraseBlock)
      BY <1>2, <3>1 DEF GcFindData, GcNoMoreData, GcEraseBlock, Alloc!EraseCleaned
    <3>4. ~(CreateBody \/ AppendIndex \/ AppendData \/ AppendInPlace \/ ModifyData \/ ModifyDrop
            \/ RemoveData \/ RemoveIndex)
      BY <3>1 DEF CreateBody, AppendIndex, AppendData, AppendInPlace, ModifyData, ModifyDrop,
                  RemoveData, RemoveIndex, AllocatePage
    <3>5. ~(MoveMark \/ MoveDrop \/ GcQuick \/ Mount \/ PowerLoss \/ UNCHANGED vars)
      BY <1>2 DEF MoveMark, MoveDrop, GcQuick, Mount, PowerLoss, Alloc!MoveMark, Alloc!MoveDrop,
                  Alloc!GcQuick, Alloc!Mount, Alloc!PowerLoss, Alloc!RamLost, Alloc!NoMove,
                  vars, allocVars
    <3>6. (\A op, o, s, n : ~Begin(op, o, s, n)) /\ \A o \in Objs : ~Remove(o)
      BY <3>1 DEF Begin, Remove
    <3>7. QED
      BY <2>1, <2>2, <2>3, <2>4, <3>2, <3>3, <3>4, <3>5, <3>6
         DEF Next, CollectorStep, BodyStep, Create, Append, Modify, UserGc
<1>3. QED
  BY <1>b, <1>1, <1>2

-----------------------------------------------------------------------------
(* Every step keeps the invariant of the scan.                             *)
LEMMA NoScan == ASSUME gc'.run \notin {"find", "data", "ix"} PROVE ScanInv'
BY DEF ScanInv, Swept, IndexInHand, CursorBack, Collecting

LEMMA ScanInductive ==
  ASSUME AllocOK, Types, Linked, CallOK, ScanInv, Copied, [Next]_vars
  PROVE  ScanInv'
<1>a. NoGc.run = "off"
  BY NoParts
<1>1. CASE MoveMark
  <2>1. View' = View
    BY <1>1, MarkView
  <2>2. \A q \in Page : Id(q) # FREE => Id(q)' # FREE
    <3>1. moving.stage # "none" /\ Id(moving.src) # FREE
      BY <1>1, MovedPages, AllocAssumptions DEF MoveMark, Alloc!MoveMark
    <3>2. QED
      BY <1>1, <3>1, StepMark DEF MoveMark
  <2>3. QED
    BY <1>1, <2>1, <2>2, StepMark, ScanSame DEF MoveMark
<1>2. CASE MoveDrop
  <2>1. View' = View
    BY <1>2, DropView
  <2>2. \A q \in Page : Id(q) # FREE => Id(q)' # FREE
    BY <1>2, StepDrop, AllocAssumptions DEF MoveDrop
  <2>3. QED
    BY <1>2, <2>1, <2>2, StepDrop, ScanSame DEF MoveDrop
<1>3. CASE UNCHANGED vars
  <2>1. View' = View
    BY <1>3, SameView DEF IdAfter, RefsAfter, Id, vars, allocVars
  <2>2. QED
    BY <1>3, <2>1, ScanSame DEF Id, vars, allocVars
<1>4. CASE GcCheckEnough \/ GcCheckFull \/ PowerLoss
  BY <1>a, <1>4, NoScan DEF GcCheckEnough, GcCheckFull, PowerLoss
<1>5. CASE GcCheckRun
  BY <1>5, ScanStart
<1>6. CASE GcFindData
  <2>1. PICK e \in NextEntry(DataEntries) :
          \/ \E ix \in Page :
               /\ Found(Id(<<cleaning, e>>)[1], "ix", page[<<cleaning, e>>].span \div PerIx, ix)
               /\ gc' = [gc EXCEPT !.run = "data", !.cur = 0, !.stored = e + 1,
                                   !.obj = Id(<<cleaning, e>>)[1],
                                   !.spix = page[<<cleaning, e>>].span \div PerIx,
                                   !.objix = ix, !.work = page[ix].refs]
               /\ UNCHANGED <<allocVars, page>>
          \/ /\ Alloc!Delete(<<cleaning, e>>)
             /\ page' = [page EXCEPT ![<<cleaning, e>>] = Blank]
             /\ gc' = [gc EXCEPT !.cur = e + 1]
    BY <1>6 DEF GcFindData
  <2>2. gc.run = "find" /\ moving = Alloc!NoMove
    BY <1>6 DEF GcFindData
  <2>3. QED
    BY <2>1, <2>2, ScanLoad, ScanOrphan
<1>7. CASE GcNoMoreData \/ GcMoveData \/ GcStoreIndex \/ GcMoveIndex
  BY <1>7, ScanRestart, ScanMoveData, ScanStoreIndex, ScanMoveIndex
<1>8. CASE GcEraseBlock
  <2>1. gc'.run \in {"again", "off"}
    BY <1>a, <1>8 DEF GcEraseBlock, Types, GcLocals
  <2>2. QED
    BY <2>1, NoScan
<1>9. CASE BodyStep
  <2>1. gc' = gc /\ call.step # "check"
    BY <1>9 DEF BodyStep, CreateBody, AppendIndex, AppendData, AppendInPlace, AppendHeader,
                ModifyData, ModifyDrop, ModifyIndex, RemoveData, RemoveIndex, Body
  <2>2. gc'.run = "off"
    BY <2>1 DEF Linked
  <2>3. QED
    BY <2>2, NoScan
<1>10. ASSUME NEW op, NEW o, NEW s, NEW n, Begin(op, o, s, n) PROVE ScanInv'
  <2>1. gc'.run = "off"
    BY <1>10 DEF Begin, NoGc
  <2>2. QED
    BY <2>1, NoScan
<1>11. CASE GcQuick \/ Mount \/ \E o \in Objs : Remove(o)
  <2>1. gc' = gc /\ call.step # "check"
    BY <1>11, NoParts DEF GcQuick, Mount, Remove, Ready, Alloc!Mount, Linked
  <2>2. gc'.run = "off"
    BY <2>1 DEF Linked
  <2>3. QED
    BY <2>2, NoScan
<1>12. QED
  BY <1>1, <1>2, <1>3, <1>4, <1>5, <1>6, <1>7, <1>8, <1>9, <1>10, <1>11
     DEF Next, CollectorStep, Create, Append, Modify, UserGc

-----------------------------------------------------------------------------
(* The invariant, and what follows from it.                                *)
IInv == AllocOK /\ Types /\ Linked /\ CallOK /\ Copied /\ ScanInv

LEMMA InitInvariant == Init => IInv
<1> SUFFICES ASSUME Init PROVE IInv
  OBVIOUS
<1>1. AllocOK /\ Types
  BY AllocInit, InitTypes DEF Init
<1>2. /\ NoGc.run = "off" /\ NoCall.op = "none" /\ gc = NoGc /\ call = NoCall
      /\ moving = Alloc!NoMove /\ cleaning = Alloc!NoBlock
  BY NoParts DEF Init, Alloc!Init
<1>3. Linked /\ CallOK
  BY <1>2 DEF Linked, CallOK, Collecting
<1>4. Copied /\ ScanInv
  BY <1>2 DEF Copied, ScanInv, Swept, IndexInHand, CursorBack, Collecting, Alloc!NoMove
<1>5. QED
  BY <1>1, <1>3, <1>4 DEF IInv

LEMMA StepInvariant == IInv /\ [Next]_vars => IInv' /\ [Alloc!Next]_(Alloc!vars)
<1> SUFFICES ASSUME IInv, [Next]_vars PROVE IInv' /\ [Alloc!Next]_(Alloc!vars)
  OBVIOUS
<1> USE DEF IInv
<1>1. [Alloc!Next]_(Alloc!vars) /\ AllocOK'
  BY RefinesStep, AllocStep
<1>2. Types' /\ CallOK' /\ Linked'
  BY <1>1, TypesInductive, CallInductive, LinkedInductive
<1>3. ScanInv' /\ Copied'
  BY ScanInductive, CopiedInductive
<1>4. QED
  BY <1>1, <1>2, <1>3

(* In any run, cut by losses of power wherever it may be: the allocator's  *)
(* invariant and NoHoles (AllocOK), the scan of spiffs_gc_clean and the    *)
(* pages it has still to visit (ScanInv), what each step of a call has to  *)
(* find (CallOK), and that a copy is a copy (Copied).                      *)
THEOREM Invariant == Spec => []IInv
<1>1. IInv /\ UNCHANGED vars => IInv'
  BY StepInvariant
<1>2. QED
  BY <1>1, InitInvariant, StepInvariant, PTL DEF Spec

LEMMA TypesOK == IInv => TypeOK
<1> SUFFICES ASSUME IInv PROVE TypeOK
  OBVIOUS
<1>1. Alloc!TypeOK /\ Types
  BY DEF IInv, AllocOK
<1>2. page \in [Page -> [span : Span, refs : [0 .. PerIx - 1 -> Page \cup {NoPage}],
                         removed : BOOLEAN]]
  BY <1>1 DEF Types, PageData, Refs
<1>3. QED
  BY <1>1, <1>2 DEF Types, GcLocals, TypeOK

(* In any run of the object layer and the collector the variables keep     *)
(* their types: in particular the scan of spiffs_gc_clean never leaves the *)
(* block, and no file grows past the bound of its index.                   *)
THEOREM TypeCorrect == Spec => []TypeOK
BY Invariant, TypesOK, PTL

(* Whatever the object layer and spiffs_gc_check do, they use the flash    *)
(* and the counters as the page allocator allows: spiffs_gc_clean in       *)
(* particular has moved every page of the block in use by the time         *)
(* spiffs_gc_check erases it, and so the erase loses none.                 *)
THEOREM Refinement == Spec => ImplementsAlloc
<1>1. Init => Alloc!Init
  BY DEF Init
<1>2. QED
  BY <1>1, Invariant, StepInvariant, PTL DEF Spec, ImplementsAlloc, Alloc!Spec

(* The free pages of every block are its last ones, in any run, be it cut  *)
(* by losses of power: spiffs_obj_lu_find_free takes the first free page   *)
(* and spiffs_gc_clean moves the free cursor out of the block it empties.  *)
THEOREM FreePagesLast == Spec => []Alloc!FreeSuffix
<1>1. IInv => Alloc!FreeSuffix
  <2>1. AllocOK => AP!FreeSuffix
    BY SameOrder, AllocAssumptions, AP!OrderGivesSuffix DEF AllocOK
  <2>2. AP!FreeSuffix <=> Alloc!FreeSuffix
    BY SameNames DEF AP!FreeSuffix, Alloc!FreeSuffix
  <2>3. QED
    BY <2>1, <2>2 DEF IInv
<1>2. QED
  BY <1>1, Invariant, PTL

-----------------------------------------------------------------------------
(* The files.  The inductive invariant is about the pages as they are once *)
(* the move in progress is over.                                           *)

IxPage(p, o, x) == View[p].id = <<o, "ix">> /\ View[p].span = x
DaPage(p, o, s) == View[p].id = <<o, "da">> /\ View[p].span = s

HasIx(o, x) == \E p \in Page : IxPage(p, o, x) /\ ~View[p].removed
HasDa(o, s) == \E p \in Page : DaPage(p, o, s)

(* Whatever happens every page of a file exists, and the header of a file  *)
(* that exists is not marked as removed.                                   *)
Kept ==
  \A o \in Objs : files[o] # NoFile =>
    /\ HasIx(o, 0)
    /\ \A s \in 0 .. files[o] - 1 : HasDa(o, s) /\ HasIx(o, s \div PerIx)

(* The data pages of a file; of one being removed, those left.             *)
Removing(o) == call.op = "remove" /\ call.obj = o
Len(o) ==
  IF Removing(o) THEN (IF call.step = "index" THEN call.span ELSE call.span + 1) ELSE files[o]

AppendAt(steps) == call.op = "append" /\ call.step \in steps
ModifyAt(steps) == call.op = "modify" /\ call.step \in steps

(* No page is there that belongs to no file.  A call that appends or       *)
(* removes is one page ahead of the file, or behind.                       *)
Owned ==
  \A p \in Page, o \in Objs :
    /\ View[p].id \in {<<o, "ix">>, <<o, "da">>} => files[o] # NoFile \/ Removing(o)
    /\ View[p].id = <<o, "da">> =>
         \/ View[p].span < Len(o)
         \/ AppendAt({"index", "size", "last"}) /\ call.obj = o /\ p = call.pix
    /\ View[p].id = <<o, "ix">> =>
         \/ View[p].span = 0
         \/ \E s \in 0 .. Len(o) - 1 : View[p].span = s \div PerIx
         \/ /\ AppendAt({"data", "index", "size", "last"}) \/ (Removing(o) /\ call.step = "index")
            /\ call.obj = o /\ View[p].span = call.span \div PerIx

(* No page is there twice, except the one that is being rewritten.         *)
OneEach ==
  \A p, q \in Page, o \in Objs :
    /\ View[p].id = <<o, "ix">> /\ View[q].id = <<o, "ix">> /\ View[p].span = View[q].span => p = q
    /\ View[p].id = <<o, "da">> /\ View[q].id = <<o, "da">> /\ View[p].span = View[q].span =>
         \/ p = q
         \/ ModifyAt({"drop"}) /\ call.obj = o /\ View[p].span = call.span /\ call.pix \in {p, q}

(* The index pages refer to the data pages; while a page is rewritten the  *)
(* index page refers to the old one until that is gone.                    *)
Stale(o, s) == ModifyAt({"index"}) /\ call.obj = o /\ s = call.span

Refer ==
  \A ix \in Page, o \in Objs :
    \A s \in 0 .. Len(o) - 1 :
      IxPage(ix, o, s \div PerIx) /\ ~Stale(o, s) =>
        View[ix].refs[s % PerIx] \in Page /\ DaPage(View[ix].refs[s % PerIx], o, s)

(* What the call in progress has written.                                  *)
NewData ==
  AppendAt({"index", "size", "last"}) \/ ModifyAt({"drop", "index", "last"}) =>
    call.pix \in Page /\ DaPage(call.pix, call.obj, call.span)

NewIx == AppendAt({"data", "index", "size", "last"}) => HasIx(call.obj, call.span \div PerIx)

Patched ==
  AppendAt({"size", "last"}) =>
    \A p \in Page : IxPage(p, call.obj, call.span \div PerIx) =>
      View[p].refs[call.span % PerIx] = call.pix

Unpatched ==
  ModifyAt({"drop"}) =>
    \A p \in Page : IxPage(p, call.obj, call.span \div PerIx) =>
      View[p].refs[call.span % PerIx] # call.pix

Header == call.op = "remove" => IxPage(call.pix, call.obj, 0)

Written == NewData /\ NewIx /\ Patched /\ Unpatched /\ Header

Clean == cut = "none" => Owned /\ OneEach /\ Refer /\ Written

-----------------------------------------------------------------------------
(* What a step does to the pages in view.                                  *)

LEMMA ViewType ==
  ASSUME Types, NEW p \in Page
  PROVE  /\ View[p].span \in Span /\ View[p].span \in Nat /\ View[p].removed \in BOOLEAN
         /\ View[p].refs \in Refs
         /\ View[p].id \in LookupIds \cup {DELETED}
<1>1. RefsAfter(p) \in Refs
  BY PageType DEF RefsAfter, Types, GcLocals
<1>2. CASE IdAfter(p) \in LookupIds
  BY <1>1, <1>2, ViewAt, PageType, SpanType
<1>3. CASE IdAfter(p) \notin LookupIds
  <2>1. View[p] = Gone
    BY <1>3, ViewAt
  <2>2. Gone.span = 0 /\ Gone.removed = FALSE /\ Gone.refs = NoRefs /\ Gone.id = DELETED
    BY DEF Gone, PageView
  <2>3. QED
    BY <2>1, <2>2, SpanType, ContentType
<1>4. QED
  BY <1>2, <1>3

LEMMA FileIds ==
  /\ \A o \in Objs : <<o, "ix">> \in LookupIds /\ <<o, "da">> \in LookupIds
  /\ DELETED \notin LookupIds
BY AllocAssumptions DEF LookupIds

Filled(a, id, s) ==
  /\ a \in Page /\ View[a].id \notin LookupIds
  /\ View'[a].id = id /\ View'[a].span = s /\ ~View'[a].removed
  /\ \A q \in Page \ {a} : View'[q] = View[q]

Dropped(p) ==
  /\ p \in Page /\ View[p].id \in LookupIds /\ View'[p].id \notin LookupIds
  /\ \A q \in Page \ {p} : View'[q] = View[q]

(* The references apart: they may change when an index page is involved.   *)
SamePage(q, p) ==
  View'[p].id = View[q].id /\ View'[p].span = View[q].span /\ View'[p].removed = View[q].removed

Moved(src, p) ==
  /\ src \in Page /\ p \in Page /\ src # p
  /\ View[src].id \in LookupIds /\ View[p].id \notin LookupIds
  /\ View'[src].id \notin LookupIds
  /\ SamePage(src, p)
  /\ \A q \in Page \ {src, p} : SamePage(q, q)

LEMMA FillStep ==
  ASSUME IInv, gc.run # "data", gc' = gc, NEW id \in LookupIds, NEW s, AllocatePage(id, Content(s, NoRefs))
  PROVE  Filled(Allocated, id, s)
<1>1. PICK a \in Page :
        /\ a = Allocated /\ View[a] = Gone
        /\ View' = [View EXCEPT ![a] = PageView(id, Content(s, NoRefs).span,
                                                Content(s, NoRefs).removed, Content(s, NoRefs).refs)]
  BY FillView DEF IInv
<1>2. View' = [View EXCEPT ![a] = PageView(id, s, FALSE, NoRefs)]
  BY <1>1 DEF Content
<1>3. View'[a] = PageView(id, s, FALSE, NoRefs) /\ \A q \in Page \ {a} : View'[q] = View[q]
  BY <1>2 DEF View
<1>4. View'[a].id = id /\ View'[a].span = s /\ ~View'[a].removed /\ View[a].id \notin LookupIds
  <2>1. View'[a] = PageView(id, s, FALSE, NoRefs) /\ View[a] = Gone
    BY <1>1, <1>3
  <2>2. View'[a].id = id /\ View'[a].span = s /\ View'[a].removed = FALSE
    BY <2>1 DEF PageView
  <2>3. QED
    BY <2>1, <2>2, PageViewParts
<1>5. QED
  BY <1>1, <1>3, <1>4 DEF Filled

LEMMA DeleteStep ==
  ASSUME IInv, gc.run # "data", gc'.run # "data", NEW p, Alloc!Delete(p),
         page' = [page EXCEPT ![p] = Blank]
  PROVE  Dropped(p)
<1>1. p \in Page /\ View[p].id \in LookupIds /\ View' = [View EXCEPT ![p] = Gone]
  BY DeleteView DEF IInv
<1>2. View'[p] = Gone /\ \A q \in Page \ {p} : View'[q] = View[q]
  BY <1>1 DEF View
<1>3. QED
  BY <1>1, <1>2, PageViewParts DEF Dropped

LEMMA MoveStep ==
  ASSUME IInv, NEW src, NEW d, Move(src, d), d.span = page[src].span, d.removed = page[src].removed
  PROVE  \E p \in Page :
           /\ Moved(src, p) /\ p = moving'.dst
           /\ page' = [page EXCEPT ![p] = d] /\ View[src].refs = RefsAfter(src)
           /\ View'[p].refs = RefsAfter(p)'
           /\ \A q \in Page \ {src, p} : View[q].id \in LookupIds => View'[q].refs = RefsAfter(q)'
<1>1. PICK p \in Page :
           /\ p = moving'.dst
           /\ src \in Page /\ src # p /\ page' = [page EXCEPT ![p] = d]
           /\ View[src].id = Id(src) /\ View[src].id \in LookupIds /\ View[src].span = page[src].span
           /\ View[src].removed = page[src].removed /\ View[src].refs = RefsAfter(src)
           /\ View[p] = Gone /\ View'[src] = Gone
           /\ View'[p] = PageView(Id(src), d.span, d.removed, RefsAfter(p)')
           /\ \A q \in Page \ {src, p} :
                IF View[q].id \in LookupIds
                THEN View'[q] = PageView(View[q].id, View[q].span, View[q].removed, RefsAfter(q)')
                ELSE View[q] = Gone /\ View'[q] = Gone
  BY MoveView DEF IInv
<1>2. View[p].id \notin LookupIds /\ View'[src].id \notin LookupIds
  BY <1>1, PageViewParts
<1>3. SamePage(src, p) /\ View'[p].refs = RefsAfter(p)'
  BY <1>1, PageViewParts DEF SamePage
<1>4. ASSUME NEW q \in Page \ {src, p}
      PROVE  SamePage(q, q) /\ (View[q].id \in LookupIds => View'[q].refs = RefsAfter(q)')
  BY <1>1, PageViewParts DEF SamePage
<1>5. QED
  BY <1>1, <1>2, <1>3, <1>4 DEF Moved

-----------------------------------------------------------------------------
(* Pages that are not dropped are kept.                                    *)

Carried ==
  \A q \in Page : View[q].id \in LookupIds => \E r \in Page : SamePage(q, r)

LEMMA CarriedHas ==
  ASSUME Carried, NEW o \in Objs, NEW x
  PROVE  (HasIx(o, x) => HasIx(o, x)') /\ (HasDa(o, x) => HasDa(o, x)')
<1>1. ASSUME HasIx(o, x) PROVE HasIx(o, x)'
  <2>1. PICK q \in Page : View[q].id = <<o, "ix">> /\ View[q].span = x /\ ~View[q].removed
    BY <1>1 DEF HasIx, IxPage
  <2>2. PICK r \in Page : SamePage(q, r)
    BY <2>1, FileIds DEF Carried
  <2>3. View'[r].id = <<o, "ix">> /\ View'[r].span = x /\ ~View'[r].removed
    BY <2>1, <2>2 DEF SamePage
  <2>4. QED
    BY <2>3 DEF HasIx, IxPage
<1>2. ASSUME HasDa(o, x) PROVE HasDa(o, x)'
  <2>1. PICK q \in Page : View[q].id = <<o, "da">> /\ View[q].span = x
    BY <1>2 DEF HasDa, DaPage
  <2>2. PICK r \in Page : SamePage(q, r)
    BY <2>1, FileIds DEF Carried
  <2>3. View'[r].id = <<o, "da">> /\ View'[r].span = x
    BY <2>1, <2>2 DEF SamePage
  <2>4. QED
    BY <2>3 DEF HasDa, DaPage
<1>3. QED
  BY <1>1, <1>2

LEMMA CarriedKept ==
  ASSUME Carried, files' = files, Kept
  PROVE  Kept'
<1>1. SUFFICES ASSUME NEW o \in Objs, files[o] # NoFile
               PROVE  /\ HasIx(o, 0)'
                      /\ \A s \in 0 .. files[o] - 1 : HasDa(o, s)' /\ HasIx(o, s \div PerIx)'
  BY DEF Kept
<1>2. HasIx(o, 0) /\ \A s \in 0 .. files[o] - 1 : HasDa(o, s) /\ HasIx(o, s \div PerIx)
  BY <1>1 DEF Kept
<1>3. QED
  BY <1>2, CarriedHas

LEMMA SameCarried == ASSUME View' = View PROVE Carried
BY DEF Carried, SamePage

LEMMA FillCarried == ASSUME NEW a, NEW id, NEW s, Filled(a, id, s) PROVE Carried
BY DEF Filled, Carried, SamePage

LEMMA MoveCarried == ASSUME NEW src, NEW p, Moved(src, p) PROVE Carried
BY DEF Moved, Carried

-----------------------------------------------------------------------------
(* Steps that change neither the pages in view nor the files.              *)

Quiet == call.op # "remove" /\ call.step \in {"", "check", "body"}

LEMMA QuietParts ==
  ASSUME Quiet
  PROVE  /\ \A o : ~Removing(o) /\ Len(o) = files[o]
         /\ \A o, s : ~Stale(o, s)
         /\ \A steps \in SUBSET {"data", "index", "size", "last", "drop"} :
              ~AppendAt(steps) /\ ~ModifyAt(steps)
         /\ Written
<1>1. /\ \A o : ~Removing(o) /\ Len(o) = files[o]
      /\ \A steps \in SUBSET {"data", "index", "size", "last", "drop"} :
           ~AppendAt(steps) /\ ~ModifyAt(steps)
  BY DEF Quiet, Removing, Len, AppendAt, ModifyAt
<1>2. \A o, s : ~Stale(o, s)
  BY <1>1 DEF Stale
<1>3. Written
  BY <1>1 DEF Written, NewData, NewIx, Patched, Unpatched, Header, Quiet
<1>4. QED
  BY <1>1, <1>2, <1>3

LEMMA QuietPartsNext ==
  ASSUME Quiet'
  PROVE  /\ \A o : ~Removing(o)' /\ Len(o)' = files'[o] /\ call'.op # "remove"
         /\ \A o, s : ~Stale(o, s)'
         /\ \A steps \in SUBSET {"data", "index", "size", "last", "drop"} :
              ~AppendAt(steps)' /\ ~ModifyAt(steps)'
         /\ Written'
<1>1. /\ \A o : ~Removing(o)' /\ Len(o)' = files'[o]
      /\ \A steps \in SUBSET {"data", "index", "size", "last", "drop"} :
           ~AppendAt(steps)' /\ ~ModifyAt(steps)'
  BY DEF Quiet, Removing, Len, AppendAt, ModifyAt
<1>2. \A o, s : ~Stale(o, s)'
  BY DEF Quiet, Stale, ModifyAt
<1>3. Written'
  BY DEF Quiet, Written, NewData, NewIx, Patched, Unpatched, Header, AppendAt, ModifyAt
<1>4. QED
  BY <1>1, <1>2, <1>3 DEF Quiet

LEMMA QuietFiles ==
  ASSUME Kept, Clean, View' = View, files' = files, cut' = cut,
         call' = call \/ (Quiet /\ Quiet')
  PROVE  Kept' /\ Clean'
<1>1. Kept'
  BY SameCarried, CarriedKept
<1>2. CASE call' = call
  <2>1. \A o : Len(o)' = Len(o) /\ Removing(o)' = Removing(o)
    BY <1>2 DEF Len, Removing
  <2>2. \A steps : AppendAt(steps)' = AppendAt(steps) /\ ModifyAt(steps)' = ModifyAt(steps)
    BY <1>2 DEF AppendAt, ModifyAt
  <2>3. Owned => Owned'
    BY <1>2, <2>1, <2>2 DEF Owned
  <2>4. OneEach => OneEach'
    BY <1>2, <2>2 DEF OneEach
  <2>5. Refer => Refer'
    BY <1>2, <2>1, <2>2 DEF Refer, Stale, IxPage, DaPage
  <2>6. Written => Written'
    BY <1>2, <2>2 DEF Written, NewData, NewIx, Patched, Unpatched, Header, HasIx, IxPage, DaPage
  <2>7. QED
    BY <1>1, <2>3, <2>4, <2>5, <2>6 DEF Clean
<1>3. CASE Quiet /\ Quiet'
  <2>1. \A o : Len(o)' = Len(o) /\ ~Removing(o)' /\ ~Removing(o)
    BY <1>3, QuietParts, QuietPartsNext
  <2>2. \A steps \in SUBSET {"data", "index", "size", "last", "drop"} :
          ~AppendAt(steps)' /\ ~AppendAt(steps) /\ ~ModifyAt(steps)' /\ ~ModifyAt(steps)
    BY <1>3, QuietParts, QuietPartsNext
  <2>3. Owned => Owned'
    BY <2>1, <2>2 DEF Owned
  <2>4. OneEach => OneEach'
    BY <2>2 DEF OneEach
  <2>5. Refer => Refer'
    <3>1. \A o, s : ~Stale(o, s)' /\ ~Stale(o, s)
      BY <1>3, QuietParts, QuietPartsNext
    <3>2. QED
      BY <2>1, <3>1 DEF Refer, IxPage, DaPage
  <2>6. Written'
    BY <1>3, QuietPartsNext
  <2>7. QED
    BY <1>1, <2>3, <2>4, <2>5, <2>6 DEF Clean
<1>4. QED
  BY <1>2, <1>3

LEMMA QuietCalls ==
  /\ NoCall.op = "none" /\ NoCall.step = ""
  /\ IInv /\ call.step = "check" => Quiet
  /\ IInv /\ call = NoCall => Quiet
  /\ IInv /\ gc.run # "off" => Quiet
<1>1. IInv /\ call.step = "check" => Quiet
  BY DEF IInv, CallOK, Quiet
<1>2. QED
  BY <1>1, NoParts DEF Quiet, IInv, Linked

LEMMA ProceedQuiet ==
  ASSUME IInv, call.step = "check", call' \in {call, NoCall, Proceed}
  PROVE  Quiet'
<1>1. call.op # "remove"
  BY DEF IInv, CallOK
<1>2. CASE call' = call
  BY <1>1, <1>2 DEF Quiet
<1>3. CASE call' = NoCall
  BY <1>3, NoParts DEF Quiet
<1>4. CASE call' = Proceed /\ call' # NoCall
  BY <1>1, <1>4 DEF Quiet, Proceed, IInv, Types, CallLocals
<1>5. QED
  BY <1>2, <1>3, <1>4

LEMMA CheckFiles ==
  ASSUME IInv, Kept, Clean, GcCheckEnough \/ GcCheckFull \/ GcCheckRun
  PROVE  Kept' /\ Clean'
<1>1. UNCHANGED <<lu, moving, page>> /\ gc.run # "data" /\ gc'.run # "data"
  <2>1. CASE GcCheckEnough \/ GcCheckFull
    BY <2>1, NoParts DEF GcCheckEnough, GcCheckFull, allocVars
  <2>2. CASE GcCheckRun
    BY <2>2, ScanStart DEF IInv
  <2>3. QED
    BY <2>1, <2>2
<1>2. View' = View
  BY <1>1, UnchangedView
<1>3. Quiet /\ Quiet' /\ files' = files /\ cut' = cut
  <2>1. call.step = "check" /\ call' \in {call, NoCall, Proceed} /\ UNCHANGED <<files, cut>>
    <3>1. GcCheckRun => call.step = "check"
      BY DEF GcCheckRun, IInv, Linked
    <3>2. QED
      BY <3>1 DEF GcCheckEnough, GcCheckFull, GcCheckRun
  <2>2. QED
    BY <2>1, QuietCalls, ProceedQuiet
<1>4. QED
  BY <1>2, <1>3, QuietFiles

LEMMA BeginFiles ==
  ASSUME IInv, Kept, Clean, NEW op \in {"gc", "create", "append", "modify"}, NEW o, NEW s, NEW n,
         Begin(op, o, s, n)
  PROVE  Kept' /\ Clean'
<1>1. /\ UNCHANGED <<lu, moving, page, files, cut>> /\ call = NoCall
      /\ call' = [op |-> op, obj |-> o, span |-> s, step |-> "check", pix |-> NoPage]
      /\ gc' = [NoGc EXCEPT !.need = n]
  BY DEF Begin, allocVars
<1>2. gc.run # "data" /\ gc'.run # "data"
  BY <1>1, NoParts DEF IInv, Linked, NoGc
<1>3. View' = View
  BY <1>1, <1>2, UnchangedView
<1>4. Quiet /\ Quiet'
  BY <1>1, QuietCalls DEF Quiet
<1>5. QED
  BY <1>1, <1>3, <1>4, QuietFiles

(* Giving deleted pages back, mounting, entering a copy in the lookup.     *)
LEMMA IdleFiles ==
  ASSUME IInv, Kept, Clean, GcQuick \/ Mount \/ MoveMark \/ UNCHANGED vars
  PROVE  Kept' /\ Clean'
<1>1. View' = View
  <2>1. CASE GcQuick
    BY <2>1, StepQuick, IdleView DEF GcQuick, RefsAfter, IInv
  <2>2. CASE Mount
    BY <2>2, SameView DEF Mount, Alloc!Mount, IdAfter, RefsAfter, Id
  <2>3. CASE MoveMark
    BY <2>3, MarkView DEF IInv
  <2>4. CASE UNCHANGED vars
    BY <2>4, SameView DEF IdAfter, RefsAfter, Id, vars, allocVars
  <2>5. QED
    BY <2>1, <2>2, <2>3, <2>4
<1>2. UNCHANGED <<files, cut, call>>
  BY DEF GcQuick, Mount, MoveMark, vars
<1>3. QED
  BY <1>1, <1>2, QuietFiles

LEMMA EraseFiles ==
  ASSUME IInv, Kept, Clean, GcEraseBlock
  PROVE  Kept' /\ Clean'
<1>1. /\ gc.run = "ix" /\ gc'.run # "data" /\ call' \in {call, NoCall, Proceed}
      /\ UNCHANGED <<files, cut>> /\ Alloc!EraseCleaned
      /\ page' = [p \in Page |-> IF p[1] = cleaning THEN Blank ELSE page[p]]
  BY NoParts DEF GcEraseBlock, IInv, Types, GcLocals
<1>2. \A q \in Page : q[1] = cleaning => Id(q) \notin LookupIds
  BY NothingLeft DEF IInv
<1>3. View' = View
  BY <1>1, <1>2, StepErase, EraseView DEF IInv
<1>4. Quiet /\ Quiet'
  <2>1. call.step = "check"
    BY <1>1 DEF IInv, Linked
  <2>2. QED
    BY <1>1, <2>1, QuietCalls, ProceedQuiet
<1>5. QED
  BY <1>1, <1>3, <1>4, QuietFiles

-----------------------------------------------------------------------------
(* The collector.                                                          *)

(* An orphan is no page of a file.                                         *)
LEMMA OrphanFiles ==
  ASSUME IInv, Kept, Clean, gc.run = "find", moving = Alloc!NoMove,
         NEW e \in NextEntry(DataEntries),
         ~\E ix \in Page : Found(Id(<<cleaning, e>>)[1], "ix", page[<<cleaning, e>>].span \div PerIx, ix),
         Alloc!Delete(<<cleaning, e>>), page' = [page EXCEPT ![<<cleaning, e>>] = Blank],
         gc' = [gc EXCEPT !.cur = e + 1], UNCHANGED <<call, files, cut>>
  PROVE  Kept' /\ Clean'
<1>1. PICK p \in Page : p = <<cleaning, e>> /\ Dropped(p)
  <2>1. gc'.run = "find"
    BY DEF IInv, Types, GcLocals
  <2>2. Dropped(<<cleaning, e>>)
    BY <2>1, DeleteStep
  <2>3. QED
    BY <2>2 DEF Dropped
<1>2. PICK o \in Objs : View[p].id = <<o, "da">> /\ Id(p) = <<o, "da">> /\ View[p].span = page[p].span
  BY <1>1, NextData DEF IInv, V
<1>3. PICK s \in Nat : s = View[p].span
  BY ViewType DEF IInv
<1>4. ~HasIx(o, s \div PerIx)
  <2>1. SUFFICES ASSUME HasIx(o, s \div PerIx) PROVE FALSE
    OBVIOUS
  <2>2. PICK ix \in Page : View[ix].id = <<o, "ix">> /\ View[ix].span = s \div PerIx /\ ~View[ix].removed
    BY <2>1 DEF HasIx, IxPage
  <2>3. Id(ix) = <<o, "ix">> /\ page[ix].span = s \div PerIx /\ ~page[ix].removed
    <3>1. IdAfter(ix) = Id(ix)
      BY ViewWithoutMove
    <3>2. View[ix].id # DELETED
      BY <2>2, FileIds
    <3>3. QED
      BY <2>2, <3>1, <3>2, ViewAt
  <2>4. Found(o, "ix", s \div PerIx, ix)
    BY <2>3 DEF Found, Live
  <2>5. Id(<<cleaning, e>>)[1] = o /\ page[<<cleaning, e>>].span = s
    BY <1>1, <1>2, <1>3
  <2>6. QED
    BY <2>4, <2>5
<1>5. files[o] # NoFile => ~(s \in 0 .. files[o] - 1)
  BY <1>4 DEF Kept
<1>6. Kept'
  <2>1. SUFFICES ASSUME NEW u \in Objs, files[u] # NoFile
                 PROVE  /\ HasIx(u, 0)'
                        /\ \A t \in 0 .. files[u] - 1 : HasDa(u, t)' /\ HasIx(u, t \div PerIx)'
    BY DEF Kept
  <2>2. \A x : HasIx(u, x) => HasIx(u, x)'
    BY <1>1, <1>2 DEF HasIx, IxPage, Dropped
  <2>3. ASSUME NEW t \in 0 .. files[u] - 1 PROVE HasDa(u, t)'
    <3>1. PICK q \in Page : View[q].id = <<u, "da">> /\ View[q].span = t
      BY <2>1, <2>3 DEF Kept, HasDa, DaPage
    <3>2. q # p
      BY <1>2, <1>3, <1>5, <2>1, <2>3, <3>1
    <3>3. View'[q] = View[q]
      BY <1>1, <3>2 DEF Dropped
    <3>4. View'[q].id = <<u, "da">> /\ View'[q].span = t
      BY <3>1, <3>3
    <3>5. QED
      BY <3>4 DEF HasDa, DaPage
  <2>4. QED
    BY <2>1, <2>2, <2>3 DEF Kept
<1>7. cut # "none"
  <2>1. SUFFICES ASSUME cut = "none" PROVE FALSE
    OBVIOUS
  <2>2. Quiet
    BY QuietCalls
  <2>3. s < files[o]
    BY <1>1, <1>2, <1>3, <2>1, <2>2, QuietParts DEF Clean, Owned
  <2>4. files[o] # NoFile /\ s \in 0 .. files[o] - 1
    BY <2>3 DEF IInv, Types, NoFile
  <2>5. QED
    BY <1>5, <2>4
<1>8. QED
  BY <1>6, <1>7 DEF Clean

LEMMA FindFiles ==
  ASSUME IInv, Kept, Clean, GcFindData
  PROVE  Kept' /\ Clean'
<1>1. PICK e \in NextEntry(DataEntries) :
        \/ \E ix \in Page :
             /\ Found(Id(<<cleaning, e>>)[1], "ix", page[<<cleaning, e>>].span \div PerIx, ix)
             /\ gc' = [gc EXCEPT !.run = "data", !.cur = 0, !.stored = e + 1,
                                 !.obj = Id(<<cleaning, e>>)[1],
                                 !.spix = page[<<cleaning, e>>].span \div PerIx,
                                 !.objix = ix, !.work = page[ix].refs]
             /\ UNCHANGED <<allocVars, page>>
        \/ /\ ~\E ix \in Page : Found(Id(<<cleaning, e>>)[1], "ix",
                                      page[<<cleaning, e>>].span \div PerIx, ix)
           /\ Alloc!Delete(<<cleaning, e>>)
           /\ page' = [page EXCEPT ![<<cleaning, e>>] = Blank]
           /\ gc' = [gc EXCEPT !.cur = e + 1]
  BY DEF GcFindData
<1>2. gc.run = "find" /\ moving = Alloc!NoMove /\ UNCHANGED <<call, files, cut>>
  BY DEF GcFindData
<1>3. QED
  BY <1>1, <1>2, OrphanFiles, ScanLoad, QuietFiles DEF IInv

-----------------------------------------------------------------------------
(* A page that moves is owned as before, and there once.                   *)

LEMMA MovedFrom ==
  ASSUME NEW src, NEW p, Moved(src, p), NEW q \in Page, View'[q].id \in LookupIds
  PROVE  \E r \in Page : /\ SamePage(r, q) /\ r # p /\ q # src
                         /\ (q = p /\ r = src) \/ (q \notin {src, p} /\ r = q)
BY DEF Moved

LEMMA MovedOwned ==
  ASSUME NEW src, NEW p, Moved(src, p), files' = files, Quiet, Quiet'
  PROVE  (Owned => Owned') /\ (OneEach => OneEach')
<1>1. \A o : Len(o)' = Len(o) /\ ~Removing(o)' /\ ~Removing(o)
  BY QuietParts, QuietPartsNext
<1>2. \A steps \in SUBSET {"data", "index", "size", "last", "drop"} :
        ~AppendAt(steps)' /\ ~AppendAt(steps) /\ ~ModifyAt(steps)' /\ ~ModifyAt(steps)
  BY QuietParts, QuietPartsNext
<1>3. ASSUME Owned PROVE Owned'
  <2>1. ASSUME NEW q \in Page, NEW o \in Objs
        PROVE  /\ View'[q].id \in {<<o, "ix">>, <<o, "da">>} => files[o] # NoFile
               /\ View'[q].id = <<o, "da">> => View'[q].span < Len(o)
               /\ View'[q].id = <<o, "ix">> =>
                    \/ View'[q].span = 0
                    \/ \E s \in 0 .. Len(o) - 1 : View'[q].span = s \div PerIx
    <3>1. CASE View'[q].id \notin {<<o, "ix">>, <<o, "da">>}
      BY <3>1
    <3>2. CASE View'[q].id \in {<<o, "ix">>, <<o, "da">>}
      <4>1. View'[q].id \in LookupIds
        BY <3>2, FileIds
      <4>2. PICK r \in Page : SamePage(r, q)
        BY <4>1, MovedFrom
      <4>3. QED
        BY <1>1, <1>2, <1>3, <4>2 DEF Owned, SamePage
    <3>3. QED
      BY <3>1, <3>2
  <2>2. QED
    BY <1>1, <2>1 DEF Owned
<1>4. ASSUME OneEach PROVE OneEach'
  <2>1. ASSUME NEW q \in Page, NEW t \in Page, NEW o \in Objs,
               View'[q].id \in {<<o, "ix">>, <<o, "da">>}, View'[t].id = View'[q].id,
               View'[t].span = View'[q].span
        PROVE  q = t
    <3>1. View'[q].id \in LookupIds /\ View'[t].id \in LookupIds
      BY <2>1, FileIds
    <3>2. PICK r \in Page : SamePage(r, q) /\ ((q = p /\ r = src) \/ (q \notin {src, p} /\ r = q))
      BY <3>1, MovedFrom
    <3>3. PICK u \in Page : SamePage(u, t) /\ ((t = p /\ u = src) \/ (t \notin {src, p} /\ u = t))
      BY <3>1, MovedFrom
    <3>4. r = u
      BY <1>2, <1>4, <2>1, <3>2, <3>3 DEF OneEach, SamePage
    <3>5. QED
      BY <3>2, <3>3, <3>4
  <2>2. QED
    BY <2>1 DEF OneEach
<1>5. QED
  BY <1>3, <1>4

(* An index page moves, with its references: they refer to data pages.     *)
RefsKept(src, p) ==
  /\ View'[p].refs = View[src].refs
  /\ \A q \in Page \ {src, p} : View[q].id \in LookupIds => View'[q].refs = View[q].refs

LEMMA IndexMovedRefer ==
  ASSUME NEW src, NEW p, Moved(src, p), RefsKept(src, p), IsIx(View[src]), Refer,
         \A o : Len(o)' = Len(o), \A o, s : Stale(o, s)' <=> Stale(o, s)
  PROVE  Refer'
<1>1. SUFFICES ASSUME NEW ix \in Page, NEW o \in Objs, NEW s \in 0 .. Len(o) - 1, ~Stale(o, s),
                      View'[ix].id = <<o, "ix">>, View'[ix].span = s \div PerIx
               PROVE  /\ View'[ix].refs[s % PerIx] \in Page
                      /\ View'[View'[ix].refs[s % PerIx]].id = <<o, "da">>
                      /\ View'[View'[ix].refs[s % PerIx]].span = s
  BY DEF Refer, IxPage, DaPage
<1>2. PICK r \in Page : SamePage(r, ix) /\ ((ix = p /\ r = src) \/ (ix \notin {src, p} /\ r = ix))
  <2>1. View'[ix].id \in LookupIds
    BY <1>1, FileIds
  <2>2. QED
    BY <2>1, MovedFrom
<1>3. View[r].id = <<o, "ix">> /\ View[r].span = s \div PerIx /\ View'[ix].refs = View[r].refs
  BY <1>1, <1>2, FileIds DEF SamePage, RefsKept
<1>4. PICK d \in Page : d = View[r].refs[s % PerIx] /\ View[d].id = <<o, "da">> /\ View[d].span = s
  BY <1>1, <1>3 DEF Refer, IxPage, DaPage
<1>5. d # src /\ d # p
  <2>1. View[src].id # <<o, "da">>
    BY DEF IsIx
  <2>2. QED
    BY <1>4, <2>1, FileIds DEF Moved
<1>6. SamePage(d, d)
  BY <1>5 DEF Moved
<1>7. QED
  BY <1>3, <1>4, <1>6 DEF SamePage

LEMMA QuietMove ==
  ASSUME Kept, Clean, Quiet, UNCHANGED <<call, files, cut>>,
         NEW src, NEW p, Moved(src, p), RefsKept(src, p), IsIx(View[src])
  PROVE  Kept' /\ Clean'
<1>1. Kept'
  BY MoveCarried, CarriedKept
<1>2. Quiet'
  BY DEF Quiet
<1>3. Owned /\ OneEach => Owned' /\ OneEach'
  BY <1>2, MovedOwned
<1>4. Refer => Refer'
  <2>1. \A o : Len(o)' = Len(o)
    BY <1>2, QuietParts, QuietPartsNext
  <2>2. \A o, s : Stale(o, s)' <=> Stale(o, s)
    BY <1>2, QuietParts, QuietPartsNext
  <2>3. QED
    BY <2>1, <2>2, IndexMovedRefer
<1>5. Written'
  BY <1>2, QuietPartsNext
<1>6. QED
  BY <1>1, <1>3, <1>4, <1>5 DEF Clean

LEMMA PlainMove ==
  ASSUME IInv, gc.run # "data", gc'.run # "data", NEW src, NEW d, Move(src, d),
         d.span = page[src].span, d.removed = page[src].removed
  PROVE  \E p \in Page :
           /\ Moved(src, p) /\ View[src].refs = page[src].refs
           /\ View'[p].refs = d.refs
           /\ \A q \in Page \ {src, p} : View[q].id \in LookupIds => View'[q].refs = View[q].refs
<1>1. PICK p \in Page :
           /\ Moved(src, p) /\ page' = [page EXCEPT ![p] = d] /\ View[src].refs = RefsAfter(src)
           /\ View'[p].refs = RefsAfter(p)'
           /\ \A q \in Page \ {src, p} : View[q].id \in LookupIds => View'[q].refs = RefsAfter(q)'
  BY MoveStep
<1>2. \A q : RefsAfter(q) = page[q].refs /\ RefsAfter(q)' = page'[q].refs
  BY DEF RefsAfter
<1>3. page'[p] = d /\ \A q \in Page \ {src, p} : page'[q] = page[q]
  BY <1>1 DEF IInv, Types
<1>4. ASSUME NEW q \in Page \ {src, p}, View[q].id \in LookupIds
      PROVE  View'[q].refs = View[q].refs
  <2>1. IdAfter(q) \in LookupIds
    BY <1>4, ViewAt
  <2>2. View[q].refs = RefsAfter(q)
    BY <2>1, ViewAt
  <2>3. QED
    BY <1>1, <1>2, <1>3, <1>4, <2>2
<1>5. QED
  BY <1>1, <1>2, <1>3, <1>4

LEMMA MoveIndexFiles ==
  ASSUME IInv, Kept, Clean, GcMoveIndex
  PROVE  Kept' /\ Clean'
<1>1. PICK e \in NextEntry(IndexEntries) :
        /\ Move(<<cleaning, e>>, page[<<cleaning, e>>])
        /\ gc' = [gc EXCEPT !.cur = e + 1]
  BY DEF GcMoveIndex
<1>2. gc.run = "ix" /\ gc'.run = "ix" /\ UNCHANGED <<call, files, cut>>
  BY <1>1 DEF GcMoveIndex, IInv, Types, GcLocals
<1>3. PICK p \in Page : Moved(<<cleaning, e>>, p) /\ RefsKept(<<cleaning, e>>, p)
  BY <1>1, <1>2, PlainMove DEF RefsKept
<1>4. IsIx(View[<<cleaning, e>>])
  <2>1. Collecting /\ moving = Alloc!NoMove
    BY <1>1, <1>2, MoveView DEF IInv, Collecting
  <2>2. e \in IndexEntries /\ e \in Entry
    BY <1>1, <2>1, FirstNext DEF IInv, IndexEntries
  <2>3. QED
    BY <2>1, <2>2, InBlock DEF IInv, V
<1>5. QED
  BY <1>2, <1>3, <1>4, QuietCalls, QuietMove

LEMMA StoreIndexFiles ==
  ASSUME IInv, Kept, Clean, GcStoreIndex
  PROVE  Kept' /\ Clean'
<1>1. /\ Move(gc.objix, Content(gc.spix, gc.work)) /\ gc.run = "data"
      /\ gc' = [gc EXCEPT !.run = "find", !.cur = gc.stored]
      /\ UNCHANGED <<call, files, cut>>
  BY DEF GcStoreIndex
<1>2. gc'.run = "find"
  BY <1>1 DEF IInv, Types, GcLocals
<1>3. /\ gc.obj \in Objs /\ gc.objix \in Page
      /\ View[gc.objix].id = <<gc.obj, "ix">> /\ View[gc.objix].span = gc.spix
      /\ ~View[gc.objix].removed
  BY <1>1 DEF IInv, ScanInv, IndexInHand
<1>4. page[gc.objix].span = gc.spix /\ page[gc.objix].removed = FALSE
  <2>1. View[gc.objix].span = page[gc.objix].span /\ View[gc.objix].removed = page[gc.objix].removed
    BY <1>1, MoveView DEF IInv
  <2>2. QED
    BY <1>3, <2>1, PageType DEF IInv
<1> DEFINE d == Content(gc.spix, gc.work)
<1>5. d.span = gc.spix /\ d.removed = FALSE /\ d.refs = gc.work
  BY DEF Content
<1>s. Move(gc.objix, d) /\ d.span = page[gc.objix].span /\ d.removed = page[gc.objix].removed
  BY <1>1, <1>4, <1>5
<1> HIDE DEF d
<1>6. PICK p \in Page :
        /\ Moved(gc.objix, p) /\ page' = [page EXCEPT ![p] = d]
        /\ View[gc.objix].refs = RefsAfter(gc.objix)
        /\ View'[p].refs = RefsAfter(p)'
        /\ \A q \in Page \ {gc.objix, p} : View[q].id \in LookupIds => View'[q].refs = RefsAfter(q)'
  BY <1>s, MoveStep
<1>7. \A q : /\ RefsAfter(q) = IF q = gc.objix THEN gc.work ELSE page[q].refs
             /\ RefsAfter(q)' = page'[q].refs
  BY <1>1, <1>2 DEF RefsAfter
<1>8. page'[p].refs = gc.work /\ \A q \in Page \ {gc.objix, p} : page'[q] = page[q]
  BY <1>5, <1>6 DEF IInv, Types
<1>9. RefsKept(gc.objix, p)
  <2>1. ASSUME NEW q \in Page \ {gc.objix, p}, View[q].id \in LookupIds
        PROVE  View'[q].refs = View[q].refs
    <3>1. IdAfter(q) \in LookupIds
      BY <2>1, ViewAt
    <3>2. View[q].refs = RefsAfter(q)
      BY <3>1, ViewAt
    <3>3. QED
      BY <1>6, <1>7, <1>8, <2>1, <3>2
  <2>2. View'[p].refs = View[gc.objix].refs
    BY <1>6, <1>7, <1>8
  <2>3. QED
    BY <2>1, <2>2 DEF RefsKept
<1>10. QED
  BY <1>1, <1>3, <1>6, <1>9, QuietCalls, QuietMove DEF IsIx

(* A data page moves, and the index page in fs->work is patched.           *)
LEMMA MoveDataFiles ==
  ASSUME IInv, Kept, Clean, GcMoveData
  PROVE  Kept' /\ Clean'
<1>1. PICK e \in NextEntry(SameIndex) :
        /\ Move(<<cleaning, e>>, page[<<cleaning, e>>])
        /\ gc' = [gc EXCEPT !.cur = e + 1,
                            !.work[page[<<cleaning, e>>].span % PerIx] = moving'.dst]
  BY DEF GcMoveData
<1>2. gc.run = "data" /\ Collecting /\ UNCHANGED <<call, files, cut>> /\ Quiet /\ Quiet'
  BY QuietCalls DEF GcMoveData, Collecting, Quiet
<1>3. /\ gc.obj \in Objs /\ gc.objix \in Page
      /\ View[gc.objix].id = <<gc.obj, "ix">> /\ View[gc.objix].span = gc.spix
  BY <1>2 DEF IInv, ScanInv, IndexInHand
<1>4. PICK src \in Page :
        /\ src = <<cleaning, e>>
        /\ View[src].id = <<gc.obj, "da">> /\ View[src].span = page[src].span
        /\ page[src].span \div PerIx = gc.spix /\ moving = Alloc!NoMove
  <2>1. moving = Alloc!NoMove
    BY <1>1, MoveView DEF IInv
  <2>2. e \in SameIndex /\ e \in Entry /\ <<cleaning, e>> \in Page
    BY <1>1, <1>2, FirstNext DEF IInv, SameIndex
  <2>3. V(e).id = <<gc.obj, "da">> /\ V(e).span = page[<<cleaning, e>>].span
    BY <1>2, <1>3, <2>1, <2>2, InBlock, FileIds DEF IInv, SameIndex
  <2>4. QED
    BY <2>1, <2>2, <2>3 DEF V, SameIndex
<1>5. PICK s \in Nat : s = page[src].span /\ s % PerIx \in 0 .. PerIx - 1
  BY PageType, SpanType DEF IInv
<1>6. PICK p \in Page :
        /\ Moved(src, p) /\ p = moving'.dst /\ page' = [page EXCEPT ![p] = page[src]]
        /\ \A q \in Page \ {src, p} : View[q].id \in LookupIds => View'[q].refs = RefsAfter(q)'
  BY <1>1, <1>4, MoveStep
<1>7. /\ gc'.run = "data" /\ gc'.objix = gc.objix /\ gc.work \in Refs
      /\ gc'.work = [gc.work EXCEPT ![s % PerIx] = p]
  BY <1>1, <1>2, <1>4, <1>5, <1>6 DEF IInv, Types, GcLocals
<1>8. gc.objix \notin {src, p}
  BY <1>3, <1>4, <1>6, FileIds DEF Moved
<1>9. \A q : /\ RefsAfter(q) = IF q = gc.objix THEN gc.work ELSE page[q].refs
             /\ RefsAfter(q)' = IF q = gc.objix THEN gc'.work ELSE page'[q].refs
  BY <1>2, <1>7 DEF RefsAfter
<1>10. ASSUME NEW q \in Page \ {src, p}, View[q].id \in LookupIds
       PROVE  View'[q].refs = IF q = gc.objix THEN [View[q].refs EXCEPT ![s % PerIx] = p]
                              ELSE View[q].refs
  <2>1. IdAfter(q) \in LookupIds
    BY <1>10, ViewAt
  <2>2. View[q].refs = RefsAfter(q)
    BY <2>1, ViewAt
  <2>3. page'[q] = page[q]
    BY <1>6 DEF IInv, Types
  <2>4. QED
    BY <1>6, <1>7, <1>9, <1>10, <2>2, <2>3
<1>11. Kept'
  BY <1>2, <1>6, MoveCarried, CarriedKept
<1>12. Owned /\ OneEach => Owned' /\ OneEach'
  BY <1>2, <1>6, MovedOwned
<1>13. ASSUME Refer, OneEach PROVE Refer'
  <2>1. \A o : Len(o)' = Len(o)
    BY <1>2, QuietParts, QuietPartsNext
  <2>2. \A o, t : ~Stale(o, t)
    BY <1>2, QuietParts
  <2>3. SUFFICES ASSUME NEW ix \in Page, NEW o \in Objs, NEW t \in 0 .. Len(o) - 1,
                        View'[ix].id = <<o, "ix">>, View'[ix].span = t \div PerIx
                 PROVE  /\ View'[ix].refs[t % PerIx] \in Page
                        /\ View'[View'[ix].refs[t % PerIx]].id = <<o, "da">>
                        /\ View'[View'[ix].refs[t % PerIx]].span = t
    BY <2>1 DEF Refer, IxPage, DaPage
  <2>4. ix \notin {src, p} /\ SamePage(ix, ix)
    <3>1. ix # src
      BY <1>6, <2>3, FileIds DEF Moved
    <3>2. View'[p].id = <<gc.obj, "da">>
      BY <1>4, <1>6 DEF Moved, SamePage
    <3>3. ix # p
      BY <2>3, <3>2
    <3>4. QED
      BY <1>6, <3>1, <3>3 DEF Moved
  <2>5. View[ix].id = <<o, "ix">> /\ View[ix].span = t \div PerIx
    BY <2>3, <2>4 DEF SamePage
  <2>6. PICK d \in Page : d = View[ix].refs[t % PerIx] /\ View[d].id = <<o, "da">> /\ View[d].span = t
    BY <1>13, <2>2, <2>5 DEF Refer, IxPage, DaPage
  <2>7. d # p
    BY <1>6, <2>6, FileIds DEF Moved
  <2>8. CASE d = src
    <3>1. o = gc.obj /\ t = s
      BY <1>4, <1>5, <2>6, <2>8
    <3>2. ix = gc.objix
      BY <1>3, <1>4, <1>5, <1>13, <2>5, <3>1 DEF OneEach
    <3>3. View'[ix].refs[t % PerIx] = p
      BY <1>5, <1>10, <2>4, <2>5, <3>1, <3>2, FileIds, ViewType DEF IInv, Refs
    <3>4. View'[p].id = <<o, "da">> /\ View'[p].span = t
      BY <1>6, <2>6, <2>8 DEF Moved, SamePage
    <3>5. QED
      BY <3>3, <3>4
  <2>9. CASE d # src
    <3>1. View'[ix].refs[t % PerIx] = d
      <4>1. CASE ix # gc.objix
        BY <1>10, <2>4, <2>5, <2>6, <4>1, FileIds
      <4>2. CASE ix = gc.objix
        <5>1. o = gc.obj /\ t \div PerIx = s \div PerIx
          BY <1>3, <1>4, <1>5, <2>5, <4>2
        <5>2. t # s
          <6>1. SUFFICES ASSUME t = s PROVE FALSE
            OBVIOUS
          <6>2. View[d].id = View[src].id /\ View[d].span = View[src].span
            BY <1>4, <1>5, <2>6, <5>1, <6>1
          <6>3. ~ModifyAt({"drop"})
            BY <1>2, QuietParts
          <6>4. d = src
            BY <1>3, <1>4, <1>13, <6>2, <6>3 DEF OneEach
          <6>5. QED
            BY <2>9, <6>4
        <5>3. t % PerIx # s % PerIx
          <6>1. t \in Nat /\ s \in Nat
            BY <1>5, <2>3
          <6>2. SUFFICES ASSUME t % PerIx = s % PerIx PROVE FALSE
            OBVIOUS
          <6>3. t = s
            BY <5>1, <6>1, <6>2, GcAssumption, DivModUnique
          <6>4. QED
            BY <5>2, <6>3
        <5>4. t % PerIx \in 0 .. PerIx - 1
          <6>1. t \in Nat
            BY <2>3
          <6>2. QED
            BY <6>1, DivMod
        <5>5. QED
          BY <1>10, <2>4, <2>5, <2>6, <4>2, <5>3, <5>4, FileIds, ViewType DEF IInv, Refs
      <4>3. QED
        BY <4>1, <4>2
    <3>2. SamePage(d, d)
      BY <1>6, <2>7, <2>9 DEF Moved
    <3>3. QED
      BY <2>6, <3>1, <3>2 DEF SamePage
  <2>10. QED
    BY <2>8, <2>9
<1>14. Written'
  BY <1>2, QuietPartsNext
<1>15. QED
  BY <1>2, <1>11, <1>12, <1>13, <1>14 DEF Clean

LEMMA RestartFiles ==
  ASSUME IInv, Kept, Clean, GcNoMoreData
  PROVE  Kept' /\ Clean'
<1>1. View' = View
  BY ScanRestart DEF IInv
<1>2. QED
  BY <1>1, QuietFiles DEF GcNoMoreData

-----------------------------------------------------------------------------
(* The end of a move: for an append it is when the file grows.             *)

LEMMA GrownKept ==
  ASSUME Kept, Carried, call.obj \in Objs, files \in [Objs -> Int],
         files[call.obj] = call.span, call.span \in Nat,
         files' = [files EXCEPT ![call.obj] = call.span + 1],
         HasDa(call.obj, call.span), HasIx(call.obj, call.span \div PerIx)
  PROVE  Kept'
<1>1. \A o \in Objs : \A x : (HasIx(o, x) => HasIx(o, x)') /\ (HasDa(o, x) => HasDa(o, x)')
  BY CarriedHas
<1>2. SUFFICES ASSUME NEW o \in Objs, files'[o] # NoFile
               PROVE  /\ HasIx(o, 0)
                      /\ \A s \in 0 .. files'[o] - 1 : HasDa(o, s) /\ HasIx(o, s \div PerIx)
  BY <1>1 DEF Kept
<1>3. files[o] # NoFile
  BY <1>2 DEF NoFile
<1>4. HasIx(o, 0) /\ \A s \in 0 .. files[o] - 1 : HasDa(o, s) /\ HasIx(o, s \div PerIx)
  BY <1>3 DEF Kept
<1>5. \A s \in 0 .. files'[o] - 1 : s \in 0 .. files[o] - 1 \/ (o = call.obj /\ s = call.span)
  OBVIOUS
<1>6. QED
  BY <1>4, <1>5

(* The references of the index pages in the next state, where page `s` of  *)
(* file `o` may be left out.                                               *)
RefersTo(ix, o, s) ==
  /\ View'[ix].refs[s % PerIx] \in Page
  /\ View'[View'[ix].refs[s % PerIx]].id = <<o, "da">>
  /\ View'[View'[ix].refs[s % PerIx]].span = s

IxPageNext(ix, o, x) == View'[ix].id = <<o, "ix">> /\ View'[ix].span = x

(* What the last step of spiffs_object_append leaves is the file with one  *)
(* page more.                                                              *)
LEMMA GrownClean ==
  ASSUME IInv, \A q \in Page : SamePage(q, q),
         call.op = "append", call.step \in {"index", "size", "last"}, Owned, OneEach, NewData,
         files' = [files EXCEPT ![call.obj] = call.span + 1], call' = NoCall,
         \A ix \in Page, o \in Objs : \A s \in 0 .. Len(o) - 1 :
            IxPageNext(ix, o, s \div PerIx) => RefersTo(ix, o, s),
         \A ix \in Page : IxPageNext(ix, call.obj, call.span \div PerIx) =>
            View'[ix].refs[call.span % PerIx] = call.pix
  PROVE  Owned' /\ OneEach' /\ Refer' /\ Written'
<1>1. /\ call.obj \in Objs /\ call.span \in Nat /\ files[call.obj] = call.span
      /\ files \in [Objs -> Int]
  BY SpanType DEF IInv, CallOK, Types, NoFile
<1>2. Quiet'
  BY NoParts DEF Quiet
<1>3. \A o : ~Removing(o) /\ Len(o) = files[o]
  BY DEF Removing, Len
<1>4. \A o : ~Removing(o)' /\ Len(o)' = files'[o]
  BY <1>2, QuietPartsNext
<1>5. \A o \in Objs : /\ files'[o] = IF o = call.obj THEN call.span + 1 ELSE files[o]
                      /\ files[o] # NoFile => files'[o] # NoFile
  BY <1>1 DEF NoFile
<1>6. ~ModifyAt({"drop"}) /\ ~ModifyAt({"drop"})'
  BY <1>2, QuietPartsNext DEF ModifyAt
<1>7. call.pix \in Page /\ View[call.pix].id = <<call.obj, "da">> /\ View[call.pix].span = call.span
  BY DEF NewData, AppendAt, DaPage
<1>8. Owned'
  <2>1. SUFFICES ASSUME NEW p \in Page, NEW o \in Objs
        PROVE  /\ View[p].id \in {<<o, "ix">>, <<o, "da">>} => files'[o] # NoFile
               /\ View[p].id = <<o, "da">> => View[p].span < files'[o]
               /\ View[p].id = <<o, "ix">> =>
                    \/ View[p].span = 0
                    \/ \E s \in 0 .. files'[o] - 1 : View[p].span = s \div PerIx
    BY <1>4 DEF Owned, SamePage
  <2>2. View[p].id \in {<<o, "ix">>, <<o, "da">>} => files'[o] # NoFile
    BY <1>3, <1>5 DEF Owned
  <2>3. ASSUME View[p].id = <<o, "da">> PROVE View[p].span < files'[o]
    <3>1. View[p].span < files[o] \/ (call.obj = o /\ p = call.pix)
      BY <1>3, <2>3 DEF Owned
    <3>2. View[p].span \in Nat
      BY ViewType DEF IInv
    <3>3. CASE View[p].span < files[o]
      BY <1>1, <1>5, <3>2, <3>3
    <3>4. CASE call.obj = o /\ p = call.pix
      BY <1>1, <1>5, <1>7, <3>4
    <3>5. QED
      BY <3>1, <3>3, <3>4
  <2>4. ASSUME View[p].id = <<o, "ix">>, View[p].span # 0
        PROVE  \E s \in 0 .. files'[o] - 1 : View[p].span = s \div PerIx
    <3>1. \/ \E s \in 0 .. files[o] - 1 : View[p].span = s \div PerIx
          \/ call.obj = o /\ View[p].span = call.span \div PerIx
      BY <1>3, <2>4 DEF Owned
    <3>2. 0 .. files[o] - 1 \subseteq 0 .. files'[o] - 1
      BY <1>1, <1>5
    <3>3. call.obj = o => call.span \in 0 .. files'[o] - 1
      BY <1>1, <1>5
    <3>4. QED
      BY <3>1, <3>2, <3>3
  <2>5. QED
    BY <2>2, <2>3, <2>4
<1>9. OneEach'
  BY <1>6 DEF OneEach, SamePage
<1>10. Refer'
  <2>1. SUFFICES ASSUME NEW ix \in Page, NEW o \in Objs, NEW s \in 0 .. Len(o)' - 1,
                        IxPageNext(ix, o, s \div PerIx)
                 PROVE  RefersTo(ix, o, s)
    BY DEF Refer, IxPage, DaPage, IxPageNext, RefersTo
  <2>2. s \in 0 .. Len(o) - 1 \/ (o = call.obj /\ s = call.span)
    BY <1>1, <1>3, <1>4, <1>5
  <2>3. CASE s \in 0 .. Len(o) - 1
    BY <2>1, <2>3
  <2>4. CASE o = call.obj /\ s = call.span
    BY <1>7, <2>1, <2>4 DEF RefersTo, SamePage
  <2>5. QED
    BY <2>2, <2>3, <2>4
<1>11. Written'
  BY <1>2, QuietPartsNext
<1>12. QED
  BY <1>8, <1>9, <1>10, <1>11

LEMMA DropFiles ==
  ASSUME IInv, Kept, Clean, MoveDrop
  PROVE  Kept' /\ Clean'
<1>1. View' = View /\ gc' = gc /\ cut' = cut
  BY DropView DEF IInv, MoveDrop
<1>2. CASE ~(call.step = "last" /\ gc.run = "off")
  BY <1>1, <1>2, QuietFiles DEF MoveDrop
<1>3. CASE call.step = "last" /\ gc.run = "off"
  <2>1. /\ call' = NoCall
        /\ files' = IF call.op = "append" THEN [files EXCEPT ![call.obj] = @ + 1] ELSE files
    BY <1>3 DEF MoveDrop
  <2>2. call.op \in {"append", "modify"} /\ call.obj \in Objs /\ cut = "none"
    <3>1. call.op \in {"none", "gc", "create", "append", "modify", "remove"}
      BY DEF IInv, Types, CallLocals
    <3>2. call.op # "none"
      BY <1>3, NoParts DEF IInv, Linked
    <3>3. QED
      BY <1>3, <3>1, <3>2 DEF IInv, CallOK
  <2>3. Owned /\ OneEach /\ Refer /\ NewData /\ NewIx /\ Patched
    BY <2>2 DEF Clean, Written
  <2>4. CASE call.op = "append"
    <3>1. /\ call.span \in Nat /\ files[call.obj] = call.span
          /\ files \in [Objs -> Int]
      BY <2>4, SpanType DEF IInv, CallOK, Types, NoFile
    <3>2. files' = [files EXCEPT ![call.obj] = call.span + 1]
      BY <2>1, <2>4, <3>1
    <3>3. AppendAt({"index", "size", "last"}) /\ AppendAt({"data", "index", "size", "last"})
          /\ AppendAt({"size", "last"})
      BY <1>3, <2>4 DEF AppendAt
    <3>4. HasDa(call.obj, call.span) /\ HasIx(call.obj, call.span \div PerIx)
      BY <2>3, <3>3 DEF NewData, NewIx, HasDa
    <3>5. Kept'
      BY <1>1, <2>2, <3>1, <3>2, <3>4, SameCarried, GrownKept
    <3>6. \A ix \in Page : IxPageNext(ix, call.obj, call.span \div PerIx) =>
            View'[ix].refs[call.span % PerIx] = call.pix
      BY <1>1, <2>3, <3>3 DEF Patched, IxPage, IxPageNext
    <3>7. \A ix \in Page, o \in Objs : \A s \in 0 .. Len(o) - 1 :
            IxPageNext(ix, o, s \div PerIx) => RefersTo(ix, o, s)
      <4>1. \A o, s : ~Stale(o, s)
        BY <2>4 DEF Stale, ModifyAt
      <4>2. QED
        BY <1>1, <2>3, <4>1 DEF Refer, IxPage, DaPage, IxPageNext, RefersTo
    <3>8. \A q \in Page : SamePage(q, q)
      BY <1>1 DEF SamePage
    <3>9. Owned' /\ OneEach' /\ Refer' /\ Written'
      BY <1>3, <2>1, <2>3, <2>4, <3>2, <3>6, <3>7, <3>8, GrownClean
    <3>10. QED
      BY <3>5, <3>9 DEF Clean
  <2>5. CASE call.op = "modify"
    <3>1. files' = files
      BY <2>1, <2>5
    <3>2. Quiet'
      BY <2>1, NoParts DEF Quiet
    <3>3. \A o : ~Removing(o) /\ Len(o) = files[o] /\ ~Removing(o)' /\ Len(o)' = files[o]
      BY <2>5, <3>1, <3>2, QuietPartsNext DEF Removing, Len
    <3>4. /\ \A steps : ~AppendAt(steps) /\ ~ModifyAt({"drop"}) /\ ~ModifyAt({"drop"})'
          /\ \A o, s : ~Stale(o, s)
      BY <1>3, <2>5, <3>2, QuietPartsNext DEF AppendAt, ModifyAt, Stale
    <3>5. Owned'
      BY <1>1, <2>3, <3>1, <3>3, <3>4 DEF Owned
    <3>6. OneEach'
      BY <1>1, <2>3, <3>4 DEF OneEach
    <3>7. Refer'
      BY <1>1, <2>3, <3>3, <3>4 DEF Refer, IxPage, DaPage
    <3>8. Kept'
      BY <1>1, <3>1, SameCarried, CarriedKept
    <3>9. QED
      BY <3>2, <3>5, <3>6, <3>7, <3>8, QuietPartsNext DEF Clean
  <2>6. QED
    BY <2>2, <2>4, <2>5
<1>4. QED
  BY <1>2, <1>3

-----------------------------------------------------------------------------
(* The object layer: the steps that write a new page.                      *)

LEMMA BodyParts ==
  ASSUME IInv, BodyStep
  PROVE  /\ gc.run = "off" /\ gc.run # "data" /\ gc' = gc /\ cut' = cut /\ cut = "none"
         /\ moving = Alloc!NoMove
         /\ call.op \in {"create", "append", "modify", "remove"} /\ call.obj \in Objs
         /\ <<call.obj, "ix">> \in LookupIds /\ <<call.obj, "da">> \in LookupIds
         /\ call.step # "check"
<1> USE DEF Body
<1>1. /\ call.op \in {"create", "append", "modify", "remove"} /\ call.step # "check"
      /\ gc' = gc /\ cut' = cut /\ moving = Alloc!NoMove
  BY DEF BodyStep, CreateBody, AppendIndex, AppendData, AppendInPlace, AppendHeader,
         ModifyData, ModifyDrop, ModifyIndex, RemoveData, RemoveIndex
<1>2. gc.run = "off"
  BY <1>1 DEF IInv, Linked
<1>3. QED
  BY <1>1, <1>2, FileIds DEF IInv, CallOK

(* The other pages are as they were.                                       *)
LEMMA FilledRefers ==
  ASSUME NEW a, NEW id, NEW x, Filled(a, id, x), NEW ix \in Page \ {a}, NEW o \in Objs, NEW s,
         View[ix].refs[s % PerIx] \in Page, DaPage(View[ix].refs[s % PerIx], o, s)
  PROVE  RefersTo(ix, o, s) /\ View[ix].refs[s % PerIx] # a
BY FileIds DEF Filled, DaPage, RefersTo

LEMMA FilledRefer ==
  ASSUME NEW a, NEW id, NEW x, Filled(a, id, x), Refer,
         \A o \in Objs : Len(o)' = Len(o), \A o \in Objs : \A s : Stale(o, s) => Stale(o, s)',
         \A o \in Objs : \A s \in 0 .. Len(o) - 1 : ~(id = <<o, "ix">> /\ x = s \div PerIx)
  PROVE  Refer'
<1>1. SUFFICES ASSUME NEW ix \in Page, NEW o \in Objs, NEW s \in 0 .. Len(o)' - 1, ~Stale(o, s)',
                      IxPageNext(ix, o, s \div PerIx)
               PROVE  RefersTo(ix, o, s)
  BY DEF Refer, IxPage, DaPage, IxPageNext, RefersTo
<1>2. s \in 0 .. Len(o) - 1 /\ ~Stale(o, s)
  BY <1>1
<1>3. ix # a
  BY <1>1, <1>2 DEF Filled, IxPageNext
<1>4. IxPage(ix, o, s \div PerIx)
  BY <1>1, <1>3 DEF Filled, IxPage, IxPageNext
<1>5. View[ix].refs[s % PerIx] \in Page /\ DaPage(View[ix].refs[s % PerIx], o, s)
  BY <1>2, <1>4 DEF Refer
<1>6. QED
  BY <1>3, <1>5, FilledRefers

LEMMA CreateFiles ==
  ASSUME IInv, Kept, Clean, CreateBody
  PROVE  Kept' /\ Clean'
<1>1. /\ gc.run # "data" /\ gc' = gc /\ cut = "none" /\ cut' = cut
      /\ call.obj \in Objs /\ <<call.obj, "ix">> \in LookupIds
  BY BodyParts DEF BodyStep
<1>2. /\ call.op = "create" /\ call.step = "body" /\ files[call.obj] = NoFile
      /\ call' = NoCall /\ files' = [files EXCEPT ![call.obj] = 0]
      /\ files \in [Objs -> Int]
  BY DEF CreateBody, Body, IInv, CallOK, Types, NoFile
<1>3. PICK a : Filled(a, <<call.obj, "ix">>, 0)
  BY <1>1, FillStep DEF CreateBody, Blank
<1>4. Quiet /\ Quiet'
  BY <1>2, NoParts DEF Quiet
<1>5. Owned /\ OneEach /\ Refer
  BY <1>1 DEF Clean
<1>6. /\ \A o : ~Removing(o) /\ Len(o) = files[o] /\ ~Removing(o)' /\ Len(o)' = files'[o]
      /\ \A steps \in SUBSET {"data", "index", "size", "last", "drop"} :
           ~AppendAt(steps) /\ ~ModifyAt(steps) /\ ~AppendAt(steps)' /\ ~ModifyAt(steps)'
      /\ Written'
  BY <1>4, QuietParts, QuietPartsNext
<1>7. \A o \in Objs : files'[o] = IF o = call.obj THEN 0 ELSE files[o]
  BY <1>2
<1>8. \A q \in Page : View[q].id \notin {<<call.obj, "ix">>, <<call.obj, "da">>}
  BY <1>1, <1>2, <1>5, <1>6 DEF Owned
<1>9. Kept'
  <2>1. SUFFICES ASSUME NEW o \in Objs, files'[o] # NoFile
                 PROVE  /\ HasIx(o, 0)'
                        /\ \A s \in 0 .. files'[o] - 1 : HasDa(o, s)' /\ HasIx(o, s \div PerIx)'
    BY DEF Kept
  <2>2. CASE o = call.obj
    <3>1. a \in Page /\ View'[a].id = <<o, "ix">> /\ View'[a].span = 0 /\ ~View'[a].removed
      BY <1>3, <2>2 DEF Filled
    <3>2. HasIx(o, 0)'
      BY <3>1 DEF HasIx, IxPage
    <3>3. QED
      BY <1>7, <2>2, <3>2
  <2>3. CASE o # call.obj
    <3>1. HasIx(o, 0) /\ \A s \in 0 .. files'[o] - 1 : HasDa(o, s) /\ HasIx(o, s \div PerIx)
      BY <1>7, <2>1, <2>3 DEF Kept
    <3>2. Carried
      BY <1>3, FillCarried
    <3>3. QED
      BY <3>1, <3>2, CarriedHas
  <2>4. QED
    BY <2>2, <2>3
<1>10. Owned'
  <2>1. ASSUME NEW q \in Page, NEW o \in Objs
        PROVE  /\ View'[q].id \in {<<o, "ix">>, <<o, "da">>} => files'[o] # NoFile
               /\ View'[q].id = <<o, "da">> => View'[q].span < files'[o]
               /\ View'[q].id = <<o, "ix">> =>
                    \/ View'[q].span = 0
                    \/ \E s \in 0 .. files'[o] - 1 : View'[q].span = s \div PerIx
    <3>1. CASE q = a
      BY <1>3, <1>7, <3>1 DEF Filled, NoFile
    <3>2. CASE q # a /\ o = call.obj
      BY <1>3, <1>8, <3>2 DEF Filled
    <3>3. CASE q # a /\ o # call.obj
      <4>1. View'[q] = View[q] /\ files'[o] = files[o]
        BY <1>3, <1>7, <3>3 DEF Filled
      <4>2. QED
        BY <1>5, <1>6, <4>1 DEF Owned
    <3>4. QED
      BY <3>1, <3>2, <3>3
  <2>2. QED
    BY <1>6, <2>1 DEF Owned
<1>11. OneEach'
  <2>1. ASSUME NEW q \in Page, NEW t \in Page, NEW o \in Objs,
               View'[q].id \in {<<o, "ix">>, <<o, "da">>}, View'[t].id = View'[q].id,
               View'[t].span = View'[q].span
        PROVE  q = t
    <3>1. CASE q = a \/ t = a
      BY <1>3, <1>8, <2>1, <3>1 DEF Filled
    <3>2. CASE q # a /\ t # a
      BY <1>3, <1>5, <1>6, <2>1, <3>2 DEF Filled, OneEach
    <3>3. QED
      BY <3>1, <3>2
  <2>2. QED
    BY <2>1 DEF OneEach
<1>12. Refer'
  <2>1. SUFFICES ASSUME NEW ix \in Page, NEW o \in Objs, NEW s \in 0 .. Len(o)' - 1,
                        IxPageNext(ix, o, s \div PerIx)
                 PROVE  RefersTo(ix, o, s)
    BY DEF Refer, IxPage, DaPage, IxPageNext, RefersTo
  <2>2. o # call.obj /\ s \in 0 .. Len(o) - 1
    BY <1>6, <1>7, <2>1
  <2>3. ix # a
    BY <1>3, <2>1, <2>2 DEF Filled, IxPageNext
  <2>4. IxPage(ix, o, s \div PerIx) /\ ~Stale(o, s)
    BY <1>3, <1>6, <2>1, <2>3 DEF Filled, IxPage, IxPageNext, Stale
  <2>5. View[ix].refs[s % PerIx] \in Page /\ DaPage(View[ix].refs[s % PerIx], o, s)
    BY <1>5, <2>2, <2>4 DEF Refer
  <2>6. QED
    BY <1>3, <2>3, <2>5, FilledRefers
<1>13. QED
  BY <1>6, <1>9, <1>10, <1>11, <1>12 DEF Clean

(* A page written by an append or a modification is one the call owns.     *)
LEMMA FilledOwned ==
  ASSUME NEW a, NEW id, NEW x, Filled(a, id, x), Owned, call.obj \in Objs,
         call.op \in {"append", "modify"}, call.step \in {"body", "data"},
         call'.op = call.op, call'.obj = call.obj, call'.span = call.span, files' = files,
         call.step = "data" => AppendAt({"data", "index", "size", "last"})',
         files[call.obj] # NoFile,
         \/ /\ id = <<call.obj, "ix">> /\ x = call.span \div PerIx
            /\ AppendAt({"data", "index", "size", "last"})'
         \/ /\ id = <<call.obj, "da">>
            /\ x < files[call.obj] \/ (AppendAt({"index", "size", "last"})' /\ a = call'.pix)
  PROVE  Owned'
<1>1. \A o : /\ ~Removing(o) /\ Len(o) = files[o] /\ ~Removing(o)' /\ Len(o)' = files[o]
  BY DEF Removing, Len
<1>2. /\ ~AppendAt({"index", "size", "last"})
      /\ AppendAt({"data", "index", "size", "last"}) => AppendAt({"data", "index", "size", "last"})'
  BY DEF AppendAt
<1>3. ASSUME NEW q \in Page, NEW o \in Objs
      PROVE  /\ View'[q].id \in {<<o, "ix">>, <<o, "da">>} => files[o] # NoFile
             /\ View'[q].id = <<o, "da">> =>
                  \/ View'[q].span < files[o]
                  \/ AppendAt({"index", "size", "last"})' /\ call.obj = o /\ q = call'.pix
             /\ View'[q].id = <<o, "ix">> =>
                  \/ View'[q].span = 0
                  \/ \E s \in 0 .. files[o] - 1 : View'[q].span = s \div PerIx
                  \/ /\ AppendAt({"data", "index", "size", "last"})'
                     /\ call.obj = o /\ View'[q].span = call.span \div PerIx
  <2>1. CASE q = a
    BY <2>1 DEF Filled
  <2>2. CASE q # a
    <3>1. View'[q] = View[q]
      BY <2>2 DEF Filled
    <3>2. QED
      BY <1>1, <1>2, <3>1 DEF Owned
  <2>3. QED
    BY <2>1, <2>2
<1>4. QED
  BY <1>1, <1>3 DEF Owned

(* It is there once if no page with its span was.                          *)
LEMMA FilledOnce ==
  ASSUME NEW a, NEW id, NEW x, Filled(a, id, x), OneEach, ~ModifyAt({"drop"}),
         \A q \in Page : ~(View[q].id = id /\ View[q].span = x)
  PROVE  OneEach'
<1>1. ASSUME NEW q \in Page, NEW t \in Page, NEW o \in Objs,
             View'[q].id \in {<<o, "ix">>, <<o, "da">>}, View'[t].id = View'[q].id,
             View'[t].span = View'[q].span
      PROVE  q = t
  <2>1. CASE q = a \/ t = a
    BY <1>1, <2>1 DEF Filled
  <2>2. CASE q # a /\ t # a
    BY <1>1, <2>2 DEF Filled, OneEach
  <2>3. QED
    BY <2>1, <2>2
<1>2. QED
  BY <1>1 DEF OneEach

(* The pages of a file that grows are those below its size.                *)
LEMMA BelowSize ==
  ASSUME IInv, Owned, call.op = "append", call.step \in {"body", "data"},
         NEW q \in Page
  PROVE  /\ View[q].id = <<call.obj, "da">> => View[q].span < call.span
         /\ View[q].id = <<call.obj, "ix">> /\ call.step = "body" /\ NewIndex =>
              View[q].span < call.span \div PerIx
<1>1. /\ call.obj \in Objs /\ call.span \in Nat /\ files[call.obj] = call.span
  BY SpanType DEF IInv, CallOK
<1>2. ~Removing(call.obj) /\ Len(call.obj) = call.span /\ ~AppendAt({"index", "size", "last"})
  BY <1>1 DEF Removing, Len, AppendAt
<1>3. View[q].id = <<call.obj, "da">> => View[q].span < call.span
  BY <1>1, <1>2 DEF Owned
<1>4. ASSUME View[q].id = <<call.obj, "ix">>, call.step = "body", NewIndex
      PROVE  View[q].span < call.span \div PerIx
  <2>1. ~AppendAt({"data", "index", "size", "last"})
    BY <1>4 DEF AppendAt
  <2>2. View[q].span = 0 \/ \E s \in 0 .. call.span - 1 : View[q].span = s \div PerIx
    BY <1>1, <1>2, <1>4, <2>1 DEF Owned
  <2>3. call.span % PerIx = 0 /\ call.span \div PerIx > 0
    BY <1>4 DEF NewIndex
  <2>4. ASSUME NEW s \in 0 .. call.span - 1 PROVE s \div PerIx < call.span \div PerIx
    <3>1. s \in Nat /\ s < call.span
      BY <1>1
    <3>2. QED
      BY <1>1, <2>3, <3>1, GcAssumption, DivModOrder
  <2>5. QED
    BY <2>2, <2>3, <2>4
<1>5. QED
  BY <1>3, <1>4

LEMMA AppendIndexFiles ==
  ASSUME IInv, Kept, Clean, AppendIndex
  PROVE  Kept' /\ Clean'
<1>1. /\ gc.run # "data" /\ gc' = gc /\ cut = "none" /\ cut' = cut
      /\ call.obj \in Objs /\ <<call.obj, "ix">> \in LookupIds
  BY BodyParts DEF BodyStep
<1>2. /\ call.op = "append" /\ call.step = "body" /\ NewIndex /\ files' = files
      /\ call' = [call EXCEPT !.step = "data"] /\ files[call.obj] = call.span
      /\ call.span \in Nat
  BY SpanType DEF AppendIndex, Body, IInv, CallOK
<1>3. /\ call'.op = "append" /\ call'.obj = call.obj /\ call'.span = call.span
      /\ call'.step = "data"
  BY <1>2 DEF IInv, Types, CallLocals
<1>4. PICK x, a : x = call.span \div PerIx /\ Filled(a, <<call.obj, "ix">>, x)
  BY <1>1, FillStep DEF AppendIndex
<1>5. Owned /\ OneEach /\ Refer
  BY <1>1 DEF Clean
<1>6. AppendAt({"data", "index", "size", "last"})' /\ ~ModifyAt({"drop"})
  BY <1>2, <1>3 DEF AppendAt, ModifyAt
<1>7. \A q \in Page : ~(View[q].id = <<call.obj, "ix">> /\ View[q].span = x)
  <2>1. x \in Nat
    BY <1>2, <1>4, DivMod
  <2>2. QED
    BY <1>2, <1>4, <1>5, <2>1, BelowSize
<1>8. Kept'
  BY <1>2, <1>4, FillCarried, CarriedKept
<1>9. Owned'
  <2>1. files[call.obj] # NoFile
    BY <1>2 DEF NoFile
  <2>2. QED
    BY <1>1, <1>2, <1>3, <1>4, <1>5, <1>6, <2>1, FilledOwned
<1>10. OneEach'
  BY <1>4, <1>5, <1>6, <1>7, FilledOnce
<1>11. Refer'
  <2>1. \A o \in Objs : Len(o) = files[o] /\ Len(o)' = Len(o) /\ \A s : ~Stale(o, s)
    BY <1>2, <1>3 DEF Len, Removing, Stale, ModifyAt
  <2>2. ASSUME NEW o \in Objs, NEW s \in 0 .. Len(o) - 1, <<call.obj, "ix">> = <<o, "ix">>,
               x = s \div PerIx
        PROVE  FALSE
    <3>1. s \in Nat /\ s < call.span /\ call.span % PerIx = 0
      BY <1>2, <2>1, <2>2 DEF NewIndex
    <3>2. s \div PerIx \in Nat /\ s \div PerIx < call.span \div PerIx
      BY <1>2, <3>1, DivMod, GcAssumption, DivModOrder
    <3>3. QED
      BY <1>4, <2>2, <3>2
  <2>3. QED
    BY <1>4, <1>5, <2>1, <2>2, FilledRefer
<1>12. Written'
  <2>1. HasIx(call.obj, call.span \div PerIx)'
    <3>1. a \in Page /\ View'[a].id = <<call.obj, "ix">> /\ View'[a].span = x /\ ~View'[a].removed
      BY <1>4 DEF Filled
    <3>2. QED
      BY <1>3, <1>4, <3>1 DEF HasIx, IxPage
  <2>2. QED
    BY <1>3, <2>1 DEF Written, NewData, NewIx, Patched, Unpatched, Header, AppendAt, ModifyAt
<1>13. QED
  BY <1>8, <1>9, <1>10, <1>11, <1>12 DEF Clean

(* The index page an append needs is there: it has just been written, or   *)
(* it is the one of the page before.                                       *)
LEMMA IndexForAppend ==
  ASSUME IInv, Kept, NewIx, call.op = "append",
         call.step = "data" \/ (call.step = "body" /\ ~NewIndex)
  PROVE  HasIx(call.obj, call.span \div PerIx)
<1>s. /\ call.obj \in Objs /\ call.span \in Nat /\ files[call.obj] = call.span
  BY SpanType DEF IInv, CallOK
<1>1. /\ call.obj \in Objs /\ call.span \in Nat /\ files[call.obj] = call.span
      /\ files[call.obj] # NoFile
  BY <1>s DEF NoFile
<1>2. CASE call.step = "data"
  BY <1>2 DEF NewIx, AppendAt
<1>3. CASE call.span \div PerIx = 0
  BY <1>1, <1>3 DEF Kept
<1>4. CASE call.step = "body" /\ call.span \div PerIx # 0
  <2>1. call.span % PerIx # 0
    <3>1. call.span \div PerIx \in Nat
      BY <1>1, DivMod
    <3>2. QED
      BY <1>4, <3>1 DEF NewIndex
  <2>2. call.span > 0 /\ (call.span - 1) \div PerIx = call.span \div PerIx
    BY <1>1, <2>1, GcAssumption, DivModBefore
  <2>3. call.span - 1 \in 0 .. files[call.obj] - 1
    BY <1>1, <2>2
  <2>4. QED
    BY <1>1, <2>2, <2>3 DEF Kept
<1>5. QED
  BY <1>2, <1>3, <1>4

LEMMA AppendDataFiles ==
  ASSUME IInv, Kept, Clean, AppendData
  PROVE  Kept' /\ Clean'
<1>1. /\ gc.run # "data" /\ gc' = gc /\ cut = "none" /\ cut' = cut
      /\ call.obj \in Objs /\ <<call.obj, "da">> \in LookupIds
  BY BodyParts DEF BodyStep
<1>2. /\ call.op = "append"
      /\ call.step = "data" \/ (call.step = "body" /\ ~NewIndex)
      /\ files' = files /\ call' = [call EXCEPT !.step = "index", !.pix = Allocated]
      /\ files[call.obj] = call.span /\ call.span \in Nat
  BY SpanType DEF AppendData, Body, IInv, CallOK
<1>3. /\ call'.op = "append" /\ call'.obj = call.obj /\ call'.span = call.span
      /\ call'.step = "index" /\ call'.pix = Allocated
  BY <1>2 DEF IInv, Types, CallLocals
<1>4. PICK a : a = Allocated /\ Filled(a, <<call.obj, "da">>, call.span)
  BY <1>1, FillStep DEF AppendData
<1>5. Owned /\ OneEach /\ Refer /\ NewIx
  BY <1>1 DEF Clean, Written
<1>6. AppendAt({"data", "index", "size", "last"})' /\ AppendAt({"index", "size", "last"})'
      /\ ~ModifyAt({"drop"}) /\ ~AppendAt({"size", "last"})'
  BY <1>2, <1>3 DEF AppendAt, ModifyAt
<1>7. \A q \in Page : ~(View[q].id = <<call.obj, "da">> /\ View[q].span = call.span)
  <2>1. SUFFICES ASSUME NEW q \in Page, View[q].id = <<call.obj, "da">>
                 PROVE  View[q].span # call.span
    OBVIOUS
  <2>2. call.step \in {"body", "data"}
    BY <1>2
  <2>3. View[q].span < call.span
    BY <1>2, <1>5, <2>1, <2>2, BelowSize
  <2>4. View[q].span \in Nat
    BY ViewType DEF IInv
  <2>5. QED
    BY <1>2, <2>3, <2>4
<1>8. Kept' /\ Carried
  BY <1>2, <1>4, FillCarried, CarriedKept
<1>9. Owned'
  <2>1. files[call.obj] # NoFile
    BY <1>2 DEF NoFile
  <2>2. QED
    BY <1>1, <1>2, <1>3, <1>4, <1>5, <1>6, <2>1, FilledOwned
<1>10. OneEach'
  BY <1>4, <1>5, <1>6, <1>7, FilledOnce
<1>11. Refer'
  <2>1. \A o \in Objs : Len(o)' = Len(o) /\ \A s : ~Stale(o, s)
    BY <1>2, <1>3 DEF Len, Removing, Stale, ModifyAt
  <2>2. \A o : <<call.obj, "da">> # <<o, "ix">>
    OBVIOUS
  <2>3. QED
    BY <1>4, <1>5, <2>1, <2>2, FilledRefer
<1>12. Written'
  <2>1. NewIx'
    <3>1. PICK o, x : o \in Objs /\ o = call.obj /\ x = call.span \div PerIx /\ HasIx(o, x)
      BY <1>1, <1>2, <1>5, IndexForAppend
    <3>2. HasIx(o, x)'
      BY <1>8, <3>1, CarriedHas
    <3>3. QED
      BY <1>3, <3>1, <3>2 DEF NewIx, HasIx, IxPage
  <2>2. NewData'
    BY <1>3, <1>4 DEF NewData, DaPage, Filled
  <2>3. QED
    BY <1>3, <2>1, <2>2 DEF Written, Patched, Unpatched, Header, AppendAt, ModifyAt
<1>13. QED
  BY <1>8, <1>9, <1>10, <1>11, <1>12 DEF Clean

(* spiffs_object_modify has the page twice until it deletes the old one.   *)
LEMMA ModifyDataFiles ==
  ASSUME IInv, Kept, Clean, ModifyData
  PROVE  Kept' /\ Clean'
<1>1. /\ gc.run # "data" /\ gc' = gc /\ cut = "none" /\ cut' = cut
      /\ call.obj \in Objs /\ <<call.obj, "da">> \in LookupIds
  BY BodyParts DEF BodyStep
<1>2. /\ call.op = "modify" /\ call.step = "body"
      /\ files' = files /\ call' = [call EXCEPT !.step = "drop", !.pix = Allocated]
      /\ call.span \in Nat /\ call.span < files[call.obj] /\ files \in [Objs -> Int]
  BY SpanType DEF ModifyData, Body, IInv, CallOK, Types, NoFile
<1>3. /\ call'.op = "modify" /\ call'.obj = call.obj /\ call'.span = call.span
      /\ call'.step = "drop" /\ call'.pix = Allocated
  BY <1>2 DEF IInv, Types, CallLocals
<1>4. PICK a : a = Allocated /\ Filled(a, <<call.obj, "da">>, call.span)
  BY <1>1, FillStep DEF ModifyData
<1>5. Owned /\ OneEach /\ Refer
  BY <1>1 DEF Clean
<1>6. ~ModifyAt({"drop"}) /\ ModifyAt({"drop"})'
  BY <1>2, <1>3 DEF ModifyAt
<1>7. \A o \in Objs : /\ Len(o) = files[o] /\ Len(o)' = Len(o)
                      /\ \A s : ~Stale(o, s) /\ ~Stale(o, s)'
  BY <1>2, <1>3 DEF Len, Removing, Stale, ModifyAt
<1>8. Kept'
  BY <1>2, <1>4, FillCarried, CarriedKept
<1>9. Owned'
  <2>1. files[call.obj] # NoFile
    BY <1>1, <1>2 DEF NoFile
  <2>2. QED
    BY <1>1, <1>2, <1>3, <1>4, <1>5, <2>1, FilledOwned
<1>10. OneEach'
  <2>1. ASSUME NEW q \in Page, NEW t \in Page, NEW o \in Objs, q # t,
               View'[q].id \in {<<o, "ix">>, <<o, "da">>}, View'[t].id = View'[q].id,
               View'[t].span = View'[q].span
        PROVE  View'[q].id = <<call.obj, "da">> /\ View'[q].span = call.span /\ a \in {q, t}
    <3>1. CASE a \in {q, t}
      BY <1>4, <2>1, <3>1 DEF Filled
    <3>2. CASE a \notin {q, t}
      BY <1>4, <1>5, <1>6, <2>1, <3>2 DEF Filled, OneEach
    <3>3. QED
      BY <3>1, <3>2
  <2>2. QED
    BY <1>3, <1>4, <1>6, <2>1 DEF OneEach
<1>11. Refer'
  <2>1. \A o : <<call.obj, "da">> # <<o, "ix">>
    OBVIOUS
  <2>2. QED
    BY <1>4, <1>5, <1>7, <2>1, FilledRefer
<1>12. Written'
  <2>1. NewData'
    BY <1>3, <1>4 DEF NewData, DaPage, Filled
  <2>2. Unpatched'
    <3>1. ASSUME NEW ix \in Page, IxPageNext(ix, call.obj, call.span \div PerIx)
          PROVE  View'[ix].refs[call.span % PerIx] # a
      <4>1. ix # a
        BY <1>4, <3>1 DEF Filled, IxPageNext
      <4>2. IxPage(ix, call.obj, call.span \div PerIx) /\ View'[ix] = View[ix]
        BY <1>4, <3>1, <4>1 DEF Filled, IxPage, IxPageNext
      <4>3. call.span \in 0 .. Len(call.obj) - 1
        BY <1>1, <1>2, <1>7
      <4>4. /\ View[ix].refs[call.span % PerIx] \in Page
            /\ DaPage(View[ix].refs[call.span % PerIx], call.obj, call.span)
        BY <1>1, <1>5, <1>7, <4>2, <4>3 DEF Refer
      <4>5. QED
        BY <1>1, <1>4, <4>1, <4>2, <4>4, FilledRefers
    <3>2. QED
      BY <1>3, <1>4, <3>1 DEF Unpatched, IxPage, IxPageNext
  <2>3. QED
    BY <1>3, <2>1, <2>2 DEF Written, NewIx, Patched, Header, AppendAt
<1>13. QED
  BY <1>8, <1>9, <1>10, <1>11, <1>12 DEF Clean

-----------------------------------------------------------------------------
(* The object layer: the steps that rewrite an index page, be it in place  *)
(* (then the two pages are one) or in another page.                        *)

IxMoved(src, p) ==
  /\ src \in Page /\ p \in Page /\ IsIx(View[src]) /\ SamePage(src, p)
  /\ p # src => View[p].id \notin LookupIds /\ View'[src].id \notin LookupIds
  /\ \A q \in Page \ {src, p} : SamePage(q, q)

Patch(src, p) ==
  /\ IxMoved(src, p) /\ IxPage(src, call.obj, call.span \div PerIx)
  /\ View'[p].refs = [View[src].refs EXCEPT ![call.span % PerIx] = call.pix]
  /\ \A q \in Page \ {src, p} : View[q].id \in LookupIds => View'[q].refs = View[q].refs

LEMMA IxMovedParts ==
  ASSUME NEW src, NEW p, IxMoved(src, p)
  PROVE  /\ Carried
         /\ \A q \in Page : View'[q].id \in LookupIds =>
              \E r \in Page : /\ SamePage(r, q)
                              /\ (q = p /\ r = src) \/ (q \notin {src, p} /\ r = q)
         /\ \A q \in Page, o \in Objs :
              View[q].id = <<o, "da">> \/ View'[q].id = <<o, "da">> =>
                q \notin {src, p} /\ SamePage(q, q)
<1>1. Carried
  BY DEF IxMoved, Carried
<1>2. ASSUME NEW q \in Page, View'[q].id \in LookupIds
      PROVE  \E r \in Page : /\ SamePage(r, q)
                             /\ (q = p /\ r = src) \/ (q \notin {src, p} /\ r = q)
  BY <1>2 DEF IxMoved
<1>3. ASSUME NEW q \in Page, NEW o \in Objs,
             View[q].id = <<o, "da">> \/ View'[q].id = <<o, "da">>
      PROVE  q \notin {src, p} /\ SamePage(q, q)
  <2>1. ~IsDa(View[src]) /\ View'[p].id = View[src].id
    BY Kinds DEF IxMoved, SamePage
  <2>2. View[src].id # <<o, "da">> /\ View'[p].id # <<o, "da">>
    BY <2>1 DEF IsDa
  <2>3. <<o, "da">> \in LookupIds
    BY FileIds
  <2>4. q # src
    BY <1>3, <2>2, <2>3 DEF IxMoved
  <2>5. q # p
    BY <1>3, <2>2, <2>3 DEF IxMoved
  <2>6. QED
    BY <2>4, <2>5 DEF IxMoved
<1>4. QED
  BY <1>1, <1>2, <1>3

LEMMA IxMovedOwned ==
  ASSUME NEW src, NEW p, IxMoved(src, p), files' = files, call.op \in {"append", "modify"},
         call'.op = call.op, call'.obj = call.obj, call'.span = call.span, call'.pix = call.pix,
         call.step \in {"index", "size", "last"}, call'.step \in {"index", "size", "last"}
  PROVE  (Owned => Owned') /\ (OneEach => OneEach')
<1>1. \A o : /\ ~Removing(o) /\ Len(o) = files[o] /\ ~Removing(o)' /\ Len(o)' = files[o]
  BY DEF Removing, Len
<1>2. /\ AppendAt({"index", "size", "last"})' <=> AppendAt({"index", "size", "last"})
      /\ AppendAt({"data", "index", "size", "last"})' <=> AppendAt({"data", "index", "size", "last"})
      /\ ~ModifyAt({"drop"})
  BY DEF AppendAt, ModifyAt
<1>3. ASSUME Owned PROVE Owned'
  <2>1. ASSUME NEW q \in Page, NEW o \in Objs
        PROVE  /\ View'[q].id \in {<<o, "ix">>, <<o, "da">>} => files[o] # NoFile
               /\ View'[q].id = <<o, "da">> =>
                    \/ View'[q].span < files[o]
                    \/ AppendAt({"index", "size", "last"}) /\ call.obj = o /\ q = call.pix
               /\ View'[q].id = <<o, "ix">> =>
                    \/ View'[q].span = 0
                    \/ \E s \in 0 .. files[o] - 1 : View'[q].span = s \div PerIx
                    \/ /\ AppendAt({"data", "index", "size", "last"})
                       /\ call.obj = o /\ View'[q].span = call.span \div PerIx
    <3>1. CASE View'[q].id \notin {<<o, "ix">>, <<o, "da">>}
      BY <3>1
    <3>2. CASE View'[q].id = <<o, "ix">>
      <4>d. View'[q].id \in LookupIds
        BY <3>2, FileIds
      <4>1. PICK r \in Page : SamePage(r, q)
        BY <4>d, IxMovedParts
      <4>2. View[r].id = <<o, "ix">> /\ View[r].span = View'[q].span
        BY <3>2, <4>1 DEF SamePage
      <4>3. View'[q].id # <<o, "da">> /\ files[o] # NoFile
        <5>1. files[o] # NoFile \/ Removing(o)
          BY <1>3, <4>2 DEF Owned
        <5>2. QED
          BY <1>1, <3>2, <5>1
      <4>4. \/ View[r].span = 0
            \/ \E s \in 0 .. files[o] - 1 : View[r].span = s \div PerIx
            \/ /\ AppendAt({"data", "index", "size", "last"})
               /\ call.obj = o /\ View[r].span = call.span \div PerIx
        BY <1>1, <1>3, <4>2 DEF Owned
      <4>5. QED
        BY <4>2, <4>3, <4>4
    <3>3. CASE View'[q].id = <<o, "da">>
      <4>1. SamePage(q, q)
        BY <3>3, IxMovedParts
      <4>2. QED
        BY <1>1, <1>3, <3>3, <4>1 DEF Owned, SamePage
    <3>4. QED
      BY <3>1, <3>2, <3>3
  <2>2. QED
    BY <1>1, <1>2, <2>1 DEF Owned
<1>4. ASSUME OneEach PROVE OneEach'
  <2>1. ASSUME NEW q \in Page, NEW t \in Page, NEW o \in Objs,
               View'[q].id \in {<<o, "ix">>, <<o, "da">>}, View'[t].id = View'[q].id,
               View'[t].span = View'[q].span
        PROVE  q = t
    <3>1. View'[q].id \in LookupIds /\ View'[t].id \in LookupIds
      BY <2>1, FileIds
    <3>2. PICK r \in Page : SamePage(r, q) /\ ((q = p /\ r = src) \/ (q \notin {src, p} /\ r = q))
      BY <3>1, IxMovedParts
    <3>3. PICK u \in Page : SamePage(u, t) /\ ((t = p /\ u = src) \/ (t \notin {src, p} /\ u = t))
      BY <3>1, IxMovedParts
    <3>4. r = u
      BY <1>2, <1>4, <2>1, <3>2, <3>3 DEF OneEach, SamePage
    <3>5. QED
      BY <3>2, <3>3, <3>4
  <2>2. QED
    BY <2>1 DEF OneEach
<1>5. QED
  BY <1>3, <1>4

(* The patch is seen, and no other reference of the page is disturbed.     *)
LEMMA PatchRefers ==
  ASSUME IInv, Refer, OneEach, call.obj \in Objs, call.span \in Nat, NEW src, NEW p, Patch(src, p)
  PROVE  /\ \A ix \in Page, o \in Objs : \A s \in 0 .. Len(o) - 1 :
              IxPageNext(ix, o, s \div PerIx) /\ ~(o = call.obj /\ s = call.span) =>
                RefersTo(ix, o, s)
         /\ \A ix \in Page : IxPageNext(ix, call.obj, call.span \div PerIx) =>
              View'[ix].refs[call.span % PerIx] = call.pix
<1>1. IxMoved(src, p) /\ src \in Page /\ p \in Page
  BY DEF Patch, IxMoved
<1>2. View[src].refs \in Refs
  BY <1>1, ViewType DEF IInv
<1>3. View[src].id = <<call.obj, "ix">> /\ View[src].span = call.span \div PerIx
  BY DEF Patch, IxPage
<1>4. /\ View'[p].refs[call.span % PerIx] = call.pix
      /\ \A i \in 0 .. PerIx - 1 : i # call.span % PerIx => View'[p].refs[i] = View[src].refs[i]
  <2>1. call.span % PerIx \in 0 .. PerIx - 1
    BY DivMod
  <2>2. QED
    BY <1>2, <2>1 DEF Patch, Refs
<1>5. ASSUME NEW ix \in Page, NEW o \in Objs, NEW s \in 0 .. Len(o) - 1,
             IxPageNext(ix, o, s \div PerIx), ~(o = call.obj /\ s = call.span)
      PROVE  RefersTo(ix, o, s)
  <2>1. PICK r \in Page : SamePage(r, ix) /\ ((ix = p /\ r = src) \/ (ix \notin {src, p} /\ r = ix))
    <3>1. View'[ix].id \in LookupIds
      BY <1>5, FileIds DEF IxPageNext
    <3>2. QED
      BY <1>1, <3>1, IxMovedParts
  <2>2. IxPage(r, o, s \div PerIx) /\ ~Stale(o, s)
    BY <1>5, <2>1 DEF SamePage, IxPage, IxPageNext, Stale
  <2>3. PICK d \in Page : d = View[r].refs[s % PerIx] /\ DaPage(d, o, s)
    BY <2>2 DEF Refer
  <2>4. SamePage(d, d)
    BY <1>1, <2>3, IxMovedParts DEF DaPage
  <2>5. View'[ix].refs[s % PerIx] = d
    <3>1. CASE ix \notin {src, p} /\ r = ix
      <4>1. View[ix].id \in LookupIds
        BY <2>2, <3>1, FileIds DEF IxPage
      <4>2. QED
        BY <2>3, <3>1, <4>1 DEF Patch
    <3>2. CASE ix = p /\ r = src
      <4>1. o = call.obj /\ s \div PerIx = call.span \div PerIx /\ s # call.span
        BY <1>3, <1>5, <2>2, <3>2 DEF IxPage
      <4>2. s \in Nat
        BY <1>5
      <4>3. s % PerIx # call.span % PerIx
        <5>1. SUFFICES ASSUME s % PerIx = call.span % PerIx PROVE FALSE
          OBVIOUS
        <5>2. s = call.span
          BY <4>1, <4>2, <5>1, GcAssumption, DivModUnique
        <5>3. QED
          BY <4>1, <5>2
      <4>4. s % PerIx \in 0 .. PerIx - 1
        BY <4>2, DivMod
      <4>5. QED
        BY <1>4, <2>3, <3>2, <4>3, <4>4
    <3>3. QED
      BY <2>1, <3>1, <3>2
  <2>6. QED
    BY <2>3, <2>4, <2>5 DEF RefersTo, DaPage, SamePage
<1>6. ASSUME NEW ix \in Page, IxPageNext(ix, call.obj, call.span \div PerIx)
      PROVE  View'[ix].refs[call.span % PerIx] = call.pix
  <2>1. PICK r \in Page : SamePage(r, ix) /\ ((ix = p /\ r = src) \/ (ix \notin {src, p} /\ r = ix))
    <3>1. View'[ix].id \in LookupIds
      BY <1>6, FileIds DEF IxPageNext
    <3>2. QED
      BY <1>1, <3>1, IxMovedParts
  <2>2. View[r].id = <<call.obj, "ix">> /\ View[r].span = call.span \div PerIx
    BY <1>6, <2>1 DEF SamePage, IxPageNext
  <2>3. r = src
    BY <1>1, <1>3, <2>2 DEF OneEach
  <2>4. ix = p
    BY <2>1, <2>3
  <2>5. QED
    BY <1>4, <2>4
<1>7. QED
  BY <1>5, <1>6

(* What the index page the object layer has found is.                      *)
IndexAt(ix, o, x) ==
  /\ ix \in Page /\ Id(ix) \in LookupIds /\ IxPage(ix, o, x)
  /\ IsIx(View[ix]) /\ View[ix].refs = page[ix].refs /\ page[ix].refs \in Refs
  /\ page[ix].removed = FALSE /\ page[ix].span = x

LEMMA FoundIndex ==
  ASSUME Types, moving = Alloc!NoMove, gc.run # "data", NEW o \in Objs, NEW x, NEW ix,
         Found(o, "ix", x, ix)
  PROVE  IndexAt(ix, o, x)
<1>1. ix \in Page /\ Id(ix) = <<o, "ix">> /\ page[ix].span = x /\ ~page[ix].removed
      /\ page[ix].refs \in Refs /\ page[ix].removed = FALSE
  BY FoundType, PageType
<1>2. IdAfter(ix) = <<o, "ix">> /\ RefsAfter(ix) = page[ix].refs
  BY <1>1, ViewWithoutMove DEF RefsAfter
<1>3. /\ View[ix].id = <<o, "ix">> /\ View[ix].span = page[ix].span
      /\ View[ix].removed = page[ix].removed /\ View[ix].refs = page[ix].refs
  BY <1>1, <1>2, FileIds, ViewAt
<1>4. Id(ix) \in LookupIds
  BY <1>1, FileIds
<1>5. QED
  BY <1>1, <1>3, <1>4 DEF IxPage, IsIx, IndexAt

(* With no move in progress, and none begun.                               *)
LEMMA PlainView ==
  ASSUME moving = Alloc!NoMove, gc.run # "data", UNCHANGED <<lu, moving, gc>>
  PROVE  \A q \in Page :
           /\ View[q] = IF Id(q) \in LookupIds
                        THEN PageView(Id(q), page[q].span, page[q].removed, page[q].refs)
                        ELSE Gone
           /\ View'[q] = IF Id(q) \in LookupIds
                         THEN PageView(Id(q), page'[q].span, page'[q].removed, page'[q].refs)
                         ELSE Gone
<1>1. \A q : /\ IdAfter(q) = Id(q) /\ IdAfter(q)' = Id(q)
             /\ RefsAfter(q) = page[q].refs /\ RefsAfter(q)' = page'[q].refs
  BY DEF IdAfter, RefsAfter, Alloc!NoMove, Id
<1>2. \A q \in Page : View'[q] = IF Id(q) \in LookupIds
                                 THEN PageView(Id(q), page'[q].span, page'[q].removed, page'[q].refs)
                                 ELSE Gone
  BY <1>1 DEF View
<1>3. \A q \in Page : View[q] = IF Id(q) \in LookupIds
                                THEN PageView(Id(q), page[q].span, page[q].removed, page[q].refs)
                                ELSE Gone
  BY <1>1 DEF View
<1>4. QED
  BY <1>2, <1>3

LEMMA PatchInPlace ==
  ASSUME IInv, moving = Alloc!NoMove, gc.run # "data", gc' = gc, UNCHANGED <<lu, moving>>,
         NEW ix, IndexAt(ix, call.obj, call.span \div PerIx),
         page' = [page EXCEPT ![ix].refs[call.span % PerIx] = call.pix]
  PROVE  Patch(ix, ix) /\ \A q \in Page : SamePage(q, q)
<1>1. /\ ix \in Page /\ IxPage(ix, call.obj, call.span \div PerIx) /\ IsIx(View[ix])
      /\ View[ix].refs = page[ix].refs /\ Id(ix) \in LookupIds
  BY DEF IndexAt
<1>3. page'[ix] = [page[ix] EXCEPT !.refs = [page[ix].refs EXCEPT ![call.span % PerIx] = call.pix]]
  BY <1>1 DEF IInv, Types
<1>4. /\ page'[ix].span = page[ix].span /\ page'[ix].removed = page[ix].removed
      /\ page'[ix].refs = [page[ix].refs EXCEPT ![call.span % PerIx] = call.pix]
  BY <1>1, <1>3, PageType DEF IInv, PageData
<1>5. \A q \in Page \ {ix} : page'[q] = page[q]
  BY DEF IInv, Types
<1>6. \A q \in Page :
        /\ View[q] = IF Id(q) \in LookupIds
                     THEN PageView(Id(q), page[q].span, page[q].removed, page[q].refs)
                     ELSE Gone
        /\ View'[q] = IF Id(q) \in LookupIds
                      THEN PageView(Id(q), page'[q].span, page'[q].removed, page'[q].refs)
                      ELSE Gone
  BY PlainView
<1>9. \A q \in Page \ {ix} : View'[q] = View[q]
  BY <1>5, <1>6
<1>10. View'[ix].refs = [page[ix].refs EXCEPT ![call.span % PerIx] = call.pix] /\ SamePage(ix, ix)
  <2>1. View'[ix] = PageView(Id(ix), page[ix].span, page[ix].removed, page'[ix].refs)
    BY <1>1, <1>4, <1>6
  <2>2. View[ix] = PageView(Id(ix), page[ix].span, page[ix].removed, page[ix].refs)
    BY <1>1, <1>6
  <2>3. View'[ix].refs = page'[ix].refs /\ SamePage(ix, ix)
    BY <2>1, <2>2 DEF PageView, SamePage
  <2>4. QED
    BY <1>4, <2>3
<1>11. \A q \in Page : SamePage(q, q)
  BY <1>9, <1>10 DEF SamePage
<1>12. IxMoved(ix, ix)
  BY <1>1, <1>11 DEF IxMoved
<1>13. QED
  BY <1>1, <1>9, <1>10, <1>11, <1>12 DEF Patch

LEMMA PatchMoved ==
  ASSUME IInv, moving = Alloc!NoMove, gc.run # "data", gc' = gc,
         NEW ix, IndexAt(ix, call.obj, call.span \div PerIx), NEW d, Move(ix, d),
         d.span = page[ix].span, d.removed = FALSE,
         d.refs = [page[ix].refs EXCEPT ![call.span % PerIx] = call.pix]
  PROVE  \E p \in Page : Patch(ix, p)
<1>1. /\ ix \in Page /\ IxPage(ix, call.obj, call.span \div PerIx) /\ IsIx(View[ix])
      /\ View[ix].refs = page[ix].refs /\ page[ix].removed = FALSE
  BY DEF IndexAt
<1>2. d.removed = page[ix].removed
  BY <1>1
<1>3. PICK p \in Page :
        /\ Moved(ix, p) /\ View'[p].refs = d.refs
        /\ \A q \in Page \ {ix, p} : View[q].id \in LookupIds => View'[q].refs = View[q].refs
  BY <1>2, PlainMove
<1>4. IxMoved(ix, p)
  BY <1>1, <1>3 DEF Moved, IxMoved
<1>5. QED
  BY <1>1, <1>3, <1>4 DEF Patch

(* A page the call has written stays where it is.                          *)
LEMMA WrittenStays ==
  ASSUME NEW src, NEW p, IxMoved(src, p), call.obj \in Objs,
         call.pix \in Page, DaPage(call.pix, call.obj, call.span)
  PROVE  View'[call.pix].id = <<call.obj, "da">> /\ View'[call.pix].span = call.span
<1>1. View[call.pix].id = <<call.obj, "da">> /\ View[call.pix].span = call.span
  BY DEF DaPage
<1>2. SamePage(call.pix, call.pix)
  BY <1>1, IxMovedParts
<1>3. QED
  BY <1>1, <1>2 DEF SamePage

(* The index has been patched and the call goes on.                        *)
LEMMA AfterPatch ==
  ASSUME IInv, Kept, Clean, cut = "none", call.obj \in Objs, call.span \in Nat,
         NEW src, NEW p, Patch(src, p), files' = files,
         call.op \in {"append", "modify"}, call.step = "index", call'.step \in {"size", "last"},
         call'.op = call.op, call'.obj = call.obj, call'.span = call.span, call'.pix = call.pix
  PROVE  Kept' /\ Clean'
<1>1. IxMoved(src, p) /\ Carried
  BY IxMovedParts DEF Patch
<1>2. Owned /\ OneEach /\ Refer /\ NewData /\ NewIx
  BY DEF Clean, Written
<1>3. Kept'
  BY <1>1, CarriedKept
<1>4. Owned' /\ OneEach'
  BY <1>1, <1>2, IxMovedOwned
<1>5. /\ call.pix \in Page /\ DaPage(call.pix, call.obj, call.span)
      /\ View'[call.pix].id = <<call.obj, "da">> /\ View'[call.pix].span = call.span
  <2>1. call.pix \in Page /\ DaPage(call.pix, call.obj, call.span)
    BY <1>2 DEF NewData, AppendAt, ModifyAt
  <2>2. QED
    BY <1>1, <2>1, WrittenStays
<1>6. /\ \A ix \in Page, o \in Objs : \A s \in 0 .. Len(o) - 1 :
           IxPageNext(ix, o, s \div PerIx) /\ ~(o = call.obj /\ s = call.span) =>
             RefersTo(ix, o, s)
      /\ \A ix \in Page : IxPageNext(ix, call.obj, call.span \div PerIx) =>
           View'[ix].refs[call.span % PerIx] = call.pix
  BY <1>2, PatchRefers
<1>7. Refer'
  <2>1. SUFFICES ASSUME NEW ix \in Page, NEW o \in Objs, NEW s \in 0 .. Len(o)' - 1,
                        IxPageNext(ix, o, s \div PerIx)
                 PROVE  RefersTo(ix, o, s)
    BY DEF Refer, IxPage, DaPage, IxPageNext, RefersTo
  <2>2. Len(o)' = Len(o)
    BY DEF Len, Removing
  <2>3. CASE o = call.obj /\ s = call.span
    BY <1>5, <1>6, <2>1, <2>3 DEF RefersTo
  <2>4. CASE ~(o = call.obj /\ s = call.span)
    BY <1>6, <2>1, <2>2, <2>4
  <2>5. QED
    BY <2>3, <2>4
<1>8. Written'
  <2>1. NewData'
    BY <1>5 DEF NewData, DaPage
  <2>2. NewIx'
    <3>1. CASE call.op = "modify"
      BY <3>1 DEF NewIx, AppendAt
    <3>2. CASE call.op = "append"
      <4>1. PICK o, x : o \in Objs /\ o = call.obj /\ x = call.span \div PerIx /\ HasIx(o, x)
        BY <1>2, <3>2 DEF NewIx, AppendAt
      <4>2. HasIx(o, x)'
        BY <1>1, <4>1, CarriedHas
      <4>3. QED
        BY <4>1, <4>2 DEF NewIx, HasIx, IxPage
    <3>3. QED
      BY <3>1, <3>2
  <2>3. Patched'
    BY <1>6 DEF Patched, IxPage, IxPageNext
  <2>4. QED
    BY <2>1, <2>2, <2>3 DEF Written, Unpatched, Header, ModifyAt
<1>9. cut' = "none" => Clean'
  BY <1>4, <1>7, <1>8 DEF Clean
<1>10. QED
  BY <1>3, <1>9 DEF Clean

LEMMA AppendInPlaceFiles ==
  ASSUME IInv, Kept, Clean, AppendInPlace
  PROVE  Kept' /\ Clean'
<1>1. /\ gc.run # "data" /\ gc' = gc /\ cut = "none" /\ cut' = cut /\ moving = Alloc!NoMove
      /\ call.obj \in Objs
  BY BodyParts DEF BodyStep
<1>2. /\ call.op = "append" /\ call.step = "index" /\ UNCHANGED <<lu, moving>>
      /\ files[call.obj] = call.span /\ call.span \in Nat
  BY SpanType DEF AppendInPlace, Body, IInv, CallOK, allocVars
<1>3. PICK ix : Patch(ix, ix) /\ \A q \in Page : SamePage(q, q)
  <2>1. PICK ix \in Page :
          /\ Found(call.obj, "ix", call.span \div PerIx, ix)
          /\ page' = [page EXCEPT ![ix].refs[call.span % PerIx] = call.pix]
    BY DEF AppendInPlace
  <2>2. IndexAt(ix, call.obj, call.span \div PerIx)
    BY <1>1, <2>1, FoundIndex DEF IInv
  <2>3. QED
    BY <1>1, <1>2, <2>1, <2>2, PatchInPlace
<1>4. CASE call.span # 0
  <2>1. call' = [call EXCEPT !.step = "size"] /\ files' = files
    BY <1>4 DEF AppendInPlace
  <2>2. /\ call'.op = call.op /\ call'.obj = call.obj /\ call'.span = call.span
        /\ call'.pix = call.pix /\ call'.step = "size"
    BY <2>1 DEF IInv, Types, CallLocals
  <2>3. QED
    BY <1>1, <1>2, <1>3, <2>1, <2>2, AfterPatch
<1>5. CASE call.span = 0
  <2>1. call' = NoCall /\ files' = [files EXCEPT ![call.obj] = call.span + 1]
    BY <1>5 DEF AppendInPlace
  <2>2. Owned /\ OneEach /\ Refer /\ NewData /\ NewIx
    BY <1>1 DEF Clean, Written
  <2>3. HasDa(call.obj, call.span) /\ HasIx(call.obj, call.span \div PerIx)
    BY <1>2, <2>2 DEF NewData, NewIx, AppendAt, HasDa
  <2>4. Carried /\ files \in [Objs -> Int]
    BY <1>3, IxMovedParts DEF Patch, IInv, Types, NoFile
  <2>5. Kept'
    BY <1>1, <1>2, <2>1, <2>3, <2>4, GrownKept
  <2>6. /\ \A ix1 \in Page, o \in Objs : \A s \in 0 .. Len(o) - 1 :
             IxPageNext(ix1, o, s \div PerIx) /\ ~(o = call.obj /\ s = call.span) =>
               RefersTo(ix1, o, s)
        /\ \A ix1 \in Page : IxPageNext(ix1, call.obj, call.span \div PerIx) =>
             View'[ix1].refs[call.span % PerIx] = call.pix
    BY <1>1, <1>2, <1>3, <2>2, PatchRefers
  <2>7. \A ix1 \in Page, o \in Objs : \A s \in 0 .. Len(o) - 1 :
          IxPageNext(ix1, o, s \div PerIx) => RefersTo(ix1, o, s)
    <3>1. Len(call.obj) = call.span
      BY <1>2 DEF Len, Removing
    <3>2. \A o \in Objs : \A s \in 0 .. Len(o) - 1 : ~(o = call.obj /\ s = call.span)
      BY <1>2, <3>1
    <3>3. QED
      BY <2>6, <3>2
  <2>8. Owned' /\ OneEach' /\ Refer' /\ Written'
    BY <1>2, <1>3, <2>1, <2>2, <2>6, <2>7, GrownClean
  <2>9. QED
    BY <2>5, <2>8 DEF Clean
<1>6. QED
  BY <1>4, <1>5

(* After an index page the header moves, as it is but for the size.        *)
LEMMA SizeFiles ==
  ASSUME IInv, Kept, Clean, AppendHeader, call.step = "size"
  PROVE  Kept' /\ Clean'
<1>1. /\ gc.run # "data" /\ gc' = gc /\ cut = "none" /\ cut' = cut /\ moving = Alloc!NoMove
      /\ call.obj \in Objs
  BY BodyParts DEF BodyStep
<1>2. /\ call.op = "append" /\ call' = [call EXCEPT !.step = "last"] /\ files' = files
      /\ files[call.obj] = call.span /\ call.span \in Nat
  BY SpanType DEF AppendHeader, Body, IInv, CallOK
<1>3. /\ call'.op = call.op /\ call'.obj = call.obj /\ call'.span = call.span
      /\ call'.pix = call.pix /\ call'.step = "last"
  BY <1>2 DEF IInv, Types, CallLocals
<1>4. PICK src \in Page, p \in Page : Moved(src, p) /\ RefsKept(src, p) /\ IsIx(View[src])
  <2>1. PICK ix \in Page : Found(call.obj, "ix", 0, ix) /\ Move(ix, page[ix])
    BY DEF AppendHeader
  <2>2. IsIx(View[ix])
    <3>1. IndexAt(ix, call.obj, 0)
      BY <1>1, <2>1, FoundIndex DEF IInv
    <3>2. QED
      BY <3>1 DEF IndexAt
  <2>3. QED
    BY <1>1, <2>1, <2>2, PlainMove DEF RefsKept
<1>5. IxMoved(src, p)
  BY <1>4 DEF Moved, IxMoved
<1>6. Owned /\ OneEach /\ Refer /\ NewData /\ NewIx /\ Patched
  BY <1>1 DEF Clean, Written
<1>7. Carried /\ Kept'
  BY <1>2, <1>5, IxMovedParts, CarriedKept
<1>8. Owned' /\ OneEach'
  BY <1>2, <1>3, <1>5, <1>6, IxMovedOwned
<1>9. Refer'
  <2>1. (\A o : Len(o)' = Len(o)) /\ \A o, s : Stale(o, s)' <=> Stale(o, s)
    BY <1>2, <1>3 DEF Len, Removing, Stale, ModifyAt
  <2>2. QED
    BY <1>4, <1>6, <2>1, IndexMovedRefer
<1>10. NewData'
  <2>1. call.pix \in Page /\ DaPage(call.pix, call.obj, call.span)
    BY <1>2, <1>6 DEF NewData, AppendAt
  <2>2. View'[call.pix].id = <<call.obj, "da">> /\ View'[call.pix].span = call.span
    BY <1>1, <1>5, <2>1, WrittenStays
  <2>3. QED
    BY <1>3, <2>1, <2>2 DEF NewData, DaPage
<1>11. NewIx'
  <2>1. PICK o, x : o \in Objs /\ o = call.obj /\ x = call.span \div PerIx /\ HasIx(o, x)
    BY <1>1, <1>2, <1>6 DEF NewIx, AppendAt
  <2>2. HasIx(o, x)'
    BY <1>7, <2>1, CarriedHas
  <2>3. QED
    BY <1>3, <2>1, <2>2 DEF NewIx, HasIx, IxPage
<1>12. Patched'
  <2>1. ASSUME NEW ix \in Page, IxPageNext(ix, call.obj, call.span \div PerIx)
        PROVE  View'[ix].refs[call.span % PerIx] = call.pix
    <3>1. View'[ix].id \in LookupIds
      BY <1>1, <2>1, FileIds DEF IxPageNext
    <3>2. PICK r \in Page : SamePage(r, ix) /\ ((ix = p /\ r = src) \/ (ix \notin {src, p} /\ r = ix))
      BY <1>5, <3>1, IxMovedParts
    <3>3. IxPage(r, call.obj, call.span \div PerIx) /\ View[r].id \in LookupIds
      BY <2>1, <3>1, <3>2 DEF SamePage, IxPage, IxPageNext
    <3>4. View'[ix].refs = View[r].refs
      BY <1>4, <3>2, <3>3 DEF RefsKept
    <3>5. View[r].refs[call.span % PerIx] = call.pix
      BY <1>2, <1>6, <3>3 DEF Patched, AppendAt
    <3>6. QED
      BY <3>4, <3>5
  <2>2. QED
    BY <1>3, <2>1 DEF Patched, IxPage, IxPageNext
<1>13. Written'
  BY <1>2, <1>3, <1>10, <1>11, <1>12 DEF Written, Unpatched, Header, ModifyAt
<1>14. QED
  BY <1>7, <1>8, <1>9, <1>13 DEF Clean

LEMMA AppendHeaderFiles ==
  ASSUME IInv, Kept, Clean, AppendHeader
  PROVE  Kept' /\ Clean'
<1>1. /\ gc.run # "data" /\ gc' = gc /\ cut = "none" /\ cut' = cut /\ moving = Alloc!NoMove
      /\ call.obj \in Objs
  BY BodyParts DEF BodyStep
<1>2. CASE call.step = "size"
  BY <1>2, SizeFiles
<1>3. CASE call.step # "size"
  <2>1. /\ call.op = "append" /\ call.step = "index" /\ call.span \in 1 .. PerIx - 1
        /\ call' = [call EXCEPT !.step = "last"] /\ files' = files
    BY <1>3 DEF AppendHeader, Body
  <2>2. /\ call'.op = call.op /\ call'.obj = call.obj /\ call'.span = call.span
        /\ call'.pix = call.pix /\ call'.step = "last"
    BY <2>1 DEF IInv, Types, CallLocals
  <2>3. call.span \in Nat /\ call.span \div PerIx = 0 /\ call.span % PerIx = call.span
    BY <2>1, DivMod, GcAssumption
  <2>4. PICK ix \in Page :
          /\ Found(call.obj, "ix", 0, ix)
          /\ Move(ix, Content(0, [page[ix].refs EXCEPT ![call.span] = call.pix]))
    BY <1>3 DEF AppendHeader
  <2>5. IndexAt(ix, call.obj, call.span \div PerIx)
    BY <1>1, <2>3, <2>4, FoundIndex DEF IInv
  <2>6. page[ix].span = 0
    BY <2>3, <2>5 DEF IndexAt
  <2> DEFINE d == Content(0, [page[ix].refs EXCEPT ![call.span] = call.pix])
  <2>7. /\ d.span = page[ix].span /\ d.removed = FALSE /\ Move(ix, d)
        /\ d.refs = [page[ix].refs EXCEPT ![call.span % PerIx] = call.pix]
    BY <2>3, <2>4, <2>6 DEF Content
  <2> HIDE DEF d
  <2>8. PICK p \in Page : Patch(ix, p)
    BY <1>1, <2>5, <2>7, PatchMoved
  <2>9. QED
    BY <1>1, <2>1, <2>2, <2>3, <2>8, AfterPatch
<1>4. QED
  BY <1>2, <1>3

LEMMA ModifyIndexFiles ==
  ASSUME IInv, Kept, Clean, ModifyIndex
  PROVE  Kept' /\ Clean'
<1>1. /\ gc.run # "data" /\ gc' = gc /\ cut = "none" /\ cut' = cut /\ moving = Alloc!NoMove
      /\ call.obj \in Objs
  BY BodyParts DEF BodyStep
<1>2. /\ call.op = "modify" /\ call.step = "index" /\ call.span \in Nat
      /\ call' = [call EXCEPT !.step = "last"] /\ files' = files
  BY SpanType DEF ModifyIndex, Body, IInv, CallOK
<1>3. /\ call'.op = call.op /\ call'.obj = call.obj /\ call'.span = call.span
      /\ call'.pix = call.pix /\ call'.step = "last"
  BY <1>2 DEF IInv, Types, CallLocals
<1>4. PICK ix \in Page :
        /\ Found(call.obj, "ix", call.span \div PerIx, ix)
        /\ Move(ix, Content(page[ix].span, [page[ix].refs EXCEPT ![call.span % PerIx] = call.pix]))
  BY DEF ModifyIndex
<1>5. IndexAt(ix, call.obj, call.span \div PerIx)
  BY <1>1, <1>4, FoundIndex DEF IInv
<1> DEFINE d == Content(page[ix].span, [page[ix].refs EXCEPT ![call.span % PerIx] = call.pix])
<1>6. /\ d.span = page[ix].span /\ d.removed = FALSE /\ Move(ix, d)
      /\ d.refs = [page[ix].refs EXCEPT ![call.span % PerIx] = call.pix]
  BY <1>4 DEF Content
<1> HIDE DEF d
<1>7. PICK p \in Page : Patch(ix, p)
  BY <1>1, <1>5, <1>6, PatchMoved
<1>8. QED
  BY <1>1, <1>2, <1>3, <1>7, AfterPatch

-----------------------------------------------------------------------------
(* The object layer: the steps that delete a page.                         *)

LEMMA DroppedRefers ==
  ASSUME NEW p, Dropped(p), NEW ix \in Page, NEW o \in Objs, NEW s, IxPageNext(ix, o, s \div PerIx)
  PROVE  /\ ix # p /\ IxPage(ix, o, s \div PerIx)
         /\ /\ View[ix].refs[s % PerIx] \in Page /\ DaPage(View[ix].refs[s % PerIx], o, s)
            /\ View[ix].refs[s % PerIx] # p
            => RefersTo(ix, o, s)
<1>1. View'[ix].id \in LookupIds
  BY FileIds DEF IxPageNext
<1>2. ix # p /\ View'[ix] = View[ix]
  BY <1>1 DEF Dropped
<1>3. QED
  BY <1>2 DEF Dropped, IxPage, IxPageNext, DaPage, RefersTo

LEMMA DroppedOnce ==
  ASSUME NEW p, Dropped(p), OneEach, ~ModifyAt({"drop"})
  PROVE  OneEach'
<1>1. ASSUME NEW q \in Page, NEW t \in Page, NEW o \in Objs,
             View'[q].id \in {<<o, "ix">>, <<o, "da">>}, View'[t].id = View'[q].id,
             View'[t].span = View'[q].span
      PROVE  q = t
  <2>1. View'[q].id \in LookupIds /\ View'[t].id \in LookupIds
    BY <1>1, FileIds
  <2>2. View'[q] = View[q] /\ View'[t] = View[t]
    BY <2>1 DEF Dropped
  <2>3. QED
    BY <1>1, <2>2 DEF OneEach
<1>2. QED
  BY <1>1 DEF OneEach

(* spiffs_object_modify deletes the page the index still refers to, which  *)
(* is not the one it has just written.                                     *)
LEMMA OldPage ==
  ASSUME IInv, Clean, ModifyDrop
  PROVE  /\ cut = "none" /\ call.obj \in Objs /\ call.span \in 0 .. Len(call.obj) - 1
         /\ \E old \in Page :
              /\ Dropped(old) /\ DaPage(old, call.obj, call.span) /\ old # call.pix
<1>1. /\ gc.run # "data" /\ gc' = gc /\ cut = "none" /\ moving = Alloc!NoMove
      /\ call.obj \in Objs
  BY BodyParts DEF BodyStep
<1>2. /\ call.op = "modify" /\ call.step = "drop" /\ call.span \in Nat
      /\ call.span < files[call.obj] /\ files \in [Objs -> Int]
  BY SpanType DEF ModifyDrop, Body, IInv, CallOK, Types, NoFile
<1>3. PICK ix \in Page :
        /\ Found(call.obj, "ix", call.span \div PerIx, ix)
        /\ Alloc!Delete(page[ix].refs[call.span % PerIx])
        /\ page' = [page EXCEPT ![page[ix].refs[call.span % PerIx]] = Blank]
  BY DEF ModifyDrop
<1>4. IndexAt(ix, call.obj, call.span \div PerIx)
  BY <1>1, <1>3, FoundIndex DEF IInv
<1>5. call.span \in 0 .. Len(call.obj) - 1
  BY <1>1, <1>2 DEF Len, Removing
<1>6. PICK old : old = page[ix].refs[call.span % PerIx]
  OBVIOUS
<1>7. old = View[ix].refs[call.span % PerIx] /\ IxPage(ix, call.obj, call.span \div PerIx)
  BY <1>4, <1>6 DEF IndexAt
<1>8. Dropped(old)
  BY <1>1, <1>3, <1>6, DeleteStep
<1>9. ~Stale(call.obj, call.span) /\ Refer /\ Unpatched
  BY <1>1, <1>2 DEF Stale, ModifyAt, Clean, Written
<1>10. old \in Page /\ DaPage(old, call.obj, call.span)
  BY <1>1, <1>5, <1>7, <1>9 DEF Refer
<1>11. old # call.pix
  BY <1>2, <1>7, <1>9 DEF Unpatched, ModifyAt
<1>12. QED
  BY <1>1, <1>5, <1>8, <1>10, <1>11

LEMMA ModifyDropFiles ==
  ASSUME IInv, Kept, Clean, ModifyDrop
  PROVE  Kept' /\ Clean'
<1>1. PICK old \in Page :
        /\ Dropped(old) /\ DaPage(old, call.obj, call.span) /\ old # call.pix
  BY OldPage
<1>2. /\ cut = "none" /\ call.obj \in Objs /\ call.op = "modify" /\ call.step = "drop"
      /\ call' = [call EXCEPT !.step = "index"] /\ files' = files /\ cut' = cut
  BY OldPage DEF ModifyDrop, Body
<1>3. /\ call'.op = "modify" /\ call'.obj = call.obj /\ call'.span = call.span
      /\ call'.step = "index" /\ call'.pix = call.pix
  BY <1>2 DEF IInv, Types, CallLocals
<1>4. Owned /\ OneEach /\ Refer /\ NewData
  BY <1>2 DEF Clean, Written
<1>5. call.pix \in Page /\ DaPage(call.pix, call.obj, call.span)
  BY <1>2, <1>4 DEF NewData, ModifyAt
<1>6. \A o : /\ ~Removing(o) /\ Len(o) = files[o] /\ ~Removing(o)' /\ Len(o)' = files[o]
             /\ \A steps : ~AppendAt(steps) /\ ~AppendAt(steps)'
             /\ \A s : /\ ~Stale(o, s)
                       /\ Stale(o, s)' <=> o = call.obj /\ s = call.span
  BY <1>2, <1>3 DEF Removing, Len, AppendAt, Stale, ModifyAt
<1>7. \A q \in Page \ {old} : View'[q] = View[q]
  BY <1>1 DEF Dropped
<1>8. \A q \in Page, o \in Objs : View'[q].id \in {<<o, "ix">>, <<o, "da">>} => q # old
  BY <1>1, FileIds DEF Dropped
<1>9. Kept'
  <2>1. \A o \in Objs : \A x : HasIx(o, x) => HasIx(o, x)'
    BY <1>1, <1>7 DEF HasIx, IxPage, DaPage
  <2>2. ASSUME NEW o \in Objs, NEW s, HasDa(o, s) PROVE HasDa(o, s)'
    <3>1. PICK q \in Page : View[q].id = <<o, "da">> /\ View[q].span = s
      BY <2>2 DEF HasDa, DaPage
    <3>2. CASE q # old
      <4>1. View'[q].id = <<o, "da">> /\ View'[q].span = s
        BY <1>7, <3>1, <3>2
      <4>2. QED
        BY <4>1 DEF HasDa, DaPage
    <3>3. CASE q = old
      <4>1. View'[call.pix] = View[call.pix]
        BY <1>1, <1>5, <1>7
      <4>2. View'[call.pix].id = <<o, "da">> /\ View'[call.pix].span = s
        BY <1>1, <1>5, <3>1, <3>3, <4>1 DEF DaPage
      <4>3. QED
        BY <1>5, <4>2 DEF HasDa, DaPage
    <3>4. QED
      BY <3>2, <3>3
  <2>3. SUFFICES ASSUME NEW o \in Objs, files[o] # NoFile
                 PROVE  /\ HasIx(o, 0)'
                        /\ \A s \in 0 .. files[o] - 1 : HasDa(o, s)' /\ HasIx(o, s \div PerIx)'
    BY <1>2 DEF Kept
  <2>4. HasIx(o, 0) /\ \A s \in 0 .. files[o] - 1 : HasDa(o, s) /\ HasIx(o, s \div PerIx)
    BY <2>3 DEF Kept
  <2>5. QED
    BY <2>1, <2>2, <2>4
<1>10. Owned'
  <2>1. ASSUME NEW q \in Page, NEW o \in Objs
        PROVE  /\ View'[q].id \in {<<o, "ix">>, <<o, "da">>} => files[o] # NoFile
               /\ View'[q].id = <<o, "da">> => View'[q].span < files[o]
               /\ View'[q].id = <<o, "ix">> =>
                    \/ View'[q].span = 0
                    \/ \E s \in 0 .. files[o] - 1 : View'[q].span = s \div PerIx
    <3>1. CASE q = old
      BY <1>8, <3>1
    <3>2. CASE q # old
      <4>1. View'[q] = View[q]
        BY <1>7, <3>2
      <4>2. QED
        BY <1>4, <1>6, <4>1 DEF Owned
    <3>3. QED
      BY <3>1, <3>2
  <2>2. QED
    BY <1>2, <1>6, <2>1 DEF Owned
<1>11. OneEach'
  <2>1. ASSUME NEW q \in Page, NEW t \in Page, NEW o \in Objs,
               View'[q].id \in {<<o, "ix">>, <<o, "da">>}, View'[t].id = View'[q].id,
               View'[t].span = View'[q].span
        PROVE  q = t
    <3>1. /\ View[q].id = View'[q].id /\ View[q].span = View'[q].span /\ q # old
          /\ View[t].id = View[q].id /\ View[t].span = View[q].span /\ t # old
      BY <1>7, <1>8, <2>1
    <3>2. \/ q = t
          \/ /\ View[q].id = <<call.obj, "da">> /\ View[q].span = call.span
             /\ call.pix \in {q, t}
      BY <1>4, <2>1, <3>1 DEF OneEach
    <3>3. CASE View[q].id = <<call.obj, "da">> /\ View[q].span = call.span
      <4>1. View[old].id = <<call.obj, "da">> /\ View[old].span = call.span
        BY <1>1 DEF DaPage
      <4>2. call.pix = q
        BY <1>1, <1>2, <1>4, <3>1, <3>3, <4>1 DEF OneEach
      <4>3. call.pix = t
        BY <1>1, <1>2, <1>4, <3>1, <3>3, <4>1 DEF OneEach
      <4>4. QED
        BY <4>2, <4>3
    <3>4. QED
      BY <3>2, <3>3
  <2>2. QED
    BY <2>1 DEF OneEach
<1>12. Refer'
  <2>1. SUFFICES ASSUME NEW ix \in Page, NEW o \in Objs, NEW s \in 0 .. Len(o)' - 1, ~Stale(o, s)',
                        IxPageNext(ix, o, s \div PerIx)
                 PROVE  RefersTo(ix, o, s)
    BY DEF Refer, IxPage, DaPage, IxPageNext, RefersTo
  <2>2. IxPage(ix, o, s \div PerIx) /\ s \in 0 .. Len(o) - 1 /\ ~(o = call.obj /\ s = call.span)
    BY <1>1, <1>6, <2>1, DroppedRefers
  <2>3. View[ix].refs[s % PerIx] \in Page /\ DaPage(View[ix].refs[s % PerIx], o, s)
    BY <1>4, <1>6, <2>2 DEF Refer
  <2>4. View[ix].refs[s % PerIx] # old
    BY <1>1, <2>2, <2>3 DEF DaPage
  <2>5. QED
    BY <1>1, <2>1, <2>3, <2>4, DroppedRefers
<1>13. Written'
  <2>1. View'[call.pix] = View[call.pix]
    BY <1>1, <1>5, <1>7
  <2>2. NewData'
    BY <1>3, <1>5, <2>1 DEF NewData, DaPage
  <2>3. QED
    BY <1>3, <1>6, <2>2 DEF Written, NewIx, Patched, Unpatched, Header, ModifyAt
<1>14. QED
  BY <1>9, <1>10, <1>11, <1>12, <1>13 DEF Clean

(* The header is marked: the file is being removed.                        *)
LEMMA MarkHeader ==
  ASSUME Types, moving = Alloc!NoMove, gc.run # "data", UNCHANGED <<lu, moving, gc>>,
         NEW hdr \in Page, page' = [page EXCEPT ![hdr].removed = TRUE]
  PROVE  \A q \in Page :
           /\ View'[q].id = View[q].id /\ View'[q].span = View[q].span /\ View'[q].refs = View[q].refs
           /\ q # hdr => View'[q] = View[q]
<1>2. page'[hdr] = [page[hdr] EXCEPT !.removed = TRUE] /\ \A q \in Page \ {hdr} : page'[q] = page[q]
  BY DEF Types
<1>3. page'[hdr].span = page[hdr].span /\ page'[hdr].refs = page[hdr].refs
  BY <1>2, PageType DEF PageData
<1>4. \A q \in Page :
        /\ View[q] = IF Id(q) \in LookupIds
                     THEN PageView(Id(q), page[q].span, page[q].removed, page[q].refs)
                     ELSE Gone
        /\ View'[q] = IF Id(q) \in LookupIds
                      THEN PageView(Id(q), page'[q].span, page'[q].removed, page'[q].refs)
                      ELSE Gone
  BY PlainView
<1>5. \A q \in Page \ {hdr} : View'[q] = View[q]
  BY <1>2, <1>4
<1>6. /\ View'[hdr].id = View[hdr].id /\ View'[hdr].span = View[hdr].span
      /\ View'[hdr].refs = View[hdr].refs
  <2>1. CASE Id(hdr) \notin LookupIds
    BY <1>4, <2>1
  <2>2. CASE Id(hdr) \in LookupIds
    <3>1. View'[hdr] = PageView(Id(hdr), page[hdr].span, page'[hdr].removed, page[hdr].refs)
      BY <1>3, <1>4, <2>2
    <3>2. View[hdr] = PageView(Id(hdr), page[hdr].span, page[hdr].removed, page[hdr].refs)
      BY <1>4, <2>2
    <3>3. QED
      BY <3>1, <3>2 DEF PageView
  <2>3. QED
    BY <2>1, <2>2
<1>7. QED
  BY <1>5, <1>6

LEMMA RemoveFiles ==
  ASSUME IInv, Kept, Clean, NEW f \in Objs, Remove(f)
  PROVE  Kept' /\ Clean'
<1>1. /\ moving = Alloc!NoMove /\ call = NoCall /\ cut = "none" /\ cut' = cut
      /\ files[f] # NoFile /\ files' = [files EXCEPT ![f] = NoFile]
      /\ UNCHANGED <<lu, moving, gc>>
  BY DEF Remove, Ready, Alloc!Idle, allocVars
<1>2. gc.run # "data" /\ Quiet
  BY <1>1, NoParts, QuietCalls DEF IInv, Linked
<1>3. PICK hdr \in Page :
        /\ Found(f, "ix", 0, hdr)
        /\ page' = [page EXCEPT ![hdr].removed = TRUE]
        /\ call' = [op |-> "remove", obj |-> f, span |-> files[f] - 1, step |-> "body", pix |-> hdr]
  <2>1. PICK hdr \in Page :
        /\ Found(f, "ix", 0, hdr)
        /\ page' = [page EXCEPT ![hdr].removed = TRUE]
        /\ call' = [op |-> "remove", obj |-> f, span |-> files[f] - 1, step |-> "body", pix |-> hdr]
    BY DEF Remove, Found, Live
  <2>2. QED
    BY <2>1
<1>4. \A q \in Page :
        /\ View'[q].id = View[q].id /\ View'[q].span = View[q].span /\ View'[q].refs = View[q].refs
        /\ q # hdr => View'[q] = View[q]
  <2>1. Types
    BY DEF IInv
  <2>2. QED
    BY <1>1, <1>2, <1>3, <2>1, MarkHeader
<1>5. View[hdr].id = <<f, "ix">> /\ View[hdr].span = 0
  <2>1. IndexAt(hdr, f, 0)
    BY <1>1, <1>2, <1>3, FoundIndex DEF IInv
  <2>2. QED
    BY <2>1 DEF IndexAt, IxPage
<1>6. /\ call'.op = "remove" /\ call'.obj = f /\ call'.span = files[f] - 1
      /\ call'.step = "body" /\ call'.pix = hdr
  BY <1>3
<1>7. /\ files[f] \in Int
      /\ \A o \in Objs : files'[o] = IF o = f THEN NoFile ELSE files[o]
  BY <1>1 DEF IInv, Types, NoFile
<1>8. /\ \A o : ~Removing(o) /\ Len(o) = files[o]
      /\ \A steps \in SUBSET {"data", "index", "size", "last", "drop"} :
           ~AppendAt(steps) /\ ~ModifyAt(steps)
      /\ \A o, s : ~Stale(o, s)
  BY <1>2, QuietParts
<1>9. /\ \A o \in Objs : (Removing(o)' <=> o = f) /\ Len(o)' = files[o]
      /\ \A o, s : ~Stale(o, s)'
      /\ \A steps : ~AppendAt(steps)' /\ ~ModifyAt(steps)'
  <2>1. /\ \A o : (Removing(o)' <=> o = f)
        /\ \A o, s : ~Stale(o, s)'
        /\ \A steps : ~AppendAt(steps)' /\ ~ModifyAt(steps)'
    BY <1>6 DEF Removing, Stale, AppendAt, ModifyAt
  <2>2. Len(f)' = call'.span + 1
    BY <1>6, <2>1 DEF Len
  <2>3. \A o \in Objs : o # f => Len(o)' = files'[o]
    BY <2>1 DEF Len
  <2>4. QED
    BY <1>6, <1>7, <2>1, <2>2, <2>3
<1>10. Owned /\ OneEach /\ Refer
  BY <1>1 DEF Clean
<1>11. Kept'
  <2>1. SUFFICES ASSUME NEW o \in Objs, files'[o] # NoFile
                 PROVE  /\ HasIx(o, 0)'
                        /\ \A s \in 0 .. files'[o] - 1 : HasDa(o, s)' /\ HasIx(o, s \div PerIx)'
    BY DEF Kept
  <2>2. o # f /\ files'[o] = files[o] /\ files[o] # NoFile
    BY <1>7, <2>1
  <2>3. HasIx(o, 0) /\ \A s \in 0 .. files[o] - 1 : HasDa(o, s) /\ HasIx(o, s \div PerIx)
    BY <2>2 DEF Kept
  <2>4. \A q \in Page : View[q].id = <<o, "ix">> => View'[q] = View[q]
    BY <1>4, <1>5, <2>2
  <2>5. \A x : HasIx(o, x) => HasIx(o, x)'
    BY <2>4 DEF HasIx, IxPage
  <2>6. \A s : HasDa(o, s) => HasDa(o, s)'
    BY <1>4 DEF HasDa, DaPage
  <2>7. QED
    BY <2>2, <2>3, <2>5, <2>6
<1>12. Owned'
  <2>1. ASSUME NEW q \in Page, NEW o \in Objs
        PROVE  /\ View[q].id \in {<<o, "ix">>, <<o, "da">>} => files'[o] # NoFile \/ o = f
               /\ View[q].id = <<o, "da">> => View[q].span < files[o]
               /\ View[q].id = <<o, "ix">> =>
                    \/ View[q].span = 0
                    \/ \E s \in 0 .. files[o] - 1 : View[q].span = s \div PerIx
    BY <1>7, <1>8, <1>10 DEF Owned
  <2>2. QED
    BY <1>4, <1>9, <2>1 DEF Owned
<1>13. OneEach'
  BY <1>4, <1>8, <1>10 DEF OneEach
<1>14. Refer'
  <2>1. SUFFICES ASSUME NEW ix \in Page, NEW o \in Objs, NEW s \in 0 .. Len(o)' - 1,
                        IxPageNext(ix, o, s \div PerIx)
                 PROVE  RefersTo(ix, o, s)
    BY DEF Refer, IxPage, DaPage, IxPageNext, RefersTo
  <2>2. IxPage(ix, o, s \div PerIx) /\ s \in 0 .. Len(o) - 1
    BY <1>4, <1>8, <1>9, <2>1 DEF IxPage, IxPageNext
  <2>3. View[ix].refs[s % PerIx] \in Page /\ DaPage(View[ix].refs[s % PerIx], o, s)
    BY <1>8, <1>10, <2>2 DEF Refer
  <2>4. QED
    BY <1>4, <2>3 DEF RefersTo, DaPage
<1>15. Written'
  <2>1. Header'
    BY <1>4, <1>5, <1>6 DEF Header, IxPage
  <2>2. QED
    BY <1>9, <2>1 DEF Written, NewData, NewIx, Patched, Unpatched
<1>16. QED
  BY <1>11, <1>12, <1>13, <1>14, <1>15 DEF Clean

(* The index page a removal empties.                                       *)
LEMMA EmptiedIndex ==
  ASSUME IInv, cut = "none", moving = Alloc!NoMove, gc.run # "data", Header,
         call.op = "remove", call.obj \in Objs, NEW ix, Emptied(ix)
  PROVE  /\ ix \in Page /\ View[ix].id = <<call.obj, "ix">> /\ View[ix].refs = page[ix].refs
         /\ call.span \in Nat => View[ix].span = call.span \div PerIx
         /\ call.span < PerIx => ix = call.pix
<1>1. CASE call.span < PerIx
  <2>1. ix = call.pix /\ ix \in Page
    BY <1>1 DEF Emptied, IInv, CallOK
  <2>2. View[ix].id = <<call.obj, "ix">> /\ View[ix].span = 0
    BY <2>1 DEF Header, IxPage
  <2>3. View[ix].refs = page[ix].refs
    <3>1. IdAfter(ix) \in LookupIds
      BY <2>1, <2>2, FileIds, ViewAt
    <3>2. QED
      BY <2>1, <3>1, ViewAt DEF RefsAfter
  <2>4. call.span \in Nat => call.span \div PerIx = 0
    BY <1>1, DivMod
  <2>5. QED
    BY <2>1, <2>2, <2>3, <2>4
<1>2. CASE ~(call.span < PerIx)
  <2>1. Found(call.obj, "ix", call.span \div PerIx, ix)
    BY <1>2 DEF Emptied
  <2>2. IndexAt(ix, call.obj, call.span \div PerIx)
    BY <2>1, FoundIndex DEF IInv
  <2>3. QED
    BY <1>2, <2>2 DEF IndexAt, IxPage
<1>3. QED
  BY <1>1, <1>2

(* What a step of a removal leaves of the file is what it still is to      *)
(* remove.                                                                 *)
LEMMA RemovalParts ==
  ASSUME IInv, Clean, RemoveData \/ RemoveIndex
  PROVE  /\ gc.run # "data" /\ gc' = gc /\ cut = "none" /\ cut' = cut /\ moving = Alloc!NoMove
         /\ call.obj \in Objs /\ call.op = "remove" /\ files' = files /\ files[call.obj] = NoFile
         /\ call.step \in {"body", "index"} /\ call.span \in Span \cup {-1} /\ call.span \in Int
         /\ call.step = "index" => call.span \in Nat /\ call.span % PerIx = 0
         /\ call.pix \in Page
         /\ Owned /\ OneEach /\ Refer /\ Header
         /\ \A o : /\ Removing(o) <=> o = call.obj
                   /\ o # call.obj => Len(o) = files[o]
         /\ Len(call.obj) = IF call.step = "index" THEN call.span ELSE call.span + 1
         /\ \A steps : ~AppendAt(steps) /\ ~ModifyAt(steps)
         /\ \A o, s : ~Stale(o, s)
<1>1. /\ gc.run # "data" /\ gc' = gc /\ cut = "none" /\ cut' = cut /\ moving = Alloc!NoMove
      /\ call.obj \in Objs
  BY BodyParts DEF BodyStep
<1>2. call.op = "remove" /\ files' = files /\ call.step \in {"body", "index"}
  BY DEF RemoveData, RemoveIndex, Body
<1>3. /\ files[call.obj] = NoFile /\ call.span \in Span \cup {-1} /\ call.pix \in Page
      /\ call.step = "index" => call.span >= 0 /\ call.span % PerIx = 0
  BY <1>2 DEF IInv, CallOK
<1>4. call.span \in Int /\ (call.step = "index" => call.span \in Nat)
  BY <1>3 DEF Span
<1>5. Owned /\ OneEach /\ Refer /\ Header
  BY <1>1 DEF Clean, Written
<1>6. /\ \A steps : ~AppendAt(steps) /\ ~ModifyAt(steps)
      /\ \A o, s : ~Stale(o, s)
      /\ \A o : Removing(o) <=> o = call.obj
  BY <1>2 DEF AppendAt, ModifyAt, Stale, Removing
<1>7. /\ \A o : o # call.obj => Len(o) = files[o]
      /\ Len(call.obj) = IF call.step = "index" THEN call.span ELSE call.span + 1
  BY <1>6 DEF Len
<1>8. QED
  BY <1>1, <1>2, <1>3, <1>4, <1>5, <1>6, <1>7

(* A removal loses no page of another file.                                *)
LEMMA RemovalKept ==
  ASSUME Kept, NEW p, Dropped(p), files' = files, call.obj \in Objs, files[call.obj] = NoFile,
         View[p].id \in {<<call.obj, "ix">>, <<call.obj, "da">>}
  PROVE  Kept'
<1>1. SUFFICES ASSUME NEW o \in Objs, files[o] # NoFile
               PROVE  /\ HasIx(o, 0)'
                      /\ \A s \in 0 .. files[o] - 1 : HasDa(o, s)' /\ HasIx(o, s \div PerIx)'
  BY DEF Kept
<1>2. HasIx(o, 0) /\ \A s \in 0 .. files[o] - 1 : HasDa(o, s) /\ HasIx(o, s \div PerIx)
  BY <1>1 DEF Kept
<1>3. \A q \in Page : View[q].id \in {<<o, "ix">>, <<o, "da">>} => View'[q] = View[q]
  BY <1>1 DEF Dropped
<1>4. \A x : (HasIx(o, x) => HasIx(o, x)') /\ (HasDa(o, x) => HasDa(o, x)')
  BY <1>3 DEF HasIx, HasDa, IxPage, DaPage
<1>5. QED
  BY <1>2, <1>4

LEMMA RemoveDataFiles ==
  ASSUME IInv, Kept, Clean, RemoveData
  PROVE  Kept' /\ Clean'
<1>1. /\ gc.run # "data" /\ gc' = gc /\ cut = "none" /\ cut' = cut /\ moving = Alloc!NoMove
      /\ call.obj \in Objs /\ call.op = "remove" /\ files' = files /\ files[call.obj] = NoFile
      /\ Owned /\ OneEach /\ Refer /\ Header /\ call.pix \in Page
      /\ \A o : /\ Removing(o) <=> o = call.obj
                /\ o # call.obj => Len(o) = files[o]
      /\ \A steps : ~AppendAt(steps) /\ ~ModifyAt(steps)
      /\ \A o, s : ~Stale(o, s)
  BY RemovalParts
<1>2. /\ call.step = "body" /\ call.span \in Nat /\ Len(call.obj) = call.span + 1
      /\ call' = IF call.span % PerIx = 0 THEN [call EXCEPT !.step = "index"]
                 ELSE [call EXCEPT !.span = call.span - 1]
  <2>1. call.step = "body" /\ call.span >= 0
    BY DEF RemoveData, Body
  <2>2. call.span \in Int /\ Len(call.obj) = call.span + 1
    BY <2>1, RemovalParts
  <2>3. QED
    BY <2>1, <2>2 DEF RemoveData
<1>3. /\ call'.op = "remove" /\ call'.obj = call.obj /\ call'.pix = call.pix
      /\ IF call.span % PerIx = 0 THEN call'.step = "index" /\ call'.span = call.span
         ELSE call'.step = "body" /\ call'.span = call.span - 1
  BY <1>1, <1>2 DEF IInv, Types, CallLocals
<1>4. PICK ix, p : /\ Emptied(ix) /\ p = page[ix].refs[call.span % PerIx]
                   /\ Alloc!Delete(p) /\ page' = [page EXCEPT ![p] = Blank]
  BY DEF RemoveData
<1>5. Dropped(p)
  BY <1>1, <1>4, DeleteStep
<1>6. p \in Page /\ View[p].id = <<call.obj, "da">> /\ View[p].span = call.span
  <2>1. /\ ix \in Page /\ View[ix].id = <<call.obj, "ix">> /\ View[ix].refs = page[ix].refs
        /\ View[ix].span = call.span \div PerIx
    BY <1>1, <1>2, <1>4, EmptiedIndex
  <2>2. call.span \in 0 .. Len(call.obj) - 1 /\ IxPage(ix, call.obj, call.span \div PerIx)
    BY <1>2, <2>1 DEF IxPage
  <2>3. p = View[ix].refs[call.span % PerIx]
    BY <1>4, <2>1
  <2>4. Refer /\ ~Stale(call.obj, call.span) /\ call.obj \in Objs
    BY <1>1
  <2>5. /\ View[ix].refs[call.span % PerIx] \in Page
        /\ DaPage(View[ix].refs[call.span % PerIx], call.obj, call.span)
    BY <2>1, <2>2, <2>4 DEF Refer
  <2>6. QED
    BY <2>3, <2>5 DEF DaPage
<1>7. /\ \A o : /\ Removing(o)' <=> o = call.obj
                /\ o # call.obj => Len(o)' = files[o]
      /\ Len(call.obj)' = call.span
      /\ \A steps : ~AppendAt(steps)' /\ ~ModifyAt(steps)'
      /\ \A o, s : ~Stale(o, s)'
  <2>1. /\ \A o : Removing(o)' <=> o = call.obj
        /\ \A steps : ~AppendAt(steps)' /\ ~ModifyAt(steps)'
        /\ \A o, s : ~Stale(o, s)'
    BY <1>3 DEF Removing, AppendAt, ModifyAt, Stale
  <2>2. \A o : o # call.obj => Len(o)' = files[o]
    BY <1>1, <2>1 DEF Len
  <2>3. \A o : o = call.obj => Len(o)' = IF call'.step = "index" THEN call'.span ELSE call'.span + 1
    BY <2>1 DEF Len
  <2>4. \A o : o = call.obj => Len(o)' = call.span
    BY <1>2, <1>3, <2>3
  <2>5. QED
    BY <1>3, <2>1, <2>2, <2>4
<1>8. Kept'
  BY <1>1, <1>5, <1>6, RemovalKept
<1>9. \A q \in Page, o \in Objs :
        View'[q].id \in {<<o, "ix">>, <<o, "da">>} => q # p /\ View'[q] = View[q]
  BY <1>5, FileIds DEF Dropped
<1>10. Owned'
  <2>1. ASSUME NEW q \in Page, NEW o \in Objs, View'[q].id = <<o, "da">>
        PROVE  (files[o] # NoFile \/ o = call.obj) /\ View'[q].span < Len(o)'
    <3>1. q # p /\ View[q].id = <<o, "da">> /\ View'[q].span = View[q].span
      BY <1>9, <2>1
    <3>2. (files[o] # NoFile \/ o = call.obj) /\ View[q].span < Len(o)
      BY <1>1, <3>1 DEF Owned
    <3>3. CASE o # call.obj
      BY <1>1, <1>7, <3>1, <3>2, <3>3
    <3>4. CASE o = call.obj
      <4>1. View[q].span # call.span
        BY <1>1, <1>6, <3>1, <3>4 DEF OneEach
      <4>2. View[q].span \in Nat
        BY ViewType DEF IInv
      <4>3. View[q].span < call.span
        BY <1>2, <3>2, <3>4, <4>1, <4>2
      <4>4. o = call.obj => Len(o)' = call.span
        BY <1>7, <1>3
      <4>5. QED
        BY <3>1, <3>2, <3>4, <4>3, <4>4
    <3>5. QED
      BY <3>3, <3>4
  <2>2. ASSUME NEW q \in Page, NEW o \in Objs, View'[q].id = <<o, "ix">>, View'[q].span # 0
        PROVE  /\ files[o] # NoFile \/ o = call.obj
               /\ \/ \E s \in 0 .. Len(o)' - 1 : View'[q].span = s \div PerIx
                  \/ /\ call'.step = "index" /\ call.obj = o
                     /\ View'[q].span = call.span \div PerIx
    <3>1. View[q].id = <<o, "ix">> /\ View'[q].span = View[q].span
      BY <1>9, <2>2
    <3>2. files[o] # NoFile \/ o = call.obj
      BY <1>1, <3>1 DEF Owned
    <3>3. PICK s \in 0 .. Len(o) - 1 : View[q].span = s \div PerIx
      BY <1>1, <1>2, <2>2, <3>1 DEF Owned
    <3>4. CASE o # call.obj
      BY <1>1, <1>7, <3>1, <3>2, <3>3, <3>4
    <3>5. CASE o = call.obj /\ s < call.span
      <4>1. o = call.obj => Len(o)' = call.span
        BY <1>7, <1>3
      <4>2. s \in 0 .. Len(o)' - 1
        BY <1>2, <3>5, <4>1
      <4>3. QED
        BY <3>1, <3>2, <3>3, <4>2
    <3>6. CASE o = call.obj /\ s = call.span /\ call.span % PerIx = 0
      BY <1>3, <3>1, <3>2, <3>3, <3>6
    <3>7. CASE o = call.obj /\ s = call.span /\ call.span % PerIx # 0
      <4>1. call.span > 0 /\ (call.span - 1) \div PerIx = call.span \div PerIx
        BY <1>2, <3>7, GcAssumption, DivModBefore
      <4>2. o = call.obj => Len(o)' = call.span
        BY <1>7, <1>3
      <4>3. call.span - 1 \in 0 .. Len(o)' - 1
        BY <1>2, <3>7, <4>1, <4>2
      <4>4. QED
        BY <3>1, <3>2, <3>3, <3>7, <4>1, <4>3
    <3>8. s \in Int /\ s <= Len(o) - 1
      BY <3>3
    <3>9. o = call.obj => s < call.span \/ s = call.span
      BY <1>2, <3>8
    <3>10. QED
      BY <3>4, <3>5, <3>6, <3>7, <3>9
  <2>3. ASSUME NEW q \in Page, NEW o \in Objs, View'[q].id = <<o, "ix">>
        PROVE  files[o] # NoFile \/ o = call.obj
    <3>1. View[q].id = <<o, "ix">>
      BY <1>9, <2>3
    <3>2. QED
      BY <1>1, <3>1 DEF Owned
  <2>4. call'.step = "index" => call'.span = call.span
    BY <1>3
  <2>5. QED
    BY <1>1, <1>3, <1>7, <2>1, <2>2, <2>3, <2>4 DEF Owned
<1>11. OneEach'
  BY <1>1, <1>5, DroppedOnce
<1>12. Refer'
  <2>1. SUFFICES ASSUME NEW ix1 \in Page, NEW o \in Objs, NEW s \in 0 .. Len(o)' - 1,
                        IxPageNext(ix1, o, s \div PerIx)
                 PROVE  RefersTo(ix1, o, s)
    BY DEF Refer, IxPage, DaPage, IxPageNext, RefersTo
  <2>2. IxPage(ix1, o, s \div PerIx)
    BY <1>5, <2>1, DroppedRefers
  <2>3. s \in 0 .. Len(o) - 1 /\ ~(o = call.obj /\ s = call.span)
    <3>1. CASE o # call.obj
      BY <1>1, <1>7, <3>1
    <3>2. CASE o = call.obj
      <4>1. o = call.obj => Len(o)' = call.span
        BY <1>7, <1>3
      <4>2. QED
        BY <1>2, <3>2, <4>1
    <3>3. QED
      BY <3>1, <3>2
  <2>4. View[ix1].refs[s % PerIx] \in Page /\ DaPage(View[ix1].refs[s % PerIx], o, s)
    BY <1>1, <2>2, <2>3 DEF Refer
  <2>5. View[ix1].refs[s % PerIx] # p
    BY <1>6, <2>3, <2>4 DEF DaPage
  <2>6. QED
    BY <1>5, <2>1, <2>4, <2>5, DroppedRefers
<1>13. Written'
  <2>1. View'[call.pix].id = <<call.obj, "ix">> /\ View'[call.pix].span = 0
    BY <1>1, <1>5, <1>6 DEF Header, IxPage, Dropped
  <2>2. Header'
    BY <1>3, <2>1 DEF Header, IxPage
  <2>3. QED
    BY <1>7, <2>2 DEF Written, NewData, NewIx, Patched, Unpatched
<1>14. QED
  BY <1>8, <1>10, <1>11, <1>12, <1>13 DEF Clean

(* The last step: the header goes, and with it the last page of the file.  *)
LEMMA RemovedFiles ==
  ASSUME IInv, Kept, Clean, RemoveIndex, call.span <= 0
  PROVE  Kept' /\ Clean'
<1>1. /\ gc.run # "data" /\ gc' = gc /\ cut = "none" /\ cut' = cut /\ moving = Alloc!NoMove
      /\ call.obj \in Objs /\ call.op = "remove" /\ files' = files /\ files[call.obj] = NoFile
      /\ Owned /\ OneEach /\ Refer /\ Header /\ call.pix \in Page
      /\ \A o : /\ Removing(o) <=> o = call.obj
                /\ o # call.obj => Len(o) = files[o]
      /\ \A steps : ~AppendAt(steps) /\ ~ModifyAt(steps)
      /\ \A o, s : ~Stale(o, s)
      /\ call.span \in Int /\ (call.step = "index" => call.span \in Nat)
  BY RemovalParts
<1>2. Len(call.obj) = 0
  <2>1. Len(call.obj) = IF call.step = "index" THEN call.span ELSE call.span + 1
    BY RemovalParts
  <2>2. call.step = "index" \/ call.span < 0
    BY DEF RemoveIndex, Body
  <2>3. call.span \in Span \cup {-1}
    BY RemovalParts
  <2>4. call.span \in Nat \/ call.span = -1
    BY <2>3, SpanType
  <2>5. QED
    BY <1>1, <2>1, <2>2, <2>4
<1>3. Dropped(call.pix) /\ call' = NoCall
  <2>1. PICK ix : /\ Emptied(ix) /\ Alloc!Delete(ix) /\ page' = [page EXCEPT ![ix] = Blank]
    BY DEF RemoveIndex
  <2>2. call.span < PerIx
    BY <1>1, GcAssumption
  <2>3. ix = call.pix
    BY <2>1, <2>2 DEF Emptied
  <2>4. Dropped(ix)
    BY <1>1, <2>1, DeleteStep
  <2>5. QED
    BY <2>3, <2>4 DEF RemoveIndex
<1>4. Quiet'
  BY <1>3, NoParts DEF Quiet
<1>5. /\ \A o : ~Removing(o)' /\ Len(o)' = files[o]
      /\ \A steps \in SUBSET {"data", "index", "size", "last", "drop"} :
           ~AppendAt(steps)' /\ ~ModifyAt(steps)'
      /\ \A o, s : ~Stale(o, s)'
      /\ Written'
  BY <1>1, <1>4, QuietPartsNext
<1>6. View[call.pix].id = <<call.obj, "ix">> /\ View[call.pix].span = 0
  BY <1>1 DEF Header, IxPage
<1>7. Kept'
  BY <1>1, <1>3, <1>6, RemovalKept
<1>8. \A q \in Page, o \in Objs :
        View'[q].id \in {<<o, "ix">>, <<o, "da">>} => q # call.pix /\ View'[q] = View[q]
  BY <1>3, FileIds DEF Dropped
<1>9. ASSUME NEW q \in Page, View[q].id \in {<<call.obj, "ix">>, <<call.obj, "da">>}
      PROVE  q = call.pix
  <2>1. View[q].span \in Nat
    BY ViewType DEF IInv
  <2>2. View[q].id # <<call.obj, "da">>
    <3>1. View[q].id = <<call.obj, "da">> => View[q].span < Len(call.obj)
      BY <1>1 DEF Owned
    <3>2. QED
      BY <1>2, <2>1, <3>1
  <2>3. View[q].id = <<call.obj, "ix">>
    BY <1>9, <2>2
  <2>4. View[q].span = 0
    <3>1. \/ View[q].span = 0
          \/ \E s \in 0 .. Len(call.obj) - 1 : View[q].span = s \div PerIx
          \/ call.step = "index" /\ View[q].span = call.span \div PerIx
      BY <1>1, <2>3 DEF Owned
    <3>2. CASE call.step = "index" /\ View[q].span = call.span \div PerIx
      <4>1. call.span = 0
        BY <1>1, <3>2
      <4>2. QED
        BY <3>2, <4>1, DivMod, GcAssumption
    <3>3. QED
      BY <1>2, <3>1, <3>2
  <2>5. QED
    BY <1>1, <1>6, <2>3, <2>4 DEF OneEach
<1>10. Owned'
  <2>1. ASSUME NEW q \in Page, NEW o \in Objs
        PROVE  /\ View'[q].id \in {<<o, "ix">>, <<o, "da">>} => files[o] # NoFile
               /\ View'[q].id = <<o, "da">> => View'[q].span < files[o]
               /\ View'[q].id = <<o, "ix">> =>
                    \/ View'[q].span = 0
                    \/ \E s \in 0 .. files[o] - 1 : View'[q].span = s \div PerIx
    <3>1. CASE View'[q].id \notin {<<o, "ix">>, <<o, "da">>}
      BY <3>1
    <3>2. CASE View'[q].id \in {<<o, "ix">>, <<o, "da">>}
      <4>1. q # call.pix /\ View'[q] = View[q]
        BY <1>8, <3>2
      <4>2. o # call.obj
        BY <1>9, <3>2, <4>1
      <4>3. QED
        BY <1>1, <4>1, <4>2 DEF Owned
    <3>3. QED
      BY <3>1, <3>2
  <2>2. QED
    BY <1>1, <1>5, <2>1 DEF Owned
<1>11. OneEach'
  BY <1>1, <1>3, DroppedOnce
<1>12. Refer'
  <2>1. SUFFICES ASSUME NEW ix \in Page, NEW o \in Objs, NEW s \in 0 .. Len(o)' - 1,
                        IxPageNext(ix, o, s \div PerIx)
                 PROVE  RefersTo(ix, o, s)
    BY DEF Refer, IxPage, DaPage, IxPageNext, RefersTo
  <2>2. IxPage(ix, o, s \div PerIx)
    BY <1>3, <2>1, DroppedRefers
  <2>3. o # call.obj
    BY <1>1, <1>5, <2>1 DEF NoFile
  <2>4. View[ix].refs[s % PerIx] \in Page /\ DaPage(View[ix].refs[s % PerIx], o, s)
    BY <1>1, <1>5, <2>1, <2>2, <2>3 DEF Refer
  <2>5. View[ix].refs[s % PerIx] # call.pix
    BY <1>6, <2>4 DEF DaPage
  <2>6. QED
    BY <1>3, <2>1, <2>4, <2>5, DroppedRefers
<1>13. QED
  BY <1>5, <1>7, <1>10, <1>11, <1>12 DEF Clean

(* Any other index page goes after the first of its data pages.            *)
LEMMA RemoveIndexFiles ==
  ASSUME IInv, Kept, Clean, RemoveIndex, ~(call.span <= 0)
  PROVE  Kept' /\ Clean'
<1>1. /\ gc.run # "data" /\ gc' = gc /\ cut = "none" /\ cut' = cut /\ moving = Alloc!NoMove
      /\ call.obj \in Objs /\ call.op = "remove" /\ files' = files /\ files[call.obj] = NoFile
      /\ Owned /\ OneEach /\ Refer /\ Header /\ call.pix \in Page
      /\ \A o : /\ Removing(o) <=> o = call.obj
                /\ o # call.obj => Len(o) = files[o]
      /\ \A steps : ~AppendAt(steps) /\ ~ModifyAt(steps)
      /\ \A o, s : ~Stale(o, s)
      /\ call.span \in Int
  BY RemovalParts
<1>2. /\ call.step = "index" /\ call.span \in Nat /\ call.span > 0 /\ call.span % PerIx = 0
      /\ Len(call.obj) = call.span /\ call' = [call EXCEPT !.step = "body", !.span = call.span - 1]
  <2>1. call.step = "index"
    BY <1>1 DEF RemoveIndex, Body
  <2>2. call.span \in Nat /\ call.span % PerIx = 0 /\ Len(call.obj) = call.span
    BY <2>1, RemovalParts
  <2>3. call' = [call EXCEPT !.step = "body", !.span = call.span - 1]
    BY DEF RemoveIndex
  <2>4. QED
    BY <2>1, <2>2, <2>3
<1>3. /\ call'.op = "remove" /\ call'.obj = call.obj /\ call'.pix = call.pix
      /\ call'.step = "body" /\ call'.span = call.span - 1
  BY <1>1, <1>2 DEF IInv, Types, CallLocals
<1>4. PICK ix : Emptied(ix) /\ Alloc!Delete(ix) /\ page' = [page EXCEPT ![ix] = Blank]
  BY DEF RemoveIndex
<1>5. Dropped(ix)
  BY <1>1, <1>4, DeleteStep
<1>6. /\ ix \in Page /\ View[ix].id = <<call.obj, "ix">> /\ View[ix].span = call.span \div PerIx
      /\ call.span \div PerIx \in Nat /\ call.span \div PerIx > 0
  <2>1. ix \in Page /\ View[ix].id = <<call.obj, "ix">> /\ View[ix].span = call.span \div PerIx
    BY <1>1, <1>2, <1>4, EmptiedIndex
  <2>2. 0 \div PerIx < call.span \div PerIx /\ 0 \div PerIx = 0
    BY <1>2, GcAssumption, DivModOrder, DivMod
  <2>3. QED
    BY <1>2, <2>1, <2>2, DivMod
<1>7. /\ \A o : /\ Removing(o)' <=> o = call.obj
                /\ o # call.obj => Len(o)' = files[o]
                /\ o = call.obj => Len(o)' = call.span
      /\ \A steps : ~AppendAt(steps)' /\ ~ModifyAt(steps)'
      /\ \A o, s : ~Stale(o, s)'
  <2>1. /\ \A o : Removing(o)' <=> o = call.obj
        /\ \A steps : ~AppendAt(steps)' /\ ~ModifyAt(steps)'
        /\ \A o, s : ~Stale(o, s)'
    BY <1>3 DEF Removing, AppendAt, ModifyAt, Stale
  <2>2. \A o : o # call.obj => Len(o)' = files[o]
    BY <1>1, <2>1 DEF Len
  <2>3. \A o : o = call.obj => Len(o)' = call'.span + 1
    BY <1>3, <2>1 DEF Len
  <2>4. \A o : o = call.obj => Len(o)' = call.span
    BY <1>2, <1>3, <2>3
  <2>5. QED
    BY <2>1, <2>2, <2>4
<1>8. Kept'
  BY <1>1, <1>5, <1>6, RemovalKept
<1>9. \A q \in Page, o \in Objs :
        View'[q].id \in {<<o, "ix">>, <<o, "da">>} => q # ix /\ View'[q] = View[q]
  BY <1>5, FileIds DEF Dropped
<1>l. \A o \in Objs : Len(o)' = Len(o)
  BY <1>1, <1>2, <1>7
<1>10. Owned'
  <2>1. ASSUME NEW q \in Page, NEW o \in Objs
        PROVE  /\ View'[q].id \in {<<o, "ix">>, <<o, "da">>} => files[o] # NoFile \/ o = call.obj
               /\ View'[q].id = <<o, "da">> => View'[q].span < Len(o)
               /\ View'[q].id = <<o, "ix">> =>
                    \/ View'[q].span = 0
                    \/ \E s \in 0 .. Len(o) - 1 : View'[q].span = s \div PerIx
    <3>1. CASE View'[q].id \notin {<<o, "ix">>, <<o, "da">>}
      BY <3>1
    <3>2. CASE View'[q].id \in {<<o, "ix">>, <<o, "da">>}
      <4>1. q # ix /\ View'[q] = View[q]
        BY <1>9, <3>2
      <4>2. ~(View[q].id = <<o, "ix">> /\ o = call.obj /\ View[q].span = call.span \div PerIx)
        BY <1>1, <1>6, <4>1 DEF OneEach
      <4>3. QED
        BY <1>1, <4>1, <4>2 DEF Owned
    <3>3. QED
      BY <3>1, <3>2
  <2>2. QED
    BY <1>1, <1>7, <1>l, <2>1 DEF Owned
<1>11. OneEach'
  BY <1>1, <1>5, DroppedOnce
<1>12. Refer'
  <2>1. SUFFICES ASSUME NEW ix1 \in Page, NEW o \in Objs, NEW s \in 0 .. Len(o)' - 1,
                        IxPageNext(ix1, o, s \div PerIx)
                 PROVE  RefersTo(ix1, o, s)
    BY DEF Refer, IxPage, DaPage, IxPageNext, RefersTo
  <2>2. IxPage(ix1, o, s \div PerIx) /\ s \in 0 .. Len(o) - 1
    BY <1>5, <1>l, <2>1, DroppedRefers
  <2>3. View[ix1].refs[s % PerIx] \in Page /\ DaPage(View[ix1].refs[s % PerIx], o, s)
    BY <1>1, <2>2 DEF Refer
  <2>4. View[ix1].refs[s % PerIx] # ix
    BY <1>6, <2>3 DEF DaPage
  <2>5. QED
    BY <1>5, <2>1, <2>3, <2>4, DroppedRefers
<1>13. Written'
  <2>1. call.pix # ix
    BY <1>1, <1>6 DEF Header, IxPage
  <2>2. View'[call.pix].id = <<call.obj, "ix">> /\ View'[call.pix].span = 0
    BY <1>1, <1>5, <2>1 DEF Header, IxPage, Dropped
  <2>3. Header'
    BY <1>3, <2>2 DEF Header, IxPage
  <2>4. QED
    BY <1>7, <2>3 DEF Written, NewData, NewIx, Patched, Unpatched
<1>14. QED
  BY <1>8, <1>10, <1>11, <1>12, <1>13 DEF Clean

-----------------------------------------------------------------------------
(* A loss of power: what was copied is still where it was copied from.     *)

LEMMA LostMove ==
  ASSUME IInv, PowerLoss
  PROVE  /\ Carried
         /\ cut' = "none" => call = NoCall /\ cut = "none" /\ View' = View
<1>1. /\ UNCHANGED <<lu, page>> /\ moving' = Alloc!NoMove /\ gc' = NoGc /\ call' = NoCall
      /\ cut' = IF moving.stage = "copied" THEN "dirty"
                ELSE IF call # NoCall /\ cut = "none" THEN "clean" ELSE cut
  BY DEF PowerLoss, Alloc!PowerLoss, Alloc!RamLost
<1>2. \A q : IdAfter(q)' = Id(q) /\ RefsAfter(q)' = page[q].refs
  BY <1>1, NoParts DEF IdAfter, RefsAfter, Alloc!NoMove, Id
<1>3. \A q \in Page : Id(q) \in LookupIds =>
        /\ View'[q].id = Id(q) /\ View'[q].span = page[q].span
        /\ View'[q].removed = page[q].removed
  <2>1. SUFFICES ASSUME NEW q \in Page, Id(q) \in LookupIds
                 PROVE  /\ View'[q].id = Id(q) /\ View'[q].span = page[q].span
                        /\ View'[q].removed = page[q].removed
    OBVIOUS
  <2>2. View'[q] = PageView(Id(q), page[q].span, page[q].removed, page[q].refs)
    BY <1>1, <1>2, <2>1 DEF View
  <2>3. QED
    BY <2>2, PageViewParts
<1>4. Carried
  <2>1. SUFFICES ASSUME NEW q \in Page, View[q].id \in LookupIds
                 PROVE  \E r \in Page : SamePage(q, r)
    BY DEF Carried
  <2>2. /\ IdAfter(q) \in LookupIds /\ View[q].id = IdAfter(q)
        /\ View[q].span = page[q].span /\ View[q].removed = page[q].removed
    BY <2>1, ViewAt
  <2>3. CASE moving.stage # "none" /\ q = moving.dst
    <3>1. /\ moving.src \in Page /\ Id(moving.src) \in LookupIds
      BY <2>3, MovedPages DEF IInv
    <3>2. /\ page[q].span = page[moving.src].span /\ page[q].removed = page[moving.src].removed
      BY <2>3 DEF IInv, Copied
    <3>3. IdAfter(q) = Id(moving.src)
      BY <2>3 DEF IdAfter
    <3>4. SamePage(q, moving.src)
      BY <1>3, <2>2, <3>1, <3>2, <3>3 DEF SamePage
    <3>5. QED
      BY <3>1, <3>4
  <2>4. CASE ~(moving.stage # "none" /\ q = moving.dst)
    <3>1. IdAfter(q) = Id(q)
      BY <2>2, <2>4, FileIds DEF IdAfter
    <3>2. SamePage(q, q)
      BY <1>3, <2>2, <3>1 DEF SamePage
    <3>3. QED
      BY <3>2
  <2>5. QED
    BY <2>3, <2>4
<1>5. ASSUME cut' = "none" PROVE call = NoCall /\ cut = "none" /\ View' = View
  <2>1. call = NoCall /\ cut = "none"
    BY <1>1, <1>5
  <2>2. gc.run = "off" /\ moving = Alloc!NoMove
    BY <2>1, NoParts DEF IInv, Linked, Collecting
  <2>3. View' = View
    BY <1>1, <2>2, NoParts, UnchangedView
  <2>4. QED
    BY <2>1, <2>3
<1>6. QED
  BY <1>4, <1>5

LEMMA PowerLossFiles ==
  ASSUME IInv, Kept, Clean, PowerLoss
  PROVE  Kept' /\ Clean'
<1>1. files' = files /\ call' = NoCall
  BY DEF PowerLoss
<1>2. Kept'
  BY <1>1, LostMove, CarriedKept
<1>3. CASE cut' = "none"
  BY <1>1, <1>3, LostMove, QuietFiles
<1>4. CASE cut' # "none"
  BY <1>2, <1>4 DEF Clean
<1>5. QED
  BY <1>3, <1>4

-----------------------------------------------------------------------------
(* Kept and Clean hold at the start, and every step keeps them.            *)

LEMMA InitFiles == Init => Kept /\ Clean
<1> SUFFICES ASSUME Init PROVE Kept /\ Clean
  OBVIOUS
<1>1. IInv /\ call = NoCall /\ moving = Alloc!NoMove /\ \A o \in Objs : files[o] = NoFile
  BY InitInvariant DEF Init, Alloc!Init
<1>2. \A p \in Page : Id(p) = FREE
  BY PageParts, Geometry DEF Init, Alloc!Init, Id
<1>3. \A p \in Page : View[p].id \notin LookupIds
  BY <1>1, <1>2, ViewAt, ViewWithoutMove, AllocAssumptions
<1>4. Quiet
  BY <1>1, QuietCalls
<1>5. \A o \in Objs : Len(o) = NoFile
  BY <1>1, <1>4, QuietParts
<1>6. Kept
  BY <1>1 DEF Kept
<1>7. Owned /\ OneEach
  BY <1>3, FileIds DEF Owned, OneEach
<1>8. Refer
  BY <1>5 DEF Refer, NoFile
<1>9. Written
  BY <1>4, QuietParts
<1>10. QED
  BY <1>6, <1>7, <1>8, <1>9 DEF Clean

LEMMA StepFiles == IInv /\ Kept /\ Clean /\ [Next]_vars => Kept' /\ Clean'
<1> SUFFICES ASSUME IInv, Kept, Clean, [Next]_vars PROVE Kept' /\ Clean'
  OBVIOUS
<1>1. CASE GcCheckEnough \/ GcCheckFull \/ GcCheckRun
  BY <1>1, CheckFiles
<1>2. CASE CollectorStep
  BY <1>2, FindFiles, RestartFiles, MoveDataFiles, StoreIndexFiles, MoveIndexFiles, EraseFiles
     DEF CollectorStep
<1>3. CASE BodyStep
  BY <1>3, CreateFiles, AppendIndexFiles, AppendDataFiles, AppendInPlaceFiles, AppendHeaderFiles,
     ModifyDataFiles, ModifyDropFiles, ModifyIndexFiles, RemoveDataFiles, RemovedFiles,
     RemoveIndexFiles
     DEF BodyStep
<1>4. CASE MoveDrop
  BY <1>4, DropFiles
<1>5. CASE \E o \in Objs : Create(o) \/ Append(o) \/ \E s \in Span : Modify(o, s)
  <2>1. PICK o \in Objs : Create(o) \/ Append(o) \/ \E s \in Span : Modify(o, s)
    BY <1>5
  <2>2. CASE Create(o)
    BY <2>2, BeginFiles DEF Create
  <2>3. CASE Append(o)
    BY <2>3, BeginFiles DEF Append
  <2>4. CASE \E s \in Span : Modify(o, s)
    BY <2>4, BeginFiles DEF Modify
  <2>5. QED
    BY <2>1, <2>2, <2>3, <2>4
<1>6. CASE \E o \in Objs : Remove(o)
  BY <1>6, RemoveFiles
<1>7. CASE \E n \in GcSizes : UserGc(n)
  BY <1>7, BeginFiles DEF UserGc
<1>8. CASE GcQuick \/ Mount \/ MoveMark \/ UNCHANGED vars
  BY <1>8, IdleFiles
<1>9. CASE PowerLoss
  BY <1>9, PowerLossFiles
<1>10. QED
  BY <1>1, <1>2, <1>3, <1>4, <1>5, <1>6, <1>7, <1>8, <1>9 DEF Next

(* In any run every page of a file exists, and while no call was cut short *)
(* there is none besides and the index pages refer to the data pages.      *)
THEOREM FilesInvariant == Spec => [](Kept /\ Clean)
<1>1. Init => IInv /\ Kept /\ Clean
  BY InitInvariant, InitFiles
<1>2. IInv /\ Kept /\ Clean /\ [Next]_vars => (IInv /\ Kept /\ Clean)'
  BY StepInvariant, StepFiles
<1>3. QED
  BY <1>1, <1>2, PTL DEF Spec

-----------------------------------------------------------------------------
(* What that says of the pages on flash.                                   *)

LEMMA ViewLive ==
  ASSUME IInv, NEW p \in Page, View[p].id \in LookupIds
  PROVE  \E q \in Page : Id(q) = View[p].id /\ page[q].span = View[p].span
<1>1. View[p].id = IdAfter(p) /\ View[p].span = page[p].span
  BY ViewAt
<1>2. CASE moving.stage # "none" /\ p = moving.dst
  <2>1. moving.src \in Page /\ IdAfter(p) = Id(moving.src)
    BY <1>2, MovedPages DEF IInv, IdAfter
  <2>2. page[moving.src].span = page[p].span
    BY <1>2 DEF IInv, Copied
  <2>3. QED
    BY <1>1, <2>1, <2>2
<1>3. CASE ~(moving.stage # "none" /\ p = moving.dst)
  <2>1. IdAfter(p) = Id(p)
    BY <1>1, <1>3, FileIds DEF IdAfter
  <2>2. QED
    BY <1>1, <2>1
<1>4. QED
  BY <1>2, <1>3

LEMMA HasLive ==
  ASSUME IInv, NEW o \in Objs, NEW x
  PROVE  (HasIx(o, x) => Live(o, "ix", x) # {}) /\ (HasDa(o, x) => Live(o, "da", x) # {})
<1>1. ASSUME HasIx(o, x) PROVE Live(o, "ix", x) # {}
  <2>1. PICK p \in Page : View[p].id = <<o, "ix">> /\ View[p].span = x
    BY <1>1 DEF HasIx, IxPage
  <2>2. PICK q \in Page : Id(q) = <<o, "ix">> /\ page[q].span = x
    BY <2>1, FileIds, ViewLive
  <2>3. QED
    BY <2>2 DEF Live
<1>2. ASSUME HasDa(o, x) PROVE Live(o, "da", x) # {}
  <2>1. PICK p \in Page : View[p].id = <<o, "da">> /\ View[p].span = x
    BY <1>2 DEF HasDa, DaPage
  <2>2. PICK q \in Page : Id(q) = <<o, "da">> /\ page[q].span = x
    BY <2>1, FileIds, ViewLive
  <2>3. QED
    BY <2>2 DEF Live
<1>3. QED
  BY <1>1, <1>2

LEMMA KeptLive == IInv /\ Kept => NoPageLost
<1> SUFFICES ASSUME IInv, Kept, NEW o \in Objs, files[o] # NoFile
             PROVE  /\ Live(o, "ix", 0) # {}
                    /\ \A s \in 0 .. files[o] - 1 :
                         Live(o, "da", s) # {} /\ Live(o, "ix", s \div PerIx) # {}
  BY DEF NoPageLost
<1>1. HasIx(o, 0) /\ \A s \in 0 .. files[o] - 1 : HasDa(o, s) /\ HasIx(o, s \div PerIx)
  BY DEF Kept
<1>2. QED
  BY <1>1, HasLive

(* No page of a file is ever lost, wherever the collector or a call is and *)
(* whenever the power fails: spiffs_page_move, spiffs_gc_clean and the     *)
(* object layer write the new page before they delete the old, also where  *)
(* (spiffs_object_modify) the index page does not lead to it yet.          *)
THEOREM PagesKept == Spec => []NoPageLost
BY Invariant, FilesInvariant, KeptLive, PTL

-----------------------------------------------------------------------------
(* Between two calls, none of which was cut short.                         *)

Rest == mounted /\ call = NoCall /\ cut = "none"

LEMMA RestParts ==
  ASSUME IInv, Clean, Rest
  PROVE  /\ Owned /\ OneEach /\ Refer
         /\ \A o : ~Removing(o) /\ Len(o) = files[o]
         /\ ~AppendAt({"index", "size", "last"})
         /\ ~AppendAt({"data", "index", "size", "last"})
         /\ ~ModifyAt({"drop"})
         /\ \A o, s : ~Stale(o, s)
         /\ \A p \in Page : Id(p) \in LookupIds =>
              View[p].id = Id(p) /\ View[p].span = page[p].span /\ View[p].refs = page[p].refs
<1>1. Quiet
  BY QuietCalls DEF Rest
<1>2. gc.run # "data" /\ moving = Alloc!NoMove
  BY NoParts DEF Rest, IInv, Linked, Collecting
<1>3. \A p \in Page : IdAfter(p) = Id(p) /\ RefsAfter(p) = page[p].refs
  BY <1>2, ViewWithoutMove DEF RefsAfter
<1>4. \A p \in Page : Id(p) \in LookupIds =>
        View[p].id = Id(p) /\ View[p].span = page[p].span /\ View[p].refs = page[p].refs
  BY <1>3, ViewAt
<1>5. QED
  BY <1>1, <1>4, QuietParts DEF Rest, Clean

LEMMA RestLive ==
  ASSUME IInv, Clean, Rest, NEW o \in Objs, NEW x, NEW p
  PROVE  /\ p \in Live(o, "ix", x) => p \in Page /\ IxPage(p, o, x) /\ View[p].refs = page[p].refs
         /\ p \in Live(o, "da", x) => p \in Page /\ DaPage(p, o, x)
         /\ p \in Page /\ DaPage(p, o, x) => p \in Live(o, "da", x)
<1>1. ASSUME p \in Page, DaPage(p, o, x) PROVE p \in Live(o, "da", x)
  <2>1. Id(p) \in LookupIds
    <3>1. moving = Alloc!NoMove
      BY NoParts DEF Rest, IInv, Linked, Collecting
    <3>2. IdAfter(p) = Id(p) /\ View[p].id \in LookupIds
      BY <1>1, <3>1, ViewWithoutMove, FileIds DEF DaPage
    <3>3. QED
      BY <1>1, <3>2, ViewAt
  <2>2. QED
    BY <1>1, <2>1, RestParts DEF DaPage, Live
<1>2. QED
  BY <1>1, RestParts, FileIds DEF Live, IxPage, DaPage

LEMMA RestIntact == IInv /\ Kept /\ Clean => IndexIntact
<1> SUFFICES ASSUME IInv, Kept, Clean, Rest, NEW o \in Objs, files[o] # NoFile
             PROVE  /\ \A x \in {s \div PerIx : s \in 0 .. files[o] - 1} \cup {0} :
                         Cardinality(Live(o, "ix", x)) = 1
                    /\ \A s \in 0 .. files[o] - 1 : \E ix \in Live(o, "ix", s \div PerIx) :
                         Live(o, "da", s) = {page[ix].refs[s % PerIx]}
  BY DEF IndexIntact, Rest
<1>1. /\ Live(o, "ix", 0) # {}
      /\ \A s \in 0 .. files[o] - 1 : Live(o, "da", s) # {} /\ Live(o, "ix", s \div PerIx) # {}
  BY KeptLive DEF NoPageLost
<1>2. ASSUME NEW x \in {s \div PerIx : s \in 0 .. files[o] - 1} \cup {0}
      PROVE  Cardinality(Live(o, "ix", x)) = 1
  <2>1. PICK p : p \in Live(o, "ix", x)
    BY <1>1
  <2>2. \A q \in Live(o, "ix", x) : q = p
    BY <2>1, RestLive, RestParts DEF OneEach, IxPage
  <2>3. Live(o, "ix", x) = {p}
    BY <2>1, <2>2
  <2>4. QED
    BY <2>3, FS_Singleton
<1>3. ASSUME NEW s \in 0 .. files[o] - 1
      PROVE  \E ix \in Live(o, "ix", s \div PerIx) : Live(o, "da", s) = {page[ix].refs[s % PerIx]}
  <2>1. PICK ix : ix \in Live(o, "ix", s \div PerIx)
    BY <1>1
  <2>2. ix \in Page /\ IxPage(ix, o, s \div PerIx) /\ View[ix].refs = page[ix].refs
    BY <2>1, RestLive
  <2>3. s \in 0 .. Len(o) - 1 /\ ~Stale(o, s) /\ Refer /\ OneEach /\ ~ModifyAt({"drop"})
    BY RestParts
  <2>4. /\ page[ix].refs[s % PerIx] \in Page
        /\ DaPage(page[ix].refs[s % PerIx], o, s)
    BY <2>2, <2>3 DEF Refer
  <2>5. page[ix].refs[s % PerIx] \in Live(o, "da", s)
    BY <2>4, RestLive
  <2>6. \A q \in Live(o, "da", s) : q = page[ix].refs[s % PerIx]
    BY <2>3, <2>4, RestLive DEF OneEach, DaPage
  <2>7. QED
    BY <2>1, <2>5, <2>6
<1>4. QED
  BY <1>2, <1>3

LEMMA RestOwned == IInv /\ Clean => NothingLeftOver
<1> SUFFICES ASSUME IInv, Clean, Rest, NEW p \in Alloc!UsedPages(lu)
             PROVE  /\ files[Id(p)[1]] # NoFile
                    /\ \/ page[p].span < files[Id(p)[1]]
                       \/ Id(p)[2] = "ix" /\ page[p].span = 0
  BY DEF NothingLeftOver, Rest
<1>1. p \in Page /\ Id(p) \in LookupIds
  BY Geometry DEF Alloc!UsedPages, Id
<1>2. PICK o \in Objs : Id(p) \in {<<o, "ix">>, <<o, "da">>}
  BY <1>1 DEF LookupIds
<1>3. View[p].id = Id(p) /\ View[p].span = page[p].span /\ page[p].span \in Nat
  BY <1>1, RestParts, PageType, SpanType DEF IInv
<1>4. files[o] # NoFile /\ files[o] \in Int
  <2>1. files[o] # NoFile
    BY <1>1, <1>2, <1>3, RestParts DEF Owned
  <2>2. QED
    BY <2>1 DEF IInv, Types
<1>5. CASE Id(p) = <<o, "da">>
  BY <1>1, <1>3, <1>4, <1>5, RestParts DEF Owned
<1>6. CASE Id(p) = <<o, "ix">>
  <2>1. page[p].span = 0 \/ \E s \in 0 .. files[o] - 1 : page[p].span = s \div PerIx
    BY <1>1, <1>3, <1>6, RestParts DEF Owned
  <2>2. ASSUME NEW s \in 0 .. files[o] - 1, page[p].span = s \div PerIx
        PROVE  page[p].span < files[o]
    <3>1. s \in Nat /\ s < files[o]
      BY <1>4
    <3>2. s \div PerIx <= s /\ s \div PerIx \in Nat
      BY <3>1, DivMod, GcAssumption
    <3>3. QED
      BY <1>4, <2>2, <3>1, <3>2
  <2>3. QED
    BY <1>4, <1>6, <2>1, <2>2
<1>7. QED
  BY <1>2, <1>5, <1>6

(* Between two calls of which none was cut short the index of every file   *)
(* is whole: one header, one index page for each group of data pages, and  *)
(* every reference leads to the only page with that data.                  *)
THEOREM IndexWhole == Spec => []IndexIntact
BY Invariant, FilesInvariant, RestIntact, PTL

(* Between two calls of which none was cut short every page in use belongs *)
(* to a file that exists and lies within its size: neither spiffs_gc_clean *)
(* nor spiffs_object_truncate nor a rewritten page leaves anything behind. *)
THEOREM NothingStays == Spec => []NothingLeftOver
BY Invariant, FilesInvariant, RestOwned, PTL
=============================================================================
