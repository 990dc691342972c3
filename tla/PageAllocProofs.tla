-------------------------- MODULE PageAllocProofs --------------------------
(***************************************************************************)
(* Theorems about PageAlloc, for every number of blocks and pages: where   *)
(* the free pages are, and what the counters are worth.                    *)
(***************************************************************************)
EXTENDS PageAlloc, FiniteSetTheorems, TLAPS

USE GeometryAssumption, IdsAssumption

-----------------------------------------------------------------------------
(* Sets of available pages, independent of the state.                      *)

CursorSet == [bix : Block, entry : 0 .. E]

LEMMA PageParts ==
  /\ \A p \in Page : p = <<p[1], p[2]>> /\ p[1] \in Block /\ p[2] \in Entry
  /\ \A b \in Block, e \in Entry : <<b, e>> \in Page
  /\ \A b, e, c, f : <<b, e>> = <<c, f>> <=> b = c /\ e = f
BY DEF Page

(* The scan visits a page of F only after every page of F before it in its *)
(* block, so the page it returns is the first available one of its block.  *)
LEMMA FirstVisitedIsFirstInBlock ==
  ASSUME NEW F \in SUBSET Page, NEW c \in CursorSet, Suffix(F), CursorOK(F, c),
         NEW p \in F, \A q \in F : ~VisitedBefore(ScanStart(c), q, p)
  PROVE  \A e \in Entry : e < p[2] => <<p[1], e>> \notin F
<1> SUFFICES ASSUME NEW e \in Entry, e < p[2], <<p[1], e>> \in F
             PROVE  FALSE
  OBVIOUS
<1> DEFINE q == <<p[1], e>>
           s == ScanStart(c)
<1>1. p[1] \in Block /\ p[2] \in Entry /\ q[1] = p[1] /\ q[2] = e
  BY PageParts
<1>2. Below(q, p)
  BY <1>1 DEF Below, Entry
<1>3. s \in [bix : Block, entry : Entry]
  BY DEF ScanStart, CursorSet, Cursor, Block, Entry
<1>4. SecondLap(s, q) /\ ~SecondLap(s, p)
  BY <1>1, <1>2, <1>3 DEF VisitedBefore, SecondLap, Below, Block, Entry
<1>5. p[1] = s.bix /\ e < s.entry
  BY <1>1, <1>3, <1>4 DEF SecondLap, Block, Entry
<1>6. s = c /\ 0 < c.entry /\ c.entry < E
  BY <1>3, <1>5 DEF ScanStart, CursorSet, Cursor, Block, Entry
<1>7. QED
  BY <1>5, <1>6 DEF CursorOK

(* Taking that page keeps both facts, for the cursor just past it.         *)
LEMMA TakeFirst ==
  ASSUME NEW F \in SUBSET Page, Suffix(F), NEW p \in F,
         \A e \in Entry : e < p[2] => <<p[1], e>> \notin F
  PROVE  /\ Suffix(F \ {p})
         /\ CursorOK(F \ {p}, Cursor(p[1], p[2] + 1))
         /\ \A f \in Entry : f > p[2] => <<p[1], f>> \in F \ {p}
<1>1. p = <<p[1], p[2]>> /\ p[1] \in Block /\ p[2] \in Entry
  BY PageParts
<1>2. Suffix(F \ {p})
  <2> SUFFICES ASSUME NEW b \in Block, NEW e \in Entry, NEW f \in Entry, e <= f,
                      <<b, e>> \in F \ {p}
               PROVE  <<b, f>> \in F \ {p}
    BY DEF Suffix
  <2>1. <<b, f>> \in F
    BY DEF Suffix
  <2>2. <<b, f>> # p
    <3> SUFFICES ASSUME <<b, f>> = p PROVE FALSE
      OBVIOUS
    <3>1. b = p[1] /\ f = p[2] /\ e # f
      BY <1>1, PageParts
    <3>2. e < p[2]
      BY <3>1 DEF Entry
    <3>3. QED
      BY <3>1, <3>2
  <2>3. QED
    BY <2>1, <2>2
<1>3. ASSUME NEW f \in Entry, f > p[2]
      PROVE  <<p[1], f>> \in F \ {p}
  <2>1. <<p[1], f>> \in F
    BY <1>1, <1>3 DEF Suffix, Entry
  <2>2. <<p[1], f>> # p
    BY <1>1, <1>3, PageParts DEF Entry
  <2>3. QED
    BY <2>1, <2>2
<1>4. CursorOK(F \ {p}, Cursor(p[1], p[2] + 1))
  <2> SUFFICES ASSUME p[2] + 1 < E
               PROVE  /\ <<p[1], p[2] + 1>> \in F \ {p}
                      /\ \A e \in Entry : e < p[2] + 1 => <<p[1], e>> \notin F \ {p}
    BY DEF CursorOK, Cursor
  <2>1. p[2] + 1 \in Entry /\ p[2] + 1 > p[2]
    BY <1>1 DEF Entry
  <2>2. <<p[1], p[2] + 1>> \in F \ {p}
    BY <2>1, <1>3
  <2>3. ASSUME NEW e \in Entry, e < p[2] + 1
        PROVE  <<p[1], e>> \notin F \ {p}
    <3>1. e < p[2] \/ e = p[2]
      BY <1>1, <2>3 DEF Entry
    <3>2. QED
      BY <1>1, <3>1
  <2>4. QED
    BY <2>2, <2>3
<1>5. QED
  BY <1>2, <1>3, <1>4

(* Erasing whole blocks keeps them, unless the cursor is inside of one.    *)
LEMMA AddBlocks ==
  ASSUME NEW F \in SUBSET Page, NEW S \in SUBSET Block, Suffix(F)
  PROVE  /\ Suffix(F \cup (S \X Entry))
         /\ \A c \in CursorSet : CursorOK(F, c) /\ c.bix \notin S => CursorOK(F \cup (S \X Entry), c)
<1> DEFINE G == F \cup (S \X Entry)
<1>1. \A b \in Block, e \in Entry : <<b, e>> \in G <=> <<b, e>> \in F \/ b \in S
  OBVIOUS
<1>2. Suffix(G)
  BY <1>1 DEF Suffix
<1>3. ASSUME NEW c \in CursorSet, CursorOK(F, c), c.bix \notin S
      PROVE  CursorOK(G, c)
  BY <1>1, <1>3 DEF CursorOK, CursorSet, Entry
<1>4. QED
  BY <1>2, <1>3

-----------------------------------------------------------------------------
(* Finite sets of pages and their sizes.                                   *)

LEMMA PageFinite ==
  /\ IsFiniteSet(Block)
  /\ \A S \in SUBSET Block : IsFiniteSet(S) /\ Cardinality(S) \in Nat
  /\ \A S \in SUBSET Page : IsFiniteSet(S) /\ Cardinality(S) \in Nat
<1>1. IsFiniteSet(Block) /\ IsFiniteSet(Entry)
  BY FS_Interval DEF Block, Entry
<1>2. IsFiniteSet(Page)
  BY <1>1, FS_Product DEF Page
<1>3. QED
  BY <1>1, <1>2, FS_Subset, FS_CardinalityType

LEMMA CountsAreNat ==
  /\ \A l : Cardinality(UsedPages(l)) \in Nat /\ Cardinality(DeletedPages(l)) \in Nat
  /\ \A l : Cardinality(FreeBlocks(l)) \in Nat
  /\ \A S : AllocatedIn(S) \in Nat /\ DeletedIn(S) \in Nat
<1>1. \A l : UsedPages(l) \in SUBSET Page /\ DeletedPages(l) \in SUBSET Page
  BY DEF UsedPages, DeletedPages
<1>2. \A l : FreeBlocks(l) \in SUBSET Block
  BY DEF FreeBlocks
<1>3. \A S : /\ {p \in UsedPages(lu) : p[1] \in S} \in SUBSET Page
             /\ {p \in DeletedPages(lu) : p[1] \in S} \in SUBSET Page
  BY <1>1
<1>4. QED
  BY <1>1, <1>2, <1>3, PageFinite DEF AllocatedIn, DeletedIn

-----------------------------------------------------------------------------
(* Type correctness.                                                       *)

LEMMA LookupType ==
  ASSUME TypeOK
  PROVE  /\ \A S : Erased(lu, S) \in [Block -> [Entry -> Ids \cup {FREE, DELETED}]]
         /\ \A l \in [Block -> [Entry -> Ids \cup {FREE, DELETED}]], p \in Page,
               x \in Ids \cup {FREE, DELETED} :
               Marked(l, p, x) \in [Block -> [Entry -> Ids \cup {FREE, DELETED}]]
<1>1. \A S : Erased(lu, S) \in [Block -> [Entry -> Ids \cup {FREE, DELETED}]]
  BY DEF TypeOK, Erased
<1>2. ASSUME NEW l \in [Block -> [Entry -> Ids \cup {FREE, DELETED}]], NEW p \in Page,
             NEW x \in Ids \cup {FREE, DELETED}
      PROVE  Marked(l, p, x) \in [Block -> [Entry -> Ids \cup {FREE, DELETED}]]
  <2>1. p[1] \in Block /\ p[2] \in Entry
    BY PageParts
  <2>2. QED
    BY <2>1 DEF Marked
<1>3. QED
  BY <1>1, <1>2

LEMMA FindFreeType ==
  ASSUME TypeOK, NEW p \in Page, FindFree(p)
  PROVE  /\ free_blocks' \in Int /\ stats_p_deleted' \in Int
         /\ free_cursor' \in CursorSet
<1>1. QuickFreeBlocks \in Int
  BY DEF TypeOK, QuickFreeBlocks
<1>2. p[1] \in Block /\ p[2] \in Entry
  BY PageParts
<1>3. free_cursor' \in CursorSet
  BY <1>2 DEF FindFree, Cursor, CursorSet, Entry
<1>4. QED
  BY <1>1, <1>3, CountsAreNat DEF FindFree, TypeOK

LEMMA TypeInductive == TypeOK /\ [Next]_vars => TypeOK'
<1> SUFFICES ASSUME TypeOK, [Next]_vars PROVE TypeOK'
  OBVIOUS
<1> DEFINE LU == [Block -> [Entry -> Ids \cup {FREE, DELETED}]]
<1>a. <<0, 0>> \in Page /\ Cursor(0, 0) \in [bix : Block, entry : 0 .. E]
  BY PageParts DEF Block, Entry, Cursor
<1>b. NoMove \in [stage : {"none", "copied", "marked"}, src : Page, dst : Page]
  BY <1>a DEF NoMove
<1>c. \A S : Erased(lu, S) \in LU
  BY LookupType
<1>d. QuickLu \in LU
  BY <1>c DEF QuickLu
<1>1. ASSUME NEW id \in Ids, Allocate(id) PROVE TypeOK'
  <2>1. PICK p \in Page : FindFree(p) /\ lu' = Marked(QuickLu, p, id)
    BY <1>1 DEF Allocate
  <2>2. lu' \in LU
    BY <2>1, <1>d, LookupType
  <2>3. QED
    BY <1>1, <2>1, <2>2, FindFreeType DEF Allocate, TypeOK, CursorSet
<1>2. CASE FindFreeFull
  BY <1>2, <1>d, CountsAreNat DEF FindFreeFull, QuickRuns, QuickFreeBlocks, TypeOK
<1>3. ASSUME NEW src \in Page, MoveCopy(src) PROVE TypeOK'
  <2>1. PICK p \in Page : /\ FindFree(p)
                          /\ moving' = Moving("copied", src, p)
                          /\ wrapped' = (wrapped \/ p[1] = cleaning)
    BY <1>3 DEF MoveCopy
  <2>2. moving' \in [stage : {"none", "copied", "marked"}, src : Page, dst : Page]
    BY <2>1 DEF Moving
  <2>3. lu' \in LU
    BY <1>3, <1>d DEF MoveCopy
  <2>4. QED
    BY <1>3, <2>1, <2>2, <2>3, FindFreeType DEF MoveCopy, TypeOK, CursorSet
<1>4. CASE MoveMark
  <2>1. moving.src \in Page /\ moving.dst \in Page
    BY DEF TypeOK
  <2>2. lu[moving.src[1]][moving.src[2]] \in Ids \cup {FREE, DELETED}
    BY <2>1, PageParts DEF TypeOK
  <2>3. lu' \in LU
    BY <1>4, <2>1, <2>2, LookupType DEF MoveMark, TypeOK
  <2>4. moving' \in [stage : {"none", "copied", "marked"}, src : Page, dst : Page]
    BY <1>4, <2>1 DEF MoveMark, Moving
  <2>5. QED
    BY <1>4, <2>3, <2>4 DEF MoveMark, TypeOK
<1>5. CASE MoveDrop
  <2>1. moving.src \in Page
    BY DEF TypeOK
  <2>2. lu' \in LU
    BY <1>5, <2>1, LookupType DEF MoveDrop, PageDelete, TypeOK
  <2>3. QED
    BY <1>5, <1>b, <2>2 DEF MoveDrop, PageDelete, TypeOK
<1>6. ASSUME NEW p \in Page, Delete(p) PROVE TypeOK'
  <2>1. lu' \in LU
    BY <1>6, LookupType DEF Delete, PageDelete, TypeOK
  <2>2. QED
    BY <1>6, <2>1 DEF Delete, PageDelete, TypeOK
<1>7. ASSUME NEW max \in QuickArgs, GcQuick(max) PROVE TypeOK'
  BY <1>7, <1>c, CountsAreNat DEF GcQuick, TypeOK
<1>8. ASSUME NEW b \in Block, GcStart(b) PROVE TypeOK'
  <2>1. Cursor((b + 1) % B, 0) \in [bix : Block, entry : 0 .. E]
    BY DEF Cursor, Block
  <2>2. QED
    BY <1>8, <2>1 DEF GcStart, TypeOK
<1>9. CASE GcErase
  BY <1>9, <1>c, CountsAreNat DEF GcErase, EraseCleaned, TypeOK
<1>10. CASE GcFail
  BY <1>10 DEF GcFail, ram, TypeOK
<1>11. CASE Mount
  BY <1>11, <1>a, CountsAreNat DEF Mount, TypeOK
<1>12. CASE PowerLoss
  <2>1. 0 \in Int
    OBVIOUS
  <2>2. QED
    BY <1>12, <1>a, <1>b, <2>1, Zenon DEF PowerLoss, RamLost, TypeOK
<1>13. CASE Format
  BY <1>13, <1>c DEF Format, ram, TypeOK
<1>14. CASE UNCHANGED vars
  BY <1>14 DEF vars, ram, TypeOK
<1>15. QED
  BY <1>1, <1>2, <1>3, <1>4, <1>5, <1>6, <1>7, <1>8, <1>9, <1>10, <1>11, <1>12, <1>13, <1>14
     DEF Next

LEMMA InitType == Init => TypeOK
<1>1. <<0, 0>> \in Page
  BY PageParts DEF Block, Entry
<1>2. /\ Cursor(0, 0) \in [bix : Block, entry : 0 .. E]
        /\ NoMove \in [stage : {"none", "copied", "marked"}, src : Page, dst : Page]
  BY <1>1 DEF Cursor, NoMove, Block
<1>3. /\ [b \in Block |-> [e \in Entry |-> FREE]] \in [Block -> [Entry -> Ids \cup {FREE, DELETED}]]
        /\ 0 \in Int
  OBVIOUS
<1>4. QED
  BY <1>2, <1>3, Zenon DEF Init, TypeOK

(* Every variable keeps its type: block and entry indices stay in range.   *)
THEOREM TypeCorrect == Spec => []TypeOK
BY InitType, TypeInductive, PTL DEF Spec

-----------------------------------------------------------------------------
(* What the writes do to the set of free pages.                            *)

LUType == [Block -> [Entry -> Ids \cup {FREE, DELETED}]]

LEMMA FreeAfterErase ==
  ASSUME NEW l \in LUType, NEW S \in SUBSET Block
  PROVE  FreePages(Erased(l, S)) = FreePages(l) \cup (S \X Entry)
<1>1. ASSUME NEW p \in Page
      PROVE  p \in FreePages(Erased(l, S)) <=> p \in FreePages(l) \/ p \in S \X Entry
  <2>1. p[1] \in Block /\ p[2] \in Entry /\ (p \in S \X Entry <=> p[1] \in S)
    BY DEF Page
  <2>2. Erased(l, S)[p[1]][p[2]] = IF p[1] \in S THEN FREE ELSE l[p[1]][p[2]]
    BY <2>1 DEF Erased
  <2>3. QED
    BY <2>1, <2>2 DEF FreePages
<1>2. S \X Entry \in SUBSET Page
  BY DEF Page
<1>3. QED
  BY <1>1, <1>2 DEF FreePages

LEMMA FreeAfterMark ==
  ASSUME NEW l \in LUType, NEW p \in Page, NEW x \in Ids \cup {DELETED}
  PROVE  FreePages(Marked(l, p, x)) = FreePages(l) \ {p}
<1>1. x # FREE
  OBVIOUS
<1>2. ASSUME NEW q \in Page
      PROVE  q \in FreePages(Marked(l, p, x)) <=> q \in FreePages(l) /\ q # p
  <2>1. /\ p[1] \in Block /\ p[2] \in Entry /\ q[1] \in Block /\ q[2] \in Entry
        /\ q = p <=> q[1] = p[1] /\ q[2] = p[2]
    BY PageParts
  <2>2. Marked(l, p, x)[q[1]][q[2]] = IF q = p THEN x ELSE l[q[1]][q[2]]
    BY <2>1 DEF Marked, LUType
  <2>3. QED
    BY <1>1, <2>2 DEF FreePages
<1>3. QED
  BY <1>2 DEF FreePages

LEMMA UsedAfterMark ==
  ASSUME NEW l \in LUType, NEW p \in Page, NEW x \in Ids \cup {DELETED, FREE}
  PROVE  UsedPages(Marked(l, p, x)) = IF x \in Ids THEN UsedPages(l) \cup {p} ELSE UsedPages(l) \ {p}
<1>1. ASSUME NEW q \in Page
      PROVE  q \in UsedPages(Marked(l, p, x)) <=>
               IF q = p THEN x \in Ids ELSE q \in UsedPages(l)
  <2>1. /\ p[1] \in Block /\ p[2] \in Entry /\ q[1] \in Block /\ q[2] \in Entry
        /\ q = p <=> q[1] = p[1] /\ q[2] = p[2]
    BY PageParts
  <2>2. Marked(l, p, x)[q[1]][q[2]] = IF q = p THEN x ELSE l[q[1]][q[2]]
    BY <2>1 DEF Marked, LUType
  <2>3. QED
    BY <2>2 DEF UsedPages
<1>2. QED
  BY <1>1 DEF UsedPages

LEMMA FreeUsedDisjoint ==
  ASSUME NEW l \in LUType
  PROVE  /\ FreePages(l) \cap UsedPages(l) = {} /\ FreePages(l) \cap DeletedPages(l) = {}
         /\ UsedPages(l) \cap DeletedPages(l) = {}
         /\ FreePages(l) \in SUBSET Page /\ UsedPages(l) \in SUBSET Page
         /\ DeletedPages(l) \in SUBSET Page
BY DEF FreePages, UsedPages, DeletedPages

LEMMA FreeAfterDelete ==
  ASSUME NEW l \in LUType, NEW p \in Page, p \in UsedPages(l)
  PROVE  FreePages(Marked(l, p, DELETED)) = FreePages(l)
<1>1. FreePages(Marked(l, p, DELETED)) = FreePages(l) \ {p}
  BY FreeAfterMark
<1>2. p \notin FreePages(l)
  BY FreeUsedDisjoint
<1>3. QED
  BY <1>1, <1>2

(* A victim of spiffs_gc_quick(0) has no free page at all.                 *)
LEMMA VictimNotFree ==
  ASSUME NEW b \in QuickVictims(0), NEW e \in Entry
  PROVE  b \in Block /\ lu[b][e] # FREE /\ lu[b][e] \notin Ids
<1> DEFINE S == {f \in Entry : lu[b][f] = FREE}
<1>1. b \in Block /\ QuickVictim(0, b)
  BY DEF QuickVictims
<1>2. IsFiniteSet(S)
  <2>1. IsFiniteSet(Entry)
    BY FS_Interval DEF Entry
  <2>2. QED
    BY <2>1, FS_Subset
<1>3. Cardinality(S) \in Nat /\ Cardinality(S) <= 0
  BY <1>1, <1>2, FS_CardinalityType DEF QuickVictim
<1>4. Cardinality(S) = 0
  BY <1>3
<1>5. S = {}
  BY <1>2, <1>4, FS_EmptySet
<1>6. QED
  BY <1>1, <1>5 DEF QuickVictim

LEMMA AddFullBlocks ==
  ASSUME NEW F \in SUBSET Page, NEW S \in SUBSET Block, Suffix(F),
         \A b \in S, e \in Entry : <<b, e>> \notin F,
         NEW c \in CursorSet, CursorOK(F, c)
  PROVE  Suffix(F \cup (S \X Entry)) /\ CursorOK(F \cup (S \X Entry), c)
<1>1. CASE c.bix \notin S
  BY <1>1, AddBlocks
<1>2. CASE c.bix \in S
  <2>1. ~(0 < c.entry /\ c.entry < E)
    <3> SUFFICES ASSUME 0 < c.entry, c.entry < E PROVE FALSE
      OBVIOUS
    <3>1. <<c.bix, c.entry>> \in F /\ c.entry \in Entry
      BY DEF CursorOK, CursorSet, Entry
    <3>2. QED
      BY <1>2, <3>1
  <2>2. QED
    BY <2>1, AddBlocks DEF CursorOK
<1>3. QED
  BY <1>1, <1>2

-----------------------------------------------------------------------------
(* find_free, with the spiffs_gc_quick(0) it may run first.                *)

LEMMA QuickKeepsOrder ==
  ASSUME TypeOK, moving = NoMove, Suffix(FreePages(lu)), CursorOK(FreePages(lu), free_cursor)
  PROVE  /\ QuickLu \in LUType
         /\ QuickErased \in SUBSET Block
         /\ FreePages(QuickLu) \in SUBSET Page
         /\ Suffix(FreePages(QuickLu))
         /\ CursorOK(FreePages(QuickLu), free_cursor)
<1>1. QuickErased \in SUBSET Block
  BY DEF QuickErased, QuickVictims
<1>2. ASSUME NEW b \in QuickErased, NEW e \in Entry PROVE <<b, e>> \notin FreePages(lu)
  <2>1. b \in QuickVictims(0)
    BY DEF QuickErased
  <2>2. lu[b][e] # FREE
    BY <2>1, VictimNotFree
  <2>3. QED
    BY <2>2 DEF FreePages
<1>3. lu \in LUType /\ QuickLu \in LUType
  BY LookupType DEF QuickLu, LUType, TypeOK
<1>4. FreePages(QuickLu) = FreePages(lu) \cup (QuickErased \X Entry)
  BY <1>1, <1>3, FreeAfterErase DEF QuickLu
<1>5. free_cursor \in CursorSet /\ FreePages(lu) \in SUBSET Page
  BY <1>3, FreeUsedDisjoint DEF TypeOK, CursorSet
<1>6. /\ Suffix(FreePages(lu) \cup (QuickErased \X Entry))
      /\ CursorOK(FreePages(lu) \cup (QuickErased \X Entry), free_cursor)
  BY <1>1, <1>2, <1>5, AddFullBlocks
<1>7. FreePages(QuickLu) \in SUBSET Page
  BY <1>3, FreeUsedDisjoint
<1>8. QED
  BY <1>1, <1>3, <1>4, <1>6, <1>7

LEMMA FindFreeKeepsOrder ==
  ASSUME TypeOK, moving = NoMove, Suffix(FreePages(lu)), CursorOK(FreePages(lu), free_cursor),
         NEW p \in Page, FindFree(p)
  PROVE  /\ p \in FreePages(QuickLu)
         /\ Suffix(FreePages(QuickLu) \ {p})
         /\ CursorOK(FreePages(QuickLu) \ {p}, free_cursor')
         /\ \A f \in Entry : f > p[2] => <<p[1], f>> \in FreePages(QuickLu) \ {p}
<1> DEFINE F == FreePages(QuickLu)
<1>1. /\ F \in SUBSET Page /\ Suffix(F) /\ CursorOK(F, free_cursor)
      /\ free_cursor \in CursorSet
  BY QuickKeepsOrder DEF TypeOK, CursorSet
<1>2. /\ p \in F /\ \A q \in F : ~VisitedBefore(ScanStart(free_cursor), q, p)
      /\ free_cursor' = Cursor(p[1], p[2] + 1)
  BY DEF FindFree, FirstFree
<1>3. \A e \in Entry : e < p[2] => <<p[1], e>> \notin F
  BY <1>1, <1>2, FirstVisitedIsFirstInBlock
<1>4. QED
  <2>1. /\ Suffix(F \ {p}) /\ CursorOK(F \ {p}, Cursor(p[1], p[2] + 1))
        /\ \A f \in Entry : f > p[2] => <<p[1], f>> \in F \ {p}
    BY <1>1, <1>2, <1>3, TakeFirst
  <2>2. QED
    BY <1>2, <2>1

-----------------------------------------------------------------------------
(* The lookup has no holes.                                                *)

LEMMA NoMoveAvail == moving = NoMove => Avail = FreePages(lu) /\ moving.stage = "none"
BY DEF NoMove, Avail, Reserved

(* Order in the form the steps need it, once no move is in progress.       *)
LEMMA OrderWithoutMove ==
  ASSUME moving = NoMove
  PROVE  Order <=> Suffix(FreePages(lu)) /\ CursorOK(FreePages(lu), free_cursor)
BY NoMoveAvail DEF Order

LEMMA MoveInvInductive == TypeOK /\ MoveInv /\ UnmountedInv /\ [Next]_vars => MoveInv' /\ UnmountedInv'
<1> SUFFICES ASSUME TypeOK, MoveInv, UnmountedInv, [Next]_vars
             PROVE  MoveInv' /\ UnmountedInv'
  OBVIOUS
<1>a. lu \in LUType /\ moving.src \in Page /\ moving.dst \in Page
  BY DEF TypeOK, LUType
<1>b. moving = NoMove /\ moving' = moving => MoveInv'
  BY NoMoveAvail DEF MoveInv
<1>c. moving' = NoMove => MoveInv'
  BY DEF MoveInv, NoMove
<1>d. \A stage, src, dst : /\ Moving(stage, src, dst).stage = stage
                           /\ Moving(stage, src, dst).src = src
                           /\ Moving(stage, src, dst).dst = dst
  BY DEF Moving
<1>1. ASSUME NEW id \in Ids, Allocate(id) PROVE MoveInv' /\ UnmountedInv'
  BY <1>1, <1>b DEF Allocate, Idle, UnmountedInv
<1>2. CASE FindFreeFull
  BY <1>2, <1>b DEF FindFreeFull, Idle, UnmountedInv
<1>3. ASSUME NEW src \in Page, MoveCopy(src) PROVE MoveInv' /\ UnmountedInv'
  <2>1. PICK p \in Page : FindFree(p) /\ moving' = Moving("copied", src, p)
    BY <1>3 DEF MoveCopy
  <2>2. p \in FreePages(lu')
    BY <1>3, <2>1 DEF MoveCopy, FindFree, FirstFree
  <2>3. src \in UsedPages(lu')
    <3>1. src[1] \in Block /\ src[2] \in Entry /\ lu[src[1]][src[2]] \in Ids
      BY <1>3, PageParts DEF MoveCopy, UsedPages
    <3>2. src[1] \notin QuickErased
      BY <3>1, VictimNotFree DEF QuickErased
    <3>3. lu'[src[1]][src[2]] = lu[src[1]][src[2]]
      BY <1>3, <3>1, <3>2 DEF MoveCopy, QuickLu, Erased
    <3>4. QED
      BY <3>1, <3>3 DEF UsedPages
  <2>4. MoveInv'
    BY <2>1, <2>2, <2>3, <1>d DEF MoveInv
  <2>5. QED
    BY <1>3, <2>4 DEF MoveCopy, UnmountedInv
<1>4. CASE MoveMark
  <2>1. moving.src \in UsedPages(lu) /\ moving.dst \in FreePages(lu)
    BY <1>4 DEF MoveMark, MoveInv
  <2>2. lu[moving.src[1]][moving.src[2]] \in Ids
    BY <2>1 DEF UsedPages
  <2>3. UsedPages(lu') = UsedPages(lu) \cup {moving.dst}
    BY <1>4, <1>a, <2>2, UsedAfterMark DEF MoveMark
  <2>4. MoveInv'
    BY <1>4, <2>1, <2>3, <1>d DEF MoveMark, MoveInv
  <2>5. QED
    BY <1>4, <2>4 DEF MoveMark, UnmountedInv
<1>5. CASE MoveDrop
  BY <1>5, <1>c DEF MoveDrop, PageDelete, UnmountedInv
<1>6. ASSUME NEW p \in Page, Delete(p) PROVE MoveInv' /\ UnmountedInv'
  BY <1>6, <1>b DEF Delete, PageDelete, UnmountedInv
<1>7. ASSUME NEW max \in QuickArgs, GcQuick(max) PROVE MoveInv' /\ UnmountedInv'
  BY <1>7, <1>b DEF GcQuick, Idle, UnmountedInv
<1>8. ASSUME NEW b \in Block, GcStart(b) PROVE MoveInv' /\ UnmountedInv'
  BY <1>8, <1>b DEF GcStart, Idle, UnmountedInv
<1>9. CASE GcErase
  BY <1>9, <1>b DEF GcErase, EraseCleaned, UnmountedInv
<1>10. CASE GcFail
  BY <1>10, <1>b DEF GcFail, UnmountedInv
<1>11. CASE Mount
  BY <1>11, <1>b DEF Mount, UnmountedInv
<1>12. CASE PowerLoss
  BY <1>12, <1>c DEF PowerLoss, RamLost, UnmountedInv
<1>13. CASE Format
  BY <1>13, <1>b DEF Format, ram, UnmountedInv
<1>14. CASE UNCHANGED vars
  BY <1>14 DEF vars, ram, UnmountedInv, MoveInv
<1>15. QED
  BY <1>1, <1>2, <1>3, <1>4, <1>5, <1>6, <1>7, <1>8, <1>9, <1>10, <1>11, <1>12, <1>13, <1>14
     DEF Next

(* Every step keeps the order, if the collector does not erase the block   *)
(* the cursor stands in.                                                   *)
LEMMA OrderInductive ==
  ASSUME QuickArgs = {0}, TypeOK, MoveInv, UnmountedInv, Order, [Next]_vars,
         GcErase => free_cursor.bix # cleaning
  PROVE  Order'
<1>a. /\ lu \in LUType /\ free_cursor \in CursorSet
      /\ FreePages(lu) \in SUBSET Page /\ Avail \in SUBSET Page
  BY FreeUsedDisjoint DEF TypeOK, LUType, CursorSet, Avail
<1>b. moving' = NoMove => Avail' = FreePages(lu') /\ moving'.stage = "none"
  BY DEF NoMove, Avail, Reserved
<1>c. ASSUME moving' = NoMove, Suffix(FreePages(lu')), CursorOK(FreePages(lu'), free_cursor')
      PROVE  Order'
  BY <1>b, <1>c DEF Order
<1>d. ASSUME moving = NoMove
      PROVE  Suffix(FreePages(lu)) /\ CursorOK(FreePages(lu), free_cursor)
  BY <1>d, OrderWithoutMove
<1>e. \A stage, src, dst : /\ Moving(stage, src, dst).stage = stage
                           /\ Moving(stage, src, dst).src = src
                           /\ Moving(stage, src, dst).dst = dst
  BY DEF Moving
<1>1. ASSUME NEW id \in Ids, Allocate(id) PROVE Order'
  <2>1. moving = NoMove /\ moving' = NoMove
    BY <1>1 DEF Allocate, Idle
  <2>2. PICK p \in Page : FindFree(p) /\ lu' = Marked(QuickLu, p, id)
    BY <1>1 DEF Allocate
  <2>3. FreePages(lu') = FreePages(QuickLu) \ {p}
    BY <2>1, <2>2, <1>d, QuickKeepsOrder, FreeAfterMark
  <2>4. Suffix(FreePages(lu')) /\ CursorOK(FreePages(lu'), free_cursor')
    BY <2>1, <2>2, <2>3, <1>d, FindFreeKeepsOrder
  <2>5. QED
    BY <2>1, <2>4, <1>c
<1>2. CASE FindFreeFull
  <2>1. moving = NoMove /\ moving' = NoMove /\ lu' = QuickLu
        /\ free_cursor' = free_cursor
    BY <1>2 DEF FindFreeFull, Idle, QuickRuns
  <2>2. QED
    BY <2>1, <1>c, <1>d, QuickKeepsOrder
<1>3. ASSUME NEW src \in Page, MoveCopy(src) PROVE Order'
  <2>1. PICK p \in Page : /\ FindFree(p)
                          /\ moving' = Moving("copied", src, p)
                          /\ wrapped' = (wrapped \/ p[1] = cleaning)
    BY <1>3 DEF MoveCopy
  <2>2. moving = NoMove  /\ lu' = QuickLu
    BY <1>3, <2>1 DEF MoveCopy
  <2>3. Avail' = FreePages(QuickLu) \ {p}
    BY <2>1, <2>2, <1>e DEF Avail, Reserved
  <2>4. /\ Suffix(Avail') /\ CursorOK(Avail', free_cursor')
        /\ \A f \in Entry : f > p[2] => <<p[1], f>> \in Avail'
    BY <2>1, <2>2, <2>3, <1>d, FindFreeKeepsOrder
  <2>5. QED
    BY <2>1, <2>4, <1>e DEF Order
<1>4. CASE MoveMark
  <2>1. /\ moving.stage = "copied" /\ moving'.stage = "marked"
        /\ free_cursor' = free_cursor
        /\ lu' = Marked(lu, moving.dst, lu[moving.src[1]][moving.src[2]])
    BY <1>4, <1>e DEF MoveMark
  <2>2. moving.src \in UsedPages(lu) /\ moving.dst \in Page
    BY <2>1 DEF MoveInv, TypeOK
  <2>3. lu[moving.src[1]][moving.src[2]] \in Ids
    BY <2>2 DEF UsedPages
  <2>4. FreePages(lu') = FreePages(lu) \ {moving.dst}
    BY <1>a, <2>1, <2>2, <2>3, FreeAfterMark
  <2>5. Avail' = Avail
    BY <2>1, <2>4 DEF Avail, Reserved
  <2>6. QED
    BY <2>1, <2>5 DEF Order
<1>5. CASE MoveDrop
  <2>1. /\ moving.stage = "marked" /\ moving' = NoMove
        /\ free_cursor' = free_cursor
        /\ lu' = Marked(lu, moving.src, DELETED) /\ moving.src \in Page
    BY <1>5 DEF MoveDrop, PageDelete, TypeOK
  <2>2. moving.src \in UsedPages(lu)
    BY <2>1 DEF MoveInv
  <2>3. FreePages(lu') = FreePages(lu)
    BY <1>a, <2>1, <2>2, FreeAfterDelete
  <2>4. Avail = FreePages(lu)
    BY <2>1 DEF Avail, Reserved
  <2>5. QED
    BY <2>1, <2>3, <2>4, <1>c DEF Order
<1>6. ASSUME NEW p \in Page, Delete(p) PROVE Order'
  <2>1. /\ moving = NoMove /\ moving' = NoMove
        /\ free_cursor' = free_cursor
        /\ lu' = Marked(lu, p, DELETED) /\ p \in UsedPages(lu)
    BY <1>6 DEF Delete, PageDelete
  <2>2. FreePages(lu') = FreePages(lu)
    BY <1>a, <2>1, FreeAfterDelete
  <2>3. QED
    BY <2>1, <2>2, <1>c, <1>d
<1>7. ASSUME NEW max \in QuickArgs, GcQuick(max) PROVE Order'
  <2>1. /\ moving = NoMove /\ moving' = NoMove
        /\ free_cursor' = free_cursor
    BY <1>7 DEF GcQuick, Idle
  <2>2. PICK b \in QuickVictims(0) : lu' = Erased(lu, {b})
    BY <1>7 DEF GcQuick
  <2>3. {b} \in SUBSET Block /\ \A e \in Entry : <<b, e>> \notin FreePages(lu)
    <3>1. \A e \in Entry : b \in Block /\ lu[b][e] # FREE
      BY <2>2, VictimNotFree
    <3>2. 0 \in Entry
      BY GeometryAssumption DEF Entry
    <3>3. QED
      BY <3>1, <3>2 DEF FreePages
  <2>4. FreePages(lu') = FreePages(lu) \cup ({b} \X Entry)
    BY <1>a, <2>2, <2>3, FreeAfterErase
  <2>5. Suffix(FreePages(lu')) /\ CursorOK(FreePages(lu'), free_cursor')
    BY <1>a, <1>d, <2>1, <2>3, <2>4, AddFullBlocks
  <2>6. QED
    BY <2>1, <2>5, <1>c
<1>8. ASSUME NEW b \in Block, GcStart(b) PROVE Order'
  <2>1. /\ moving = NoMove /\ moving' = NoMove /\ lu' = lu
        /\ free_cursor' = IF free_cursor.bix = b THEN Cursor((b + 1) % B, 0) ELSE free_cursor
    BY <1>8 DEF GcStart, Idle
  <2>2. (b + 1) % B # b
    BY DEF Block
  <2>3. free_cursor'.bix # b /\ CursorOK(FreePages(lu), free_cursor')
    BY <1>d, <2>1, <2>2 DEF Cursor, CursorOK
  <2>4. QED
    BY <2>1, <2>3, <1>c, <1>d
<1>9. CASE GcErase
  <2>1. /\ moving = NoMove /\ moving' = NoMove
        /\ cleaning # NoBlock /\ lu' = Erased(lu, {cleaning}) /\ free_cursor' = free_cursor
    BY <1>9 DEF GcErase, EraseCleaned
  <2>2. {cleaning} \in SUBSET Block
    BY <2>1 DEF TypeOK
  <2>3. FreePages(lu') = FreePages(lu) \cup ({cleaning} \X Entry)
    BY <1>a, <2>1, <2>2, FreeAfterErase
  <2>4. Suffix(FreePages(lu')) /\ CursorOK(FreePages(lu'), free_cursor')
    BY <1>9, <1>a, <1>d, <2>1, <2>2, <2>3, AddBlocks
  <2>5. QED
    BY <2>1, <2>4, <1>c
<1>10. CASE GcFail
  BY <1>10, <1>c, <1>d DEF GcFail, ram
<1>11. CASE Mount
  <2>1. /\ moving = NoMove /\ moving' = NoMove /\ lu' = lu
        /\ free_cursor' = Cursor(0, 0)
    BY <1>11 DEF Mount, UnmountedInv
  <2>2. CursorOK(FreePages(lu), free_cursor')
    BY <2>1 DEF CursorOK, Cursor
  <2>3. QED
    BY <2>1, <2>2, <1>c, <1>d
<1>12. CASE PowerLoss
  <2>1. /\ moving' = NoMove /\ lu' = lu
        /\ free_cursor' = Cursor(0, 0)
    BY <1>12 DEF PowerLoss, RamLost
  <2>2. CursorOK(FreePages(lu), free_cursor')
    BY <2>1 DEF CursorOK, Cursor
  <2>3. Suffix(FreePages(lu))
    <3>1. SUFFICES ASSUME NEW b \in Block, NEW e \in Entry, NEW f \in Entry, e <= f,
                          <<b, e>> \in FreePages(lu)
                   PROVE  <<b, f>> \in FreePages(lu)
      BY DEF Suffix
    <3>2. CASE <<b, e>> \in Avail
      BY <2>1, <3>1, <3>2 DEF Order, Suffix, Avail
    <3>3. CASE <<b, e>> \notin Avail
      <4>1. moving.stage = "copied" /\ moving.dst = <<b, e>>
        BY <3>1, <3>3 DEF Avail, Reserved
      <4>2. CASE e = f
        BY <3>1, <4>2
      <4>3. CASE e # f
        <5>1. f > e
          BY <3>1, <4>3 DEF Entry
        <5>2. <<b, f>> \in Avail
          BY <2>1, <4>1, <5>1 DEF Order
        <5>3. QED
          BY <5>2 DEF Avail
      <4>4. QED
        BY <4>2, <4>3
    <3>4. QED
      BY <3>2, <3>3
  <2>4. QED
    BY <2>1, <2>2, <2>3, <1>c
<1>13. CASE Format
  <2>1. /\ moving = NoMove /\ moving' = NoMove
        /\ lu' = Erased(lu, Block) /\ free_cursor' = Cursor(0, 0)
    BY <1>13 DEF Format, ram, UnmountedInv
  <2>2. FreePages(lu') = FreePages(lu) \cup (Block \X Entry)
    BY <1>a, <2>1, FreeAfterErase
  <2>3. Suffix(FreePages(lu'))
    BY <2>2 DEF Suffix
  <2>4. CursorOK(FreePages(lu'), free_cursor')
    BY <2>1 DEF CursorOK, Cursor
  <2>5. QED
    BY <2>1, <2>3, <2>4, <1>c
<1>14. CASE UNCHANGED vars
  BY <1>14 DEF vars, ram, Order, Avail, Reserved
<1>15. QED
  BY <1>1, <1>2, <1>3, <1>4, <1>5, <1>6, <1>7, <1>8, <1>9, <1>10, <1>11, <1>12, <1>13, <1>14
     DEF Next

(* The collection moves the cursor out of its block, and only a page moved *)
(* there can bring it back.                                                *)
LEMMA CursorInvInductive ==
  ASSUME QuickArgs = {0}
  PROVE  IInv /\ [Next]_vars => CursorInv'
<1> SUFFICES ASSUME IInv, [Next]_vars, ~wrapped' PROVE CursorInv'
  BY DEF CursorInv
<1>1. ~wrapped
  BY DEF Next, IInv, TypeOK, Allocate, FindFreeFull, MoveCopy, MoveMark, MoveDrop, Delete, PageDelete,
         GcQuick, GcStart, GcErase, EraseCleaned, GcFail, Mount, PowerLoss, Format, vars
<1>2. Order /\ (cleaning # NoBlock => free_cursor.bix # cleaning)
  BY <1>1 DEF IInv, CursorInv
<1>3. Order'
  BY <1>2, OrderInductive DEF IInv, GcErase, EraseCleaned
<1>4. ASSUME cleaning' # NoBlock PROVE free_cursor'.bix # cleaning'
  <2>1. ASSUME NEW src \in Page, MoveCopy(src) PROVE free_cursor'.bix # cleaning'
    <3>1. PICK p \in Page : FindFree(p) /\ (wrapped' <=> (wrapped \/ p[1] = cleaning))
      BY <2>1 DEF MoveCopy
    <3>2. p[1] # cleaning /\ cleaning' = cleaning
      BY <2>1, <3>1 DEF MoveCopy
    <3>3. free_cursor'.bix = p[1]
      BY <3>1 DEF FindFree, Cursor
    <3>4. QED
      BY <3>2, <3>3
  <2>2. ASSUME NEW b \in Block, GcStart(b) PROVE free_cursor'.bix # cleaning'
    <3>1. (b + 1) % B # b
      BY DEF Block
    <3>2. QED
      BY <2>2, <3>1 DEF GcStart, Cursor
  <2>3. CASE cleaning' = cleaning /\ free_cursor' = free_cursor
    BY <1>2, <1>4, <2>3
  <2>4. QED
    BY <1>4, <2>1, <2>2, <2>3
       DEF Next, Idle, Allocate, FindFreeFull, MoveMark, MoveDrop, Delete, PageDelete,
           GcQuick, GcErase, EraseCleaned, GcFail, Mount, PowerLoss, RamLost, Format, vars, ram,
           IInv, UnmountedInv
<1>5. QED
  BY <1>3, <1>4 DEF CursorInv

LEMMA InitInvariant == Init => IInv
<1> SUFFICES ASSUME Init PROVE IInv
  OBVIOUS
<1>1. TypeOK
  BY InitType
<1>2. MoveInv /\ UnmountedInv
  BY DEF Init, MoveInv, UnmountedInv, NoMove
<1>3. CursorInv
  <2>1. moving = NoMove /\ free_cursor = Cursor(0, 0) /\ cleaning = NoBlock
    BY DEF Init
  <2>2. \A b \in Block, e \in Entry : <<b, e>> \in FreePages(lu)
    BY PageParts DEF Init, FreePages
  <2>3. QED
    BY <2>1, <2>2, OrderWithoutMove DEF CursorInv, Suffix, CursorOK, Cursor
<1>4. QED
  BY <1>1, <1>2, <1>3 DEF IInv

LEMMA OrderGivesSuffix ==
  ASSUME Order
  PROVE  FreeSuffix
<1> SUFFICES ASSUME NEW b \in Block, NEW e \in Entry, NEW f \in Entry,
                    e <= f, lu[b][e] = FREE
             PROVE  lu[b][f] = FREE
  BY DEF FreeSuffix
<1>1. <<b, e>> \in FreePages(lu)
  BY PageParts DEF FreePages
<1>2. CASE <<b, e>> \in Avail
  <2>1. <<b, f>> \in FreePages(lu)
    BY <1>2 DEF Order, Suffix, Avail
  <2>2. QED
    BY <2>1 DEF FreePages
<1>3. CASE <<b, e>> \notin Avail
  <2>1. moving.stage = "copied" /\ moving.dst = <<b, e>>
    BY <1>1, <1>3 DEF Avail, Reserved
  <2>2. CASE e # f
    <3>1. f > e
      BY <2>2 DEF Entry
    <3>2. <<b, f>> \in FreePages(lu)
      BY <2>1, <3>1 DEF Order, Avail
    <3>3. QED
      BY <3>2 DEF FreePages
  <2>3. QED
    BY <2>2
<1>4. QED
  BY <1>2, <1>3

(* As long as the user only runs SPIFFS_gc_quick(0) and no collection had  *)
(* to move a page into the block it was cleaning, the free pages of every  *)
(* block are its last ones, as spiffs_gc_find_candidate relies on.         *)
THEOREM NoHolesCorrect ==
  ASSUME QuickArgs = {0}
  PROVE  Spec => []NoHoles
<1>1. IInv /\ [Next]_vars => IInv'
  BY TypeInductive, MoveInvInductive, CursorInvInductive DEF IInv
<1>2. IInv => NoHoles
  BY OrderGivesSuffix DEF IInv, NoHoles, CursorInv
<1>3. QED
  BY <1>1, <1>2, InitInvariant, PTL DEF Spec

-----------------------------------------------------------------------------
(* What the writes do to the sets that are counted.                        *)

LEMMA ErasedEntry ==
  ASSUME NEW l \in LUType, NEW S \in SUBSET Block, NEW p \in Page
  PROVE  Erased(l, S)[p[1]][p[2]] = IF p[1] \in S THEN FREE ELSE l[p[1]][p[2]]
BY PageParts DEF Erased

(* An erase takes the used and deleted pages of its blocks away.           *)
LEMMA EraseCounts ==
  ASSUME lu \in LUType, NEW S \in SUBSET Block
  PROVE  /\ Cardinality(UsedPages(Erased(lu, S))) = Cardinality(UsedPages(lu)) - AllocatedIn(S)
         /\ Cardinality(DeletedPages(Erased(lu, S))) = Cardinality(DeletedPages(lu)) - DeletedIn(S)
<1> DEFINE U == {p \in UsedPages(lu) : p[1] \in S}
           D == {p \in DeletedPages(lu) : p[1] \in S}
<1>1. UsedPages(Erased(lu, S)) = UsedPages(lu) \ U
  BY ErasedEntry DEF UsedPages
<1>2. DeletedPages(Erased(lu, S)) = DeletedPages(lu) \ D
  BY ErasedEntry DEF DeletedPages
<1>3. UsedPages(lu) \cap U = U /\ DeletedPages(lu) \cap D = D
  OBVIOUS
<1>4. IsFiniteSet(UsedPages(lu)) /\ IsFiniteSet(DeletedPages(lu))
  BY PageFinite DEF UsedPages, DeletedPages
<1>5. Cardinality(UsedPages(lu) \ U) = Cardinality(UsedPages(lu)) - Cardinality(U)
  BY <1>3, <1>4, FS_Difference
<1>6. Cardinality(DeletedPages(lu) \ D) = Cardinality(DeletedPages(lu)) - Cardinality(D)
  BY <1>3, <1>4, FS_Difference
<1>7. QED
  BY <1>1, <1>2, <1>5, <1>6 DEF AllocatedIn, DeletedIn

LEMMA FreeBlocksAfterErase ==
  ASSUME NEW l \in LUType, NEW S \in SUBSET Block
  PROVE  FreeBlocks(Erased(l, S)) = FreeBlocks(l) \cup S
<1>1. 0 \in Entry
  BY DEF Entry
<1>2. QED
  BY <1>1 DEF FreeBlocks, Erased

LEMMA MarkedEntry ==
  ASSUME NEW l \in LUType, NEW p \in Page, NEW x, NEW b \in Block, NEW e \in Entry
  PROVE  Marked(l, p, x)[b][e] = IF p = <<b, e>> THEN x ELSE l[b][e]
<1>1. p[1] \in Block /\ p[2] \in Entry /\ (p = <<b, e>> <=> p[1] = b /\ p[2] = e)
  BY PageParts
<1>2. QED
  BY <1>1 DEF Marked, LUType

LEMMA DeletedAfterMark ==
  ASSUME NEW l \in LUType, NEW p \in Page, NEW x \in Ids \cup {DELETED}
  PROVE  DeletedPages(Marked(l, p, x)) =
           IF x = DELETED THEN DeletedPages(l) \cup {p} ELSE DeletedPages(l) \ {p}
<1>1. ASSUME NEW q \in Page
      PROVE  Marked(l, p, x)[q[1]][q[2]] = IF q = p THEN x ELSE l[q[1]][q[2]]
  BY MarkedEntry, PageParts
<1>2. QED
  BY <1>1 DEF DeletedPages

LEMMA FreeBlocksAfterMark ==
  ASSUME NEW l \in LUType, NEW p \in Page, NEW x \in Ids \cup {DELETED}
  PROVE  FreeBlocks(Marked(l, p, x)) = {b \in FreeBlocks(l) : p # <<b, 0>>}
<1>1. 0 \in Entry /\ x # FREE
  BY DEF Entry
<1>2. QED
  BY <1>1, MarkedEntry DEF FreeBlocks

(* No page in use is in the block SPIFFS_gc_quick erases, and that is one. *)
LEMMA Victims ==
  ASSUME NEW max
  PROVE  /\ QuickVictims(max) \in SUBSET Block
         /\ \A b, c \in QuickVictims(max) : b = c
         /\ \A S \in SUBSET QuickVictims(max) : AllocatedIn(S) = 0
<1>1. QuickVictims(max) \in SUBSET Block
  BY DEF QuickVictims
<1>2. ASSUME NEW b \in QuickVictims(max), NEW c \in QuickVictims(max) PROVE b = c
  <2>1. b <= c /\ c <= b /\ b \in Block /\ c \in Block
    BY DEF QuickVictims
  <2>2. QED
    BY <2>1 DEF Block
<1>3. ASSUME NEW S \in SUBSET QuickVictims(max) PROVE AllocatedIn(S) = 0
  <2>1. ASSUME NEW p \in Page, p[1] \in S PROVE lu[p[1]][p[2]] \notin Ids
    <3>1. QuickVictim(max, p[1]) /\ p[2] \in Entry
      BY <2>1, PageParts DEF QuickVictims
    <3>2. QED
      BY <3>1 DEF QuickVictim
  <2>2. {p \in UsedPages(lu) : p[1] \in S} = {}
    BY <2>1 DEF UsedPages
  <2>3. QED
    BY <2>2, FS_EmptySet DEF AllocatedIn
<1>4. QED
  BY <1>1, <1>2, <1>3

LEMMA QuickErasedVictims == QuickErased \in SUBSET QuickVictims(0) /\ QuickErased \in SUBSET Block
BY Victims DEF QuickErased

-----------------------------------------------------------------------------
(* The page counters.                                                      *)

(* A counted page that is marked.                                          *)
LEMMA MarkCounts ==
  ASSUME NEW l \in LUType, NEW p \in Page
  PROVE  /\ \A id \in Ids : p \in FreePages(l) =>
              /\ Cardinality(UsedPages(Marked(l, p, id))) = Cardinality(UsedPages(l)) + 1
              /\ Cardinality(DeletedPages(Marked(l, p, id))) = Cardinality(DeletedPages(l))
         /\ p \in UsedPages(l) =>
              /\ Cardinality(UsedPages(Marked(l, p, DELETED))) = Cardinality(UsedPages(l)) - 1
              /\ Cardinality(DeletedPages(Marked(l, p, DELETED))) = Cardinality(DeletedPages(l)) + 1
<1>1. IsFiniteSet(UsedPages(l)) /\ IsFiniteSet(DeletedPages(l))
  BY PageFinite DEF UsedPages, DeletedPages
<1>2. ASSUME NEW id \in Ids, p \in FreePages(l)
      PROVE  /\ Cardinality(UsedPages(Marked(l, p, id))) = Cardinality(UsedPages(l)) + 1
             /\ Cardinality(DeletedPages(Marked(l, p, id))) = Cardinality(DeletedPages(l))
  <2>1. p \notin UsedPages(l) /\ p \notin DeletedPages(l)
    BY <1>2, FreeUsedDisjoint
  <2>2. UsedPages(Marked(l, p, id)) = UsedPages(l) \cup {p}
    BY UsedAfterMark
  <2>3. DeletedPages(Marked(l, p, id)) = DeletedPages(l)
    BY <2>1, DeletedAfterMark
  <2>4. QED
    BY <1>1, <2>1, <2>2, <2>3, FS_AddElement
<1>3. ASSUME p \in UsedPages(l)
      PROVE  /\ Cardinality(UsedPages(Marked(l, p, DELETED))) = Cardinality(UsedPages(l)) - 1
             /\ Cardinality(DeletedPages(Marked(l, p, DELETED))) = Cardinality(DeletedPages(l)) + 1
  <2>1. p \notin DeletedPages(l)
    BY <1>3, FreeUsedDisjoint
  <2>2. UsedPages(Marked(l, p, DELETED)) = UsedPages(l) \ {p}
    BY UsedAfterMark
  <2>3. DeletedPages(Marked(l, p, DELETED)) = DeletedPages(l) \cup {p}
    BY DeletedAfterMark
  <2>4. QED
    BY <1>1, <1>3, <2>1, <2>2, <2>3, FS_AddElement, FS_RemoveElement
<1>4. QED
  BY <1>2, <1>3

(* spiffs_gc_quick within spiffs_obj_lu_find_free.                         *)
LEMMA QuickCounts ==
  ASSUME lu \in LUType
  PROVE  /\ QuickLu \in LUType
         /\ Cardinality(UsedPages(QuickLu)) = Cardinality(UsedPages(lu))
         /\ Cardinality(DeletedPages(QuickLu)) = Cardinality(DeletedPages(lu)) - DeletedIn(QuickErased)
<1>1. QuickLu \in LUType
  BY DEF QuickLu, Erased, LUType
<1>2. AllocatedIn(QuickErased) = 0
  BY QuickErasedVictims, Victims
<1>3. QED
  BY <1>1, <1>2, EraseCounts, QuickErasedVictims, CountsAreNat DEF QuickLu

LEMMA StatsInductive ==
  TypeOK /\ MoveInv /\ StatsExact /\ [Next]_vars => StatsExact'
<1> SUFFICES ASSUME TypeOK, MoveInv, StatsExact, [Next]_vars, mounted'
             PROVE  /\ stats_p_allocated' = Cardinality(UsedPages(lu'))
                    /\ stats_p_deleted' = Cardinality(DeletedPages(lu'))
  BY DEF StatsExact, UsedPages, DeletedPages
<1> DEFINE Goal == /\ stats_p_allocated' = Cardinality(UsedPages(lu'))
                   /\ stats_p_deleted' = Cardinality(DeletedPages(lu'))
<1>a. lu \in LUType /\ moving.src \in Page /\ moving.dst \in Page
  BY DEF TypeOK, LUType
<1>b. mounted => /\ stats_p_allocated = Cardinality(UsedPages(lu))
                 /\ stats_p_deleted = Cardinality(DeletedPages(lu))
  BY DEF StatsExact
<1>1. ASSUME NEW id \in Ids, Allocate(id) PROVE Goal
  <2>1. PICK p \in Page : FindFree(p) /\ lu' = Marked(QuickLu, p, id)
    BY <1>1 DEF Allocate
  <2>2. p \in FreePages(QuickLu)
    BY <2>1 DEF FindFree, FirstFree
  <2>3. /\ stats_p_allocated' = stats_p_allocated + 1
        /\ stats_p_deleted' = stats_p_deleted - DeletedIn(QuickErased)
        /\ mounted
    BY <1>1, <2>1 DEF Allocate, FindFree, Idle
  <2>4. QED
    BY <1>a, <1>b, <2>1, <2>2, <2>3, QuickCounts, MarkCounts
<1>2. CASE FindFreeFull
  BY <1>2, <1>a, <1>b, QuickCounts DEF FindFreeFull, QuickRuns, Idle
<1>3. ASSUME NEW src \in Page, MoveCopy(src) PROVE Goal
  BY <1>3, <1>a, <1>b, QuickCounts DEF MoveCopy, FindFree
<1>4. CASE MoveMark
  <2>1. moving.dst \in FreePages(lu) /\ lu[moving.src[1]][moving.src[2]] \in Ids
    BY <1>4 DEF MoveMark, MoveInv, UsedPages
  <2>2. QED
    BY <1>4, <1>a, <1>b, <2>1, MarkCounts DEF MoveMark
<1>5. CASE MoveDrop
  <2>1. moving.src \in UsedPages(lu)
    BY <1>5 DEF MoveDrop, MoveInv
  <2>2. QED
    BY <1>5, <1>a, <1>b, <2>1, MarkCounts DEF MoveDrop, PageDelete
<1>6. ASSUME NEW p \in Page, Delete(p) PROVE Goal
  BY <1>6, <1>a, <1>b, MarkCounts DEF Delete, PageDelete
<1>7. ASSUME NEW max \in QuickArgs, GcQuick(max) PROVE Goal
  <2>1. PICK b \in QuickVictims(max) : /\ lu' = Erased(lu, {b})
                                       /\ stats_p_deleted' = stats_p_deleted - DeletedIn({b})
    BY <1>7 DEF GcQuick
  <2>2. {b} \in SUBSET Block /\ AllocatedIn({b}) = 0
    BY Victims
  <2>3. QED
    BY <1>7, <1>a, <1>b, <2>1, <2>2, EraseCounts, CountsAreNat DEF GcQuick, Idle
<1>8. ASSUME NEW b \in Block, GcStart(b) PROVE Goal
  BY <1>8, <1>b DEF GcStart, Idle
<1>9. CASE GcErase
  <2>1. {cleaning} \in SUBSET Block
    BY <1>9 DEF GcErase, EraseCleaned, TypeOK
  <2>2. QED
    BY <1>9, <1>a, <1>b, <2>1, EraseCounts DEF GcErase, EraseCleaned
<1>10. CASE GcFail
  BY <1>10, <1>b DEF GcFail, ram
<1>11. CASE Mount
  BY <1>11 DEF Mount
<1>12. CASE PowerLoss
  BY <1>12 DEF PowerLoss, RamLost
<1>13. CASE Format
  BY <1>13 DEF Format
<1>14. CASE UNCHANGED vars
  BY <1>14, <1>b DEF vars, ram
<1>15. QED
  BY <1>1, <1>2, <1>3, <1>4, <1>5, <1>6, <1>7, <1>8, <1>9, <1>10, <1>11, <1>12, <1>13, <1>14
     DEF Next

(* The file system knows how many pages are in use and deleted, whatever   *)
(* was written, moved, collected, cut by a loss of power and mounted again *)
(* (spiffs_gc.c:115: from these numbers a write is let through).           *)
THEOREM StatsExactCorrect == Spec => []StatsExact
<1> DEFINE SInv == TypeOK /\ MoveInv /\ UnmountedInv /\ StatsExact
<1>1. Init => SInv
  BY InitInvariant DEF IInv, Init, StatsExact
<1>2. SInv /\ [Next]_vars => SInv'
  BY TypeInductive, MoveInvInductive, StatsInductive
<1>3. SInv => StatsExact
  OBVIOUS
<1>4. QED
  BY <1>1, <1>2, <1>3, PTL DEF Spec

-----------------------------------------------------------------------------
(* The count of free blocks.                                               *)

(* The blocks that are free, but for one a move has reserved.              *)
Unreserved == {b \in FreeBlocks(lu) : <<b, 0>> \notin Reserved}

LEMMA FreeBlocksFinite ==
  ASSUME NEW l
  PROVE  IsFiniteSet(FreeBlocks(l)) /\ Cardinality(FreeBlocks(l)) \in Nat
BY PageFinite DEF FreeBlocks

LEMMA NotMoving == moving = NoMove => Reserved = {} /\ Unreserved = FreeBlocks(lu)
BY DEF NoMove, Reserved, Unreserved

(* Erasing one block makes one free block more at most.                    *)
LEMMA OneMoreFree ==
  ASSUME NEW l \in LUType, NEW b \in Block
  PROVE  Cardinality(FreeBlocks(Erased(l, {b}))) <= Cardinality(FreeBlocks(l)) + 1
<1>1. FreeBlocks(Erased(l, {b})) = FreeBlocks(l) \cup {b}
  BY FreeBlocksAfterErase
<1>2. IsFiniteSet(FreeBlocks(l)) /\ Cardinality(FreeBlocks(l)) \in Nat
  BY FreeBlocksFinite
<1>3. \A n \in Nat : n <= n + 1 /\ n + 1 <= n + 1
  OBVIOUS
<1>4. CASE b \in FreeBlocks(l)
  <2>1. Cardinality(FreeBlocks(l) \cup {b}) = Cardinality(FreeBlocks(l))
    BY <1>2, <1>4, FS_AddElement
  <2>2. QED
    BY <1>1, <1>2, <1>3, <2>1
<1>5. CASE b \notin FreeBlocks(l)
  <2>1. Cardinality(FreeBlocks(l) \cup {b}) = Cardinality(FreeBlocks(l)) + 1
    BY <1>2, <1>5, FS_AddElement
  <2>2. QED
    BY <1>1, <1>2, <1>3, <2>1
<1>6. QED
  BY <1>4, <1>5

LEMMA QuickFree ==
  ASSUME lu \in LUType, free_blocks \in Int, free_blocks >= Cardinality(FreeBlocks(lu))
  PROVE  /\ QuickFreeBlocks \in Int
         /\ QuickFreeBlocks >= Cardinality(FreeBlocks(QuickLu))
<1>1. CASE QuickErased = {}
  <2>1. FreeBlocks(QuickLu) = FreeBlocks(lu)
    BY <1>1, FreeBlocksAfterErase DEF QuickLu
  <2>2. QED
    BY <1>1, <2>1 DEF QuickFreeBlocks
<1>2. CASE QuickErased # {}
  <2>1. PICK b \in Block : QuickErased = {b}
    BY <1>2, QuickErasedVictims, Victims
  <2>2. Cardinality(FreeBlocks(QuickLu)) <= Cardinality(FreeBlocks(lu)) + 1
    BY <2>1, OneMoreFree DEF QuickLu
  <2>3. QED
    BY <1>2, <2>2, FreeBlocksFinite DEF QuickFreeBlocks
<1>3. QED
  BY <1>1, <1>2

(* The page find_free hands out costs a free block only if it is the first *)
(* of one.                                                                 *)
LEMMA TakenFree ==
  ASSUME TypeOK, NEW p \in Page, FindFree(p), free_blocks >= Cardinality(FreeBlocks(lu))
  PROVE  free_blocks' >= Cardinality({b \in FreeBlocks(QuickLu) : p # <<b, 0>>})
<1> DEFINE F == FreeBlocks(QuickLu)
           G == {b \in F : p # <<b, 0>>}
<1>1. QuickFreeBlocks \in Int /\ QuickFreeBlocks >= Cardinality(F)
  BY QuickFree DEF TypeOK, LUType
<1>2. IsFiniteSet(F) /\ Cardinality(F) \in Nat
  BY FreeBlocksFinite
<1>3. p[1] \in Block /\ p = <<p[1], p[2]>>
  BY PageParts
<1>4. CASE p[2] = 0
  <2>1. p[1] \in F
    BY <1>3, <1>4 DEF FindFree, FirstFree, FreePages, FreeBlocks
  <2>2. G = F \ {p[1]}
    BY <1>3, <1>4
  <2>3. Cardinality(G) = Cardinality(F) - 1
    BY <1>2, <2>1, <2>2, FS_RemoveElement
  <2>4. QED
    BY <1>1, <1>2, <1>4, <2>3 DEF FindFree
<1>5. CASE p[2] # 0
  <2>1. G = F
    BY <1>3, <1>5
  <2>2. QED
    BY <1>1, <1>5, <2>1 DEF FindFree
<1>6. QED
  BY <1>4, <1>5

LEMMA FreeCountInductive ==
  TypeOK /\ MoveInv /\ UnmountedInv /\ FreeBlocksNotUnderCounted /\ [Next]_vars
    => FreeBlocksNotUnderCounted'
<1> SUFFICES ASSUME TypeOK, MoveInv, UnmountedInv, FreeBlocksNotUnderCounted, [Next]_vars, mounted'
             PROVE  free_blocks' >= Cardinality(Unreserved')
  BY DEF FreeBlocksNotUnderCounted, Unreserved
<1> DEFINE Goal == free_blocks' >= Cardinality(Unreserved')
<1>a. lu \in LUType /\ moving.src \in Page /\ moving.dst \in Page /\ free_blocks \in Int
  BY DEF TypeOK, LUType
<1>b. mounted => free_blocks >= Cardinality(Unreserved)
  BY DEF FreeBlocksNotUnderCounted, Unreserved
<1>c. Idle => mounted /\ free_blocks >= Cardinality(FreeBlocks(lu))
  BY <1>b, NotMoving DEF Idle
<1>d. moving' = NoMove => Unreserved' = FreeBlocks(lu')
  BY NotMoving DEF NoMove, Reserved, Unreserved
<1>1. ASSUME NEW id \in Ids, Allocate(id) PROVE Goal
  <2>1. PICK p \in Page : FindFree(p) /\ lu' = Marked(QuickLu, p, id)
    BY <1>1 DEF Allocate
  <2>2. FreeBlocks(lu') = {b \in FreeBlocks(QuickLu) : p # <<b, 0>>}
    BY <1>a, <2>1, QuickCounts, FreeBlocksAfterMark
  <2>3. moving' = NoMove /\ Idle
    BY <1>1 DEF Allocate, Idle
  <2>4. QED
    BY <1>c, <1>d, <2>1, <2>2, <2>3, TakenFree
<1>2. CASE FindFreeFull
  <2>1. Idle /\ moving' = NoMove /\ lu' = QuickLu /\ free_blocks' = QuickFreeBlocks
    BY <1>2 DEF FindFreeFull, QuickRuns, Idle
  <2>2. QED
    BY <1>a, <1>c, <1>d, <2>1, QuickFree
<1>3. ASSUME NEW src \in Page, MoveCopy(src) PROVE Goal
  <2>1. PICK p \in Page : FindFree(p) /\ moving' = Moving("copied", src, p)
    BY <1>3 DEF MoveCopy
  <2>2. lu' = QuickLu /\ mounted /\ moving = NoMove
    BY <1>3 DEF MoveCopy
  <2>3. Reserved' = {p}
    BY <2>1 DEF Reserved, Moving
  <2>4. Unreserved' = {b \in FreeBlocks(QuickLu) : p # <<b, 0>>}
    BY <2>2, <2>3 DEF Unreserved
  <2>5. free_blocks >= Cardinality(FreeBlocks(lu))
    BY <1>b, <2>2, NotMoving
  <2>6. QED
    BY <2>1, <2>4, <2>5, TakenFree
<1>4. CASE MoveMark
  <2>1. lu[moving.src[1]][moving.src[2]] \in Ids /\ Reserved = {moving.dst}
    BY <1>4 DEF MoveMark, MoveInv, UsedPages, Reserved
  <2>2. Reserved' = {}
    BY <1>4 DEF MoveMark, Reserved, Moving
  <2>3. FreeBlocks(lu') = {b \in FreeBlocks(lu) : moving.dst # <<b, 0>>}
    BY <1>4, <1>a, <2>1, FreeBlocksAfterMark DEF MoveMark
  <2>4. Unreserved' = Unreserved
    BY <2>1, <2>2, <2>3 DEF Unreserved
  <2>5. QED
    BY <1>4, <1>b, <2>4 DEF MoveMark
<1>e. ASSUME NEW p \in UsedPages(lu), PageDelete(p), mounted, moving' = NoMove,
             Reserved = {}
      PROVE  Goal
  <2>1. p \in Page /\ p \notin FreePages(lu)
    BY <1>a, FreeUsedDisjoint
  <2>2. FreeBlocks(lu') = {b \in FreeBlocks(lu) : p # <<b, 0>>}
    BY <1>a, <1>e, <2>1, FreeBlocksAfterMark DEF PageDelete
  <2>3. \A b \in FreeBlocks(lu) : <<b, 0>> \in FreePages(lu)
    BY PageParts DEF FreeBlocks, FreePages, Entry
  <2>4. FreeBlocks(lu') = FreeBlocks(lu)
    BY <2>1, <2>2, <2>3
  <2>5. Unreserved' = Unreserved
    BY <1>d, <1>e, <2>4 DEF Unreserved
  <2>6. QED
    BY <1>b, <1>e, <2>5 DEF PageDelete
<1>5. CASE MoveDrop
  <2>1. moving.src \in UsedPages(lu) /\ Reserved = {}
    BY <1>5 DEF MoveDrop, MoveInv, Reserved
  <2>2. QED
    BY <1>5, <1>e, <2>1 DEF MoveDrop
<1>6. ASSUME NEW p \in Page, Delete(p) PROVE Goal
  BY <1>6, <1>e, NotMoving DEF Delete
<1>7. ASSUME NEW max \in QuickArgs, GcQuick(max) PROVE Goal
  <2>1. PICK b \in QuickVictims(max) : lu' = Erased(lu, {b}) /\ free_blocks' = free_blocks + 1
    BY <1>7 DEF GcQuick
  <2>2. b \in Block /\ Idle /\ moving' = NoMove
    BY <1>7, Victims DEF GcQuick, Idle
  <2>3. QED
    BY <1>a, <1>c, <1>d, <2>1, <2>2, OneMoreFree, FreeBlocksFinite
<1>8. ASSUME NEW b \in Block, GcStart(b) PROVE Goal
  BY <1>8, <1>c, <1>d DEF GcStart, Idle
<1>9. CASE GcErase
  <2>1. /\ cleaning \in Block /\ mounted /\ moving = NoMove /\ moving' = NoMove
        /\ lu' = Erased(lu, {cleaning}) /\ free_blocks' = free_blocks + 1
    BY <1>9 DEF GcErase, EraseCleaned, TypeOK
  <2>2. free_blocks >= Cardinality(FreeBlocks(lu))
    BY <1>b, <2>1, NotMoving
  <2>3. QED
    BY <1>a, <1>d, <2>1, <2>2, OneMoreFree, FreeBlocksFinite
<1>10. CASE GcFail
  BY <1>10, <1>b, <1>d, NotMoving DEF GcFail, ram
<1>11. CASE Mount
  <2>1. moving' = NoMove /\ lu' = lu /\ free_blocks' = Cardinality(FreeBlocks(lu))
    BY <1>11 DEF Mount, UnmountedInv
  <2>2. QED
    BY <1>d, <2>1, FreeBlocksFinite
<1>12. CASE PowerLoss
  BY <1>12 DEF PowerLoss, RamLost
<1>13. CASE Format
  BY <1>13 DEF Format
<1>14. CASE UNCHANGED vars
  BY <1>14, <1>b DEF vars, ram, Unreserved, Reserved
<1>15. QED
  BY <1>1, <1>2, <1>3, <1>4, <1>5, <1>6, <1>7, <1>8, <1>9, <1>10, <1>11, <1>12, <1>13, <1>14
     DEF Next

(* free_blocks never falls below the number of free blocks, so that it     *)
(* never wraps below zero and a file system with two free blocks is never  *)
(* reported full (spiffs_nucleus.c:458-474).                               *)
THEOREM FreeBlocksCorrect == Spec => []FreeBlocksNotUnderCounted
<1> DEFINE FInv == TypeOK /\ MoveInv /\ UnmountedInv /\ FreeBlocksNotUnderCounted
<1>1. Init => FInv
  BY InitInvariant DEF IInv, Init, FreeBlocksNotUnderCounted
<1>2. FInv /\ [Next]_vars => FInv'
  BY TypeInductive, MoveInvInductive, FreeCountInductive
<1>3. FInv => FreeBlocksNotUnderCounted
  OBVIOUS
<1>4. QED
  BY <1>1, <1>2, <1>3, PTL DEF Spec
=============================================================================
