--------------------------------- MODULE Gc ---------------------------------
(***************************************************************************)
(* The garbage collector of SPIFFS (spiffs_gc.c) below an object layer     *)
(* that creates files, appends pages to them, rewrites pages and removes   *)
(* files.                                                                  *)
(*                                                                         *)
(* A file has one index page for each PerIx of its data pages, the first   *)
(* being its header; an index page refers to its data pages by their       *)
(* place, so the collector must write a new index page when it has moved   *)
(* data pages, and it is the order of those writes that this module is     *)
(* about.  Every step is one flash operation of the allocator (PageAlloc), *)
(* which the module is shown to implement.                                 *)
(***************************************************************************)
EXTENDS Integers, FiniteSets

CONSTANTS
  B, E, FREE, DELETED,     (* see PageAlloc                                *)
  Objs,         (* object ids                                              *)
  Spans,        (* number of data pages a file may have                    *)
  PerIx,        (* data pages an index page refers to                      *)
  GcSizes,      (* sizes, in pages, the user gives to SPIFFS_gc            *)
  FreeCap,      (* bound: see PageAlloc                                     *)
  CallCap       (* bound: calls that write or collect                      *)

ASSUME GcAssumption ==
  /\ Spans \in Nat \ {0} /\ PerIx \in Nat \ {0} /\ CallCap \in Nat
  /\ GcSizes \subseteq Nat

(* What PageAlloc assumes, for the ids a lookup entry has here.            *)
ASSUME AllocAssumption ==
  /\ B \in Nat /\ B >= 3 /\ E \in Nat /\ E >= 1
  /\ FREE # DELETED /\ {FREE, DELETED} \cap (Objs \X {"ix", "da"}) = {}
  /\ FreeCap \in Nat

(* spiffs_config.h: SPIFFS_GC_HEUR_W_... and SPIFFS_GC_MAX_RUNS.           *)
W_DELET == 5
W_USED == -1
W_AGE == 50
GC_MAX_RUNS == 5

VARIABLES
  lu, mounted, free_blocks, stats_p_allocated, stats_p_deleted, free_cursor,
  cleaning, moving, wrapped,   (* see PageAlloc                            *)
  page,     (* flash: of every page the span index, the references, and     *)
            (* whether SPIFFS_PH_FLAG_IXDELE marks its file as removed      *)
  age,      (* fs->max_erase_count minus the erase count of each block     *)
  gc,       (* the locals of spiffs_gc_check and spiffs_gc_clean           *)
  call,     (* the object layer's operation in progress                    *)
  files,    (* history: pages written to each file, or NoFile              *)
  calls,    (* history: the number of calls begun                          *)
  cut       (* history: a loss of power has cut an operation short, "dirty"*)
            (* if it left a written page that the lookup says is free     *)

LookupIds == Objs \X {"ix", "da"}

Alloc == INSTANCE PageAlloc WITH Ids <- LookupIds, QuickArgs <- {0}

Block == Alloc!Block
Entry == Alloc!Entry
Page == Alloc!Page

allocVars == <<lu, mounted, free_blocks, stats_p_allocated, stats_p_deleted, free_cursor,
               cleaning, moving, wrapped>>
vars == <<allocVars, page, age, gc, call, files, calls, cut>>

Span == 0 .. Spans - 1
IxSpan == {s \div PerIx : s \in Span}
NoFile == -1
NoPage == <<-1, -1>>
NoRefs == [i \in 0 .. PerIx - 1 |-> NoPage]
Content(span, refs) == [span |-> span, refs |-> refs, removed |-> FALSE]
Blank == Content(0, NoRefs)

NoGc == [run |-> "off", cur |-> 0, stored |-> 0, obj |-> 0, spix |-> 0, objix |-> NoPage,
         work |-> NoRefs, need |-> 0, tries |-> 0, prev |-> 0]
NoCall == [op |-> "none", obj |-> 0, span |-> 0, step |-> "", pix |-> NoPage]

-----------------------------------------------------------------------------
(* Looking pages up.                                                       *)

Id(p) == lu[p[1]][p[2]]
Live(obj, kind, span) == {p \in Page : Id(p) = <<obj, kind>> /\ page[p].span = span}

(* spiffs_obj_lu_find_id_and_span passes over the header of a file that is *)
(* being removed.                                                          *)
Found(obj, kind, span, p) == p \in Live(obj, kind, span) /\ ~page[p].removed

-----------------------------------------------------------------------------
(* spiffs_gc_find_candidate: the score of a block counts the entries up to *)
(* the first free one; age counts unless the file system is crammed.       *)

FreeFrom(b) == {e \in Entry : lu[b][e] = FREE}
Scanned(b) == {e \in Entry : \A f \in FreeFrom(b) : e < f}

Score(b, crammed) ==
  LET deleted == Cardinality({e \in Scanned(b) : lu[b][e] = DELETED})
      used == Cardinality({e \in Scanned(b) : lu[b][e] \in LookupIds})
  IN  deleted * W_DELET + used * W_USED + (IF crammed THEN 0 ELSE age[b] * W_AGE)

Candidate(b, crammed) ==
  \A c \in Block \ {b} :
    \/ Score(c, crammed) < Score(b, crammed)
    \/ Score(c, crammed) = Score(b, crammed) /\ b < c

(* The block just erased is the youngest, and all the others are older.    *)
Aged(S) ==
  age' = IF S = {} THEN age ELSE [b \in Block |-> IF b \in S THEN 1 ELSE age[b] + 1]

-----------------------------------------------------------------------------
(* spiffs_gc_check, with the number of pages wanted.                       *)

(* Mutant: no block is held in reserve.                                    *)
FreePageCountNoReserve(allocated, deleted) == E * B - allocated - deleted

FreePageCount(allocated, deleted) == E * (B - 2) - allocated - deleted
free_pages == FreePageCount(stats_p_allocated, stats_p_deleted)

(* The caller goes on, or fails with SPIFFS_ERR_FULL.                      *)
Proceed == IF call.op = "gc" THEN NoCall ELSE [call EXCEPT !.step = "body"]

GcCheckEnough ==
  /\ call.step = "check" /\ gc.run = "off"
  /\ free_blocks > 3 /\ gc.need < free_pages
  /\ call' = Proceed /\ gc' = NoGc
  /\ UNCHANGED <<allocVars, page, age, files, calls, cut>>

GcCheckFull ==
  /\ call.step = "check" /\ gc.run = "off"
  /\ ~(free_blocks > 3 /\ gc.need < free_pages)
  /\ gc.need > free_pages + stats_p_deleted
  /\ call' = NoCall /\ gc' = NoGc
  /\ UNCHANGED <<allocVars, page, age, files, calls, cut>>

(* One turn of its loop chooses a block and sets spiffs_gc_clean on it.    *)
GcCheckRun ==
  /\ \/ /\ call.step = "check" /\ gc.run = "off"
        /\ ~(free_blocks > 3 /\ gc.need < free_pages)
        /\ gc.need <= free_pages + stats_p_deleted
     \/ gc.run = "again"
  /\ \E b \in Block : Candidate(b, free_pages <= 0) /\ Alloc!GcStart(b)
  /\ gc' = [gc EXCEPT !.run = "find", !.cur = 0, !.prev = free_pages]
  /\ UNCHANGED <<page, age, call, files, calls, cut>>

-----------------------------------------------------------------------------
(* spiffs_gc_clean.                                                        *)

(* The next entry of the block, from the cursor on, that S holds.          *)
NextEntry(S) == {e \in S : e >= gc.cur /\ \A f \in S : f >= gc.cur => e <= f}

(* Mutant: the first entry is missed.                                      *)
DataEntriesButFirst == {e \in Entry \ {0} : \E o \in Objs : lu[cleaning][e] = <<o, "da">>}

DataEntries == {e \in Entry : \E o \in Objs : lu[cleaning][e] = <<o, "da">>}
IndexEntries == {e \in Entry : \E o \in Objs : lu[cleaning][e] = <<o, "ix">>}

(* Mutant: the pages of other index pages, too.                            *)
SameIndexAnySpan == {e \in Entry : lu[cleaning][e] = <<gc.obj, "da">>}

(* Data pages the index page in fs->work refers to.                        *)
SameIndex ==
  {e \in Entry : /\ lu[cleaning][e] = <<gc.obj, "da">>
                 /\ page[<<cleaning, e>>].span \div PerIx = gc.spix}

(* spiffs_page_move of src, leaving `content` in its new place.            *)
Move(src, content) ==
  /\ Alloc!MoveCopy(src)
  /\ Aged(Alloc!QuickErased)
  /\ page' = [page EXCEPT ![moving'.dst] = content]

(* FIND_OBJ_DATA: the index page of the next data page is loaded.          *)
GcFindData ==
  /\ gc.run = "find" /\ moving = Alloc!NoMove
  /\ \E e \in NextEntry(DataEntries) :
       LET p == <<cleaning, e>>
           obj == Id(p)[1]
           spix == page[p].span \div PerIx
       IN  \/ \E ix \in Page :
                /\ Found(obj, "ix", spix, ix)
                /\ gc' = [gc EXCEPT !.run = "data", !.cur = 0, !.stored = e + 1, !.obj = obj,
                                    !.spix = spix, !.objix = ix, !.work = page[ix].refs]
                /\ UNCHANGED <<allocVars, page>>
           \/ /\ ~\E ix \in Page : Found(obj, "ix", spix, ix)
              /\ Alloc!Delete(p)
              /\ page' = [page EXCEPT ![p] = Blank]
              /\ gc' = [gc EXCEPT !.cur = e + 1]
  /\ UNCHANGED <<age, call, files, calls, cut>>

(* Mutant: the scan for index pages does not start over.                   *)
GcNoMoreDataGoesOn ==
  /\ gc.run = "find" /\ moving = Alloc!NoMove
  /\ NextEntry(DataEntries) = {}
  /\ gc' = [gc EXCEPT !.run = "ix"]
  /\ UNCHANGED <<allocVars, page, age, call, files, calls, cut>>

GcNoMoreData ==
  /\ gc.run = "find" /\ moving = Alloc!NoMove
  /\ NextEntry(DataEntries) = {}
  /\ gc' = [gc EXCEPT !.run = "ix", !.cur = 0]
  /\ UNCHANGED <<allocVars, page, age, call, files, calls, cut>>

(* MOVE_OBJ_DATA: the data pages of that index page are moved ...          *)
GcMoveData ==
  /\ gc.run = "data"
  /\ \E e \in NextEntry(SameIndex) :
       LET p == <<cleaning, e>>
       IN  /\ Move(p, page[p])
           /\ gc' = [gc EXCEPT !.cur = e + 1, !.work[page[p].span % PerIx] = moving'.dst]
  /\ UNCHANGED <<call, files, calls, cut>>

(* ... and then the index page itself, with the new references.            *)
GcStoreIndex ==
  /\ gc.run = "data" /\ moving = Alloc!NoMove
  /\ NextEntry(SameIndex) = {}
  /\ Move(gc.objix, Content(gc.spix, gc.work))
  /\ gc' = [gc EXCEPT !.run = "find", !.cur = gc.stored]
  /\ UNCHANGED <<call, files, calls, cut>>

(* Mutant: the scan skips an entry.                                        *)
GcMoveIndexSkips ==
  /\ gc.run = "ix"
  /\ \E e \in NextEntry(IndexEntries) :
       LET p == <<cleaning, e>>
       IN  /\ Move(p, page[p])
           /\ gc' = [gc EXCEPT !.cur = e + 2]
  /\ UNCHANGED <<call, files, calls, cut>>

(* MOVE_OBJ_IX: the index pages left in the block.                         *)
GcMoveIndex ==
  /\ gc.run = "ix"
  /\ \E e \in NextEntry(IndexEntries) :
       LET p == <<cleaning, e>>
       IN  /\ Move(p, page[p])
           /\ gc' = [gc EXCEPT !.cur = e + 1]
  /\ UNCHANGED <<call, files, calls, cut>>

(* FINISHED.  spiffs_gc_check erases the block and looks at what it has    *)
(* gained.                                                                 *)
GcEraseBlock ==
  /\ gc.run = "ix" /\ moving = Alloc!NoMove
  /\ NextEntry(IndexEntries) = {}
  /\ Alloc!EraseCleaned
  /\ page' = [p \in Page |-> IF p[1] = cleaning THEN Blank ELSE page[p]]
  /\ Aged({cleaning})
  /\ LET free == FreePageCount(stats_p_allocated', stats_p_deleted')
         early == gc.prev <= 0 /\ gc.prev = free
         again == /\ ~early /\ gc.tries + 1 < GC_MAX_RUNS
                  /\ free_blocks' <= 2 \/ gc.need > free
     IN  /\ gc' = IF again
                  THEN [gc EXCEPT !.run = "again", !.cur = 0, !.stored = 0, !.obj = 0, !.spix = 0,
                                  !.objix = NoPage, !.work = NoRefs, !.tries = @ + 1]
                  ELSE NoGc
         /\ call' = IF again THEN call ELSE IF gc.need > free THEN NoCall ELSE Proceed
  /\ UNCHANGED <<files, calls, cut>>

-----------------------------------------------------------------------------
(* The rest of spiffs_page_move, for the collector and for the object      *)
(* layer.                                                                  *)

MoveMark == Alloc!MoveMark /\ UNCHANGED <<page, age, gc, call, files, calls, cut>>

MoveDrop ==
  /\ Alloc!MoveDrop
  /\ page' = [page EXCEPT ![moving.src] = Blank]
  /\ IF call.step = "last" /\ gc.run = "off"
     THEN /\ call' = NoCall
          /\ files' = IF call.op = "append" THEN [files EXCEPT ![call.obj] = @ + 1] ELSE files
     ELSE UNCHANGED <<call, files>>
  /\ UNCHANGED <<age, gc, calls, cut>>

-----------------------------------------------------------------------------
(* The object layer.  It runs one call at a time.  Once one was cut short  *)
(* SPIFFS_check is in order: only the collector may still run here, and    *)
(* not even that over a written page that counts as free.                  *)

Ready == Alloc!Idle /\ call = NoCall /\ cut = "none"

Counted == calls < CallCap /\ calls' = calls + 1

Begin(op, obj, span, need) ==
  /\ Alloc!Idle /\ call = NoCall
  /\ cut = "none" \/ (op = "gc" /\ cut = "clean")
  /\ call' = [op |-> op, obj |-> obj, span |-> span, step |-> "check", pix |-> NoPage]
  /\ gc' = [NoGc EXCEPT !.need = need]
  /\ Counted
  /\ UNCHANGED <<allocVars, page, age, files, cut>>

Create(o) == files[o] = NoFile /\ Begin("create", o, 0, 1)
Append(o) == files[o] \in 0 .. Spans - 1 /\ Begin("append", o, files[o], 2)
Modify(o, s) == s < files[o] /\ Begin("modify", o, s, 2)
UserGc(n) == Begin("gc", CHOOSE o \in Objs : TRUE, 0, n)

Body(op, step) == call.op = op /\ call.step = step /\ moving = Alloc!NoMove

(* A page is allocated for `id` and filled.                                *)
AllocatePage(id, content) ==
  /\ Alloc!Allocate(id)
  /\ Aged(Alloc!QuickErased)
  /\ page' = [page EXCEPT ![<<free_cursor'.bix, free_cursor'.entry - 1>>] = content]

Allocated == <<free_cursor'.bix, free_cursor'.entry - 1>>

(* spiffs_object_create.                                                   *)
CreateBody ==
  /\ Body("create", "body")
  /\ AllocatePage(<<call.obj, "ix">>, Blank)
  /\ call' = NoCall
  /\ files' = [files EXCEPT ![call.obj] = 0]
  /\ UNCHANGED <<gc, calls, cut>>

(* spiffs_object_append of a full page: a new index page if need be, ...   *)
NewIndex == call.span % PerIx = 0 /\ call.span \div PerIx > 0

AppendIndex ==
  /\ Body("append", "body") /\ NewIndex
  /\ AllocatePage(<<call.obj, "ix">>, Content(call.span \div PerIx, NoRefs))
  /\ call' = [call EXCEPT !.step = "data"]
  /\ UNCHANGED <<gc, files, calls, cut>>

(* ... the data page, ...                                                  *)
AppendData ==
  /\ Body("append", "data") \/ (Body("append", "body") /\ ~NewIndex)
  /\ AllocatePage(<<call.obj, "da">>, Content(call.span, NoRefs))
  /\ call' = [call EXCEPT !.step = "index", !.pix = Allocated]
  /\ UNCHANGED <<gc, files, calls, cut>>

(* ... and the index: in place in an index page or in the header of an     *)
(* empty file, else the header moves.  After an index page the header      *)
(* moves for its new size.                                                 *)
AppendInPlace ==
  /\ Body("append", "index")
  /\ call.span \div PerIx > 0 \/ call.span = 0
  /\ \E ix \in Page :
       /\ Found(call.obj, "ix", call.span \div PerIx, ix)
       /\ page' = [page EXCEPT ![ix].refs[call.span % PerIx] = call.pix]
  /\ IF call.span = 0
     THEN call' = NoCall /\ files' = [files EXCEPT ![call.obj] = 1]
     ELSE call' = [call EXCEPT !.step = "size"] /\ UNCHANGED files
  /\ UNCHANGED <<allocVars, age, gc, calls, cut>>

AppendHeader ==
  /\ Body("append", "size") \/ (Body("append", "index") /\ call.span \in 1 .. PerIx - 1)
  /\ \E ix \in Page :
       /\ Found(call.obj, "ix", 0, ix)
       /\ Move(ix, IF call.step = "size" THEN page[ix]
                   ELSE Content(0, [page[ix].refs EXCEPT ![call.span] = call.pix]))
  /\ call' = [call EXCEPT !.step = "last"]
  /\ UNCHANGED <<gc, files, calls, cut>>

(* spiffs_object_modify of a full page: the new page is written, the old   *)
(* one deleted, and last the index page moves.                             *)
ModifyData ==
  /\ Body("modify", "body")
  /\ AllocatePage(<<call.obj, "da">>, Content(call.span, NoRefs))
  /\ call' = [call EXCEPT !.step = "drop", !.pix = Allocated]
  /\ UNCHANGED <<gc, files, calls, cut>>

ModifyDrop ==
  /\ Body("modify", "drop")
  /\ \E ix \in Page :
       /\ Found(call.obj, "ix", call.span \div PerIx, ix)
       /\ LET old == page[ix].refs[call.span % PerIx]
          IN  Alloc!Delete(old) /\ page' = [page EXCEPT ![old] = Blank]
  /\ call' = [call EXCEPT !.step = "index"]
  /\ UNCHANGED <<age, gc, files, calls, cut>>

ModifyIndex ==
  /\ Body("modify", "index")
  /\ \E ix \in Page :
       /\ Found(call.obj, "ix", call.span \div PerIx, ix)
       /\ Move(ix, Content(page[ix].span,
                           [page[ix].refs EXCEPT ![call.span % PerIx] = call.pix]))
  /\ call' = [call EXCEPT !.step = "last"]
  /\ UNCHANGED <<gc, files, calls, cut>>

(* spiffs_object_truncate, removing a file: the header is marked first;    *)
(* then the data pages go, from the last to the first, and an index page   *)
(* after the first of its data pages.                                      *)
Remove(o) ==
  /\ Ready /\ files[o] # NoFile
  /\ \E hdr \in Page :
       /\ Found(o, "ix", 0, hdr)
       /\ page' = [page EXCEPT ![hdr].removed = TRUE]
       /\ call' = [op |-> "remove", obj |-> o, span |-> files[o] - 1, step |-> "body", pix |-> hdr]
  /\ files' = [files EXCEPT ![o] = NoFile]
  /\ Counted
  /\ UNCHANGED <<allocVars, age, gc, cut>>

(* The index page being emptied; the header is known from the open file.   *)
Emptied(ix) ==
  IF call.span < PerIx THEN ix = call.pix ELSE Found(call.obj, "ix", call.span \div PerIx, ix)

RemoveData ==
  /\ Body("remove", "body") /\ call.span >= 0
  /\ \E ix \in Page :
       /\ Emptied(ix)
       /\ LET p == page[ix].refs[call.span % PerIx]
          IN  Alloc!Delete(p) /\ page' = [page EXCEPT ![p] = Blank]
  /\ call' = IF call.span % PerIx = 0 THEN [call EXCEPT !.step = "index"]
             ELSE [call EXCEPT !.span = @ - 1]
  /\ UNCHANGED <<age, gc, files, calls, cut>>

(* Mutant: only the header is deleted.                                     *)
RemoveIndexKeeps ==
  /\ Body("remove", "index") \/ (Body("remove", "body") /\ call.span < 0)
  /\ IF call.span >= PerIx THEN UNCHANGED <<allocVars, page>>
     ELSE Alloc!Delete(call.pix) /\ page' = [page EXCEPT ![call.pix] = Blank]
  /\ call' = IF call.span <= 0 THEN NoCall ELSE [call EXCEPT !.step = "body", !.span = @ - 1]
  /\ UNCHANGED <<age, gc, files, calls, cut>>

RemoveIndex ==
  /\ Body("remove", "index") \/ (Body("remove", "body") /\ call.span < 0)
  /\ \E ix \in Page :
       /\ Emptied(ix)
       /\ Alloc!Delete(ix) /\ page' = [page EXCEPT ![ix] = Blank]
  /\ call' = IF call.span <= 0 THEN NoCall ELSE [call EXCEPT !.step = "body", !.span = @ - 1]
  /\ UNCHANGED <<age, gc, files, calls, cut>>

-----------------------------------------------------------------------------
(* SPIFFS_gc_quick(0), mounting, and the loss of power.                    *)

GcQuick ==
  /\ Ready
  /\ Alloc!GcQuick(0) /\ Aged(Alloc!QuickVictims(0))
  /\ Counted
  /\ UNCHANGED <<page, gc, call, files, cut>>

Mount == Alloc!Mount /\ UNCHANGED <<page, age, gc, call, files, calls, cut>>

PowerLoss ==
  /\ Alloc!PowerLoss
  /\ gc' = NoGc /\ call' = NoCall
  /\ cut' = IF moving.stage = "copied" THEN "dirty"
            ELSE IF call # NoCall /\ cut = "none" THEN "clean" ELSE cut
  /\ UNCHANGED <<page, age, files, calls>>

-----------------------------------------------------------------------------
Init ==
  /\ Alloc!Init
  /\ page = [p \in Page |-> Blank]
  /\ age = [b \in Block |-> 1]
  /\ gc = NoGc /\ call = NoCall
  /\ files = [o \in Objs |-> NoFile]
  /\ calls = 0 /\ cut = "none"

(* The steps of a call that has begun.                                     *)
CollectorStep ==
  \/ GcFindData \/ GcNoMoreData \/ GcMoveData \/ GcStoreIndex \/ GcMoveIndex
  \/ GcEraseBlock

BodyStep ==
  \/ CreateBody
  \/ AppendIndex \/ AppendData \/ AppendInPlace \/ AppendHeader
  \/ ModifyData \/ ModifyDrop \/ ModifyIndex
  \/ RemoveData \/ RemoveIndex

Next ==
  \/ GcCheckEnough \/ GcCheckFull \/ GcCheckRun
  \/ CollectorStep \/ BodyStep
  \/ MoveMark \/ MoveDrop
  \/ \E o \in Objs : Create(o) \/ Append(o) \/ Remove(o) \/ \E s \in Span : Modify(o, s)
  \/ \E n \in GcSizes : UserGc(n)
  \/ GcQuick \/ Mount \/ PowerLoss

Spec == Init /\ [][Next]_vars

-----------------------------------------------------------------------------
TypeOK ==
  /\ Alloc!TypeOK
  /\ page \in [Page -> [span : Span, refs : [0 .. PerIx - 1 -> Page \cup {NoPage}],
                     removed : BOOLEAN]]
  /\ age \in [Block -> Nat]
  /\ gc.run \in {"off", "find", "data", "ix", "again"} /\ gc.cur \in 0 .. E
  /\ files \in [Objs -> 0 .. Spans \cup {NoFile}]
  /\ calls \in 0 .. CallCap /\ cut \in {"none", "clean", "dirty"}

(* No page of a file is ever lost: each of them exists at least once, at   *)
(* any instant of a call or of a collection, and after a loss of power at  *)
(* any instant (spiffs_page_move, spiffs_gc_clean, spiffs_object_append    *)
(* and spiffs_object_modify write the new page before they drop the old).  *)
NoPageLost ==
  \A o \in Objs : files[o] # NoFile =>
    /\ Live(o, "ix", 0) # {}
    /\ \A s \in 0 .. files[o] - 1 : Live(o, "da", s) # {} /\ Live(o, "ix", s \div PerIx) # {}

(* Between two calls, if none was cut short, every file has one header,    *)
(* one index page for each group of its data pages, and these refer to its *)
(* data pages, of which there is one each: spiffs_gc_clean has patched     *)
(* every reference to a page it moved.                                     *)
IndexIntact ==
  mounted /\ call = NoCall /\ cut = "none" =>
    \A o \in Objs : files[o] # NoFile =>
       /\ \A x \in {s \div PerIx : s \in 0 .. files[o] - 1} \cup {0} :
            Cardinality(Live(o, "ix", x)) = 1
       /\ \A s \in 0 .. files[o] - 1 : \E ix \in Live(o, "ix", s \div PerIx) :
            Live(o, "da", s) = {page[ix].refs[s % PerIx]}

(* Between two calls, if none was cut short, every page in use is a page   *)
(* of an existing file: the collector leaves no copy and no orphan behind, *)
(* and a removed file leaves nothing.                                      *)
NothingLeftOver ==
  mounted /\ call = NoCall /\ cut = "none" =>
    \A p \in Alloc!UsedPages(lu) :
       /\ files[Id(p)[1]] # NoFile
       /\ page[p].span < files[Id(p)[1]] \/ (Id(p)[2] = "ix" /\ page[p].span = 0)

(* Once spiffs_gc_check has let a call through, neither it nor a           *)
(* collection it started is cut short by an error: each step finds a free  *)
(* page to write, the index page it needs, and pages in use where that     *)
(* index page says.  An error would stop spiffs_gc_clean between moving    *)
(* data pages and storing where they are, or spiffs_object_modify between  *)
(* deleting a page and doing so.                                           *)
InCheck == call.step = "check" /\ gc.run \in {"off", "again"}

NoStepFails ==
  mounted /\ call # NoCall /\ moving = Alloc!NoMove /\ ~InCheck =>
    ENABLED (CollectorStep \/ BodyStep)

(* spiffs_gc_clean: "move free cursor to next block, cannot use free pages *)
(* from the block we want to clean".                                       *)
CleanedBlockNotUsed == ~wrapped

(* "current number of free blocks" (spiffs.h, free_blocks).                *)
FreeBlocksExact ==
  mounted /\ call = NoCall => free_blocks = Cardinality(Alloc!FreeBlocks(lu))

(* The collector and the object layer are users of the page allocator as   *)
(* PageAlloc describes them: what is proved of it holds here.              *)
ImplementsAlloc == Alloc!Spec
=============================================================================
