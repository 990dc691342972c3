------------------------------ MODULE Objects ------------------------------
(***************************************************************************)
(* The object layer of SPIFFS (spiffs_nucleus.c) and the file functions    *)
(* above it (spiffs_hydrogen.c): what a call on a file does to index pages *)
(* and data pages, one page at a time, and to what the open descriptors    *)
(* remember of them.                                                       *)
(*                                                                         *)
(* Flash can only be cleared by an erase: a write over a written place     *)
(* leaves a mix of both.  PageAlloc and Gc have the order in which pages   *)
(* are taken; here it is the lowest that is free.  What a call does when   *)
(* there is none midway is modelled up to its return with SPIFFS_ERR_FULL, *)
(* and nothing after it.                                                   *)
(***************************************************************************)
EXTENDS Integers, Sequences, FiniteSetsExt

CONSTANTS
  Obj, Fd, Val, Lens, Appends,   (* see Files                              *)
  LastPage,     (* pages that may be handed out: those of all blocks but   *)
                (* two, and one of these (nucleus.c:451-466)               *)
  DPS,          (* SPIFFS_DATA_PAGE_SIZE: bytes in a data page             *)
  HdrLen,       (* SPIFFS_OBJ_HDR_IX_LEN: data pages a header refers to    *)
  IxLen,        (* SPIFFS_OBJ_IX_LEN: data pages an index page refers to   *)
  Cuts,         (* kinds of SPIFFS_ftruncate that are called, see CutKind  *)
  Places,       (* bound: places that are sought and read up to            *)
  MaxSize,      (* bound: bytes in a file                                  *)
  Long,         (* bound: a write that adds more bytes counts as two calls *)
  CallCap,      (* bound: calls                                            *)
  Movable,      (* bound: pages that a collection moves                    *)
  OwnVal        (* bound: a descriptor writes no value but its own         *)

ASSUME ObjectsAssumption ==
  /\ Obj # {} /\ Fd # {} /\ Val # {}
  /\ LastPage \in Nat \ {0} /\ DPS \in Nat \ {0} /\ HdrLen \in Nat \ {0} /\ IxLen \in Nat \ {0}
  /\ Lens \subseteq Nat \ {0} /\ Appends \subseteq Fd
  /\ Cuts \subseteq {"clean", "short", "edge"}
  /\ MaxSize \in Nat /\ Places \subseteq 0 .. MaxSize
  /\ {Long, CallCap} \subseteq Nat /\ Movable \subseteq 1 .. LastPage /\ OwnVal \in BOOLEAN

VARIABLES
  flash,    (* of every page what is written in it                         *)
  fd,       (* the descriptors, spiffs_fd                                  *)
  call,     (* the locals of the call in progress, with fs->work           *)
  calls,    (* history: the calls begun, see Weight                        *)
  file,     (* history: what a fresh descriptor would read of every file,  *)
            (* of a call's file since the call returned                    *)
  view,     (* history: the descriptors, as they were between calls        *)
  short     (* history: the call that ran out of pages midway, or "none"   *)

vars == <<flash, fd, call, calls, file, view, short>>

Page == 1 .. LastPage
NoPage == 0                  (* an erased entry of an index page            *)
BadPage == LastPage + 1      (* two page numbers written over each other    *)

(* SPIFFS_UNDEFINED_LEN is the largest value of its type.                  *)
UNDEFINED_LEN == MaxSize + 1

DataSpan(at) == at \div DPS
Spans == 0 .. DataSpan(MaxSize)

(* SPIFFS_OBJ_IX_ENTRY_SPAN_IX.                                            *)
IxSpan(s) == IF s < HdrLen THEN 0 ELSE 1 + (s - HdrLen) \div IxLen

Erased == "erased"
Garbled == "garbled"

(* What a place holds after `new` was written over `old`.                  *)
Over(old, new, erased, mixed) ==
  IF old = erased THEN new ELSE IF new \in {old, erased} THEN old ELSE mixed

FreePage == [kind |-> "free"]
DeletedPage == [kind |-> "deleted"]
DataPage(o, s, bytes) == [kind |-> "data", obj |-> o, span |-> s, bytes |-> bytes]
IndexPage(o, k) == [kind |-> "index", obj |-> o, span |-> k, size |-> UNDEFINED_LEN,
                    ix |-> [s \in {t \in Spans : IxSpan(t) = k} |-> NoPage]]

NoBytes == [i \in 0 .. DPS - 1 |-> Erased]

(* An index page written over the one in page p, and n bytes v over those  *)
(* of a data page from place i on.                                         *)
Programmed(fl, p, img) ==
  [fl EXCEPT ![p].size = Over(@, img.size, UNDEFINED_LEN, 0),
             ![p].ix = [s \in DOMAIN @ |-> Over(@[s], img.ix[s], NoPage, BadPage)]]

Filled(bytes, i, n, v) ==
  [j \in 0 .. DPS - 1 |-> IF j \in i .. i + n - 1 THEN Over(bytes[j], v, Erased, Garbled)
                                                  ELSE bytes[j]]

BytesOf(fl, p) ==
  IF p \in Page /\ fl[p].kind = "data" THEN fl[p].bytes ELSE [i \in 0 .. DPS - 1 |-> Garbled]

(* spiffs_obj_lu_find_free: a page, or SPIFFS_ERR_FULL.                    *)
Full(fl) == \A p \in Page : fl[p].kind # "free"
NextFree(fl) == Min({p \in Page : fl[p].kind = "free"})

(* spiffs_page_delete; SPIFFS_OK of a reference that leads nowhere.        *)
Without(fl, p) == IF p \in Page THEN [fl EXCEPT ![p] = DeletedPage] ELSE fl

(* spiffs_page_allocate_data and spiffs_page_move.                         *)
Allocated(fl, img) == [fl EXCEPT ![NextFree(fl)] = img]
Moved(fl, p, img) == Without(Allocated(fl, img), p)

(* spiffs_obj_lu_find_id_and_span.                                         *)
IndexPages(fl, o, k) ==
  {p \in Page : fl[p].kind = "index" /\ fl[p].obj = o /\ fl[p].span = k}
Find(fl, o, k) ==
  IF IndexPages(fl, o, k) = {} THEN NoPage ELSE Min(IndexPages(fl, o, k))

(* SPIFFS_VALIDATE_OBJIX does not look at the object id.                   *)
IsIndex(fl, p, k) == p \in Page /\ fl[p].kind = "index" /\ fl[p].span = k

Exists(o) == IndexPages(flash, o, 0) # {}

-----------------------------------------------------------------------------
(* Descriptors.                                                            *)

Closed == [open |-> FALSE, obj |-> CHOOSE o \in Obj : TRUE, hdr |-> NoPage, size |-> 0,
           pos |-> 0, cspan |-> 0, cpix |-> NoPage]

(* spiffs_object_open_by_page.                                             *)
Opened(fl, o, p) == [open |-> TRUE, obj |-> o, hdr |-> p, size |-> fl[p].size,
                     pos |-> 0, cspan |-> 0, cpix |-> p]

Bytes(size) == IF size = UNDEFINED_LEN THEN 0 ELSE size

(* Mutant: the position goes to the end of the file.                       *)
SizedAtEnd(d, size) == IF size = 0 THEN d ELSE [d EXCEPT !.size = size, !.pos = size]

Sized(d, size) ==
  IF size = 0 THEN d ELSE [d EXCEPT !.size = size, !.pos = Min({@, Bytes(size)})]

(* spiffs_cb_object_event on one descriptor of the file.                   *)
Told(d, ev, k, p, size) ==
  IF k = 0 /\ ev = "DEL" THEN Closed
  ELSE LET e == IF k = 0 THEN Sized([d EXCEPT !.hdr = p], size) ELSE d
       IN  IF d.cspan # k THEN e
           ELSE [e EXCEPT !.cpix = IF ev = "DEL" THEN NoPage ELSE p]

(* Mutant: the descriptors of all files are told.                          *)
EventToAll(fds, ev, o, k, p, size) ==
  [f \in Fd |-> IF fds[f].open THEN Told(fds[f], ev, k, p, size) ELSE fds[f]]

Event(fds, ev, o, k, p, size) ==
  [f \in Fd |-> IF fds[f].open /\ fds[f].obj = o THEN Told(fds[f], ev, k, p, size) ELSE fds[f]]

(* A state of flash and descriptors, and what an operation makes of it.    *)
State(fl, fds) == [flash |-> fl, fd |-> fds]

(* spiffs_object_update_index_hdr: the header in page h is written anew as *)
(* img, and all descriptors are told.                                      *)
HeaderMoved(st, o, h, img) ==
  State(Moved(st.flash, h, img), Event(st.fd, "UPD", o, 0, NextFree(st.flash), img.size))

(* An index page is written again in its place, or moved.                  *)
IndexProgrammed(st, o, p, img) ==
  State(Programmed(st.flash, p, img), Event(st.fd, "UPD", o, img.span, p, 0))
IndexMoved(st, o, p, img) ==
  State(Moved(st.flash, p, img), Event(st.fd, "UPD", o, img.span, NextFree(st.flash), 0))

Promise == INSTANCE Files

(* What the flash holds of a file, as a fresh descriptor would read it.    *)
ByteAt(fl, o, i) ==
  LET s == DataSpan(i)
      p == Find(fl, o, IxSpan(s))
  IN  IF p = NoPage THEN Garbled ELSE BytesOf(fl, fl[p].ix[s])[i % DPS]

Content(fl, o) ==
  IF Find(fl, o, 0) = NoPage THEN Promise!NoFile
  ELSE Promise!Holding([i \in 1 .. Bytes(fl[Find(fl, o, 0)].size) |-> ByteAt(fl, o, i - 1)])

View(d) == IF d.open THEN Promise!At(d.obj, d.pos) ELSE Promise!Closed

-----------------------------------------------------------------------------
(* Calls.  One runs at a time, under SPIFFS_LOCK.                          *)

NoCall ==
  [op |-> "none", fd |-> CHOOSE f \in Fd : TRUE, obj |-> CHOOSE o \in Obj : TRUE, step |-> "none",
   temp |-> FALSE,     (* its descriptor was opened for this call          *)
   start |-> 0,        (* write: the place of its first byte, ...          *)
   offset |-> 0, len |-> 0, written |-> 0, rest |-> 0, val |-> CHOOSE v \in Val : TRUE,
   new |-> 0, cur |-> 0, span |-> 0, full |-> FALSE,   (* truncate         *)
   prev |-> -1, pix |-> NoPage, work |-> FreePage]

Idle == call = NoCall

(* The bytes that a write adds to its file.                                *)
Added(c) == IF c.op = "append" THEN c.len ELSE c.rest
Weight(c) == IF Added(c) > Long THEN 2 ELSE 1

Begin(c) ==
  /\ Idle /\ calls + Weight(c) <= CallCap
  /\ calls' = calls + Weight(c)
  /\ call' = c

Becomes(st) == flash' = st.flash /\ fd' = st.fd

Now == State(flash, fd)
Running(op) == call.op = op /\ call.step = "run" /\ UNCHANGED calls
Return(st) == Becomes(st) /\ call' = NoCall

(* A call that fails gives back the descriptor it opened.                  *)
Fail(st) == Return(IF call.temp THEN [st EXCEPT !.fd[call.fd] = Closed] ELSE st)

(* A call that finds no page free midway returns SPIFFS_ERR_FULL.  Nothing *)
(* is followed from then on, and the history stays as it is.               *)
RunOut(st) ==
  /\ short = "none" /\ short' = call.op
  /\ Fail(st)
  /\ UNCHANGED <<file, view>>

Cursor(st, f, k, p) == [st EXCEPT !.fd[f].cspan = k, !.fd[f].cpix = p]

(* spiffs_object_update_index_hdr with a size and no index.                *)
HeaderSized(st, size) ==
  LET h == st.fd[call.fd].hdr
  IN  HeaderMoved(st, call.obj, h, [st.flash[h] EXCEPT !.size = size])

(* An index page is read into fs->work; the call ends if it is not one.    *)
(* The cursor is told, in an append to the header only at its end.         *)
Load(st, k, p) ==
  IF IsIndex(st.flash, p, k)
  THEN /\ Becomes(IF call.op = "append" /\ k = 0 THEN st ELSE Cursor(st, call.fd, k, p))
       /\ call' = [call EXCEPT !.prev = k, !.pix = p, !.work = st.flash[p]]
  ELSE Fail(st)

(* The index page with span k, for modify, append and read.                *)
IndexFor(st, f, k) ==
  LET d == st.fd[f]
  IN  IF d.cspan = k THEN d.cpix ELSE Find(st.flash, d.obj, k)

-----------------------------------------------------------------------------
(* spiffs_gc_check, which most calls begin with: the call goes on if the   *)
(* pages it asks for are free, perhaps after a collection, and ends with   *)
(* SPIFFS_ERR_FULL if not.  A collection erases every page it can, or is   *)
(* not made.                                                               *)

PagesFor(n) == (n + DPS - 1) \div DPS

(* Mutant: a modify asks for the pages that the file grows by.            *)
NeededToGrow ==
  CASE call.op = "create" -> 1
    [] call.op = "append" -> PagesFor(call.len + DPS)
    [] call.op = "modify" -> PagesFor(call.rest)
    [] call.op = "truncate" -> 2

(* What the calls ask for.                                                 *)
Needed ==
  CASE call.op = "create" -> 1
    [] call.op \in {"append", "modify"} -> PagesFor(call.len + DPS)
    [] call.op = "truncate" -> 2

(* One page more than free_pages counts can be handed out.                 *)
Enough(fl) == Cardinality({p \in Page : fl[p].kind = "free"}) > Needed

Collected == [p \in Page |-> IF flash[p].kind = "deleted" THEN FreePage ELSE flash[p]]

Checking == call.step = "gc" /\ UNCHANGED calls

Go(st) ==
  /\ Becomes(st)
  /\ Enough(flash')
  /\ call' = [call EXCEPT !.step = "run", !.pix = st.fd[call.fd].hdr]

GcSkips == Checking /\ Go(Now)

GcErases == Checking /\ Go(State(Collected, fd))

(* Mutant: the descriptors are not told.                                   *)
GcMovesIndexUntold ==
  /\ Checking /\ ~Full(Collected)
  /\ \E p \in Movable :
       /\ flash[p].kind = "index"
       /\ Go(State([Allocated(Collected, flash[p]) EXCEPT ![p] = FreePage], fd))

GcMovesIndex ==
  /\ Checking /\ ~Full(Collected)
  /\ \E p \in Movable :
       /\ flash[p].kind = "index"
       /\ Go(State([Allocated(Collected, flash[p]) EXCEPT ![p] = FreePage],
                   Event(fd, "MOV", flash[p].obj, flash[p].span, NextFree(Collected), 0)))

(* The page the index refers to is the one that was moved last.            *)
GcMovesData ==
  /\ Checking /\ ~Full(Collected)
  /\ \E p \in Movable :
       /\ flash[p].kind = "data"
       /\ LET o == flash[p].obj
              s == flash[p].span
              i == Find(flash, o, IxSpan(s))
              st == State([Allocated(Collected, flash[p]) EXCEPT ![p] = FreePage], fd)
              img == [flash[i] EXCEPT !.ix[s] = NextFree(Collected)]
          IN  IF i = NoPage THEN Go(State([Collected EXCEPT ![p] = FreePage], fd))
              ELSE IF IxSpan(s) = 0 THEN Go(HeaderMoved(st, o, i, img))
              ELSE Go(IndexMoved(st, o, i, img))

GcFull == Checking /\ Fail(Now)

(* spiffs_gc_quick, when a running call finds no page free.                *)
GcQuick ==
  /\ call.step = "run" /\ ~call.full /\ Full(flash)
  /\ flash' = Collected /\ flash' # flash
  /\ UNCHANGED <<fd, call, calls>>

-----------------------------------------------------------------------------
(* Opening and closing, SPIFFS_lseek and SPIFFS_read.                      *)

Open(f, o) ==
  /\ Idle /\ ~fd[f].open /\ Exists(o)
  /\ fd' = [fd EXCEPT ![f] = Opened(flash, o, Find(flash, o, 0))]
  /\ UNCHANGED <<flash, call, calls>>

Close(f) ==
  /\ Idle /\ fd[f].open
  /\ fd' = [fd EXCEPT ![f] = Closed]
  /\ UNCHANGED <<flash, call, calls>>

(* SPIFFS_open with SPIFFS_O_CREAT.                                        *)
Create(f, o) ==
  /\ ~fd[f].open /\ ~Exists(o)
  /\ Begin([NoCall EXCEPT !.op = "create", !.fd = f, !.obj = o, !.step = "gc"])
  /\ UNCHANGED <<flash, fd>>

CreateFinish ==
  /\ Running("create") /\ ~Full(flash)
  /\ LET p == NextFree(flash)
         fl == Allocated(flash, IndexPage(call.obj, 0))
     IN  Return(State(fl, [fd EXCEPT ![call.fd] = Opened(fl, call.obj, p)]))

SeekCursor(f, n) ==
  LET k == IxSpan(DataSpan(Max({n - 1, 0})))
  IN  IF fd[f].cspan = k THEN Now ELSE Cursor(Now, f, k, Find(flash, fd[f].obj, k))

Seek(f, n) ==
  /\ Idle /\ fd[f].open
  /\ n \in 0 .. Bytes(fd[f].size)
  /\ Becomes([SeekCursor(f, n) EXCEPT !.fd[f].pos = n])
  /\ UNCHANGED <<call, calls>>

SeekBeyond(f) ==
  /\ Idle /\ fd[f].open
  /\ fd' = [fd EXCEPT ![f].pos = Bytes(fd[f].size)]
  /\ UNCHANGED <<flash, call, calls>>

(* Reading up to place n, at most the end of the file.                     *)
Read(f, n) ==
  /\ Idle /\ fd[f].open
  /\ n \in fd[f].pos + 1 .. Bytes(fd[f].size)
  /\ LET k == IxSpan(DataSpan(n - 1))
         p == IF k = 0 THEN fd[f].hdr ELSE IndexFor(Now, f, k)
     IN  Becomes([Cursor(Now, f, k, p) EXCEPT !.fd[f].pos = n])
  /\ UNCHANGED <<call, calls>>

-----------------------------------------------------------------------------
(* SPIFFS_write: spiffs_object_modify of the part within the file, then    *)
(* spiffs_object_append of the rest.                                       *)

WritePlace(f) == IF f \in Appends THEN Bytes(fd[f].size) ELSE fd[f].pos

Write(f, n, v) ==
  /\ fd[f].open
  /\ LET at == WritePlace(f)
         m == Min({Bytes(fd[f].size) - at, n})
     IN  /\ at + n <= MaxSize
         /\ fd' = [fd EXCEPT ![f].pos = at]
         /\ Begin([NoCall EXCEPT !.op = IF m > 0 THEN "modify" ELSE "append", !.fd = f,
                                 !.obj = fd[f].obj, !.step = "gc", !.start = at, !.offset = at,
                                 !.len = IF m > 0 THEN m ELSE n,
                                 !.rest = IF m > 0 THEN n - m ELSE 0, !.val = v])
  /\ UNCHANGED flash

place == call.offset + call.written
span == DataSpan(place)
end == call.offset + call.len
Chunk == Min({call.len - call.written, DPS - (place % DPS)})

(* The next byte to write is of another index page than the last one.      *)
AtIndex(op) == Running(op) /\ call.written < call.len /\ IxSpan(span) # call.prev
AtData(op) == Running(op) /\ call.written < call.len /\ IxSpan(span) = call.prev
AtEnd(op) == Running(op) /\ call.written = call.len

(* fs->work refers to data page p for the bytes just written there.        *)
Referring(p) ==
  call' = [call EXCEPT !.written = @ + Chunk, !.work.ix[span] = p,
                       !.work.size = IF call.op = "append" /\ call.prev = 0
                                     THEN place + Chunk ELSE @]

(* append: the index page in fs->work is stored before the next one.       *)
AppendStored ==
  LET st == IF call.prev # 0
            THEN HeaderSized(IndexProgrammed(Now, call.obj, call.pix, call.work), place)
            ELSE IF call.offset = 0 THEN State(Programmed(flash, call.pix, call.work), fd)
            ELSE HeaderMoved(Now, call.obj, fd[call.fd].hdr, call.work)
  IN  IF call.written = 0 THEN Now ELSE [st EXCEPT !.fd[call.fd].size = place]

(* The header is written anew when an append stores its index page, unless *)
(* the file was empty and the header is that page.                         *)
HeaderAnew == call.prev # 0 \/ call.offset > 0

AppendsNewIndex ==
  \/ call.written > 0
  \/ IxSpan(span) > IxSpan(DataSpan(fd[call.fd].size - 1))

AppendLoad ==
  /\ AtIndex("append")
  /\ IxSpan(span) = 0 \/ ~AppendsNewIndex
  /\ Load(Now, IxSpan(span), IF IxSpan(span) = 0 THEN call.pix ELSE IndexFor(Now, call.fd, IxSpan(span)))

AppendIndex ==
  /\ AtIndex("append") /\ IxSpan(span) > 0
  /\ AppendsNewIndex
  /\ call.written > 0 /\ HeaderAnew => ~Full(flash)
  /\ ~Full(AppendStored.flash)
  /\ LET k == IxSpan(span)
         st == AppendStored
         p == NextFree(st.flash)
         fl == Allocated(st.flash, IndexPage(call.obj, k))
     IN  Load(State(fl, Event(st.fd, "NEW", call.obj, k, p, 0)), k, p)

(* The index page is stored but the header cannot be; or both are, but     *)
(* there is no page for the next index page.                               *)
AppendIndexShort ==
  /\ AtIndex("append") /\ IxSpan(span) > 0
  /\ AppendsNewIndex
  /\ IF call.written > 0 /\ HeaderAnew /\ Full(flash)
     THEN RunOut(IF call.prev = 0 THEN Now
               ELSE IndexProgrammed(Now, call.obj, call.pix, call.work))
     ELSE Full(AppendStored.flash) /\ RunOut(AppendStored)

AppendData ==
  /\ AtData("append")
  /\ place % DPS = 0 /\ ~Full(flash)
  /\ flash' = Allocated(flash, DataPage(call.obj, span, Filled(NoBytes, 0, Chunk, call.val)))
  /\ Referring(NextFree(flash))
  /\ UNCHANGED fd

(* Mutant: the place within the page is forgotten.                         *)
AppendAtPageStart ==
  /\ AtData("append")
  /\ place % DPS > 0
  /\ LET p == call.work.ix[span]
     IN  /\ flash' = [flash EXCEPT ![p].bytes = Filled(@, 0, Chunk, call.val)]
         /\ Referring(p)
  /\ UNCHANGED fd

(* A write into a page that holds something else ends the call here.       *)
AppendInPage ==
  /\ AtData("append")
  /\ place % DPS > 0
  /\ LET p == call.work.ix[span]
     IN  IF p \in Page /\ flash[p].kind = "data"
         THEN /\ flash' = [flash EXCEPT ![p].bytes = Filled(@, place % DPS, Chunk, call.val)]
              /\ Referring(p)
              /\ UNCHANGED fd
         ELSE Fail(Now)

AppendFinish ==
  /\ AtEnd("append")
  /\ HeaderAnew => ~Full(flash)
  /\ LET st == [Cursor(Now, call.fd, call.prev, call.pix) EXCEPT !.fd[call.fd].size = end]
         done == IF call.prev # 0
                 THEN HeaderSized(IndexProgrammed(st, call.obj, call.pix, call.work), end)
                 ELSE IF call.offset = 0
                 THEN State(Programmed(flash, call.pix, call.work),
                            Event(st.fd, "UPD", call.obj, 0, call.pix, end))
                 ELSE HeaderMoved(st, call.obj, st.fd[call.fd].hdr, call.work)
     IN  Return([done EXCEPT !.fd[call.fd].pos = end])

(* No page for data or for the header: what there is of the index page is  *)
(* stored, the header only in its place.                                   *)
AppendShort ==
  /\ \/ AtData("append") /\ place % DPS = 0
     \/ AtEnd("append") /\ HeaderAnew
  /\ Full(flash)
  /\ LET st == [Cursor(Now, call.fd, call.prev, call.pix) EXCEPT !.fd[call.fd].size = place]
         img == [call.work EXCEPT !.size = place]
     IN  RunOut(IF call.prev # 0 THEN IndexProgrammed(st, call.obj, call.pix, call.work)
              ELSE IF call.offset > 0 THEN st
              ELSE State(Programmed(flash, call.pix, img),
                         Event(st.fd, "UPD", call.obj, 0, call.pix, place)))

(* modify: as append, but every page is written anew.                      *)
ModifyStored(st) ==
  IF call.prev = 0 THEN HeaderMoved(st, call.obj, st.fd[call.fd].hdr, call.work)
                   ELSE IndexMoved(st, call.obj, call.pix, call.work)

ModifyIndex ==
  /\ AtIndex("modify")
  /\ call.written > 0 => ~Full(flash)
  /\ LET k == IxSpan(span)
         st == IF call.written = 0 THEN Now ELSE ModifyStored(Now)
     IN  Load(st, k, IF k = 0 THEN call.pix ELSE IndexFor(st, call.fd, k))

(* Mutants: what follows the new bytes is not copied; the old page is not  *)
(* deleted.                                                                *)
ModifyDataToEnd ==
  /\ AtData("modify") /\ ~Full(flash)
  /\ LET p == call.work.ix[span]
         i == place % DPS
         fresh == [j \in 0 .. DPS - 1 |-> IF j < i THEN BytesOf(flash, p)[j]
                                          ELSE IF j < i + Chunk THEN call.val ELSE Erased]
     IN  flash' = Moved(flash, p, DataPage(call.obj, span, fresh))
  /\ Referring(NextFree(flash))
  /\ UNCHANGED fd

ModifyDataKeeps ==
  /\ AtData("modify") /\ ~Full(flash)
  /\ LET p == call.work.ix[span]
         i == place % DPS
         fresh == [j \in 0 .. DPS - 1 |-> IF j \in i .. i + Chunk - 1 THEN call.val
                                          ELSE BytesOf(flash, p)[j]]
     IN  flash' = Allocated(flash, DataPage(call.obj, span, fresh))
  /\ Referring(NextFree(flash))
  /\ UNCHANGED fd

ModifyData ==
  /\ AtData("modify") /\ ~Full(flash)
  /\ LET p == call.work.ix[span]
         i == place % DPS
         fresh == [j \in 0 .. DPS - 1 |-> IF j \in i .. i + Chunk - 1 THEN call.val
                                          ELSE BytesOf(flash, p)[j]]
     IN  flash' = Moved(flash, p, DataPage(call.obj, span, fresh))
  /\ Referring(NextFree(flash))
  /\ UNCHANGED fd

ModifyFinish ==
  /\ AtEnd("modify") /\ ~Full(flash)
  /\ LET st == ModifyStored(Cursor(Now, call.fd, call.prev, call.pix))
     IN  IF call.rest = 0 THEN Return([st EXCEPT !.fd[call.fd].pos = end])
         ELSE /\ Becomes(st)
              /\ call' = [call EXCEPT !.op = "append", !.step = "gc", !.offset = end,
                                      !.len = call.rest, !.written = 0, !.prev = -1,
                                      !.pix = NoPage, !.work = FreePage]

ModifyIndexShort ==
  /\ AtIndex("modify")
  /\ call.written > 0 /\ Full(flash)
  /\ RunOut(Now)

(* The index page in fs->work is not stored.  The cursor is set to where   *)
(* it would have been moved, which nothing has set (nucleus.c:1650).       *)
ModifyShort ==
  /\ AtData("modify") \/ AtEnd("modify")
  /\ Full(flash)
  /\ \E p \in IF call.prev = 0 THEN {call.pix} ELSE Page \cup {NoPage} :
       RunOut(Cursor(Now, call.fd, call.prev, p))

-----------------------------------------------------------------------------
(* spiffs_object_truncate, for SPIFFS_ftruncate, SPIFFS_O_TRUNC and the    *)
(* removal of a file.                                                      *)

Shortening(f, o, d, n) ==
  [NoCall EXCEPT !.op = "truncate", !.fd = f, !.obj = o, !.new = n, !.cur = Bytes(d.size),
                 !.span = DataSpan(Max({Bytes(d.size) - 1, 0})), !.pix = d.hdr]

(* "short": less than a page is cut off and the end falls into the page    *)
(* before the last one, or on its end; "edge": an index page loses all it  *)
(* refers to and nothing else is cut off.                                  *)
CutKind(size, n) ==
  IF size - n < DPS /\ n <= DPS * DataSpan(size - 1) /\ n > 0 THEN "short"
  ELSE IF n > 0 /\ n % DPS = 0 /\ IxSpan(DataSpan(n)) > IxSpan(DataSpan(n - 1)) THEN "edge"
  ELSE "clean"

Truncate(f, n) ==
  /\ fd[f].open
  /\ n < Bytes(fd[f].size) /\ CutKind(Bytes(fd[f].size), n) \in Cuts
  /\ Begin([Shortening(f, fd[f].obj, fd[f], n) EXCEPT !.step = "gc"])
  /\ UNCHANGED <<flash, fd>>

(* The call's descriptor is the one it opens.                              *)
OpenTruncate(f, o) ==
  /\ ~fd[f].open /\ Exists(o)
  /\ LET d == Opened(flash, o, Find(flash, o, 0))
     IN  /\ d.size # UNDEFINED_LEN
         /\ fd' = [fd EXCEPT ![f] = d]
         /\ Begin([Shortening(f, o, d, 0) EXCEPT !.step = "gc", !.temp = TRUE])
  /\ UNCHANGED flash

(* SPIFFS_remove opens a descriptor; SPIFFS_fremove is given one.          *)
Remove(f, o) ==
  /\ IF fd[f].open THEN fd[f].obj = o ELSE Exists(o)
  /\ LET d == IF fd[f].open THEN fd[f] ELSE Opened(flash, o, Find(flash, o, 0))
     IN  /\ fd' = [fd EXCEPT ![f] = d]
         /\ Begin([Shortening(f, o, d, 0) EXCEPT !.step = "run", !.full = TRUE,
                                                !.temp = ~fd[f].open])
  /\ UNCHANGED flash

TruncateIndex ==
  /\ Running("truncate") /\ call.cur > call.new
  /\ LET k == IxSpan(call.span)
         gone == State(Without(flash, call.pix),
                       Event(fd, "DEL", call.obj, call.prev, call.pix, 0))
         st == IF call.prev = -1 THEN Now
               ELSE IF call.full THEN gone ELSE HeaderSized(gone, call.cur)
     IN  /\ k # call.prev
         /\ call.prev # -1 /\ ~call.full => ~Full(flash)
         /\ Load(st, k, IF k = 0 THEN st.fd[call.fd].hdr ELSE Find(st.flash, call.obj, k))

(* The header does not get the new size, and the index page is gone.       *)
TruncateIndexShort ==
  /\ Running("truncate") /\ call.cur > call.new
  /\ IxSpan(call.span) # call.prev /\ call.prev # -1 /\ ~call.full
  /\ Full(flash)
  /\ RunOut(State(Without(flash, call.pix), Event(fd, "DEL", call.obj, call.prev, call.pix, 0)))

AtPage == Running("truncate") /\ call.cur > call.new /\ IxSpan(call.span) = call.prev
WholePage == call.new = 0 \/ call.cur - call.new >= DPS

Shorter(n, p) ==
  /\ call' = [call EXCEPT !.cur = n, !.span = @ - 1, !.work.ix[call.span] = p]
  /\ fd' = [fd EXCEPT ![call.fd].size = n]

TruncateWhole ==
  /\ AtPage /\ WholePage
  /\ flash' = Without(flash, call.work.ix[call.span])
  /\ Shorter(DPS * DataSpan(call.cur - 1), NoPage)

TruncatePart ==
  /\ AtPage /\ ~WholePage /\ ~Full(flash)
  /\ LET p == call.work.ix[call.span]
         left == [j \in 0 .. DPS - 1 |-> IF j < call.new % DPS THEN BytesOf(flash, p)[j] ELSE Erased]
     IN  flash' = Moved(flash, p, DataPage(call.obj, call.span, left))
  /\ Shorter(call.new, NextFree(flash))

AtCut == Running("truncate") /\ call.cur <= call.new

RemoveFinish ==
  /\ AtCut /\ call.full
  /\ Return(State(Without(flash, call.pix), Event(fd, "DEL", call.obj, 0, call.pix, 0)))

TruncateFinish ==
  /\ AtCut /\ ~call.full /\ ~Full(flash)
  /\ LET moved == IndexMoved(Now, call.obj, call.pix, call.work)
         st == IF call.prev > 0 THEN HeaderSized(moved, call.cur)
               ELSE HeaderMoved(Now, call.obj, call.pix,
                                IF call.cur = 0 THEN IndexPage(call.obj, 0)
                                ELSE [call.work EXCEPT !.size = call.cur])
     IN  /\ call.prev > 0 => ~Full(moved.flash)
         /\ Return([st EXCEPT !.fd[call.fd].size = call.cur])

(* No page for the shortened data page, or to store what was cut off.      *)
TruncateShort ==
  /\ ~call.full
  /\ \/ AtPage /\ ~WholePage
     \/ AtCut
  /\ Full(flash)
  /\ RunOut(Now)

(* No page for the header once the index page is stored.                   *)
TruncateFinishShort ==
  /\ AtCut /\ ~call.full /\ call.prev > 0 /\ ~Full(flash)
  /\ LET moved == IndexMoved(Now, call.obj, call.pix, call.work)
     IN  Full(moved.flash) /\ RunOut(moved)

(* SPIFFS_rename writes the header anew; the name itself is left out.      *)
Rename(f, o) ==
  /\ Idle /\ ~fd[f].open /\ Exists(o) /\ calls < CallCap
  /\ ~Full(flash)
  /\ Becomes(HeaderMoved(Now, o, Find(flash, o, 0), flash[Find(flash, o, 0)]))
  /\ calls' = calls + 1
  /\ UNCHANGED call

-----------------------------------------------------------------------------

Init ==
  /\ flash = [p \in Page |-> FreePage]
  /\ fd = [f \in Fd |-> Closed]
  /\ call = NoCall
  /\ calls = 0
  /\ short = "none"
  /\ Promise!Init

Gc == GcSkips \/ GcErases \/ GcMovesIndex \/ GcMovesData \/ GcFull \/ GcQuick

Step ==
  \/ Gc
  \/ \E f \in Fd, o \in Obj :
       Open(f, o) \/ Create(f, o) \/ OpenTruncate(f, o) \/ Remove(f, o) \/ Rename(f, o)
  \/ \E f \in Fd :
       \/ Close(f) \/ SeekBeyond(f)
       \/ \E n \in Places : Seek(f, n) \/ Read(f, n)
       \/ \E n \in 0 .. MaxSize : Truncate(f, n)
       \/ \E n \in Lens, v \in Val : (OwnVal => v = f) /\ Write(f, n, v)
  \/ CreateFinish
  \/ AppendLoad \/ AppendIndex \/ AppendData \/ AppendInPage \/ AppendFinish
  \/ ModifyIndex \/ ModifyData \/ ModifyFinish
  \/ TruncateIndex \/ TruncateWhole \/ TruncatePart \/ TruncateFinish \/ RemoveFinish

(* The history: a call takes effect when it has returned.                  *)
Record ==
  /\ file' = [o \in Obj |-> IF call' # NoCall /\ call'.obj = o THEN file[o] ELSE Content(flash', o)]
  /\ view' = IF call' = NoCall THEN [f \in Fd |-> View(fd'[f])] ELSE view

RunsOut ==
  \/ AppendIndexShort \/ AppendShort
  \/ ModifyIndexShort \/ ModifyShort
  \/ TruncateIndexShort \/ TruncateShort \/ TruncateFinishShort

Next ==
  \/ short = "none" /\ Step /\ Record /\ UNCHANGED short
  \/ RunsOut

Spec == Init /\ [][Next]_vars

-----------------------------------------------------------------------------
(* Properties.                                                             *)

(* Each variable has its type.                                             *)
TypeOK ==
  /\ \A p \in Page : flash[p].kind \in {"free", "deleted", "data", "index"}
  /\ \A f \in Fd :
       /\ fd[f].size \in 0 .. UNDEFINED_LEN /\ fd[f].pos \in 0 .. MaxSize
       /\ {fd[f].hdr, fd[f].cpix} \subseteq Page \cup {NoPage}
  /\ call.op \in {"none", "create", "append", "modify", "truncate"}
  /\ calls \in 0 .. CallCap
  /\ short \in {"none", "append", "modify", "truncate"}

(* Between calls every open descriptor, with the size and the index page   *)
(* it remembers, reads of its file what a fresh descriptor would read,     *)
(* whatever was done to the file through others and wherever the collector *)
(* has put its pages (spiffs_cb_object_event).  Until a call runs out of   *)
(* pages midway: its own descriptor may then have a wrong size.            *)
ReadThrough(f) ==
  [i \in 1 .. Bytes(fd[f].size) |->
     LET s == DataSpan(i - 1)
         k == IxSpan(s)
         p == IF k = 0 THEN fd[f].hdr ELSE IndexFor(Now, f, k)
     IN  IF IsIndex(flash, p, k) THEN BytesOf(flash, flash[p].ix[s])[(i - 1) % DPS] ELSE Garbled]

DescriptorsAgree ==
  Idle /\ short = "none" => \A f \in Fd : fd[f].open =>
            /\ Exists(fd[f].obj)
            /\ ReadThrough(f) = file[fd[f].obj].bytes
            /\ fd[f].pos <= Bytes(fd[f].size)

(* Between calls every written page is in use: an index page is the only   *)
(* one of its span and refers to some data page or is the header, and a    *)
(* data page is the one its index page refers to, within the size of the   *)
(* file.  Nothing that truncation or removal gave up stays behind.  Until  *)
(* a call runs out of pages midway, which leaves stray pages.              *)
InUse(p) ==
  LET q == flash[p]
      h == Find(flash, q.obj, 0)
  IN  /\ h # NoPage
      /\ LET size == Bytes(flash[h].size)
         IN  IF q.kind = "index"
             THEN /\ IndexPages(flash, q.obj, q.span) = {p}
                  /\ q.span = 0 \/ (size > 0 /\ q.span <= IxSpan(DataSpan(size - 1)))
             ELSE /\ q.span * DPS < size
                  /\ \E i \in Page : /\ IsIndex(flash, i, IxSpan(q.span))
                                     /\ flash[i].obj = q.obj
                                     /\ flash[i].ix[q.span] = p

NothingStray ==
  Idle /\ short = "none" => \A p \in Page : flash[p].kind \in {"data", "index"} => InUse(p)

(* An append to a file never touches what the file held: between any two   *)
(* of its steps the flash holds the old bytes, and perhaps some new ones.  *)
AppendOnlyAdds ==
  call.op = "append" /\ call.start = call.offset =>
    LET old == file[call.obj].bytes
        now == Content(flash, call.obj).bytes
    IN  Len(old) <= Len(now) /\ SubSeq(now, 1, Len(old)) = old

(* No byte of a file is ever a mix of two that were written over each      *)
(* other (SPIFFS_ftruncate: "Truncates a file at given size").             *)
BytesAsWritten == \A o \in Obj : \A i \in DOMAIN file[o].bytes : file[o].bytes[i] \in Val

(* A file has at most one index page of a span between calls               *)
(* (spiffs_object_append: "on first pass, we load existing object index    *)
(* page", whenever there is one).                                          *)
OneIndexPage == Idle /\ short = "none" => \A o \in Obj, k \in 0 .. IxSpan(DataSpan(MaxSize)) :
                          \A p, q \in IndexPages(flash, o, k) : p = q

(* spiffs_gc_check is asked once, when a call begins, for the pages of the *)
(* data and one more.  A call that it lets through runs out of pages       *)
(* midway only if it goes over the end of an index page; it costs other    *)
(* files nothing, an append nothing that the file held, and a truncation   *)
(* to the end of a page nothing that is to stay.                           *)
Across ==
  IF call.op = "truncate"
  THEN (IF call.cur > call.new THEN IxSpan(call.span) ELSE call.prev)
         # IxSpan(DataSpan(Len(file[call.obj].bytes) - 1))
  ELSE IxSpan(DataSpan(call.offset)) # IxSpan(DataSpan(Min({place, end - 1})))

Spared(o) ==
  IF call.obj # o THEN Len(file[o].bytes)
  ELSE IF call.op = "append" /\ call.start = call.offset THEN call.offset
  ELSE IF call.op = "truncate" /\ call.new % DPS = 0 THEN call.new
  ELSE 0

MidwayFull ==
  [][short' # short =>
       /\ Across
       /\ \A o \in Obj : \A i \in 1 .. Spared(o) :
            /\ i <= Len(Content(flash', o).bytes)
            /\ Content(flash', o).bytes[i] = file[o].bytes[i]]_vars

(* A call takes effect at once, when it returns, and does what Files says; *)
(* on any other file it has no effect in any of its steps.                 *)
ImplementsFiles == Promise!Spec

=============================================================================
