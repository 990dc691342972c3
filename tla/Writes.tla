------------------------------- MODULE Writes -------------------------------
(***************************************************************************)
(* The flash at the grain of single writes: what a page's lookup entry,    *)
(* header and contents hold, what programming does to them, how pages are  *)
(* found, and the sequence of writes each call of SPIFFS makes.  A loss of *)
(* power cuts such a sequence anywhere; module Check mends what is left.   *)
(*                                                                         *)
(* Pages are numbered in the order of their lookup entries.  Sizes are in  *)
(* data pages, and data is written a whole page at a time.                 *)
(***************************************************************************)
EXTENDS Integers, Sequences

CONSTANTS
  FREE,         (* erased: all bits set                                    *)
  DELETED,      (* SPIFFS_OBJ_ID_DELETED: all bits cleared                 *)
  MIXED,        (* two values programmed over each other                   *)
  LastPage,     (* number of pages                                         *)
  HdrLen, IxLen (* SPIFFS_OBJ_HDR_IX_LEN, SPIFFS_OBJ_IX_LEN                *)

ASSUME WritesAssumption ==
  LastPage \in Nat \ {0} /\ HdrLen \in Nat \ {0} /\ IxLen \in Nat \ {0}

Page == 1 .. LastPage
NoPage == 0

Ix(id) == <<id, "ix">>      (* an object id with SPIFFS_OBJ_ID_IX_FLAG      *)
Da(id) == <<id, "da">>
AsIx(o) == IF o \in {FREE, DELETED, MIXED} THEN o ELSE Ix(o[1])
AsDa(o) == IF o \in {FREE, DELETED, MIXED} THEN o ELSE Da(o[1])

(* SPIFFS_OBJ_IX_ENTRY_SPAN_IX and SPIFFS_OBJ_IX_ENTRY.                    *)
IxSpan(s) == IF s \notin Nat THEN s ELSE IF s < HdrLen THEN 0 ELSE 1 + (s - HdrLen) \div IxLen
Entry(s) == IF s < HdrLen THEN s ELSE (s - HdrLen) % IxLen
EntriesOf(ixspan) == 0 .. (IF ixspan = 0 THEN HdrLen ELSE IxLen) - 1
DataSpanOf(ixspan, i) == IF ixspan = 0 THEN i ELSE HdrLen + IxLen * (ixspan - 1) + i

-----------------------------------------------------------------------------
(* A page: its lookup entry, and obj_id, span_ix and flags of its header;  *)
(* `flags` names the bits that are cleared.  `body` is [data |-> v] or, in *)
(* an index page, [size |-> n, refs |-> pages by entry].                   *)

Erased == [lu |-> FREE, obj |-> FREE, span |-> FREE, flags |-> {}, body |-> FREE]

Merge(x, y) == IF x = FREE THEN y ELSE IF y \in {FREE, x} THEN x ELSE MIXED

(* The index flag is the highest bit: an id with it and the same without   *)
(* give the one without.                                                   *)
MergeId(x, y) ==
  IF DELETED \in {x, y} THEN DELETED
  ELSE IF x \notin {FREE, MIXED} /\ y \notin {FREE, MIXED, x} /\ x[1] = y[1] THEN Da(x[1])
  ELSE Merge(x, y)

IsIndex(body) == body \notin {FREE, MIXED} /\ "refs" \in DOMAIN body

MergeBody(x, y) ==
  IF IsIndex(x) /\ IsIndex(y) /\ DOMAIN x.refs = DOMAIN y.refs
  THEN [size |-> Merge(x.size, y.size),
        refs |-> [i \in DOMAIN x.refs |-> Merge(x.refs[i], y.refs[i])]]
  ELSE Merge(x, y)

(* _spiffs_wr on NOR flash: bits are cleared, never set.  A write is a     *)
(* page and an image, erased where nothing is written.                     *)
Programmed(flash, p, img) ==
  LET old == flash[p]
  IN  [flash EXCEPT ![p] = [lu |-> MergeId(old.lu, img.lu), obj |-> MergeId(old.obj, img.obj),
                            span |-> Merge(old.span, img.span),
                            flags |-> old.flags \cup img.flags,
                            body |-> MergeBody(old.body, img.body)]]

Lookup(p, id) == [page |-> p, img |-> [Erased EXCEPT !.lu = id]]
Flags(p, flags) == [page |-> p, img |-> [Erased EXCEPT !.flags = flags]]
Body(p, body) == [page |-> p, img |-> [Erased EXCEPT !.body = body]]
Header(p, obj, span, flags) ==
  [page |-> p, img |-> [Erased EXCEPT !.obj = obj, !.span = span, !.flags = flags]]
Whole(p, img) == [page |-> p, img |-> [img EXCEPT !.lu = FREE]]

-----------------------------------------------------------------------------
(* Finding pages: scans begin at a cursor and wrap.                        *)

Ahead(from, p) == (p - from) % LastPage
FirstOf(S, from) ==
  IF S = {} THEN NoPage ELSE CHOOSE p \in S : \A q \in S : Ahead(from, p) <= Ahead(from, q)

(* spiffs_obj_lu_find_free, with enough pages left (PageAlloc has the      *)
(* limit); the next search begins behind the page found.                   *)
FreePage(flash, from) == FirstOf({p \in Page : flash[p].lu = FREE}, from)
After(p) == (p % LastPage) + 1

(* spiffs_obj_lu_find_id_and_span, and ..._by_phdr, which does not look at *)
(* the lookup entry.                                                       *)
Sound(pg) == {"final", "used"} \subseteq pg.flags /\ "delet" \notin pg.flags
HeaderFits(pg, obj, span) ==
  /\ pg.obj = obj /\ pg.span = span /\ Sound(pg)
  /\ ~(obj = AsIx(obj) /\ span = 0 /\ "ixdele" \in pg.flags)

FindByHeader(flash, from, obj, span, but) ==
  FirstOf({p \in Page \ {but} : HeaderFits(flash[p], obj, span)}, from)
Find(flash, from, obj, span, but) ==
  FirstOf({p \in Page \ {but} : flash[p].lu = obj /\ HeaderFits(flash[p], obj, span)}, from)

(* What a page read as an index page holds in an entry, and the page with  *)
(* one entry changed: erased contents refer to nothing, and of data taken  *)
(* for an index we only know that the references are bad.                  *)
RefsOf(pg) ==
  IF IsIndex(pg.body) THEN pg.body
  ELSE [size |-> pg.body,
        refs |-> [i \in EntriesOf(pg.span) |-> IF pg.body = FREE THEN FREE ELSE MIXED]]

RefAt(pg, i) == IF i \in DOMAIN RefsOf(pg).refs THEN RefsOf(pg).refs[i] ELSE MIXED
WithRef(pg, i, ref) == [pg EXCEPT !.body = [RefsOf(pg) EXCEPT !.refs[i] = ref]]
WithSize(pg, n) == [pg EXCEPT !.body.size = n]

-----------------------------------------------------------------------------
(* The writes of the nucleus.                                              *)

(* spiffs_page_delete *)
Delete(p) == <<Lookup(p, DELETED), Flags(p, {"delet", "used"})>>

(* spiffs_page_allocate_data: of an index page, of a data page that is     *)
(* written at once (append), and of one that is finalized when its data is *)
(* in (modify).                                                            *)
AllocateIndex(p, id, span) ==
  <<Lookup(p, Ix(id)), Header(p, Ix(id), span, {"used", "final", "index"})>>
AllocateData(p, id, span, v) ==
  <<Lookup(p, Da(id)), Header(p, Da(id), span, {"used", "final"}), Body(p, [data |-> v])>>
AllocateOpen(p, id, span, v) ==
  <<Lookup(p, Da(id)), Header(p, Da(id), span, {"used"}), Body(p, [data |-> v]),
    Flags(p, {"final"})>>

(* spiffs_page_move: with new contents given, or copied.  The page is      *)
(* written before its lookup entry is.                                     *)
MoveNew(src, dst, img) ==
  <<Whole(dst, [img EXCEPT !.flags = @ \ {"final"}]), Lookup(dst, AsIx(img.obj)),
    Flags(dst, {"final", "used"})>> \o Delete(src)
MoveCopy(src, dst, img) == <<Whole(dst, img), Lookup(dst, img.obj)>> \o Delete(src)

-----------------------------------------------------------------------------
(* The calls: the writes each makes, in order, and where the free cursor   *)
(* is left.  `at` holds the flash and the two cursors when it begins.      *)

NoRefs(ixspan) == [i \in EntriesOf(ixspan) |-> FREE]
EmptyIndex(ixspan) == [size |-> FREE, refs |-> NoRefs(ixspan)]

(* SPIFFS_UNDEFINED_LEN, the size of an empty file, is all ones.           *)
SizeOf(pg) == IF pg.body.size = FREE THEN 0 ELSE pg.body.size
AsSize(n) == IF n = 0 THEN FREE ELSE n

Free1(at) == FreePage(at.flash, at.free)
Free2(at) == FreePage(at.flash, After(Free1(at)))
Free3(at) == FreePage(at.flash, After(Free2(at)))

IndexPage(at, id, ixspan) == Find(at.flash, at.cursor, Ix(id), ixspan, NoPage)
RefPage(at, id, s) == RefAt(at.flash[IndexPage(at, id, IxSpan(s))], Entry(s))

(* spiffs_object_create *)
Create(at, id) ==
  <<Lookup(Free1(at), Ix(id)),
    Whole(Free1(at), [Erased EXCEPT !.obj = Ix(id), !.span = 0, !.body = EmptyIndex(0),
                                    !.flags = {"used", "final", "index"}])>>

(* spiffs_object_append, one page of data: into the header, in place if    *)
(* the file was empty; into a new index page; into one that exists.        *)
Append1(at, id, v) ==
  LET h == IndexPage(at, id, 0)
      hdr == at.flash[h]
      n == SizeOf(hdr)
      x == IndexPage(at, id, IxSpan(n))
  IN  IF n = 0
      THEN AllocateData(Free1(at), id, n, v)
           \o <<Whole(h, WithSize(WithRef(hdr, 0, Free1(at)), 1))>>
      ELSE IF IxSpan(n) = 0
      THEN AllocateData(Free1(at), id, n, v)
           \o MoveNew(h, Free2(at), WithSize(WithRef(hdr, n, Free1(at)), n + 1))
      ELSE IF IxSpan(n) > IxSpan(n - 1)
      THEN AllocateIndex(Free1(at), id, IxSpan(n)) \o AllocateData(Free2(at), id, n, v)
           \o <<Body(Free1(at), [EmptyIndex(IxSpan(n)) EXCEPT !.refs[Entry(n)] = Free2(at)])>>
           \o MoveNew(h, Free3(at), WithSize(hdr, n + 1))
      ELSE AllocateData(Free1(at), id, n, v)
           \o <<Whole(x, WithRef(at.flash[x], Entry(n), Free1(at)))>>
           \o MoveNew(h, Free2(at), WithSize(hdr, n + 1))

(* spiffs_object_modify, one page of data.                                 *)
Modify(at, id, s, v) ==
  LET x == IndexPage(at, id, IxSpan(s))
  IN  AllocateOpen(Free1(at), id, s, v) \o Delete(RefPage(at, id, s))
      \o MoveNew(x, Free2(at), WithRef(at.flash[x], Entry(s), Free1(at)))

(* spiffs_object_update_index_hdr for a new name.                          *)
Rename(at, id) ==
  LET h == IndexPage(at, id, 0) IN MoveNew(h, Free1(at), at.flash[h])

(* spiffs_object_truncate: by the last page, and to nothing with the file. *)
Truncate1(at, id) ==
  LET h == IndexPage(at, id, 0)
      s == SizeOf(at.flash[h]) - 1
      x == IndexPage(at, id, IxSpan(s))
      cut == WithRef(at.flash[x], Entry(s), FREE)
  IN  Delete(RefPage(at, id, s))
      \o (IF IxSpan(s) = 0 THEN MoveNew(h, Free1(at), WithSize(cut, AsSize(s)))
          ELSE MoveNew(x, Free1(at), cut)
               \o MoveNew(h, Free2(at), WithSize(at.flash[h], AsSize(s))))

Remove(at, id) ==
  LET h == IndexPage(at, id, 0)
      n == SizeOf(at.flash[h])
      drop[s \in -1 .. n - 1] ==
        IF s < 0 THEN <<>>
        ELSE Delete(RefPage(at, id, s))
             \o (IF s >= HdrLen /\ Entry(s) = 0 THEN Delete(IndexPage(at, id, IxSpan(s)))
                 ELSE <<>>)
             \o drop[s - 1]
  IN  <<Flags(h, {"used", "index", "final", "ixdele"})>> \o drop[n - 1] \o Delete(h)

(* spiffs_gc_clean: a data page and then the index page that refers to it; *)
(* an index page.                                                          *)
CollectData(at, id, s) ==
  LET d == RefPage(at, id, s)
      x == IndexPage(at, id, IxSpan(s))
  IN  MoveCopy(d, Free1(at), at.flash[d])
      \o MoveNew(x, Free2(at), WithRef(at.flash[x], Entry(s), Free1(at)))

CollectIndex(at, id, ixspan) ==
  LET x == IndexPage(at, id, ixspan) IN MoveCopy(x, Free1(at), at.flash[x])
=============================================================================
