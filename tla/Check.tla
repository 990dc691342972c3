------------------------------- MODULE Check --------------------------------
(***************************************************************************)
(* SPIFFS_check (spiffs_check.c) after a loss of power or a damaged lookup *)
(* entry.                                                                  *)
(*                                                                         *)
(* A call runs write by write (module Writes) until it is done or power    *)
(* goes, between any two writes.  After the next mount the check looks at  *)
(* lookup entries, then index pages, then references, and mends what it    *)
(* finds; power may go again while it does.  What the check only reads is  *)
(* one step up to the next thing it mends; what it writes is one step per  *)
(* write.                                                                  *)
(*                                                                         *)
(* The scan of lookup entries reads those of a block into fs->lu_work and  *)
(* goes on with what is there after a repair, which may have put something *)
(* else into it: it is read again only when the repair asks for it         *)
(* (nucleus.c:186).                                                        *)
(***************************************************************************)
EXTENDS Writes, FiniteSets

CONSTANTS
  PerBlock,     (* pages, and lookup entries, of a block                   *)
  GARBAGE,      (* a lookup entry read from what is an index page          *)
  ScanLen,      (* pages whose state fits into fs->work                    *)
  Sizes,        (* sizes of the file the call works on                     *)
  Shifts,       (* numbers of free pages before the files' pages           *)
  CallNames,    (* the calls that may be cut                               *)
  Damages,      (* what may have happened to a lookup entry                *)
  LossCap       (* bound: losses of power                                  *)

ASSUME CheckAssumption ==
  /\ PerBlock \in Nat \ {0} /\ LastPage % PerBlock = 0
  /\ ScanLen \in Nat \ {0} /\ Sizes \subseteq 0 .. 4 /\ Shifts \subseteq Nat /\ LossCap \in Nat
  /\ Damages \subseteq {"cleared", "flag", "id"}

VARIABLES
  flash,
  cursor,       (* fs->cursor_block_ix and ..._obj_lu_entry, as a page     *)
  free,         (* the free cursor, as a page                              *)
  phase,        (* where the check stands, or what else goes on            *)
  todo,         (* the writes ahead in the call or the repair              *)
  scan,         (* the next page the check looks at                        *)
  held,         (* lookup entries that the scan goes on with although      *)
                (* fs->lu_work was overwritten: by page, none if it was not*)
  low,          (* pix_offset: the first page of the range in fs->work     *)
  refd, index,  (* fs->work: the pages marked as REFERENCED and as INDEX   *)
  losses,       (* history: losses of power                                *)
  call,         (* history: the call that was begun                        *)
  before,       (* history: the flash before it and before any damage      *)
  damaged,      (* history: what happened to a lookup entry, or "none"     *)
  twin,         (* history: power went while a page of the file had its    *)
                (* successor finished and was not deleted yet              *)
  soiled        (* history: a page was handed out that had been written,   *)
                (* but not marked, when power went                         *)

vars == <<flash, cursor, free, phase, todo, scan, held, low, refd, index, losses, call, before,
          damaged, twin, soiled>>

Mine == 1                   (* the file the calls work on                  *)
Other == 3                  (* a file no call touches                      *)
Nobody == 2                 (* an object id that no file has               *)
Fresh == 4                  (* the object id of a file that is created     *)

at == [flash |-> flash, cursor |-> cursor, free |-> free]

-----------------------------------------------------------------------------
(* Repairs.  Each is a sequence of writes, with where the cursors are left *)
(* and what is left in fs->lu_work: the block whose lookup entries were    *)
(* read last, or one of the following.                                     *)
Reread == -1                (* the scan is asked to read it again          *)
Kept == -2                  (* it is as it was                             *)
IndexRead == -3             (* an index page (spiffs_check.c:115)          *)

Mending(w, cur, fr) == [todo |-> w, cursor |-> cur, free |-> fr, left |-> Reread]
Nothing(st) == Mending(<<>>, st.cursor, st.free)
Only(st, w) == Mending(w, st.cursor, st.free)
Then(r, w) == [r EXCEPT !.todo = @ \o w]
Leaving(r, left) == [r EXCEPT !.left = left]

(* Mutant: a search that fails moves the cursor.                           *)
SeenAlways(st, p) == [st EXCEPT !.cursor = p]

(* A successful search leaves fs->cursor at the page.                      *)
Seen(st, p) == IF p = NoPage THEN st ELSE [st EXCEPT !.cursor = p]

(* The block whose lookup entries a search that has found p reads last; it *)
(* goes round to where it began if there is no p.                          *)
BlockOf(p) == (p - 1) \div PerBlock
Searched(st, p) ==
  BlockOf(IF p # NoPage THEN p ELSE IF st.cursor = 1 THEN LastPage ELSE st.cursor - 1)

(* spiffs_object_get_data_page_index_reference *)
IndexOf(st, obj, s) == Find(st.flash, st.cursor, AsIx(obj), IxSpan(s), NoPage)
Referred(st, obj, s) ==
  LET x == IndexOf(st, obj, s) IN IF x = NoPage THEN NoPage ELSE RefAt(st.flash[x], Entry(s))

(* spiffs_rewrite_page, as the page itself or under another header.        *)
RewritePage(st, p, obj, span, flags) ==
  LET n == FreePage(st.flash, st.free)
  IN  Mending(<<Lookup(n, obj), Header(n, obj, span, flags \cup {"used"}),
                Body(n, st.flash[p].body)>>, st.cursor, After(n))

(* spiffs_delete_obj_lazy: given the id of a data page it finds no header, *)
(* but a data page.                                                        *)
DeleteLazy(st, obj) ==
  LET h == Find(st.flash, st.cursor, obj, 0, NoPage)
  IN  IF h = NoPage THEN Nothing(st) ELSE Only(Seen(st, h), <<Flags(h, {"ixdele"})>>)

(* spiffs_rewrite_index: can it, and what it does.                         *)
IndexIsSound(pg, obj, s) ==
  /\ pg.obj = AsIx(obj) /\ pg.span = IxSpan(s)
  /\ {"used", "index", "final"} \subseteq pg.flags /\ pg.flags \cap {"ixdele", "delet"} = {}

RewriteIndex(st, obj, s, ref, x) ==
  LET n == FreePage(st.flash, st.free)
      w == IF IndexIsSound(st.flash[x], obj, s)
           THEN <<Whole(n, WithRef(st.flash[x], Entry(s), ref)), Lookup(n, AsIx(obj))>>
                \o Delete(x)
           ELSE Delete(n)
  IN  Mending(w, st.cursor, After(n))

(* A page that is referred to but cannot stay: a copy of it takes its      *)
(* place in the index, unless the index is bad too.                        *)
MoveReferred(st, p) ==
  LET pg == st.flash[p]
      x == IndexOf(st, pg.obj, pg.span)
      copy == RewritePage(Seen(st, x), p, pg.obj, pg.span, pg.flags)
      st2 == [st EXCEPT !.cursor = x, !.free = copy.free]
      n == FreePage(st.flash, st.free)
      ix == RewriteIndex(st2, pg.obj, pg.span, n, x)
  IN  IF IndexIsSound(st.flash[x], pg.obj, pg.span)
      THEN Mending(copy.todo \o ix.todo, ix.cursor, ix.free)
      ELSE LET lazy == DeleteLazy([st2 EXCEPT !.free = ix.free], pg.obj)
           IN  Mending(copy.todo \o ix.todo \o Delete(n) \o lazy.todo, lazy.cursor, lazy.free)

-----------------------------------------------------------------------------
(* spiffs_lookup_check_validate, of the page p and the entry lu that       *)
(* fs->lu_work holds for it.                                               *)

(* Mutant: a free lookup entry is believed.                                *)
ForgottenIfDeleted(pg, lu) == lu = DELETED /\ "delet" \notin pg.flags

(* The lookup entry says deleted or free, the header does not.             *)
Forgotten(pg, lu) ==
  \/ lu = DELETED /\ "delet" \notin pg.flags
  \/ lu = FREE /\ "used" \in pg.flags

(* Mutant: the page is deleted even if it is referred to.                  *)
MendForgottenNever(st, p) == Only(st, Delete(p))

MendForgotten(st, p) ==
  LET pg == st.flash[p]
      x == IndexOf(st, pg.obj, pg.span)
      twinx == Find(st.flash, st.cursor, AsIx(pg.obj), pg.span, p)
      h == FindByHeader(st.flash, st.cursor, AsIx(pg.obj), 0, NoPage)
  IN  IF "index" \notin pg.flags
      THEN IF Referred(st, pg.obj, pg.span) = p
           THEN Then(MoveReferred(st, p), Delete(p))
           ELSE Only(Seen(st, x), Delete(p))
      ELSE IF twinx = NoPage /\ h # NoPage
      THEN Then(RewritePage(Seen(st, h), p, pg.obj, pg.span, pg.flags), Delete(p))
      ELSE Only(Seen(st, twinx), Delete(p))

(* Lookup entry and header differ in the object id, and an index page has  *)
(* to be given to one of the two.  When there is no data page of an id the *)
(* code clears the wrong variable (objix_pix_lu, objix_pix_ph) and leaves  *)
(* data_pix_lu or data_pix_ph unset: `junk` is what they happen to hold.   *)
ChooseOwner(st, p, lu, junk) ==
  LET pg == st.flash[p]
      xl == Find(st.flash, st.cursor, AsIx(lu), pg.span, NoPage)
      st1 == Seen(st, xl)
      xp == Find(st.flash, st1.cursor, AsIx(pg.obj), pg.span, NoPage)
      st2 == Seen(st1, xp)
      dl == Find(st.flash, st2.cursor, AsDa(lu), 0, NoPage)
      st3 == Seen(st2, dl)
      dp == Find(st.flash, st3.cursor, AsDa(pg.obj), 0, NoPage)
      st4 == Seen(st3, dp)
      ixLu == xl # NoPage /\ dl # NoPage
      ixPh == xp # NoPage /\ dp # NoPage
      daLu == IF dl = NoPage THEN junk[1] ELSE TRUE
      daPh == IF dp = NoPage THEN junk[2] ELSE TRUE
      as(obj) == RewritePage(st4, p, AsIx(obj), pg.span, {"used", "index", "final"})
  IN  IF xl # NoPage /\ xp # NoPage THEN Leaving(Nothing(st2), Searched(st1, xp))
      ELSE IF ~ixPh /\ daPh /\ (ixLu => daLu) THEN as(pg.obj)
      ELSE IF ~ixLu /\ daLu /\ (ixPh => daPh) THEN as(lu)
      ELSE Leaving(Nothing(st4), Searched(st3, dp))

MendForeign(st, p, lu, junk) ==
  LET pg == st.flash[p]
      x == IndexOf(st, pg.obj, pg.span)
  IN  IF "delet" \in pg.flags \/ "final" \notin pg.flags
         \/ {"index", "ixdele"} \subseteq pg.flags
      THEN Leaving(Only(st, Delete(p)), Kept)
      ELSE IF "index" \in pg.flags
      THEN Then(ChooseOwner(st, p, lu, junk), Delete(p))
      ELSE IF Referred(st, pg.obj, pg.span) = p
      THEN Leaving(Then(MoveReferred(st, p), Delete(p)),
                   IF IndexIsSound(st.flash[x], pg.obj, pg.span) THEN IndexRead ELSE Reread)
      ELSE Leaving(Only(Seen(st, x), Delete(p)), Searched(st, x))

(* They differ in whether this is an index page: it becomes what there is  *)
(* no other page for.                                                      *)
MendKind(st, p, lu) ==
  LET pg == st.flash[p]
      d == Find(st.flash, st.cursor, AsDa(lu), pg.span, p)
      st1 == Seen(st, d)
      x == Find(st.flash, st1.cursor, AsIx(lu), pg.span, p)
      st2 == Seen(st1, x)
      as(obj, flags) ==
        Leaving(Then(RewritePage(st2, p, obj, pg.span, flags), Delete(p)),
                BlockOf(FreePage(st.flash, st.free)))
  IN  IF d # NoPage /\ x = NoPage THEN as(AsIx(lu), {"used", "index", "final"})
      ELSE IF d = NoPage /\ x # NoPage THEN as(AsDa(lu), {"used", "final"})
      ELSE Leaving(Only(st2, Delete(p)), Searched(st1, x))

(* Not finalized: deleted, unless an index refers to it.                   *)
MendOpen(st, p, lu) ==
  LET pg == st.flash[p]
      x == IndexOf(st, lu, pg.span)
  IN  IF Referred(st, lu, pg.span) = p
      THEN Only(Seen(st, x), <<Flags(p, {"final"})>>)
      ELSE Only(Seen(st, x), Delete(p))

LookupRepair(st, p, lu, junk) ==
  LET pg == st.flash[p]
  IN  IF Forgotten(pg, lu) THEN MendForgotten(st, p)
      ELSE IF lu \in {FREE, DELETED} THEN Nothing(st)
      ELSE IF AsIx(pg.obj) # AsIx(lu) THEN MendForeign(st, p, lu, junk)
      ELSE IF (lu = AsIx(lu)) # ("index" \in pg.flags) THEN MendKind(st, p, lu)
      ELSE IF "delet" \in pg.flags THEN Leaving(Only(st, Delete(p)), Kept)
      ELSE IF "final" \notin pg.flags THEN MendOpen(st, p, lu)
      ELSE Nothing(st)

-----------------------------------------------------------------------------
(* spiffs_object_index_consistency_check_v.  The table of object ids in    *)
(* fs->work remembers results of the search for a header, no more.         *)

IndexFlags(pg) == pg.flags \cap {"index", "final", "delet", "ixdele"}

IndexRepair(st, p) ==
  LET pg == st.flash[p]
      h == Find(st.flash, st.cursor, AsIx(pg.lu), 0, NoPage)
  IN  IF pg.lu \in {FREE, DELETED} \/ pg.lu # AsIx(pg.lu) THEN Nothing(st)
      ELSE IF pg.span = 0 /\ IndexFlags(pg) = {"index", "final", "ixdele"}
      THEN Only(st, Delete(p))
      ELSE IF IndexFlags(pg) = {"index", "final"} \/ pg.span = 0 \/ h # NoPage
      THEN Nothing(Seen(st, h))
      ELSE Only(st, Delete(p))

-----------------------------------------------------------------------------
(* spiffs_page_consistency_check_i.                                        *)

InRange(p) == p \in low .. low + ScanLen - 1
Used(pg) == "used" \in pg.flags /\ "delet" \notin pg.flags
LiveIndex(pg) == Used(pg) /\ "index" \in pg.flags /\ "ixdele" \notin pg.flags

(* A reference, given the pages referred to so far.                        *)
BadRef(r) == r = MIXED
(* Mutant: the data pages of every index page are counted from zero.       *)
WrongRefFromZero(pg, i, r) ==
  /\ r \in Page /\ InRange(r)
  /\ flash[r].obj # AsDa(pg.obj) \/ flash[r].span # i

WrongRef(pg, i, r) ==
  /\ r \in Page /\ InRange(r)
  /\ \/ flash[r].obj # AsDa(pg.obj)
     \/ flash[r].span # DataSpanOf(pg.span, i)
     \/ ~Used(flash[r])
     \/ "index" \in flash[r].flags

RefsIn(pg, S) == {RefAt(pg, i) : i \in S} \cap Page
Before(pg, i) == {j \in EntriesOf(pg.span) : j < i}
SecondRef(pg, i, r, marked) == InRange(r) /\ r \in marked \cup RefsIn(pg, Before(pg, i))

Faulty(pg, i, marked) ==
  LET r == RefAt(pg, i)
  IN  BadRef(r) \/ WrongRef(pg, i, r) \/ (r \in Page /\ SecondRef(pg, i, r, marked))

(* Of the index page p, the first entry that must be mended; 0 .. i are    *)
(* marked as referenced before.                                            *)
FaultyEntries(p, marked) == {i \in EntriesOf(flash[p].span) : Faulty(flash[p], i, marked)}
FirstFaulty(p, marked) ==
  CHOOSE i \in FaultyEntries(p, marked) : \A j \in FaultyEntries(p, marked) : i <= j

(* What is done, and whether the range is then scanned from its start.     *)
MendBadRef(p, i) ==
  LET pg == flash[p]
      s == DataSpanOf(pg.span, i)
      d == Find(flash, cursor, AsDa(pg.obj), s, NoPage)
      n == FreePage(flash, free)
      fill == <<Lookup(n, AsDa(pg.obj)), Header(n, AsDa(pg.obj), s, {"used", "final"})>>
      new == IF d = NoPage THEN Mending(fill, cursor, After(n)) ELSE Nothing(Seen(at, d))
      ix == RewriteIndex([at EXCEPT !.cursor = new.cursor, !.free = new.free], pg.obj, s,
                         IF d = NoPage THEN n ELSE d, p)
  IN  Mending(new.todo \o ix.todo
                \o (IF IndexIsSound(pg, pg.obj, s) THEN <<>> ELSE Delete(p)),
              ix.cursor, ix.free)

(* Where else the data is; without it the file is given up.                *)
Elsewhere(p, i) ==
  Find(flash, cursor, AsDa(flash[p].obj), DataSpanOf(flash[p].span, i), RefAt(flash[p], i))

(* The scan goes on behind this index page, and is not restarted.          *)
(* Mutant: it is.                                                          *)
GivesUpNever(p, i) == FALSE
GivesUp(p, i) == WrongRef(flash[p], i, RefAt(flash[p], i)) /\ Elsewhere(p, i) = NoPage

(* Mutant: the file is given up at once.                                   *)
MendWrongRefNever(p, i) == DeleteLazy(at, flash[p].obj)

MendWrongRef(p, i) ==
  LET pg == flash[p]
      s == DataSpanOf(pg.span, i)
      d == Elsewhere(p, i)
      ix == RewriteIndex(Seen(at, d), pg.obj, s, d, p)
      lazy == DeleteLazy([Seen(at, d) EXCEPT !.free = ix.free], pg.obj)
  IN  IF d = NoPage THEN DeleteLazy(at, pg.obj)
      ELSE IF IndexIsSound(pg, pg.obj, s) THEN ix
      ELSE Mending(ix.todo \o lazy.todo, lazy.cursor, lazy.free)

MendSecondRef(p) == Then(DeleteLazy(at, flash[p].obj), Delete(p))

(* A page in use that is neither an index page nor referred to.            *)
Stray(p) == InRange(p) /\ Used(flash[p]) /\ p \notin refd \cup index

(* Mutant: the page that nothing refers to stays.                          *)
MendStrayNever(p) == Nothing(at)

MendStray(p) ==
  LET pg == flash[p]
      x == IndexOf(at, pg.obj, pg.span)
      r == Referred(at, pg.obj, pg.span)
      st == Seen(at, x)
      ix == RewriteIndex(st, pg.obj, pg.span, p, x)
      lazy == DeleteLazy([st EXCEPT !.free = ix.free], pg.obj)
  IN  IF x = NoPage THEN Only(at, Delete(p))
      ELSE IF r \in Page /\ flash[r].obj = AsDa(pg.obj) /\ Sound(flash[r])
              /\ "index" \notin flash[r].flags
      THEN Only(st, Delete(p))
      ELSE IF r = p THEN Nothing(st)
      ELSE IF IndexIsSound(flash[x], pg.obj, pg.span) THEN ix
      ELSE Mending(ix.todo \o Delete(p) \o lazy.todo, lazy.cursor, lazy.free)

Redirects(p) ==
  LET r == Referred(at, flash[p].obj, flash[p].span)
  IN  /\ IndexOf(at, flash[p].obj, flash[p].span) # NoPage
      /\ ~(r \in Page /\ flash[r].obj = AsDa(flash[p].obj) /\ Sound(flash[r])
           /\ "index" \notin flash[r].flags)
      /\ r # p

-----------------------------------------------------------------------------
(* The check, step by step.                                                *)

Checking == {"lookup", "objix", "page", "bitmap"}

Least(S) == CHOOSE p \in S : \A q \in S : p <= q

(* What a repair does to the state.                                        *)
Mend(r) == todo' = r.todo /\ cursor' = r.cursor /\ free' = r.free

unchangedHistory == UNCHANGED <<losses, call, before, damaged, twin>>

(* A page is handed out that is not erased.                                *)
Soil(w) ==
  soiled' = (soiled \/ \E k \in 1 .. Len(w) :
               /\ w[k].img.lu \notin {FREE, DELETED}
               /\ flash[w[k].page].flags # {})

StartCheck ==
  /\ phase = "idle"
  /\ phase' = "lookup" /\ scan' = 1
  /\ UNCHANGED <<flash, cursor, free, todo, held, low, refd, index, soiled>> /\ unchangedHistory

(* The ids an index page may be taken for: free, deleted, of either kind,  *)
(* of a file or of none.                                                   *)
Garbage == {FREE, DELETED} \cup {Ix(id) : id \in {Mine, Other, Nobody}}
                           \cup {Da(id) : id \in {Mine, Other, Nobody}}

(* What fs->lu_work holds for the pages behind p in its block after the    *)
(* repair r of p.                                                          *)
Behind(p) == {q \in Page : q > p /\ BlockOf(q) = BlockOf(p)}
HeldAfter(r, p) ==
  CASE r.left = Reread -> <<>>
    [] r.left = Kept -> [q \in Behind(p) \cap DOMAIN held |-> held[q]]
    [] r.left = IndexRead -> [q \in Behind(p) |-> GARBAGE]
    [] r.left >= 0 -> [q \in Behind(p) |-> flash[r.left * PerBlock + 1 + ((q - 1) % PerBlock)].lu]

(* An entry that is held is looked at alone.                               *)
LookupStep ==
  /\ phase = "lookup" /\ todo = <<>>
  /\ \E junk \in BOOLEAN \X BOOLEAN,
        g \in IF scan \in DOMAIN held /\ held[scan] = GARBAGE THEN Garbage ELSE {GARBAGE} :
       LET stale == scan \in DOMAIN held
           entry(p) == IF ~stale THEN flash[p].lu ELSE IF g # GARBAGE THEN g ELSE held[p]
           repair(p) == LookupRepair(at, p, entry(p), junk)
           wrong == {p \in (IF stale THEN {scan} ELSE scan .. LastPage) : repair(p).todo # <<>>}
           r == repair(Least(wrong))
       IN  IF wrong # {}
           THEN /\ Mend(r) /\ Soil(r.todo) /\ scan' = Least(wrong) + 1
                /\ held' = HeldAfter(r, Least(wrong))
                /\ UNCHANGED phase
           ELSE /\ IF stale THEN scan' = scan + 1 /\ UNCHANGED phase
                   ELSE scan' = 1 /\ phase' = "objix"
                /\ held' = HeldAfter(Leaving(Nothing(at), Kept), scan)
                /\ UNCHANGED <<cursor, free, todo, soiled>>
  /\ UNCHANGED <<flash, low, refd, index>> /\ unchangedHistory

IndexStep ==
  /\ phase = "objix" /\ todo = <<>>
  /\ LET wrong == {p \in scan .. LastPage : IndexRepair(at, p).todo # <<>>}
     IN  IF wrong = {}
         THEN /\ phase' = "page" /\ scan' = 1 /\ low' = 1
              /\ UNCHANGED <<cursor, free, todo>>
         ELSE /\ Mend(IndexRepair(at, Least(wrong))) /\ scan' = Least(wrong) + 1
              /\ UNCHANGED <<phase, low>>
  /\ UNCHANGED <<flash, held, refd, index, soiled>> /\ unchangedHistory

(* The scan for references, from one index page to the next.  After a      *)
(* repair the range is scanned again; not so when a file is given up.      *)
Restart == scan' = 1 /\ refd' = {} /\ index' = {}

PageStep ==
  /\ phase = "page" /\ todo = <<>>
  /\ LET pages == {p \in scan .. LastPage : LiveIndex(flash[p])}
         p == Least(pages)
         pg == flash[p]
         i == FirstFaulty(p, refd)
         r == IF BadRef(RefAt(pg, i)) THEN MendBadRef(p, i)
              ELSE IF WrongRef(pg, i, RefAt(pg, i)) THEN MendWrongRef(p, i)
              ELSE MendSecondRef(p)
     IN  IF pages = {}
         THEN /\ phase' = "bitmap" /\ scan' = low
              /\ UNCHANGED <<cursor, free, todo, soiled, refd, index>>
         ELSE IF FaultyEntries(p, refd) = {}
         THEN /\ refd' = refd \cup {q \in RefsIn(pg, EntriesOf(pg.span)) : InRange(q)}
              /\ index' = index \cup {p}
              /\ scan' = p + 1
              /\ UNCHANGED <<phase, cursor, free, todo, soiled>>
         ELSE /\ Mend(r) /\ Soil(r.todo)
              /\ IF GivesUp(p, i)
                 THEN /\ refd' = refd \cup {q \in RefsIn(pg, Before(pg, i)) : InRange(q)}
                      /\ index' = index \cup {p}
                      /\ scan' = p + 1
                 ELSE Restart
              /\ UNCHANGED phase
  /\ UNCHANGED <<flash, held, low>> /\ unchangedHistory

BitmapStep ==
  /\ phase = "bitmap" /\ todo = <<>>
  /\ LET strays == {p \in scan .. LastPage : Stray(p) /\ MendStray(p).todo # <<>>}
         p == Least(strays)
     IN  IF strays = {}
         THEN /\ IF low + ScanLen > LastPage
                 THEN phase' = "done" /\ low' = 1
                 ELSE phase' = "page" /\ low' = low + ScanLen
              /\ Restart
              /\ UNCHANGED <<cursor, free, todo, soiled>>
         ELSE /\ Mend(MendStray(p)) /\ Soil(MendStray(p).todo)
              /\ IF Redirects(p) THEN phase' = "page" /\ Restart
                 ELSE scan' = p + 1 /\ UNCHANGED <<phase, refd, index>>
              /\ UNCHANGED low
  /\ UNCHANGED <<flash, held>> /\ unchangedHistory

-----------------------------------------------------------------------------
(* Calls, writes and the loss of power.                                    *)

Writes(c) ==
  CASE c = "create" -> Create(at, Fresh)
    [] c = "append" -> Append1(at, Mine, "new")
    [] c = "modify" -> Modify(at, Mine, 0, "new")
    [] c = "rename" -> Rename(at, Mine)
    [] c = "truncate" -> Truncate1(at, Mine)
    [] c = "remove" -> Remove(at, Mine)
    [] c = "collectData" -> CollectData(at, Mine, 0)
    [] c = "collectIndex" -> CollectIndex(at, Mine, 0)

MineHeader == Find(flash, cursor, Ix(Mine), 0, NoPage)
Possible(c) ==
  \/ c = "create"
  \/ /\ MineHeader # NoPage
     /\ c \in {"modify", "truncate", "collectData"} => SizeOf(flash[MineHeader]) > 0

Begin(c) ==
  /\ phase = "idle" /\ call = "none" /\ damaged = "none" /\ losses = 0
  /\ Possible(c)
  /\ phase' = "call" /\ todo' = Writes(c)
  /\ free' = After(Free3(at))
  /\ call' = c
  /\ UNCHANGED <<flash, cursor, scan, held, low, refd, index, losses, before, damaged, twin,
                 soiled>>

Program ==
  /\ todo # <<>>
  /\ flash' = Programmed(flash, Head(todo).page, Head(todo).img)
  /\ todo' = Tail(todo)
  /\ UNCHANGED <<cursor, free, phase, scan, held, low, refd, index, soiled>> /\ unchangedHistory

Return ==
  /\ phase = "call" /\ todo = <<>>
  /\ phase' = "idle"
  /\ UNCHANGED <<flash, cursor, free, todo, scan, held, low, refd, index, soiled>>
  /\ unchangedHistory

Twins(id) ==
  \E p, q \in Page : p # q /\ LiveIndex(flash[p]) /\ LiveIndex(flash[q]) /\ Sound(flash[p])
    /\ flash[p].lu = Ix(id) /\ flash[q].lu = Ix(id) /\ flash[p].span = flash[q].span
    /\ Sound(flash[q])

(* One kind of fault at a time: power does not go when a lookup entry is   *)
(* damaged.                                                                *)
PowerLoss ==
  /\ phase \in {"call"} \cup Checking /\ todo # <<>> /\ losses < LossCap /\ damaged = "none"
  /\ losses' = losses + 1
  /\ twin' = (twin \/ Twins(Mine))
  /\ phase' = "off" /\ todo' = <<>> /\ held' = <<>> /\ Restart /\ low' = 1
  /\ UNCHANGED <<flash, cursor, free, call, before, damaged, soiled>>

Mount ==
  /\ phase = "off"
  /\ phase' = "idle" /\ cursor' = 1 /\ free' = 1
  /\ UNCHANGED <<flash, todo, scan, held, low, refd, index, soiled>> /\ unchangedHistory

(* The files before any call: of Mine its data pages, its header and the   *)
(* other index pages, then of Other a data page and its header.            *)
Stored(obj, span, body) ==
  [lu |-> obj, obj |-> obj, span |-> span, body |-> body,
   flags |-> {"used", "final"} \cup (IF obj = AsIx(obj) THEN {"index"} ELSE {})]

OldData == <<"v0", "v1", "v2", "v3">>

Layout(n, k) ==
  LET last == IF n = 0 THEN 0 ELSE IxSpan(n - 1)
      refs(t) == [i \in EntriesOf(t) |-> IF DataSpanOf(t, i) < n THEN k + DataSpanOf(t, i) + 1
                                         ELSE FREE]
      hb == k + n + 1
      other == hb + last + 1
  IN  [p \in Page |->
        IF p \in k + 1 .. k + n
        THEN Stored(Da(Mine), p - k - 1, [data |-> OldData[p - k]])
        ELSE IF p \in hb .. hb + last
        THEN Stored(Ix(Mine), p - hb, [size |-> IF p = hb THEN AsSize(n) ELSE FREE,
                                       refs |-> refs(p - hb)])
        ELSE IF p = other THEN Stored(Da(Other), 0, [data |-> "u0"])
        ELSE IF p = other + 1
        THEN Stored(Ix(Other), 0, [size |-> 1, refs |-> [NoRefs(0) EXCEPT ![0] = other]])
        ELSE Erased]

(* Bits of a lookup entry are lost: all, its index flag, or some of its    *)
(* id, which leaves the id of another file.                                *)
Damaged(o, d) ==
  CASE d = "cleared" -> DELETED
    [] d = "flag" -> AsDa(o)
    [] d = "id" -> IF o = AsIx(o) THEN Ix(Mine) ELSE Da(Mine)

Init ==
  /\ \E n \in Sizes, k \in Shifts : before = Layout(n, k)
  /\ \/ damaged = "none" /\ flash = before
     \/ \E p \in Page, d \in Damages :
          /\ before[p].lu \notin {FREE, Damaged(before[p].lu, d)}
          /\ damaged = d /\ flash = [before EXCEPT ![p].lu = Damaged(@, d)]
  /\ cursor = 1 /\ free = 1 /\ phase = "idle" /\ todo = <<>>
  /\ scan = 1 /\ held = <<>> /\ low = 1 /\ refd = {} /\ index = {}
  /\ losses = 0 /\ call = "none" /\ twin = FALSE /\ soiled = FALSE

CheckSteps == LookupStep \/ IndexStep \/ PageStep \/ BitmapStep
Next ==
  \/ StartCheck \/ CheckSteps \/ Program \/ Return \/ PowerLoss \/ Mount
  \/ \E c \in CallNames : Begin(c)

(* A call runs on in its task until it returns or power goes.  Nothing     *)
(* obliges anyone to call SPIFFS_check.  KeepsLooking is WF_vars of        *)
(* CheckSteps with its enabling condition written out.                     *)
KeepsLooking ==
  []<>~(phase \in Checking /\ todo = <<>>) \/ []<><<CheckSteps>>_vars
Spec == Init /\ [][Next]_vars /\ WF_vars(Program) /\ KeepsLooking

-----------------------------------------------------------------------------
(* Properties.  What the check leaves when pages were handed out that had  *)
(* been written before (`soiled`) is not judged.                           *)

Done == phase = "done" /\ ~soiled

(* Every variable has its type (spiffs.h:250-310).                         *)
TypeOK ==
  /\ phase \in {"idle", "call", "off", "done"} \cup Checking
  /\ cursor \in Page /\ free \in Page /\ low \in Page /\ scan \in 1 .. LastPage + 1
  /\ refd \subseteq Page /\ index \subseteq Page /\ losses \in 0 .. LossCap
  /\ call \in CallNames \cup {"none"} /\ damaged \in Damages \cup {"none"}
  /\ DOMAIN held \subseteq Page /\ (phase # "lookup" => held = <<>>)

(* A file as SPIFFS_open and SPIFFS_read find it: the pages of its data,   *)
(* FREE where there is none.                                               *)
Gone == <<DELETED>>
DataAt(f, id, s) ==
  LET x == Find(f, 1, Ix(id), IxSpan(s), NoPage)
      r == IF x = NoPage THEN FREE ELSE RefAt(f[x], Entry(s))
      read == r \in Page /\ f[r].obj = Da(id) /\ f[r].span = s /\ Used(f[r])
              /\ "index" \notin f[r].flags
  IN  IF read THEN f[r].body ELSE FREE
File(f, id) ==
  LET h == Find(f, 1, Ix(id), 0, NoPage)
  IN  IF h = NoPage THEN Gone ELSE [s \in 1 .. SizeOf(f[h]) |-> DataAt(f, id, s - 1)]

Outcomes(old) ==
  CASE call = "append" -> {old, Append(old, [data |-> "new"])}
    [] call = "modify" -> {old, [old EXCEPT ![1] = [data |-> "new"]]}
    [] call = "truncate" -> {old, SubSeq(old, 1, Len(old) - 1)}
    [] call = "remove" -> {old, Gone}
    [] OTHER -> {old}

(* Wherever power goes, twice, and the check has run to its end, the file  *)
(* the call worked on is as it was before or as the call leaves it, never  *)
(* a mixture (spiffs_check.c:653-692: the data page a cut modification has *)
(* left behind is found and put into the index).  Power lost while two     *)
(* headers of the file were complete may cost the whole file, and a        *)
(* truncation is not covered: see SurvivesOneLoss.  A page whose lookup    *)
(* entry was cleared is found by its header and put back.  Entries that    *)
(* say another file or another kind are not covered: their repairs leave   *)
(* the scan with what is no lookup entries.                                *)
OldOrNew ==
  LET old == File(before, Mine)
  IN  Done /\ call # "truncate" /\ damaged \in {"none", "cleared"} =>
        /\ File(flash, Mine) \in Outcomes(old) \cup (IF twin THEN {Gone} ELSE {})
        /\ File(flash, Fresh) \in {Gone} \cup (IF call = "create" THEN {<<>>} ELSE {})

(* What the check mends of one file after a loss of power or a cleared     *)
(* entry never costs another one its data (spiffs_check.c:209-257,         *)
(* 651-712).                                                               *)
OtherIntact ==
  Done /\ damaged \in {"none", "cleared"} => File(flash, Other) = File(before, Other)

(* A check finds nothing to mend in a file system that was not interrupted *)
(* or damaged, after any call (spiffs_check.c:461-485, 862-870).           *)
CleanUntouched == losses = 0 /\ damaged = "none" /\ phase \in Checking => todo = <<>>

(* spiffs_check.c:518-521: after the check every page is free and not      *)
(* referred to, or data that one entry of its own file's index refers to,  *)
(* or an index page that nothing refers to.  (A removal or a truncation    *)
(* that was cut leaves index pages that refer to deleted pages: see        *)
(* RemovedFileFreed.)                                                      *)
RefersTo(p) ==
  {x \in Page \X (0 .. HdrLen + IxLen) :
     /\ LiveIndex(flash[x[1]]) /\ x[2] \in EntriesOf(flash[x[1]].span)
     /\ RefAt(flash[x[1]], x[2]) = p}
Consistent(p) ==
  LET pg == flash[p]
      own == {x \in RefersTo(p) : flash[x[1]].obj = AsIx(pg.obj)
                                   /\ DataSpanOf(flash[x[1]].span, x[2]) = pg.span}
  IN  IF Used(pg) /\ "index" \notin pg.flags
      THEN Cardinality(RefersTo(p)) = 1 /\ own = RefersTo(p)
      ELSE RefersTo(p) = {}
PagesConsistent == Done /\ call \notin {"truncate", "remove"} => \A p \in Page : Consistent(p)

(* After the check every lookup entry says what the header of its page     *)
(* says, and a page whose entry is free has not been written: it may be    *)
(* handed out (spiffs_check.c:189-191, nucleus.c:785).                     *)
LookupAgrees ==
  Done => \A p \in Page :
    LET pg == flash[p]
    IN  \/ pg = Erased
        \/ pg.lu = DELETED /\ "delet" \in pg.flags
        \/ /\ pg.lu = pg.obj /\ pg.lu \notin {FREE, DELETED, MIXED}
           /\ {"used", "final"} \subseteq pg.flags /\ "delet" \notin pg.flags
           /\ (pg.lu = AsIx(pg.lu)) = ("index" \in pg.flags)

(* The flash after a check is consistent: lookup, headers and references   *)
(* say the same of every page (spiffs_check.c:189-191, 518-521).           *)
FlashConsistent == PagesConsistent /\ LookupAgrees

(* A check that has begun ends, unless power goes: the scans that are      *)
(* restarted after a repair (spiffs_check.c:627, 691, 712, 810) do not go  *)
(* round for ever.                                                         *)
CheckEnds == phase \in Checking ~> phase \in {"done", "off"}

(* spiffs.h:618-620: "In worst case (repeated powerlosses in mending or    *)
(* gc) you might have to delete some files."  So one loss of power costs   *)
(* no file.                                                                *)
SurvivesOneLoss == Done /\ losses = 1 => File(flash, Mine) \in Outcomes(File(before, Mine))

(* spiffs_nucleus.c:1801-1803 of a removal that is cut: "a file check      *)
(* would free the lost pages and mend things as the file is marked as      *)
(* fully deleted in the beginning".                                        *)
RemovedFileFreed ==
  Done /\ call = "remove" /\ File(flash, Mine) = Gone =>
    \A p \in Page : AsIx(flash[p].obj) = Ix(Mine) => ~Used(flash[p])
=============================================================================
