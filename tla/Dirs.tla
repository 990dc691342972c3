-------------------------------- MODULE Dirs --------------------------------
(***************************************************************************)
(* The names of files and the reading of a directory, while the files are  *)
(* created, renamed, written and removed, and the collector moves their    *)
(* headers.  There is no directory on flash: a name is looked for in every *)
(* header, and a directory stream is a place in the object lookup.         *)
(*                                                                         *)
(* A call is one step.  Of the pages only the headers are told apart;      *)
(* which page is written and which block is erased is left open, see       *)
(* PageAlloc and Gc.                                                       *)
(***************************************************************************)
EXTENDS Integers

CONSTANTS
  Blocks,    (* of flash                                                   *)
  E,         (* pages of a block                                           *)
  Obj,       (* object ids                                                 *)
  Name,
  FREE, DELETED,
  USED,      (* a page in use that is not a header: data, or a further     *)
             (* index page                                                 *)
  NoName, NoObj

ASSUME DirsAssumption ==
  /\ Blocks \in Nat \ {0} /\ E \in Nat \ {0}
  /\ NoName \notin Name
  /\ Obj \cap {FREE, DELETED, USED, NoObj} = {}

(* Pages in the order of the lookup: block, and entry in the block.        *)
Page == 0 .. Blocks * E - 1

VARIABLES
  page,    (* what each page is: FREE, DELETED, USED, or a file's header  *)
  name,    (* the name in the header of each file                          *)
  dir,     (* spiffs_DIR: next is d->block and d->entry                    *)
  ent,     (* spiffs_dirent of the last SPIFFS_readdir, and whether the    *)
           (* header is still where it was (history)                       *)
  fd,      (* a descriptor: its file, and the file that was asked for      *)
  listed,  (* history: the files that were returned since opendir          *)
  stay     (* history: the files since opendir whose header never moved    *)

vars == <<page, name, dir, ent, fd, listed, stay>>

Exists(o) == name[o] # NoName
Existing == {o \in Obj : Exists(o)}
Closed == [obj |-> NoObj, asked |-> NoObj]
NoEntry == [obj |-> NoObj, pix |-> 0, kept |-> FALSE]

Init ==
  /\ page = [p \in Page |-> FREE]
  /\ name = [o \in Obj |-> NoName]
  /\ dir = [state |-> "closed", next |-> 0]
  /\ ent = NoEntry
  /\ fd = Closed
  /\ listed = {} /\ stay = {}

(* The test of the visitors that look for a header, and of                 *)
(* SPIFFS_VALIDATE_OBJIX with span 0.                                      *)
IsHeader(p) == page[p] \in Obj

(* spiffs_object_find_object_index_header_by_name.  The search begins at a *)
(* cursor that earlier searches leave, and goes round.                     *)
Named(n) == {p \in Page : IsHeader(p) /\ name[page[p]] = n}

FreePages == {p \in Page : page[p] = FREE}

(* What the histories say once the header of o has gone from its place.    *)
Left(o) ==
  /\ stay' = stay \ {o}
  /\ ent' = IF ent.obj = o THEN [ent EXCEPT !.kept = FALSE] ELSE ent

(* The header is written to page q, and the old one deleted.               *)
Moved(o, q) ==
  /\ page' = [p \in Page |-> IF p = q THEN o ELSE IF page[p] = o THEN DELETED ELSE page[p]]
  /\ Left(o)

-----------------------------------------------------------------------------
(* Files.                                                                  *)

(* SPIFFS_creat, which looks for the name while it looks for an id, and    *)
(* SPIFFS_open with SPIFFS_O_CREAT, which does so before and opens.        *)
Create(n, o, q, open) ==
  /\ Named(n) = {}
  /\ ~Exists(o) /\ q \in FreePages
  /\ page' = [page EXCEPT ![q] = o]
  /\ name' = [name EXCEPT ![o] = n]
  /\ IF open THEN fd = Closed /\ fd' = [obj |-> o, asked |-> o] ELSE UNCHANGED fd
  /\ UNCHANGED <<dir, ent, listed, stay>>

(* SPIFFS_open of a file that exists.                                      *)
Open(n) ==
  /\ fd = Closed
  /\ \E p \in Named(n) : fd' = [obj |-> page[p], asked |-> page[p]]
  /\ UNCHANGED <<page, name, dir, ent, listed, stay>>

Close ==
  /\ fd # Closed
  /\ fd' = Closed
  /\ UNCHANGED <<page, name, dir, ent, listed, stay>>

(* A write, a truncation or a sync stores the header anew, or the          *)
(* collector moves it.                                                     *)
MoveHeader(o, q) ==
  /\ Exists(o) /\ q \in FreePages
  /\ Moved(o, q)
  /\ UNCHANGED <<name, dir, fd, listed>>

(* Mutant: whether the new name is taken is not looked at.                 *)
RenameOver(old, new, q) ==
  /\ q \in FreePages
  /\ \E p \in Named(old) :
       /\ name' = [name EXCEPT ![page[p]] = new]
       /\ Moved(page[p], q)
  /\ UNCHANGED <<dir, fd, listed>>
Rename(old, new, q) ==
  /\ Named(new) = {} /\ q \in FreePages
  /\ \E p \in Named(old) :
       /\ name' = [name EXCEPT ![page[p]] = new]
       /\ Moved(page[p], q)
  /\ UNCHANGED <<dir, fd, listed>>

(* SPIFFS_remove; the event SPIFFS_EV_IX_DEL closes the descriptor.        *)
Remove(n) ==
  /\ \E p \in Named(n) :
       /\ page' = [page EXCEPT ![p] = DELETED]
       /\ name' = [name EXCEPT ![page[p]] = NoName]
       /\ fd' = IF fd.obj = page[p] THEN Closed ELSE fd
       /\ Left(page[p])
  /\ UNCHANGED <<dir, listed>>

(* The data pages and further index pages of any file.                     *)
StoreOther(q) ==
  /\ q \in FreePages
  /\ page' = [page EXCEPT ![q] = USED]
  /\ UNCHANGED <<name, dir, ent, fd, listed, stay>>

DeleteOther(p) ==
  /\ page[p] = USED
  /\ page' = [page EXCEPT ![p] = DELETED]
  /\ UNCHANGED <<name, dir, ent, fd, listed, stay>>

(* spiffs_gc_erase_block, of a block nothing is left in.                   *)
EraseBlock(b) ==
  LET pages == b * E .. b * E + E - 1
  IN  /\ \A p \in pages : page[p] \in {FREE, DELETED}
      /\ \E p \in pages : page[p] = DELETED
      /\ page' = [p \in Page |-> IF p \in pages THEN FREE ELSE page[p]]
      /\ UNCHANGED <<name, dir, ent, fd, listed, stay>>

-----------------------------------------------------------------------------
(* Directories.                                                            *)

OpenDir ==
  /\ dir.state # "open"
  /\ dir' = [state |-> "open", next |-> 0]
  /\ listed' = {} /\ stay' = Existing
  /\ UNCHANGED <<page, name, ent, fd>>

(* d->entry = entry + 1.  Mutants: d->entry = entry, and one too many.     *)
AfterNone(p) == p
AfterNext(p) == p + 2
After(p) == p + 1

Ahead == {p \in Page : p >= dir.next /\ IsHeader(p)}

(* SPIFFS_readdir finds a header at its place or behind it.                *)
ReadDirEntry ==
  /\ dir.state = "open"
  /\ \E p \in Ahead :
       /\ \A q \in Ahead : p <= q
       /\ ent' = [obj |-> page[p], pix |-> p, kept |-> TRUE]
       /\ dir' = [dir EXCEPT !.next = After(p)]
       /\ listed' = listed \cup {page[p]}
  /\ UNCHANGED <<page, name, fd, stay>>

(* It finds none, and does not go round (SPIFFS_VIS_NO_WRAP).              *)
ReadDirEnd ==
  /\ dir.state = "open" /\ Ahead = {}
  /\ dir' = [state |-> "end", next |-> 0]
  /\ listed' = {} /\ stay' = {}
  /\ UNCHANGED <<page, name, ent, fd>>

(* SPIFFS_closedir before the end.                                         *)
CloseDir ==
  /\ dir.state = "open"
  /\ dir' = [state |-> "closed", next |-> 0]
  /\ listed' = {} /\ stay' = {}
  /\ UNCHANGED <<page, name, ent, fd>>

(* What spiffs_object_open_by_page takes for a header.  Mutant: without    *)
(* the test of the span.                                                   *)
OpensInUse(p) == page[p] \notin {FREE, DELETED}
Opens(p) == IsHeader(p)

(* SPIFFS_open_by_dirent: the page of the entry, whatever it is by now.    *)
OpenByDirent ==
  /\ fd = Closed /\ ent # NoEntry
  /\ Opens(ent.pix)
  /\ fd' = [obj |-> page[ent.pix], asked |-> ent.obj]
  /\ UNCHANGED <<page, name, dir, ent, listed, stay>>

-----------------------------------------------------------------------------
ReadDir == ReadDirEntry \/ ReadDirEnd

FileCalls ==
  \/ \E n \in Name, o \in Obj, q \in FreePages, open \in BOOLEAN : Create(n, o, q, open)
  \/ \E n \in Name : Open(n) \/ Remove(n)
  \/ \E o \in Obj, q \in FreePages : MoveHeader(o, q)
  \/ \E old, new \in Name, q \in FreePages : Rename(old, new, q)
  \/ Close
  \/ \E q \in Page : StoreOther(q) \/ DeleteOther(q)
  \/ \E b \in 0 .. Blocks - 1 : EraseBlock(b)

Next == FileCalls \/ OpenDir \/ ReadDir \/ CloseDir \/ OpenByDirent

(* Who reads a directory goes on to its end, as the loop of                *)
(* spiffs_list_directory does, whatever else is called in between.         *)
Spec == Init /\ [][Next]_vars /\ WF_vars(ReadDir)

-----------------------------------------------------------------------------
(* Properties.                                                             *)

(* Every file has one header and a name of its own, through creations that *)
(* look for the name in different places, renames and removals             *)
(* (spiffs_hydrogen.c:202, 232, 936-941).                                  *)
Types ==
  /\ page \in [Page -> Obj \cup {FREE, DELETED, USED}]
  /\ name \in [Obj -> Name \cup {NoName}]
  /\ dir \in [state : {"closed", "open", "end"}, next : 0 .. Blocks * E]
  /\ ent \in [obj : Obj \cup {NoObj}, pix : Page, kept : BOOLEAN]
  /\ fd \in [obj : Obj \cup {NoObj}, asked : Obj \cup {NoObj}]
  /\ listed \subseteq Obj /\ stay \subseteq Existing
OneHeader ==
  /\ \A o \in Obj : Exists(o) <=> \E p \in Page : page[p] = o
  /\ \A p, q \in Page : IsHeader(p) /\ page[p] = page[q] => p = q
OwnName == \A o, other \in Existing : name[o] = name[other] => o = other
TypeOK == Types /\ OneHeader /\ OwnName

(* However the others move between two calls of SPIFFS_readdir, a file     *)
(* whose header stays where it is is returned once: not twice, and it is   *)
(* not missed (spiffs_hydrogen.c:1113-1127).                               *)
ListedOnce ==
  [][dir.state = "open" =>
       /\ dir'.state = "end" => stay \subseteq listed
       /\ dir'.state = "open" /\ dir'.next # dir.next => ent'.obj \notin listed \cap stay]_vars

(* A directory entry opens its own file as long as the header has not      *)
(* moved; after that another file or none, but never a page that is not a  *)
(* header (spiffs_hydrogen.c:303, spiffs_nucleus.c:1216).                  *)
EntryOpens ==
  [][fd = Closed /\ fd' # Closed =>
       /\ fd'.obj \in Existing'
       /\ fd'.obj = fd'.asked \/ ~ent.kept]_vars

(* The reading of a directory ends, though every file it returns may be    *)
(* written anew behind its place (spiffs_hydrogen.c:1124-1127).            *)
DirEnds == dir.state = "open" ~> dir.state # "open"
=============================================================================
