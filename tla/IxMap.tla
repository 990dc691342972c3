-------------------------------- MODULE IxMap --------------------------------
(***************************************************************************)
(* Index maps (SPIFFS_ix_map): arrays in the caller's memory that say, for *)
(* a range of a file, where its data pages are.  A mapped descriptor reads *)
(* through its map and no longer looks at the file's index, so that the    *)
(* map must follow every call, on any descriptor, that moves a data page.  *)
(* It follows by spiffs_cb_object_event, when an index page is stored.     *)
(*                                                                         *)
(* Of a file we keep its size in data pages.  The page that holds data     *)
(* span s of file o now is named <<o, s>>; once the data is written        *)
(* elsewhere or deleted, what still refers to the old page is Stale.  A    *)
(* call is one step: calls run under SPIFFS_LOCK, and nothing is read      *)
(* through a map while one runs.                                           *)
(***************************************************************************)
EXTENDS Integers, FiniteSets

CONSTANTS
  Obj, Fd,
  DPS,            (* SPIFFS_DATA_PAGE_SIZE                                 *)
  HdrLen, IxLen,  (* SPIFFS_OBJ_HDR_IX_LEN, SPIFFS_OBJ_IX_LEN              *)
  MaxSize,        (* bound: data pages of a file                           *)
  Offsets, Lens,  (* bound: arguments of SPIFFS_ix_map, in bytes           *)
  FarMoves        (* whether maps are moved further than their length      *)

ASSUME IxMapAssumption ==
  /\ DPS \in Nat \ {0} /\ HdrLen \in Nat \ {0} /\ IxLen \in Nat \ {0}
  /\ MaxSize \in Nat /\ Offsets \subseteq Nat /\ Lens \subseteq Nat /\ FarMoves \in BOOLEAN
  /\ Fd \subseteq Nat /\ Obj # {}

VARIABLES
  size,       (* of each file its data pages, -1 if there is no such file  *)
  fd,         (* spiffs_fd, with the ix_map it points to                   *)
  missed,     (* history: mapped descriptors that were not told of the     *)
              (* first append to their file, which is stored in place      *)
  inherited,  (* history: descriptors that kept the map of a removed file  *)
  beyond      (* history: memory that is not the map's buffer was written  *)

vars == <<size, fd, missed, inherited, beyond>>

NoPage == <<>>
Stale == <<"stale">>
Pages(o, S) == {<<o, s>> : s \in S}
Span == 0 .. MaxSize - 1

IxSpan(s) == IF s < HdrLen THEN 0 ELSE 1 + (s - HdrLen) \div IxLen
IxSpans(S) == {IxSpan(s) : s \in S}

-----------------------------------------------------------------------------
(* A map: the first data span, and the places of the data from there on.   *)

Cleared(start, n) == [start |-> start, buf |-> [e \in 0 .. n - 1 |-> NoPage]]
NoMap == Cleared(0, 0)
Mapped(f) == DOMAIN fd[f].map.buf # {}
VecLen(map) == Cardinality(DOMAIN map.buf)

(* Mutant: the last entry of a map is left out.                            *)
UpdatedButLast(map, o, ks, n) ==
  [map EXCEPT !.buf =
     [e \in DOMAIN @ |-> IF /\ IxSpan(map.start + e) \in ks /\ map.start + e < n
                            /\ e + 1 \in DOMAIN @
                         THEN <<o, map.start + e>> ELSE @[e]]]

(* spiffs_update_ix_map for index pages ks of file o, of n data pages.     *)
(* What the map holds beyond the end of the file stays.                    *)
Updated(map, o, ks, n) ==
  [map EXCEPT !.buf =
     [e \in DOMAIN @ |-> IF IxSpan(map.start + e) \in ks /\ map.start + e < n
                         THEN <<o, map.start + e>> ELSE @[e]]]

(* spiffs_cb_object_event, SPIFFS_EV_IX_UPD of index pages ks of file o.   *)
Told(fds, o, ks, n) ==
  [f \in Fd |-> IF fds[f].open /\ fds[f].obj = o
                THEN [fds[f] EXCEPT !.map = Updated(@, o, ks, n)] ELSE fds[f]]

(* Pages P hold no data any more.                                          *)
Outdated(fds, P) ==
  [f \in Fd |-> [fds[f] EXCEPT !.map.buf =
                   [e \in DOMAIN @ |-> IF @[e] \in P THEN Stale ELSE @[e]]]]

(* spiffs_populate_ix_map, from one entry on: the index pages of the rest  *)
(* of the map are visited.                                                 *)
(* Mutant: the first of them only.                                         *)
PopulatedFirst(map, from, o, n) ==
  Updated(map, o, {IxSpan(map.start + from)}, n)

Populated(map, from, o, n) ==
  Updated(map, o, IxSpans({map.start + e : e \in {d \in DOMAIN map.buf : d >= from}}), n)

(* SPIFFS_bytes_to_ix_map_entries: the entries the caller has room for.    *)
BytesToEntries(bytes) == (bytes + DPS) \div DPS

(* The entries of a map: the data pages of its first and last byte, and    *)
(* those between.                                                          *)
Entries(offset, len) == (offset + len) \div DPS - offset \div DPS + 1

-----------------------------------------------------------------------------
(* Descriptors.  SPIFFS_open takes the first that is closed; it does not   *)
(* look at its ix_map.                                                     *)

Closed == {f \in Fd : ~fd[f].open}
FirstClosed(f) == f \in Closed /\ \A g \in Closed : f <= g
ClosedFd(map) == [open |-> FALSE, obj |-> CHOOSE o \in Obj : TRUE, map |-> map]
Opens(o) == {f \in Fd : fd[f].open /\ fd[f].obj = o}
Exists(o) == size[o] >= 0

Open(f, o) ==
  /\ Exists(o) /\ FirstClosed(f)
  /\ fd' = [fd EXCEPT ![f].open = TRUE, ![f].obj = o]
  /\ UNCHANGED <<size, missed, inherited, beyond>>

(* SPIFFS_open with SPIFFS_O_CREAT.                                        *)
Create(f, o) ==
  /\ ~Exists(o) /\ FirstClosed(f)
  /\ size' = [size EXCEPT ![o] = 0]
  /\ fd' = [fd EXCEPT ![f].open = TRUE, ![f].obj = o]
  /\ UNCHANGED <<missed, inherited, beyond>>

Unmapped(F) ==
  /\ missed' = missed \ F
  /\ inherited' = inherited \ F
  /\ UNCHANGED beyond

(* spiffs_fd_return                                                        *)
Close(f) ==
  /\ fd[f].open
  /\ fd' = [fd EXCEPT ![f] = ClosedFd(NoMap)]
  /\ Unmapped({f})
  /\ UNCHANGED size

(* SPIFFS_rename and SPIFFS_stat open the file, and return the descriptor. *)
OpenAndReturn(f, o) ==
  /\ Exists(o) /\ FirstClosed(f)
  /\ fd' = [fd EXCEPT ![f].map = NoMap]
  /\ Unmapped({f})
  /\ UNCHANGED size

(* SPIFFS_unmount and SPIFFS_mount, which clears the descriptors.          *)
Remount ==
  /\ fd' = [f \in Fd |-> ClosedFd(NoMap)]
  /\ Unmapped(Fd)
  /\ UNCHANGED size

-----------------------------------------------------------------------------
(* SPIFFS_ix_map, SPIFFS_ix_unmap, SPIFFS_ix_remap.                        *)

IxMap(f, offset, len) ==
  /\ fd[f].open /\ ~Mapped(f)
  /\ LET map == Cleared(offset \div DPS, Entries(offset, len))
     IN  fd' = [fd EXCEPT ![f].map = Populated(map, 0, fd[f].obj, size[fd[f].obj])]
  /\ beyond' = (beyond \/ Entries(offset, len) > BytesToEntries(len))
  /\ UNCHANGED <<size, missed, inherited>>

IxUnmap(f) ==
  /\ fd[f].open /\ Mapped(f)
  /\ fd' = [fd EXCEPT ![f].map = NoMap]
  /\ Unmapped({f})
  /\ UNCHANGED size

(* Moved by diff: what stays in range is kept.                             *)
(* Mutant: moved the other way.                                            *)
MovedBack(map, diff) ==
  [start |-> map.start - diff,
   buf |-> [e \in DOMAIN map.buf |-> IF e + diff \in DOMAIN map.buf THEN map.buf[e + diff]
                                     ELSE NoPage]]
Moved(map, diff) ==
  [start |-> map.start + diff,
   buf |-> [e \in DOMAIN map.buf |-> IF e + diff \in DOMAIN map.buf THEN map.buf[e + diff]
                                     ELSE NoPage]]

(* Forwards by its length or more, the pointer to the buffer is cleared in *)
(* place of the buffer; backwards by more than its length, the memory      *)
(* behind the buffer is cleared too.                                       *)
Far(map, diff) == diff >= VecLen(map) \/ -diff > VecLen(map)

IxRemap(f, offset) ==
  /\ fd[f].open /\ Mapped(f)
  /\ LET map == fd[f].map
         diff == offset \div DPS - map.start
         from == IF diff > 0 THEN VecLen(map) - diff ELSE 0
     IN  /\ diff # 0
         /\ FarMoves \/ ~Far(map, diff)
         /\ fd' = [fd EXCEPT ![f].map =
                     IF diff >= VecLen(map) THEN NoMap
                     ELSE Populated(Moved(map, diff), from, fd[f].obj, size[fd[f].obj])]
         /\ beyond' = (beyond \/ Far(map, diff))
  /\ UNCHANGED <<size, missed, inherited>>

-----------------------------------------------------------------------------
(* Calls on files, and what they tell the maps.                            *)

(* SPIFFS_write beyond the end: n data pages.  The header of an empty file *)
(* is written in place, and the maps are not told of its references.       *)
Append(o, n) ==
  /\ Opens(o) # {} /\ size[o] + n <= MaxSize
  /\ LET ks == IxSpans(size[o] .. size[o] + n - 1) \ (IF size[o] = 0 THEN {0} ELSE {})
     IN  /\ size' = [size EXCEPT ![o] = @ + n]
         /\ fd' = Told(fd, o, ks, size[o] + n)
         /\ missed' = IF size[o] = 0 THEN missed \cup {f \in Opens(o) : Mapped(f)}
                      ELSE IF 0 \in ks THEN missed \ Opens(o) ELSE missed
  /\ UNCHANGED <<inherited, beyond>>

(* Data pages S are written elsewhere, and so are their index pages.       *)
Rewrite(o, S) ==
  /\ fd' = Told(Outdated(fd, Pages(o, S)), o, IxSpans(S), size[o])
  /\ missed' = IF 0 \in IxSpans(S) THEN missed \ Opens(o) ELSE missed
  /\ UNCHANGED <<size, inherited, beyond>>

(* SPIFFS_write within the file.                                           *)
Modify(o, s, n) ==
  /\ Opens(o) # {} /\ s + n <= size[o]
  /\ Rewrite(o, s .. s + n - 1)

(* The collector moves data pages of a file that one index page refers to, *)
(* and stores that page again (MOVE_OBJ_DATA).                             *)
Collect(o, S) ==
  /\ S # {} /\ \A s \in S : s < size[o]
  /\ \A s, t \in S : IxSpan(s) = IxSpan(t)
  /\ Rewrite(o, S)

(* spiffs_object_truncate: of the index page that held the reference at    *)
(* the new end, what is left is stored, later ones go.                     *)
Truncate(o, n) ==
  /\ Opens(o) # {} /\ n < size[o]
  /\ size' = [size EXCEPT ![o] = n]
  /\ fd' = Told(Outdated(fd, Pages(o, n .. size[o] - 1)), o, {IxSpan(n)}, n)
  /\ missed' = IF IxSpan(n) = 0 THEN missed \ Opens(o) ELSE missed
  /\ UNCHANGED <<inherited, beyond>>

(* SPIFFS_remove, with a descriptor of its own.  SPIFFS_EV_IX_DEL closes   *)
(* every descriptor of the file and leaves its map where it is.            *)
Remove(o) ==
  /\ Exists(o) /\ Closed # {}
  /\ size' = [size EXCEPT ![o] = -1]
  /\ LET fds == Outdated(fd, Pages(o, 0 .. size[o] - 1))
     IN  fd' = [f \in Fd |-> IF f \in Opens(o) THEN ClosedFd(fds[f].map) ELSE fds[f]]
  /\ inherited' = inherited \cup {f \in Opens(o) : Mapped(f)}
  /\ UNCHANGED <<missed, beyond>>

Init ==
  /\ size = [o \in Obj |-> -1]
  /\ fd = [f \in Fd |-> ClosedFd(NoMap)]
  /\ missed = {} /\ inherited = {} /\ beyond = FALSE

Next ==
  \/ \E f \in Fd, o \in Obj : Open(f, o) \/ Create(f, o) \/ OpenAndReturn(f, o)
  \/ \E o \in Obj : Remove(o)
  \/ \E f \in Fd :
       \/ Close(f) \/ IxUnmap(f)
       \/ \E offset \in Offsets : IxRemap(f, offset) \/ \E len \in Lens : IxMap(f, offset, len)
  \/ \E o \in Obj, n \in 0 .. MaxSize :
       \/ Truncate(o, n)
       \/ n > 0 /\ (Append(o, n) \/ \E s \in Span : Modify(o, s, n))
  \/ \E o \in Obj, S \in SUBSET Span : Collect(o, S)
  \/ Remount

Spec == Init /\ [][Next]_vars

-----------------------------------------------------------------------------
(* Properties.                                                             *)

(* Each variable has its type (spiffs_nucleus.h:448-475).                  *)
TypeOK ==
  /\ \A o \in Obj : size[o] \in -1 .. MaxSize
  /\ \A f \in Fd : fd[f].map.start \in Nat /\ fd[f].obj \in Obj
  /\ missed \subseteq Fd /\ inherited \subseteq Fd

(* What spiffs_object_read takes for the place of data span s: the map,    *)
(* where it has an entry, else the file's index.                           *)
Reads(f, s) ==
  LET map == fd[f].map
      e == s - map.start
  IN  IF e \in DOMAIN map.buf /\ map.buf[e] # NoPage THEN map.buf[e] ELSE <<fd[f].obj, s>>

(* A mapped descriptor reads its own file's data, wherever other calls,    *)
(* other descriptors and the collector have put it (spiffs.h:730: "On      *)
(* garbage collections and file data page movements, the map array will be *)
(* automatically updated").  Two cases are known to be wrong: a map that   *)
(* was not told of a first append, which matters if the file was emptied   *)
(* before, and the map of a file that was removed.                         *)
Judged(f, s) == fd[f].open /\ f \notin inherited /\ (f \in missed => IxSpan(s) # 0)

MapLeads ==
  \A f \in Fd, s \in Span :
    Judged(f, s) /\ s < size[fd[f].obj] => Reads(f, s) = <<fd[f].obj, s>>

(* A map is filled as far as the file reaches, also when the file grew     *)
(* into it, or the map was moved (spiffs.h:728: "The map will then be      *)
(* populated when the file grows").                                        *)
MapFilled ==
  \A f \in Fd : \A e \in DOMAIN fd[f].map.buf :
    LET s == fd[f].map.start + e
    IN  Judged(f, s) /\ s < size[fd[f].obj] => fd[f].map.buf[e] # NoPage

(* Only the map's own buffer is written: "number of required elements in   *)
(* the array can be derived from function SPIFFS_bytes_to_ix_map_entries   *)
(* given the length" (spiffs.h:747-749).                                   *)
BufferKept == ~beyond
=============================================================================
