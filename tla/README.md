# SPIFFS on the Pico: TLA+ models, checks and proofs

SPIFFS is a log-structured file system for NOR flash; this repository carries it
with glue for the Raspberry Pi Pico (`src/lib_winbond_spiffs`).  This directory
models its core in TLA+, checks the models with TLC on small instances, and
proves the most important properties of seven of them with TLAPS for every
geometry.

All line numbers below are of `src/lib_winbond_spiffs/`.  `PROJECT.json` maps
every definition to its lines, lists the runs, the mutants that show that each
property can fail, the findings, the hazards and the theorems.

## 1. The system

NOR flash clears bits and only erases whole blocks.  A *block* holds `E` pages
and, in its first pages, an *object lookup* with a 16-bit entry per page: FREE
(all ones), an object id, or DELETED (all zeros).  The last two words of the
lookup hold the block's erase count and a magic word.  A *file* is an object id
with a *header* (index page 0), further index pages, and data pages; an index
page refers to data pages by their place on flash.  Nothing is overwritten: to
change a page, SPIFFS writes a new one and deletes the old, and a garbage
collector moves what is in use out of a block to erase it.

| Component | State | Operations | Hard part |
|---|---|---|---|
| Page allocator (`spiffs_nucleus.c` 139-500, 755-919) | lookup on flash; free cursor, `free_blocks`, `stats_p_allocated`, `stats_p_deleted` in RAM | find_free, allocate, move, delete, scan at mount | counters kept in five places and in different orders with respect to the flash; a cursor that wraps |
| Erase, format, probe, mount (`spiffs_nucleus.c` 226-420, `spiffs_hydrogen.c` 32-175) | magic words, erase counts, `max_erase_count` | erase_block, format, mount, unmount, probe | power loss between any two flash operations |
| Garbage collector (`spiffs_gc.c`) | the index page in `fs->work`, the scan cursor | gc_check, find_candidate, clean, quick, erase_page_stats | patches references while it moves what they refer to; needs free pages itself |
| Object layer (`spiffs_nucleus.c` 921-2048) | index and data pages | create, append, modify, truncate, update header, read | order of page writes; index pages across boundaries |
| Descriptors and object events (`spiffs_nucleus.c` 1055-1165, 2258-2360) | size, offset, cached index page per descriptor | find_new, return, get, cb_object_event | cached places of pages that other calls move |
| Index map (`spiffs_nucleus.c` 606-745, `spiffs_hydrogen.c` 1292-1425) | the caller's array of page numbers | map, unmap, remap, update by events | events that do not reach a map |
| Object ids (`spiffs_nucleus.c` 2076-2240) | counts in `fs->work` | find_free_obj_id | 8-bit counters |
| Consistency check (`spiffs_check.c`) | flash after a loss of power | lookup, index and page checks | repairs while it scans |
| Names and directories (`spiffs_nucleus.c` 1676-1740, `spiffs_hydrogen.c` 292-322, 916-968, 1043-1143) | names in headers; a place in the lookup per stream | find by name, rename, opendir, readdir, open_by_dirent | headers that move between two readings |
| File API (`spiffs_hydrogen.c`) | as above | open, read, write, lseek, rename, remove, stat | |
| Newlib calls, Pico mount (`spiffs_newlib.c`, `spiffs_pico_*.c`) | descriptor mapping | _open ..., mount else format | |
| Cache (`spiffs_cache.c`) | compiled out, `SPIFFS_CACHE` is 0 | | |

The library is single threaded here (`SPIFFS_LOCK` is empty), so the
interleavings that matter are those of flash operations with a loss of power, of
calls with the collections they cause, and of calls through several descriptors.
Calls go down: API to object layer to allocator to flash; the collector is
entered by the object layer at the beginning of a call and calls back through
the object events.

What makes each part correct:

* allocator: the counters agree with the lookup; free pages follow the others in
  a block, because every scan stops at the first free entry;
* erase and mount: whenever the power goes, the file system stays mountable and
  no half erased block is taken for an erased one;
* collector: no page of a file is ever absent, every reference is right again at
  the end, nothing is left over, and it never runs out of pages midway;
* object layer, descriptors, maps: what is read is what was last written,
  through whichever descriptor;
* object ids: no file gets the id of another, and none is refused one while an
  id of the ranges that are counted is free (those past the last range are
  never given);
* check: a cut call leaves, once the check is through, the file before it or
  the file after it, other files as they were, and a consistent flash;
* names and directories: one file per name; a file nobody touches is listed
  once; a directory entry opens the file it is about.

## 2. Modules

### PageAlloc

State: `lu` (the lookup), `mounted`, the three counters, `free_cursor`, the
block in collection (`cleaning`), the page move in progress (`moving`), and the
history variable `wrapped`.

Actions: `Allocate` (find_free and the lookup entry), `MoveCopy`, `MoveMark`,
`MoveDrop` (the three flash operations of `spiffs_page_move`), `Delete`,
`FindFreeFull` (the error return that still has erased a block), `GcQuick`,
`GcStart`, `GcErase`, `GcFail`, `Mount`, `PowerLoss`, `Format`.  `FirstFree` is
the order in which `spiffs_obj_lu_find_entry_visitor` looks at pages, wrap
included.  Which block is collected and in which order it is emptied is left
open, so everything found here holds for any collector of that shape; module Gc
fills it in and is checked and proved to implement this one.

### BlockErase

State: magic word, erase count and sector contents of each block;
`config_magic`, `mounted`, `max_erase_count`; the erase in progress and its
caller; two history variables.  `EraseSector`, `WriteCount` and `WriteMagic` are
the flash operations of `spiffs_erase_block` in their order; `GcEraseBlock`,
`Mount` and `Format` are its callers; `PowerLoss` may come between any two.
`CountFinal` computes with the width of the 16-bit counter.  `ProbedBlocks` is
`spiffs_probe`.

### Gc

The collector in full: `GcCheck*` and `GcEraseBlock` are the loop of
`spiffs_gc_check`; `GcFindData`, `GcMoveData`, `GcStoreIndex`, `GcNoMoreData`
and `GcMoveIndex` are the states of `spiffs_gc_clean` (FIND_OBJ_DATA,
MOVE_OBJ_DATA, MOVE_OBJ_IX).  `Candidate` is the score of
`spiffs_gc_find_candidate`, with the weights of `spiffs_config.h`.  It runs below
an object layer of whole pages (create, append, rewrite, remove), whose own page
writes come in the order of the code, so that a collection meets every
intermediate state a loss of power can leave.  `Alloc == INSTANCE PageAlloc`
gives the allocator; `ImplementsAlloc == Alloc!Spec` says that collector and
object layer use it as PageAlloc describes.

After a loss of power in a call (`cut`), only the collector goes on: everything
else would first run SPIFFS_check, the subject of Check.  The write of a new
page (lookup entry and contents) is one step.

### Files and Objects

`Files` is what the API promises of files, in terms of sequences of bytes and
positions in them: `Open`, `OpenEmpty` (create, truncate), `Close`, `GoTo`
(lseek and read), `Write`, `WriteWithin` (a write across the end of the file
whose second half was refused), `Truncate`, `Remove`, each in one step.

`Objects` is the object layer and the API functions above it, one page write at
a time.

| Variable | In the code |
|---|---|
| `flash` | of each page FREE, DELETED, a data page (object, span, bytes), or an index page (object, span, size, references) |
| `fd` | `spiffs_fd`: `hdr` is `objix_hdr_pix`, `cspan` and `cpix` the cursor, `pos` is `fdoffset` |
| `call` | arguments and locals of the call that runs, with `fs->work` |
| `calls` | history: how many calls were begun |
| `file`, `view` | history: what a fresh descriptor would read of each file, and the descriptors, both as of the last return |
| `short` | history: the call that ran out of pages midway, or "none" |

A call is begun (`Create`, `Write`, `Truncate`, `OpenTruncate`, `Remove`), runs
`spiffs_gc_check` (`Gc...`), and goes on page by page: `AppendLoad`,
`AppendIndex`, `AppendData`, `AppendInPage`, `AppendFinish` are the branches of
the loop in `spiffs_object_append`, and so on for modify and truncate.  What
changes together between two data pages is one action: storing one index page,
the header and the events, and loading or making the next.  `Over` is the NOR
flash: programming a written place leaves a mix.

`spiffs_gc_check` lets a call go on if the pages it asks for fit (`spiffs_gc.c`
120-130, 189): `Needed` is what each call asks for, the data it writes and one
page more, rounded up, and `Enough` the test.  `LastPage` is the number of pages
that may be handed out, of all blocks but two and one page of these
(`spiffs_nucleus.c` 451-466), so that one page more is there than the test counts
on.  The call goes on without a collection (`GcSkips`), after one that erases
deleted pages (`GcErases`) and perhaps moves one page in use, or ends with
SPIFFS_ERR_FULL (`GcFull`); an allocation that finds no page lets `GcQuick` erase
first.  A collection erases all the deleted pages or none of them, the two
extremes of what the blocks they lie in may allow.  Which pages move, and that
the collector itself is right, is the subject of Gc.

What a call asks for does not always suffice: an append that begins a new index
page needs that page and the header anew beside its data, at each boundary it
goes over.  Every allocation of a running call may therefore fail
(`spiffs_nucleus.c` 458-466).  The actions that end in `Short` are these returns,
each with what the call still stores: an append the references it has written
(1411-1464), a truncation what it has removed so far, a modification nothing, so
that the index refers to pages it has replaced and deleted.  `short` says which
call it was, and nothing is followed after it.  `MidwayFull` says how far this
goes: it comes only of writes and cuts that go over the end of an index page, it
costs no other file anything, and an append leaves the bytes of before where they
are found.

`ImplementsFiles == Promise!Spec`, where `Promise == INSTANCE Files`.  The
refinement mapping is the history `file` and `view`.  `file` of the call's own
file is held back until the call returns; of every other file it is read from
flash after every single step, so that a call that disturbed another file for
one step only would be seen.

### Writes and Check

`Writes` has the flash at the grain of single writes: of each page the lookup
entry, `obj_id`, `span_ix` and the flags of its header, and its contents.
`Merge` is NOR programming, to which a second write of the same place yields
MIXED.  Each call (`Create`, `Append1`, `Modify`, `Rename`, `Truncate1`,
`Remove`, `CollectData`, `CollectIndex`) is the sequence of writes the code
makes, with the searches of `spiffs_obj_lu_find_id_and_span` and its variant by
headers.

`Check` runs one such call write by write (`Begin`, `Program`, `Return`), loses
power between any two writes (`PowerLoss`), mounts, and runs `SPIFFS_check`:

| `phase` | In `spiffs_check.c` | Repairs |
|---|---|---|
| "lookup" | `spiffs_lookup_check_v`, `..._validate` | `MendForgotten`, `MendForeign`, `MendKind`, `MendOpen` |
| "objix" | `spiffs_object_index_consistency_check_v` | `IndexRepair` |
| "page" | the first half of `spiffs_page_consistency_check_i` | `MendBadRef`, `MendWrongRef`, `MendSecondRef` |
| "bitmap" | the second half | `MendStray` |

What a pass only reads is one step up to the next thing it mends; every write of
a repair is a step, and power may go again between them.  `scan`, `low`, `refd`
and `index` are the place of the scan and the map in `fs->work`, which covers
`ScanLen` pages at a time.  Instead of a call that is cut, a behaviour may begin
with one damaged lookup entry: `"cleared"` to DELETED, without its index flag
(`"flag"`), or with the id of another file (`"id"`).

The lookup pass iterates over a lookup page in `fs->lu_work`, and reads it again
after a repair only if the repair says so (`spiffs_nucleus.c` 186-191).  The
repairs of a foreign id (`spiffs_check.c` 259-283), of a foreign id in an index
page for which nothing is rewritten (285-345) and of a wrong kind (352-410) use
that buffer for their own searches and do not say so.  `held` is what the scan
goes on with: the operators of a repair yield `Reread`, `Kept`, the number of the
block whose lookup they leave behind, or `IndexRead` if that is an index page
(115), of which every entry may be taken for any id (`GARBAGE`).  The entries
that remain in the block (`PerBlock` pages) are judged by these and not by the
flash.  Repairs after a loss of power search nothing, or have the buffer read
again, and so does that of a cleared entry; so OldOrNew
and OtherIntact speak of losses of power and of cleared entries, and only
FlashConsistent and CheckEnds of every damage (section 4).

Abstractions: data is written a page at a time; a write of the code
(`_spiffs_wr`) is all or nothing; two references programmed over each other are
never a page; the free pages suffice; there is one kind of fault in a behaviour.
When a page is handed out that was written but not marked (power went before
the lookup entry), the code programs over it: the model does that too, sets
`soiled`, and judges nothing after it.

### IxMap

Maps in the caller's memory: `IxMap`, `IxUnmap`, `IxRemap`, and every call that
moves data (`Append`, `Modify`, `Truncate`, `Rewrite`, `Collect`, `Remove`), with
the events it sends and what `spiffs_update_ix_map` makes of them.  The page of
data span s of file o is named <<o, s>> as long as it holds the data, and
`Stale` in every map that still has it afterwards; so the property is that no
entry a read would use is stale.  A call is one step.

### FreeObjId

`spiffs_obj_lu_find_free_obj_id`: `Count` is a scan with the counting visitor,
`Select` the choice of a range and its narrowing, `SearchBitmap` the last scan.
Files are ids; they come with `Created` and go with `Remove`, so the search meets
every set of ids.  Counters are bytes.  FreeObjIdAssumption says that the first
ranges have fewer ids than a byte can count and fit a bitmap, which with 2^15 ids
means pages of 128 bytes or more; the code says of smaller ones "todo"
(`spiffs_nucleus.c` 2227).

### Dirs

The headers among the pages, the names in them, one directory stream, the last
entry read from it, and one descriptor.  `Create`, `Open`, `Rename` and `Remove`
look for names as the code does; `MoveHeader` is any call or collection that
stores a header anew, at any free page; `StoreOther`, `DeleteOther` and
`EraseBlock` are everything else that happens to pages.  `ReadDirEntry` and
`ReadDirEnd` go on from the stream's place.  `listed` and `stay` are histories:
the files returned, and the files whose header has not moved since opendir.

## 3. Runs

| Run | Instance | Shows |
|---|---|---|
| PageAlloc | 3 blocks of 2 pages | StatsExact, FreeBlocksNotUnderCounted, NoHoles over every order of operations |
| BlockErase | 4 blocks of 2 sectors, erase counts to 4 | MountablePastFormat, MagicMeansErased, ProbeFindsSize, AgesTrue |
| Gc | 4 blocks of 3 pages, two files of 2 data pages under 2 index pages, 5 calls | NoPageLost, IndexIntact, NothingLeftOver, NoStepFails, ImplementsAlloc |
| Objects | 2 files, 2 descriptors (one appends), pages of 2 bytes, 1 reference per index page, writes of 2 and 9 bytes, 17 pages, 4 calls | DescriptorsAgree, NothingStray, AppendOnlyAdds, MidwayFull, ImplementsFiles |
| ObjectsTruncate | pages of 3 bytes, "short" cuts allowed, 5 calls | *violation* of BytesAsWritten |
| ObjectsEdge | pages of 1 byte, "edge" cuts allowed, 6 calls | *violation* of OneIndexPage |
| Check | 18 pages, 9 of them in `fs->work` at a time; a file of 0 to 4 data pages under up to 3 index pages and another; one call, or one damaged lookup entry; 2 losses of power | OldOrNew, OtherIntact, CleanUntouched, FlashConsistent, CheckEnds |
| CheckOneLoss | the same, a rename, 1 loss of power | *violation* of SurvivesOneLoss |
| IxMap | 2 files of up to 3 data pages under 2 index pages, 2 descriptors, maps that begin and end within a page | MapLeads, MapFilled |
| IxMapBuffer | the same, maps of half a page too, moved by any distance | *violation* of BufferKept |
| FreeObjId | pages of 3 bytes of 3 bits, a byte counts to 7; 15 ids | FreshId, FullIsFull, SearchEnds |
| Dirs | 2 blocks of 2 pages, 2 files, 3 names | ListedOnce, EntryOpens, DirEnds; TypeOK: one header and one name each |

Bounds.  Three blocks are the fewest SPIFFS accepts: two are always held in
reserve.  Two pages a block are enough for a block to be partly used, for the
cursor to stand in, before and behind a block, and for holes.  `FreeCap` stops
`free_blocks` from being driven up without end by collecting blocks that are
free (section 4, "Seen and not run"); `CountCap` stops erases so that the counter
does not wrap; `CallCap` is the number of writing calls in a behaviour: five are
a file written, rewritten and removed, or two files, with up to five collections
in each call.  In Gc the fourth block lets some calls skip the collection and
others need it, and twelve pages for two files of four pages each leave the
collector with data of two index pages, and of two files, in one block.

In Objects a page refers to one data page, so that every data page is under an
index page of its own: a file of nine bytes has five of each, and a write of nine
bytes goes over four boundaries, which is where a call needs more pages than it
asks for.  17 pages are few enough for such a write to be let through and run out
of them, and for calls to be refused, and enough for all else to go on.  A write
of two bytes starts, ends and stays within a page or crosses into the next.
`CallCap` bounds the calls that change something (create, write, truncate,
remove, rename), with any number of opens, closes, seeks and reads between them;
a write that adds more than `Long` bytes counts as two.  A collection moves page
1 or 4 (`Movable`), which hold a header, another index page or data, of either
file, depending on what came before.  `OwnVal` lets each descriptor write one
value only, its own, so that what one has written over the other's bytes can
still be told.  Smaller bounds suffice for the two violations.
`Cuts` names the kinds of truncation that are called.  **The passing runs allow
"clean" cuts only**: the other two kinds are the ones the code does wrong
(section 4), and what the passing runs show is that the rest is right.

In Check, `Shifts` places the files at different pages, so that the boundary of
the range in `fs->work` and the wrap of the search cursor fall before, between
and behind the pages of one span.  Two losses are one in the call and one in the
check that follows, or two in the check.  In IxMap, `FarMoves` is FALSE and the
maps are a page long: those that overrun their buffer are IxMapBuffer's.
In FreeObjId fifteen ids fall into three ranges of four and then into a bitmap
of nine bits; the ids past the last range are the case FullIsFull allows for.
Three names in Dirs let a file be renamed while both exist.

Deadlock is checked in every run but those of Objects, which stop when the calls
are used up, and of Check, which stop when a check is done: elsewhere the system
can always lose power, mount or begin a call.

Fairness.  It is assumed only of what runs on by itself:

* Check: `WF(Program)`, as a call that has begun goes on to its next write, and
  `KeepsLooking`, as does a check.  Nobody is obliged to call SPIFFS_check, and
  power need not come back.  `CheckEnds` follows: the scans that start over
  after a repair do not go round for ever;
* FreeObjId: `WF(Search)`, one loop in one task; `SearchEnds`;
* Dirs: `WF(ReadDir)`, the loop of `spiffs_list_entries`
  (`spiffs_directory.c` 124).  `DirEnds` holds whatever else is called between
  two readings.

## 4. What the violations show

1. *BytesAsWritten* in ObjectsTruncate (`spiffs.h` 507: "Truncates a file at
   given size").  `spiffs_nucleus.c` 1845 decides by the bytes left to cut
   whether the last page goes as a whole.  Cutting less than a page so that the
   end falls into the page before the last one shortens the wrong page: the last
   one stays, the other keeps the bytes cut off, and the next append programs
   over them.  Example with 3 bytes a page: write 4, truncate to 2, write 1; the
   third byte is a mix of two.
2. *OneIndexPage* in ObjectsEdge (`spiffs_nucleus.c` 1335: "on first pass, we
   load existing object index page").  A file cut to exactly what one index page
   refers to keeps the next index page, emptied.  The append that follows makes
   a second one of the same span, as the size tells it that there is none; a
   descriptor opened later may find either, and the old one refers to nothing.
   With `DescriptorsAgree` or `BytesAsWritten` in place of OneIndexPage the same
   instance shows that the bytes appended cannot be read.
3. *SurvivesOneLoss* in CheckOneLoss (`spiffs.h` 618: "In worst case (repeated
   powerlosses in mending or gc) you might have to delete some files").  One loss
   of power in SPIFFS_rename, between finishing the new header and deleting the
   old one, leaves two complete headers that refer to the same data.  The check
   meets the second reference (`spiffs_check.c` 701-712), marks the header found
   by a search for deletion and deletes the page it is looking at, the other one:
   both are gone, and the data with them.
4. *BufferKept* in IxMapBuffer (`spiffs.h` 747-749: the "number of required
   elements in the array can be derived from function
   SPIFFS_bytes_to_ix_map_entries given the length").  A map has an entry for
   each page from that of its first byte to that of its last
   (`spiffs_hydrogen.c` 1314), which depends on the offset too: offset 1 and
   length 1 at 2 bytes a page fill two entries of a buffer sized for one.

Seen and not run.  Some of these were violation runs at an earlier stage; the
definitions of those in parentheses are still there to be checked.

* `SPIFFS_gc_quick` with an argument above zero erases a block with free pages,
  possibly the one the free cursor is in; the next page goes behind free
  entries, where the collector does not look (`spiffs_gc.c` 283; PageAlloc,
  FreeSuffix).  With argument 0, the only one the library uses, NoHoles is
  proved.
* A cursor in a full block before the one being cleaned, as after a mount, scans
  into it, against `spiffs_gc.c` 396 (Gc, CleanedBlockNotUsed).  NoPageLost
  shows that no page is lost by it.
* With the condition at `spiffs_gc.c` 299 commented out a free block can be
  collected, and `free_blocks` counts it twice (Gc, FreeBlocksExact).
* The erase counter wraps at half the range of its type, and the test for a wrap
  at `spiffs_nucleus.c` 400 asks for a distance of more than half of it: a mount
  after a wrap goes on from the highest count.
* A removal that is cut after its header is gone leaves index pages that the
  check keeps, with the data they refer to, although `spiffs_nucleus.c` 1801 says
  that a check frees them (Check, RemovedFileFreed).  A cut truncation may cost
  the whole file, as SurvivesOneLoss would show with "truncate" in `CallNames`.
* The check deletes the header of an empty file whose lookup entry lost bits
  (`spiffs_check.c` 401-404).
* A map is not told of the first append to its file, which stores the header in
  place (`spiffs_nucleus.c` 1454): if the file was emptied before, the map leads
  to deleted pages.  A descriptor keeps the map of a removed file, and whoever
  opens a file with it next reads through it.  MapLeads leaves both out
  (`missed`, `inherited`).
* `SPIFFS_ix_remap` by the map's length or more clears from the address of the
  pointer (`spiffs_hydrogen.c` 1382), or behind the buffer: BufferKept fails with
  `FarMoves` TRUE and `Lens` = {2}, where the sizes are right.
* A lookup entry that lost the bits of its id, or its index flag, may cost other
  pages: its repair leaves another lookup page, or an index page, in
  `fs->lu_work`, and the scan takes the pages behind it in the block for what
  that says (`spiffs_check.c` 259-283, 285-345 and 352-410).  With "id" or "flag"
  not excluded OtherIntact fails, and OldOrNew.
* A modification that runs out of pages midway has deleted the data pages it
  replaced, and does not store the references to the new ones
  (`spiffs_nucleus.c` 1574-1586): the bytes it was to write over are lost.  An
  append that runs out leaves pages that no index page refers to, and a size in
  its descriptor that the header does not have.  A truncation over two or more
  boundaries that ends within a page, and runs out there, may lose the bytes of
  that page that were to stay.  MidwayFull allows these.
* `SPIFFS_open_by_dirent` opens what is at the entry's page by then, if that is a
  header, and does not compare the object id of the entry (`spiffs.h` 433: the
  dirent "already knows where the file resides").  EntryOpens says exactly when.
* The count of ids sees headers only, so that the id of pages that outlived their
  header may be given again.

## 5. Proofs

All theorems hold for every value of the constants that the named assumptions of
the modules allow.

`PageAllocProofs`, first `TypeCorrect`, and `NoHolesCorrect`, assuming that
`SPIFFS_gc_quick` is called with 0 only.  NoHoles is not inductive: that the next
page goes to the first free entry of a block depends on where the cursor stands,
and on the page a move has reserved but not yet marked.  `IInv` adds what is
needed: the pages that may still be handed out (`Avail`, the free ones less the
reserved one) form a suffix of each block, the cursor stands on the first of them
if it stands inside a block, the page reserved comes right before them, and the
cursor is not in the block being cleaned.  The step lemmas follow the actions of
`Next`; the lemma about `FindFree` carries the work.  `IInv` needs only finite
geometry, no cardinality.

Then, for any geometry and any argument of `SPIFFS_gc_quick`, the counters:
`StatsExactCorrect` and `FreeBlocksCorrect`.  StatsExact is inductive with
`MoveInv` (a move in progress has a used source and a free page reserved) and
with the fact that nothing is in progress on an unmounted flash: each lemma says
what one write does to the sets that are counted.  For free_blocks the invariant
counts the free blocks whose first page is not reserved (`Unreserved`), because
the allocation that reserves it has taken the block off the counter before the
lookup says so; `spiffs_gc_quick` may count up to one block too much, never too
few.

`BlockEraseProofs`, for any number of blocks and sectors and any width of the
counters: `TypeCorrect`, `MountableCorrect` (two blocks never lack their magic at
once), `MagicCorrect` and `ProbeCorrect`.  The invariant says which blocks may
lack their magic in each stage of each caller: the one being erased, and none but
that unless a format is under way that has never been completed.

It goes on with `AgesCorrect`, assuming that the counter stays clear of its
wrap (CountCap + B + 1 < SPIFFS_OBJ_ID_IX_FLAG; past it AgesTrue is false).  A
mount starts again one above the highest count on flash, so what has to be shown
is that the counts themselves stay bounded: a format that is cut again and again,
each time one block earlier, raises a count by one each time, and `Limited` and
`RoomToErase` bound the count of block b by CountCap + B - b for that reason.
`Ahead` and `Young` are AgesTrue for the states between, `Written` and
`CounterOf` what is on flash and in RAM midway.

`GcProofs`, for any geometry, any number of files and any size of file and index
page: `TypeCorrect`, `Refinement` (Spec => ImplementsAlloc) and `FreePagesLast`.
A step of Gc is one of PageAlloc or none, and for most of them that is seen from
the definition.  What takes an argument is `GcEraseBlock`, as PageAlloc erases
only a block without pages in use.  The index scan of `spiffs_gc_clean` passes
over data pages, so it is the data scan that must have moved them all, and that
one goes back and forth: it leaves off at a data page, moves every data page of
the same index page from the beginning of the block on, and resumes after the
entry where it left off.
`ScanInv` says of each state what the scan has behind it (`Swept`), that the
index page in hand is still the one the data pages of that group belong to
(`IndexInHand`), and what it means that the free cursor comes back into the block
being emptied, as it may (section 4, CleanedBlockNotUsed): the copies made there
lie ahead of the scan, which will move them out again (`CursorBack`).  For that
the free pages of a block must be its last (`Order` of PageAlloc, which holds
with argument 0 of `SPIFFS_gc_quick` even if the cursor wraps; its lemmas are
taken from `PageAllocProofs` by INSTANCE): a scan that has passed no free page
has none behind it.  `Linked` and `CallOK` say how collector, move and call go
together, `Copied` that the copy of a move has the span of its source.

Its second half goes on with the files: `PagesKept`, `IndexWhole` and `NothingStays`
(NoPageLost, IndexIntact, NothingLeftOver).  None of the three is inductive: while
a page moves it is there twice, and while data pages move, the references that
are right are those in `fs->work`, not on flash.  So the invariant is not about
the pages on flash but about `View`: the pages as they will be once the move in
progress is over, with the references of the index page in hand taken from
`fs->work`.  `MoveMark` and `MoveDrop` do not change the view; nearly every other
step adds a page to it, drops one or lets one change its place, and there is one
lemma for each of the three (`FillStep`, `DeleteStep`, `MoveStep`).  `Kept` says of the view what NoPageLost says of flash, and
it holds whatever is cut.  `Clean` is for as long as no call was cut short: every
page belongs to a file (`Owned`), none is there twice (`OneEach`), the index pages
refer to the data pages (`Refer`), each with the exception that the call in
progress makes for its page, and `Written` is what that call has written so far,
which the steps after it rely on.  NoPageLost follows as the source of a move is
there until the copy is marked; the other two as, between calls, the view is the
flash.  A loss of power in a move undoes the view, hence `Kept` must find the
source again; and what a call that was cut leaves behind is not `Clean`, which is
why the last two theorems say "none was cut short".

`IxMapProofs`, for any page size, any layout of index pages and any number of
files and descriptors: `TypeCorrect`, `MapLeadsCorrect` and `MapFilledCorrect`.
`IInv` puts MapLeads and MapFilled in one: every entry within the file, of the
descriptors the properties judge, names the page its data is in (`Leads`); and a
closed descriptor has no map unless it inherited one (`Bare`), or opening it
would not leave Leads as it was.  The lemmas are about what one event does to the
entries of one map.

`FreeObjIdProofs`: `TypeCorrect`, `FreshIdCorrect`, `FullIsFullCorrect`.  In a
search the range is either all ids, with exact counts once counted, or a range of
the first count that is known to have a free id (`IInv`).  The second needs that
ranges do not overlap and cover the ids, a chain of lemmas on division, and a
pigeonhole: a range of c ids with fewer than c files has a free one, and the
fewest being c means all are full.  As a first range fits the bitmap, there is at
most one narrowing.

`DirsProofs`: `TypeCorrect`, `ListedOnceCorrect` and `EntryOpensCorrect`, the last
two action properties.  `IInv` says that of the files that stayed exactly those
before the stream's place are listed (`InOrder`), and that the last entry still
names its file's header if the header has not moved (`Kept`).

`ObjectsProofs`, on the lemmas of `ObjectsLemmas`, for files of any length, pages
and index pages of any size, any
number of files, descriptors and calls: `Invariant`, `TypeCorrect`,
`DescriptorsKept`, `StrayNone`, `AppendKeeps`, `FilesRead` (DescriptorsAgree,
NothingStray, AppendOnlyAdds, BytesAsWritten with OneIndexPage) and `Refinement`
(ImplementsFiles: the calls, in as many steps as they take, do at once what Files
says).  One hypothesis is in each theorem, `Cuts \subseteq {"clean"}`: with the
other kinds of truncation BytesAsWritten, OneIndexPage and NothingStray are false
(section 4), and so `StrayNone` says nothing of them.  Nothing is assumed about
free pages: a call may be refused at its beginning and may run out of pages at
any of its allocations.  `IInv` is `Core`, below, as long as none has run out
midway, and only the types afterwards, where DescriptorsAgree and NothingStray no
longer hold.  The step that runs out leaves `file` and `view` as they are, and so
stutters in Files: what it may cost is in MidwayFull, not in Refinement.

The properties speak of the time between two calls; within one nothing of what
they say need hold.  An append or a modification has some references in
`fs->work` and others on flash, a header whose size is of before, descriptors
that are told of it at the end only, and a truncation goes through the file
backwards.  The invariant `Core` therefore says where the bytes are in the midst
of a call:

* `Current` is what the file of the call in progress would be if the call ended
  here: the old bytes with those written so far over them, or cut to what the
  truncation has got to;
* `Table` is the table of its data pages, from `fs->work` for the index page in
  hand and from flash elsewhere;
* `Layout` says that this table leads to pages with exactly those bytes, the
  rest of the last page erased, that there is no other data page, and no index
  page that is neither the header, in hand, nor in use;
* `FdOK` says that every descriptor knows its header and the page of its cursor
  at every instant, which is what the object events are for; `SizesAgree` which
  sizes are right, and when;
* `CallOK` has a part for each kind of call: what its locals are to each other
  and to flash.  For an append this includes that the index page on flash still
  holds every reference to the old bytes, hence AppendOnlyAdds;
* `Exist` and `Views` tie the history to it.

Core is a predicate of the five variables, so that the lemmas can say what one
helper (`HeaderMoved`, `IndexMoved`, `Event`) does to its parts before the next
one follows in the same action.  `StoreWritten`, `StoreMoved` and `StoreHeader`
store the index page in hand, `WroteOn` and `WroteKeeps` add a page of data to it,
`CutGoes` and `CutKeeps` take one away; `CoreKept` puts the actions together, with
one lemma for each.

`Refinement` rests on the same invariant.  The step in which a call returns is the
step of Files, and all others are stutters (`NoEffect`), because view,
and of file what the call in progress works on, are recorded at the return only
(`Record`), and the pages of the other files stay.  That file is then what the promise
says follows from `Current` being complete: `AppendFinishPromised`,
`ModifyFinishPromised` and `TruncatePromised` say so of the calls that succeed,
`WriteFullPromised` and `GcFullPromised` of those that do not, where a write has
written a part and every other call nothing.  For view each lemma about a call
that moves a cursor says which descriptors it moves (`Repositioned`), and the one
about truncation that those beyond the end go back to it (`Cropped`).

Model-checked only: everything of Check, Files and Writes; NoStepFails of Gc,
which is about ENABLED, and which covers calls that write one data page;
MidwayFull of Objects, which is about numbers of pages and the geometry of each
call; and the liveness properties, which the prover does not reach.  For Check the invariant would have to say of every point at
which a call or a repair can be cut what the flash is, and its files are of four
data pages at most, so that TLC's instances are most of what a theorem would be about.

## 6. Not modelled, and the plan

What would come next:

1. proofs: the index check of Check;
2. what follows a call that ran out of pages midway: further calls in Objects, a
   check in Check, whose repairs may themselves run out;
3. SPIFFS_stat, metadata and the permission flags, of which only the refusal to
   read or write is of interest.

Not in Objects: names, permission flags, O_EXCL and metadata; the object ids of
new files, which come from FreeObjId; errors of the flash; a loss of power
within a call, which Gc has for whole pages and Check for single writes; calls
after one that ran out of pages midway; the case that spiffs_gc_check moves pages
and then refuses.  Not in Dirs: SPIFFS_stat,
open_by_page with a page of the caller's own, and reading on from a stream that
has ended.

Not modelled: the Newlib calls (`spiffs_newlib.c`) are a table of descriptors
above the file API without state of their own; read only: `_open` masks its
flags with 0x7FF and so drops newlib's O_EXCL, 0x800.  Mounting on the Pico
(`spiffs_pico_onboard.c`) is straight-line code: mount, and format if there is no
file system; after line 184 the file system is formatted and not mounted.  Left
out for good: the cache (compiled out), the flash drivers and the SPI protocol,
which in this repository never report an error, wording and layout of the
directory listing, and the build files.
