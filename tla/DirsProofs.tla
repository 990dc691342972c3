----------------------------- MODULE DirsProofs -----------------------------
(***************************************************************************)
(* Proofs about names and directories: for any flash and any number of     *)
(* files, whatever is created, renamed, written, removed or collected      *)
(* while a directory is read.                                              *)
(***************************************************************************)
EXTENDS Dirs, TLAPS

-----------------------------------------------------------------------------
(* The inductive invariant.                                                *)

(* An entry that was kept up with is that of its page.                     *)
Kept == ent.kept => ent.obj \in Obj /\ page[ent.pix] = ent.obj

(* Of the files whose headers stayed, those before the place of the stream *)
(* were returned, and no others.                                           *)
InOrder == \A p \in Page : page[p] \in stay => (page[p] \in listed <=> p < dir.next)

IInv == TypeOK /\ Kept /\ InOrder

-----------------------------------------------------------------------------
LEMMA Geometry ==
  /\ Blocks * E \in Nat /\ 0 \in Page /\ 0 \in 0 .. Blocks * E
  /\ \A p \in Page : p \in Nat /\ p + 1 \in 0 .. Blocks * E
  /\ NoName \notin Name
  /\ NoObj \notin Obj /\ FREE \notin Obj /\ DELETED \notin Obj /\ USED \notin Obj
<1>1. Blocks \in Nat \ {0} /\ E \in Nat \ {0}
  BY DirsAssumption
<1>2. Blocks * E \in Nat /\ Blocks * E > 0
  BY <1>1, SMTT(30)
<1> DEFINE n == Blocks * E
<1>3. n \in Nat /\ n > 0 /\ Page = 0 .. n - 1
  BY <1>2 DEF Page
<1> HIDE DEF n
<1>4. /\ 0 \in Page /\ 0 \in 0 .. n
      /\ \A p \in Page : p \in Nat /\ p + 1 \in 0 .. n
  BY <1>3
<1> QED
  BY <1>2, <1>4, DirsAssumption DEF n

LEMMA InitStep == Init => IInv
<1> SUFFICES ASSUME Init PROVE IInv
  OBVIOUS
<1>1. Types
  BY Geometry DEF Init, Types, Closed, NoEntry, Existing, Exists
<1>2. OneHeader /\ OwnName
  BY Geometry DEF Init, OneHeader, OwnName, Existing, Exists, IsHeader
<1>3. Kept /\ InOrder
  BY DEF Init, Kept, InOrder, NoEntry
<1> QED
  BY <1>1, <1>2, <1>3 DEF IInv, TypeOK

(* A file is named by its header.                                          *)
LEMMA NamedFile ==
  ASSUME IInv, NEW n \in Name, NEW p \in Named(n)
  PROVE  p \in Page /\ page[p] \in Obj /\ Exists(page[p]) /\ name[page[p]] = n
BY DEF IInv, TypeOK, OneHeader, Named, IsHeader

(* Whoever has a name has a header with it.                                *)
LEMMA NameTaken ==
  ASSUME IInv, NEW n \in Name, NEW o \in Obj, name[o] = n
  PROVE  Named(n) # {}
<1>1. Exists(o)
  BY Geometry DEF Exists
<1>2. PICK p \in Page : page[p] = o
  BY <1>1 DEF IInv, TypeOK, OneHeader
<1> QED
  BY <1>2 DEF Named, IsHeader

-----------------------------------------------------------------------------
(* Steps that change the headers.                                          *)

LEMMA CreateStep ==
  ASSUME IInv, NEW n \in Name, NEW o \in Obj, NEW q \in FreePages,
         NEW open \in BOOLEAN, Create(n, o, q, open)
  PROVE  IInv'
<1>1. /\ TypeOK /\ Types /\ OneHeader /\ OwnName /\ Kept /\ InOrder
      /\ q \in Page /\ page[q] = FREE /\ ~Exists(o)
      /\ page' = [page EXCEPT ![q] = o] /\ name' = [name EXCEPT ![o] = n]
      /\ UNCHANGED <<dir, ent, listed, stay>>
  BY DEF IInv, TypeOK, Create, FreePages
<1>2. n # NoName /\ FREE \notin Obj
  BY Geometry
<1>3. fd' \in [obj : Obj \cup {NoObj}, asked : Obj \cup {NoObj}]
  BY <1>1 DEF Create, Types
<1>4. Types'
  <2>1. stay' \subseteq Existing'
    BY <1>1, <1>2 DEF Types, Existing, Exists
  <2> QED
    BY <1>1, <1>3, <2>1 DEF Types
<1>5. \A p \in Page : page[p] # o
  BY <1>1 DEF OneHeader
<1>6. OneHeader'
  BY <1>1, <1>2, <1>5 DEF Types, OneHeader, Exists, IsHeader
<1>7. OwnName'
  <2>1. \A other \in Obj : name[other] # n
    BY NameTaken DEF Create
  <2> QED
    BY <1>1, <2>1 DEF Types, OwnName, Existing, Exists
<1>8. Kept'
  BY <1>1, <1>2 DEF Types, Kept
<1>9. InOrder'
  <2>1. o \notin stay
    BY <1>1 DEF Types, Existing
  <2> QED
    BY <1>1, <2>1 DEF Types, InOrder
<1> QED
  BY <1>4, <1>6, <1>7, <1>8, <1>9 DEF IInv, TypeOK

(* The header of a file is written to another page; its name may change to *)
(* one that is not taken.                                                  *)
LEMMA MovedStep ==
  ASSUME IInv, NEW o \in Obj, Exists(o), NEW q \in FreePages, Moved(o, q),
         NEW n \in Name, name' = [name EXCEPT ![o] = n],
         \A other \in Obj \ {o} : name[other] # n,
         UNCHANGED <<dir, fd, listed>>
  PROVE  IInv'
<1>1. /\ Types /\ OneHeader /\ OwnName /\ Kept /\ InOrder
      /\ q \in Page /\ page[q] = FREE
      /\ page' = [p \in Page |-> IF p = q THEN o ELSE IF page[p] = o THEN DELETED ELSE page[p]]
      /\ stay' = stay \ {o}
      /\ ent' = IF ent.obj = o THEN [ent EXCEPT !.kept = FALSE] ELSE ent
  BY DEF IInv, TypeOK, FreePages, Moved, Left
<1>2. n # NoName /\ FREE \notin Obj /\ DELETED \notin Obj
  BY Geometry
<1>3. Types'
  <2>1. stay' \subseteq Existing'
    BY <1>1, <1>2 DEF Types, Existing, Exists
  <2>2. ent' \in [obj : Obj \cup {NoObj}, pix : Page, kept : BOOLEAN]
    BY <1>1 DEF Types
  <2> QED
    BY <1>1, <2>1, <2>2 DEF Types
<1>4. OneHeader'
  BY <1>1, <1>2 DEF Types, OneHeader, Exists, IsHeader
<1>5. OwnName'
  BY <1>1, <1>2 DEF Types, OwnName, Existing, Exists
<1>6. Kept'
  <2>1. CASE ent.obj = o
    BY <1>1, <2>1 DEF Types, Kept
  <2>2. CASE ent.obj # o
    BY <1>1, <1>2, <2>2 DEF Types, Kept
  <2> QED
    BY <2>1, <2>2
<1>7. InOrder'
  BY <1>1, <1>2 DEF Types, InOrder, Existing
<1> QED
  BY <1>3, <1>4, <1>5, <1>6, <1>7 DEF IInv, TypeOK

LEMMA MoveHeaderStep ==
  ASSUME IInv, NEW o \in Obj, NEW q \in FreePages, MoveHeader(o, q)
  PROVE  IInv'
<1>1. /\ Exists(o) /\ Moved(o, q) /\ UNCHANGED <<name, dir, fd, listed>>
      /\ Types /\ OwnName
  BY DEF MoveHeader, IInv, TypeOK
<1>2. name[o] \in Name
  BY <1>1 DEF Types, Exists
<1>3. name' = [name EXCEPT ![o] = name[o]]
  BY <1>1 DEF Types
<1>4. \A other \in Obj \ {o} : name[other] # name[o]
  BY <1>1, <1>2 DEF OwnName, Existing, Exists
<1> QED
  BY <1>1, <1>2, <1>3, <1>4, MovedStep

LEMMA RenameStep ==
  ASSUME IInv, NEW old \in Name, NEW new \in Name, NEW q \in FreePages,
         Rename(old, new, q)
  PROVE  IInv'
<1>1. PICK p \in Named(old) :
        name' = [name EXCEPT ![page[p]] = new] /\ Moved(page[p], q)
  BY DEF Rename
<1>2. page[p] \in Obj /\ Exists(page[p])
  BY NamedFile
<1>3. \A other \in Obj : name[other] # new
  BY NameTaken DEF Rename
<1>4. UNCHANGED <<dir, fd, listed>>
  BY DEF Rename
<1> QED
  BY <1>1, <1>2, <1>3, <1>4, MovedStep

LEMMA RemoveStep ==
  ASSUME IInv, NEW n \in Name, Remove(n)
  PROVE  IInv'
<1>1. PICK p \in Named(n) :
        /\ page' = [page EXCEPT ![p] = DELETED]
        /\ name' = [name EXCEPT ![page[p]] = NoName]
        /\ fd' = IF fd.obj = page[p] THEN Closed ELSE fd
        /\ Left(page[p])
  BY DEF Remove
<1> DEFINE o == page[p]
<1>2. /\ p \in Page /\ o \in Obj /\ Exists(o)
      /\ Types /\ OneHeader /\ OwnName /\ Kept /\ InOrder
      /\ stay' = stay \ {o}
      /\ ent' = IF ent.obj = o THEN [ent EXCEPT !.kept = FALSE] ELSE ent
      /\ UNCHANGED <<dir, listed>>
  BY <1>1, NamedFile DEF IInv, TypeOK, Left, Remove
<1>3. DELETED \notin Obj
  BY Geometry
<1>4. \A r \in Page : r # p => page[r] # o
  BY <1>2 DEF OneHeader, IsHeader
<1>5. Types'
  <2>1. stay' \subseteq Existing'
    BY <1>1, <1>2 DEF Types, Existing, Exists
  <2>2. ent' \in [obj : Obj \cup {NoObj}, pix : Page, kept : BOOLEAN]
    BY <1>2 DEF Types
  <2>3. fd' \in [obj : Obj \cup {NoObj}, asked : Obj \cup {NoObj}]
    BY <1>1, <1>2 DEF Types, Closed
  <2> QED
    BY <1>1, <1>2, <2>1, <2>2, <2>3 DEF Types
<1>6. OneHeader'
  BY <1>1, <1>2, <1>3, <1>4 DEF Types, OneHeader, Exists, IsHeader
<1>7. OwnName'
  BY <1>1, <1>2 DEF Types, OwnName, Existing, Exists
<1>8. Kept'
  <2>1. CASE ent.obj = o
    BY <1>2, <2>1 DEF Types, Kept
  <2>2. CASE ent.obj # o
    BY <1>1, <1>2, <2>2 DEF Types, Kept
  <2> QED
    BY <2>1, <2>2
<1>9. InOrder'
  BY <1>1, <1>2, <1>3 DEF Types, InOrder, Existing
<1> QED
  BY <1>5, <1>6, <1>7, <1>8, <1>9 DEF IInv, TypeOK

(* Pages that are no header, before and after.                             *)
LEMMA OtherStep ==
  ASSUME IInv, page' \in [Page -> Obj \cup {FREE, DELETED, USED}],
         \A p \in Page : page'[p] = page[p] \/ (page[p] \notin Obj /\ page'[p] \notin Obj),
         UNCHANGED <<name, dir, ent, fd, listed, stay>>
  PROVE  IInv'
<1>1. Types /\ OneHeader /\ OwnName /\ Kept /\ InOrder
  BY DEF IInv, TypeOK
<1>2. Types' /\ OwnName'
  BY <1>1 DEF Types, OwnName, Existing, Exists
<1>3. OneHeader'
  BY <1>1 DEF OneHeader, Exists, IsHeader
<1>4. Kept'
  BY <1>1 DEF Kept, Types
<1>5. InOrder'
  BY <1>1 DEF InOrder, Types, Existing
<1> QED
  BY <1>2, <1>3, <1>4, <1>5 DEF IInv, TypeOK

LEMMA StoreOtherStep ==
  ASSUME IInv, NEW q \in Page, StoreOther(q) \/ DeleteOther(q)
  PROVE  IInv'
<1>1. page \in [Page -> Obj \cup {FREE, DELETED, USED}]
  BY DEF IInv, TypeOK, Types
<1> QED
  BY <1>1, OtherStep, Geometry DEF StoreOther, DeleteOther, FreePages

LEMMA EraseBlockStep ==
  ASSUME IInv, NEW b, EraseBlock(b)
  PROVE  IInv'
<1>1. page \in [Page -> Obj \cup {FREE, DELETED, USED}]
  BY DEF IInv, TypeOK, Types
<1> QED
  BY <1>1, OtherStep, Geometry DEF EraseBlock

-----------------------------------------------------------------------------
(* Steps that leave the headers.                                           *)

LEMMA OpenCloseStep ==
  ASSUME IInv, (\E n \in Name : Open(n)) \/ Close \/ OpenByDirent
  PROVE  IInv'
<1>1. /\ Types /\ OneHeader /\ OwnName /\ Kept /\ InOrder
      /\ UNCHANGED <<page, name, dir, ent, listed, stay>>
  BY DEF IInv, TypeOK, Open, Close, OpenByDirent
<1>2. fd' \in [obj : Obj \cup {NoObj}, asked : Obj \cup {NoObj}]
  <2>1. CASE \E n \in Name : Open(n)
    BY <2>1 DEF Open, Named, IsHeader
  <2>2. CASE Close
    BY <2>2 DEF Close, Closed
  <2>3. CASE OpenByDirent
    BY <1>1, <2>3 DEF OpenByDirent, Opens, IsHeader, Types
  <2> QED
    BY <2>1, <2>2, <2>3
<1> QED
  BY <1>1, <1>2
  DEF IInv, TypeOK, Types, OneHeader, OwnName, Kept, InOrder, Existing, Exists, IsHeader

LEMMA DirStep ==
  ASSUME IInv, OpenDir \/ ReadDirEnd \/ CloseDir
  PROVE  IInv'
<1>1. /\ Types /\ OneHeader /\ OwnName /\ Kept /\ InOrder
      /\ UNCHANGED <<page, name, ent, fd>>
      /\ dir' \in [state : {"closed", "open", "end"}, next : {0}]
      /\ listed' = {} /\ (stay' = {} \/ stay' = Existing)
  BY DEF IInv, TypeOK, OpenDir, ReadDirEnd, CloseDir
<1>2. Types'
  BY <1>1, Geometry DEF Types, Existing, Exists
<1>3. OneHeader' /\ OwnName' /\ Kept'
  BY <1>1 DEF OneHeader, OwnName, Kept, Existing, Exists, IsHeader
<1>4. InOrder'
  <2>1. dir'.next = 0
    BY <1>1
  <2> QED
    BY <1>1, <2>1, Geometry DEF InOrder
<1> QED
  BY <1>2, <1>3, <1>4 DEF IInv, TypeOK

(* The entry returned is the first at or behind the place of the stream.   *)
LEMMA ReadStep ==
  ASSUME IInv, ReadDirEntry
  PROVE  /\ IInv'
         /\ ent'.obj \notin listed \cap stay
<1>1. PICK p \in Ahead :
        /\ \A q \in Ahead : p <= q
        /\ ent' = [obj |-> page[p], pix |-> p, kept |-> TRUE]
        /\ dir' = [dir EXCEPT !.next = After(p)]
        /\ listed' = listed \cup {page[p]}
  BY DEF ReadDirEntry
<1>2. /\ Types /\ OneHeader /\ OwnName /\ Kept /\ InOrder
      /\ UNCHANGED <<page, name, fd, stay>> /\ dir.state = "open"
  BY DEF IInv, TypeOK, ReadDirEntry
<1>3. p \in Page /\ p >= dir.next /\ page[p] \in Obj
  BY DEF Ahead, IsHeader
<1>4. /\ p \in Nat /\ p + 1 \in 0 .. Blocks * E /\ dir.next \in Nat
      /\ \A r \in Page : r \in Nat
  BY <1>2, <1>3, Geometry DEF Types
<1>5. dir' \in [state : {"closed", "open", "end"}, next : 0 .. Blocks * E]
      /\ dir'.next = p + 1
  BY <1>1, <1>2, <1>4 DEF Types, After
<1>6. Types'
  BY <1>1, <1>2, <1>3, <1>5 DEF Types, Existing, Exists
<1>7. OneHeader' /\ OwnName'
  BY <1>2 DEF OneHeader, OwnName, Existing, Exists, IsHeader
<1>8. Kept'
  BY <1>1, <1>2, <1>3 DEF Kept
<1>9. InOrder'
  <2> SUFFICES ASSUME NEW r \in Page, page[r] \in stay
               PROVE  page[r] \in listed' <=> r < p + 1
    BY <1>2, <1>5 DEF InOrder
  <2>1. page[r] \in Obj /\ (page[r] \in listed <=> r < dir.next)
    BY <1>2 DEF InOrder, Types, Existing
  <2>2. CASE r = p
    BY <1>1, <1>4, <2>2
  <2>3. CASE r # p
    <3>1. page[r] # page[p]
      BY <1>2, <1>3, <2>1, <2>3 DEF OneHeader, IsHeader
    <3>2. r >= dir.next => p <= r
      BY <1>1, <2>1 DEF Ahead, IsHeader
    <3> QED
      BY <1>1, <1>3, <1>4, <2>1, <2>3, <3>1, <3>2
  <2> QED
    BY <2>2, <2>3
<1>10. ent'.obj \notin listed \cap stay
  BY <1>1, <1>2, <1>3, <1>4 DEF InOrder
<1> QED
  BY <1>6, <1>7, <1>8, <1>9, <1>10 DEF IInv, TypeOK

LEMMA NextStep == IInv /\ [Next]_vars => IInv'
<1> SUFFICES ASSUME IInv, [Next]_vars PROVE IInv'
  OBVIOUS
<1>1. CASE FileCalls
  BY <1>1, CreateStep, MoveHeaderStep, RenameStep, RemoveStep, StoreOtherStep,
    EraseBlockStep, OpenCloseStep DEF FileCalls
<1>2. CASE OpenDir \/ ReadDirEnd \/ CloseDir
  BY <1>2, DirStep
<1>3. CASE ReadDirEntry
  BY <1>3, ReadStep
<1>4. CASE OpenByDirent
  BY <1>4, OpenCloseStep
<1>5. CASE UNCHANGED vars
  BY <1>5 DEF vars, IInv, TypeOK, Types, OneHeader, OwnName, Kept, InOrder,
    Existing, Exists, IsHeader
<1> QED
  BY <1>1, <1>2, <1>3, <1>4, <1>5 DEF Next, ReadDir

-----------------------------------------------------------------------------
(* What a step may do.                                                     *)

ListsOnce ==
  dir.state = "open" =>
    /\ dir'.state = "end" => stay \subseteq listed
    /\ dir'.state = "open" /\ dir'.next # dir.next => ent'.obj \notin listed \cap stay

OpensOwn ==
  fd = Closed /\ fd' # Closed =>
    /\ fd'.obj \in Existing'
    /\ fd'.obj = fd'.asked \/ ~ent.kept

LEMMA ListsOnceStep == IInv /\ [Next]_vars => ListsOnce
<1> SUFFICES ASSUME IInv, [Next]_vars PROVE ListsOnce
  OBVIOUS
<1>1. CASE UNCHANGED dir
  BY <1>1 DEF ListsOnce
<1>2. CASE OpenDir \/ CloseDir
  BY <1>2 DEF OpenDir, CloseDir, ListsOnce
<1>3. CASE ReadDirEntry
  <2>1. dir'.state = dir.state
    BY <1>3 DEF ReadDirEntry, IInv, TypeOK, Types
  <2> QED
    BY <1>3, <2>1, ReadStep DEF ListsOnce
<1>4. CASE ReadDirEnd
  <2>1. dir'.state = "end" /\ Ahead = {} /\ Types /\ OneHeader /\ InOrder
    BY <1>4 DEF ReadDirEnd, IInv, TypeOK
  <2>2. ASSUME NEW o \in stay PROVE o \in listed
    <3>1. o \in Obj /\ Exists(o)
      BY <2>1, <2>2 DEF Types, Existing
    <3>2. PICK p \in Page : page[p] = o
      BY <2>1, <3>1 DEF OneHeader
    <3>3. ~(p >= dir.next)
      BY <2>1, <3>1, <3>2 DEF Ahead, IsHeader
    <3>4. p < dir.next
      BY <2>1, <3>3, Geometry DEF Types
    <3> QED
      BY <2>1, <2>2, <3>2, <3>4 DEF InOrder
  <2> QED
    BY <2>1, <2>2 DEF ListsOnce
<1>5. FileCalls \/ OpenByDirent => UNCHANGED dir
  BY DEF FileCalls, OpenByDirent, Create, Open, Remove, MoveHeader, Rename, Close,
    StoreOther, DeleteOther, EraseBlock
<1> QED
  BY <1>1, <1>2, <1>3, <1>4, <1>5 DEF Next, ReadDir, vars

LEMMA OpensOwnStep == IInv /\ [Next]_vars => OpensOwn
<1> SUFFICES ASSUME IInv, [Next]_vars, fd = Closed, fd' # Closed
             PROVE  fd'.obj \in Existing' /\ (fd'.obj = fd'.asked \/ ~ent.kept)
  BY DEF OpensOwn
<1>1. Types /\ OneHeader /\ Kept
  BY DEF IInv, TypeOK
<1>2. ASSUME NEW n \in Name, NEW o \in Obj, NEW q \in FreePages,
             NEW open \in BOOLEAN, Create(n, o, q, open)
      PROVE  fd'.obj \in Existing' /\ (fd'.obj = fd'.asked \/ ~ent.kept)
  <2>1. fd' = [obj |-> o, asked |-> o] /\ name' = [name EXCEPT ![o] = n]
    BY <1>2 DEF Create
  <2> QED
    BY <1>1, <2>1, Geometry DEF Types, Existing, Exists
<1>3. ASSUME NEW n \in Name, Open(n)
      PROVE  fd'.obj \in Existing' /\ (fd'.obj = fd'.asked \/ ~ent.kept)
  <2>1. PICK p \in Named(n) : fd' = [obj |-> page[p], asked |-> page[p]]
    BY <1>3 DEF Open
  <2>2. page[p] \in Obj /\ Exists(page[p]) /\ name' = name
    BY <1>3, NamedFile DEF Open
  <2> QED
    BY <2>1, <2>2 DEF Existing, Exists
<1>4. CASE OpenByDirent
  <2>1. /\ fd' = [obj |-> page[ent.pix], asked |-> ent.obj]
        /\ page[ent.pix] \in Obj /\ ent.pix \in Page /\ name' = name
    BY <1>1, <1>4 DEF OpenByDirent, Opens, IsHeader, Types
  <2>2. Exists(page[ent.pix])
    BY <1>1, <2>1 DEF OneHeader
  <2> QED
    BY <1>1, <2>1, <2>2 DEF Kept, Existing, Exists
<1>5. CASE UNCHANGED fd
  BY <1>5
<1>6. ASSUME NEW n \in Name, Remove(n) PROVE FALSE
  <2>1. fd' = Closed \/ fd' = fd
    BY <1>6 DEF Remove
  <2> QED
    BY <2>1
<1>7. ~Close
  BY DEF Close
<1> QED
  BY <1>2, <1>3, <1>4, <1>5, <1>6, <1>7
  DEF Next, FileCalls, ReadDir, MoveHeader, Rename, StoreOther, DeleteOther,
    EraseBlock, OpenDir, ReadDirEntry, ReadDirEnd, CloseDir, vars

-----------------------------------------------------------------------------
(* The theorems.                                                           *)

(* The strengthened invariant holds in every state, whatever is called     *)
(* between two calls of SPIFFS_readdir.                                    *)
THEOREM Invariance == Spec => []IInv
<1>1. Init => IInv
  BY InitStep
<1>2. IInv /\ [Next]_vars => IInv'
  BY NextStep
<1> QED
  BY <1>1, <1>2, PTL DEF Spec

(* Every file has one header and a name of its own, for any number of      *)
(* files and pages (spiffs_hydrogen.c:202, 232, 936-941).                  *)
THEOREM TypeCorrect == Spec => []TypeOK
<1>1. IInv => TypeOK
  BY DEF IInv
<1> QED
  BY <1>1, Invariance, PTL

(* A directory is listed once and whole but for the files whose headers    *)
(* move (spiffs_hydrogen.c:1113-1127), for any number of files and pages.  *)
THEOREM ListedOnceCorrect == Spec => ListedOnce
<1>1. IInv /\ [Next]_vars => ListsOnce
  BY ListsOnceStep
<1>2. Spec => [][ListsOnce]_vars
  BY <1>1, Invariance, PTL DEF Spec
<1> QED
  BY <1>2 DEF ListedOnce, ListsOnce

(* An entry opens its own file unless the header has moved, and never a    *)
(* page that is no header (spiffs_hydrogen.c:303), for any number of files *)
(* and pages.                                                              *)
THEOREM EntryOpensCorrect == Spec => EntryOpens
<1>1. IInv /\ [Next]_vars => OpensOwn
  BY OpensOwnStep
<1>2. Spec => [][OpensOwn]_vars
  BY <1>1, Invariance, PTL DEF Spec
<1> QED
  BY <1>2 DEF EntryOpens, OpensOwn
=============================================================================
