------------------------------- MODULE Files -------------------------------
(***************************************************************************)
(* What the file functions of spiffs.h promise: files are sequences of     *)
(* bytes, descriptors are positions in them, and a call takes effect at    *)
(* once.  Objects is shown to implement this module.                       *)
(***************************************************************************)
EXTENDS Integers, Sequences, FiniteSetsExt

CONSTANTS
  Obj,          (* files                                                   *)
  Fd,           (* descriptors                                             *)
  Val,          (* byte values                                             *)
  Lens,         (* numbers of bytes to write                               *)
  Appends       (* descriptors that are opened with SPIFFS_O_APPEND        *)

VARIABLES
  file,         (* of every file its bytes, or NoFile                      *)
  view          (* of every descriptor its file and position, or Closed    *)

vars == <<file, view>>

NoFile == [exists |-> FALSE, bytes |-> <<>>]
Holding(bytes) == [exists |-> TRUE, bytes |-> bytes]
Closed == [open |-> FALSE, obj |-> CHOOSE o \in Obj : TRUE, pos |-> 0]
At(o, n) == [open |-> TRUE, obj |-> o, pos |-> n]

Size(o) == Len(file[o].bytes)

(* `bytes` with n times v written over it from place `at` on.              *)
Written(bytes, at, n, v) ==
  [i \in 1 .. Max({Len(bytes), at + n}) |->
     IF i \in at + 1 .. at + n THEN v ELSE bytes[i]]

(* No position lies beyond the end of its file.                            *)
Clamped(o, n) ==
  [f \in Fd |-> IF view[f].open /\ view[f].obj = o
                THEN [view[f] EXCEPT !.pos = Min({@, n})] ELSE view[f]]

Init ==
  /\ file = [o \in Obj |-> NoFile]
  /\ view = [f \in Fd |-> Closed]

Open(f, o) ==
  /\ ~view[f].open
  /\ file[o].exists
  /\ view' = [view EXCEPT ![f] = At(o, 0)]
  /\ UNCHANGED file

OpenEmpty(f, o) ==
  /\ ~view[f].open
  /\ file' = [file EXCEPT ![o] = Holding(<<>>)]
  /\ view' = [Clamped(o, 0) EXCEPT ![f] = At(o, 0)]

Close(f) ==
  /\ view[f].open
  /\ view' = [view EXCEPT ![f] = Closed]
  /\ UNCHANGED file

(* SPIFFS_lseek and SPIFFS_read.                                           *)
GoTo(f, n) ==
  /\ view[f].open
  /\ n \in 0 .. Size(view[f].obj)
  /\ view' = [view EXCEPT ![f].pos = n]
  /\ UNCHANGED file

WritePlace(f) == IF f \in Appends THEN Size(view[f].obj) ELSE view[f].pos

Write(f, n, v) ==
  /\ view[f].open
  /\ LET o == view[f].obj
         at == WritePlace(f)
     IN  /\ file' = [file EXCEPT ![o].bytes = Written(@, at, n, v)]
         /\ view' = [view EXCEPT ![f].pos = at + n]

(* No room for the part of a write beyond the end of the file: the rest of *)
(* it has been done, and the position stays.                               *)
WriteWithin(f, v) ==
  /\ view[f].open
  /\ LET o == view[f].obj
         at == WritePlace(f)
     IN  /\ file' = [file EXCEPT ![o].bytes = Written(@, at, Len(@) - at, v)]
         /\ view' = [view EXCEPT ![f].pos = at]

Truncate(f, n) ==
  /\ view[f].open
  /\ LET o == view[f].obj
     IN  /\ n \in 0 .. Size(o)
         /\ file' = [file EXCEPT ![o].bytes = SubSeq(@, 1, n)]
         /\ view' = Clamped(o, n)

Remove(o) ==
  /\ file[o].exists
  /\ file' = [file EXCEPT ![o] = NoFile]
  /\ view' = [f \in Fd |-> IF view[f].open /\ view[f].obj = o THEN Closed ELSE view[f]]

Next ==
  \/ \E f \in Fd, o \in Obj : Open(f, o) \/ OpenEmpty(f, o)
  \/ \E f \in Fd : Close(f)
  \/ \E f \in Fd : view[f].open /\ \E n \in 0 .. Size(view[f].obj) : GoTo(f, n) \/ Truncate(f, n)
  \/ \E f \in Fd, v \in Val :
       \/ \E n \in Lens : Write(f, n, v)
       \/ WriteWithin(f, v)
  \/ \E o \in Obj : Remove(o)

Spec == Init /\ [][Next]_vars

=============================================================================
