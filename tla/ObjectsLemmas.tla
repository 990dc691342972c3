--------------------------- MODULE ObjectsLemmas ---------------------------
(***************************************************************************)
(* Lemmas about Objects, for files of any size, any number of pages,       *)
(* descriptors and calls: what its helpers do, and that every step of a    *)
(* collection, of opening, seeking and reading, of create and remove, of   *)
(* append and of modify keeps the invariant.  ObjectsProofs goes on with   *)
(* truncation.                                                             *)
(*                                                                         *)
(* Core is the invariant, a predicate of the five variables so that the    *)
(* lemmas can speak of the state before, after and between.  Its parts are *)
(* about flash (FlashOK, Layout), descriptors (FdOK), the history (Exist,  *)
(* SizesAgree, Views) and the call in progress (CallOK).                   *)
(***************************************************************************)
EXTENDS Objects, WellFoundedInduction, SequenceTheorems, TLAPS

(* What a page, a descriptor and the locals of a call may hold.            *)
Target == Page \cup {NoPage}
Sizes == 1 .. UNDEFINED_LEN
Entries(k) == {s \in Spans : IxSpan(s) = k}
References == UNION {[S -> Target] : S \in SUBSET Spans}

DataPages == [kind : {"data"}, obj : Obj, span : Spans, bytes : [0 .. DPS - 1 -> Val \cup {Erased}]]
IxPages ==
  {x \in [kind : {"index"}, obj : Obj, span : Nat, size : Sizes, ix : References] :
     x.ix \in [Entries(x.span) -> Target]}
Pages == {FreePage, DeletedPage} \cup DataPages \cup IxPages

Descriptors ==
  [open : BOOLEAN, obj : Obj, hdr : Target, size : 0 .. UNDEFINED_LEN, pos : 0 .. MaxSize,
   cspan : Nat, cpix : Target]

Locals ==
  [op : {"none", "create", "append", "modify", "truncate"}, fd : Fd, obj : Obj,
   step : {"none", "gc", "run"}, temp : BOOLEAN, start : Nat, offset : Nat, len : Nat, written : Nat,
   rest : Nat, val : Val, new : Nat, cur : Nat, span : Int, full : BOOLEAN, prev : Int,
   pix : Target, work : Pages]

FilesSet == [exists : BOOLEAN, bytes : Seq(Val)]

(* No two index pages of a file have the same span.                        *)
FlashOK(fl) ==
  /\ fl \in [Page -> Pages]
  /\ \A p, q \in Page :
       (/\ fl[p].kind = "index" /\ fl[q].kind = "index"
        /\ fl[p].obj = fl[q].obj /\ fl[p].span = fl[q].span) => p = q

(* A descriptor knows the pages of its header and of its cursor.           *)
Knows(fl, d) ==
  /\ Find(fl, d.obj, 0) # NoPage
  /\ d.hdr = Find(fl, d.obj, 0)
  /\ d.cpix = Find(fl, d.obj, d.cspan)

FdOK(fl, fds) ==
  /\ fds \in [Fd -> Descriptors]
  /\ \A f \in Fd : fds[f].open => Knows(fl, fds[f])

(* The page a file's data of span s is in, in flash and in the hands of    *)
(* call c.                                                                 *)
Ref(fl, o, s) ==
  IF Find(fl, o, IxSpan(s)) = NoPage THEN NoPage ELSE fl[Find(fl, o, IxSpan(s))].ix[s]
Table(fl, c, o) ==
  [s \in Spans |-> IF o = c.obj /\ IxSpan(s) = c.prev THEN c.work.ix[s] ELSE Ref(fl, o, s)]

(* The first byte of a data page.                                         *)
First(s) == s * DPS

(* b with n times v over it from place `at` on.                            *)
Spliced(b, at, n, v) ==
  [i \in 1 .. (IF at + n > Len(b) THEN at + n ELSE Len(b)) |-> IF i \in at + 1 .. at + n THEN v ELSE b[i]]

Current(c, fi, o) ==
  IF o = c.obj /\ c.op \in {"append", "modify"}
  THEN Spliced(fi[o].bytes, c.start, (c.offset + c.written) - c.start, c.val)
  ELSE IF o = c.obj /\ c.op = "truncate" THEN SubSeq(fi[o].bytes, 1, c.cur)
  ELSE fi[o].bytes

Laid(fl, R, o, b) ==
  /\ \A s \in Spans :
       IF First(s) < Len(b)
       THEN R[s] \in Page /\ fl[R[s]].kind = "data" /\ fl[R[s]].obj = o /\ fl[R[s]].span = s
       ELSE R[s] = NoPage
  /\ \A p \in Page : fl[p].kind = "data" /\ fl[p].obj = o =>
       /\ R[fl[p].span] = p
       /\ \A j \in 0 .. DPS - 1 :
            fl[p].bytes[j] = IF First(fl[p].span) + j < Len(b) THEN b[First(fl[p].span) + j + 1] ELSE Erased

(* An index page is the header, or the one in hand, or refers to data.     *)
Bounded(c, fi, o, k) ==
  \/ k = 0
  \/ o = c.obj /\ k = c.prev
  \/ \E s \in Entries(k) : First(s) < Len(Current(c, fi, o))

Layout(fl, c, fi) ==
  /\ \A o \in Obj : Laid(fl, Table(fl, c, o), o, Current(c, fi, o))
  /\ \A o \in Obj, k \in Nat : Find(fl, o, k) # NoPage => Bounded(c, fi, o, k)

Exist(fl, fi) ==
  /\ fi \in [Obj -> FilesSet]
  /\ \A o \in Obj : /\ fi[o].exists <=> Find(fl, o, 0) # NoPage
                    /\ ~fi[o].exists => fi[o].bytes = <<>>
                    /\ Len(fi[o].bytes) <= MaxSize

HSize(fl, o) == fl[Find(fl, o, 0)].size

Changing(c, o) ==
  /\ c.step = "run" /\ o = c.obj
  /\ c.op = "truncate" \/ (c.op = "append" /\ c.written > 0)

SizesAgree(fl, fds, c, fi) ==
  \A o \in Obj : fi[o].exists /\ ~Changing(c, o) =>
    /\ Bytes(HSize(fl, o)) = Len(Current(c, fi, o))
    /\ \A f \in Fd : fds[f].open /\ fds[f].obj = o => Bytes(fds[f].size) = Len(Current(c, fi, o))

(* The call in progress.                                                   *)
Writing(c) == c.op \in {"append", "modify"}

HoldsWork(fl, c) ==
  /\ c.prev \in Nat /\ c.step = "run" /\ c.op # "create"
  /\ c.pix # NoPage /\ c.pix = Find(fl, c.obj, c.prev)
  /\ c.work \in IxPages /\ c.work.obj = c.obj /\ c.work.span = c.prev

Creating(fds, c, fi) ==
  /\ c.prev = -1 /\ ~c.temp /\ ~c.full
  /\ ~fds[c.fd].open /\ ~fi[c.obj].exists

WritesOn(fl, fds, c, fi, vw) ==
  /\ ~c.temp /\ ~c.full
  /\ fds[c.fd].open /\ fds[c.fd].obj = c.obj /\ fds[c.fd].pos = c.start
  /\ vw[c.fd].open /\ vw[c.fd].obj = c.obj
  /\ c.start = IF c.fd \in Appends THEN Len(fi[c.obj].bytes) ELSE vw[c.fd].pos
  /\ c.start <= c.offset /\ c.len > 0 /\ c.written <= c.len
  /\ c.step = "gc" => c.written = 0 /\ c.prev = -1
  /\ \/ c.written = 0 /\ c.prev = -1
     \/ c.written > 0 /\ c.prev = IxSpan(DataSpan(c.offset + c.written - 1))
     \/ c.written < c.len /\ c.prev = IxSpan(DataSpan(c.offset + c.written))

Modifying(fl, fds, c, fi, vw) ==
  /\ WritesOn(fl, fds, c, fi, vw)
  /\ c.start = c.offset /\ c.offset + c.len <= Len(fi[c.obj].bytes)
  /\ c.rest > 0 => c.offset + c.len = Len(fi[c.obj].bytes)
  /\ c.len + c.rest \in Lens /\ c.offset + c.len + c.rest <= MaxSize
  /\ c.prev = 0 => c.work.size = HSize(fl, c.obj)

Appending(fl, fds, c, fi, vw) ==
  /\ WritesOn(fl, fds, c, fi, vw)
  /\ c.offset = Len(fi[c.obj].bytes)
  /\ c.offset + c.len <= MaxSize /\ (c.offset + c.len) - c.start \in Lens
  /\ c.prev = 0 => c.work.size = IF c.written = 0 THEN HSize(fl, c.obj) ELSE c.offset + c.written
  /\ c.prev > 0 => c.work.size = fl[c.pix].size
  /\ c.prev # -1 => \A s \in Entries(c.prev) :
       /\ fl[c.pix].ix[s] \in {NoPage, c.work.ix[s]}
       /\ First(s) < c.offset => fl[c.pix].ix[s] = c.work.ix[s]
  /\ c.offset <= Bytes(HSize(fl, c.obj))
  /\ c.offset = 0 /\ c.prev <= 0 => HSize(fl, c.obj) = UNDEFINED_LEN

Shortens(fl, fds, c, fi, vw) ==
  /\ fds[c.fd].open /\ fds[c.fd].obj = c.obj
  /\ c.new <= c.cur /\ c.cur <= Len(fi[c.obj].bytes)
  /\ c.step = "gc" => c.cur = Len(fi[c.obj].bytes)
  /\ c.full => c.new = 0 /\ c.step = "run"
  /\ c.temp => c.new = 0 /\ fds[c.fd].pos = 0
  /\ ~c.full => c.new < Len(fi[c.obj].bytes) /\ CutKind(Len(fi[c.obj].bytes), c.new) = "clean"
  /\ c.cur > c.new =>
       /\ c.span = DataSpan(c.cur - 1)
       /\ c.cur = Len(fi[c.obj].bytes) \/ c.cur % DPS = 0
       /\ c.prev # -1 => IxSpan(c.span) <= c.prev
  /\ c.cur = c.new => IF Len(fi[c.obj].bytes) = 0 THEN c.prev = -1 ELSE c.prev = IxSpan(DataSpan(c.new))

CallOK(fl, fds, c, fi, vw) ==
  \/ c = NoCall
  \/ /\ c \in Locals /\ c.op # "none" /\ c.step # "none"
     /\ c.prev = -1 \/ HoldsWork(fl, c)
     /\ c.prev = -1 /\ c.step = "run" /\ c.op # "create" => c.pix = Find(fl, c.obj, 0)
     /\ c.op = "create" => Creating(fds, c, fi)
     /\ c.op = "modify" => Modifying(fl, fds, c, fi, vw)
     /\ c.op = "append" => Appending(fl, fds, c, fi, vw)
     /\ c.op = "truncate" => Shortens(fl, fds, c, fi, vw)

Least(m, n) == IF m <= n THEN m ELSE n

(* What a descriptor's view is, while call c runs.                         *)
Seen(c, f, d, w) ==
  IF c.temp /\ f = c.fd THEN w = Promise!Closed
  ELSE IF c.op = "truncate" /\ c.step = "run" /\ d.open /\ d.obj = c.obj
  THEN \E n \in 0 .. MaxSize :
         w = Promise!At(c.obj, n) /\ Least(n, c.new) = Least(d.pos, c.new)
  ELSE IF Writing(c) /\ f = c.fd THEN w = Promise!At(c.obj, w.pos)
  ELSE w = View(d)

Views(fds, c, fi, vw) ==
  /\ vw \in [Fd -> [open : BOOLEAN, obj : Obj, pos : 0 .. MaxSize]]
  /\ \A f \in Fd : Seen(c, f, fds[f], vw[f])
  /\ \A f \in Fd : vw[f].open => vw[f].pos <= Len(fi[vw[f].obj].bytes)

Core(fl, fds, c, fi, vw) ==
  /\ FlashOK(fl)
  /\ FdOK(fl, fds)
  /\ Exist(fl, fi)
  /\ Layout(fl, c, fi)
  /\ SizesAgree(fl, fds, c, fi)
  /\ CallOK(fl, fds, c, fi, vw)
  /\ Views(fds, c, fi, vw)

(* The invariant holds until a call runs out of pages midway; from then on *)
(* there are only types.                                                   *)
Typed ==
  /\ \A p \in Page : flash[p].kind \in {"free", "deleted", "data", "index"}
  /\ \A f \in Fd :
       /\ fd[f].size \in 0 .. UNDEFINED_LEN /\ fd[f].pos \in 0 .. MaxSize
       /\ {fd[f].hdr, fd[f].cpix} \subseteq Target
  /\ call = NoCall
  /\ \A o \in Obj : \A i \in DOMAIN file[o].bytes : file[o].bytes[i] \in Val

IInv ==
  /\ calls \in 0 .. CallCap
  /\ short \in {"none", "append", "modify", "truncate"}
  /\ IF short = "none" THEN Core(flash, fd, call, file, view) ELSE Typed


-----------------------------------------------------------------------------
(* Bytes, data pages and index pages.                                      *)

LEMMA QuotientIs ==
  ASSUME NEW n \in Nat \ {0}, NEW q \in Nat, NEW r \in Nat, r < n
  PROVE  (n * q + r) \div n = q /\ (n * q + r) % n = r
OBVIOUS

LEMMA Quotient ==
  ASSUME NEW n \in Nat \ {0}, NEW s \in Nat
  PROVE  /\ s \div n \in Nat /\ s % n \in Nat /\ s % n < n
         /\ s = n * (s \div n) + (s % n)
OBVIOUS

LEMMA QuotientRises ==
  ASSUME NEW n \in Nat \ {0}, NEW s \in Nat, NEW t \in Nat, s <= t
  PROVE  s \div n <= t \div n
<1>1. /\ s \div n \in Nat /\ t \div n \in Nat /\ s % n \in Nat /\ t % n \in Nat /\ s % n < n /\ t % n < n
      /\ s = n * (s \div n) + (s % n) /\ t = n * (t \div n) + (t % n)
  BY Quotient
<1> DEFINE a == s \div n
           b == t \div n
<1>2. a \in Nat /\ b \in Nat /\ n * a + (s % n) <= n * b + (t % n)
  BY <1>1
<1> HIDE DEF a, b
<1>3. ASSUME a > b PROVE FALSE
  <2>1. PICK d \in Nat : a = b + 1 + d
    <3>1. (a - b) - 1 \in Nat /\ a = b + 1 + ((a - b) - 1)
      BY <1>2, <1>3
    <3> QED BY <3>1
  <2>2. n * a = n * b + n + n * d /\ n * d >= 0 /\ n * b \in Int /\ n * d \in Int
    BY <2>1, <1>2
  <2>3. n * b + n + n * d + (s % n) <= n * b + (t % n)
    BY <2>2, <1>2
  <2>4. n + (s % n) <= (t % n)
    BY <2>2, <2>3, <1>1
  <2> QED BY <2>4, <1>1
<1> QED BY <1>2, <1>3 DEF a, b

LEMMA SpanOf ==
  ASSUME NEW n \in Nat
  PROVE  /\ DataSpan(n) \in Nat /\ n % DPS \in 0 .. DPS - 1
         /\ First(DataSpan(n)) \in Nat /\ n = First(DataSpan(n)) + (n % DPS)
         /\ First(DataSpan(n)) = DPS * DataSpan(n)
BY ObjectsAssumption, Quotient DEF DataSpan, First

LEMMA FirstType ==
  ASSUME NEW s \in Nat
  PROVE  First(s) \in Nat /\ First(s + 1) = First(s) + DPS /\ First(0) = 0
BY ObjectsAssumption DEF First

LEMMA SpanIs ==
  ASSUME NEW s \in Nat, NEW j \in 0 .. DPS - 1
  PROVE  DataSpan(First(s) + j) = s /\ (First(s) + j) % DPS = j
<1>1. DPS \in Nat \ {0}
  BY ObjectsAssumption
<1>2. First(s) = DPS * s
  BY <1>1 DEF First
<1>3. PICK n : n = First(s) + j
  OBVIOUS
<1>4. n = DPS * s + j /\ j \in 0 .. DPS - 1
  BY <1>2, <1>3
<1>5. n \div DPS = s /\ n % DPS = j
  BY <1>1, <1>4, QuotientIs
<1> QED BY <1>3, <1>5 DEF DataSpan

LEMMA SpansRise ==
  ASSUME NEW m \in Nat, NEW n \in Nat, m <= n
  PROVE  DataSpan(m) <= DataSpan(n)
BY QuotientRises, ObjectsAssumption DEF DataSpan

LEMMA FirstRises ==
  ASSUME NEW s \in Nat, NEW t \in Nat, s < t
  PROVE  First(s) + DPS <= First(t)
<1>1. PICK d \in Nat : t = s + 1 + d
  <2>1. (t - s) - 1 \in Nat /\ t = s + 1 + ((t - s) - 1)
    OBVIOUS
  <2> QED BY <2>1
<1>2. t * DPS = s * DPS + DPS + d * DPS /\ d * DPS >= 0 /\ s * DPS \in Int /\ d * DPS \in Int
  BY <1>1, ObjectsAssumption
<1> QED BY <1>2, ObjectsAssumption DEF First

(* A page begins within the first n bytes if it is that of the last of     *)
(* them or one before it.                                                  *)
LEMMA Within ==
  ASSUME NEW s \in Nat, NEW n \in Nat \ {0}
  PROVE  First(s) < n <=> s <= DataSpan(n - 1)
<1> DEFINE t == DataSpan(n - 1)
<1>1. n - 1 \in Nat
  OBVIOUS
<1>2. t \in Nat /\ First(t) \in Nat /\ First(t) <= n - 1 /\ n - 1 < First(t) + DPS
  <2>1. (n - 1) % DPS \in 0 .. DPS - 1 /\ n - 1 = First(t) + ((n - 1) % DPS) /\ t \in Nat /\ First(t) \in Nat
    BY <1>1, SpanOf
  <2> QED BY <2>1, ObjectsAssumption
<1>3. First(s) \in Nat
  BY FirstType
<1> HIDE DEF t
<1>4. CASE s <= t
  <2>1. s = t \/ First(s) + DPS <= First(t)
    BY <1>2, <1>4, FirstRises
  <2> QED BY <1>2, <1>3, <1>4, <2>1, ObjectsAssumption DEF t
<1>5. CASE ~(s <= t)
  <2>1. First(t) + DPS <= First(s)
    BY <1>2, <1>5, FirstRises
  <2> QED BY <1>2, <1>3, <1>5, <2>1, ObjectsAssumption DEF t
<1> QED BY <1>4, <1>5

LEMMA WithinFile ==
  ASSUME NEW s \in Nat, NEW n \in 0 .. MaxSize, First(s) < n
  PROVE  s \in Spans
<1>1. n \in Nat \ {0} /\ n - 1 \in Nat /\ MaxSize \in Nat /\ n - 1 <= MaxSize
  BY FirstType, ObjectsAssumption
<1>2. s <= DataSpan(n - 1)
  BY <1>1, Within
<1>3. DataSpan(n - 1) <= DataSpan(MaxSize) /\ DataSpan(n - 1) \in Nat /\ DataSpan(MaxSize) \in Nat
  BY <1>1, SpansRise, SpanOf
<1> QED BY <1>2, <1>3 DEF Spans

LEMMA SpansType == Spans \subseteq Nat /\ \A n \in 0 .. MaxSize : DataSpan(n) \in Spans
<1>1. DataSpan(MaxSize) \in Nat /\ MaxSize \in Nat
  BY SpanOf, ObjectsAssumption
<1>2. ASSUME NEW n \in 0 .. MaxSize PROVE DataSpan(n) \in Spans
  BY <1>1, SpansRise, SpanOf DEF Spans
<1> QED BY <1>1, <1>2 DEF Spans

LEMMA IxSpanType ==
  ASSUME NEW s \in Nat
  PROVE  IxSpan(s) \in Nat
<1>1. CASE s < HdrLen
  BY <1>1 DEF IxSpan
<1>2. CASE ~(s < HdrLen)
  <2>1. s - HdrLen \in Nat
    BY <1>2, ObjectsAssumption
  <2>2. (s - HdrLen) \div IxLen \in Nat
    BY <2>1, Quotient, ObjectsAssumption
  <2> QED BY <1>2, <2>2 DEF IxSpan
<1> QED BY <1>1, <1>2

LEMMA IxSpansRise ==
  ASSUME NEW s \in Nat, NEW t \in Nat, s <= t
  PROVE  IxSpan(s) <= IxSpan(t)
<1>1. CASE s < HdrLen
  BY <1>1, IxSpanType DEF IxSpan
<1>2. CASE ~(s < HdrLen)
  <2>1. s - HdrLen \in Nat /\ t - HdrLen \in Nat /\ s - HdrLen <= t - HdrLen /\ ~(t < HdrLen)
    BY <1>2, ObjectsAssumption
  <2>2. (s - HdrLen) \div IxLen <= (t - HdrLen) \div IxLen
    BY <2>1, QuotientRises, ObjectsAssumption
  <2>3. (s - HdrLen) \div IxLen \in Nat /\ (t - HdrLen) \div IxLen \in Nat
    BY <2>1, Quotient, ObjectsAssumption
  <2> QED BY <1>2, <2>1, <2>2, <2>3 DEF IxSpan
<1> QED BY <1>1, <1>2

LEMMA IxSpanOfFirst == IxSpan(0) = 0
BY ObjectsAssumption DEF IxSpan

-----------------------------------------------------------------------------
(* Pages and where they are found.                                         *)

LEMMA LessWellFounded ==
  \E R : IsWellFoundedOn(R, Nat) /\ \A m, n \in Nat : <<m, n>> \in R <=> m < n
BY NatLessThanWellFounded DEF OpToRel

LEMMA MinimalOfSet ==
  \A R, S, T : IsWellFoundedOn(R, S) /\ T \subseteq S /\ T # {} =>
    \E m \in T : \A n \in T : ~(<<n, m>> \in R)
BY WFMin

LEMMA MinIs ==
  ASSUME NEW S \in SUBSET Nat, S # {}
  PROVE  Min(S) \in S
<1>1. PICK R : IsWellFoundedOn(R, Nat) /\ \A m, n \in Nat : <<m, n>> \in R <=> m < n
  BY LessWellFounded
<1>2. IsWellFoundedOn(R, Nat)
  BY <1>1
<1>3. PICK g \in S : \A h \in S : ~(<<h, g>> \in R)
  BY <1>2, MinimalOfSet
<1>4. \A h \in S : ~(h < g)
  BY <1>1, <1>3
<1>5. \A h \in S : g <= h
  BY <1>4
<1> QED BY <1>5 DEF Min

LEMMA MinOfTwo ==
  ASSUME NEW m \in Int, NEW n \in Int
  PROVE  Min({m, n}) = Least(m, n)
<1>1. CASE m <= n
  <2>1. \A x \in {m, n} : (\A y \in {m, n} : x <= y) <=> x = m
    BY <1>1
  <2> QED BY <1>1, <2>1 DEF Min, Least
<1>2. CASE ~(m <= n)
  <2>1. \A x \in {m, n} : (\A y \in {m, n} : x <= y) <=> x = n
    BY <1>2
  <2> QED BY <1>2, <2>1 DEF Min, Least
<1> QED BY <1>1, <1>2

LEMMA PageType == Page \subseteq Nat /\ NoPage \notin Page /\ Target \subseteq Nat /\ BadPage \notin Target
BY ObjectsAssumption DEF Page, NoPage, Target, BadPage

LEMMA KindIs ==
  ASSUME NEW x \in Pages
  PROVE  /\ x.kind \in {"free", "deleted", "data", "index"}
         /\ x.kind = "free" <=> x = FreePage
         /\ x.kind = "deleted" <=> x = DeletedPage
         /\ x.kind = "data" <=> x \in DataPages
         /\ x.kind = "index" <=> x \in IxPages
BY DEF Pages, DataPages, IxPages, FreePage, DeletedPage

LEMMA IxFields ==
  ASSUME NEW x \in IxPages
  PROVE  /\ x.kind = "index" /\ x.obj \in Obj /\ x.span \in Nat /\ x.size \in Sizes
         /\ x.ix \in [Entries(x.span) -> Target]
         /\ x \in Pages
         /\ \A n \in Sizes : [x EXCEPT !.size = n] \in IxPages
         /\ \A s \in Entries(x.span), p \in Target : [x EXCEPT !.ix[s] = p] \in IxPages
<1>1. /\ x \in [kind : {"index"}, obj : Obj, span : Nat, size : Sizes, ix : References]
      /\ x.ix \in [Entries(x.span) -> Target]
  BY DEF IxPages
<1>2. x \in Pages
  BY DEF Pages
<1>3. ASSUME NEW n \in Sizes PROVE [x EXCEPT !.size = n] \in IxPages
  <2> DEFINE y == [x EXCEPT !.size = n]
  <2>1. /\ y \in [kind : {"index"}, obj : Obj, span : Nat, size : Sizes, ix : References]
        /\ y.ix = x.ix /\ y.span = x.span
    BY <1>1
  <2> QED BY <1>1, <2>1 DEF IxPages
<1>4. ASSUME NEW s \in Entries(x.span), NEW p \in Target PROVE [x EXCEPT !.ix[s] = p] \in IxPages
  <2> DEFINE y == [x EXCEPT !.ix[s] = p]
  <2>0. [x.ix EXCEPT ![s] = p] \in [Entries(x.span) -> Target]
    BY <1>1
  <2>1. [x.ix EXCEPT ![s] = p] \in References
    BY <2>0 DEF References, Entries
  <2>2. /\ y \in [kind : {"index"}, obj : Obj, span : Nat, size : Sizes, ix : References]
        /\ y.ix = [x.ix EXCEPT ![s] = p] /\ y.span = x.span
    BY <1>1, <2>1
  <2> QED BY <2>0, <2>2 DEF IxPages
<1> QED BY <1>1, <1>2, <1>3, <1>4

LEMMA DataFields ==
  ASSUME NEW x \in DataPages
  PROVE  /\ x.kind = "data" /\ x.obj \in Obj /\ x.span \in Spans
         /\ x.bytes \in [0 .. DPS - 1 -> Val \cup {Erased}] /\ x \in Pages
BY DEF DataPages, Pages

LEMMA NewIndexPage ==
  ASSUME NEW o \in Obj, NEW k \in Nat
  PROVE  /\ IndexPage(o, k) \in IxPages
         /\ IndexPage(o, k).kind = "index" /\ IndexPage(o, k).obj = o /\ IndexPage(o, k).span = k
         /\ IndexPage(o, k).size = UNDEFINED_LEN
         /\ \A s \in Entries(k) : IndexPage(o, k).ix[s] = NoPage
<1> DEFINE x == IndexPage(o, k)
<1>1. x.ix \in [Entries(k) -> Target] /\ \A s \in Entries(k) : x.ix[s] = NoPage
  BY DEF IndexPage, Entries, Target
<1>2. x.ix \in References
  BY <1>1 DEF References, Entries
<1>3. UNDEFINED_LEN \in Sizes
  BY ObjectsAssumption DEF Sizes, UNDEFINED_LEN
<1>4. x \in [kind : {"index"}, obj : Obj, span : Nat, size : Sizes, ix : References] /\ x.span = k
  BY <1>2, <1>3 DEF IndexPage
<1> QED BY <1>1, <1>4 DEF IxPages, IndexPage

LEMMA FindIs ==
  ASSUME NEW fl, FlashOK(fl), NEW o, NEW k
  PROVE  /\ Find(fl, o, k) \in Target
         /\ Find(fl, o, k) # NoPage =>
              /\ Find(fl, o, k) \in Page /\ fl[Find(fl, o, k)] \in IxPages
              /\ fl[Find(fl, o, k)].kind = "index"
              /\ fl[Find(fl, o, k)].obj = o /\ fl[Find(fl, o, k)].span = k
         /\ \A p \in Page : fl[p].kind = "index" /\ fl[p].obj = o /\ fl[p].span = k => Find(fl, o, k) = p
<1>1. CASE IndexPages(fl, o, k) = {}
  <2>1. Find(fl, o, k) = NoPage
    BY <1>1 DEF Find
  <2> QED BY <1>1, <2>1 DEF IndexPages, Target
<1>2. CASE IndexPages(fl, o, k) # {}
  <2>1. IndexPages(fl, o, k) \in SUBSET Nat
    BY PageType DEF IndexPages
  <2>2. Find(fl, o, k) \in IndexPages(fl, o, k)
    BY <1>2, <2>1, MinIs DEF Find
  <2>3. Find(fl, o, k) \in Page /\ fl[Find(fl, o, k)].kind = "index"
        /\ fl[Find(fl, o, k)].obj = o /\ fl[Find(fl, o, k)].span = k
    BY <2>2 DEF IndexPages
  <2>4. fl[Find(fl, o, k)] \in IxPages
    BY <2>3, KindIs DEF FlashOK
  <2>5. ASSUME NEW p \in Page, fl[p].kind = "index", fl[p].obj = o, fl[p].span = k PROVE Find(fl, o, k) = p
    BY <2>3, <2>5 DEF FlashOK
  <2> QED BY <2>3, <2>4, <2>5 DEF Target
<1> QED BY <1>1, <1>2

LEMMA NextFreeIs ==
  ASSUME NEW fl, \E p \in Page : fl[p].kind = "free"
  PROVE  NextFree(fl) \in Page /\ fl[NextFree(fl)].kind = "free"
<1>1. {p \in Page : fl[p].kind = "free"} \in SUBSET Nat /\ {p \in Page : fl[p].kind = "free"} # {}
  BY PageType
<1>2. NextFree(fl) \in {p \in Page : fl[p].kind = "free"}
  BY <1>1, MinIs DEF NextFree
<1> QED BY <1>2

-----------------------------------------------------------------------------
(* What is done to one index page.                                         *)

(* The page of span k of file o is now n, and holds x; all other index     *)
(* pages and all data pages stay.                                          *)
Indexed(fl, fl2, o, k, n, x) ==
  /\ FlashOK(fl2)
  /\ \A u \in Obj, j \in Nat : Find(fl2, u, j) = IF u = o /\ j = k THEN n ELSE Find(fl, u, j)
  /\ n # NoPage => n \in Page /\ fl2[n] = x
  /\ \A u \in Obj, j \in Nat :
       (u # o \/ j # k) /\ Find(fl, u, j) # NoPage => fl2[Find(fl, u, j)] = fl[Find(fl, u, j)]
  /\ \A p \in Page : fl[p].kind = "data" \/ fl2[p].kind = "data" => fl2[p] = fl[p]

Names(x, o, k) == x.kind = "index" /\ x.obj = o /\ x.span = k

LEMMA IndexedBy ==
  ASSUME NEW fl, NEW fl2, NEW o, NEW k, NEW n, NEW x, FlashOK(fl), fl2 \in [Page -> Pages],
         o \in Obj, k \in Nat, n \in Target,
         n # NoPage => fl2[n] = x /\ x \in IxPages /\ Names(x, o, k),
         \A p \in Page : p # n => \/ fl2[p] = fl[p] /\ ~Names(fl[p], o, k)
                                  \/ /\ fl2[p].kind \notin {"data", "index"}
                                     /\ fl[p].kind = "data" => FALSE
                                     /\ fl[p].kind = "index" => Names(fl[p], o, k),
         n # NoPage => /\ fl[n].kind # "data"
                       /\ fl[n].kind = "index" => Names(fl[n], o, k)
  PROVE  Indexed(fl, fl2, o, k, n, x)
<1>0. n = NoPage \/ n \in Page
  BY DEF Target
<1>1. n # NoPage => fl2[n].kind = "index" /\ fl2[n].obj = o /\ fl2[n].span = k
  BY DEF Names
<1>2. ASSUME NEW p \in Page, p # n, fl2[p].kind = "index"
      PROVE  fl2[p] = fl[p] /\ fl[p].kind = "index" /\ (fl[p].obj # o \/ fl[p].span # k)
  BY <1>2 DEF Names
<1>3. FlashOK(fl2)
  <2>1. ASSUME NEW p \in Page, NEW q \in Page, fl2[p].kind = "index", fl2[q].kind = "index",
               fl2[p].obj = fl2[q].obj, fl2[p].span = fl2[q].span
        PROVE  p = q
    <3>1. CASE p = n
      BY <1>1, <1>2, <2>1, <3>1, PageType
    <3>2. CASE q = n
      BY <1>1, <1>2, <2>1, <3>2, PageType
    <3>3. CASE p # n /\ q # n
      BY <1>2, <2>1, <3>3 DEF FlashOK
    <3> QED BY <3>1, <3>2, <3>3
  <2> QED BY <2>1 DEF FlashOK
<1>4. ASSUME NEW u \in Obj, NEW j \in Nat, u # o \/ j # k, Find(fl, u, j) # NoPage
      PROVE  /\ fl2[Find(fl, u, j)] = fl[Find(fl, u, j)]
             /\ Find(fl2, u, j) = Find(fl, u, j)
  <2> DEFINE p == Find(fl, u, j)
  <2>1. p \in Page /\ fl[p].kind = "index" /\ fl[p].obj = u /\ fl[p].span = j
    BY <1>4, FindIs
  <2> HIDE DEF p
  <2>2. p # n
    BY <1>4, <2>1, PageType DEF Names
  <2>3. fl2[p] = fl[p]
    BY <1>4, <2>1, <2>2 DEF Names
  <2>4. Find(fl2, u, j) = p
    BY <1>3, <2>1, <2>3, FindIs
  <2> QED BY <2>3, <2>4 DEF p
<1>5. ASSUME NEW u \in Obj, NEW j \in Nat
      PROVE  Find(fl2, u, j) = IF u = o /\ j = k THEN n ELSE Find(fl, u, j)
  <2>1. CASE u = o /\ j = k /\ n # NoPage
    BY <1>0, <1>1, <1>3, <2>1, FindIs
  <2>2. CASE u = o /\ j = k /\ n = NoPage
    <3>1. ASSUME Find(fl2, u, j) # NoPage PROVE FALSE
      <4>1. PICK p \in Page : fl2[p].kind = "index" /\ fl2[p].obj = u /\ fl2[p].span = j
        BY <1>3, <3>1, FindIs
      <4> QED BY <1>2, <2>2, <4>1, PageType
    <3> QED BY <2>2, <3>1
  <2>3. CASE (u # o \/ j # k) /\ Find(fl, u, j) # NoPage
    BY <1>4, <2>3
  <2>4. CASE (u # o \/ j # k) /\ Find(fl, u, j) = NoPage
    <3>1. ASSUME Find(fl2, u, j) # NoPage PROVE FALSE
      <4> DEFINE p == Find(fl2, u, j)
      <4>1. p \in Page /\ fl2[p].kind = "index" /\ fl2[p].obj = u /\ fl2[p].span = j
        BY <1>3, <3>1, FindIs
      <4> HIDE DEF p
      <4>2. p # n
        BY <1>0, <1>1, <2>4, <4>1, PageType
      <4>3. fl[p].kind = "index" /\ fl[p].obj = u /\ fl[p].span = j
        BY <1>2, <4>1, <4>2
      <4>4. Find(fl, u, j) = p
        BY <4>1, <4>3, FindIs
      <4> QED BY <2>4, <4>1, <4>4, PageType
    <3> QED BY <2>4, <3>1
  <2> QED BY <2>1, <2>2, <2>3, <2>4
<1>6. ASSUME NEW p \in Page, fl[p].kind = "data" \/ fl2[p].kind = "data" PROVE fl2[p] = fl[p]
  BY <1>0, <1>1, <1>6, PageType
<1> QED BY <1>0, <1>3, <1>4, <1>5, <1>6 DEF Indexed

LEMMA IndexedRef ==
  ASSUME NEW fl, NEW fl2, NEW o, NEW k, NEW n, NEW x, FlashOK(fl), o \in Obj, k \in Nat,
         n \in Target, Indexed(fl, fl2, o, k, n, x)
  PROVE  /\ \A u \in Obj, s \in Spans :
              Ref(fl2, u, s) = IF u = o /\ IxSpan(s) = k
                               THEN IF n = NoPage THEN NoPage ELSE x.ix[s]
                               ELSE Ref(fl, u, s)
         /\ \A u \in Obj : Find(fl2, u, 0) # NoPage =>
              HSize(fl2, u) = IF u = o /\ k = 0 THEN x.size ELSE HSize(fl, u)
<1>1. ASSUME NEW u \in Obj, NEW s \in Spans
      PROVE  Ref(fl2, u, s) = IF u = o /\ IxSpan(s) = k
                              THEN IF n = NoPage THEN NoPage ELSE x.ix[s]
                              ELSE Ref(fl, u, s)
  <2>1. IxSpan(s) \in Nat
    BY SpansType, IxSpanType
  <2> QED BY <2>1 DEF Ref, Indexed
<1>2. ASSUME NEW u \in Obj, Find(fl2, u, 0) # NoPage
      PROVE  HSize(fl2, u) = IF u = o /\ k = 0 THEN x.size ELSE HSize(fl, u)
  BY <1>2 DEF HSize, Indexed
<1> QED BY <1>1, <1>2

LEMMA IndexMovedIs ==
  ASSUME NEW fl, NEW o, NEW k, NEW img, FlashOK(fl), o \in Obj, k \in Nat,
         Find(fl, o, k) # NoPage, img \in IxPages, img.obj = o, img.span = k,
         \E p \in Page : fl[p].kind = "free"
  PROVE  /\ Indexed(fl, Moved(fl, Find(fl, o, k), img), o, k, NextFree(fl), img)
         /\ NextFree(fl) \in Page /\ fl[NextFree(fl)].kind = "free"
         /\ \A p \in Page : fl[p].kind = "free" /\ p # NextFree(fl) =>
              Moved(fl, Find(fl, o, k), img)[p].kind = "free"
<1> DEFINE n == NextFree(fl)
           h == Find(fl, o, k)
           fl2 == Moved(fl, h, img)
<1>1. n \in Page /\ fl[n].kind = "free"
  BY NextFreeIs
<1>2. h \in Page /\ Names(fl[h], o, k)
  BY FindIs DEF Names
<1>3. \A p \in Page : Names(fl[p], o, k) => p = h
  BY FindIs DEF Names
<1>4. Names(img, o, k) /\ img \in Pages /\ DeletedPage \in Pages /\ fl \in [Page -> Pages]
  BY IxFields DEF Names, Pages, FlashOK
<1>5. fl2 = [[fl EXCEPT ![n] = img] EXCEPT ![h] = DeletedPage]
  BY <1>2 DEF Moved, Without, Allocated
<1> HIDE DEF n, h, fl2
<1>6. n # h
  BY <1>1, <1>2 DEF Names
<1>7. fl2 \in [Page -> Pages] /\ fl2[n] = img /\ fl2[h] = DeletedPage
      /\ \A p \in Page : p # n /\ p # h => fl2[p] = fl[p]
  BY <1>1, <1>2, <1>4, <1>5, <1>6
<1>8. DeletedPage.kind = "deleted" /\ fl[h].kind = "index" /\ n # NoPage /\ n \in Target
  BY <1>1, <1>2, PageType DEF DeletedPage, Names, Target
<1>9. ASSUME NEW p \in Page, p # n
      PROVE  \/ fl2[p] = fl[p] /\ ~Names(fl[p], o, k)
             \/ /\ fl2[p].kind \notin {"data", "index"}
                /\ fl[p].kind = "data" => FALSE
                /\ fl[p].kind = "index" => Names(fl[p], o, k)
  <2>1. CASE p = h
    BY <1>2, <1>7, <1>8, <2>1
  <2>2. CASE p # h
    BY <1>3, <1>7, <1>9, <2>2
  <2> QED BY <2>1, <2>2
<1>10. Indexed(fl, fl2, o, k, n, img)
  BY <1>1, <1>4, <1>7, <1>8, <1>9, IndexedBy
<1>11. \A p \in Page : fl[p].kind = "free" /\ p # n => fl2[p].kind = "free"
  BY <1>7, <1>8
<1> QED BY <1>1, <1>10, <1>11 DEF n, h, fl2

LEMMA IndexMadeIs ==
  ASSUME NEW fl, NEW o, NEW k, FlashOK(fl), o \in Obj, k \in Nat, Find(fl, o, k) = NoPage,
         \E p \in Page : fl[p].kind = "free"
  PROVE  /\ Indexed(fl, Allocated(fl, IndexPage(o, k)), o, k, NextFree(fl), IndexPage(o, k))
         /\ NextFree(fl) \in Page /\ fl[NextFree(fl)].kind = "free"
<1> DEFINE n == NextFree(fl)
           img == IndexPage(o, k)
           fl2 == Allocated(fl, img)
<1>1. n \in Page /\ fl[n].kind = "free"
  BY NextFreeIs
<1>2. ASSUME NEW p \in Page PROVE ~Names(fl[p], o, k)
  BY FindIs, PageType DEF Names
<1>3. img \in IxPages /\ Names(img, o, k) /\ img \in Pages /\ fl \in [Page -> Pages]
  BY NewIndexPage, IxFields DEF Names, FlashOK
<1>4. fl2 = [fl EXCEPT ![n] = img]
  BY DEF Allocated
<1> HIDE DEF n, img, fl2
<1>5. fl2 \in [Page -> Pages] /\ fl2[n] = img /\ \A p \in Page : p # n => fl2[p] = fl[p]
  BY <1>1, <1>3, <1>4
<1>6. n # NoPage /\ n \in Target
  BY <1>1, PageType DEF Target
<1>7. Indexed(fl, fl2, o, k, n, img)
  BY <1>1, <1>2, <1>3, <1>5, <1>6, IndexedBy
<1> QED BY <1>1, <1>7 DEF n, img, fl2

LEMMA IndexGoneIs ==
  ASSUME NEW fl, NEW o, NEW k, FlashOK(fl), o \in Obj, k \in Nat, Find(fl, o, k) # NoPage
  PROVE  /\ Indexed(fl, Without(fl, Find(fl, o, k)), o, k, NoPage, FreePage)
         /\ \A p \in Page : fl[p].kind = "free" => Without(fl, Find(fl, o, k))[p].kind = "free"
<1> DEFINE h == Find(fl, o, k)
           fl2 == Without(fl, h)
<1>1. h \in Page /\ Names(fl[h], o, k)
  BY FindIs DEF Names
<1>2. \A p \in Page : Names(fl[p], o, k) => p = h
  BY FindIs DEF Names
<1>3. DeletedPage \in Pages /\ fl \in [Page -> Pages] /\ DeletedPage.kind = "deleted"
  BY DEF Pages, FlashOK, DeletedPage
<1>4. fl2 = [fl EXCEPT ![h] = DeletedPage]
  BY <1>1 DEF Without
<1> HIDE DEF h, fl2
<1>5. fl2 \in [Page -> Pages] /\ fl2[h] = DeletedPage /\ \A p \in Page : p # h => fl2[p] = fl[p]
  BY <1>1, <1>3, <1>4
<1>6. ASSUME NEW p \in Page
      PROVE  \/ fl2[p] = fl[p] /\ ~Names(fl[p], o, k)
             \/ /\ fl2[p].kind \notin {"data", "index"}
                /\ fl[p].kind = "data" => FALSE
                /\ fl[p].kind = "index" => Names(fl[p], o, k)
  BY <1>1, <1>2, <1>3, <1>5 DEF Names
<1>7. Indexed(fl, fl2, o, k, NoPage, FreePage)
  BY <1>5, <1>6, IndexedBy DEF Target
<1>8. \A p \in Page : fl[p].kind = "free" => fl2[p].kind = "free"
  BY <1>1, <1>5 DEF Names
<1> QED BY <1>7, <1>8 DEF h, fl2

(* An index page is written again in its place: nothing is mixed if only   *)
(* what was erased changes.                                                *)
LEMMA IndexWrittenIs ==
  ASSUME NEW fl, NEW o, NEW k, NEW img, FlashOK(fl), o \in Obj, k \in Nat,
         Find(fl, o, k) # NoPage, img \in IxPages, img.obj = o, img.span = k,
         fl[Find(fl, o, k)].size \in {UNDEFINED_LEN, img.size},
         \A s \in Entries(k) : fl[Find(fl, o, k)].ix[s] \in {NoPage, img.ix[s]}
  PROVE  /\ Indexed(fl, Programmed(fl, Find(fl, o, k), img), o, k, Find(fl, o, k), img)
         /\ \A p \in Page : fl[p].kind = "free" => Programmed(fl, Find(fl, o, k), img)[p].kind = "free"
<1> DEFINE h == Find(fl, o, k)
           fl2 == Programmed(fl, h, img)
           old == fl[h]
           new == [old EXCEPT !.size = Over(@, img.size, UNDEFINED_LEN, 0),
                              !.ix = [s \in DOMAIN @ |-> Over(@[s], img.ix[s], NoPage, BadPage)]]
<1>1. h \in Page /\ Names(old, o, k) /\ old \in IxPages
  BY FindIs DEF Names
<1>2. \A p \in Page : Names(fl[p], o, k) => p = h
  BY FindIs DEF Names
<1>3. /\ old \in [kind : {"index"}, obj : Obj, span : Nat, size : Sizes, ix : References]
      /\ img \in [kind : {"index"}, obj : Obj, span : Nat, size : Sizes, ix : References]
      /\ old.ix \in [Entries(k) -> Target] /\ img.ix \in [Entries(k) -> Target]
      /\ old.obj = o /\ old.span = k
  BY <1>1 DEF IxPages, Names
<1>4. Over(old.size, img.size, UNDEFINED_LEN, 0) = img.size
  BY DEF Over
<1>5. [s \in DOMAIN old.ix |-> Over(old.ix[s], img.ix[s], NoPage, BadPage)] = img.ix
  BY <1>3 DEF Over
<1>6. new = img
  <2>1. new = [old EXCEPT !.size = img.size, !.ix = img.ix]
    BY <1>4, <1>5
  <2> HIDE DEF new, old
  <2>2. new = [kind |-> "index", obj |-> o, span |-> k, size |-> img.size, ix |-> img.ix]
    BY <1>3, <2>1
  <2>3. img = [kind |-> "index", obj |-> o, span |-> k, size |-> img.size, ix |-> img.ix]
    BY <1>3
  <2> QED BY <2>2, <2>3
<1>7. fl2 = [fl EXCEPT ![h] = new]
  BY DEF Programmed
<1>8. img \in Pages /\ fl \in [Page -> Pages]
  BY IxFields DEF FlashOK
<1> HIDE DEF h, fl2, old, new
<1>9. fl2 \in [Page -> Pages] /\ fl2[h] = img /\ \A p \in Page : p # h => fl2[p] = fl[p]
  BY <1>1, <1>6, <1>7, <1>8
<1>10. Names(img, o, k) /\ h \in Target /\ fl[h].kind = "index" /\ Names(fl[h], o, k)
  BY <1>1, <1>3 DEF Names, Target, old
<1>11. \A p \in Page : p # h => fl2[p] = fl[p] /\ ~Names(fl[p], o, k)
  BY <1>2, <1>9
<1>12. Indexed(fl, fl2, o, k, h, img)
  BY <1>9, <1>10, <1>11, IndexedBy
<1>13. \A p \in Page : fl[p].kind = "free" => fl2[p].kind = "free"
  BY <1>9, <1>10
<1> QED BY <1>12, <1>13 DEF h, fl2

-----------------------------------------------------------------------------
(* The data of a file.                                                     *)

DataOf(x, o) == x.kind = "data" /\ x.obj = o

LEMMA LaidSame ==
  ASSUME NEW fl, NEW fl2, NEW R, NEW R2, NEW o, NEW b, FlashOK(fl), Laid(fl, R, o, b),
         \A s \in Spans : R2[s] = R[s],
         \A p \in Page : DataOf(fl[p], o) \/ DataOf(fl2[p], o) => fl2[p] = fl[p]
  PROVE  Laid(fl2, R2, o, b)
<1> USE DEF FlashOK
<1>1. ASSUME NEW s \in Spans
      PROVE  IF First(s) < Len(b)
             THEN R2[s] \in Page /\ fl2[R2[s]].kind = "data" /\ fl2[R2[s]].obj = o /\ fl2[R2[s]].span = s
             ELSE R2[s] = NoPage
  BY DEF Laid, DataOf
<1>2. ASSUME NEW p \in Page, fl2[p].kind = "data", fl2[p].obj = o
      PROVE  /\ R2[fl2[p].span] = p
             /\ \A j \in 0 .. DPS - 1 :
                  fl2[p].bytes[j] = IF First(fl2[p].span) + j < Len(b) THEN b[First(fl2[p].span) + j + 1] ELSE Erased
  <2>1. fl2[p] = fl[p]
    BY <1>2 DEF DataOf
  <2>2. fl[p].span \in Spans
    BY <1>2, <2>1, KindIs, DataFields
  <2> QED BY <1>2, <2>1, <2>2 DEF Laid
<1> QED BY <1>1, <1>2 DEF Laid

(* The data of span s of file o is now in page q, or gone; b is what the   *)
(* file held, b2 what it holds.                                            *)
RefsAnew(R, R2, s, q) == R2[s] = q /\ \A t \in Spans : t # s => R2[t] = R[t]

PagesAnew(fl, fl2, o, s, q) ==
  \A p \in Page : p # q => \/ fl2[p] = fl[p] /\ ~(DataOf(fl[p], o) /\ fl[p].span = s)
                           \/ fl2[p].kind # "data" /\ (DataOf(fl[p], o) => fl[p].span = s)

DataAnew(fl, fl2, o, s, q, b2) ==
  /\ q # NoPage => /\ DataOf(fl2[q], o) /\ fl2[q].span = s
                   /\ DataOf(fl[q], o) => fl[q].span = s
                   /\ First(s) < Len(b2)
                   /\ \A j \in 0 .. DPS - 1 :
                        fl2[q].bytes[j] = IF First(s) + j < Len(b2) THEN b2[First(s) + j + 1] ELSE Erased
  /\ q = NoPage => ~(First(s) < Len(b2))

BytesAnew(b, b2, s) ==
  \A t \in Spans : t # s => \A j \in 0 .. DPS - 1 :
     /\ First(t) + j < Len(b) <=> First(t) + j < Len(b2)
     /\ First(t) + j < Len(b) => b[First(t) + j + 1] = b2[First(t) + j + 1]

LEMMA LaidAnew ==
  ASSUME NEW fl, NEW fl2, NEW R, NEW R2, NEW o, NEW b, NEW b2, NEW s, NEW q,
         FlashOK(fl), FlashOK(fl2), s \in Spans, q \in Target, Len(b) \in Nat, Len(b2) \in Nat,
         Laid(fl, R, o, b), RefsAnew(R, R2, s, q), PagesAnew(fl, fl2, o, s, q),
         DataAnew(fl, fl2, o, s, q, b2), BytesAnew(b, b2, s)
  PROVE  Laid(fl2, R2, o, b2)
<1> USE DEF RefsAnew, PagesAnew, DataAnew, BytesAnew, FlashOK
<1>0. q = NoPage \/ q \in Page
  BY DEF Target
<1>1. ASSUME NEW t \in Spans
      PROVE  IF First(t) < Len(b2)
             THEN R2[t] \in Page /\ fl2[R2[t]].kind = "data" /\ fl2[R2[t]].obj = o /\ fl2[R2[t]].span = t
             ELSE R2[t] = NoPage
  <2>1. CASE t = s
    BY <1>0, <2>1 DEF DataOf
  <2>2. CASE t # s
    <3>1. 0 \in 0 .. DPS - 1 /\ First(t) \in Nat /\ First(t) + 0 = First(t)
      BY ObjectsAssumption, SpansType, FirstType
    <3>2. First(t) < Len(b) <=> First(t) < Len(b2)
      BY <2>2, <3>1
    <3>3. CASE First(t) < Len(b)
      <4>1. R[t] \in Page /\ DataOf(fl[R[t]], o) /\ fl[R[t]].span = t
        BY <3>3 DEF Laid, DataOf
      <4>2. R[t] # q /\ R2[t] = R[t]
        BY <1>0, <2>2, <4>1, PageType
      <4>3. fl2[R[t]] = fl[R[t]]
        BY <2>2, <4>1, <4>2
      <4> QED BY <3>2, <3>3, <4>1, <4>2, <4>3 DEF DataOf
    <3>4. CASE ~(First(t) < Len(b))
      BY <2>2, <3>2, <3>4 DEF Laid
    <3> QED BY <3>3, <3>4
  <2> QED BY <2>1, <2>2
<1>2. ASSUME NEW p \in Page, fl2[p].kind = "data", fl2[p].obj = o
      PROVE  /\ R2[fl2[p].span] = p
             /\ \A j \in 0 .. DPS - 1 :
                  fl2[p].bytes[j] = IF First(fl2[p].span) + j < Len(b2) THEN b2[First(fl2[p].span) + j + 1] ELSE Erased
  <2>1. CASE p = q
    BY <1>0, <2>1, PageType
  <2>2. CASE p # q
    <3>1. fl2[p] = fl[p] /\ fl[p].span # s
      BY <1>2, <2>2 DEF DataOf
    <3>2. fl[p].span \in Spans
      BY <1>2, <3>1, KindIs, DataFields
    <3>3. R[fl[p].span] = p /\ \A j \in 0 .. DPS - 1 :
            fl[p].bytes[j] = IF First(fl[p].span) + j < Len(b) THEN b[First(fl[p].span) + j + 1] ELSE Erased
      BY <1>2, <3>1 DEF Laid
    <3> QED BY <3>1, <3>2, <3>3
  <2> QED BY <2>1, <2>2
<1> QED BY <1>1, <1>2 DEF Laid

-----------------------------------------------------------------------------
(* What the descriptors are told (spiffs_cb_object_event).                 *)

(* The file of some descriptors has a new size, if it is not 0.            *)
Resized(fds, fds2, o, size) ==
  \A f \in Fd :
    /\ fds2[f].open = fds[f].open /\ fds2[f].obj = fds[f].obj
    /\ IF fds[f].open /\ fds[f].obj = o /\ size # 0
       THEN fds2[f].size = size /\ fds2[f].pos = Least(fds[f].pos, Bytes(size))
       ELSE fds2[f].size = fds[f].size /\ fds2[f].pos = fds[f].pos

LEMMA BytesType ==
  ASSUME NEW n, n \in 0 .. UNDEFINED_LEN
  PROVE  Bytes(n) \in 0 .. MaxSize
BY ObjectsAssumption DEF Bytes, UNDEFINED_LEN

LEMMA ToldIs ==
  ASSUME NEW d, NEW ev, NEW k, NEW p, NEW size, d \in Descriptors, k \in Nat, p \in Target,
         size \in 0 .. UNDEFINED_LEN, ~(k = 0 /\ ev = "DEL")
  PROVE  /\ Told(d, ev, k, p, size) \in Descriptors
         /\ Told(d, ev, k, p, size).open = d.open /\ Told(d, ev, k, p, size).obj = d.obj
         /\ Told(d, ev, k, p, size).cspan = d.cspan
         /\ k = 0 => Told(d, ev, k, p, size).hdr = p
         /\ k # 0 => Told(d, ev, k, p, size).hdr = d.hdr
         /\ d.cspan = k /\ ev = "DEL" => Told(d, ev, k, p, size).cpix = NoPage
         /\ d.cspan = k /\ ev # "DEL" => Told(d, ev, k, p, size).cpix = p
         /\ d.cspan # k => Told(d, ev, k, p, size).cpix = d.cpix
         /\ k = 0 /\ size # 0 =>
              /\ Told(d, ev, k, p, size).size = size
              /\ Told(d, ev, k, p, size).pos = Least(d.pos, Bytes(size))
         /\ ~(k = 0 /\ size # 0) =>
              /\ Told(d, ev, k, p, size).size = d.size
              /\ Told(d, ev, k, p, size).pos = d.pos
<1> DEFINE m == Min({d.pos, Bytes(size)})
           h == [d EXCEPT !.hdr = p]
           z == Sized(h, size)
           e == IF k = 0 THEN z ELSE d
           r == IF d.cspan # k THEN e ELSE [e EXCEPT !.cpix = IF ev = "DEL" THEN NoPage ELSE p]
<1>1. m \in 0 .. MaxSize /\ m = Least(d.pos, Bytes(size))
  <2>1. d.pos \in 0 .. MaxSize /\ Bytes(size) \in 0 .. MaxSize
    BY BytesType DEF Descriptors
  <2> QED BY <2>1, MinOfTwo, ObjectsAssumption DEF Least
<1>2. Told(d, ev, k, p, size) = r
  BY DEF Told
<1>3. h \in Descriptors /\ h.open = d.open /\ h.obj = d.obj /\ h.cspan = d.cspan /\ h.hdr = p
      /\ h.cpix = d.cpix /\ h.size = d.size /\ h.pos = d.pos
  BY DEF Descriptors
<1>4. z = IF size = 0 THEN h ELSE [h EXCEPT !.size = size, !.pos = m]
  BY <1>3 DEF Sized
<1> HIDE DEF m, h
<1>5. z \in Descriptors /\ z.open = d.open /\ z.obj = d.obj /\ z.cspan = d.cspan /\ z.hdr = p
      /\ z.cpix = d.cpix /\ z.size = (IF size # 0 THEN size ELSE d.size)
      /\ z.pos = IF size # 0 THEN m ELSE d.pos
  BY <1>1, <1>3, <1>4 DEF Descriptors
<1> HIDE DEF z
<1>6. e \in Descriptors /\ e.open = d.open /\ e.obj = d.obj /\ e.cspan = d.cspan
      /\ e.hdr = (IF k = 0 THEN p ELSE d.hdr)
      /\ e.cpix = d.cpix /\ e.size = (IF k = 0 /\ size # 0 THEN size ELSE d.size)
      /\ e.pos = IF k = 0 /\ size # 0 THEN m ELSE d.pos
  BY <1>5
<1> HIDE DEF e
<1>7. NoPage \in Target
  BY DEF Target
<1>8. r \in Descriptors /\ r.open = e.open /\ r.obj = e.obj /\ r.cspan = e.cspan /\ r.hdr = e.hdr
      /\ r.cpix = (IF d.cspan = k THEN IF ev = "DEL" THEN NoPage ELSE p ELSE e.cpix)
      /\ r.size = e.size /\ r.pos = e.pos
  BY <1>6, <1>7 DEF Descriptors
<1> HIDE DEF r
<1> QED BY <1>1, <1>2, <1>6, <1>8

LEMMA EventIs ==
  ASSUME NEW fl, NEW fds, NEW o, NEW k, NEW n, NEW x, NEW fl2, NEW ev, NEW p, NEW size,
         FlashOK(fl), FdOK(fl, fds), o \in Obj, k \in Nat, n \in Target,
         Indexed(fl, fl2, o, k, n, x), p \in Target, size \in 0 .. UNDEFINED_LEN,
         IF ev = "DEL" THEN n = NoPage /\ k # 0 ELSE n = p /\ n # NoPage
  PROVE  /\ FdOK(fl2, Event(fds, ev, o, k, p, size))
         /\ Resized(fds, Event(fds, ev, o, k, p, size), o, IF k = 0 THEN size ELSE 0)
<1> DEFINE fds2 == Event(fds, ev, o, k, p, size)
<1>0. ~(k = 0 /\ ev = "DEL") /\ UNDEFINED_LEN \in Int
  BY ObjectsAssumption DEF UNDEFINED_LEN
<1>1. \A f \in Fd : fds[f] \in Descriptors /\ fds[f].obj \in Obj /\ fds[f].cspan \in Nat
  BY DEF FdOK, Descriptors
<1>T. ASSUME NEW f \in Fd
      PROVE  LET e == Told(fds[f], ev, k, p, size)
             IN  /\ e \in Descriptors /\ e.open = fds[f].open /\ e.obj = fds[f].obj /\ e.cspan = fds[f].cspan
                 /\ e.hdr = IF k = 0 THEN p ELSE fds[f].hdr
                 /\ e.cpix = IF fds[f].cspan = k THEN IF ev = "DEL" THEN NoPage ELSE p ELSE fds[f].cpix
                 /\ e.size = IF k = 0 /\ size # 0 THEN size ELSE fds[f].size
                 /\ e.pos = IF k = 0 /\ size # 0 THEN Least(fds[f].pos, Bytes(size)) ELSE fds[f].pos
  <2>1. fds[f] \in Descriptors
    BY <1>1
  <2> QED BY <2>1, <1>0, ToldIs
<1>2. \A f \in Fd : fds2[f] = IF fds[f].open /\ fds[f].obj = o THEN Told(fds[f], ev, k, p, size) ELSE fds[f]
  BY DEF Event
<1>3. fds2 = [f \in Fd |-> fds2[f]]
  BY DEF Event
<1> HIDE DEF fds2
<1>4. \A f \in Fd : fds2[f] \in Descriptors
  BY <1>1, <1>2, <1>T
<1>5. ASSUME NEW f \in Fd, fds2[f].open PROVE Knows(fl2, fds2[f])
  <2>1. Find(fl2, fds[f].obj, 0) = (IF fds[f].obj = o /\ 0 = k THEN n ELSE Find(fl, fds[f].obj, 0))
        /\ Find(fl2, fds[f].obj, fds[f].cspan)
             = IF fds[f].obj = o /\ fds[f].cspan = k THEN n ELSE Find(fl, fds[f].obj, fds[f].cspan)
    BY <1>1 DEF Indexed
  <2>2. CASE fds[f].open /\ fds[f].obj = o
    <3>1. Knows(fl, fds[f])
      BY <2>2 DEF FdOK
    <3> DEFINE e == Told(fds[f], ev, k, p, size)
    <3>2. /\ e.obj = fds[f].obj /\ e.cspan = fds[f].cspan
          /\ e.hdr = IF k = 0 THEN p ELSE fds[f].hdr
          /\ e.cpix = IF fds[f].cspan = k THEN IF ev = "DEL" THEN NoPage ELSE p ELSE fds[f].cpix
      BY <1>T
    <3>3. fds2[f] = e
      BY <1>2, <2>2
    <3> HIDE DEF e
    <3> QED BY <2>1, <2>2, <3>1, <3>2, <3>3 DEF Knows
  <2>3. CASE fds[f].open /\ fds[f].obj # o
    BY <1>2, <2>1, <2>3 DEF FdOK, Knows
  <2>4. CASE ~fds[f].open
    BY <1>2, <1>5, <2>4
  <2> QED BY <2>2, <2>3, <2>4, <1>1 DEF Descriptors
<1>6. FdOK(fl2, fds2)
  BY <1>3, <1>4, <1>5 DEF FdOK
<1>7. Resized(fds, fds2, o, IF k = 0 THEN size ELSE 0)
  <2>1. ASSUME NEW f \in Fd, fds[f].open, fds[f].obj = o
        PROVE  /\ fds2[f].open = fds[f].open /\ fds2[f].obj = fds[f].obj
               /\ fds2[f].size = IF k = 0 /\ size # 0 THEN size ELSE fds[f].size
               /\ fds2[f].pos = IF k = 0 /\ size # 0 THEN Least(fds[f].pos, Bytes(size)) ELSE fds[f].pos
    <3> DEFINE e == Told(fds[f], ev, k, p, size)
    <3>1. fds2[f] = e
      BY <1>2, <2>1
    <3>2. /\ e.open = fds[f].open /\ e.obj = fds[f].obj
          /\ e.size = IF k = 0 /\ size # 0 THEN size ELSE fds[f].size
          /\ e.pos = IF k = 0 /\ size # 0 THEN Least(fds[f].pos, Bytes(size)) ELSE fds[f].pos
      BY <1>T
    <3> HIDE DEF e
    <3> QED BY <3>1, <3>2
  <2>2. ASSUME NEW f \in Fd, ~(fds[f].open /\ fds[f].obj = o)
        PROVE  fds2[f] = fds[f]
    BY <1>2, <2>2
  <2> QED BY <2>1, <2>2 DEF Resized
<1> QED BY <1>6, <1>7 DEF fds2

-----------------------------------------------------------------------------
(* The nucleus' functions on index pages.                                  *)

Spare(fl, fl2, n) == \A p \in Page : fl[p].kind = "free" /\ p # n => fl2[p].kind = "free"

LEMMA SizesType == Sizes \subseteq 0 .. UNDEFINED_LEN /\ 0 \notin Sizes /\ 0 \in 0 .. UNDEFINED_LEN
BY ObjectsAssumption DEF Sizes, UNDEFINED_LEN

LEMMA HeaderMovedIs ==
  ASSUME NEW fl, NEW fds, NEW o, NEW img, NEW st2, FlashOK(fl), FdOK(fl, fds), o \in Obj,
         Find(fl, o, 0) # NoPage, img \in IxPages, img.obj = o, img.span = 0,
         \E p \in Page : fl[p].kind = "free",
         st2 = HeaderMoved(State(fl, fds), o, Find(fl, o, 0), img)
  PROVE  /\ Indexed(fl, st2.flash, o, 0, NextFree(fl), img) /\ NextFree(fl) \in Page
         /\ FlashOK(st2.flash) /\ FdOK(st2.flash, st2.fd) /\ Resized(fds, st2.fd, o, img.size)
         /\ Spare(fl, st2.flash, NextFree(fl)) /\ st2 = State(st2.flash, st2.fd)
<1>1. /\ st2.flash = Moved(fl, Find(fl, o, 0), img)
      /\ st2.fd = Event(fds, "UPD", o, 0, NextFree(fl), img.size)
      /\ st2 = State(st2.flash, st2.fd)
  BY DEF HeaderMoved, State
<1>2. /\ Indexed(fl, st2.flash, o, 0, NextFree(fl), img)
      /\ NextFree(fl) \in Page /\ fl[NextFree(fl)].kind = "free"
      /\ Spare(fl, st2.flash, NextFree(fl))
  BY <1>1, IndexMovedIs DEF Spare
<1>3. NextFree(fl) \in Target /\ NextFree(fl) # NoPage
  BY <1>2, PageType DEF Target
<1>4. img.size \in 0 .. UNDEFINED_LEN
  BY IxFields, SizesType
<1>5. FdOK(st2.flash, st2.fd) /\ Resized(fds, st2.fd, o, img.size)
  BY <1>1, <1>2, <1>3, <1>4, EventIs
<1>6. FlashOK(st2.flash)
  BY <1>2 DEF Indexed
<1> QED BY <1>1, <1>2, <1>5, <1>6

LEMMA IndexPageMovedIs ==
  ASSUME NEW fl, NEW fds, NEW o, NEW k, NEW img, NEW st2, FlashOK(fl), FdOK(fl, fds), o \in Obj,
         k \in Nat, Find(fl, o, k) # NoPage, img \in IxPages, img.obj = o, img.span = k,
         \E p \in Page : fl[p].kind = "free",
         st2 = IndexMoved(State(fl, fds), o, Find(fl, o, k), img)
  PROVE  /\ Indexed(fl, st2.flash, o, k, NextFree(fl), img) /\ NextFree(fl) \in Page
         /\ FlashOK(st2.flash) /\ FdOK(st2.flash, st2.fd) /\ Resized(fds, st2.fd, o, 0)
         /\ Spare(fl, st2.flash, NextFree(fl)) /\ st2 = State(st2.flash, st2.fd)
<1>1. /\ st2.flash = Moved(fl, Find(fl, o, k), img)
      /\ st2.fd = Event(fds, "UPD", o, k, NextFree(fl), 0)
      /\ st2 = State(st2.flash, st2.fd)
  BY DEF IndexMoved, State
<1>2. /\ Indexed(fl, st2.flash, o, k, NextFree(fl), img)
      /\ NextFree(fl) \in Page /\ fl[NextFree(fl)].kind = "free"
      /\ Spare(fl, st2.flash, NextFree(fl))
  BY <1>1, IndexMovedIs DEF Spare
<1>3. NextFree(fl) \in Target /\ NextFree(fl) # NoPage
  BY <1>2, PageType DEF Target
<1>4. 0 \in 0 .. UNDEFINED_LEN
  BY SizesType
<1>5. FdOK(st2.flash, st2.fd) /\ Resized(fds, st2.fd, o, 0)
  BY <1>1, <1>2, <1>3, <1>4, EventIs
<1>6. FlashOK(st2.flash)
  BY <1>2 DEF Indexed
<1> QED BY <1>1, <1>2, <1>5, <1>6

LEMMA IndexPageWrittenIs ==
  ASSUME NEW fl, NEW fds, NEW o, NEW k, NEW img, NEW size, NEW fl2, NEW fds2, FlashOK(fl),
         FdOK(fl, fds), o \in Obj, k \in Nat, Find(fl, o, k) # NoPage, img \in IxPages,
         img.obj = o, img.span = k, fl[Find(fl, o, k)].size \in {UNDEFINED_LEN, img.size},
         \A s \in Entries(k) : fl[Find(fl, o, k)].ix[s] \in {NoPage, img.ix[s]},
         size \in 0 .. UNDEFINED_LEN, fl2 = Programmed(fl, Find(fl, o, k), img),
         fds2 = Event(fds, "UPD", o, k, Find(fl, o, k), size)
  PROVE  /\ Indexed(fl, fl2, o, k, Find(fl, o, k), img)
         /\ FlashOK(fl2) /\ FdOK(fl2, fds2) /\ Resized(fds, fds2, o, IF k = 0 THEN size ELSE 0)
         /\ FdOK(fl2, fds)
         /\ Spare(fl, fl2, NoPage)
<1>1. Indexed(fl, fl2, o, k, Find(fl, o, k), img) /\ Spare(fl, fl2, NoPage)
  BY IndexWrittenIs DEF Spare
<1>2. Find(fl, o, k) \in Target
  BY FindIs
<1>3. FdOK(fl2, fds2) /\ Resized(fds, fds2, o, IF k = 0 THEN size ELSE 0)
  BY <1>1, <1>2, EventIs
<1>4. \A u \in Obj, j \in Nat : Find(fl2, u, j) = Find(fl, u, j)
  BY <1>1 DEF Indexed
<1>5. FdOK(fl2, fds)
  BY <1>4 DEF FdOK, Knows, Descriptors
<1>6. FlashOK(fl2)
  BY <1>1 DEF Indexed
<1> QED BY <1>1, <1>3, <1>5, <1>6

(* spiffs_page_index_check.                                                *)
LEMMA IsIndexFound ==
  ASSUME NEW fl, NEW o, NEW k, FlashOK(fl), Find(fl, o, k) # NoPage
  PROVE  IsIndex(fl, Find(fl, o, k), k)
BY FindIs DEF IsIndex

(* The cursor of a descriptor of the file is put on an index page.         *)
CursorPut(fl, fds, f, k, st) == st = Cursor(State(fl, fds), f, k, Find(fl, fds[f].obj, k))

Shown(fds, fds2) ==
  \A g \in Fd : /\ fds2[g].open = fds[g].open /\ fds2[g].obj = fds[g].obj
                /\ fds2[g].size = fds[g].size /\ fds2[g].pos = fds[g].pos

LEMMA CursorIs ==
  ASSUME NEW fl, NEW fds, NEW f, NEW k, NEW st, FdOK(fl, fds), FlashOK(fl), f \in Fd,
         k \in Nat, fds[f].open, CursorPut(fl, fds, f, k, st)
  PROVE  FdOK(fl, st.fd) /\ Shown(fds, st.fd) /\ st = State(fl, st.fd)
<1> DEFINE p == Find(fl, fds[f].obj, k)
<1>1. p \in Target
  BY FindIs
<1>2. fds \in [Fd -> Descriptors]
  BY DEF FdOK
<1> DEFINE fds2 == [fds EXCEPT ![f] = [@ EXCEPT !.cspan = k, !.cpix = p]]
<1>3. st = State(fl, fds2)
  BY <1>2 DEF Cursor, State, Descriptors, CursorPut
<1> DEFINE d == [fds[f] EXCEPT !.cspan = k, !.cpix = p]
<1>4. d \in Descriptors /\ d.open = fds[f].open /\ d.obj = fds[f].obj /\ d.size = fds[f].size
      /\ d.pos = fds[f].pos /\ d.hdr = fds[f].hdr /\ d.cspan = k /\ d.cpix = p
  BY <1>1, <1>2 DEF Descriptors
<1> HIDE DEF d
<1>5. fds2[f] = d /\ \A g \in Fd : g # f => fds2[g] = fds[g]
  BY <1>2 DEF d
<1>6. fds2 \in [Fd -> Descriptors]
  BY <1>2, <1>4 DEF d
<1> HIDE DEF fds2
<1>7. Knows(fl, d)
  BY <1>4 DEF FdOK, Knows
<1>8. FdOK(fl, fds2)
  BY <1>5, <1>6, <1>7 DEF FdOK
<1>9. ASSUME NEW g \in Fd
      PROVE  /\ fds2[g].open = fds[g].open /\ fds2[g].obj = fds[g].obj
             /\ fds2[g].size = fds[g].size /\ fds2[g].pos = fds[g].pos
  <2>1. CASE g = f
    BY <1>4, <1>5, <2>1
  <2>2. CASE g # f
    BY <1>5, <2>2
  <2> QED BY <2>1, <2>2
<1>10. Shown(fds, fds2)
  BY <1>9 DEF Shown
<1>11. st.fd = fds2
  BY <1>3 DEF State
<1> QED BY <1>3, <1>8, <1>10, <1>11

(* The references of a file as they are in hand go to flash, or come from  *)
(* there.                                                                  *)
LEMMA TableType ==
  ASSUME NEW fl, NEW c, NEW o
  PROVE  \A s \in Spans : Table(fl, c, o)[s] = IF o = c.obj /\ IxSpan(s) = c.prev THEN c.work.ix[s] ELSE Ref(fl, o, s)
BY DEF Table

LEMMA TableOut ==
  ASSUME NEW fl, NEW c, NEW o, c.prev = -1 \/ o # c.obj
  PROVE  \A s \in Spans : Table(fl, c, o)[s] = Ref(fl, o, s)
<1>1. \A s \in Spans : IxSpan(s) # -1
  BY SpansType, IxSpanType
<1> QED BY <1>1, TableType

LEMMA TableIn ==
  ASSUME NEW fl, NEW c, NEW o, Find(fl, c.obj, c.prev) # NoPage,
         c.work = fl[Find(fl, c.obj, c.prev)]
  PROVE  \A s \in Spans : Table(fl, c, o)[s] = Ref(fl, o, s)
<1> SUFFICES ASSUME NEW s \in Spans PROVE Table(fl, c, o)[s] = Ref(fl, o, s)
  OBVIOUS
<1>1. CASE o = c.obj /\ IxSpan(s) = c.prev
  BY <1>1, TableType DEF Ref
<1>2. CASE ~(o = c.obj /\ IxSpan(s) = c.prev)
  BY <1>2, TableType
<1> QED BY <1>1, <1>2

LEMMA TableStored ==
  ASSUME NEW fl, NEW fl2, NEW c, NEW n, NEW x, FlashOK(fl), n \in Target, n # NoPage,
         c.obj \in Obj, c.prev \in Nat, Indexed(fl, fl2, c.obj, c.prev, n, x), x.ix = c.work.ix
  PROVE  \A u \in Obj, s \in Spans : Ref(fl2, u, s) = Table(fl, c, u)[s]
<1> SUFFICES ASSUME NEW u \in Obj, NEW s \in Spans PROVE Ref(fl2, u, s) = Table(fl, c, u)[s]
  OBVIOUS
<1>1. PICK o \in Obj, k \in Nat : o = c.obj /\ k = c.prev
  OBVIOUS
<1>2. Indexed(fl, fl2, o, k, n, x)
  BY <1>1
<1>3. Ref(fl2, u, s) = IF u = o /\ IxSpan(s) = k
                       THEN IF n = NoPage THEN NoPage ELSE x.ix[s] ELSE Ref(fl, u, s)
  BY <1>2, IndexedRef
<1>4. CASE u = o /\ IxSpan(s) = k
  BY <1>1, <1>3, <1>4, TableType
<1>5. CASE ~(u = o /\ IxSpan(s) = k)
  BY <1>1, <1>3, <1>5, TableType
<1> QED BY <1>4, <1>5

-----------------------------------------------------------------------------
(* The bytes of a file while a call writes to it.                          *)

LEMMA SeqIs ==
  ASSUME NEW S, NEW n, NEW b, n \in Nat, b \in [1 .. n -> S]
  PROVE  b \in Seq(S) /\ Len(b) = n
OBVIOUS

LEMMA SplicedIs ==
  ASSUME NEW b, NEW at, NEW n, NEW v, b \in Seq(Val), at \in Nat, n \in Nat, v \in Val, at <= Len(b)
  PROVE  /\ Spliced(b, at, n, v) \in Seq(Val)
         /\ Len(Spliced(b, at, n, v)) = IF at + n > Len(b) THEN at + n ELSE Len(b)
         /\ \A i \in 1 .. Len(Spliced(b, at, n, v)) :
              Spliced(b, at, n, v)[i] = IF at < i /\ i <= at + n THEN v ELSE b[i]
<1> DEFINE m == IF at + n > Len(b) THEN at + n ELSE Len(b)
           x == Spliced(b, at, n, v)
<1>1. m \in Nat /\ Len(b) \in Nat
  OBVIOUS
<1>2. x = [i \in 1 .. m |-> IF i \in at + 1 .. at + n THEN v ELSE b[i]]
  BY DEF Spliced
<1>3. ASSUME NEW i \in 1 .. m PROVE (IF i \in at + 1 .. at + n THEN v ELSE b[i]) \in Val
  <2>1. CASE i \in at + 1 .. at + n
    BY <2>1
  <2>2. CASE i \notin at + 1 .. at + n
    <3>1. i \in 1 .. Len(b)
      BY <1>1, <2>2
    <3> QED BY <2>2, <3>1
  <2> QED BY <2>1, <2>2
<1> HIDE DEF x
<1>4. x \in [1 .. m -> Val]
  BY <1>2, <1>3
<1> HIDE DEF m
<1>5. x \in Seq(Val) /\ Len(x) = m
  BY <1>1, <1>4, SeqIs
<1>6. \A i \in 1 .. m : x[i] = IF at < i /\ i <= at + n THEN v ELSE b[i]
  BY <1>1, <1>2
<1> QED BY <1>5, <1>6 DEF m, x

LEMMA SplicedNone ==
  ASSUME NEW b, NEW at, NEW v, b \in Seq(Val), at \in Nat, at <= Len(b)
  PROVE  Spliced(b, at, 0, v) = b
<1>1. Len(b) \in Nat /\ b \in [1 .. Len(b) -> Val]
  OBVIOUS
<1>2. at + 0 = at /\ ~(at > Len(b)) /\ at + 1 .. at = {}
  BY <1>1
<1>3. Spliced(b, at, 0, v) = [i \in 1 .. Len(b) |-> b[i]]
  BY <1>2 DEF Spliced
<1> QED BY <1>1, <1>3

LEMMA CutIs ==
  ASSUME NEW b, NEW n, b \in Seq(Val), n \in 0 .. Len(b)
  PROVE  /\ SubSeq(b, 1, n) \in Seq(Val) /\ Len(SubSeq(b, 1, n)) = n
         /\ \A i \in 1 .. n : SubSeq(b, 1, n)[i] = b[i]
         /\ SubSeq(b, 1, Len(b)) = b
<1>1. Len(b) \in Nat /\ b \in [1 .. Len(b) -> Val]
  OBVIOUS
<1>2. SubSeq(b, 1, n) = [i \in 1 .. n |-> b[i]]
  BY <1>1
<1>3. SubSeq(b, 1, n) \in [1 .. n -> Val] /\ n \in Nat
  <2>1. n \in Nat /\ \A i \in 1 .. n : i \in 1 .. Len(b)
    BY <1>1
  <2>2. \A i \in 1 .. n : b[i] \in Val
    BY <1>1, <2>1
  <2>3. [i \in 1 .. n |-> b[i]] \in [1 .. n -> Val]
    BY <2>2
  <2> QED BY <1>2, <2>1, <2>3
<1>4. SubSeq(b, 1, Len(b)) = [i \in 1 .. Len(b) |-> b[i]]
  BY <1>1
<1> QED BY <1>1, <1>2, <1>3, <1>4, SeqIs

LEMMA FileType ==
  ASSUME NEW fl, NEW fi, NEW o, Exist(fl, fi), o \in Obj
  PROVE  fi[o].bytes \in Seq(Val) /\ Len(fi[o].bytes) \in 0 .. MaxSize /\ fi[o].exists \in BOOLEAN
<1>1. fi[o] \in FilesSet /\ Len(fi[o].bytes) <= MaxSize
  BY DEF Exist
<1>2. fi[o].bytes \in Seq(Val) /\ fi[o].exists \in BOOLEAN
  BY <1>1 DEF FilesSet
<1>3. Len(fi[o].bytes) \in Nat
  BY <1>2
<1> QED BY <1>1, <1>2, <1>3, ObjectsAssumption

LEMMA NoCallIs ==
  /\ NoCall.op = "none" /\ NoCall.step = "none" /\ NoCall.prev = -1 /\ ~NoCall.temp /\ NoCall.written = 0
  /\ ~NoCall.full /\ NoCall.obj \in Obj /\ NoCall.fd \in Fd /\ NoCall.val \in Val
BY ObjectsAssumption DEF NoCall

(* Outside the file of a call nothing is under way.                        *)
LEMMA CurrentOut ==
  ASSUME NEW c, NEW fi, NEW o, o # c.obj \/ c.op \notin {"append", "modify", "truncate"}
  PROVE  Current(c, fi, o) = fi[o].bytes
BY DEF Current

-----------------------------------------------------------------------------
(* What a step leaves alone.                                               *)

DataSame(fl, fl2) == \A p \in Page : fl[p].kind = "data" \/ fl2[p].kind = "data" => fl2[p] = fl[p]

LEMMA LayoutKept ==
  ASSUME NEW fl, NEW fl2, NEW c, NEW c2, NEW fi, NEW fi2, FlashOK(fl), Layout(fl, c, fi),
         \A u \in Obj : Current(c2, fi2, u) = Current(c, fi, u),
         \A u \in Obj, s \in Spans : Table(fl2, c2, u)[s] = Table(fl, c, u)[s],
         DataSame(fl, fl2),
         \A u \in Obj, k \in Nat : Find(fl2, u, k) # NoPage => Bounded(c2, fi2, u, k)
  PROVE  Layout(fl2, c2, fi2)
<1>1. ASSUME NEW u \in Obj PROVE Laid(fl2, Table(fl2, c2, u), u, Current(c2, fi2, u))
  <2>1. Laid(fl, Table(fl, c, u), u, Current(c, fi, u))
    BY DEF Layout
  <2>2. \A p \in Page : DataOf(fl[p], u) \/ DataOf(fl2[p], u) => fl2[p] = fl[p]
    BY DEF DataSame, DataOf
  <2>3. \A s \in Spans : Table(fl2, c2, u)[s] = Table(fl, c, u)[s]
    OBVIOUS
  <2>4. Laid(fl2, Table(fl2, c2, u), u, Current(c, fi, u))
    BY <2>1, <2>2, <2>3, LaidSame
  <2> QED BY <2>4
<1> QED BY <1>1 DEF Layout

(* Only data pages change, or pages that hold nothing.                     *)
LEMMA IndexSame ==
  ASSUME NEW fl, NEW fl2, FlashOK(fl), fl2 \in [Page -> Pages],
         \A p \in Page : fl[p].kind = "index" \/ fl2[p].kind = "index" => fl2[p] = fl[p]
  PROVE  /\ FlashOK(fl2)
         /\ \A u \in Obj, k \in Nat : Find(fl2, u, k) = Find(fl, u, k)
         /\ \A u \in Obj, k \in Nat : Find(fl, u, k) # NoPage => fl2[Find(fl, u, k)] = fl[Find(fl, u, k)]
         /\ \A u \in Obj, s \in Spans : Ref(fl2, u, s) = Ref(fl, u, s)
         /\ \A u \in Obj : Find(fl, u, 0) # NoPage => HSize(fl2, u) = HSize(fl, u)
<1>1. FlashOK(fl2)
  BY DEF FlashOK
<1>2. ASSUME NEW u \in Obj, NEW k \in Nat
      PROVE  /\ Find(fl2, u, k) = Find(fl, u, k)
             /\ Find(fl, u, k) # NoPage => fl2[Find(fl, u, k)] = fl[Find(fl, u, k)]
  <2>1. IndexPages(fl2, u, k) = IndexPages(fl, u, k)
    BY DEF IndexPages
  <2>2. Find(fl2, u, k) = Find(fl, u, k)
    BY <2>1 DEF Find
  <2> QED BY <2>2, FindIs
<1>3. ASSUME NEW u \in Obj, NEW s \in Spans PROVE Ref(fl2, u, s) = Ref(fl, u, s)
  <2>1. IxSpan(s) \in Nat
    BY SpansType, IxSpanType
  <2> QED BY <1>2, <2>1 DEF Ref
<1>4. ASSUME NEW u \in Obj, Find(fl, u, 0) # NoPage PROVE HSize(fl2, u) = HSize(fl, u)
  BY <1>2, <1>4 DEF HSize
<1> QED BY <1>1, <1>2, <1>3, <1>4

LEMMA KnownSame ==
  ASSUME NEW fl, NEW fl2, NEW fds, FdOK(fl, fds),
         \A u \in Obj, k \in Nat : Find(fl2, u, k) = Find(fl, u, k)
  PROVE  FdOK(fl2, fds)
BY DEF FdOK, Knows, Descriptors

(* The page p holds the data of span s of file o.                          *)
DataIn(fl, p, o, s) ==
  /\ p \in Page /\ p # NoPage
  /\ fl[p] \in DataPages /\ fl[p].kind = "data" /\ fl[p].obj = o /\ fl[p].span = s
  /\ BytesOf(fl, p) = fl[p].bytes

LEMMA DataAt ==
  ASSUME NEW fl, NEW R, NEW o, NEW b, NEW s, FlashOK(fl), Laid(fl, R, o, b), s \in Spans,
         First(s) < Len(b)
  PROVE  DataIn(fl, R[s], o, s)
<1>1. R[s] \in Page /\ fl[R[s]].kind = "data" /\ fl[R[s]].obj = o /\ fl[R[s]].span = s
  BY DEF Laid
<1>2. fl[R[s]] \in DataPages
  BY <1>1, KindIs DEF FlashOK
<1>3. BytesOf(fl, R[s]) = fl[R[s]].bytes
  BY <1>1 DEF BytesOf
<1> QED BY <1>1, <1>2, <1>3, PageType DEF DataIn

LEMMA ByteIs ==
  ASSUME NEW fl, NEW R, NEW o, NEW b, NEW s, NEW j, FlashOK(fl), Laid(fl, R, o, b), s \in Spans,
         First(s) < Len(b), j \in 0 .. DPS - 1
  PROVE  BytesOf(fl, R[s])[j] = IF First(s) + j < Len(b) THEN b[First(s) + j + 1] ELSE Erased
<1>1. R[s] \in Page /\ fl[R[s]].kind = "data" /\ fl[R[s]].obj = o /\ fl[R[s]].span = s
      /\ BytesOf(fl, R[s]) = fl[R[s]].bytes
  <2>1. DataIn(fl, R[s], o, s)
    BY DataAt
  <2> QED BY <2>1 DEF DataIn
<1> QED BY <1>1 DEF Laid

(* What a fresh descriptor reads of a file that no call is at work on.     *)
LEMMA ReadIs ==
  ASSUME NEW fl, NEW o, NEW b, NEW R, NEW i, FlashOK(fl), o \in Obj, Laid(fl, R, o, b),
         DataSpan(i) \in Spans => R[DataSpan(i)] = Ref(fl, o, DataSpan(i)),
         i \in Nat, i < Len(b), Len(b) \in 0 .. MaxSize
  PROVE  /\ Find(fl, o, IxSpan(DataSpan(i))) # NoPage
         /\ BytesOf(fl, fl[Find(fl, o, IxSpan(DataSpan(i)))].ix[DataSpan(i)])[i % DPS] = b[i + 1]
         /\ ByteAt(fl, o, i) = b[i + 1]
<1> DEFINE s == DataSpan(i)
           j == i % DPS
<1>1. s \in Nat /\ j \in 0 .. DPS - 1 /\ i = First(s) + j /\ First(s) \in Nat
  BY SpanOf
<1>2. Len(b) \in Nat
  OBVIOUS
<1>3. First(s) < Len(b)
  BY <1>1, <1>2
<1> HIDE DEF j
<1>4. s \in Spans
  BY <1>1, <1>3, WithinFile
<1>5. R[s] = Ref(fl, o, s)
  BY <1>4
<1>6. fl \in [Page -> Pages]
  BY DEF FlashOK
<1> HIDE DEF s
<1>7. R[s] # NoPage /\ BytesOf(fl, R[s])[j] = b[i + 1]
  <2>0. DataIn(fl, R[s], o, s)
    BY <1>3, <1>4, DataAt
  <2>1. R[s] # NoPage
    BY <2>0 DEF DataIn
  <2>2. BytesOf(fl, R[s])[j] = IF First(s) + j < Len(b) THEN b[First(s) + j + 1] ELSE Erased
    BY <1>1, <1>3, <1>4, ByteIs
  <2>3. First(s) + j < Len(b) /\ First(s) + j + 1 = i + 1
    BY <1>1
  <2> QED BY <2>1, <2>2, <2>3
<1>8. Find(fl, o, IxSpan(s)) # NoPage /\ R[s] = fl[Find(fl, o, IxSpan(s))].ix[s]
  BY <1>5, <1>7 DEF Ref
<1>9. ByteAt(fl, o, i) = BytesOf(fl, fl[Find(fl, o, IxSpan(s))].ix[s])[j]
  BY <1>8 DEF ByteAt, s, j
<1> QED BY <1>7, <1>8, <1>9 DEF s, j

(* The history tells what flash holds of a file that no call works on.     *)
LEMMA ContentIs ==
  ASSUME NEW fl, NEW fds, NEW c, NEW fi, NEW vw, NEW o, Core(fl, fds, c, fi, vw), o \in Obj,
         c = NoCall \/ o # c.obj
  PROVE  Content(fl, o) = fi[o]
<1>1. FlashOK(fl) /\ Exist(fl, fi) /\ Layout(fl, c, fi) /\ SizesAgree(fl, fds, c, fi)
  BY DEF Core
<1> DEFINE b == fi[o].bytes
<1>2. fi[o] \in FilesSet /\ b \in Seq(Val) /\ Len(b) \in 0 .. MaxSize /\ fi[o].exists \in BOOLEAN
  BY <1>1, FileType DEF Exist
<1>3. c.op \notin {"append", "modify", "truncate"} \/ o # c.obj
  BY NoCallIs
<1>4. Current(c, fi, o) = b
  BY <1>3, CurrentOut
<1>5. ~Changing(c, o)
  BY NoCallIs DEF Changing
<1>6. CASE Find(fl, o, 0) = NoPage
  <2>1. ~fi[o].exists /\ b = <<>>
    BY <1>1, <1>2, <1>6 DEF Exist
  <2>2. fi[o] = [exists |-> FALSE, bytes |-> <<>>]
    BY <1>2, <2>1 DEF FilesSet
  <2> QED BY <1>6, <2>2 DEF Content, Promise!NoFile
<1>7. CASE Find(fl, o, 0) # NoPage
  <2>1. fi[o].exists
    BY <1>1, <1>7 DEF Exist
  <2>2. Bytes(fl[Find(fl, o, 0)].size) = Len(b)
    BY <1>1, <1>4, <1>5, <2>1 DEF SizesAgree, HSize
  <2>3. Laid(fl, Table(fl, c, o), o, b)
    BY <1>1, <1>4 DEF Layout
  <2>4. \A s \in Spans : Table(fl, c, o)[s] = Ref(fl, o, s)
    <3>1. c.prev = -1 \/ o # c.obj
      BY NoCallIs
    <3> QED BY <3>1, TableOut
  <2>5. ASSUME NEW i \in 1 .. Len(b) PROVE ByteAt(fl, o, i - 1) = b[i]
    <3>1. i - 1 \in Nat /\ i - 1 < Len(b) /\ (i - 1) + 1 = i
      BY <1>2
    <3> HIDE DEF b
    <3>2. DataSpan(i - 1) \in Spans => Table(fl, c, o)[DataSpan(i - 1)] = Ref(fl, o, DataSpan(i - 1))
      BY <2>4
    <3>3. ByteAt(fl, o, i - 1) = b[(i - 1) + 1]
      BY <1>1, <1>2, <2>3, <3>1, <3>2, ReadIs
    <3> QED BY <3>1, <3>3
  <2>6. [i \in 1 .. Len(b) |-> ByteAt(fl, o, i - 1)] = b
    <3>1. b \in [1 .. Len(b) -> Val]
      BY <1>2
    <3> HIDE DEF b
    <3> QED BY <2>5, <3>1
  <2>7. fi[o] = [exists |-> TRUE, bytes |-> b]
    BY <1>2, <2>1 DEF FilesSet
  <2> QED BY <1>7, <2>2, <2>6, <2>7 DEF Content, Promise!Holding
<1> QED BY <1>6, <1>7

-----------------------------------------------------------------------------
(* What the invariant says of a call, part by part.                        *)

LEMMA CoreIs ==
  ASSUME NEW fl, NEW fds, NEW c, NEW fi, NEW vw, Core(fl, fds, c, fi, vw)
  PROVE  /\ FlashOK(fl) /\ FdOK(fl, fds) /\ Exist(fl, fi) /\ Layout(fl, c, fi)
         /\ SizesAgree(fl, fds, c, fi) /\ CallOK(fl, fds, c, fi, vw) /\ Views(fds, c, fi, vw)
BY DEF Core

(* Only truncation and removal use a descriptor of their own.              *)
LEMMA CallIs ==
  ASSUME NEW fl, NEW fds, NEW c, NEW fi, NEW vw, CallOK(fl, fds, c, fi, vw), c # NoCall
  PROVE  /\ c \in Locals /\ c.op \in {"create", "append", "modify", "truncate"} /\ c.step \in {"gc", "run"}
         /\ c.fd \in Fd /\ c.obj \in Obj
         /\ c.prev = -1 \/ HoldsWork(fl, c)
         /\ c.step = "gc" => c.prev = -1
         /\ c.op = "create" => Creating(fds, c, fi)
         /\ c.op = "modify" => Modifying(fl, fds, c, fi, vw)
         /\ c.op = "append" => Appending(fl, fds, c, fi, vw)
         /\ c.op = "truncate" => Shortens(fl, fds, c, fi, vw)
         /\ c.temp => c.op = "truncate"
<1>1. /\ c \in Locals /\ c.op # "none" /\ c.step # "none"
      /\ c.prev = -1 \/ HoldsWork(fl, c)
      /\ c.op = "create" => Creating(fds, c, fi)
      /\ c.op = "modify" => Modifying(fl, fds, c, fi, vw)
      /\ c.op = "append" => Appending(fl, fds, c, fi, vw)
      /\ c.op = "truncate" => Shortens(fl, fds, c, fi, vw)
  BY DEF CallOK
<1>2. c.op \in {"none", "create", "append", "modify", "truncate"} /\ c.step \in {"none", "gc", "run"}
      /\ c.fd \in Fd /\ c.obj \in Obj
  BY <1>1 DEF Locals
<1>3. c.step = "gc" => c.prev = -1
  BY <1>1 DEF HoldsWork
<1>4. c.op = "create" => ~c.temp
  BY <1>1 DEF Creating
<1>5. WritesOn(fl, fds, c, fi, vw) => ~c.temp
  BY DEF WritesOn
<1>6. c.op = "modify" \/ c.op = "append" => ~c.temp
  BY <1>1, <1>5 DEF Modifying, Appending
<1> QED BY <1>1, <1>2, <1>3, <1>4, <1>6

(* A position is within the file, but for a truncation under way.          *)
LEMMA PosWithin ==
  ASSUME NEW fl, NEW fds, NEW c, NEW fi, NEW vw, NEW f, Core(fl, fds, c, fi, vw), f \in Fd,
         fds[f].open, ~Changing(c, fds[f].obj) \/ c.op # "truncate"
  PROVE  fds[f].pos <= Len(fi[fds[f].obj].bytes)
<1>0. CallOK(fl, fds, c, fi, vw) /\ Views(fds, c, fi, vw) /\ FdOK(fl, fds) /\ Exist(fl, fi)
  BY CoreIs
<1>1. fds[f].obj \in Obj /\ fds[f].pos \in 0 .. MaxSize
  BY <1>0 DEF FdOK, Descriptors
<1>2. Len(fi[fds[f].obj].bytes) \in Nat
  BY <1>0, <1>1, FileType, ObjectsAssumption
<1>3. Seen(c, f, fds[f], vw[f]) /\ (vw[f].open => vw[f].pos <= Len(fi[vw[f].obj].bytes))
  BY <1>0 DEF Views
<1>4. CASE vw[f] = View(fds[f])
  <2>1. vw[f] = [open |-> TRUE, obj |-> fds[f].obj, pos |-> fds[f].pos]
    BY <1>4 DEF View, Promise!At
  <2> QED BY <1>3, <2>1
<1>5. CASE c.temp /\ f = c.fd
  <2>1. c # NoCall
    BY <1>5, NoCallIs
  <2>2. Shortens(fl, fds, c, fi, vw)
    BY <1>0, <1>5, <2>1, CallIs
  <2>3. fds[f].pos = 0
    BY <1>5, <2>2 DEF Shortens
  <2> QED BY <1>2, <2>3
<1>6. CASE Writing(c) /\ f = c.fd
  <2>1. c # NoCall
    BY <1>6, NoCallIs DEF Writing
  <2>2. c \in Locals /\ (Modifying(fl, fds, c, fi, vw) \/ Appending(fl, fds, c, fi, vw))
    BY <1>0, <1>6, <2>1, CallIs DEF Writing
  <2>3. WritesOn(fl, fds, c, fi, vw) /\ c.offset <= Len(fi[c.obj].bytes)
    <3>1. c.offset \in Nat /\ c.len \in Nat /\ Len(fi[c.obj].bytes) \in Int
      <4>1. c.offset \in Nat /\ c.len \in Nat /\ c.obj \in Obj
        BY <2>2 DEF Locals
      <4> QED BY <4>1, <1>0, FileType
    <3>2. CASE Modifying(fl, fds, c, fi, vw)
      BY <3>1, <3>2 DEF Modifying
    <3>3. CASE Appending(fl, fds, c, fi, vw)
      BY <3>1, <3>3 DEF Appending
    <3> QED BY <2>2, <3>2, <3>3
  <2>4. fds[f].pos = c.start /\ c.start <= c.offset /\ fds[f].obj = c.obj
    BY <1>6, <2>3 DEF WritesOn
  <2>5. c.start \in Nat /\ c.offset \in Nat
    BY <2>2 DEF Locals
  <2> QED BY <1>2, <2>3, <2>4, <2>5
<1>7. c.op = "truncate" /\ c.step = "run" /\ fds[f].obj = c.obj => Changing(c, fds[f].obj) /\ c.op = "truncate"
  BY DEF Changing
<1> QED BY <1>3, <1>4, <1>5, <1>6, <1>7 DEF Seen

-----------------------------------------------------------------------------
(* What the descriptors show stays.                                        *)

Steady(fds, fds2) ==
  \A f \in Fd : /\ fds2[f].open = fds[f].open /\ fds2[f].obj = fds[f].obj /\ fds2[f].pos = fds[f].pos
                /\ Bytes(fds2[f].size) = Bytes(fds[f].size)

LEMMA ResizedSteady ==
  ASSUME NEW fl, NEW fds, NEW c, NEW fi, NEW vw, NEW fds2, NEW o, NEW size,
         Core(fl, fds, c, fi, vw), Resized(fds, fds2, o, size), o \in Obj,
         size # 0 => /\ Bytes(size) = Len(Current(c, fi, o)) /\ Len(Current(c, fi, o)) = Len(fi[o].bytes)
                     /\ ~Changing(c, o)
  PROVE  Steady(fds, fds2)
<1>0. CallOK(fl, fds, c, fi, vw) /\ SizesAgree(fl, fds, c, fi) /\ FdOK(fl, fds) /\ Exist(fl, fi)
  BY CoreIs
<1> SUFFICES ASSUME NEW f \in Fd
             PROVE  /\ fds2[f].open = fds[f].open /\ fds2[f].obj = fds[f].obj /\ fds2[f].pos = fds[f].pos
                    /\ Bytes(fds2[f].size) = Bytes(fds[f].size)
  BY DEF Steady
<1>1. CASE ~(fds[f].open /\ fds[f].obj = o /\ size # 0)
  BY <1>1 DEF Resized
<1>2. CASE fds[f].open /\ fds[f].obj = o /\ size # 0
  <2>1. fds2[f].open = fds[f].open /\ fds2[f].obj = fds[f].obj /\ fds2[f].size = size
        /\ fds2[f].pos = Least(fds[f].pos, Bytes(size))
    BY <1>2 DEF Resized
  <2>2. fds[f].pos <= Len(fi[o].bytes)
    BY <1>2, PosWithin
  <2>3. fi[o].exists
    <3>1. Knows(fl, fds[f])
      BY <1>0, <1>2 DEF FdOK
    <3> QED BY <1>0, <1>2, <3>1 DEF Knows, Exist
  <2>4. Bytes(fds[f].size) = Len(Current(c, fi, o))
    BY <1>0, <1>2, <2>3 DEF SizesAgree
  <2> QED BY <1>2, <2>1, <2>2, <2>4 DEF Least
<1> QED BY <1>1, <1>2

LEMMA SizesKept ==
  ASSUME NEW fl, NEW fl2, NEW fds, NEW fds2, NEW c, NEW c2, NEW fi, SizesAgree(fl, fds, c, fi),
         Steady(fds, fds2), Exist(fl, fi),
         \A u \in Obj : Changing(c, u) => Changing(c2, u),
         \A u \in Obj : Find(fl, u, 0) # NoPage => HSize(fl2, u) = HSize(fl, u),
         \A u \in Obj : Current(c2, fi, u) = Current(c, fi, u)
  PROVE  SizesAgree(fl2, fds2, c2, fi)
<1> SUFFICES ASSUME NEW u \in Obj, fi[u].exists, ~Changing(c2, u)
             PROVE  /\ Bytes(HSize(fl2, u)) = Len(Current(c2, fi, u))
                    /\ \A f \in Fd : fds2[f].open /\ fds2[f].obj = u =>
                         Bytes(fds2[f].size) = Len(Current(c2, fi, u))
  BY DEF SizesAgree
<1>1. Find(fl, u, 0) # NoPage
  BY DEF Exist
<1>2. HSize(fl2, u) = HSize(fl, u) /\ Current(c2, fi, u) = Current(c, fi, u) /\ ~Changing(c, u)
  BY <1>1
<1>3. /\ Bytes(HSize(fl, u)) = Len(Current(c, fi, u))
      /\ \A f \in Fd : fds[f].open /\ fds[f].obj = u => Bytes(fds[f].size) = Len(Current(c, fi, u))
  BY <1>2 DEF SizesAgree
<1> QED BY <1>2, <1>3 DEF Steady

LEMMA ExistKept ==
  ASSUME NEW fl, NEW fl2, NEW fi, Exist(fl, fi),
         \A u \in Obj : Find(fl2, u, 0) # NoPage <=> Find(fl, u, 0) # NoPage
  PROVE  Exist(fl2, fi)
BY DEF Exist

(* The same call at the same point of its loop.                            *)
LikeCall(c, c2) ==
  /\ c2.op = c.op /\ c2.fd = c.fd /\ c2.obj = c.obj /\ c2.temp = c.temp /\ c2.start = c.start
  /\ c2.offset = c.offset /\ c2.len = c.len /\ c2.written = c.written /\ c2.rest = c.rest
  /\ c2.val = c.val /\ c2.new = c.new /\ c2.cur = c.cur /\ c2.span = c.span /\ c2.full = c.full

(* A descriptor shows the same place; a call is at work on the same file.  *)
Placed(fds, fds2) ==
  \A f \in Fd : fds2[f].open = fds[f].open /\ fds2[f].obj = fds[f].obj /\ fds2[f].pos = fds[f].pos

SameFile(c, c2) ==
  c2.op = c.op /\ c2.fd = c.fd /\ c2.obj = c.obj /\ c2.temp = c.temp /\ c2.new = c.new

LEMMA ViewsKept ==
  ASSUME NEW fds, NEW fds2, NEW c, NEW c2, NEW fi, NEW vw, Views(fds, c, fi, vw),
         Placed(fds, fds2), SameFile(c, c2), c2.step = c.step \/ c.step = "gc",
         \A f \in Fd : fds[f].pos \in 0 .. MaxSize
  PROVE  Views(fds2, c2, fi, vw)
<1>1. ASSUME NEW f \in Fd PROVE Seen(c2, f, fds2[f], vw[f])
  <2>1. Seen(c, f, fds[f], vw[f])
    BY DEF Views
  <2>2. fds2[f].open = fds[f].open /\ fds2[f].obj = fds[f].obj /\ fds2[f].pos = fds[f].pos
    BY DEF Placed
  <2>3. View(fds2[f]) = View(fds[f])
    BY <2>2 DEF View
  <2>4. c2.op = c.op /\ c2.fd = c.fd /\ c2.obj = c.obj /\ c2.temp = c.temp /\ c2.new = c.new
        /\ (Writing(c2) <=> Writing(c))
    BY DEF SameFile, Writing
  <2>5. CASE c.temp /\ f = c.fd
    BY <2>1, <2>4, <2>5 DEF Seen
  <2>6. CASE ~(c.temp /\ f = c.fd) /\ c.op = "truncate" /\ fds[f].open /\ fds[f].obj = c.obj
    <3>1. CASE c.step = "run"
      <4>1. c2.step = "run"
        BY <3>1
      <4> QED BY <2>1, <2>2, <2>4, <2>6, <3>1, <4>1 DEF Seen
    <3>2. CASE c.step # "run"
      <4>1. vw[f] = View(fds[f])
        BY <2>1, <2>6, <3>2 DEF Seen, Writing
      <4>2. vw[f] = Promise!At(c.obj, fds[f].pos) /\ fds[f].pos \in 0 .. MaxSize
        BY <2>6, <4>1 DEF View
      <4>3. \E n \in 0 .. MaxSize : vw[f] = Promise!At(c.obj, n) /\ Least(n, c.new) = Least(fds[f].pos, c.new)
        BY <4>2
      <4>4. ~Writing(c2)
        BY <2>4, <2>6 DEF Writing
      <4> QED BY <2>2, <2>3, <2>4, <2>6, <4>1, <4>3, <4>4 DEF Seen
    <3> QED BY <3>1, <3>2
  <2>7. CASE ~(c.temp /\ f = c.fd) /\ ~(c.op = "truncate" /\ fds[f].open /\ fds[f].obj = c.obj)
    BY <2>1, <2>2, <2>3, <2>4, <2>7 DEF Seen
  <2> QED BY <2>5, <2>6, <2>7
<1>2. /\ vw \in [Fd -> [open : BOOLEAN, obj : Obj, pos : 0 .. MaxSize]]
      /\ \A f \in Fd : vw[f].open => vw[f].pos <= Len(fi[vw[f].obj].bytes)
  BY DEF Views
<1> QED BY <1>1, <1>2 DEF Views

-----------------------------------------------------------------------------
(* The bytes of a file in the hands of a call.                             *)

(* The places of a write.                                                  *)
LEMMA WriteIs ==
  ASSUME NEW fl, NEW fds, NEW c, NEW fi, NEW vw, Core(fl, fds, c, fi, vw),
         c.op \in {"append", "modify"}
  PROVE  /\ c \in Locals /\ c.fd \in Fd /\ c.obj \in Obj /\ c.val \in Val /\ c.start \in Nat /\ c.offset \in Nat
         /\ c.len \in Nat /\ c.written \in Nat /\ c.rest \in Nat
         /\ c.start <= c.offset /\ c.written <= c.len /\ WritesOn(fl, fds, c, fi, vw)
         /\ c.offset <= Len(fi[c.obj].bytes) /\ c.offset + c.len <= MaxSize
         /\ c.op = "append" => c.offset = Len(fi[c.obj].bytes)
         /\ c.op = "modify" => c.offset + c.len <= Len(fi[c.obj].bytes) /\ c.start = c.offset
<1>1. CallOK(fl, fds, c, fi, vw) /\ c # NoCall /\ Exist(fl, fi)
  BY CoreIs, NoCallIs
<1>2. /\ c \in Locals /\ c.fd \in Fd /\ c.obj \in Obj
      /\ c.op = "modify" => Modifying(fl, fds, c, fi, vw)
      /\ c.op = "append" => Appending(fl, fds, c, fi, vw)
  BY <1>1, CallIs
<1>3. c.val \in Val /\ c.start \in Nat /\ c.offset \in Nat /\ c.len \in Nat /\ c.written \in Nat /\ c.rest \in Nat
  BY <1>2 DEF Locals
<1>4. Len(fi[c.obj].bytes) \in 0 .. MaxSize /\ MaxSize \in Nat
  BY <1>1, <1>2, FileType, ObjectsAssumption
<1>5. WritesOn(fl, fds, c, fi, vw)
  BY <1>2 DEF Modifying, Appending
<1>6. c.start <= c.offset /\ c.written <= c.len
  BY <1>5 DEF WritesOn
<1>7. CASE c.op = "append"
  <2>1. c.offset = Len(fi[c.obj].bytes) /\ c.offset + c.len <= MaxSize
    BY <1>2, <1>7 DEF Appending
  <2> QED BY <1>2, <1>3, <1>4, <1>5, <1>6, <1>7, <2>1
<1>8. CASE c.op = "modify"
  <2>1. c.start = c.offset /\ c.offset + c.len <= Len(fi[c.obj].bytes)
    BY <1>2, <1>8 DEF Modifying
  <2>2. PICK n : n = Len(fi[c.obj].bytes)
    OBVIOUS
  <2>3. c.offset <= n /\ c.offset + c.len <= MaxSize
    <3>1. n \in Nat /\ n <= MaxSize /\ MaxSize \in Nat /\ c.offset + c.len <= n
      BY <1>4, <2>1, <2>2
    <3> QED BY <1>3, <3>1
  <2> QED BY <1>2, <1>3, <1>5, <1>6, <1>8, <2>1, <2>2, <2>3
<1> QED BY <1>7, <1>8

LEMMA CutPlace ==
  ASSUME NEW fl, NEW fds, NEW c, NEW fi, NEW vw, Core(fl, fds, c, fi, vw), c.op = "truncate"
  PROVE  /\ c \in Locals /\ c.fd \in Fd /\ c.obj \in Obj /\ c.new \in Nat /\ c.cur \in Nat
         /\ c.new <= c.cur /\ c.cur <= Len(fi[c.obj].bytes) /\ Shortens(fl, fds, c, fi, vw)
         /\ c.step = "gc" => c.cur = Len(fi[c.obj].bytes)
         /\ Len(fi[c.obj].bytes) \in 0 .. MaxSize /\ fi[c.obj].bytes \in Seq(Val)
<1>1. CallOK(fl, fds, c, fi, vw) /\ c # NoCall /\ Exist(fl, fi)
  BY CoreIs, NoCallIs
<1>2. c \in Locals /\ c.fd \in Fd /\ c.obj \in Obj /\ Shortens(fl, fds, c, fi, vw)
  BY <1>1, CallIs
<1>3. c.new \in Nat /\ c.cur \in Nat
  BY <1>2 DEF Locals
<1>4. Len(fi[c.obj].bytes) \in 0 .. MaxSize /\ fi[c.obj].bytes \in Seq(Val)
  BY <1>1, <1>2, FileType
<1>5. c.new <= c.cur /\ c.cur <= Len(fi[c.obj].bytes) /\ (c.step = "gc" => c.cur = Len(fi[c.obj].bytes))
  BY <1>2 DEF Shortens
<1> QED BY <1>2, <1>3, <1>4, <1>5

LEMMA CurrentIs ==
  ASSUME NEW fl, NEW fds, NEW c, NEW fi, NEW vw, NEW o, Core(fl, fds, c, fi, vw), o \in Obj
  PROVE  /\ Current(c, fi, o) \in Seq(Val)
         /\ Len(Current(c, fi, o)) = IF o = c.obj /\ c.op = "append" THEN c.offset + c.written
                                     ELSE IF o = c.obj /\ c.op = "truncate" THEN c.cur
                                     ELSE Len(fi[o].bytes)
         /\ Len(Current(c, fi, o)) \in 0 .. MaxSize
         /\ ~Changing(c, o) => Len(Current(c, fi, o)) = Len(fi[o].bytes)
<1>1. CallOK(fl, fds, c, fi, vw) /\ Exist(fl, fi)
  BY CoreIs
<1> DEFINE b == fi[o].bytes
<1>2. b \in Seq(Val) /\ Len(b) \in 0 .. MaxSize /\ MaxSize \in Nat
  BY <1>1, FileType, ObjectsAssumption
<1>3. CASE o = c.obj /\ c.op \in {"append", "modify"}
  <2>1. /\ c.val \in Val /\ c.start \in Nat /\ c.offset \in Nat /\ c.len \in Nat /\ c.written \in Nat
        /\ c.start <= c.offset /\ c.written <= c.len /\ WritesOn(fl, fds, c, fi, vw)
        /\ c.offset <= Len(b) /\ c.offset + c.len <= MaxSize
        /\ c.op = "append" => c.offset = Len(b)
        /\ c.op = "modify" => c.offset + c.len <= Len(b) /\ c.start = c.offset
    BY <1>3, WriteIs
  <2> DEFINE n == (c.offset + c.written) - c.start
  <2>2. n \in Nat /\ c.start <= Len(b) /\ c.start + n = c.offset + c.written
    <3>1. PICK m : m = Len(b)
      OBVIOUS
    <3>2. c.start <= m /\ n \in Nat /\ c.start + n = c.offset + c.written
      <4>1. m \in Nat /\ c.offset <= m
        BY <1>2, <2>1, <3>1
      <4> HIDE DEF b
      <4> QED BY <2>1, <4>1
    <3> QED BY <3>1, <3>2
  <2>3. Current(c, fi, o) = Spliced(b, c.start, n, c.val)
    BY <1>3 DEF Current
  <2> HIDE DEF n, b
  <2>4. /\ Current(c, fi, o) \in Seq(Val)
        /\ Len(Current(c, fi, o)) = IF c.offset + c.written > Len(b) THEN c.offset + c.written ELSE Len(b)
    <3>1. /\ Spliced(b, c.start, n, c.val) \in Seq(Val)
          /\ Len(Spliced(b, c.start, n, c.val)) = IF c.start + n > Len(b) THEN c.start + n ELSE Len(b)
      BY <1>2, <2>1, <2>2, SplicedIs
    <3> QED BY <2>2, <2>3, <3>1
  <2>5. CASE c.op = "append"
    <3>1. Len(Current(c, fi, o)) = c.offset + c.written
      BY <1>2, <2>1, <2>4, <2>5
    <3>2. ~Changing(c, o) => c.written = 0
      <4>1. c.step \in {"gc", "run"}
        BY <1>1, <1>3, NoCallIs, CallIs
      <4>2. c.step = "gc" => c.written = 0
        BY <2>1 DEF WritesOn
      <4>3. CASE c.step = "run"
        <5>1. ~Changing(c, o) => ~(c.written > 0)
          BY <1>3, <2>5, <4>3 DEF Changing
        <5>2. c.written \in Nat
          BY <2>1
        <5> QED BY <5>1, <5>2
      <4> QED BY <4>1, <4>2, <4>3
    <3>3. ~Changing(c, o) => Len(Current(c, fi, o)) = Len(b)
      BY <2>1, <2>5, <3>1, <3>2
    <3>4. Len(Current(c, fi, o)) \in 0 .. MaxSize
      <4>1. c.offset + c.written \in 0 .. MaxSize
        BY <1>2, <2>1
      <4> QED BY <3>1, <4>1
    <3> QED BY <1>3, <2>4, <2>5, <3>1, <3>3, <3>4 DEF b
  <2>6. CASE c.op = "modify"
    <3>1. Len(Current(c, fi, o)) = Len(b)
      BY <1>2, <2>1, <2>4, <2>6
    <3> QED BY <1>2, <1>3, <2>4, <2>6, <3>1 DEF b
  <2> QED BY <1>3, <2>5, <2>6
<1>4. CASE o = c.obj /\ c.op = "truncate"
  <2>1. /\ c.cur \in Nat /\ c.cur <= Len(b) /\ (c.step = "gc" => c.cur = Len(b))
    BY <1>4, CutPlace
  <2>2. Current(c, fi, o) = SubSeq(b, 1, c.cur)
    BY <1>4 DEF Current
  <2>3. c.cur \in 0 .. Len(b)
    BY <1>2, <2>1
  <2> HIDE DEF b
  <2>4. SubSeq(b, 1, c.cur) \in Seq(Val) /\ Len(SubSeq(b, 1, c.cur)) = c.cur
    BY <1>2, <2>3, CutIs
  <2>5. ~Changing(c, o) => c.step = "gc"
    <3>1. c.step \in {"gc", "run"}
      BY <1>1, <1>4, NoCallIs, CallIs
    <3> QED BY <1>4, <3>1 DEF Changing
  <2>6. Len(Current(c, fi, o)) = c.cur /\ Current(c, fi, o) \in Seq(Val)
    BY <2>2, <2>4
  <2>7. c.cur \in 0 .. MaxSize
    BY <1>2, <2>1
  <2>8. ~Changing(c, o) => Len(Current(c, fi, o)) = Len(b)
    BY <2>1, <2>5, <2>6
  <2> QED BY <1>4, <2>6, <2>7, <2>8 DEF b
<1>5. CASE ~(o = c.obj /\ c.op \in {"append", "modify", "truncate"})
  <2>1. Current(c, fi, o) = b
    BY <1>5, CurrentOut
  <2> QED BY <1>2, <1>5, <2>1
<1> QED BY <1>3, <1>4, <1>5

-----------------------------------------------------------------------------
(* The collector's steps.                                                  *)

FoundSame(fl, fl2) == \A u \in Obj, k \in Nat : Find(fl2, u, k) # NoPage <=> Find(fl, u, k) # NoPage
HeadsSame(fl, fl2) == \A u \in Obj : Find(fl, u, 0) # NoPage => HSize(fl2, u) = HSize(fl, u)

LEMMA CurrentLike ==
  ASSUME NEW c, NEW c2, NEW fi, NEW o, LikeCall(c, c2)
  PROVE  Current(c2, fi, o) = Current(c, fi, o)
BY DEF LikeCall, Current

(* The descriptor of a call that is at work on a file.                     *)
LEMMA CallsFd ==
  ASSUME NEW fl, NEW fds, NEW c, NEW fi, NEW vw, Core(fl, fds, c, fi, vw), c # NoCall,
         c.op # "create"
  PROVE  /\ fds[c.fd].open /\ fds[c.fd].obj = c.obj /\ fds[c.fd].hdr = Find(fl, c.obj, 0)
         /\ Find(fl, c.obj, 0) # NoPage /\ fi[c.obj].exists
<1>1. CallOK(fl, fds, c, fi, vw) /\ FdOK(fl, fds) /\ Exist(fl, fi)
  BY CoreIs
<1>2. /\ c.fd \in Fd /\ c.op \in {"create", "append", "modify", "truncate"} /\ c.obj \in Obj
      /\ c.op = "modify" => Modifying(fl, fds, c, fi, vw)
      /\ c.op = "append" => Appending(fl, fds, c, fi, vw)
      /\ c.op = "truncate" => Shortens(fl, fds, c, fi, vw)
  BY <1>1, CallIs
<1>3. fds[c.fd].open /\ fds[c.fd].obj = c.obj
  <2>1. CASE c.op = "truncate"
    BY <1>2, <2>1 DEF Shortens
  <2>2. CASE c.op # "truncate"
    <3>1. WritesOn(fl, fds, c, fi, vw)
      BY <1>2, <2>2 DEF Modifying, Appending
    <3> QED BY <3>1 DEF WritesOn
  <2> QED BY <2>1, <2>2
<1>4. Knows(fl, fds[c.fd])
  BY <1>1, <1>2, <1>3 DEF FdOK
<1>5. fds[c.fd].hdr = Find(fl, c.obj, 0) /\ Find(fl, c.obj, 0) # NoPage
  BY <1>3, <1>4 DEF Knows
<1> QED BY <1>1, <1>2, <1>3, <1>5 DEF Exist

(* The check has gone well: the call goes on.                              *)
Went(c, fds, c2) == c2 = [c EXCEPT !.step = "run", !.pix = fds[c.fd].hdr]

LEMMA GcGo ==
  ASSUME NEW fl, NEW fds, NEW c, NEW fi, NEW vw, NEW fl2, NEW fds2, NEW c2,
         Core(fl, fds, c, fi, vw), c.step = "gc", FlashOK(fl2), FdOK(fl2, fds2), Steady(fds, fds2),
         FoundSame(fl, fl2), HeadsSame(fl, fl2),
         Went(c, fds2, c2),
         \A u \in Obj : Laid(fl2, Table(fl2, c2, u), u, Current(c, fi, u))
  PROVE  Core(fl2, fds2, c2, fi, vw)
<1>1. /\ FlashOK(fl) /\ FdOK(fl, fds) /\ Exist(fl, fi) /\ Layout(fl, c, fi)
      /\ SizesAgree(fl, fds, c, fi) /\ CallOK(fl, fds, c, fi, vw) /\ Views(fds, c, fi, vw)
  BY CoreIs
<1>2. c # NoCall
  BY NoCallIs
<1>3. /\ c \in Locals /\ c.fd \in Fd /\ c.obj \in Obj /\ c.prev = -1
      /\ c.op \in {"create", "append", "modify", "truncate"}
      /\ c.op = "create" => Creating(fds, c, fi)
      /\ c.op = "modify" => Modifying(fl, fds, c, fi, vw)
      /\ c.op = "append" => Appending(fl, fds, c, fi, vw)
      /\ c.op = "truncate" => Shortens(fl, fds, c, fi, vw)
  BY <1>1, <1>2, CallIs
<1>4. fds2[c.fd].hdr \in Target
  BY <1>3 DEF FdOK, Descriptors
<1>5. /\ c2 \in Locals /\ LikeCall(c, c2)
      /\ c2.step = "run" /\ c2.pix = fds2[c.fd].hdr /\ c2.prev = -1
  <2>1. PICK h \in Target : h = fds2[c.fd].hdr
    BY <1>4
  <2>2. c \in Locals /\ c.prev = -1 /\ c2 = [c EXCEPT !.step = "run", !.pix = h]
    BY <1>3, <2>1 DEF Went
  <2>3. c2 \in Locals /\ LikeCall(c, c2) /\ c2.step = "run" /\ c2.pix = h /\ c2.prev = -1
    BY <2>2 DEF Locals, LikeCall
  <2> QED BY <2>1, <2>3
<1>6. \A u \in Obj : Current(c2, fi, u) = Current(c, fi, u)
  BY <1>5, CurrentLike
<1>7. \A u \in Obj : Changing(c, u) => Changing(c2, u)
  BY DEF Changing
<1>8. Exist(fl2, fi)
  <2>1. \A u \in Obj : Find(fl2, u, 0) # NoPage <=> Find(fl, u, 0) # NoPage
    BY DEF FoundSame
  <2> QED BY <1>1, <2>1, ExistKept
<1>9. SizesAgree(fl2, fds2, c2, fi)
  BY <1>1, <1>6, <1>7, SizesKept DEF HeadsSame
<1>10. Views(fds2, c2, fi, vw)
  <2>1. \A f \in Fd : fds[f].pos \in 0 .. MaxSize
    BY <1>1 DEF FdOK, Descriptors
  <2>2. Placed(fds, fds2) /\ SameFile(c, c2)
    BY <1>5 DEF Placed, Steady, SameFile, LikeCall
  <2> QED BY <1>1, <1>5, <2>1, <2>2, ViewsKept
<1>11. Layout(fl2, c2, fi)
  <2>1. ASSUME NEW u \in Obj, NEW k \in Nat, Find(fl2, u, k) # NoPage
        PROVE  Bounded(c2, fi, u, k)
    <3>1. Bounded(c, fi, u, k)
      BY <1>1, <2>1 DEF FoundSame, Layout
    <3>2. k # c.prev
      BY <1>3
    <3> QED BY <1>6, <3>1, <3>2 DEF Bounded
  <2>2. \A u \in Obj : Laid(fl2, Table(fl2, c2, u), u, Current(c2, fi, u))
    BY <1>6
  <2> QED BY <2>1, <2>2 DEF Layout
<1>12. c2.op # "create" => /\ fds2[c2.fd].open /\ fds2[c2.fd].obj = c2.obj
                           /\ c2.pix = Find(fl2, c2.obj, 0) /\ Find(fl, c2.obj, 0) # NoPage
  <2>1. SUFFICES ASSUME c.op # "create"
                 PROVE  /\ fds2[c.fd].open /\ fds2[c.fd].obj = c.obj
                        /\ fds2[c.fd].hdr = Find(fl2, c.obj, 0) /\ Find(fl, c.obj, 0) # NoPage
    BY <1>5 DEF LikeCall
  <2>2. fds[c.fd].open /\ fds[c.fd].obj = c.obj /\ Find(fl, c.obj, 0) # NoPage
    BY <1>2, <2>1, CallsFd
  <2>3. fds2[c.fd].open /\ fds2[c.fd].obj = c.obj
    BY <1>3, <2>2 DEF Steady
  <2>4. Knows(fl2, fds2[c.fd])
    BY <1>3, <2>3 DEF FdOK
  <2> QED BY <2>2, <2>3, <2>4 DEF Knows
<1>13. /\ fds2[c.fd].open = fds[c.fd].open /\ fds2[c.fd].obj = fds[c.fd].obj
       /\ fds2[c.fd].pos = fds[c.fd].pos
  BY <1>3 DEF Steady
<1>14. WritesOn(fl, fds, c, fi, vw) => WritesOn(fl2, fds2, c2, fi, vw)
  <2> SUFFICES ASSUME WritesOn(fl, fds, c, fi, vw) PROVE WritesOn(fl2, fds2, c2, fi, vw)
    OBVIOUS
  <2>1. /\ ~c.temp /\ ~c.full /\ fds[c.fd].open /\ fds[c.fd].obj = c.obj /\ fds[c.fd].pos = c.start
        /\ vw[c.fd].open /\ vw[c.fd].obj = c.obj
        /\ c.start = IF c.fd \in Appends THEN Len(fi[c.obj].bytes) ELSE vw[c.fd].pos
        /\ c.start <= c.offset /\ c.len > 0 /\ c.written = 0
    BY DEF WritesOn
  <2>2. c.written \in Nat /\ c.len \in Nat
    BY <1>3 DEF Locals
  <2>3. c2.fd = c.fd /\ c2.obj = c.obj /\ c2.temp = c.temp /\ c2.start = c.start /\ c2.offset = c.offset
        /\ c2.len = c.len /\ c2.written = c.written /\ c2.full = c.full /\ c2.prev = -1 /\ c2.step = "run"
    BY <1>5 DEF LikeCall
  <2>4. c2.step = "gc" => c2.written = 0 /\ c2.prev = -1
    BY <2>3
  <2>5. c2.start <= c2.offset /\ c2.len > 0 /\ c2.written <= c2.len /\ c2.written = 0
    BY <2>1, <2>2, <2>3
  <2>6. fds2[c2.fd].open /\ fds2[c2.fd].obj = c2.obj /\ fds2[c2.fd].pos = c2.start
    BY <1>13, <2>1, <2>3
  <2>7. /\ ~c2.temp /\ ~c2.full /\ vw[c2.fd].open /\ vw[c2.fd].obj = c2.obj
        /\ c2.start = IF c2.fd \in Appends THEN Len(fi[c2.obj].bytes) ELSE vw[c2.fd].pos
    BY <2>1, <2>3
  <2> QED BY <2>3, <2>4, <2>5, <2>6, <2>7 DEF WritesOn
<1>15. c2.op = "create" => Creating(fds2, c2, fi)
  BY <1>3, <1>5, <1>13 DEF Creating, LikeCall
<1>16. c2.op = "modify" => Modifying(fl2, fds2, c2, fi, vw)
  BY <1>3, <1>5, <1>14 DEF Modifying, LikeCall
<1>17. c2.op = "append" => Appending(fl2, fds2, c2, fi, vw)
  <2>1. c2.op = "append" => HSize(fl2, c.obj) = HSize(fl, c.obj)
    BY <1>3, <1>5, <1>12 DEF HeadsSame, LikeCall
  <2> QED BY <1>3, <1>5, <1>14, <2>1 DEF Appending, LikeCall
<1>18. c2.op = "truncate" => Shortens(fl2, fds2, c2, fi, vw)
  BY <1>3, <1>5, <1>13 DEF Shortens, LikeCall
<1>19. CallOK(fl2, fds2, c2, fi, vw)
  <2>1. c2.op # "none"
    BY <1>3, <1>5 DEF LikeCall
  <2> QED BY <1>5, <1>12, <1>15, <1>16, <1>17, <1>18, <2>1 DEF CallOK
<1> QED BY <1>8, <1>9, <1>10, <1>11, <1>19 DEF Core

-----------------------------------------------------------------------------
RefSame(fl, fl2) == \A u \in Obj, s \in Spans : Ref(fl2, u, s) = Ref(fl, u, s)
FindSame(fl, fl2) == \A u \in Obj, k \in Nat : Find(fl2, u, k) = Find(fl, u, k)

(* An index page is in another place as it was.                            *)
LEMMA IndexedSame ==
  ASSUME NEW fl, NEW fl2, NEW o, NEW k, NEW n, NEW x, FlashOK(fl), o \in Obj, k \in Nat,
         n \in Target, n # NoPage, Find(fl, o, k) # NoPage, Indexed(fl, fl2, o, k, n, x),
         \A s \in Entries(k) : x.ix[s] = fl[Find(fl, o, k)].ix[s],
         x.size = fl[Find(fl, o, k)].size
  PROVE  FoundSame(fl, fl2) /\ HeadsSame(fl, fl2) /\ RefSame(fl, fl2) /\ DataSame(fl, fl2)
<1>1. FoundSame(fl, fl2)
  BY DEF FoundSame, Indexed
<1>2. /\ \A u \in Obj, s \in Spans :
              Ref(fl2, u, s) = IF u = o /\ IxSpan(s) = k
                               THEN IF n = NoPage THEN NoPage ELSE x.ix[s]
                               ELSE Ref(fl, u, s)
      /\ \A u \in Obj : Find(fl2, u, 0) # NoPage =>
              HSize(fl2, u) = IF u = o /\ k = 0 THEN x.size ELSE HSize(fl, u)
  BY IndexedRef
<1>3. HeadsSame(fl, fl2)
  <2> SUFFICES ASSUME NEW u \in Obj, Find(fl, u, 0) # NoPage PROVE HSize(fl2, u) = HSize(fl, u)
    BY DEF HeadsSame
  <2>1. Find(fl2, u, 0) # NoPage
    BY <1>1 DEF FoundSame
  <2>2. HSize(fl2, u) = IF u = o /\ k = 0 THEN x.size ELSE HSize(fl, u)
    BY <1>2, <2>1
  <2> QED BY <2>2 DEF HSize
<1>4. RefSame(fl, fl2)
  <2> SUFFICES ASSUME NEW u \in Obj, NEW s \in Spans PROVE Ref(fl2, u, s) = Ref(fl, u, s)
    BY DEF RefSame
  <2>1. CASE u = o /\ IxSpan(s) = k
    <3>1. Ref(fl2, u, s) = x.ix[s]
      BY <1>2, <2>1
    <3>2. s \in Entries(k)
      BY <2>1 DEF Entries
    <3> QED BY <2>1, <3>1, <3>2 DEF Ref
  <2>2. CASE ~(u = o /\ IxSpan(s) = k)
    BY <1>2, <2>2
  <2> QED BY <2>1, <2>2
<1>5. DataSame(fl, fl2)
  BY DEF Indexed, DataSame
<1> QED BY <1>1, <1>3, <1>4, <1>5

LEMMA SameSame ==
  ASSUME NEW fl, NEW fl2, NEW fl3, FoundSame(fl, fl2), HeadsSame(fl, fl2), RefSame(fl, fl2),
         FoundSame(fl2, fl3), HeadsSame(fl2, fl3), RefSame(fl2, fl3)
  PROVE  FoundSame(fl, fl3) /\ HeadsSame(fl, fl3) /\ RefSame(fl, fl3)
BY DEF FoundSame, HeadsSame, RefSame

LEMMA DataSameSame ==
  ASSUME NEW fl, NEW fl2, NEW fl3, DataSame(fl, fl2), DataSame(fl2, fl3)
  PROVE  DataSame(fl, fl3)
BY DEF DataSame

LEMMA CollectedIs ==
  ASSUME FlashOK(flash)
  PROVE  /\ FlashOK(Collected) /\ DataSame(flash, Collected)
         /\ FoundSame(flash, Collected) /\ HeadsSame(flash, Collected) /\ RefSame(flash, Collected)
         /\ FindSame(flash, Collected)
         /\ \A u \in Obj, k \in Nat : Find(flash, u, k) # NoPage =>
              Collected[Find(flash, u, k)] = flash[Find(flash, u, k)]
<1> DEFINE fl2 == Collected
<1>1. \A p \in Page : fl2[p] = IF flash[p].kind = "deleted" THEN FreePage ELSE flash[p]
  BY DEF Collected
<1>2. fl2 \in [Page -> Pages]
  BY DEF Collected, FlashOK, Pages
<1> HIDE DEF fl2
<1>3. FreePage.kind = "free"
  BY DEF FreePage
<1>4. \A p \in Page : flash[p].kind \in {"data", "index"} \/ fl2[p].kind \in {"data", "index"} => fl2[p] = flash[p]
  BY <1>1, <1>3
<1>5. \A p \in Page : flash[p].kind = "index" \/ fl2[p].kind = "index" => fl2[p] = flash[p]
  BY <1>4
<1>6. /\ FlashOK(fl2)
      /\ \A u \in Obj, k \in Nat : Find(fl2, u, k) = Find(flash, u, k)
      /\ \A u \in Obj, k \in Nat : Find(flash, u, k) # NoPage =>
           fl2[Find(flash, u, k)] = flash[Find(flash, u, k)]
      /\ \A u \in Obj, s \in Spans : Ref(fl2, u, s) = Ref(flash, u, s)
      /\ \A u \in Obj : Find(flash, u, 0) # NoPage => HSize(fl2, u) = HSize(flash, u)
  BY <1>2, <1>5, IndexSame
<1>7. DataSame(flash, fl2)
  BY <1>4 DEF DataSame
<1> QED BY <1>6, <1>7 DEF FoundSame, HeadsSame, RefSame, FindSame, fl2

LEMMA StateIs ==
  ASSUME NEW fl, NEW fds
  PROVE  State(fl, fds).flash = fl /\ State(fl, fds).fd = fds
BY DEF State

(* The collector leaves the data where it was, and the files as they were. *)
LEMMA GcGoes ==
  ASSUME NEW fl2, NEW fds2, Core(flash, fd, call, file, view), call.step = "gc",
         FlashOK(fl2), FdOK(fl2, fds2), Steady(fd, fds2),
         FoundSame(flash, fl2), HeadsSame(flash, fl2), RefSame(flash, fl2), DataSame(flash, fl2),
         Go(State(fl2, fds2))
  PROVE  Core(flash', fd', call', file, view)
<1>1. flash' = fl2 /\ fd' = fds2 /\ call' = [call EXCEPT !.step = "run", !.pix = fds2[call.fd].hdr]
  BY DEF Go, Becomes, State
<1>2. call # NoCall /\ call.prev = -1 /\ call \in Locals
  <2>1. call # NoCall
    BY NoCallIs
  <2>2. CallOK(flash, fd, call, file, view)
    BY CoreIs
  <2> QED BY <2>1, <2>2, CallIs
<1>3. call'.prev = -1
  <2>1. call \in Locals /\ call.prev = -1 /\ call' = [call EXCEPT !.step = "run", !.pix = fds2[call.fd].hdr]
    BY <1>1, <1>2
  <2> QED BY <2>1 DEF Locals
<1>4. ASSUME NEW u \in Obj PROVE Laid(fl2, Table(fl2, call', u), u, Current(call, file, u))
  <2>1. Laid(flash, Table(flash, call, u), u, Current(call, file, u)) /\ FlashOK(flash)
    BY DEF Core, Layout
  <2>2. \A s \in Spans : Table(fl2, call', u)[s] = Ref(fl2, u, s)
    BY <1>3, TableOut
  <2>3. \A s \in Spans : Table(flash, call, u)[s] = Ref(flash, u, s)
    BY <1>2, TableOut
  <2>4. \A s \in Spans : Table(fl2, call', u)[s] = Table(flash, call, u)[s]
    BY <2>2, <2>3 DEF RefSame
  <2>5. \A p \in Page : DataOf(flash[p], u) \/ DataOf(fl2[p], u) => fl2[p] = flash[p]
    BY DEF DataSame, DataOf
  <2> QED BY <2>1, <2>4, <2>5, LaidSame
<1>5. Core(fl2, fds2, call', file, view)
  <2>1. Went(call, fds2, call')
    BY <1>1 DEF Went
  <2> HIDE <1>1
  <2> QED BY <1>4, <2>1, GcGo
<1> QED BY <1>1, <1>5

LEMMA GcErasesKeeps ==
  ASSUME Core(flash, fd, call, file, view), GcErases
  PROVE  Core(flash', fd', call', file, view)
<1>1. FlashOK(flash) /\ FdOK(flash, fd)
  BY CoreIs
<1>2. /\ FlashOK(Collected) /\ DataSame(flash, Collected)
      /\ FoundSame(flash, Collected) /\ HeadsSame(flash, Collected) /\ RefSame(flash, Collected)
      /\ FindSame(flash, Collected)
  BY <1>1, CollectedIs
<1>3. FdOK(Collected, fd)
  BY <1>1, <1>2, KnownSame DEF FindSame
<1>4. Steady(fd, fd)
  BY DEF Steady
<1>5. call.step = "gc" /\ Go(State(Collected, fd))
  BY DEF GcErases, Checking
<1> QED BY <1>2, <1>3, <1>4, <1>5, GcGoes

LEMMA GcSkipsKeeps ==
  ASSUME Core(flash, fd, call, file, view), GcSkips
  PROVE  Core(flash', fd', call', file, view)
<1>1. FlashOK(flash) /\ FdOK(flash, fd)
  BY CoreIs
<1>2. call.step = "gc" /\ Go(State(flash, fd))
  BY DEF GcSkips, Checking, Now
<1>3. /\ DataSame(flash, flash) /\ FoundSame(flash, flash) /\ HeadsSame(flash, flash)
      /\ RefSame(flash, flash) /\ Steady(fd, fd)
  BY DEF DataSame, FoundSame, HeadsSame, RefSame, Steady
<1> QED BY <1>1, <1>2, <1>3, GcGoes

(* Deleted pages are erased while a call runs.                             *)
LEMMA GcQuickKeeps ==
  ASSUME Core(flash, fd, call, file, view), GcQuick
  PROVE  Core(flash', fd', call', file, view) /\ call' # NoCall
<1>1. /\ FlashOK(flash) /\ FdOK(flash, fd) /\ Exist(flash, file) /\ Layout(flash, call, file)
      /\ SizesAgree(flash, fd, call, file) /\ CallOK(flash, fd, call, file, view)
      /\ Views(fd, call, file, view)
  BY CoreIs
<1>2. PICK fl2 : fl2 = Collected
  OBVIOUS
<1>3. flash' = fl2 /\ fd' = fd /\ call' = call /\ call.step = "run"
  BY <1>2 DEF GcQuick
<1>4. /\ FlashOK(fl2) /\ DataSame(flash, fl2)
      /\ FoundSame(flash, fl2) /\ HeadsSame(flash, fl2) /\ RefSame(flash, fl2) /\ FindSame(flash, fl2)
      /\ \A u \in Obj, k \in Nat : Find(flash, u, k) # NoPage =>
           fl2[Find(flash, u, k)] = flash[Find(flash, u, k)]
  BY <1>1, <1>2, CollectedIs
<1>5. call # NoCall
  BY <1>3, NoCallIs
<1>6. /\ call \in Locals /\ call.obj \in Obj /\ call.op \in {"create", "append", "modify", "truncate"}
      /\ call.prev = -1 \/ HoldsWork(flash, call)
      /\ call.op = "create" => Creating(fd, call, file)
      /\ call.op = "modify" => Modifying(flash, fd, call, file, view)
      /\ call.op = "append" => Appending(flash, fd, call, file, view)
      /\ call.op = "truncate" => Shortens(flash, fd, call, file, view)
  BY <1>1, <1>5, CallIs
<1>7. FdOK(fl2, fd)
  BY <1>1, <1>4, KnownSame DEF FindSame
<1>8. Exist(fl2, file)
  BY <1>1, <1>4 DEF Exist, FoundSame
<1>9. \A u \in Obj, s \in Spans : Table(fl2, call, u)[s] = Table(flash, call, u)[s]
  BY <1>4, TableType DEF RefSame
<1>10. Layout(fl2, call, file)
  <2>1. ASSUME NEW u \in Obj PROVE Laid(fl2, Table(fl2, call, u), u, Current(call, file, u))
    <3>1. Laid(flash, Table(flash, call, u), u, Current(call, file, u))
      BY <1>1 DEF Layout
    <3>2. \A p \in Page : DataOf(flash[p], u) \/ DataOf(fl2[p], u) => fl2[p] = flash[p]
      BY <1>4 DEF DataSame, DataOf
    <3> QED BY <1>1, <1>9, <3>1, <3>2, LaidSame
  <2> QED BY <1>1, <1>4, <2>1 DEF Layout, FoundSame
<1>11. SizesAgree(fl2, fd, call, file)
  BY <1>1, <1>4 DEF SizesAgree, HeadsSame, Exist
<1>12. call.prev # -1 => HoldsWork(fl2, call) /\ fl2[call.pix] = flash[call.pix]
  BY <1>4, <1>6 DEF HoldsWork, FindSame
<1>13. call.op # "create" => HSize(fl2, call.obj) = HSize(flash, call.obj)
  <2>1. call.op # "create" => Find(flash, call.obj, 0) # NoPage
    BY <1>5, CallsFd
  <2> QED BY <1>4, <1>6, <2>1 DEF HeadsSame
<1>14. WritesOn(fl2, fd, call, file, view) <=> WritesOn(flash, fd, call, file, view)
  BY DEF WritesOn
<1>15. call.op = "modify" => Modifying(fl2, fd, call, file, view)
  BY <1>6, <1>13, <1>14 DEF Modifying
<1>16. call.op = "append" => Appending(fl2, fd, call, file, view)
  <2> SUFFICES ASSUME call.op = "append" PROVE Appending(fl2, fd, call, file, view)
    OBVIOUS
  <2>1. call.prev > 0 => call.prev # -1
    BY <1>6 DEF Locals
  <2> QED BY <1>6, <1>12, <1>13, <1>14, <2>1 DEF Appending
<1>17. call.op = "truncate" => Shortens(fl2, fd, call, file, view)
  BY <1>6 DEF Shortens
<1>18. CallOK(fl2, fd, call, file, view)
  <2>1. call.prev = -1 /\ call.step = "run" /\ call.op # "create" => call.pix = Find(fl2, call.obj, 0)
    BY <1>1, <1>4, <1>5, <1>6 DEF CallOK, FindSame
  <2>2. call.prev = -1 \/ HoldsWork(fl2, call)
    BY <1>12
  <2>3. call.op # "none" /\ call.step # "none"
    BY <1>3, <1>6
  <2> QED BY <1>6, <1>15, <1>16, <1>17, <2>1, <2>2, <2>3 DEF CallOK
<1> QED BY <1>1, <1>3, <1>4, <1>5, <1>7, <1>8, <1>10, <1>11, <1>18 DEF Core


LEMMA IndexFreedIs ==
  ASSUME NEW fl, NEW p, NEW fl2, FlashOK(fl), p \in Page, fl[p].kind = "index",
         \E q \in Page : fl[q].kind = "free",
         fl2 = [Allocated(fl, fl[p]) EXCEPT ![p] = FreePage]
  PROVE  /\ Indexed(fl, fl2, fl[p].obj, fl[p].span, NextFree(fl), fl[p])
         /\ NextFree(fl) \in Page
<1> DEFINE n == NextFree(fl)
           img == fl[p]
           o == fl[p].obj
           k == fl[p].span
<1>1. n \in Page /\ fl[n].kind = "free"
  BY NextFreeIs
<1>2. img \in IxPages /\ fl \in [Page -> Pages]
  BY KindIs DEF FlashOK
<1>3. img \in Pages /\ o \in Obj /\ k \in Nat /\ Names(img, o, k) /\ FreePage \in Pages /\ FreePage.kind = "free"
  <2>1. FreePage \in Pages /\ FreePage.kind = "free"
    BY DEF Pages, FreePage
  <2> QED BY <1>2, <2>1, IxFields DEF Names
<1>4. \A q \in Page : Names(fl[q], o, k) => q = p
  BY <1>3 DEF Names, FlashOK
<1>5. fl2 = [[fl EXCEPT ![n] = img] EXCEPT ![p] = FreePage]
  BY DEF Allocated
<1> HIDE DEF n, img, o, k
<1>6. n # p
  BY <1>1
<1>7. fl2 \in [Page -> Pages] /\ fl2[n] = img /\ fl2[p] = FreePage
      /\ \A q \in Page : q # n /\ q # p => fl2[q] = fl[q]
  <2> QED BY <1>1, <1>2, <1>3, <1>5, <1>6
<1>8. n # NoPage /\ n \in Target
  BY <1>1, PageType DEF Target
<1>9. ASSUME NEW q \in Page, q # n
      PROVE  \/ fl2[q] = fl[q] /\ ~Names(fl[q], o, k)
             \/ /\ fl2[q].kind \notin {"data", "index"}
                /\ fl[q].kind = "data" => FALSE
                /\ fl[q].kind = "index" => Names(fl[q], o, k)
  <2>1. CASE q = p
    <3>1. Names(fl[q], o, k)
      BY <1>3, <2>1 DEF img
    <3> QED BY <1>3, <1>7, <2>1, <3>1
  <2>2. CASE q # p
    BY <1>4, <1>7, <1>9, <2>2
  <2> QED BY <2>1, <2>2
<1>10. Indexed(fl, fl2, o, k, n, img)
  <2> QED BY <1>1, <1>2, <1>3, <1>7, <1>8, <1>9, IndexedBy
<1> QED BY <1>1, <1>10 DEF n, img, o, k

LEMMA GcMovesIndexKeeps ==
  ASSUME Core(flash, fd, call, file, view), GcMovesIndex
  PROVE  Core(flash', fd', call', file, view)
<1>1. FlashOK(flash) /\ FdOK(flash, fd)
  BY CoreIs
<1>2. PICK p \in Page :
        /\ flash[p].kind = "index" /\ call.step = "gc"
        /\ Go(State([Allocated(Collected, flash[p]) EXCEPT ![p] = FreePage],
                    Event(fd, "MOV", flash[p].obj, flash[p].span, NextFree(Collected), 0)))
  BY ObjectsAssumption DEF GcMovesIndex, Checking, Page
<1> DEFINE fl == Collected
           fl2 == [Allocated(Collected, flash[p]) EXCEPT ![p] = FreePage]
           o == flash[p].obj
           k == flash[p].span
           n == NextFree(Collected)
           fds2 == Event(fd, "MOV", o, k, n, 0)
<1>3. /\ FlashOK(fl) /\ DataSame(flash, fl)
      /\ FoundSame(flash, fl) /\ HeadsSame(flash, fl) /\ RefSame(flash, fl)
      /\ FindSame(flash, fl)
  BY <1>1, CollectedIs
<1>4. fl[p] = flash[p] /\ fl[p].kind = "index"
  BY <1>2 DEF Collected
<1>5. \E q \in Page : fl[q].kind = "free"
  BY DEF GcMovesIndex, Full
<1>6. fl2 = [Allocated(fl, fl[p]) EXCEPT ![p] = FreePage]
  BY <1>4
<1>7. FdOK(fl, fd)
  BY <1>1, <1>3, KnownSame DEF FindSame
<1>8. Go(State(fl2, fds2))
  BY <1>2
<1>9. flash[p] \in IxPages
  BY <1>1, <1>2, KindIs DEF FlashOK
<1>10. o \in Obj /\ k \in Nat /\ flash[p].kind = "index"
  BY <1>2, <1>9, IxFields
<1> HIDE DEF fl, fl2, fds2
<1>11. Indexed(fl, fl2, fl[p].obj, fl[p].span, NextFree(fl), fl[p]) /\ NextFree(fl) \in Page
  BY <1>3, <1>4, <1>5, <1>6, IndexFreedIs
<1>12. Indexed(fl, fl2, o, k, n, flash[p]) /\ n \in Page /\ n \in Target /\ n # NoPage
  BY <1>4, <1>11, PageType DEF Target, fl
<1> HIDE DEF n, o, k
<1>13. Find(fl, o, k) = p /\ p # NoPage
  BY <1>2, <1>3, <1>4, FindIs, PageType DEF o, k
<1>14. FoundSame(fl, fl2) /\ HeadsSame(fl, fl2) /\ RefSame(fl, fl2) /\ DataSame(fl, fl2)
  <2> DEFINE x == flash[p]
  <2>1. \A s \in Entries(k) : x.ix[s] = fl[Find(fl, o, k)].ix[s]
    BY <1>4, <1>13
  <2>2. x.size = fl[Find(fl, o, k)].size
    BY <1>4, <1>13
  <2>3. Indexed(fl, fl2, o, k, n, x) /\ o \in Obj /\ k \in Nat /\ n \in Target /\ n # NoPage
        /\ Find(fl, o, k) # NoPage
    BY <1>10, <1>12, <1>13
  <2> HIDE DEF x
  <2> QED BY <1>3, <2>1, <2>2, <2>3, IndexedSame
<1>15. FdOK(fl2, fds2) /\ Resized(fd, fds2, o, IF k = 0 THEN 0 ELSE 0)
  <2>1. 0 \in 0 .. UNDEFINED_LEN
    BY SizesType
  <2> DEFINE x == flash[p]
  <2>2. Indexed(fl, fl2, o, k, n, x) /\ o \in Obj /\ k \in Nat /\ n \in Target /\ n # NoPage
    BY <1>10, <1>12
  <2> HIDE DEF x
  <2> QED BY <1>3, <1>7, <2>1, <2>2, EventIs DEF fds2
<1>16. Steady(fd, fds2)
  <2>1. Resized(fd, fds2, o, 0) /\ o \in Obj
    BY <1>10, <1>15
  <2> QED BY <2>1, ResizedSteady
<1>17. FoundSame(flash, fl2) /\ HeadsSame(flash, fl2) /\ RefSame(flash, fl2)
  BY <1>3, <1>14, SameSame
<1>18. DataSame(flash, fl2)
  BY <1>3, <1>14, DataSameSame
<1>19. FlashOK(fl2)
  BY <1>12 DEF Indexed
<1> QED BY <1>2, <1>8, <1>15, <1>16, <1>17, <1>18, <1>19, GcGoes

(* An index page refers to page q for span s, and otherwise is as it was.  *)
RefSet(x, y, s, q) ==
  /\ y \in IxPages /\ y.obj = x.obj /\ y.span = x.span /\ y.size = x.size
  /\ y.ix[s] = q /\ \A t \in Entries(x.span) : t # s => y.ix[t] = x.ix[t]

LEMMA RefSetIs ==
  ASSUME NEW x, NEW s, NEW q, NEW y, x \in IxPages, s \in Entries(x.span), q \in Target,
         y = [x EXCEPT !.ix[s] = q]
  PROVE  RefSet(x, y, s, q)
<1>1. y \in IxPages
  BY IxFields
<1>2. /\ x \in [kind : {"index"}, obj : Obj, span : Nat, size : Sizes, ix : References]
      /\ x.ix \in [Entries(x.span) -> Target]
  BY DEF IxPages
<1>3. y.obj = x.obj /\ y.span = x.span /\ y.size = x.size /\ y.ix = [x.ix EXCEPT ![s] = q]
  BY <1>2
<1>4. y.ix[s] = q /\ \A t \in Entries(x.span) : t # s => y.ix[t] = x.ix[t]
  BY <1>2, <1>3
<1> QED BY <1>1, <1>3, <1>4 DEF RefSet

DataMoved(fl, fl2, p, n) ==
  /\ FlashOK(fl2) /\ FindSame(fl, fl2) /\ FoundSame(fl, fl2) /\ HeadsSame(fl, fl2) /\ RefSame(fl, fl2)
  /\ n \in Page /\ fl[n].kind = "free" /\ n # p /\ fl2[n] = fl[p] /\ fl2[p].kind = "free"
  /\ \A q \in Page : q # p /\ q # n => fl2[q] = fl[q]

LEMMA DataMovedIs ==
  ASSUME NEW fl, NEW p, NEW fl2, FlashOK(fl), p \in Page, fl[p].kind = "data",
         \E q \in Page : fl[q].kind = "free",
         fl2 = [Allocated(fl, fl[p]) EXCEPT ![p] = FreePage]
  PROVE  DataMoved(fl, fl2, p, NextFree(fl))
<1> DEFINE n == NextFree(fl)
           img == fl[p]
<1>1. n \in Page /\ fl[n].kind = "free"
  BY NextFreeIs
<1>2. fl \in [Page -> Pages] /\ img \in Pages /\ FreePage \in Pages /\ FreePage.kind = "free"
  BY DEF FlashOK, Pages, FreePage
<1>3. fl2 = [[fl EXCEPT ![n] = img] EXCEPT ![p] = FreePage]
  BY DEF Allocated
<1> HIDE DEF n, img
<1>4. n # p
  BY <1>1
<1>5. fl2 \in [Page -> Pages] /\ fl2[n] = img /\ fl2[p] = FreePage
      /\ \A q \in Page : q # n /\ q # p => fl2[q] = fl[q]
  <2> QED BY <1>1, <1>2, <1>3, <1>4
<1>6. img.kind = "data"
  BY DEF img
<1>7. \A q \in Page : fl[q].kind = "index" \/ fl2[q].kind = "index" => fl2[q] = fl[q]
  <2>1. SUFFICES ASSUME NEW q \in Page, fl[q].kind = "index" \/ fl2[q].kind = "index" PROVE fl2[q] = fl[q]
    OBVIOUS
  <2>2. q # n
    BY <1>1, <1>5, <1>6, <2>1
  <2>3. q # p
    BY <1>2, <1>5, <1>6, <2>1 DEF img
  <2> QED BY <1>5, <2>2, <2>3
<1>8. /\ FlashOK(fl2)
      /\ \A u \in Obj, k \in Nat : Find(fl2, u, k) = Find(fl, u, k)
      /\ \A u \in Obj, s \in Spans : Ref(fl2, u, s) = Ref(fl, u, s)
      /\ \A u \in Obj : Find(fl, u, 0) # NoPage => HSize(fl2, u) = HSize(fl, u)
  <2> QED BY <1>5, <1>7, IndexSame
<1>9. FindSame(fl, fl2) /\ FoundSame(fl, fl2) /\ HeadsSame(fl, fl2) /\ RefSame(fl, fl2)
  BY <1>8 DEF FoundSame, HeadsSame, RefSame, FindSame
<1>10. fl2[n] = fl[p]
  BY <1>5 DEF img
<1> QED BY <1>1, <1>2, <1>4, <1>5, <1>8, <1>9, <1>10 DEF DataMoved, n

LEMMA GcMovesDataKeeps ==
  ASSUME Core(flash, fd, call, file, view), GcMovesData
  PROVE  Core(flash', fd', call', file, view)
<1>0. FlashOK(flash) /\ FdOK(flash, fd) /\ Exist(flash, file) /\ Layout(flash, call, file)
      /\ CallOK(flash, fd, call, file, view) /\ SizesAgree(flash, fd, call, file)
  BY CoreIs
<1> DEFINE fl == Collected
           n == NextFree(fl)
<1>1. PICK p \in Page :
        /\ flash[p].kind = "data" /\ call.step = "gc"
        /\ LET o == flash[p].obj
               s == flash[p].span
               i == Find(flash, o, IxSpan(s))
               st == State([Allocated(Collected, flash[p]) EXCEPT ![p] = FreePage], fd)
               img == [flash[i] EXCEPT !.ix[s] = NextFree(Collected)]
           IN  IF i = NoPage THEN Go(State([Collected EXCEPT ![p] = FreePage], fd))
               ELSE IF IxSpan(s) = 0 THEN Go(HeaderMoved(st, o, i, img))
               ELSE Go(IndexMoved(st, o, i, img))
  BY ObjectsAssumption DEF GcMovesData, Checking, Page
<1> DEFINE o == flash[p].obj
           s == flash[p].span
           k == IxSpan(s)
           i == Find(flash, o, k)
           fl1 == [Allocated(fl, flash[p]) EXCEPT ![p] = FreePage]
           img == [flash[i] EXCEPT !.ix[s] = n]
           R == Table(flash, call, o)
           b == Current(call, file, o)
<1>2. o \in Obj /\ s \in Spans /\ flash[p] \in DataPages
  BY <1>0, <1>1, KindIs, DataFields DEF FlashOK
<1>3. k \in Nat /\ s \in Entries(k) /\ s \in Nat
  BY <1>2, SpansType, IxSpanType DEF Entries
<1>4. call # NoCall /\ call.prev = -1 /\ call \in Locals /\ ~Changing(call, o)
  <2>1. call # NoCall
    BY <1>1, NoCallIs
  <2> QED BY <1>0, <1>1, <2>1, CallIs DEF Changing
<1>5. /\ FlashOK(fl) /\ DataSame(flash, fl)
      /\ FoundSame(flash, fl) /\ HeadsSame(flash, fl) /\ RefSame(flash, fl)
      /\ FindSame(flash, fl)
  BY <1>0, CollectedIs
<1>6. fl[p] = flash[p] /\ \E q \in Page : fl[q].kind = "free"
  BY <1>1 DEF GcMovesData, Full, Collected
<1>7. DataMoved(fl, fl1, p, n)
  <2>1. fl1 = [Allocated(fl, fl[p]) EXCEPT ![p] = FreePage] /\ fl[p].kind = "data"
    BY <1>1, <1>6
  <2> HIDE DEF fl1, fl
  <2> QED BY <1>5, <1>6, <2>1, DataMovedIs
<1>8. Laid(flash, R, o, b)
  BY <1>0, <1>2 DEF Layout
<1>9. Ref(flash, o, s) = p /\ R[s] = p /\ \A t \in Spans : R[t] = Ref(flash, o, t)
  <2>1. R[s] = p
    BY <1>1, <1>8 DEF Laid
  <2>2. \A t \in Spans : R[t] = Ref(flash, o, t)
    BY <1>4, TableOut
  <2> QED BY <1>2, <2>1, <2>2
<1>10. i # NoPage
  BY <1>9, PageType DEF Ref
<1>11. i \in Page /\ flash[i] \in IxPages /\ flash[i].kind = "index" /\ flash[i].obj = o /\ flash[i].span = k
       /\ flash[i].ix[s] = p
  <2> HIDE DEF o, k, s
  <2>1. i \in Page /\ flash[i] \in IxPages /\ flash[i].kind = "index" /\ flash[i].obj = o /\ flash[i].span = k
    BY <1>0, <1>10, FindIs
  <2> QED BY <1>9, <1>10, <2>1 DEF Ref, k
<1>12. n \in Page /\ n \in Target /\ n # NoPage /\ n # p
  BY <1>7, PageType DEF DataMoved, Target
<1>13. RefSet(flash[i], img, s, n)
  <2> HIDE DEF i, n, s, k
  <2>1. s \in Entries(flash[i].span) /\ img = [flash[i] EXCEPT !.ix[s] = n]
    BY <1>3, <1>11
  <2> QED BY <1>11, <1>12, <2>1, RefSetIs
<1>14. img \in IxPages /\ img.obj = o /\ img.span = k /\ img.size = flash[i].size
       /\ img.ix[s] = n /\ \A t \in Entries(k) : t # s => img.ix[t] = flash[i].ix[t]
  <2> HIDE DEF img, i, n, s, k, o
  <2> QED BY <1>11, <1>13 DEF RefSet
<1>15. FdOK(fl1, fd) /\ Find(fl1, o, k) = i /\ FlashOK(fl1)
  <2> HIDE DEF fl1, fl, n
  <2>1. FindSame(fl, fl1) /\ FlashOK(fl1)
    BY <1>7 DEF DataMoved
  <2>2. \A u \in Obj, j \in Nat : Find(fl1, u, j) = Find(flash, u, j)
    BY <1>5, <2>1 DEF FindSame
  <2> QED BY <1>0, <1>2, <1>3, <2>1, <2>2, KnownSame
<1>16. \E q \in Page : fl1[q].kind = "free"
  <2> HIDE DEF fl1, fl, n
  <2> QED BY <1>1, <1>7 DEF DataMoved
<1>17. HSize(flash, o) = flash[i].size \/ k # 0
  BY DEF HSize
<1> DEFINE st2 == IF k = 0 THEN HeaderMoved(State(fl1, fd), o, i, img) ELSE IndexMoved(State(fl1, fd), o, i, img)
           fl2 == st2.flash
           fds2 == st2.fd
           m == NextFree(fl1)
<1>18. Go(st2)
  BY <1>1, <1>10
<1> HIDE DEF fl, n, o, s, k, i, fl1, img, R, b, fl2, fds2, st2, m
<1>19. /\ Indexed(fl1, fl2, o, k, m, img) /\ m \in Page
       /\ FlashOK(fl2) /\ FdOK(fl2, fds2) /\ Steady(fd, fds2) /\ st2 = State(fl2, fds2)
  <2>1. CASE k = 0
    <3>1. st2 = HeaderMoved(State(fl1, fd), o, Find(fl1, o, 0), img)
      BY <1>15, <2>1 DEF st2
    <3>2. Find(fl1, o, 0) # NoPage /\ img.span = 0
      BY <1>10, <1>14, <1>15, <2>1
    <3>3. /\ Indexed(fl1, st2.flash, o, 0, NextFree(fl1), img) /\ NextFree(fl1) \in Page
          /\ FlashOK(st2.flash) /\ FdOK(st2.flash, st2.fd) /\ Resized(fd, st2.fd, o, img.size)
          /\ Spare(fl1, st2.flash, NextFree(fl1)) /\ st2 = State(st2.flash, st2.fd)
      BY <1>2, <1>14, <1>15, <1>16, <3>1, <3>2, HeaderMovedIs
    <3>4. Steady(fd, fds2)
      <4>1. Find(flash, o, 0) # NoPage
        BY <1>10, <2>1 DEF i
      <4>2. Bytes(img.size) = Len(Current(call, file, o))
        <5>1. file[o].exists
          BY <1>0, <1>2, <4>1 DEF Exist
        <5>2. HSize(flash, o) = img.size
          BY <1>14, <1>17, <2>1
        <5> QED BY <1>0, <1>2, <1>4, <5>1, <5>2 DEF SizesAgree
      <4>3. Len(Current(call, file, o)) = Len(file[o].bytes)
        BY <1>2, <1>4, CurrentIs
      <4>4. Resized(fd, fds2, o, img.size)
        BY <3>3 DEF fds2
      <4> QED BY <1>2, <1>4, <4>2, <4>3, <4>4, ResizedSteady
    <3> QED BY <2>1, <3>3, <3>4 DEF fl2, fds2, m
  <2>2. CASE k # 0
    <3>1. st2 = IndexMoved(State(fl1, fd), o, Find(fl1, o, k), img)
      BY <1>15, <2>2 DEF st2
    <3>2. Find(fl1, o, k) # NoPage
      BY <1>10, <1>15
    <3>3. /\ Indexed(fl1, st2.flash, o, k, NextFree(fl1), img) /\ NextFree(fl1) \in Page
          /\ FlashOK(st2.flash) /\ FdOK(st2.flash, st2.fd) /\ Resized(fd, st2.fd, o, 0)
          /\ Spare(fl1, st2.flash, NextFree(fl1)) /\ st2 = State(st2.flash, st2.fd)
      BY <1>2, <1>3, <1>14, <1>15, <1>16, <3>1, <3>2, IndexPageMovedIs
    <3>4. Steady(fd, fds2)
      BY <1>2, <3>3, ResizedSteady DEF fds2
    <3> QED BY <3>3, <3>4 DEF fl2, fds2, m
  <2> QED BY <2>1, <2>2
<1>20. m \in Target /\ m # NoPage
  BY <1>19, PageType DEF Target
<1>21. \A u \in Obj, t \in Spans :
         Ref(fl2, u, t) = IF u = o /\ IxSpan(t) = k THEN img.ix[t] ELSE Ref(fl1, u, t)
  BY <1>2, <1>3, <1>15, <1>19, <1>20, IndexedRef
<1>22. FoundSame(flash, fl1) /\ HeadsSame(flash, fl1) /\ RefSame(flash, fl1)
  BY <1>5, <1>7, SameSame DEF DataMoved
<1>23. FoundSame(flash, fl2)
  <2>1. \A u \in Obj, j \in Nat : Find(fl2, u, j) = IF u = o /\ j = k THEN m ELSE Find(fl1, u, j)
    BY <1>19 DEF Indexed
  <2>2. FoundSame(fl1, fl2)
    BY <1>10, <1>15, <1>20, <2>1 DEF FoundSame
  <2> QED BY <1>22, <2>2 DEF FoundSame
<1>24. HeadsSame(flash, fl2)
  <2>1. \A u \in Obj : Find(fl2, u, 0) # NoPage =>
          HSize(fl2, u) = IF u = o /\ k = 0 THEN img.size ELSE HSize(fl1, u)
    BY <1>2, <1>3, <1>15, <1>19, <1>20, IndexedRef
  <2>2. k = 0 => img.size = HSize(flash, o)
    BY <1>14, <1>17
  <2>3. 0 \in Nat
    OBVIOUS
  <2> SUFFICES ASSUME NEW u \in Obj, Find(flash, u, 0) # NoPage PROVE HSize(fl2, u) = HSize(flash, u)
    BY DEF HeadsSame
  <2>4. Find(fl2, u, 0) # NoPage
    BY <1>23, <2>3 DEF FoundSame
  <2>5. HSize(fl1, u) = HSize(flash, u)
    BY <1>22 DEF HeadsSame
  <2> QED BY <2>1, <2>2, <2>4, <2>5
<1>25. flash' = fl2 /\ fd' = fds2 /\ Went(call, fds2, call')
  <2>1. Go(State(fl2, fds2))
    BY <1>18, <1>19
  <2> QED BY <2>1, StateIs DEF Go, Becomes, Went
<1>26. call'.prev = -1
  <2>1. call \in Locals /\ call.prev = -1
    BY <1>4
  <2>2. PICK h : h = fds2[call.fd].hdr
    OBVIOUS
  <2>3. call' = [call EXCEPT !.step = "run", !.pix = h]
    BY <1>25, <2>2 DEF Went
  <2> QED BY <2>1, <2>3 DEF Locals
<1>27. \A u \in Obj, t \in Spans : Table(fl2, call', u)[t] = Ref(fl2, u, t)
  BY <1>26, TableOut
<1>28. \A q \in Page : flash[q].kind = "data" /\ q # p => fl2[q] = flash[q]
  <2>1. \A q \in Page : flash[q].kind = "data" => fl[q] = flash[q]
    BY <1>5 DEF DataSame
  <2>2. \A q \in Page : flash[q].kind = "data" /\ q # p => fl1[q] = flash[q]
    BY <1>7, <2>1 DEF DataMoved
  <2> QED BY <1>19, <2>2 DEF Indexed
<1>29. \A q \in Page : fl2[q].kind = "data" /\ q # n => q # p /\ flash[q].kind = "data" /\ fl2[q] = flash[q]
  <2>1. \A q \in Page : fl2[q].kind = "data" => fl1[q].kind = "data" /\ fl2[q] = fl1[q]
    BY <1>19 DEF Indexed
  <2>2. \A q \in Page : fl1[q].kind = "data" /\ q # n => q # p /\ fl[q] = fl1[q]
    BY <1>7 DEF DataMoved
  <2>3. \A q \in Page : fl[q].kind = "data" => fl[q] = flash[q]
    BY <1>5 DEF DataSame
  <2> QED BY <2>1, <2>2, <2>3
<1>30. fl2[n] = flash[p] /\ flash[n].kind # "data" /\ fl2[p].kind # "data"
  <2>1. fl1[n] = flash[p] /\ fl1[p].kind = "free" /\ fl[n].kind = "free"
    BY <1>6, <1>7 DEF DataMoved
  <2>2. \A q \in Page : fl1[q].kind = "data" \/ fl2[q].kind = "data" => fl2[q] = fl1[q]
    BY <1>19 DEF Indexed
  <2>3. \A q \in Page : flash[q].kind = "data" => fl[q] = flash[q]
    BY <1>5 DEF DataSame
  <2> QED BY <1>1, <1>12, <2>1, <2>2, <2>3
<1>31. flash[p].obj = o /\ flash[p].span = s
  BY DEF o, s
<1>32. Laid(fl2, Table(fl2, call', o), o, b)
  <2> DEFINE R2 == Table(fl2, call', o)
  <2>1. RefsAnew(R, R2, s, n)
    <3>1. R2[s] = n
      BY <1>2, <1>14, <1>21, <1>27, <1>3 DEF k
    <3>2. ASSUME NEW t \in Spans, t # s PROVE R2[t] = R[t]
      <4>1. R2[t] = IF IxSpan(t) = k THEN img.ix[t] ELSE Ref(fl1, o, t)
        BY <1>2, <1>21, <1>27
      <4>2. R[t] = Ref(flash, o, t)
        BY <1>9
      <4>3. CASE IxSpan(t) = k
        <5>1. t \in Entries(k)
          BY <4>3 DEF Entries
        <5>2. img.ix[t] = flash[i].ix[t]
          BY <1>14, <3>2, <5>1
        <5>3. Ref(flash, o, t) = flash[i].ix[t]
          BY <1>10, <4>3 DEF Ref, i
        <5> QED BY <4>1, <4>2, <4>3, <5>2, <5>3
      <4>4. CASE IxSpan(t) # k
        BY <1>2, <1>22, <4>1, <4>2, <4>4 DEF RefSame
      <4> QED BY <4>3, <4>4
    <3> QED BY <3>1, <3>2 DEF RefsAnew
  <2> HIDE DEF R2
  <2>2. PagesAnew(flash, fl2, o, s, n)
    <3> SUFFICES ASSUME NEW q \in Page, q # n
                 PROVE  \/ fl2[q] = flash[q] /\ ~(DataOf(flash[q], o) /\ flash[q].span = s)
                        \/ fl2[q].kind # "data" /\ (DataOf(flash[q], o) => flash[q].span = s)
      BY DEF PagesAnew
    <3>1. CASE q = p
      BY <1>30, <1>31, <3>1
    <3>2. CASE q # p /\ flash[q].kind = "data"
      <4>1. fl2[q] = flash[q]
        BY <1>28, <3>2
      <4>2. flash[q].obj = o /\ flash[q].span = s => R[s] = q
        BY <1>8, <3>2 DEF Laid
      <4> QED BY <1>9, <3>2, <4>1, <4>2 DEF DataOf
    <3>3. CASE q # p /\ flash[q].kind # "data"
      BY <1>29, <3>3 DEF DataOf
    <3> QED BY <3>1, <3>2, <3>3
  <2>3. First(s) < Len(b) /\ \A j \in 0 .. DPS - 1 :
          flash[p].bytes[j] = IF First(s) + j < Len(b) THEN b[First(s) + j + 1] ELSE Erased
    <3>1. p \in Page /\ flash[p].kind = "data"
      BY <1>1
    <3>2. R[s] # NoPage
      BY <1>9, PageType
    <3>3. First(s) < Len(b)
      BY <1>2, <1>8, <3>2 DEF Laid
    <3> QED BY <1>8, <1>31, <3>1, <3>3 DEF Laid
  <2>4. DataAnew(flash, fl2, o, s, n, b)
    BY <1>1, <1>12, <1>30, <1>31, <2>3 DEF DataAnew, DataOf
  <2>5. BytesAnew(b, b, s)
    BY DEF BytesAnew
  <2>6. Len(b) \in Nat
    <3>1. Len(b) \in 0 .. MaxSize
      BY <1>2, CurrentIs DEF b
    <3> QED BY <3>1, ObjectsAssumption
  <2> QED BY <1>0, <1>2, <1>8, <1>12, <1>19, <2>1, <2>2, <2>4, <2>5, <2>6, LaidAnew DEF R2
<1>33. ASSUME NEW u \in Obj PROVE Laid(fl2, Table(fl2, call', u), u, Current(call, file, u))
  <2>1. CASE u = o
    BY <1>32, <2>1 DEF b
  <2>2. CASE u # o
    <3>1. \A t \in Spans : Table(fl2, call', u)[t] = Table(flash, call, u)[t]
      <4>1. \A t \in Spans : Table(flash, call, u)[t] = Ref(flash, u, t)
        BY <1>4, TableOut
      <4> QED BY <1>21, <1>22, <1>27, <2>2, <4>1 DEF RefSame
    <3>2. \A q \in Page : DataOf(flash[q], u) \/ DataOf(fl2[q], u) => fl2[q] = flash[q]
      BY <1>28, <1>29, <1>30, <1>31, <2>2 DEF DataOf
    <3>3. Laid(flash, Table(flash, call, u), u, Current(call, file, u))
      BY <1>0 DEF Layout
    <3> QED BY <1>0, <3>1, <3>2, <3>3, LaidSame
  <2> QED BY <2>1, <2>2
<1>34. Core(fl2, fds2, call', file, view)
  BY <1>1, <1>19, <1>23, <1>24, <1>25, <1>33, GcGo
<1> QED BY <1>25, <1>34

-----------------------------------------------------------------------------
(* A call returns.                                                         *)

(* What it has done is what the file is, from then on.                     *)
Done(c, fi) == [fi EXCEPT ![c.obj].bytes = Current(c, fi, c.obj)]
ViewsOf(fds) == [f \in Fd |-> View(fds[f])]

LEMMA DoneIs ==
  ASSUME NEW fl, NEW fds, NEW c, NEW fi, NEW vw, Core(fl, fds, c, fi, vw), c # NoCall
  PROVE  /\ Done(c, fi) \in [Obj -> FilesSet]
         /\ \A u \in Obj : /\ Done(c, fi)[u].exists = fi[u].exists
                           /\ Done(c, fi)[u].bytes = Current(c, fi, u)
<1>1. CallOK(fl, fds, c, fi, vw) /\ Exist(fl, fi)
  BY CoreIs
<1>2. PICK o \in Obj : o = c.obj
  BY <1>1, CallIs
<1>3. PICK b \in Seq(Val) : b = Current(c, fi, o)
  BY CurrentIs
<1>4. fi \in [Obj -> FilesSet]
  BY <1>1 DEF Exist
<1>5. Done(c, fi) = [fi EXCEPT ![o].bytes = b]
  BY <1>2, <1>3 DEF Done
<1>6. [fi[o] EXCEPT !.bytes = b] \in FilesSet /\ [fi[o] EXCEPT !.bytes = b].bytes = b
      /\ [fi[o] EXCEPT !.bytes = b].exists = fi[o].exists
  BY <1>4 DEF FilesSet
<1>7. Done(c, fi) \in [Obj -> FilesSet] /\ Done(c, fi)[o] = [fi[o] EXCEPT !.bytes = b]
      /\ \A u \in Obj : u # o => Done(c, fi)[u] = fi[u]
  BY <1>4, <1>5, <1>6
<1>8. \A u \in Obj : u # o => Current(c, fi, u) = fi[u].bytes
  BY <1>2, CurrentOut
<1>9. ASSUME NEW u \in Obj
      PROVE  /\ Done(c, fi)[u].exists = fi[u].exists
             /\ Done(c, fi)[u].bytes = Current(c, fi, u)
  <2>1. CASE u = o
    BY <1>3, <1>6, <1>7, <2>1
  <2>2. CASE u # o
    BY <1>7, <1>8, <2>2
  <2> QED BY <2>1, <2>2
<1> QED BY <1>7, <1>9

(* Sizes and places when no call runs.                                     *)
SizesAre(fl, fds, fi) ==
  /\ \A u \in Obj : fi[u].exists => Bytes(HSize(fl, u)) = Len(fi[u].bytes)
  /\ \A f \in Fd : fds[f].open => /\ Bytes(fds[f].size) = Len(fi[fds[f].obj].bytes)
                                  /\ fds[f].pos <= Len(fi[fds[f].obj].bytes)

LEMMA Idles ==
  ASSUME NEW fl, NEW fds, NEW fi, FlashOK(fl), FdOK(fl, fds), Exist(fl, fi), Layout(fl, NoCall, fi),
         SizesAre(fl, fds, fi)
  PROVE  Core(fl, fds, NoCall, fi, ViewsOf(fds))
<1>1. \A u : Current(NoCall, fi, u) = fi[u].bytes
  BY CurrentOut, NoCallIs
<1>2. SizesAgree(fl, fds, NoCall, fi)
  BY <1>1 DEF SizesAgree, SizesAre
<1>3. CallOK(fl, fds, NoCall, fi, ViewsOf(fds))
  BY DEF CallOK
<1>4. fds \in [Fd -> Descriptors]
  BY DEF FdOK
<1>5. Closed.obj \in Obj
  BY NoCallIs DEF Closed, NoCall
<1>6. ASSUME NEW f \in Fd
      PROVE  /\ View(fds[f]) \in [open : BOOLEAN, obj : Obj, pos : 0 .. MaxSize]
             /\ View(fds[f]).open => /\ fds[f].open /\ View(fds[f]).obj = fds[f].obj
                                     /\ View(fds[f]).pos = fds[f].pos
  <2>1. fds[f].obj \in Obj /\ fds[f].pos \in 0 .. MaxSize
    BY <1>4 DEF Descriptors
  <2>2. CASE fds[f].open
    BY <2>1, <2>2 DEF View, Promise!At
  <2>3. CASE ~fds[f].open
    <3>1. View(fds[f]) = Promise!Closed
      BY <2>3 DEF View
    <3>2. Promise!Closed = [open |-> FALSE, obj |-> CHOOSE o \in Obj : TRUE, pos |-> 0] /\ (CHOOSE o \in Obj : TRUE) \in Obj
      BY NoCallIs DEF Promise!Closed, NoCall
    <3>3. 0 \in 0 .. MaxSize
      BY ObjectsAssumption
    <3> QED BY <3>1, <3>2, <3>3
  <2> QED BY <2>2, <2>3
<1>7. Views(fds, NoCall, fi, ViewsOf(fds))
  <2>1. \A f \in Fd : ViewsOf(fds)[f] = View(fds[f])
    BY DEF ViewsOf
  <2>2. ViewsOf(fds) \in [Fd -> [open : BOOLEAN, obj : Obj, pos : 0 .. MaxSize]]
    BY <1>6 DEF ViewsOf
  <2>3. \A f \in Fd : Seen(NoCall, f, fds[f], ViewsOf(fds)[f])
    BY <2>1, NoCallIs DEF Seen, Writing
  <2>4. ASSUME NEW f \in Fd, ViewsOf(fds)[f].open
        PROVE  ViewsOf(fds)[f].pos <= Len(fi[ViewsOf(fds)[f].obj].bytes)
    <3>1. fds[f].open /\ ViewsOf(fds)[f].obj = fds[f].obj /\ ViewsOf(fds)[f].pos = fds[f].pos
      BY <1>6, <2>1, <2>4
    <3> QED BY <3>1 DEF SizesAre
  <2> QED BY <2>2, <2>3, <2>4 DEF Views
<1> QED BY <1>2, <1>3, <1>7 DEF Core

(* The references that a call has in hand are in flash.                    *)
RefIsTable(fl, fl2, c) == \A u \in Obj, s \in Spans : Ref(fl2, u, s) = Table(fl, c, u)[s]

(* The index page in hand refers to data that the file holds.              *)
InHand(c, fi) == c.prev > 0 => \E s \in Entries(c.prev) : First(s) < Len(Current(c, fi, c.obj))

LEMMA Returns ==
  ASSUME NEW fl, NEW fds, NEW c, NEW fi, NEW vw, NEW fl2, NEW fds2, Core(fl, fds, c, fi, vw),
         c # NoCall, FlashOK(fl2), FdOK(fl2, fds2), FoundSame(fl, fl2), RefIsTable(fl, fl2, c),
         DataSame(fl, fl2), SizesAre(fl2, fds2, Done(c, fi)), InHand(c, fi)
  PROVE  Core(fl2, fds2, NoCall, Done(c, fi), ViewsOf(fds2))
<1>1. /\ FlashOK(fl) /\ Exist(fl, fi) /\ Layout(fl, c, fi) /\ CallOK(fl, fds, c, fi, vw)
  BY CoreIs
<1>2. PICK W : W = Done(c, fi)
  OBVIOUS
<1>3. /\ W \in [Obj -> FilesSet]
      /\ \A u \in Obj : W[u].exists = fi[u].exists /\ W[u].bytes = Current(c, fi, u)
  BY <1>2, DoneIs
<1>4. Exist(fl2, W)
  <2>1. ASSUME NEW u \in Obj, ~fi[u].exists PROVE Current(c, fi, u) = <<>>
    <3>1. u = c.obj => c.op = "create"
      BY <2>1, CallsFd
    <3>2. Current(c, fi, u) = fi[u].bytes
      BY <3>1, CurrentOut
    <3> QED BY <1>1, <2>1, <3>2 DEF Exist
  <2>2. \A u \in Obj : Len(Current(c, fi, u)) \in 0 .. MaxSize
    BY CurrentIs
  <2>3. \A u \in Obj : fi[u].exists <=> Find(fl2, u, 0) # NoPage
    BY <1>1 DEF Exist, FoundSame
  <2> QED BY <1>3, <2>1, <2>2, <2>3 DEF Exist
<1>5. \A u : Current(NoCall, W, u) = W[u].bytes
  BY CurrentOut, NoCallIs
<1>6. \A u \in Obj, s \in Spans : Table(fl2, NoCall, u)[s] = Table(fl, c, u)[s]
  <2>1. \A u \in Obj, s \in Spans : Table(fl2, NoCall, u)[s] = Ref(fl2, u, s)
    BY TableOut, NoCallIs
  <2> QED BY <2>1 DEF RefIsTable
<1>7. ASSUME NEW u \in Obj, NEW k \in Nat, Find(fl2, u, k) # NoPage PROVE Bounded(NoCall, W, u, k)
  <2>1. Bounded(c, fi, u, k)
    BY <1>1, <1>7 DEF FoundSame, Layout
  <2>2. Current(NoCall, W, u) = Current(c, fi, u)
    BY <1>3, <1>5
  <2>3. CASE u = c.obj /\ k = c.prev /\ k # 0
    BY <2>2, <2>3 DEF InHand, Bounded
  <2> QED BY <2>1, <2>2, <2>3 DEF Bounded
<1>8. Layout(fl2, NoCall, W)
  <2>1. \A u \in Obj : Current(NoCall, W, u) = Current(c, fi, u)
    BY <1>3, <1>5
  <2> QED BY <1>1, <1>6, <1>7, <2>1, LayoutKept
<1>9. SizesAre(fl2, fds2, W)
  BY <1>2
<1>10. Core(fl2, fds2, NoCall, W, ViewsOf(fds2))
  BY <1>4, <1>8, <1>9, Idles
<1> QED BY <1>2, <1>10

(* One descriptor is d now.                                                *)
SetFd(fds, f, d, fds2) == fds2 = [fds EXCEPT ![f] = d]

LEMMA FdSet ==
  ASSUME NEW fl, NEW fds, NEW f, NEW d, NEW fds2, FdOK(fl, fds), f \in Fd, d \in Descriptors,
         d.open => Knows(fl, d), SetFd(fds, f, d, fds2)
  PROVE  /\ FdOK(fl, fds2) /\ fds2[f] = d
         /\ \A g \in Fd : g # f => fds2[g] = fds[g]
<1>1. fds \in [Fd -> Descriptors]
  BY DEF FdOK
<1>2. fds2 \in [Fd -> Descriptors] /\ fds2[f] = d /\ \A g \in Fd : g # f => fds2[g] = fds[g]
  BY <1>1 DEF SetFd
<1> QED BY <1>2 DEF FdOK

LEMMA ClosedIs == Closed \in Descriptors /\ ~Closed.open
<1>1. Closed.obj \in Obj
  BY NoCallIs DEF Closed, NoCall
<1>2. 0 \in 0 .. UNDEFINED_LEN /\ 0 \in 0 .. MaxSize /\ 0 \in Nat
  BY ObjectsAssumption DEF UNDEFINED_LEN
<1> QED BY <1>1, <1>2 DEF Closed, Descriptors, Target

(* The history is what the invariant says of flash and descriptors.        *)
LEMMA Recorded ==
  ASSUME NEW W, NEW V, Core(flash', fd', call', W, V), Record,
         IF call' = NoCall THEN V = ViewsOf(fd') ELSE W = file /\ V = view
  PROVE  file' = W /\ view' = V
<1>1. W \in [Obj -> FilesSet]
  BY CoreIs DEF Exist
<1>2. \A o \in Obj : call' = NoCall \/ o # call'.obj => Content(flash', o) = W[o]
  BY ContentIs
<1>3. file' = [o \in Obj |-> IF call' # NoCall /\ call'.obj = o THEN file[o] ELSE Content(flash', o)]
      /\ view' = IF call' = NoCall THEN [f \in Fd |-> View(fd'[f])] ELSE view
  BY DEF Record
<1>4. \A o \in Obj : file'[o] = W[o]
  BY <1>2, <1>3
<1>5. file' = W
  <2>1. file' = [o \in Obj |-> file'[o]]
    BY <1>3
  <2>2. W = [o \in Obj |-> W[o]]
    BY <1>1
  <2> QED BY <1>4, <2>1, <2>2
<1>6. view' = V
  BY <1>3 DEF ViewsOf
<1> QED BY <1>5, <1>6

(* spiffs_gc_check fails: the call ends with what it had done before.      *)
LEMMA GcFullKeeps ==
  ASSUME Core(flash, fd, call, file, view), GcFull
  PROVE  call' = NoCall /\ Core(flash', fd', call', Done(call, file), ViewsOf(fd'))
<1>1. /\ FlashOK(flash) /\ FdOK(flash, fd) /\ Exist(flash, file) /\ Layout(flash, call, file)
      /\ SizesAgree(flash, fd, call, file) /\ CallOK(flash, fd, call, file, view)
  BY CoreIs
<1>2. call.step = "gc" /\ flash' = flash /\ call' = NoCall
      /\ fd' = IF call.temp THEN [fd EXCEPT ![call.fd] = Closed] ELSE fd
  <2>1. call.step = "gc" /\ Fail(Now)
    BY DEF GcFull, Checking
  <2>2. Return(IF call.temp THEN [Now EXCEPT !.fd[call.fd] = Closed] ELSE Now)
    BY <2>1 DEF Fail
  <2>3. [Now EXCEPT !.fd[call.fd] = Closed].flash = flash
        /\ [Now EXCEPT !.fd[call.fd] = Closed].fd = [fd EXCEPT ![call.fd] = Closed]
    BY DEF Now, State
  <2> QED BY <2>1, <2>2, <2>3, StateIs DEF Return, Becomes, Now
<1>3. call # NoCall /\ call.prev = -1 /\ call.fd \in Fd
  <2>1. call # NoCall
    BY <1>2, NoCallIs
  <2> QED BY <1>1, <1>2, <2>1, CallIs
<1>4. FdOK(flash, fd') /\ \A f \in Fd : fd'[f].open => fd'[f] = fd[f]
  <2>1. CASE call.temp
    <3>1. SetFd(fd, call.fd, Closed, fd')
      BY <1>2, <2>1 DEF SetFd
    <3>2. FdOK(flash, fd') /\ fd'[call.fd] = Closed /\ \A g \in Fd : g # call.fd => fd'[g] = fd[g]
      BY <1>1, <1>3, <3>1, ClosedIs, FdSet
    <3> QED BY <3>2, ClosedIs
  <2>2. CASE ~call.temp
    BY <1>1, <1>2, <2>2
  <2> QED BY <2>1, <2>2
<1>5. \A u : ~Changing(call, u)
  BY <1>2 DEF Changing
<1>6. SizesAre(flash, fd', Done(call, file))
  <2>1. \A u \in Obj : Done(call, file)[u].exists = file[u].exists /\ Done(call, file)[u].bytes = Current(call, file, u)
    BY <1>3, DoneIs
  <2>2. \A u \in Obj : file[u].exists => Bytes(HSize(flash, u)) = Len(Current(call, file, u))
    BY <1>1, <1>5 DEF SizesAgree
  <2>3. ASSUME NEW f \in Fd, fd'[f].open
        PROVE  /\ Bytes(fd'[f].size) = Len(Done(call, file)[fd'[f].obj].bytes)
               /\ fd'[f].pos <= Len(Done(call, file)[fd'[f].obj].bytes)
    <3>1. fd'[f] = fd[f] /\ fd[f].open /\ fd[f].obj \in Obj
      BY <1>1, <1>4, <2>3 DEF FdOK, Descriptors
    <3>2. PICK u \in Obj : u = fd[f].obj
      BY <3>1
    <3>3. Knows(flash, fd[f])
      BY <1>1, <3>1 DEF FdOK
    <3>4. file[u].exists
      BY <1>1, <3>2, <3>3 DEF Knows, Exist
    <3>5. Bytes(fd[f].size) = Len(Current(call, file, u))
      BY <1>1, <1>5, <3>1, <3>2, <3>4 DEF SizesAgree
    <3>6. fd[f].pos <= Len(file[u].bytes)
      BY <1>5, <3>1, <3>2, PosWithin
    <3>7. Len(Current(call, file, u)) = Len(file[u].bytes)
      BY <1>5, CurrentIs
    <3> QED BY <2>1, <3>1, <3>2, <3>5, <3>6, <3>7
  <2> QED BY <2>1, <2>2, <2>3 DEF SizesAre
<1>7. FoundSame(flash, flash) /\ DataSame(flash, flash) /\ RefIsTable(flash, flash, call) /\ InHand(call, file)
  <2>1. RefIsTable(flash, flash, call)
    BY <1>3, TableOut DEF RefIsTable
  <2> QED BY <1>3, <2>1 DEF FoundSame, DataSame, InHand
<1>8. Core(flash, fd', NoCall, Done(call, file), ViewsOf(fd'))
  BY <1>1, <1>3, <1>4, <1>6, <1>7, Returns
<1> QED BY <1>2, <1>8

-----------------------------------------------------------------------------
(* The steps between calls.                                                *)

LEMMA IdleIs ==
  ASSUME NEW fl, NEW fds, NEW fi, NEW vw, Core(fl, fds, NoCall, fi, vw)
  PROVE  /\ FlashOK(fl) /\ FdOK(fl, fds) /\ Exist(fl, fi) /\ Layout(fl, NoCall, fi)
         /\ SizesAre(fl, fds, fi) /\ vw = ViewsOf(fds)
<1>1. /\ FlashOK(fl) /\ FdOK(fl, fds) /\ Exist(fl, fi) /\ Layout(fl, NoCall, fi)
      /\ SizesAgree(fl, fds, NoCall, fi) /\ Views(fds, NoCall, fi, vw)
  BY CoreIs
<1>2. \A u : Current(NoCall, fi, u) = fi[u].bytes /\ ~Changing(NoCall, u)
  BY CurrentOut, NoCallIs DEF Changing
<1>3. SizesAre(fl, fds, fi)
  <2>1. \A u \in Obj : fi[u].exists => Bytes(HSize(fl, u)) = Len(fi[u].bytes)
    BY <1>1, <1>2 DEF SizesAgree
  <2>2. ASSUME NEW f \in Fd, fds[f].open
        PROVE  /\ Bytes(fds[f].size) = Len(fi[fds[f].obj].bytes)
               /\ fds[f].pos <= Len(fi[fds[f].obj].bytes)
    <3>1. Knows(fl, fds[f]) /\ fds[f].obj \in Obj
      BY <1>1, <2>2 DEF FdOK, Descriptors
    <3>2. fi[fds[f].obj].exists
      BY <1>1, <3>1 DEF Knows, Exist
    <3>3. fds[f].pos <= Len(fi[fds[f].obj].bytes)
      BY <1>2, <2>2, PosWithin
    <3> QED BY <1>1, <1>2, <2>2, <3>1, <3>2, <3>3 DEF SizesAgree
  <2> QED BY <2>1, <2>2 DEF SizesAre
<1>4. \A f \in Fd : vw[f] = View(fds[f])
  BY <1>1, NoCallIs DEF Views, Seen, Writing
<1>5. vw = ViewsOf(fds)
  <2>1. vw = [f \in Fd |-> vw[f]]
    BY <1>1 DEF Views
  <2> QED BY <1>4, <2>1 DEF ViewsOf
<1> QED BY <1>1, <1>3, <1>5

LEMMA ExistsIs ==
  ASSUME NEW o, FlashOK(flash)
  PROVE  Exists(o) <=> Find(flash, o, 0) # NoPage
<1>1. ASSUME Exists(o) PROVE Find(flash, o, 0) # NoPage
  <2>1. PICK p \in Page : flash[p].kind = "index" /\ flash[p].obj = o /\ flash[p].span = 0
    BY <1>1 DEF Exists, IndexPages
  <2>2. Find(flash, o, 0) = p
    BY <2>1, FindIs
  <2> QED BY <2>2, PageType
<1> QED BY <1>1 DEF Find, Exists

LEMMA OpenedIs ==
  ASSUME NEW fl, NEW o, FlashOK(fl), o \in Obj, Find(fl, o, 0) # NoPage
  PROVE  /\ Opened(fl, o, Find(fl, o, 0)) \in Descriptors
         /\ Opened(fl, o, Find(fl, o, 0)).open /\ Opened(fl, o, Find(fl, o, 0)).obj = o
         /\ Opened(fl, o, Find(fl, o, 0)).size = HSize(fl, o) /\ Opened(fl, o, Find(fl, o, 0)).pos = 0
         /\ Opened(fl, o, Find(fl, o, 0)).hdr = Find(fl, o, 0)
         /\ Knows(fl, Opened(fl, o, Find(fl, o, 0)))
<1>1. PICK p : p = Find(fl, o, 0)
  OBVIOUS
<1>2. p \in Target /\ p # NoPage /\ fl[p] \in IxPages
  BY <1>1, FindIs
<1>3. PICK n \in 0 .. UNDEFINED_LEN : n = fl[p].size
  BY <1>2, IxFields, SizesType
<1>4. Opened(fl, o, p) = [open |-> TRUE, obj |-> o, hdr |-> p, size |-> n, pos |-> 0, cspan |-> 0, cpix |-> p]
  BY <1>3 DEF Opened
<1>5. 0 \in 0 .. MaxSize
  BY ObjectsAssumption
<1>6. Opened(fl, o, p) \in Descriptors
  BY <1>2, <1>3, <1>4, <1>5 DEF Descriptors
<1>7. HSize(fl, o) = n
  BY <1>1, <1>3 DEF HSize
<1> QED BY <1>1, <1>2, <1>4, <1>6, <1>7 DEF Knows

(* What a step between calls may do to descriptors.                        *)
LEMMA IdleSet ==
  ASSUME NEW fl, NEW fds, NEW fi, NEW vw, NEW fds2, Core(fl, fds, NoCall, fi, vw), FdOK(fl, fds2),
         \A f \in Fd : fds2[f].open =>
           \/ fds2[f] = fds[f]
           \/ /\ Bytes(fds2[f].size) = Len(fi[fds2[f].obj].bytes)
              /\ fds2[f].pos <= Len(fi[fds2[f].obj].bytes)
  PROVE  Core(fl, fds2, NoCall, fi, ViewsOf(fds2))
<1>1. /\ FlashOK(fl) /\ Exist(fl, fi) /\ Layout(fl, NoCall, fi) /\ SizesAre(fl, fds, fi)
  BY IdleIs
<1>2. SizesAre(fl, fds2, fi)
  BY <1>1 DEF SizesAre
<1> QED BY <1>1, <1>2, Idles

SetPos(fds, f, n, fds2) == fds2 = [fds EXCEPT ![f].pos = n]
SetSize(fds, f, n, fds2) == fds2 = [fds EXCEPT ![f].size = n]

LEMMA PosSet ==
  ASSUME NEW fl, NEW fds, NEW f, NEW n, NEW fds2, FdOK(fl, fds), f \in Fd, n \in 0 .. MaxSize,
         SetPos(fds, f, n, fds2)
  PROVE  /\ FdOK(fl, fds2)
         /\ fds2[f].open = fds[f].open /\ fds2[f].obj = fds[f].obj /\ fds2[f].size = fds[f].size
         /\ fds2[f].pos = n
         /\ \A g \in Fd : g # f => fds2[g] = fds[g]
<1>1. fds \in [Fd -> Descriptors]
  BY DEF FdOK
<1> DEFINE d == [fds[f] EXCEPT !.pos = n]
<1>2. SetFd(fds, f, d, fds2)
  BY DEF SetPos, SetFd
<1>3. d \in Descriptors /\ d.open = fds[f].open /\ d.obj = fds[f].obj /\ d.size = fds[f].size /\ d.pos = n
      /\ d.hdr = fds[f].hdr /\ d.cspan = fds[f].cspan /\ d.cpix = fds[f].cpix
  BY <1>1 DEF Descriptors
<1> HIDE DEF d
<1>4. d.open => Knows(fl, d)
  BY <1>3 DEF FdOK, Knows
<1>5. FdOK(fl, fds2) /\ fds2[f] = d /\ \A g \in Fd : g # f => fds2[g] = fds[g]
  BY <1>2, <1>3, <1>4, FdSet
<1> QED BY <1>3, <1>5

LEMMA SizeSet ==
  ASSUME NEW fl, NEW fds, NEW f, NEW n, NEW fds2, FdOK(fl, fds), f \in Fd, n \in 0 .. UNDEFINED_LEN,
         SetSize(fds, f, n, fds2)
  PROVE  /\ FdOK(fl, fds2)
         /\ fds2[f].open = fds[f].open /\ fds2[f].obj = fds[f].obj /\ fds2[f].pos = fds[f].pos
         /\ fds2[f].size = n
         /\ \A g \in Fd : g # f => fds2[g] = fds[g]
<1>1. fds \in [Fd -> Descriptors]
  BY DEF FdOK
<1> DEFINE d == [fds[f] EXCEPT !.size = n]
<1>2. SetFd(fds, f, d, fds2)
  BY DEF SetSize, SetFd
<1>3. d \in Descriptors /\ d.open = fds[f].open /\ d.obj = fds[f].obj /\ d.size = n /\ d.pos = fds[f].pos
      /\ d.hdr = fds[f].hdr /\ d.cspan = fds[f].cspan /\ d.cpix = fds[f].cpix
  BY <1>1 DEF Descriptors
<1> HIDE DEF d
<1>4. d.open => Knows(fl, d)
  BY <1>3 DEF FdOK, Knows
<1>5. FdOK(fl, fds2) /\ fds2[f] = d /\ \A g \in Fd : g # f => fds2[g] = fds[g]
  BY <1>2, <1>3, <1>4, FdSet
<1> QED BY <1>3, <1>5

(* The call, the files and the descriptors after a step between calls.     *)
Rested == call' = NoCall /\ Core(flash', fd', NoCall, file, ViewsOf(fd'))

LEMMA OpenKeeps ==
  ASSUME NEW f, NEW o, f \in Fd, o \in Obj, Core(flash, fd, call, file, view), Open(f, o)
  PROVE  Rested
<1>1. /\ call = NoCall /\ Exists(o) /\ flash' = flash /\ call' = call
      /\ fd' = [fd EXCEPT ![f] = Opened(flash, o, Find(flash, o, 0))]
  BY DEF Open, Idle
<1>2. Core(flash, fd, NoCall, file, view)
  BY <1>1
<1>3. FlashOK(flash) /\ FdOK(flash, fd) /\ Exist(flash, file) /\ SizesAre(flash, fd, file)
  BY <1>2, IdleIs
<1>4. Find(flash, o, 0) # NoPage
  BY <1>1, <1>3, ExistsIs
<1> DEFINE d == Opened(flash, o, Find(flash, o, 0))
<1>5. d \in Descriptors /\ d.open /\ d.obj = o /\ d.size = HSize(flash, o) /\ d.pos = 0 /\ Knows(flash, d)
  BY <1>3, <1>4, OpenedIs
<1>6. SetFd(fd, f, d, fd')
  BY <1>1 DEF SetFd
<1> HIDE DEF d
<1>7. FdOK(flash, fd') /\ fd'[f] = d /\ \A g \in Fd : g # f => fd'[g] = fd[g]
  BY <1>3, <1>5, <1>6, FdSet
<1>8. Bytes(d.size) = Len(file[o].bytes) /\ Len(file[o].bytes) \in Nat
  BY <1>3, <1>4, <1>5, FileType, ObjectsAssumption DEF SizesAre, Exist
<1>9. Core(flash, fd', NoCall, file, ViewsOf(fd'))
  BY <1>2, <1>5, <1>7, <1>8, IdleSet
<1> QED BY <1>1, <1>9 DEF Rested

LEMMA CloseKeeps ==
  ASSUME NEW f, f \in Fd, Core(flash, fd, call, file, view), Close(f)
  PROVE  Rested
<1>1. call = NoCall /\ flash' = flash /\ call' = call /\ SetFd(fd, f, Closed, fd')
  BY DEF Close, Idle, SetFd
<1>2. Core(flash, fd, NoCall, file, view)
  BY <1>1
<1>3. FlashOK(flash) /\ FdOK(flash, fd)
  BY <1>2, IdleIs
<1>4. FdOK(flash, fd') /\ fd'[f] = Closed /\ \A g \in Fd : g # f => fd'[g] = fd[g]
  BY <1>1, <1>3, ClosedIs, FdSet
<1>5. Core(flash, fd', NoCall, file, ViewsOf(fd'))
  BY <1>2, <1>4, ClosedIs, IdleSet
<1> QED BY <1>1, <1>5 DEF Rested

(* A descriptor is put to a place within its file, and its cursor anywhere.*)
PutAt(fl, fds, f, n, fds2) ==
  /\ FdOK(fl, fds2)
  /\ fds2[f].open = fds[f].open /\ fds2[f].obj = fds[f].obj /\ fds2[f].size = fds[f].size
  /\ fds2[f].pos = n
  /\ \A g \in Fd : g # f => fds2[g] = fds[g]

(* Only the position of f changes, to n.                                   *)
Repositioned(fds, fds2, f, n) ==
  \A g \in Fd : /\ fds2[g].open = fds[g].open /\ fds2[g].obj = fds[g].obj
                /\ fds2[g].pos = IF g = f THEN n ELSE fds[g].pos

LEMMA PutIs ==
  ASSUME NEW fl, NEW fds, NEW f, NEW n, NEW fds2, FdOK(fl, fds), f \in Fd, n \in 0 .. MaxSize,
         SetPos(fds, f, n, fds2)
  PROVE  PutAt(fl, fds, f, n, fds2)
BY PosSet DEF PutAt

LEMMA PutKeeps ==
  ASSUME NEW f, NEW n, NEW fds1, NEW fds2, f \in Fd, Core(flash, fd, NoCall, file, view),
         FdOK(flash, fds1), fds1[f].open,
         Shown(fd, fds1),
         n \in Nat, n <= Bytes(fd[f].size), SetPos(fds1, f, n, fds2)
  PROVE  Core(flash, fds2, NoCall, file, ViewsOf(fds2)) /\ Repositioned(fd, fds2, f, n)
<1>1. FlashOK(flash) /\ FdOK(flash, fd) /\ Exist(flash, file) /\ SizesAre(flash, fd, file)
  BY IdleIs
<1>2. n \in 0 .. MaxSize
  <2>1. fd[f].size \in 0 .. UNDEFINED_LEN
    BY <1>1 DEF FdOK, Descriptors
  <2>2. Bytes(fd[f].size) \in 0 .. MaxSize
    BY <2>1, BytesType
  <2> QED BY <2>2, ObjectsAssumption
<1>3. /\ FdOK(flash, fds2)
      /\ fds2[f].open = fds1[f].open /\ fds2[f].obj = fds1[f].obj /\ fds2[f].size = fds1[f].size
      /\ fds2[f].pos = n
      /\ \A g \in Fd : g # f => fds2[g] = fds1[g]
  <2>1. PutAt(flash, fds1, f, n, fds2)
    BY <1>2, PutIs
  <2> QED BY <2>1 DEF PutAt
<1>4. ASSUME NEW g \in Fd, fds2[g].open
      PROVE  /\ Bytes(fds2[g].size) = Len(file[fds2[g].obj].bytes)
             /\ fds2[g].pos <= Len(file[fds2[g].obj].bytes)
  <2>1. CASE g = f
    BY <1>1, <1>3, <2>1 DEF SizesAre, Shown
  <2>2. CASE g # f
    BY <1>1, <1>3, <1>4, <2>2 DEF SizesAre, Shown
  <2> QED BY <2>1, <2>2
<1>5. Repositioned(fd, fds2, f, n)
  <2>1. ASSUME NEW g \in Fd
        PROVE  /\ fds2[g].open = fd[g].open /\ fds2[g].obj = fd[g].obj
               /\ fds2[g].pos = IF g = f THEN n ELSE fd[g].pos
    BY <1>3 DEF Shown
  <2> QED BY <2>1 DEF Repositioned
<1> QED BY <1>3, <1>4, <1>5, IdleSet

LEMMA IndexForIs ==
  ASSUME NEW fl, NEW fds, NEW f, NEW k, FdOK(fl, fds), f \in Fd, fds[f].open
  PROVE  IndexFor(State(fl, fds), f, k) = Find(fl, fds[f].obj, k) /\ fds[f].hdr = Find(fl, fds[f].obj, 0)
<1>1. Knows(fl, fds[f])
  BY DEF FdOK
<1> QED BY <1>1, StateIs DEF IndexFor, Knows

LEMMA SeekKeeps ==
  ASSUME NEW f, NEW n, f \in Fd, n \in Nat, Core(flash, fd, call, file, view), Seek(f, n)
  PROVE  Rested /\ Repositioned(fd, fd', f, n)
<1>1. /\ call = NoCall /\ fd[f].open /\ n <= Bytes(fd[f].size) /\ call' = call
      /\ Becomes([SeekCursor(f, n) EXCEPT !.fd[f].pos = n])
  <2>1. /\ call = NoCall /\ fd[f].open /\ n \in 0 .. Bytes(fd[f].size) /\ call' = call
        /\ Becomes([SeekCursor(f, n) EXCEPT !.fd[f].pos = n])
    BY DEF Seek, Idle
  <2> QED BY <2>1
<1>2. Core(flash, fd, NoCall, file, view)
  BY <1>1
<1>3. FlashOK(flash) /\ FdOK(flash, fd)
  BY <1>2, IdleIs
<1> DEFINE k == IxSpan(DataSpan(Max({n - 1, 0})))
           st == SeekCursor(f, n)
<1>4. k \in Nat
  <2>1. Max({n - 1, 0}) \in Nat
    <3>1. Max({n - 1, 0}) = CHOOSE x \in {n - 1, 0} : \A y \in {n - 1, 0} : x >= y
      BY DEF Max
    <3> DEFINE m == IF n = 0 THEN 0 ELSE n - 1
    <3>2. m \in {n - 1, 0} /\ \A y \in {n - 1, 0} : m >= y
      OBVIOUS
    <3>3. Max({n - 1, 0}) \in {n - 1, 0} /\ Max({n - 1, 0}) >= 0
      <4> HIDE DEF m
      <4> QED BY <3>1, <3>2
    <3> QED BY <3>3
  <2> QED BY <2>1, SpanOf, IxSpanType
<1> HIDE DEF k
<1>5. st = State(flash, st.fd) /\ FdOK(flash, st.fd) /\ Shown(fd, st.fd)
  <2>1. CASE fd[f].cspan = k
    <3>1. st = State(flash, fd)
      BY <2>1 DEF SeekCursor, k, Now
    <3>2. st.fd = fd
      BY <3>1, StateIs
    <3>3. Shown(fd, fd)
      BY DEF Shown
    <3> QED BY <1>3, <3>1, <3>2, <3>3
  <2>2. CASE fd[f].cspan # k
    <3>1. st = Cursor(State(flash, fd), f, k, Find(flash, fd[f].obj, k))
      BY <2>2 DEF SeekCursor, k, Now
    <3>2. CursorPut(flash, fd, f, k, st)
      BY <3>1 DEF CursorPut
    <3> HIDE DEF st
    <3> QED BY <1>1, <1>3, <1>4, <3>2, CursorIs
  <2> QED BY <2>1, <2>2
<1> HIDE DEF st
<1>6. flash' = flash /\ SetPos(st.fd, f, n, fd')
  <2>1. PICK y : st = State(flash, y) /\ st.fd = y
    BY <1>5
  <2>2. [st EXCEPT !.fd[f].pos = n] = State(flash, [y EXCEPT ![f].pos = n])
    BY <2>1 DEF State
  <2>3. Becomes(State(flash, [y EXCEPT ![f].pos = n]))
    BY <1>1, <2>2 DEF st
  <2> QED BY <2>1, <2>3, StateIs DEF Becomes, SetPos
<1>65. st.fd[f].open
  BY <1>1, <1>5 DEF Shown
<1>7. Core(flash, fd', NoCall, file, ViewsOf(fd')) /\ Repositioned(fd, fd', f, n)
  BY <1>1, <1>2, <1>5, <1>6, <1>65, PutKeeps
<1> QED BY <1>1, <1>6, <1>7 DEF Rested

LEMMA ReadKeeps ==
  ASSUME NEW f, NEW n, f \in Fd, n \in Nat, Core(flash, fd, call, file, view), Read(f, n)
  PROVE  Rested /\ Repositioned(fd, fd', f, n)
<1> DEFINE k == IxSpan(DataSpan(n - 1))
           p == IF k = 0 THEN fd[f].hdr ELSE IndexFor(Now, f, k)
           st == Cursor(Now, f, k, p)
<1>1. /\ call = NoCall /\ fd[f].open /\ n \in fd[f].pos + 1 .. Bytes(fd[f].size) /\ call' = call
      /\ Becomes([st EXCEPT !.fd[f].pos = n])
  BY DEF Read, Idle
<1>2. Core(flash, fd, NoCall, file, view)
  BY <1>1
<1>3. FlashOK(flash) /\ FdOK(flash, fd)
  BY <1>2, IdleIs
<1>4. n > 0 /\ n <= Bytes(fd[f].size)
  <2>1. fd[f].pos \in 0 .. MaxSize
    BY <1>3 DEF FdOK, Descriptors
  <2> QED BY <1>1, <2>1
<1>5. k \in Nat
  BY <1>4, SpanOf, IxSpanType
<1> HIDE DEF k
<1>6. p = Find(flash, fd[f].obj, k)
  BY <1>1, <1>3, <1>5, IndexForIs DEF Now
<1>7. st = Cursor(State(flash, fd), f, k, Find(flash, fd[f].obj, k))
  BY <1>6 DEF Now
<1> HIDE DEF p, st
<1>8. CursorPut(flash, fd, f, k, st)
  BY <1>7 DEF CursorPut
<1>9. FdOK(flash, st.fd) /\ Shown(fd, st.fd) /\ st = State(flash, st.fd)
  BY <1>1, <1>3, <1>5, <1>8, CursorIs
<1>10. flash' = flash /\ SetPos(st.fd, f, n, fd') /\ st.fd[f].open
  <2>1. PICK y : st = State(flash, y) /\ st.fd = y
    BY <1>9
  <2>2. [st EXCEPT !.fd[f].pos = n] = State(flash, [y EXCEPT ![f].pos = n])
    BY <2>1 DEF State
  <2>3. Becomes(State(flash, [y EXCEPT ![f].pos = n]))
    BY <1>1, <2>2
  <2>4. st.fd[f].open
    BY <1>1, <1>9 DEF Shown
  <2> QED BY <2>1, <2>4, <2>3, StateIs DEF Becomes, SetPos
<1>11. Core(flash, fd', NoCall, file, ViewsOf(fd')) /\ Repositioned(fd, fd', f, n)
  BY <1>1, <1>2, <1>4, <1>9, <1>10, PutKeeps
<1> QED BY <1>1, <1>10, <1>11 DEF Rested

LEMMA SeekBeyondKeeps ==
  ASSUME NEW f, f \in Fd, Core(flash, fd, call, file, view), SeekBeyond(f)
  PROVE  Rested /\ Repositioned(fd, fd', f, Bytes(fd[f].size))
<1>1. /\ call = NoCall /\ fd[f].open /\ flash' = flash /\ call' = call
      /\ SetPos(fd, f, Bytes(fd[f].size), fd')
  BY DEF SeekBeyond, Idle, SetPos
<1>2. Core(flash, fd, NoCall, file, view)
  BY <1>1
<1>3. FdOK(flash, fd)
  BY <1>2, IdleIs
<1>4. Bytes(fd[f].size) \in Nat
  <2>1. fd[f].size \in 0 .. UNDEFINED_LEN
    BY <1>3 DEF FdOK, Descriptors
  <2> QED BY <2>1, BytesType, ObjectsAssumption
<1>5. Shown(fd, fd) /\ Bytes(fd[f].size) <= Bytes(fd[f].size)
  BY <1>4 DEF Shown
<1>6. Core(flash, fd', NoCall, file, ViewsOf(fd')) /\ Repositioned(fd, fd', f, Bytes(fd[f].size))
  BY <1>1, <1>2, <1>3, <1>4, <1>5, PutKeeps
<1> QED BY <1>1, <1>6 DEF Rested

LEMMA IdleFlash ==
  ASSUME NEW fl, NEW fds, NEW fi, NEW vw, NEW fl2, NEW fds2, Core(fl, fds, NoCall, fi, vw),
         FlashOK(fl2), FdOK(fl2, fds2), FoundSame(fl, fl2), HeadsSame(fl, fl2), RefSame(fl, fl2),
         DataSame(fl, fl2), Steady(fds, fds2)
  PROVE  Core(fl2, fds2, NoCall, fi, ViewsOf(fds2))
<1>1. /\ FlashOK(fl) /\ Exist(fl, fi) /\ Layout(fl, NoCall, fi) /\ SizesAre(fl, fds, fi)
  BY IdleIs
<1>2. Exist(fl2, fi)
  BY <1>1, ExistKept DEF FoundSame
<1>3. \A u \in Obj, s \in Spans : Table(fl2, NoCall, u)[s] = Table(fl, NoCall, u)[s]
  <2>1. \A u \in Obj, s \in Spans : Table(fl, NoCall, u)[s] = Ref(fl, u, s)
    BY TableOut, NoCallIs
  <2>2. \A u \in Obj, s \in Spans : Table(fl2, NoCall, u)[s] = Ref(fl2, u, s)
    BY TableOut, NoCallIs
  <2> QED BY <2>1, <2>2 DEF RefSame
<1>4. Layout(fl2, NoCall, fi)
  <2>1. \A u \in Obj, k \in Nat : Find(fl2, u, k) # NoPage => Bounded(NoCall, fi, u, k)
    BY <1>1 DEF FoundSame, Layout
  <2> QED BY <1>1, <1>3, <2>1, LayoutKept
<1>5. SizesAre(fl2, fds2, fi)
  <2>1. \A u \in Obj : fi[u].exists => Bytes(HSize(fl2, u)) = Len(fi[u].bytes)
    BY <1>1 DEF SizesAre, HeadsSame, Exist
  <2>2. \A f \in Fd : fds2[f].open => /\ Bytes(fds2[f].size) = Len(fi[fds2[f].obj].bytes)
                                      /\ fds2[f].pos <= Len(fi[fds2[f].obj].bytes)
    BY <1>1 DEF SizesAre, Steady
  <2> QED BY <2>1, <2>2 DEF SizesAre
<1> QED BY <1>2, <1>4, <1>5, Idles

LEMMA RenameKeeps ==
  ASSUME NEW f, NEW o, f \in Fd, o \in Obj, Core(flash, fd, call, file, view), Rename(f, o)
  PROVE  Rested /\ Placed(fd, fd')
<1> DEFINE p == Find(flash, o, 0)
           img == flash[p]
           st == HeaderMoved(State(flash, fd), o, Find(flash, o, 0), img)
<1>1. /\ call = NoCall /\ Exists(o) /\ (\E q \in Page : flash[q].kind = "free")
      /\ Becomes(st) /\ call' = call
  BY DEF Rename, Full, Idle, Now
<1>2. Core(flash, fd, NoCall, file, view)
  BY <1>1
<1>3. FlashOK(flash) /\ FdOK(flash, fd) /\ Exist(flash, file) /\ SizesAre(flash, fd, file)
  BY <1>2, IdleIs
<1>4. Find(flash, o, 0) # NoPage
  BY <1>1, <1>3, ExistsIs
<1>5. p # NoPage /\ img \in IxPages /\ img.obj = o /\ img.span = 0
  BY <1>3, <1>4, FindIs
<1> HIDE DEF img, st
<1>6. st = HeaderMoved(State(flash, fd), o, Find(flash, o, 0), img)
  BY DEF st
<1> HIDE DEF p
<1>7. /\ Indexed(flash, st.flash, o, 0, NextFree(flash), img) /\ NextFree(flash) \in Page
      /\ FlashOK(st.flash) /\ FdOK(st.flash, st.fd) /\ Resized(fd, st.fd, o, img.size)
  BY <1>1, <1>3, <1>4, <1>5, <1>6, HeaderMovedIs
<1>8. /\ FoundSame(flash, st.flash) /\ HeadsSame(flash, st.flash) /\ RefSame(flash, st.flash)
      /\ DataSame(flash, st.flash)
  <2> DEFINE n == NextFree(flash)
  <2>1. n \in Target /\ n # NoPage
    BY <1>7, PageType DEF Target
  <2>2. img.size = flash[Find(flash, o, 0)].size /\ \A s \in Entries(0) : img.ix[s] = flash[Find(flash, o, 0)].ix[s]
    BY DEF img, p
  <2>3. 0 \in Nat /\ Indexed(flash, st.flash, o, 0, n, img)
    BY <1>7
  <2> HIDE DEF n
  <2> QED BY <1>3, <1>4, <2>1, <2>2, <2>3, IndexedSame
<1>9. Steady(fd, st.fd)
  <2>1. file[o].exists
    BY <1>3, <1>4 DEF Exist
  <2>2. img.size = HSize(flash, o)
    BY DEF HSize, img, p
  <2>3. Bytes(img.size) = Len(file[o].bytes)
    BY <1>3, <2>1, <2>2 DEF SizesAre
  <2>4. Current(NoCall, file, o) = file[o].bytes /\ ~Changing(NoCall, o)
    BY CurrentOut, NoCallIs DEF Changing
  <2> QED BY <1>2, <1>7, <2>3, <2>4, ResizedSteady
<1>10. flash' = st.flash /\ fd' = st.fd
  BY <1>1 DEF Becomes
<1>11. Core(st.flash, st.fd, NoCall, file, ViewsOf(st.fd))
  BY <1>2, <1>7, <1>8, <1>9, IdleFlash
<1>12. Placed(fd, st.fd)
  BY <1>9 DEF Steady, Placed
<1> QED BY <1>1, <1>10, <1>11, <1>12 DEF Rested

-----------------------------------------------------------------------------
(* A call begins.                                                          *)

LEMMA Begins ==
  ASSUME NEW fl, NEW fds, NEW fi, NEW vw, NEW fds2, NEW c, Core(fl, fds, NoCall, fi, vw),
         FdOK(fl, fds2), c.prev = -1, \A u \in Obj : Current(c, fi, u) = fi[u].bytes,
         \A f \in Fd : fds2[f].open => Bytes(fds2[f].size) = Len(fi[fds2[f].obj].bytes),
         \A f \in Fd : Seen(c, f, fds2[f], vw[f]), CallOK(fl, fds2, c, fi, vw)
  PROVE  Core(fl, fds2, c, fi, vw)
<1>1. /\ FlashOK(fl) /\ Exist(fl, fi) /\ Layout(fl, NoCall, fi) /\ SizesAre(fl, fds, fi)
  BY IdleIs
<1>2. \A u : Current(NoCall, fi, u) = fi[u].bytes
  BY CurrentOut, NoCallIs
<1>3. Layout(fl, c, fi)
  <2>1. \A u \in Obj, s \in Spans : Table(fl, c, u)[s] = Table(fl, NoCall, u)[s]
    <3>1. \A u \in Obj, s \in Spans : Table(fl, NoCall, u)[s] = Ref(fl, u, s)
      BY TableOut, NoCallIs
    <3>2. \A u \in Obj, s \in Spans : Table(fl, c, u)[s] = Ref(fl, u, s)
      BY TableOut
    <3> QED BY <3>1, <3>2
  <2>2. ASSUME NEW u \in Obj, NEW k \in Nat, Find(fl, u, k) # NoPage PROVE Bounded(c, fi, u, k)
    <3>1. Bounded(NoCall, fi, u, k) /\ k # NoCall.prev
      BY <1>1, <2>2, NoCallIs DEF Layout
    <3> QED BY <1>2, <3>1 DEF Bounded
  <2>3. DataSame(fl, fl)
    BY DEF DataSame
  <2>4. \A u \in Obj : Current(c, fi, u) = Current(NoCall, fi, u)
    BY <1>2
  <2> QED BY <1>1, <2>1, <2>2, <2>3, <2>4, LayoutKept
<1>4. SizesAgree(fl, fds2, c, fi)
  BY <1>1 DEF SizesAgree, SizesAre
<1>5. Views(fds2, c, fi, vw)
  BY CoreIs DEF Views
<1> QED BY <1>1, <1>3, <1>4, <1>5 DEF Core

LEMMA CreateKeeps ==
  ASSUME NEW f, NEW o, f \in Fd, o \in Obj, Core(flash, fd, call, file, view), Create(f, o)
  PROVE  Core(flash', fd', call', file, view) /\ call' # NoCall
<1> DEFINE c == [NoCall EXCEPT !.op = "create", !.fd = f, !.obj = o, !.step = "gc"]
<1>1. call = NoCall /\ ~fd[f].open /\ ~Exists(o) /\ call' = c /\ flash' = flash /\ fd' = fd
  BY DEF Create, Begin, Idle
<1>2. Core(flash, fd, NoCall, file, view)
  BY <1>1
<1>3. FlashOK(flash) /\ FdOK(flash, fd) /\ Exist(flash, file) /\ SizesAre(flash, fd, file) /\ view = ViewsOf(fd)
  BY <1>2, IdleIs
<1>4. c.prev = -1 /\ c.op = "create" /\ c.fd = f /\ c.obj = o /\ c.step = "gc" /\ ~c.temp /\ ~c.full /\ c \in Locals
  <2>1. 0 \in Nat /\ 0 \in Int /\ -1 \in Int /\ FreePage \in Pages /\ NoPage \in Target
    BY DEF Pages, Target
  <2>2. (CHOOSE v \in Val : TRUE) \in Val
    BY NoCallIs DEF NoCall
  <2> QED BY <2>1, <2>2 DEF NoCall, Locals
<1> HIDE DEF c
<1>5. \A u \in Obj : Current(c, file, u) = file[u].bytes
  BY <1>4, CurrentOut
<1>6. ~file[o].exists
  BY <1>1, <1>3, ExistsIs DEF Exist
<1>7. CallOK(flash, fd, c, file, view)
  BY <1>1, <1>4, <1>6 DEF CallOK, Creating
<1>8. \A g \in Fd : Seen(c, g, fd[g], view[g])
  BY <1>3, <1>4 DEF Seen, Writing, ViewsOf
<1>9. \A g \in Fd : fd[g].open => Bytes(fd[g].size) = Len(file[fd[g].obj].bytes)
  BY <1>3 DEF SizesAre
<1>10. Core(flash, fd, c, file, view)
  BY <1>2, <1>3, <1>4, <1>5, <1>7, <1>8, <1>9, Begins
<1> QED BY <1>1, <1>4, <1>10, NoCallIs

(* SPIFFS_write: what is within the file is modified, the rest appended.   *)
LEMMA WriteKeeps ==
  ASSUME NEW f, NEW n, NEW v, f \in Fd, n \in Lens, v \in Val,
         Core(flash, fd, call, file, view), Write(f, n, v)
  PROVE  Core(flash', fd', call', file, view) /\ call' # NoCall
<1> DEFINE at == WritePlace(f)
           m == Min({Bytes(fd[f].size) - at, n})
           o == fd[f].obj
           L == Len(file[o].bytes)
           c == [NoCall EXCEPT !.op = IF m > 0 THEN "modify" ELSE "append", !.fd = f,
                               !.obj = o, !.step = "gc", !.start = at, !.offset = at,
                               !.len = IF m > 0 THEN m ELSE n,
                               !.rest = IF m > 0 THEN n - m ELSE 0, !.val = v]
<1>1. /\ call = NoCall /\ fd[f].open /\ at + n <= MaxSize /\ call' = c /\ flash' = flash
      /\ SetPos(fd, f, at, fd')
  BY DEF Write, Begin, Idle, SetPos
<1>2. Core(flash, fd, NoCall, file, view)
  BY <1>1
<1>3. FlashOK(flash) /\ FdOK(flash, fd) /\ Exist(flash, file) /\ SizesAre(flash, fd, file) /\ view = ViewsOf(fd)
  BY <1>2, IdleIs
<1>4. o \in Obj /\ fd[f].pos \in 0 .. MaxSize /\ Find(flash, o, 0) # NoPage
  BY <1>1, <1>3 DEF FdOK, Descriptors, Knows
<1>5. L \in 0 .. MaxSize /\ file[o].bytes \in Seq(Val) /\ file[o].exists
  <2> HIDE DEF o
  <2>1. file[o].bytes \in Seq(Val) /\ Len(file[o].bytes) \in 0 .. MaxSize
    BY <1>3, <1>4, FileType
  <2>2. file[o].exists
    BY <1>3, <1>4 DEF Exist
  <2> QED BY <2>1, <2>2
<1>6. Bytes(fd[f].size) = L /\ fd[f].pos <= L /\ Bytes(HSize(flash, o)) = L
  BY <1>1, <1>3, <1>4, <1>5 DEF SizesAre
<1>7. at = IF f \in Appends THEN L ELSE fd[f].pos
  BY <1>6 DEF WritePlace
<1> HIDE DEF o, L, at
<1>8. at \in Nat /\ at <= L /\ L \in Nat /\ L <= MaxSize /\ MaxSize \in Nat /\ at \in 0 .. MaxSize
  BY <1>4, <1>5, <1>6, <1>7, ObjectsAssumption
<1>9. n \in Nat /\ n > 0
  BY ObjectsAssumption
<1>10. m = Least(L - at, n)
  BY <1>6, <1>8, <1>9, MinOfTwo
<1> HIDE DEF m
<1>11. m \in Nat /\ m <= n /\ at + m <= L /\ (m < n => at + m = L)
  BY <1>8, <1>9, <1>10 DEF Least
<1>12. /\ c.prev = -1 /\ c.op \in {"modify", "append"} /\ c.fd = f /\ c.obj = o /\ c.step = "gc"
       /\ ~c.temp /\ ~c.full /\ c.start = at /\ c.offset = at /\ c.written = 0 /\ c.val = v
  BY DEF NoCall
<1>13. /\ c.op = "modify" => m > 0 /\ c.len = m /\ c.rest = n - m
       /\ c.op = "append" => ~(m > 0) /\ c.len = n /\ c.rest = 0
  BY DEF NoCall
<1>14. c \in Locals
  <2>1. 0 \in Nat /\ 0 \in Int /\ -1 \in Int /\ FreePage \in Pages /\ NoPage \in Target
    BY DEF Pages, Target
  <2>2. (IF m > 0 THEN m ELSE n) \in Nat /\ (IF m > 0 THEN n - m ELSE 0) \in Nat
    BY <1>9, <1>11
  <2>3. (IF m > 0 THEN "modify" ELSE "append") \in {"none", "create", "append", "modify", "truncate"}
    OBVIOUS
  <2>4. PICK x, y, z : x = (IF m > 0 THEN m ELSE n) /\ y = (IF m > 0 THEN n - m ELSE 0)
                       /\ z = (IF m > 0 THEN "modify" ELSE "append")
    OBVIOUS
  <2>5. c = [op |-> z, fd |-> f, obj |-> o, step |-> "gc", temp |-> FALSE, start |-> at, offset |-> at,
             len |-> x, written |-> 0, rest |-> y, val |-> v, new |-> 0, cur |-> 0, span |-> 0,
             full |-> FALSE, prev |-> -1, pix |-> NoPage, work |-> FreePage]
    <3>1. c = [NoCall EXCEPT !.op = z, !.fd = f, !.obj = o, !.step = "gc", !.start = at, !.offset = at,
                             !.len = x, !.rest = y, !.val = v]
      BY <2>4
    <3> HIDE DEF c
    <3>2. PICK f0, o0, v0 : f0 = (CHOOSE g \in Fd : TRUE) /\ o0 = (CHOOSE u \in Obj : TRUE)
                            /\ v0 = (CHOOSE w \in Val : TRUE)
      OBVIOUS
    <3>3. NoCall = [op |-> "none", fd |-> f0, obj |-> o0, step |-> "none", temp |-> FALSE, start |-> 0,
                    offset |-> 0, len |-> 0, written |-> 0, rest |-> 0, val |-> v0, new |-> 0, cur |-> 0,
                    span |-> 0, full |-> FALSE, prev |-> -1, pix |-> NoPage, work |-> FreePage]
      BY <3>2 DEF NoCall
    <3> QED BY <3>1, <3>3
  <2> HIDE DEF c
  <2>6. f \in Fd /\ o \in Obj /\ at \in Nat /\ v \in Val /\ x \in Nat /\ y \in Nat
        /\ z \in {"none", "create", "append", "modify", "truncate"}
    BY <1>4, <1>8, <2>2, <2>3, <2>4
  <2> QED BY <2>1, <2>5, <2>6 DEF Locals
<1> HIDE DEF c
<1>15. /\ FdOK(flash, fd')
       /\ fd'[f].open = fd[f].open /\ fd'[f].obj = fd[f].obj /\ fd'[f].size = fd[f].size
       /\ fd'[f].pos = at
       /\ \A g \in Fd : g # f => fd'[g] = fd[g]
  <2>1. FdOK(flash, fd) /\ at \in 0 .. MaxSize /\ SetPos(fd, f, at, fd')
    BY <1>1, <1>3, <1>8
  <2> QED BY <2>1, PosSet
<1>16. \A u \in Obj : Current(c, file, u) = file[u].bytes
  <2>1. SUFFICES ASSUME NEW u \in Obj PROVE Current(c, file, u) = file[u].bytes
    OBVIOUS
  <2>2. CASE u = o
    <3>1. (c.offset + c.written) - c.start = 0
      BY <1>8, <1>12
    <3>2. Current(c, file, u) = Spliced(file[u].bytes, at, 0, v)
      BY <1>12, <2>2, <3>1 DEF Current
    <3> QED BY <1>5, <1>8, <2>2, <3>2, SplicedNone DEF L
  <2>3. CASE u # o
    BY <1>12, <2>3, CurrentOut
  <2> QED BY <2>2, <2>3
<1>17. \A g \in Fd : fd'[g].open => Bytes(fd'[g].size) = Len(file[fd'[g].obj].bytes)
  BY <1>3, <1>15 DEF SizesAre
<1>18. view[f] = Promise!At(o, fd[f].pos)
  BY <1>1, <1>3 DEF ViewsOf, View, o
<1>19. view[f].open /\ view[f].obj = o /\ view[f].pos = fd[f].pos
  BY <1>18 DEF Promise!At
<1>20. \A g \in Fd : Seen(c, g, fd'[g], view[g])
  <2>1. \A g \in Fd : g # f => view[g] = View(fd'[g])
    BY <1>3, <1>15 DEF ViewsOf
  <2> QED BY <1>12, <1>18, <1>19, <2>1 DEF Seen, Writing
<1>21. WritesOn(flash, fd', c, file, view)
  <2>1. fd'[f].open /\ fd'[f].obj = o /\ fd'[f].pos = at
    BY <1>1, <1>15 DEF o
  <2>2. at = IF f \in Appends THEN Len(file[o].bytes) ELSE view[f].pos
    BY <1>7, <1>19 DEF L
  <2>3. c.len \in Nat /\ c.len > 0
    BY <1>9, <1>11, <1>12, <1>13
  <2>4. c.written <= c.len /\ c.start <= c.offset
    BY <1>8, <1>12, <2>3
  <2> QED BY <1>12, <1>19, <2>1, <2>2, <2>3, <2>4 DEF WritesOn
<1>22. c.op = "modify" => Modifying(flash, fd', c, file, view)
  <2> SUFFICES ASSUME c.op = "modify" PROVE Modifying(flash, fd', c, file, view)
    OBVIOUS
  <2>1. m > 0 /\ c.len = m /\ c.rest = n - m
    BY <1>13
  <2>2. /\ c.offset + c.len <= L /\ c.len + c.rest = n /\ c.offset + c.len + c.rest <= MaxSize
        /\ c.rest > 0 => c.offset + c.len = L
    BY <1>1, <1>8, <1>9, <1>11, <1>12, <2>1
  <2> QED BY <1>12, <1>21, <2>2 DEF Modifying, L
<1>23. c.op = "append" => Appending(flash, fd', c, file, view)
  <2> SUFFICES ASSUME c.op = "append" PROVE Appending(flash, fd', c, file, view)
    OBVIOUS
  <2>1. ~(m > 0) /\ c.len = n
    BY <1>13
  <2>2. at = L
    BY <1>8, <1>9, <1>11, <2>1
  <2>3. /\ c.offset = L /\ c.offset + c.len <= MaxSize /\ (c.offset + c.len) - c.start = n
        /\ c.offset <= Bytes(HSize(flash, o))
    BY <1>1, <1>6, <1>8, <1>9, <1>12, <2>1, <2>2
  <2>4. c.offset = 0 => HSize(flash, o) = UNDEFINED_LEN
    <3>1. HSize(flash, o) \in Sizes
      BY <1>3, <1>4, FindIs, IxFields DEF HSize
    <3> QED BY <1>6, <2>3, <3>1, SizesType DEF Bytes
  <2> QED BY <1>12, <1>21, <2>3, <2>4 DEF Appending, L
<1>24. CallOK(flash, fd', c, file, view)
  BY <1>12, <1>14, <1>22, <1>23 DEF CallOK
<1>25. Core(flash, fd', c, file, view)
  BY <1>2, <1>12, <1>15, <1>16, <1>17, <1>20, <1>24, Begins
<1> QED BY <1>1, <1>12, <1>25, NoCallIs

(* A truncation of file o from L to n bytes.                               *)
Cutting(c, f, o, n, L, s, p, step, temp, full) ==
  c = [op |-> "truncate", fd |-> f, obj |-> o, step |-> step, temp |-> temp, start |-> 0,
       offset |-> 0, len |-> 0, written |-> 0, rest |-> 0, val |-> CHOOSE v \in Val : TRUE, new |-> n,
       cur |-> L, span |-> s, full |-> full, prev |-> -1, pix |-> p, work |-> FreePage]

LEMMA CuttingIs ==
  ASSUME NEW c, NEW f, NEW o, NEW n, NEW L, NEW s, NEW p, NEW step, NEW temp, NEW full,
         Cutting(c, f, o, n, L, s, p, step, temp, full), f \in Fd, o \in Obj, n \in Nat, L \in Nat,
         s \in Nat, p \in Target, step \in {"gc", "run"}, temp \in BOOLEAN, full \in BOOLEAN
  PROVE  /\ c \in Locals /\ c.op = "truncate" /\ c.fd = f /\ c.obj = o /\ c.step = step /\ c.temp = temp
         /\ c.new = n /\ c.cur = L /\ c.span = s /\ c.full = full /\ c.prev = -1 /\ c.pix = p
<1>1. 0 \in Nat /\ s \in Int /\ -1 \in Int /\ FreePage \in Pages
  BY DEF Pages
<1>2. (CHOOSE v \in Val : TRUE) \in Val
  BY NoCallIs DEF NoCall
<1> QED BY <1>1, <1>2 DEF Cutting, Locals

LEMMA ShorteningIs ==
  ASSUME NEW f, NEW o, NEW d, NEW n, d \in Descriptors
  PROVE  \E s \in Nat : /\ Cutting(Shortening(f, o, d, n), f, o, n, Bytes(d.size), s, d.hdr, "none", FALSE, FALSE)
                        /\ Bytes(d.size) > 0 => s = DataSpan(Bytes(d.size) - 1)
<1>1. PICK L, h : L = Bytes(d.size) /\ h = d.hdr
  OBVIOUS
<1>2. L \in Nat
  <2>1. d.size \in 0 .. UNDEFINED_LEN
    BY DEF Descriptors
  <2> QED BY <1>1, <2>1, BytesType, ObjectsAssumption
<1>3. Max({L - 1, 0}) = IF L > 0 THEN L - 1 ELSE 0
  <2>1. Max({L - 1, 0}) = CHOOSE x \in {L - 1, 0} : \A y \in {L - 1, 0} : x >= y
    BY DEF Max
  <2> DEFINE m == IF L > 0 THEN L - 1 ELSE 0
  <2>2. m \in {L - 1, 0} /\ \A y \in {L - 1, 0} : m >= y
    BY <1>2
  <2>3. \A x \in {L - 1, 0} : (\A y \in {L - 1, 0} : x >= y) => x = m
    BY <1>2
  <2> HIDE DEF m
  <2>4. Max({L - 1, 0}) = m
    BY <2>1, <2>2, <2>3
  <2> QED BY <2>4 DEF m
<1>4. PICK s : s = DataSpan(Max({L - 1, 0}))
  OBVIOUS
<1>5. s \in Nat /\ (L > 0 => s = DataSpan(L - 1))
  <2>1. Max({L - 1, 0}) \in Nat
    BY <1>2, <1>3
  <2> QED BY <1>2, <1>3, <1>4, <2>1, SpanOf
<1>6. Cutting(Shortening(f, o, d, n), f, o, n, L, s, h, "none", FALSE, FALSE)
  <2>1. PICK f0, o0, v0 : f0 = (CHOOSE g \in Fd : TRUE) /\ o0 = (CHOOSE u \in Obj : TRUE)
                          /\ v0 = (CHOOSE w \in Val : TRUE)
    OBVIOUS
  <2>2. NoCall = [op |-> "none", fd |-> f0, obj |-> o0, step |-> "none", temp |-> FALSE, start |-> 0,
                  offset |-> 0, len |-> 0, written |-> 0, rest |-> 0, val |-> v0, new |-> 0, cur |-> 0,
                  span |-> 0, full |-> FALSE, prev |-> -1, pix |-> NoPage, work |-> FreePage]
    BY <2>1 DEF NoCall
  <2>3. Shortening(f, o, d, n) =
          [NoCall EXCEPT !.op = "truncate", !.fd = f, !.obj = o, !.new = n, !.cur = L, !.span = s, !.pix = h]
    BY <1>1, <1>4 DEF Shortening
  <2>4. Shortening(f, o, d, n) =
          [op |-> "truncate", fd |-> f, obj |-> o, step |-> "none", temp |-> FALSE, start |-> 0,
           offset |-> 0, len |-> 0, written |-> 0, rest |-> 0, val |-> v0, new |-> n, cur |-> L,
           span |-> s, full |-> FALSE, prev |-> -1, pix |-> h, work |-> FreePage]
    <3>1. PICK S : S = Shortening(f, o, d, n)
      OBVIOUS
    <3>2. S = [NoCall EXCEPT !.op = "truncate", !.fd = f, !.obj = o, !.new = n, !.cur = L, !.span = s, !.pix = h]
      BY <2>3, <3>1
    <3>3. S = [op |-> "truncate", fd |-> f, obj |-> o, step |-> "none", temp |-> FALSE, start |-> 0,
               offset |-> 0, len |-> 0, written |-> 0, rest |-> 0, val |-> v0, new |-> n, cur |-> L,
               span |-> s, full |-> FALSE, prev |-> -1, pix |-> h, work |-> FreePage]
      BY <2>2, <3>2
    <3> QED BY <3>1, <3>3
  <2> QED BY <2>1, <2>4 DEF Cutting
<1> QED BY <1>1, <1>5, <1>6

CutSet(c, c2, step, temp, full) ==
  \/ c2 = [c EXCEPT !.step = step] /\ temp = FALSE /\ full = FALSE
  \/ c2 = [c EXCEPT !.step = step, !.temp = temp] /\ full = FALSE
  \/ c2 = [c EXCEPT !.step = step, !.full = full, !.temp = temp]

LEMMA CuttingSet ==
  ASSUME NEW c, NEW c2, NEW f, NEW o, NEW n, NEW L, NEW s, NEW p, NEW step, NEW temp, NEW full,
         Cutting(c, f, o, n, L, s, p, "none", FALSE, FALSE),
         CutSet(c, c2, step, temp, full)
  PROVE  Cutting(c2, f, o, n, L, s, p, step, temp, full)
<1>1. PICK v0 : v0 = CHOOSE v \in Val : TRUE
  OBVIOUS
<1>2. c = [op |-> "truncate", fd |-> f, obj |-> o, step |-> "none", temp |-> FALSE, start |-> 0,
           offset |-> 0, len |-> 0, written |-> 0, rest |-> 0, val |-> v0, new |-> n,
           cur |-> L, span |-> s, full |-> FALSE, prev |-> -1, pix |-> p, work |-> FreePage]
  BY <1>1 DEF Cutting
<1>3. c2 = [op |-> "truncate", fd |-> f, obj |-> o, step |-> step, temp |-> temp, start |-> 0,
            offset |-> 0, len |-> 0, written |-> 0, rest |-> 0, val |-> v0, new |-> n,
            cur |-> L, span |-> s, full |-> full, prev |-> -1, pix |-> p, work |-> FreePage]
  <2>1. CASE c2 = [c EXCEPT !.step = step] /\ temp = FALSE /\ full = FALSE
    BY <1>2, <2>1
  <2>2. CASE c2 = [c EXCEPT !.step = step, !.temp = temp] /\ full = FALSE
    BY <1>2, <2>2
  <2>3. CASE c2 = [c EXCEPT !.step = step, !.full = full, !.temp = temp]
    BY <1>2, <2>3
  <2> QED BY <2>1, <2>2, <2>3 DEF CutSet
<1> QED BY <1>1, <1>3 DEF Cutting

(* The descriptor of the call is the caller's, or opened for the call.     *)
Lends(fds, fds2, f, o, temp, L) ==
  /\ fds2[f].open /\ fds2[f].obj = o
  /\ \A g \in Fd : g # f => fds2[g] = fds[g]
  /\ IF temp THEN ~fds[f].open /\ fds2[f].pos = 0 /\ Bytes(fds2[f].size) = L ELSE fds2[f] = fds[f]

LEMMA CutBegins ==
  ASSUME NEW fl, NEW fds, NEW fi, NEW vw, NEW fds2, NEW c, NEW f, NEW o, NEW n, NEW L, NEW s, NEW step,
         NEW temp, NEW full, Core(fl, fds, NoCall, fi, vw), FdOK(fl, fds2),
         f \in Fd, o \in Obj, n \in Nat, s \in Nat, step \in {"gc", "run"}, temp \in BOOLEAN,
         full \in BOOLEAN, L = Len(fi[o].bytes), L > 0 => s = DataSpan(L - 1),
         Lends(fds, fds2, f, o, temp, L), Cutting(c, f, o, n, L, s, fds2[f].hdr, step, temp, full),
         IF full THEN step = "run" /\ n = 0 ELSE step = "gc" /\ n < L /\ CutKind(L, n) = "clean",
         temp => n = 0
  PROVE  Core(fl, fds2, c, fi, vw) /\ c # NoCall
<1>1. FlashOK(fl) /\ FdOK(fl, fds) /\ Exist(fl, fi) /\ SizesAre(fl, fds, fi) /\ vw = ViewsOf(fds)
  BY IdleIs
<1>2. L \in Nat /\ fi[o].bytes \in Seq(Val) /\ L <= MaxSize
  <2>1. fi[o].bytes \in Seq(Val) /\ Len(fi[o].bytes) \in 0 .. MaxSize
    BY <1>1, FileType
  <2> QED BY <2>1, ObjectsAssumption
<1>3. fds2[f].open /\ fds2[f].obj = o /\ Knows(fl, fds2[f]) /\ fds2[f].hdr \in Target
      /\ \A g \in Fd : g # f => fds2[g] = fds[g]
  BY DEF FdOK, Lends, Descriptors
<1>4. fds2[f].hdr = Find(fl, o, 0)
  BY <1>3 DEF Knows
<1>5. /\ c \in Locals /\ c.op = "truncate" /\ c.fd = f /\ c.obj = o /\ c.step = step /\ c.temp = temp
      /\ c.new = n /\ c.cur = L /\ c.span = s /\ c.full = full /\ c.prev = -1 /\ c.pix = Find(fl, o, 0)
  <2> DEFINE p == fds2[f].hdr
  <2>1. p \in Target /\ Cutting(c, f, o, n, L, s, p, step, temp, full)
    BY <1>3
  <2> HIDE DEF p
  <2>2. /\ c \in Locals /\ c.op = "truncate" /\ c.fd = f /\ c.obj = o /\ c.step = step /\ c.temp = temp
        /\ c.new = n /\ c.cur = L /\ c.span = s /\ c.full = full /\ c.prev = -1 /\ c.pix = p
    <3> QED BY <1>2, <2>1, CuttingIs
  <2> QED BY <1>4, <2>2 DEF p
<1>6. \A u \in Obj : Current(c, fi, u) = fi[u].bytes
  <2>1. SUFFICES ASSUME NEW u \in Obj PROVE Current(c, fi, u) = fi[u].bytes
    OBVIOUS
  <2>2. CASE u = o
    <3>1. Current(c, fi, u) = SubSeq(fi[o].bytes, 1, Len(fi[o].bytes))
      BY <1>5, <2>2 DEF Current
    <3>2. Len(fi[o].bytes) \in 0 .. Len(fi[o].bytes)
      BY <1>2
    <3> QED BY <1>2, <2>2, <3>1, <3>2, CutIs
  <2>3. CASE u # o
    BY <1>5, <2>3, CurrentOut
  <2> QED BY <2>2, <2>3
<1>7. \A g \in Fd : fds2[g].open => Bytes(fds2[g].size) = Len(fi[fds2[g].obj].bytes)
  <2>1. SUFFICES ASSUME NEW g \in Fd, fds2[g].open PROVE Bytes(fds2[g].size) = Len(fi[fds2[g].obj].bytes)
    OBVIOUS
  <2>2. CASE g = f /\ temp
    BY <1>3, <2>2 DEF Lends
  <2>3. CASE fds2[g] = fds[g]
    BY <1>1, <2>1, <2>3 DEF SizesAre
  <2> QED BY <1>3, <2>2, <2>3 DEF Lends
<1>8. \A g \in Fd : Seen(c, g, fds2[g], vw[g])
  <2>1. SUFFICES ASSUME NEW g \in Fd PROVE Seen(c, g, fds2[g], vw[g])
    OBVIOUS
  <2>2. vw[g] = View(fds[g])
    BY <1>1 DEF ViewsOf
  <2>3. CASE temp /\ g = f
    BY <1>5, <2>2, <2>3 DEF Seen, Lends, View
  <2>4. CASE ~(temp /\ g = f)
    <3>1. fds2[g] = fds[g]
      BY <1>3, <2>4 DEF Lends
    <3>2. CASE c.step = "run" /\ fds2[g].open /\ fds2[g].obj = c.obj
      <4>1. vw[g] = Promise!At(c.obj, fds2[g].pos)
        BY <2>2, <3>1, <3>2 DEF View
      <4>2. fds2[g].pos \in 0 .. MaxSize
        BY DEF FdOK, Descriptors
      <4> QED BY <1>5, <2>4, <3>2, <4>1, <4>2 DEF Seen
    <3>3. CASE ~(c.step = "run" /\ fds2[g].open /\ fds2[g].obj = c.obj)
      BY <1>5, <2>2, <2>4, <3>1, <3>3 DEF Seen, Writing
    <3> QED BY <3>2, <3>3
  <2> QED BY <2>3, <2>4
<1>9. Shortens(fl, fds2, c, fi, vw)
  <2>1. c.new <= c.cur /\ c.cur <= Len(fi[o].bytes) /\ c.cur = Len(fi[o].bytes)
    BY <1>2, <1>5
  <2>2. c.temp => c.new = 0 /\ fds2[f].pos = 0
    BY <1>5 DEF Lends
  <2>3. c.cur > c.new => c.span = DataSpan(c.cur - 1)
    BY <1>2, <1>5
  <2>4. c.cur = c.new => Len(fi[o].bytes) = 0
    BY <1>2, <1>5
  <2> QED BY <1>3, <1>5, <2>1, <2>2, <2>3, <2>4 DEF Shortens
<1>10. CallOK(fl, fds2, c, fi, vw)
  BY <1>5, <1>9 DEF CallOK
<1>11. Core(fl, fds2, c, fi, vw)
  BY <1>5, <1>6, <1>7, <1>8, <1>10, Begins
<1> QED BY <1>5, <1>11, NoCallIs

LEMMA TruncateKeeps ==
  ASSUME NEW f, NEW n, f \in Fd, n \in Nat, Cuts \subseteq {"clean"},
         Core(flash, fd, call, file, view), Truncate(f, n)
  PROVE  Core(flash', fd', call', file, view) /\ call' # NoCall
<1> DEFINE d == fd[f]
           o == fd[f].obj
           L == Bytes(d.size)
           c == [Shortening(f, o, d, n) EXCEPT !.step = "gc"]
<1>1. /\ call = NoCall /\ d.open /\ n < L /\ CutKind(L, n) \in Cuts /\ call' = c
      /\ flash' = flash /\ fd' = fd
  BY DEF Truncate, Begin, Idle
<1>2. Core(flash, fd, NoCall, file, view)
  BY <1>1
<1>3. FlashOK(flash) /\ FdOK(flash, fd) /\ Exist(flash, file) /\ SizesAre(flash, fd, file)
  BY <1>2, IdleIs
<1>4. d \in Descriptors /\ o \in Obj
  BY <1>3 DEF FdOK, Descriptors
<1>5. L = Len(file[o].bytes)
  BY <1>1, <1>3 DEF SizesAre
<1>6. PICK S : S = Shortening(f, o, d, n)
  OBVIOUS
<1>65. CutSet(S, c, "gc", FALSE, FALSE)
  <2> HIDE DEF d, o
  <2> QED BY <1>6 DEF CutSet
<1> HIDE DEF c
<1>7. PICK s \in Nat : /\ Cutting(c, f, o, n, L, s, d.hdr, "gc", FALSE, FALSE)
                       /\ L > 0 => s = DataSpan(L - 1)
  <2>1. PICK s \in Nat : /\ Cutting(S, f, o, n, L, s, d.hdr, "none", FALSE, FALSE)
                         /\ L > 0 => s = DataSpan(L - 1)
    BY <1>4, <1>6, ShorteningIs
  <2> HIDE DEF L, d, o
  <2>2. Cutting(c, f, o, n, L, s, d.hdr, "gc", FALSE, FALSE)
    BY <1>65, <2>1, CuttingSet
  <2> QED BY <2>1, <2>2
<1>8. Lends(fd, fd, f, o, FALSE, L)
  BY <1>1 DEF Lends
<1>9. CutKind(L, n) = "clean"
  BY <1>1
<1> HIDE DEF L, o
<1>10. Core(flash, fd, c, file, view) /\ c # NoCall
  BY <1>1, <1>2, <1>3, <1>4, <1>5, <1>7, <1>8, <1>9, CutBegins
<1> QED BY <1>1, <1>10

OpensOn(fl, o, d) == d = Opened(fl, o, Find(fl, o, 0))

(* The descriptor that SPIFFS_O_TRUNC or SPIFFS_remove opens.              *)
LEMMA LentIs ==
  ASSUME NEW fl, NEW fds, NEW fi, NEW vw, NEW f, NEW o, NEW d, NEW fds2, f \in Fd, o \in Obj,
         Core(fl, fds, NoCall, fi, vw), ~fds[f].open, Find(fl, o, 0) # NoPage,
         OpensOn(fl, o, d), SetFd(fds, f, d, fds2)
  PROVE  /\ FdOK(fl, fds2) /\ fds2[f] = d /\ d \in Descriptors /\ d.size = HSize(fl, o)
         /\ Bytes(d.size) = Len(fi[o].bytes) /\ Lends(fds, fds2, f, o, TRUE, Bytes(d.size))
<1>1. FlashOK(fl) /\ FdOK(fl, fds) /\ Exist(fl, fi) /\ SizesAre(fl, fds, fi)
  BY IdleIs
<1>2. d \in Descriptors /\ d.open /\ d.obj = o /\ d.size = HSize(fl, o) /\ d.pos = 0 /\ Knows(fl, d)
  BY <1>1, OpenedIs DEF OpensOn
<1>3. FdOK(fl, fds2) /\ fds2[f] = d /\ \A g \in Fd : g # f => fds2[g] = fds[g]
  BY <1>1, <1>2, FdSet
<1>4. Bytes(d.size) = Len(fi[o].bytes)
  BY <1>1, <1>2 DEF SizesAre, Exist
<1> QED BY <1>2, <1>3, <1>4 DEF Lends

LEMMA OpenTruncateKeeps ==
  ASSUME NEW f, NEW o, f \in Fd, o \in Obj, Core(flash, fd, call, file, view), OpenTruncate(f, o)
  PROVE  Core(flash', fd', call', file, view) /\ call' # NoCall
<1> DEFINE d == Opened(flash, o, Find(flash, o, 0))
           L == Bytes(d.size)
           c == [Shortening(f, o, d, 0) EXCEPT !.step = "gc", !.temp = TRUE]
<1>1. /\ call = NoCall /\ ~fd[f].open /\ Exists(o) /\ d.size # UNDEFINED_LEN /\ call' = c
      /\ flash' = flash /\ SetFd(fd, f, d, fd')
  BY DEF OpenTruncate, Begin, Idle, SetFd
<1>2. Core(flash, fd, NoCall, file, view)
  BY <1>1
<1>3. FlashOK(flash) /\ FdOK(flash, fd) /\ Exist(flash, file)
  BY <1>2, IdleIs
<1>4. Find(flash, o, 0) # NoPage
  BY <1>1, <1>3, ExistsIs
<1>5. PICK S : S = Shortening(f, o, d, 0)
  OBVIOUS
<1>55. CutSet(S, c, "gc", TRUE, FALSE)
  <2> HIDE DEF d
  <2> QED BY <1>5 DEF CutSet
<1>6. /\ FdOK(flash, fd') /\ fd'[f] = d /\ d \in Descriptors /\ d.size = HSize(flash, o)
      /\ L = Len(file[o].bytes) /\ Lends(fd, fd', f, o, TRUE, L)
  <2>1. OpensOn(flash, o, d) /\ ~fd[f].open /\ SetFd(fd, f, d, fd')
    BY <1>1 DEF OpensOn
  <2> HIDE DEF d
  <2> QED BY <1>2, <1>4, <2>1, LentIs
<1> HIDE DEF c, d
<1>7. PICK s \in Nat : /\ Cutting(c, f, o, 0, L, s, d.hdr, "gc", TRUE, FALSE)
                       /\ L > 0 => s = DataSpan(L - 1)
  <2>1. PICK s \in Nat : /\ Cutting(S, f, o, 0, L, s, d.hdr, "none", FALSE, FALSE)
                         /\ L > 0 => s = DataSpan(L - 1)
    BY <1>5, <1>6, ShorteningIs
  <2> HIDE DEF L
  <2>2. Cutting(c, f, o, 0, L, s, d.hdr, "gc", TRUE, FALSE)
    BY <1>55, <2>1, CuttingSet
  <2> QED BY <2>1, <2>2
<1>8. L > 0
  <2>1. d.size \in Sizes
    BY <1>3, <1>4, <1>6, FindIs, IxFields DEF HSize
  <2> QED BY <1>1, <2>1, ObjectsAssumption DEF Bytes, Sizes, UNDEFINED_LEN
<1>9. CutKind(L, 0) = "clean"
  BY DEF CutKind
<1>10. Cutting(c, f, o, 0, L, s, fd'[f].hdr, "gc", TRUE, FALSE)
  BY <1>6, <1>7
<1> HIDE DEF L
<1>11. Core(flash, fd', c, file, view) /\ c # NoCall
  BY <1>2, <1>6, <1>7, <1>8, <1>9, <1>10, CutBegins
<1> QED BY <1>1, <1>11

LEMMA RemoveKeeps ==
  ASSUME NEW f, NEW o, f \in Fd, o \in Obj, Core(flash, fd, call, file, view), Remove(f, o)
  PROVE  Core(flash', fd', call', file, view) /\ call' # NoCall
<1> DEFINE d == IF fd[f].open THEN fd[f] ELSE Opened(flash, o, Find(flash, o, 0))
           L == Bytes(d.size)
           temp == ~fd[f].open
           c == [Shortening(f, o, d, 0) EXCEPT !.step = "run", !.full = TRUE, !.temp = temp]
<1>1. /\ call = NoCall /\ (IF fd[f].open THEN fd[f].obj = o ELSE Exists(o)) /\ call' = c
      /\ flash' = flash /\ SetFd(fd, f, d, fd')
  BY DEF Remove, Begin, Idle, SetFd
<1>2. Core(flash, fd, NoCall, file, view)
  BY <1>1
<1>3. FlashOK(flash) /\ FdOK(flash, fd) /\ Exist(flash, file) /\ SizesAre(flash, fd, file)
  BY <1>2, IdleIs
<1>4. PICK S : S = Shortening(f, o, d, 0)
  OBVIOUS
<1>45. CutSet(S, c, "run", temp, TRUE)
  <2> HIDE DEF d, temp
  <2> QED BY <1>4 DEF CutSet
<1> HIDE DEF c
<1>5. /\ FdOK(flash, fd') /\ fd'[f] = d /\ d \in Descriptors
      /\ L = Len(file[o].bytes) /\ Lends(fd, fd', f, o, temp, L) /\ temp \in BOOLEAN
  <2>1. CASE fd[f].open
    <3>1. d = fd[f] /\ d \in Descriptors /\ ~temp /\ d.open /\ d.obj = o
      BY <1>1, <1>3, <2>1 DEF FdOK
    <3>2. fd' = fd
      <4>1. fd \in [Fd -> Descriptors] /\ SetFd(fd, f, fd[f], fd')
        BY <1>1, <1>3, <3>1 DEF FdOK
      <4> QED BY <4>1 DEF SetFd
    <3>3. L = Len(file[o].bytes)
      BY <1>3, <3>1 DEF SizesAre
    <3> QED BY <1>3, <3>1, <3>2, <3>3 DEF Lends
  <2>2. CASE ~fd[f].open
    <3>1. OpensOn(flash, o, d) /\ temp = TRUE
      BY <2>2 DEF OpensOn
    <3>2. Find(flash, o, 0) # NoPage
      BY <1>1, <1>3, <2>2, ExistsIs
    <3>25. SetFd(fd, f, d, fd')
      BY <1>1
    <3> HIDE DEF d, temp, L
    <3>3. /\ FdOK(flash, fd') /\ fd'[f] = d /\ d \in Descriptors
          /\ L = Len(file[o].bytes) /\ Lends(fd, fd', f, o, TRUE, L)
      <4>0. OpensOn(flash, o, d) /\ ~fd[f].open /\ SetFd(fd, f, d, fd')
        BY <2>2, <3>1, <3>25
      <4>1. /\ FdOK(flash, fd') /\ fd'[f] = d /\ d \in Descriptors /\ d.size = HSize(flash, o)
            /\ Bytes(d.size) = Len(file[o].bytes) /\ Lends(fd, fd', f, o, TRUE, Bytes(d.size))
        <5> QED BY <1>2, <3>2, <4>0, LentIs
      <4> QED BY <4>1 DEF L
    <3> QED BY <3>1, <3>3
  <2> QED BY <2>1, <2>2
<1> HIDE DEF d, temp
<1>6. PICK s \in Nat : /\ Cutting(c, f, o, 0, L, s, d.hdr, "run", temp, TRUE)
                       /\ L > 0 => s = DataSpan(L - 1)
  <2>1. PICK s \in Nat : /\ Cutting(S, f, o, 0, L, s, d.hdr, "none", FALSE, FALSE)
                         /\ L > 0 => s = DataSpan(L - 1)
    BY <1>4, <1>5, ShorteningIs
  <2> HIDE DEF L
  <2>2. Cutting(c, f, o, 0, L, s, d.hdr, "run", temp, TRUE)
    BY <1>45, <2>1, CuttingSet
  <2> QED BY <2>1, <2>2
<1>7. Cutting(c, f, o, 0, L, s, fd'[f].hdr, "run", temp, TRUE)
  BY <1>5, <1>6
<1> HIDE DEF L
<1>8. Core(flash, fd', c, file, view) /\ c # NoCall
  BY <1>2, <1>5, <1>6, <1>7, CutBegins
<1> QED BY <1>1, <1>8

-----------------------------------------------------------------------------
(* A file is made, or is gone.                                             *)

LEMMA CreateFinishKeeps ==
  ASSUME Core(flash, fd, call, file, view), CreateFinish
  PROVE  call' = NoCall /\ Core(flash', fd', call', [file EXCEPT ![call.obj] = Promise!Holding(<<>>)], ViewsOf(fd'))
<1> DEFINE o == call.obj
           p == NextFree(flash)
           fl2 == Allocated(flash, IndexPage(o, 0))
           d == Opened(fl2, o, p)
           W == [file EXCEPT ![o] = Promise!Holding(<<>>)]
<1>1. /\ call.op = "create" /\ call.step = "run" /\ call' = NoCall /\ flash' = fl2
      /\ fd' = [fd EXCEPT ![call.fd] = d]
  BY StateIs DEF CreateFinish, Running, Return, Becomes
<1>2. /\ FlashOK(flash) /\ FdOK(flash, fd) /\ Exist(flash, file) /\ Layout(flash, call, file)
      /\ SizesAgree(flash, fd, call, file) /\ CallOK(flash, fd, call, file, view)
  BY CoreIs
<1>3. call # NoCall
  BY <1>1, NoCallIs
<1>4. call.fd \in Fd /\ o \in Obj /\ Creating(fd, call, file)
  BY <1>1, <1>2, <1>3, CallIs
<1>5. call.prev = -1 /\ ~call.full /\ ~file[o].exists
  BY <1>4 DEF Creating
<1> HIDE DEF o
<1>6. Find(flash, o, 0) = NoPage /\ file[o].bytes = <<>>
  BY <1>2, <1>4, <1>5 DEF Exist
<1>7. \E q \in Page : flash[q].kind = "free"
  BY DEF CreateFinish, Full
<1>8. Indexed(flash, fl2, o, 0, p, IndexPage(o, 0)) /\ p \in Page /\ p # NoPage /\ p \in Target
  BY <1>2, <1>4, <1>6, <1>7, IndexMadeIs, PageType DEF Target
<1>9. IndexPage(o, 0).size = UNDEFINED_LEN /\ \A s \in Entries(0) : IndexPage(o, 0).ix[s] = NoPage
  BY <1>4, NewIndexPage
<1> DEFINE img == IndexPage(o, 0)
<1> HIDE DEF fl2, p, d, img
<1>10. \A u \in Obj, k \in Nat : Find(fl2, u, k) = IF u = o /\ k = 0 THEN p ELSE Find(flash, u, k)
  BY <1>8 DEF Indexed
<1>11. FlashOK(fl2) /\ DataSame(flash, fl2)
  BY <1>8 DEF Indexed, DataSame
<1>12. /\ \A u \in Obj, s \in Spans :
            Ref(fl2, u, s) = IF u = o /\ IxSpan(s) = 0 THEN img.ix[s] ELSE Ref(flash, u, s)
       /\ \A u \in Obj : Find(fl2, u, 0) # NoPage =>
            HSize(fl2, u) = IF u = o THEN img.size ELSE HSize(flash, u)
  <2>1. Indexed(flash, fl2, o, 0, p, img) /\ 0 \in Nat
    BY <1>8 DEF img
  <2> QED BY <1>2, <1>4, <1>8, <2>1, IndexedRef
<1>13. \A f \in Fd : fd[f].open => fd[f].obj \in Obj /\ fd[f].obj # o
  BY <1>2, <1>6 DEF FdOK, Descriptors, Knows
<1>14. FdOK(fl2, fd)
  <2>1. ASSUME NEW f \in Fd, fd[f].open PROVE Knows(fl2, fd[f])
    <3>1. Knows(flash, fd[f]) /\ fd[f].cspan \in Nat
      BY <1>2, <2>1 DEF FdOK, Descriptors
    <3> QED BY <1>10, <1>13, <2>1, <3>1 DEF Knows
  <2> QED BY <1>2, <2>1 DEF FdOK
<1>15. d \in Descriptors /\ d.open /\ d.obj = o /\ d.size = UNDEFINED_LEN /\ d.pos = 0 /\ Knows(fl2, d)
  <2>1. Find(fl2, o, 0) = p
    BY <1>4, <1>10
  <2>2. d = Opened(fl2, o, Find(fl2, o, 0)) /\ Find(fl2, o, 0) # NoPage
    BY <1>8, <2>1 DEF d
  <2>3. HSize(fl2, o) = UNDEFINED_LEN
    BY <1>4, <1>9, <1>12, <2>2 DEF img
  <2> QED BY <1>4, <1>11, <2>2, <2>3, OpenedIs
<1>16. FdOK(fl2, fd') /\ fd'[call.fd] = d /\ \A g \in Fd : g # call.fd => fd'[g] = fd[g]
  <2>1. SetFd(fd, call.fd, d, fd')
    BY <1>1 DEF SetFd
  <2> QED BY <1>4, <1>14, <1>15, <2>1, FdSet
<1>17. /\ W \in [Obj -> FilesSet] /\ W[o].exists /\ W[o].bytes = <<>>
       /\ \A u \in Obj : u # o => W[u] = file[u]
  <2>1. Promise!Holding(<<>>) \in FilesSet /\ Promise!Holding(<<>>).exists /\ Promise!Holding(<<>>).bytes = <<>>
    BY DEF Promise!Holding, FilesSet
  <2> HIDE DEF W
  <2>2. PICK h : h = Promise!Holding(<<>>)
    OBVIOUS
  <2>3. W = [file EXCEPT ![o] = h] /\ file \in [Obj -> FilesSet]
    BY <1>2, <2>2 DEF Exist, W
  <2>4. W \in [Obj -> FilesSet] /\ W[o] = h /\ \A u \in Obj : u # o => W[u] = file[u]
    BY <1>4, <2>1, <2>2, <2>3
  <2> QED BY <2>1, <2>2, <2>4
<1> HIDE DEF W
<1>18. \A u \in Obj : W[u].bytes = file[u].bytes
  BY <1>6, <1>17
<1>19. Exist(fl2, W)
  <2>1. ASSUME NEW u \in Obj
        PROVE  /\ W[u].exists <=> Find(fl2, u, 0) # NoPage
               /\ ~W[u].exists => W[u].bytes = <<>>
               /\ Len(W[u].bytes) <= MaxSize
    <3>1. Len(W[u].bytes) <= MaxSize
      BY <1>2, <1>18 DEF Exist
    <3>2. CASE u = o
      BY <1>8, <1>10, <1>17, <3>1, <3>2
    <3>3. CASE u # o
      BY <1>2, <1>10, <1>17, <3>1, <3>3 DEF Exist
    <3> QED BY <3>2, <3>3
  <2> QED BY <1>17, <2>1 DEF Exist
<1>20. \A u \in Obj : Current(NoCall, W, u) = W[u].bytes /\ Current(call, file, u) = file[u].bytes
  BY <1>1, CurrentOut, NoCallIs
<1>21. Layout(fl2, NoCall, W)
  <2>1. ASSUME NEW u \in Obj, NEW s \in Spans PROVE Table(fl2, NoCall, u)[s] = Table(flash, call, u)[s]
    <3>1. Table(fl2, NoCall, u)[s] = Ref(fl2, u, s) /\ Table(flash, call, u)[s] = Ref(flash, u, s)
      BY <1>5, NoCallIs, TableOut
    <3>2. CASE u = o /\ IxSpan(s) = 0
      <4>1. Ref(flash, u, s) = NoPage
        BY <1>6, <3>2 DEF Ref
      <4>2. s \in Entries(0)
        BY <3>2 DEF Entries
      <4> QED BY <1>9, <1>12, <3>1, <3>2, <4>1, <4>2 DEF img
    <3>3. CASE ~(u = o /\ IxSpan(s) = 0)
      BY <1>12, <3>1, <3>3
    <3> QED BY <3>2, <3>3
  <2>2. ASSUME NEW u \in Obj, NEW k \in Nat, Find(fl2, u, k) # NoPage PROVE Bounded(NoCall, W, u, k)
    <3>1. CASE k = 0
      BY <3>1 DEF Bounded
    <3>2. CASE k # 0
      <4>1. Bounded(call, file, u, k) /\ k # call.prev
        BY <1>2, <1>5, <1>10, <2>2, <3>2 DEF Layout
      <4> QED BY <1>18, <1>20, <3>2, <4>1 DEF Bounded
    <3> QED BY <3>1, <3>2
  <2>3. \A u \in Obj : Current(NoCall, W, u) = Current(call, file, u)
    BY <1>18, <1>20
  <2> QED BY <1>2, <1>11, <2>1, <2>2, <2>3, LayoutKept
<1>22. SizesAre(fl2, fd', W)
  <2>0. \A u : ~Changing(call, u)
    BY <1>1 DEF Changing
  <2>1. ASSUME NEW u \in Obj, W[u].exists PROVE Bytes(HSize(fl2, u)) = Len(W[u].bytes)
    <3>1. Find(fl2, u, 0) # NoPage
      BY <1>19, <2>1 DEF Exist
    <3>2. CASE u = o
      BY <1>9, <1>12, <1>17, <3>1, <3>2 DEF img, Bytes
    <3>3. CASE u # o
      <4>1. file[u].exists /\ HSize(fl2, u) = HSize(flash, u)
        BY <1>12, <1>17, <2>1, <3>1, <3>3
      <4> QED BY <1>2, <1>18, <1>20, <2>0, <4>1 DEF SizesAgree
    <3> QED BY <3>2, <3>3
  <2>2. ASSUME NEW f \in Fd, fd'[f].open
        PROVE  /\ Bytes(fd'[f].size) = Len(W[fd'[f].obj].bytes) /\ fd'[f].pos <= Len(W[fd'[f].obj].bytes)
    <3>1. CASE f = call.fd
      BY <1>15, <1>16, <1>17, <3>1 DEF Bytes
    <3>2. CASE f # call.fd
      <4>1. fd'[f] = fd[f] /\ fd[f].open /\ fd[f].obj \in Obj
        BY <1>13, <1>16, <2>2, <3>2
      <4>2. PICK u \in Obj : u = fd[f].obj
        BY <4>1
      <4>3. file[u].exists
        BY <1>2, <4>1, <4>2 DEF FdOK, Knows, Exist
      <4>4. Bytes(fd[f].size) = Len(file[u].bytes)
        BY <1>2, <1>20, <2>0, <4>1, <4>2, <4>3 DEF SizesAgree
      <4>5. fd[f].pos <= Len(file[u].bytes)
        BY <2>0, <4>1, <4>2, PosWithin
      <4> QED BY <1>18, <4>1, <4>2, <4>4, <4>5
    <3> QED BY <3>1, <3>2
  <2> QED BY <2>1, <2>2 DEF SizesAre
<1>23. Core(fl2, fd', NoCall, W, ViewsOf(fd'))
  BY <1>11, <1>16, <1>19, <1>21, <1>22, Idles
<1> QED BY <1>1, <1>23 DEF W, o
LEMMA RemoveFinishKeeps ==
  ASSUME Core(flash, fd, call, file, view), RemoveFinish
  PROVE  call' = NoCall /\ Core(flash', fd', call', [file EXCEPT ![call.obj] = Promise!NoFile], ViewsOf(fd'))
<1> DEFINE o == call.obj
           fl2 == Without(flash, call.pix)
           fds2 == Event(fd, "DEL", o, 0, call.pix, 0)
           W == [file EXCEPT ![o] = Promise!NoFile]
<1>1. /\ call.op = "truncate" /\ call.step = "run" /\ call.full /\ call.cur <= call.new
      /\ call' = NoCall /\ flash' = fl2 /\ fd' = fds2
  BY StateIs DEF RemoveFinish, AtCut, Running, Return, Becomes
<1>2. /\ FlashOK(flash) /\ FdOK(flash, fd) /\ Exist(flash, file) /\ Layout(flash, call, file)
      /\ SizesAgree(flash, fd, call, file) /\ CallOK(flash, fd, call, file, view)
  BY CoreIs
<1>3. call # NoCall
  BY <1>1, NoCallIs
<1>4. /\ o \in Obj /\ call.cur \in Nat /\ call.new \in Nat /\ call.cur <= Len(file[o].bytes)
      /\ call.new <= call.cur /\ Shortens(flash, fd, call, file, view)
  BY <1>1, CutPlace
<1>5. call.cur = 0 /\ call.new = 0
  BY <1>1, <1>4 DEF Shortens
<1>6. call.prev = -1 \/ call.prev = 0
  <2>1. IxSpan(DataSpan(0)) = 0
    BY SpanIs, FirstType, IxSpanOfFirst, ObjectsAssumption
  <2> QED BY <1>4, <1>5, <2>1 DEF Shortens
<1>7. call.pix = Find(flash, o, 0) /\ Find(flash, o, 0) # NoPage
  <2>1. call.prev = -1 \/ HoldsWork(flash, call)
    BY <1>2, <1>3, CallIs
  <2>2. call.prev = -1 => call.pix = Find(flash, o, 0)
    BY <1>1, <1>2, <1>3 DEF CallOK
  <2>3. call.prev = 0 => call.pix = Find(flash, o, 0)
    BY <2>1 DEF HoldsWork
  <2> QED BY <1>1, <1>3, <1>6, <2>2, <2>3, CallsFd
<1> HIDE DEF o
<1>8. Indexed(flash, fl2, o, 0, NoPage, FreePage)
  BY <1>2, <1>4, <1>7, IndexGoneIs
<1> HIDE DEF fl2, fds2
<1>9. \A u \in Obj, k \in Nat : Find(fl2, u, k) = IF u = o /\ k = 0 THEN NoPage ELSE Find(flash, u, k)
  BY <1>8 DEF Indexed
<1>10. FlashOK(fl2) /\ DataSame(flash, fl2)
  BY <1>8 DEF Indexed, DataSame
<1>11. /\ \A u \in Obj, s \in Spans :
            Ref(fl2, u, s) = IF u = o /\ IxSpan(s) = 0 THEN NoPage ELSE Ref(flash, u, s)
       /\ \A u \in Obj : u # o /\ Find(flash, u, 0) # NoPage => HSize(fl2, u) = HSize(flash, u)
  <2>1. NoPage \in Target
    BY DEF Target
  <2>2. /\ \A u \in Obj, s \in Spans :
            Ref(fl2, u, s) = IF u = o /\ IxSpan(s) = 0
                             THEN IF NoPage = NoPage THEN NoPage ELSE FreePage.ix[s] ELSE Ref(flash, u, s)
        /\ \A u \in Obj : Find(fl2, u, 0) # NoPage =>
             HSize(fl2, u) = IF u = o /\ 0 = 0 THEN FreePage.size ELSE HSize(flash, u)
    BY <1>2, <1>4, <1>8, <2>1, IndexedRef
  <2> QED BY <1>9, <2>2
<1>12. \A f \in Fd : fds2[f] = IF fd[f].open /\ fd[f].obj = o THEN Closed ELSE fd[f]
  BY DEF fds2, Event, Told
<1>13. FdOK(fl2, fds2)
  <2>1. fds2 \in [Fd -> Descriptors]
    <3>1. \A f \in Fd : fds2[f] \in Descriptors
      BY <1>2, <1>12, ClosedIs DEF FdOK
    <3>2. \E g : fds2 = [f \in Fd |-> g[f]]
      <4>1. fds2 = [f \in Fd |-> fds2[f]]
        BY DEF fds2, Event
      <4> QED BY <4>1
    <3> QED BY <3>1, <3>2
  <2>2. ASSUME NEW f \in Fd, fds2[f].open PROVE Knows(fl2, fds2[f])
    <3>1. fds2[f] = fd[f] /\ fd[f].open /\ fd[f].obj # o
      BY <1>12, <2>2, ClosedIs
    <3>2. Knows(flash, fd[f]) /\ fd[f].cspan \in Nat /\ fd[f].obj \in Obj
      BY <1>2, <3>1 DEF FdOK, Descriptors
    <3> QED BY <1>9, <3>1, <3>2 DEF Knows
  <2> QED BY <2>1, <2>2 DEF FdOK
<1>14. /\ W \in [Obj -> FilesSet] /\ ~W[o].exists /\ W[o].bytes = <<>>
       /\ \A u \in Obj : u # o => W[u] = file[u]
  <2>1. Promise!NoFile \in FilesSet /\ ~Promise!NoFile.exists /\ Promise!NoFile.bytes = <<>>
    BY DEF Promise!NoFile, FilesSet
  <2> HIDE DEF W
  <2>2. PICK h : h = Promise!NoFile
    OBVIOUS
  <2>3. W = [file EXCEPT ![o] = h] /\ file \in [Obj -> FilesSet]
    BY <1>2, <2>2 DEF Exist, W
  <2>4. W \in [Obj -> FilesSet] /\ W[o] = h /\ \A u \in Obj : u # o => W[u] = file[u]
    BY <1>4, <2>1, <2>2, <2>3
  <2> QED BY <2>1, <2>2, <2>4
<1> HIDE DEF W
<1>15. Exist(fl2, W)
  <2>1. ASSUME NEW u \in Obj
        PROVE  /\ W[u].exists <=> Find(fl2, u, 0) # NoPage
               /\ ~W[u].exists => W[u].bytes = <<>>
               /\ Len(W[u].bytes) <= MaxSize
    <3>1. CASE u = o
      BY <1>4, <1>9, <1>14, <3>1, ObjectsAssumption
    <3>2. CASE u # o
      BY <1>2, <1>9, <1>14, <3>2 DEF Exist
    <3> QED BY <3>1, <3>2
  <2> QED BY <1>14, <2>1 DEF Exist
<1>16. \A u \in Obj : /\ Current(NoCall, W, u) = W[u].bytes
                      /\ u # o => Current(call, file, u) = file[u].bytes
  BY CurrentOut, NoCallIs DEF o
<1>17. Current(call, file, o) = <<>>
  <2>1. Current(call, file, o) \in Seq(Val) /\ Len(Current(call, file, o)) = 0
    BY <1>1, <1>4, <1>5, CurrentIs DEF o
  <2> QED BY <2>1, EmptySeq
<1>18. \A u \in Obj : Current(NoCall, W, u) = Current(call, file, u)
  BY <1>14, <1>16, <1>17
<1>19. Layout(fl2, NoCall, W)
  <2>1. ASSUME NEW u \in Obj, NEW s \in Spans PROVE Table(fl2, NoCall, u)[s] = Table(flash, call, u)[s]
    <3>1. Table(fl2, NoCall, u)[s] = Ref(fl2, u, s)
      BY NoCallIs, TableOut
    <3>2. CASE u # o
      <4>1. Table(flash, call, u)[s] = Ref(flash, u, s)
        BY <3>2, TableOut DEF o
      <4> QED BY <1>11, <3>1, <3>2, <4>1
    <3>3. CASE u = o
      <4>1. s \in Nat /\ First(s) \in Nat /\ ~(First(s) < 0)
        BY SpansType, FirstType
      <4>2. Laid(flash, Table(flash, call, o), o, <<>>)
        BY <1>2, <1>4, <1>17 DEF Layout
      <4>3. Table(flash, call, o)[s] = NoPage
        BY <4>1, <4>2 DEF Laid
      <4>4. CASE IxSpan(s) = 0
        BY <1>4, <1>11, <3>1, <3>3, <4>3, <4>4
      <4>5. CASE IxSpan(s) # 0
        <5>1. IxSpan(s) \in Nat
          BY <4>1, IxSpanType
        <5>2. Table(flash, call, o)[s] = Ref(flash, o, s)
          BY <1>6, <4>5, <5>1, TableType
        <5> QED BY <1>11, <3>1, <3>3, <4>3, <4>5, <5>2
      <4> QED BY <4>4, <4>5
    <3> QED BY <3>2, <3>3
  <2>2. ASSUME NEW u \in Obj, NEW k \in Nat, Find(fl2, u, k) # NoPage PROVE Bounded(NoCall, W, u, k)
    <3>1. CASE k = 0
      BY <3>1 DEF Bounded
    <3>2. CASE k # 0
      <4>1. Bounded(call, file, u, k)
        BY <1>2, <1>9, <2>2, <3>2 DEF Layout
      <4>2. k # call.prev
        BY <1>6, <3>2
      <4> QED BY <1>18, <3>2, <4>1, <4>2 DEF Bounded
    <3> QED BY <3>1, <3>2
  <2> QED BY <1>2, <1>10, <1>18, <2>1, <2>2, LayoutKept
<1>20. SizesAre(fl2, fds2, W)
  <2>0. \A u : u # o => ~Changing(call, u)
    BY DEF Changing, o
  <2>1. ASSUME NEW u \in Obj, W[u].exists PROVE Bytes(HSize(fl2, u)) = Len(W[u].bytes)
    <3>1. u # o
      BY <1>14, <2>1
    <3>2. file[u].exists /\ W[u] = file[u]
      BY <1>14, <2>1, <3>1
    <3>3. HSize(fl2, u) = HSize(flash, u)
      BY <1>2, <1>11, <3>1, <3>2 DEF Exist
    <3>4. Bytes(HSize(flash, u)) = Len(Current(call, file, u))
      BY <1>2, <2>0, <3>1, <3>2 DEF SizesAgree
    <3> QED BY <1>16, <3>1, <3>2, <3>3, <3>4
  <2>2. ASSUME NEW f \in Fd, fds2[f].open
        PROVE  /\ Bytes(fds2[f].size) = Len(W[fds2[f].obj].bytes) /\ fds2[f].pos <= Len(W[fds2[f].obj].bytes)
    <3>1. fds2[f] = fd[f] /\ fd[f].open /\ fd[f].obj # o
      BY <1>12, <2>2, ClosedIs
    <3>2. fd[f].obj \in Obj /\ Knows(flash, fd[f])
      BY <1>2, <3>1 DEF FdOK, Descriptors
    <3>3. PICK u \in Obj : u = fd[f].obj
      BY <3>2
    <3>4. file[u].exists
      BY <1>2, <3>2, <3>3 DEF Knows, Exist
    <3>5. Bytes(fd[f].size) = Len(Current(call, file, u))
      BY <1>2, <2>0, <3>1, <3>3, <3>4 DEF SizesAgree
    <3>6. fd[f].pos <= Len(file[u].bytes)
      BY <2>0, <3>1, <3>3, PosWithin
    <3> QED BY <1>14, <1>16, <3>1, <3>3, <3>5, <3>6
  <2> QED BY <2>1, <2>2 DEF SizesAre
<1>21. Core(fl2, fds2, NoCall, W, ViewsOf(fds2))
  BY <1>10, <1>13, <1>15, <1>19, <1>20, Idles
<1> QED BY <1>1, <1>21 DEF W, o

-----------------------------------------------------------------------------
(* The index page in hand is stored.                                       *)

Stored(fl, fl2, c) ==
  FlashOK(fl2) /\ FoundSame(fl, fl2) /\ DataSame(fl, fl2) /\ RefIsTable(fl, fl2, c)

(* The header of file o has size n, all others are as they were.           *)
Heads(fl, fl2, o, n) ==
  \A u \in Obj : Find(fl, u, 0) # NoPage => HSize(fl2, u) = IF u = o THEN n ELSE HSize(fl, u)

LEMMA StoredIs ==
  ASSUME NEW fl, NEW fl2, NEW c, NEW n, NEW x, FlashOK(fl), n \in Page, c.obj \in Obj,
         c.prev \in Nat, Find(fl, c.obj, c.prev) # NoPage,
         Indexed(fl, fl2, c.obj, c.prev, n, x), x.ix = c.work.ix
  PROVE  /\ Stored(fl, fl2, c)
         /\ IF c.prev = 0 THEN Heads(fl, fl2, c.obj, x.size) ELSE HeadsSame(fl, fl2)
<1> DEFINE o == c.obj
           k == c.prev
<1> HIDE DEF o, k
<1>1. n # NoPage /\ n \in Target /\ o \in Obj /\ k \in Nat /\ Find(fl, o, k) # NoPage
  BY PageType DEF Target, o, k
<1>2. Indexed(fl, fl2, o, k, n, x)
  BY DEF o, k
<1>3. \A u \in Obj, j \in Nat : Find(fl2, u, j) = IF u = o /\ j = k THEN n ELSE Find(fl, u, j)
  BY <1>2 DEF Indexed
<1>4. FlashOK(fl2) /\ DataSame(fl, fl2)
  BY <1>2 DEF Indexed, DataSame
<1>5. FoundSame(fl, fl2)
  BY <1>1, <1>3 DEF FoundSame
<1>6. RefIsTable(fl, fl2, c)
  <2>1. \A u \in Obj, s \in Spans : Ref(fl2, u, s) = Table(fl, c, u)[s]
    BY <1>1, TableStored DEF o, k
  <2> QED BY <2>1 DEF RefIsTable
<1>7. \A u \in Obj : Find(fl2, u, 0) # NoPage =>
              HSize(fl2, u) = IF u = o /\ k = 0 THEN x.size ELSE HSize(fl, u)
  BY <1>1, <1>2, IndexedRef
<1>8. \A u \in Obj : Find(fl, u, 0) # NoPage =>
              HSize(fl2, u) = IF u = o /\ k = 0 THEN x.size ELSE HSize(fl, u)
  BY <1>5, <1>7 DEF FoundSame
<1> QED BY <1>4, <1>5, <1>6, <1>8 DEF Stored, Heads, HeadsSame, o, k

(* An index page other than the header is written again in its place.      *)
LEMMA StoreWritten ==
  ASSUME NEW fl, NEW fds, NEW c, NEW st, FlashOK(fl), FdOK(fl, fds), HoldsWork(fl, c),
         c.obj \in Obj, c.prev > 0, c.work.size = fl[c.pix].size,
         \A s \in Entries(c.prev) : fl[c.pix].ix[s] \in {NoPage, c.work.ix[s]},
         st = IndexProgrammed(State(fl, fds), c.obj, c.pix, c.work)
  PROVE  /\ Stored(fl, st.flash, c) /\ HeadsSame(fl, st.flash) /\ FdOK(st.flash, st.fd)
         /\ Resized(fds, st.fd, c.obj, 0) /\ Spare(fl, st.flash, NoPage)
         /\ st = State(st.flash, st.fd)
<1> DEFINE o == c.obj
           k == c.prev
           x == c.work
           p == Find(fl, o, k)
           fl2 == Programmed(fl, p, x)
           fds2 == Event(fds, "UPD", o, k, p, 0)
<1>1. k \in Nat /\ k # 0 /\ c.pix = p /\ p # NoPage /\ x \in IxPages /\ x.obj = o /\ x.span = k
  BY DEF HoldsWork
<1>2. p \in Page /\ fl[p] \in IxPages
  BY <1>1, FindIs
<1> HIDE DEF o, k, x, p
<1>3. x.size = fl[p].size /\ \A s \in Entries(k) : fl[p].ix[s] \in {NoPage, x.ix[s]}
  BY <1>1 DEF o, k, x, p
<1>4. st = State(fl2, fds2)
  BY <1>1, StateIs DEF IndexProgrammed, o, k, x, p
<1>5. st.flash = fl2 /\ st.fd = fds2
  BY <1>4, StateIs
<1>6. o \in Obj /\ 0 \in 0 .. UNDEFINED_LEN
  BY SizesType DEF o
<1>7. PICK f2, d2 : f2 = fl2 /\ d2 = fds2
  OBVIOUS
<1>8. /\ Indexed(fl, f2, o, k, p, x) /\ FlashOK(f2) /\ FdOK(f2, d2)
      /\ Resized(fds, d2, o, IF k = 0 THEN 0 ELSE 0) /\ Spare(fl, f2, NoPage)
  <2>1. p = Find(fl, o, k)
    BY DEF p
  <2>2. f2 = Programmed(fl, Find(fl, o, k), x) /\ d2 = Event(fds, "UPD", o, k, Find(fl, o, k), 0)
    BY <1>7, <2>1
  <2>3. fl[Find(fl, o, k)].size \in {UNDEFINED_LEN, x.size} /\ Find(fl, o, k) # NoPage
        /\ \A s \in Entries(k) : fl[Find(fl, o, k)].ix[s] \in {NoPage, x.ix[s]}
    BY <1>1, <1>3, <2>1
  <2>4. Indexed(fl, f2, o, k, Find(fl, o, k), x) /\ FlashOK(f2) /\ FdOK(f2, d2)
      /\ Resized(fds, d2, o, IF k = 0 THEN 0 ELSE 0) /\ Spare(fl, f2, NoPage)
    BY <1>1, <1>6, <2>2, <2>3, IndexPageWrittenIs
  <2> QED BY <2>1, <2>4
<1>9. Stored(fl, f2, c) /\ HeadsSame(fl, f2)
  <2>1. Indexed(fl, f2, c.obj, c.prev, p, x) /\ x.ix = c.work.ix /\ c.prev \in Nat /\ c.prev # 0
        /\ Find(fl, c.obj, c.prev) # NoPage
    BY <1>1, <1>8 DEF o, k, x, p
  <2> QED BY <1>2, <2>1, StoredIs
<1> QED BY <1>4, <1>5, <1>7, <1>8, <1>9 DEF o

LEMMA StoreMoved ==
  ASSUME NEW fl, NEW fds, NEW c, NEW st, FlashOK(fl), FdOK(fl, fds), HoldsWork(fl, c),
         c.obj \in Obj, c.prev > 0, \E p \in Page : fl[p].kind = "free",
         st = IndexMoved(State(fl, fds), c.obj, c.pix, c.work)
  PROVE  /\ Stored(fl, st.flash, c) /\ HeadsSame(fl, st.flash) /\ FdOK(st.flash, st.fd)
         /\ Resized(fds, st.fd, c.obj, 0) /\ Spare(fl, st.flash, NextFree(fl))
         /\ st = State(st.flash, st.fd)
<1> DEFINE o == c.obj
           k == c.prev
           x == c.work
<1>1. k \in Nat /\ k # 0 /\ c.pix = Find(fl, o, k) /\ Find(fl, o, k) # NoPage /\ x \in IxPages
      /\ x.obj = o /\ x.span = k
  BY DEF HoldsWork
<1> HIDE DEF o, k, x
<1>2. o \in Obj /\ st = IndexMoved(State(fl, fds), o, Find(fl, o, k), x)
  BY <1>1 DEF o, k, x
<1>3. /\ Indexed(fl, st.flash, o, k, NextFree(fl), x) /\ NextFree(fl) \in Page
      /\ FlashOK(st.flash) /\ FdOK(st.flash, st.fd) /\ Resized(fds, st.fd, o, 0)
      /\ Spare(fl, st.flash, NextFree(fl)) /\ st = State(st.flash, st.fd)
  BY <1>1, <1>2, IndexPageMovedIs
<1>4. PICK f2 : f2 = st.flash
  OBVIOUS
<1>5. Stored(fl, f2, c) /\ HeadsSame(fl, f2)
  <2>1. Indexed(fl, f2, c.obj, c.prev, NextFree(fl), x) /\ x.ix = c.work.ix /\ c.prev \in Nat /\ c.prev # 0
        /\ Find(fl, c.obj, c.prev) # NoPage
    BY <1>1, <1>3, <1>4 DEF o, k, x
  <2> QED BY <1>3, <2>1, StoredIs
<1> QED BY <1>3, <1>4, <1>5 DEF o

(* The header is written anew with what is in hand.                        *)
LEMMA StoreHeader ==
  ASSUME NEW fl, NEW fds, NEW c, NEW st, FlashOK(fl), FdOK(fl, fds), HoldsWork(fl, c),
         c.obj \in Obj, c.prev = 0, \E p \in Page : fl[p].kind = "free",
         st = HeaderMoved(State(fl, fds), c.obj, Find(fl, c.obj, 0), c.work)
  PROVE  /\ Stored(fl, st.flash, c) /\ Heads(fl, st.flash, c.obj, c.work.size)
         /\ FdOK(st.flash, st.fd) /\ Resized(fds, st.fd, c.obj, c.work.size)
         /\ Spare(fl, st.flash, NextFree(fl)) /\ st = State(st.flash, st.fd)
<1> DEFINE o == c.obj
           x == c.work
<1>1. Find(fl, o, 0) # NoPage /\ x \in IxPages /\ x.obj = o /\ x.span = 0
  BY DEF HoldsWork
<1> HIDE DEF o, x
<1>2. o \in Obj /\ st = HeaderMoved(State(fl, fds), o, Find(fl, o, 0), x)
  BY DEF o, x
<1>3. /\ Indexed(fl, st.flash, o, 0, NextFree(fl), x) /\ NextFree(fl) \in Page
      /\ FlashOK(st.flash) /\ FdOK(st.flash, st.fd) /\ Resized(fds, st.fd, o, x.size)
      /\ Spare(fl, st.flash, NextFree(fl)) /\ st = State(st.flash, st.fd)
  BY <1>1, <1>2, HeaderMovedIs
<1>4. PICK f2 : f2 = st.flash
  OBVIOUS
<1>5. Stored(fl, f2, c) /\ Heads(fl, f2, c.obj, x.size)
  <2>1. Indexed(fl, f2, c.obj, c.prev, NextFree(fl), x) /\ x.ix = c.work.ix /\ c.prev \in Nat
        /\ Find(fl, c.obj, c.prev) # NoPage
    BY <1>1, <1>3, <1>4 DEF o, x
  <2> QED BY <1>3, <2>1, StoredIs
<1> QED BY <1>3, <1>4, <1>5 DEF o, x

(* The header of an empty file is written over.                            *)
LEMMA StoreFirst ==
  ASSUME NEW fl, NEW fds, NEW c, NEW size, NEW fl2, NEW fds2, FlashOK(fl), FdOK(fl, fds),
         HoldsWork(fl, c), c.obj \in Obj, c.prev = 0, size \in 0 .. UNDEFINED_LEN,
         HSize(fl, c.obj) = UNDEFINED_LEN,
         \A s \in Entries(0) : fl[c.pix].ix[s] \in {NoPage, c.work.ix[s]},
         fl2 = Programmed(fl, c.pix, c.work), fds2 = Event(fds, "UPD", c.obj, 0, c.pix, size)
  PROVE  /\ Stored(fl, fl2, c) /\ Heads(fl, fl2, c.obj, c.work.size)
         /\ FdOK(fl2, fds2) /\ Resized(fds, fds2, c.obj, size) /\ FdOK(fl2, fds)
         /\ Spare(fl, fl2, NoPage)
<1> DEFINE o == c.obj
           x == c.work
           p == Find(fl, o, 0)
<1>1. c.pix = p /\ p # NoPage /\ x \in IxPages /\ x.obj = o /\ x.span = 0
  BY DEF HoldsWork
<1>2. p \in Page /\ fl[p] \in IxPages
  BY <1>1, FindIs
<1>3. fl[p].size = UNDEFINED_LEN
  BY DEF HSize
<1> HIDE DEF o, x, p
<1>4. /\ o \in Obj /\ 0 \in Nat /\ Find(fl, o, 0) # NoPage
      /\ fl[Find(fl, o, 0)].size \in {UNDEFINED_LEN, x.size}
      /\ \A s \in Entries(0) : fl[Find(fl, o, 0)].ix[s] \in {NoPage, x.ix[s]}
      /\ fl2 = Programmed(fl, Find(fl, o, 0), x) /\ fds2 = Event(fds, "UPD", o, 0, Find(fl, o, 0), size)
  BY <1>1, <1>3 DEF o, x, p
<1>5. /\ Indexed(fl, fl2, o, 0, Find(fl, o, 0), x) /\ FlashOK(fl2) /\ FdOK(fl2, fds2)
      /\ Resized(fds, fds2, o, IF 0 = 0 THEN size ELSE 0) /\ FdOK(fl2, fds) /\ Spare(fl, fl2, NoPage)
  <2> QED BY <1>1, <1>4, IndexPageWrittenIs
<1>6. Stored(fl, fl2, c) /\ Heads(fl, fl2, c.obj, x.size)
  <2>1. Indexed(fl, fl2, c.obj, c.prev, p, x) /\ x.ix = c.work.ix /\ c.prev \in Nat
        /\ Find(fl, c.obj, c.prev) # NoPage
    BY <1>1, <1>5 DEF o, x, p
  <2> QED BY <1>2, <2>1, StoredIs
<1> QED BY <1>5, <1>6 DEF o, x

(* The header is written anew with another size.                           *)
SizedOnly(fl, fl2, o, n) ==
  FlashOK(fl2) /\ FoundSame(fl, fl2) /\ DataSame(fl, fl2) /\ RefSame(fl, fl2) /\ Heads(fl, fl2, o, n)

LEMMA SizedIs ==
  ASSUME NEW fl, NEW fds, NEW o, NEW size, NEW st, FlashOK(fl), FdOK(fl, fds), o \in Obj,
         Find(fl, o, 0) # NoPage, size \in Sizes, \E p \in Page : fl[p].kind = "free",
         st = HeaderMoved(State(fl, fds), o, Find(fl, o, 0), [fl[Find(fl, o, 0)] EXCEPT !.size = size])
  PROVE  /\ SizedOnly(fl, st.flash, o, size) /\ FdOK(st.flash, st.fd)
         /\ Resized(fds, st.fd, o, size) /\ Spare(fl, st.flash, NextFree(fl))
         /\ st = State(st.flash, st.fd)
<1> DEFINE p == Find(fl, o, 0)
<1>1. p \in Page /\ fl[p] \in IxPages /\ fl[p].obj = o /\ fl[p].span = 0
  BY FindIs
<1> HIDE DEF p
<1>2. PICK x : x = [fl[p] EXCEPT !.size = size]
  OBVIOUS
<1>3. x \in IxPages
  BY <1>1, <1>2, IxFields
<1>4. x.obj = o /\ x.span = 0 /\ x.ix = fl[p].ix /\ x.size = size
  <2>1. fl[p] \in [kind : {"index"}, obj : Obj, span : Nat, size : Sizes, ix : References]
    BY <1>1 DEF IxPages
  <2> QED BY <1>1, <1>2, <2>1
<1>5. st = HeaderMoved(State(fl, fds), o, Find(fl, o, 0), x)
  BY <1>2 DEF p
<1>6. /\ Indexed(fl, st.flash, o, 0, NextFree(fl), x) /\ NextFree(fl) \in Page
      /\ FlashOK(st.flash) /\ FdOK(st.flash, st.fd) /\ Resized(fds, st.fd, o, x.size)
      /\ Spare(fl, st.flash, NextFree(fl)) /\ st = State(st.flash, st.fd)
  BY <1>3, <1>4, <1>5, HeaderMovedIs
<1>7. PICK f2, n : f2 = st.flash /\ n = NextFree(fl)
  OBVIOUS
<1>8. Indexed(fl, f2, o, 0, n, x) /\ n # NoPage /\ n \in Target /\ FlashOK(f2)
  BY <1>6, <1>7, PageType DEF Target
<1>9. \A u \in Obj, j \in Nat : Find(f2, u, j) = IF u = o /\ j = 0 THEN n ELSE Find(fl, u, j)
  BY <1>8 DEF Indexed
<1>10. FoundSame(fl, f2)
  BY <1>8, <1>9 DEF FoundSame
<1>11. DataSame(fl, f2)
  BY <1>8 DEF Indexed, DataSame
<1>12. /\ \A u \in Obj, s \in Spans :
            Ref(f2, u, s) = IF u = o /\ IxSpan(s) = 0
                               THEN IF n = NoPage THEN NoPage ELSE x.ix[s]
                               ELSE Ref(fl, u, s)
       /\ \A u \in Obj : Find(f2, u, 0) # NoPage =>
              HSize(f2, u) = IF u = o /\ 0 = 0 THEN x.size ELSE HSize(fl, u)
  <2>1. 0 \in Nat
    OBVIOUS
  <2> QED BY <1>8, <2>1, IndexedRef
<1>13. RefSame(fl, f2)
  <2>1. \A s \in Spans : IxSpan(s) = 0 => Ref(fl, o, s) = fl[p].ix[s]
    BY DEF Ref, p
  <2> QED BY <1>4, <1>8, <1>12, <2>1 DEF RefSame
<1>14. Heads(fl, f2, o, size)
  BY <1>4, <1>10, <1>12 DEF Heads, FoundSame
<1> QED BY <1>4, <1>6, <1>7, <1>8, <1>10, <1>11, <1>13, <1>14 DEF SizedOnly

(* The same by spiffs_object_update_index_hdr with a descriptor.           *)
LEMMA HeaderSizedIs ==
  ASSUME NEW fl, NEW fds, NEW size, NEW st, FlashOK(fl), FdOK(fl, fds), call.obj \in Obj,
         call.fd \in Fd, fds[call.fd].open, fds[call.fd].obj = call.obj,
         size \in Sizes, \E p \in Page : fl[p].kind = "free",
         st = HeaderSized(State(fl, fds), size)
  PROVE  /\ SizedOnly(fl, st.flash, call.obj, size) /\ FdOK(st.flash, st.fd)
         /\ Resized(fds, st.fd, call.obj, size) /\ Spare(fl, st.flash, NextFree(fl))
         /\ st = State(st.flash, st.fd)
<1>1. fds[call.fd].hdr = Find(fl, call.obj, 0) /\ Find(fl, call.obj, 0) # NoPage
  BY DEF FdOK, Knows
<1>2. PICK o \in Obj : o = call.obj
  OBVIOUS
<1>3. st = HeaderMoved(State(fl, fds), o, Find(fl, o, 0), [fl[Find(fl, o, 0)] EXCEPT !.size = size])
  BY <1>1, <1>2, StateIs DEF HeaderSized
<1>4. Find(fl, o, 0) # NoPage
  BY <1>1, <1>2
<1>5. /\ SizedOnly(fl, st.flash, o, size) /\ FdOK(st.flash, st.fd)
      /\ Resized(fds, st.fd, o, size) /\ Spare(fl, st.flash, NextFree(fl))
      /\ st = State(st.flash, st.fd)
  BY <1>3, <1>4, SizedIs
<1> QED BY <1>2, <1>5

-----------------------------------------------------------------------------
(* An index page is read into fs->work.                                    *)

Loaded(c, c2, k, p, x) == c2 = [c EXCEPT !.prev = k, !.pix = p, !.work = x]

LEMMA LoadedIs ==
  ASSUME NEW c, NEW c2, NEW k, NEW p, NEW x, c \in Locals, k \in Nat, p \in Target, x \in Pages,
         Loaded(c, c2, k, p, x)
  PROVE  /\ c2 \in Locals /\ LikeCall(c, c2) /\ c2.step = c.step
         /\ c2.prev = k /\ c2.pix = p /\ c2.work = x
<1>1. PICK c3 : c3 = [c EXCEPT !.prev = k]
  OBVIOUS
<1>2. c3 \in Locals /\ LikeCall(c, c3) /\ c3.step = c.step /\ c3.prev = k
  BY <1>1 DEF Locals, LikeCall
<1>3. PICK c4 : c4 = [c3 EXCEPT !.pix = p]
  OBVIOUS
<1>4. c4 \in Locals /\ LikeCall(c3, c4) /\ c4.step = c3.step /\ c4.prev = c3.prev /\ c4.pix = p
  BY <1>2, <1>3 DEF Locals, LikeCall
<1>5. c2 = [c4 EXCEPT !.work = x]
  BY <1>1, <1>3 DEF Loaded
<1>6. /\ c2 \in Locals /\ LikeCall(c4, c2) /\ c2.step = c4.step /\ c2.prev = c4.prev
      /\ c2.pix = c4.pix /\ c2.work = x
  BY <1>4, <1>5 DEF Locals, LikeCall
<1>7. LikeCall(c, c2)
  BY <1>2, <1>4, <1>6 DEF LikeCall
<1> QED BY <1>2, <1>4, <1>6, <1>7

LEMMA LoadIs ==
  ASSUME NEW fl2, NEW fds2, NEW k, FlashOK(fl2), FdOK(fl2, fds2), call.fd \in Fd, k \in Nat,
         fds2[call.fd].open, fds2[call.fd].obj = call.obj, Find(fl2, call.obj, k) # NoPage,
         Load(State(fl2, fds2), k, Find(fl2, call.obj, k))
  PROVE  /\ flash' = fl2 /\ FdOK(fl2, fd') /\ Shown(fds2, fd')
         /\ Loaded(call, call', k, Find(fl2, call.obj, k), fl2[Find(fl2, call.obj, k)])
<1>1. IsIndex(fl2, Find(fl2, call.obj, k), k)
  BY IsIndexFound
<1>2. PICK p : p = Find(fl2, call.obj, k)
  OBVIOUS
<1>20. IsIndex(fl2, p, k) /\ Load(State(fl2, fds2), k, p)
  BY <1>1, <1>2
<1>3. /\ call' = [call EXCEPT !.prev = k, !.pix = p, !.work = fl2[p]]
      /\ Becomes(IF call.op = "append" /\ k = 0 THEN State(fl2, fds2) ELSE Cursor(State(fl2, fds2), call.fd, k, p))
  <2>1. PICK st : st = State(fl2, fds2)
    OBVIOUS
  <2>2. st.flash = fl2 /\ Load(st, k, p) /\ IsIndex(st.flash, p, k)
    BY <1>20, <2>1, StateIs
  <2>3. /\ call' = [call EXCEPT !.prev = k, !.pix = p, !.work = st.flash[p]]
        /\ Becomes(IF call.op = "append" /\ k = 0 THEN st ELSE Cursor(st, call.fd, k, p))
    BY <2>2 DEF Load
  <2> QED BY <2>1, <2>2, <2>3
<1>4. CASE call.op = "append" /\ k = 0
  <2>1. flash' = fl2 /\ fd' = fds2
    BY <1>3, <1>4, StateIs DEF Becomes
  <2> QED BY <1>2, <1>3, <2>1 DEF Loaded, Shown
<1>5. CASE ~(call.op = "append" /\ k = 0)
  <2>1. PICK st : st = Cursor(State(fl2, fds2), call.fd, k, p)
    OBVIOUS
  <2>2. CursorPut(fl2, fds2, call.fd, k, st)
    BY <1>2, <2>1 DEF CursorPut
  <2>3. FdOK(fl2, st.fd) /\ Shown(fds2, st.fd) /\ st = State(fl2, st.fd)
    BY <2>2, CursorIs
  <2>4. flash' = st.flash /\ fd' = st.fd
    BY <1>3, <1>5, <2>1 DEF Becomes
  <2>5. st.flash = fl2
    BY <2>3, StateIs
  <2> QED BY <1>2, <1>3, <2>3, <2>4, <2>5 DEF Loaded
<1> QED BY <1>4, <1>5

(* Every index page that is there is bounded.                              *)
AllBounded(fl, c, fi) == \A u \in Obj, j \in Nat : Find(fl, u, j) # NoPage => Bounded(c, fi, u, j)

LEMMA BoundedOn ==
  ASSUME NEW fl, NEW fl2, NEW c, NEW c2, NEW fi, NEW k, Layout(fl, c, fi), InHand(c, fi),
         LikeCall(c, c2), c2.prev = k, c.prev \in Int,
         \A u \in Obj, j \in Nat :
           Find(fl2, u, j) # NoPage => Find(fl, u, j) # NoPage \/ (u = c.obj /\ j = k)
  PROVE  AllBounded(fl2, c2, fi)
<1>1. c2.obj = c.obj /\ \A u \in Obj : Current(c2, fi, u) = Current(c, fi, u)
  BY CurrentLike DEF LikeCall
<1>2. ASSUME NEW u \in Obj, NEW j \in Nat, Find(fl2, u, j) # NoPage PROVE Bounded(c2, fi, u, j)
  <2>1. CASE u = c.obj /\ j = k
    BY <1>1, <2>1 DEF Bounded
  <2>2. CASE ~(u = c.obj /\ j = k)
    <3>1. Bounded(c, fi, u, j)
      BY <1>2, <2>2 DEF Layout
    <3>2. CASE j = 0
      BY <3>2 DEF Bounded
    <3>3. CASE j # 0 /\ u = c.obj /\ j = c.prev
      <4>1. \E s \in Entries(j) : First(s) < Len(Current(c, fi, u))
        BY <3>3 DEF InHand
      <4> QED BY <1>1, <4>1 DEF Bounded
    <3>4. CASE j # 0 /\ ~(u = c.obj /\ j = c.prev)
      BY <1>1, <3>1, <3>4 DEF Bounded
    <3> QED BY <3>2, <3>3, <3>4
  <2> QED BY <2>1, <2>2
<1> QED BY <1>2 DEF AllBounded

(* What a step of a call leaves alone of the sizes.                        *)
SizesHeld(fl, fl2, fds, fds2, c) ==
  /\ \A u \in Obj : Find(fl, u, 0) # NoPage /\ ~Changing(c, u) => HSize(fl2, u) = HSize(fl, u)
  /\ \A f \in Fd : /\ fds2[f].open = fds[f].open /\ fds2[f].obj = fds[f].obj
                   /\ ~Changing(c, fds[f].obj) => Bytes(fds2[f].size) = Bytes(fds[f].size)

Goes(fl, fds, c, fi, vw) ==
  /\ c.op = "modify" => Modifying(fl, fds, c, fi, vw)
  /\ c.op = "append" => Appending(fl, fds, c, fi, vw)
  /\ c.op = "truncate" => Shortens(fl, fds, c, fi, vw)

LEMMA SizesHeldAgree ==
  ASSUME NEW fl, NEW fl2, NEW fds, NEW fds2, NEW c, NEW c2, NEW fi, SizesAgree(fl, fds, c, fi),
         Exist(fl, fi), SizesHeld(fl, fl2, fds, fds2, c),
         \A u \in Obj : ~Changing(c2, u) => ~Changing(c, u) /\ Current(c2, fi, u) = Current(c, fi, u)
  PROVE  SizesAgree(fl2, fds2, c2, fi)
<1>1. ASSUME NEW u \in Obj, fi[u].exists, ~Changing(c2, u)
      PROVE  /\ Bytes(HSize(fl2, u)) = Len(Current(c2, fi, u))
             /\ \A f \in Fd : fds2[f].open /\ fds2[f].obj = u => Bytes(fds2[f].size) = Len(Current(c2, fi, u))
  <2>1. ~Changing(c, u) /\ Current(c2, fi, u) = Current(c, fi, u) /\ Find(fl, u, 0) # NoPage
    BY <1>1 DEF Exist
  <2>2. /\ Bytes(HSize(fl, u)) = Len(Current(c, fi, u))
        /\ \A f \in Fd : fds[f].open /\ fds[f].obj = u => Bytes(fds[f].size) = Len(Current(c, fi, u))
    BY <1>1, <2>1 DEF SizesAgree
  <2> QED BY <2>1, <2>2 DEF SizesHeld
<1> QED BY <1>1 DEF SizesAgree

LEMMA Loads ==
  ASSUME NEW fl, NEW fds, NEW c, NEW fi, NEW vw, NEW fl2, NEW fds2, NEW c2, NEW k,
         Core(fl, fds, c, fi, vw), c # NoCall, c.step = "run", c.op # "create", k \in Nat,
         FlashOK(fl2), FdOK(fl2, fds2), Find(fl2, c.obj, k) # NoPage,
         Loaded(c, c2, k, Find(fl2, c.obj, k), fl2[Find(fl2, c.obj, k)]),
         RefIsTable(fl, fl2, c), DataSame(fl, fl2), AllBounded(fl2, c2, fi),
         \A u \in Obj : Find(fl2, u, 0) # NoPage <=> Find(fl, u, 0) # NoPage,
         SizesHeld(fl, fl2, fds, fds2, c), Views(fds2, c2, fi, vw), Goes(fl2, fds2, c2, fi, vw)
  PROVE  Core(fl2, fds2, c2, fi, vw) /\ c2 # NoCall
<1>1. /\ FlashOK(fl) /\ Exist(fl, fi) /\ Layout(fl, c, fi) /\ CallOK(fl, fds, c, fi, vw)
      /\ SizesAgree(fl, fds, c, fi)
  BY CoreIs
<1>2. c \in Locals /\ c.op \in {"append", "modify", "truncate"} /\ c.obj \in Obj
  BY <1>1, CallIs
<1>3. PICK p : p = Find(fl2, c.obj, k)
  OBVIOUS
<1>4. p # NoPage /\ p \in Target /\ fl2[p] \in Pages /\ fl2[p] \in IxPages
      /\ fl2[p].obj = c.obj /\ fl2[p].span = k
  <2>1. p \in Page /\ fl2[p] \in IxPages /\ fl2[p].obj = c.obj /\ fl2[p].span = k
    BY <1>3, FindIs
  <2> QED BY <1>3, <2>1, IxFields DEF Target
<1>5. /\ c2 \in Locals /\ LikeCall(c, c2) /\ c2.step = c.step
      /\ c2.prev = k /\ c2.pix = p /\ c2.work = fl2[p]
  <2>1. Loaded(c, c2, k, p, fl2[p])
    BY <1>3
  <2> QED BY <1>2, <1>4, <2>1, LoadedIs
<1>6. c2.op = c.op /\ c2.obj = c.obj
  BY <1>5 DEF LikeCall
<1>7. c2 # NoCall
  BY <1>2, <1>6, NoCallIs
<1>8. \A u \in Obj : Current(c2, fi, u) = Current(c, fi, u)
  BY <1>5, CurrentLike
<1>9. \A u \in Obj : Changing(c2, u) <=> Changing(c, u)
  BY <1>5 DEF Changing, LikeCall
<1>10. Exist(fl2, fi)
  BY <1>1, ExistKept
<1>11. Layout(fl2, c2, fi)
  <2>1. Find(fl2, c2.obj, c2.prev) # NoPage /\ c2.work = fl2[Find(fl2, c2.obj, c2.prev)]
    BY <1>3, <1>4, <1>5, <1>6
  <2>2. \A u \in Obj, s \in Spans : Table(fl2, c2, u)[s] = Ref(fl2, u, s)
    BY <2>1, TableIn
  <2>3. \A u \in Obj, s \in Spans : Table(fl2, c2, u)[s] = Table(fl, c, u)[s]
    BY <2>2 DEF RefIsTable
  <2>4. \A u \in Obj, j \in Nat : Find(fl2, u, j) # NoPage => Bounded(c2, fi, u, j)
    BY DEF AllBounded
  <2> QED BY <1>1, <1>8, <2>3, <2>4, LayoutKept
<1>12. SizesAgree(fl2, fds2, c2, fi)
  BY <1>1, <1>8, <1>9, SizesHeldAgree
<1>13. HoldsWork(fl2, c2)
  BY <1>2, <1>3, <1>4, <1>5, <1>6 DEF HoldsWork
<1>14. CallOK(fl2, fds2, c2, fi, vw)
  <2>1. c2.op # "none" /\ c2.step # "none" /\ c2.op # "create" /\ c2.prev # -1
    BY <1>2, <1>5, <1>6
  <2> QED BY <1>5, <1>13, <2>1 DEF CallOK, Goes
<1> QED BY <1>7, <1>10, <1>11, <1>12, <1>14 DEF Core

(* A write in its loop, with the index page of its next byte.              *)
LEMMA WritesLoaded ==
  ASSUME NEW fl, NEW fl2, NEW fds, NEW fds2, NEW c, NEW c2, NEW fi, NEW vw,
         WritesOn(fl, fds, c, fi, vw), LikeCall(c, c2), c2.step = "run", Placed(fds, fds2), c.fd \in Fd,
         c.written < c.len, c2.prev = IxSpan(DataSpan(c.offset + c.written))
  PROVE  WritesOn(fl2, fds2, c2, fi, vw)
<1>1. /\ ~c2.temp /\ ~c2.full /\ c2.fd = c.fd /\ c2.obj = c.obj /\ c2.start = c.start
      /\ c2.offset = c.offset /\ c2.written = c.written /\ c2.len = c.len
  BY DEF LikeCall, WritesOn
<1>2. fds2[c.fd].open /\ fds2[c.fd].obj = c.obj /\ fds2[c.fd].pos = c.start
  BY DEF Placed, WritesOn
<1> QED BY <1>1, <1>2 DEF WritesOn

-----------------------------------------------------------------------------
(* The loop of a write, from one index page to the next.                   *)

LEMMA PlaceType ==
  ASSUME NEW fl, NEW fds, NEW c, NEW fi, NEW vw, Core(fl, fds, c, fi, vw),
         c.op \in {"append", "modify"}
  PROVE  /\ c.offset + c.written \in Nat /\ c.offset + c.written <= MaxSize
         /\ DataSpan(c.offset + c.written) \in Spans
         /\ IxSpan(DataSpan(c.offset + c.written)) \in Nat
<1>1. /\ c.offset \in Nat /\ c.len \in Nat /\ c.written \in Nat
      /\ c.written <= c.len /\ c.offset + c.len <= MaxSize
  <2>1. WritesOn(fl, fds, c, fi, vw)
    BY WriteIs
  <2>2. c.offset \in Nat /\ c.len \in Nat /\ c.written \in Nat
    BY WriteIs
  <2>3. c.offset + c.len <= MaxSize
    BY WriteIs
  <2> QED BY <2>1, <2>2, <2>3 DEF WritesOn
<1>2. PICK n : n = c.offset + c.written
  OBVIOUS
<1>3. n \in 0 .. MaxSize
  BY <1>1, <1>2, ObjectsAssumption
<1>4. DataSpan(n) \in Spans /\ DataSpan(n) \in Nat
  BY <1>3, SpansType
<1>5. IxSpan(DataSpan(n)) \in Nat
  BY <1>4, IxSpanType
<1> QED BY <1>2, <1>3, <1>4, <1>5

(* The page in hand is that of the last byte written.                      *)
LEMMA LastByte ==
  ASSUME NEW fl, NEW fds, NEW c, NEW fi, NEW vw, NEW n, Core(fl, fds, c, fi, vw),
         c.op \in {"append", "modify"}, n \in Nat, n < Len(Current(c, fi, c.obj))
  PROVE  /\ DataSpan(n) \in Spans /\ IxSpan(DataSpan(n)) \in Nat
         /\ DataSpan(n) \in Entries(IxSpan(DataSpan(n)))
         /\ First(DataSpan(n)) < Len(Current(c, fi, c.obj))
<1>1. c.obj \in Obj
  BY WriteIs
<1>2. PICK L \in 0 .. MaxSize : L = Len(Current(c, fi, c.obj))
  BY <1>1, CurrentIs
<1>3. n \in 0 .. MaxSize /\ n < L
  BY <1>2, ObjectsAssumption
<1>4. DataSpan(n) \in Spans /\ DataSpan(n) \in Nat
  BY <1>3, SpansType
<1>5. IxSpan(DataSpan(n)) \in Nat
  BY <1>4, IxSpanType
<1>6. First(DataSpan(n)) <= n /\ First(DataSpan(n)) \in Nat
  <2>1. First(DataSpan(n)) \in Nat /\ n % DPS \in 0 .. DPS - 1 /\ n = First(DataSpan(n)) + (n % DPS)
    BY SpanOf
  <2> QED BY <2>1, ObjectsAssumption
<1> QED BY <1>2, <1>3, <1>4, <1>5, <1>6 DEF Entries

LEMMA Paging ==
  ASSUME NEW fl, NEW fds, NEW c, NEW fi, NEW vw, NEW n, NEW k, Core(fl, fds, c, fi, vw),
         c.op \in {"append", "modify"}, c.written < c.len, n = c.offset + c.written,
         k = IxSpan(DataSpan(n)), k # c.prev
  PROVE  /\ InHand(c, fi) /\ c.prev \in Int
         /\ \/ c.written = 0 /\ c.prev = -1
            \/ /\ c.written > 0 /\ n > 0 /\ c.prev = IxSpan(DataSpan(n - 1)) /\ c.prev \in Nat
               /\ c.prev < k /\ HoldsWork(fl, c)
<1>1. /\ c.offset \in Nat /\ c.len \in Nat /\ c.written \in Nat /\ c.written <= c.len
      /\ WritesOn(fl, fds, c, fi, vw) /\ c.offset + c.len <= MaxSize /\ c.obj \in Obj
      /\ c.op = "append" => c.offset = Len(fi[c.obj].bytes)
      /\ c.op = "modify" => c.offset + c.len <= Len(fi[c.obj].bytes)
  BY WriteIs
<1>2. n \in Nat /\ k \in Nat
  <2>1. c.offset + c.written \in Nat /\ IxSpan(DataSpan(c.offset + c.written)) \in Nat
    BY PlaceType
  <2> QED BY <2>1
<1>3. c.prev = -1 \/ HoldsWork(fl, c)
  BY CoreIs, CallIs, NoCallIs
<1>4. \/ c.written = 0 /\ c.prev = -1
      \/ c.written > 0 /\ c.prev = IxSpan(DataSpan(n - 1))
  BY <1>1 DEF WritesOn
<1>5. CASE c.written = 0 /\ c.prev = -1
  BY <1>5 DEF InHand
<1>6. CASE c.written > 0 /\ c.prev = IxSpan(DataSpan(n - 1))
  <2>1. n > 0 /\ n - 1 \in Nat
    BY <1>1, <1>2, <1>6
  <2>2. DataSpan(n - 1) \in Nat /\ DataSpan(n) \in Nat /\ DataSpan(n - 1) <= DataSpan(n)
    <3>1. PICK m \in Nat : m = n - 1
      BY <2>1
    <3>2. DataSpan(m) \in Nat /\ DataSpan(n) \in Nat /\ DataSpan(m) <= DataSpan(n)
      BY <1>2, <3>1, SpanOf, SpansRise
    <3> QED BY <3>1, <3>2
  <2>3. c.prev <= k /\ c.prev \in Nat
    BY <1>6, <2>2, IxSpansRise, IxSpanType
  <2>4. c.prev < k
    BY <1>2, <2>3
  <2>5. n - 1 < Len(Current(c, fi, c.obj))
    <3>1. Len(Current(c, fi, c.obj)) = IF c.op = "append" THEN c.offset + c.written ELSE Len(fi[c.obj].bytes)
      BY <1>1, CurrentIs
    <3>2. PICK L : L = Len(fi[c.obj].bytes)
      OBVIOUS
    <3>3. L \in Nat
      BY <1>1, <3>2, CoreIs, FileType
    <3>4. CASE c.op = "append"
      BY <1>1, <3>1, <3>4
    <3>5. CASE c.op = "modify"
      BY <1>1, <3>1, <3>2, <3>3, <3>5
    <3> QED BY <3>4, <3>5
  <2>6. InHand(c, fi)
    BY <1>6, <2>1, <2>5, LastByte DEF InHand
  <2>7. HoldsWork(fl, c)
    BY <1>3, <2>3
  <2> QED BY <1>6, <2>1, <2>3, <2>4, <2>6, <2>7
<1> QED BY <1>4, <1>5, <1>6

(* Of a page with data the index page is there.                            *)
LEMMA IndexThere ==
  ASSUME NEW fl, NEW fl2, NEW c, NEW fi, NEW o, NEW s, FlashOK(fl), Layout(fl, c, fi), o \in Obj,
         s \in Spans, First(s) < Len(Current(c, fi, o)), RefIsTable(fl, fl2, c)
  PROVE  Find(fl2, o, IxSpan(s)) # NoPage
<1>1. Laid(fl, Table(fl, c, o), o, Current(c, fi, o))
  BY DEF Layout
<1>2. Table(fl, c, o)[s] \in Page
  BY <1>1 DEF Laid
<1>3. Ref(fl2, o, s) # NoPage
  BY <1>2, PageType DEF RefIsTable
<1> QED BY <1>3 DEF Ref

LEMMA AppendingLoaded ==
  ASSUME NEW fl, NEW fds, NEW c, NEW fi, NEW vw, NEW fl2, NEW fds2, NEW c2, NEW k, NEW p,
         Appending(fl, fds, c, fi, vw), LikeCall(c, c2), c2.step = "run", Placed(fds, fds2), c.fd \in Fd,
         c.written < c.len, c.offset + c.written \in Nat, k = IxSpan(DataSpan(c.offset + c.written)),
         c2.prev = k, c2.pix = p, c2.work = fl2[p], p = Find(fl2, c.obj, k),
         c.offset <= Bytes(HSize(fl2, c.obj)),
         k = 0 => c.prev = -1 /\ c.written = 0 /\ HSize(fl2, c.obj) = HSize(fl, c.obj)
  PROVE  Appending(fl2, fds2, c2, fi, vw)
<1>1. WritesOn(fl2, fds2, c2, fi, vw)
  BY WritesLoaded DEF Appending
<1>2. /\ c2.obj = c.obj /\ c2.offset = c.offset /\ c2.len = c.len /\ c2.start = c.start
      /\ c2.written = c.written
  BY DEF LikeCall
<1>3. k \in Nat
  BY SpanOf, IxSpanType
<1>4. c2.prev = 0 => c2.work.size = HSize(fl2, c2.obj) /\ c2.written = 0
  BY <1>2 DEF HSize
<1>5. c2.offset = 0 /\ c2.prev <= 0 => HSize(fl2, c2.obj) = UNDEFINED_LEN
  BY <1>2, <1>3 DEF Appending
<1>6. /\ c2.offset = Len(fi[c2.obj].bytes) /\ c2.offset + c2.len <= MaxSize
      /\ (c2.offset + c2.len) - c2.start \in Lens
  BY <1>2 DEF Appending
<1> QED BY <1>1, <1>2, <1>4, <1>5, <1>6 DEF Appending

LEMMA ModifyingLoaded ==
  ASSUME NEW fl, NEW fds, NEW c, NEW fi, NEW vw, NEW fl2, NEW fds2, NEW c2, NEW k, NEW p,
         Modifying(fl, fds, c, fi, vw), LikeCall(c, c2), c2.step = "run", Placed(fds, fds2), c.fd \in Fd,
         c.written < c.len, k = IxSpan(DataSpan(c.offset + c.written)),
         c2.prev = k, c2.pix = p, c2.work = fl2[p], p = Find(fl2, c.obj, k)
  PROVE  Modifying(fl2, fds2, c2, fi, vw)
<1>1. WritesOn(fl2, fds2, c2, fi, vw)
  BY WritesLoaded DEF Modifying
<1>2. /\ c2.obj = c.obj /\ c2.offset = c.offset /\ c2.len = c.len /\ c2.start = c.start
      /\ c2.written = c.written /\ c2.rest = c.rest
  BY DEF LikeCall
<1>3. c2.prev = 0 => c2.work.size = HSize(fl2, c2.obj)
  BY <1>2 DEF HSize
<1> QED BY <1>1, <1>2, <1>3 DEF Modifying

(* An append that begins on an index page of the file reads it.            *)
LEMMA AppendLoadKeeps ==
  ASSUME Core(flash, fd, call, file, view), AppendLoad
  PROVE  Core(flash', fd', call', file, view) /\ call' # NoCall
<1> DEFINE o == call.obj
           n == call.offset + call.written
           s == DataSpan(n)
           k == IxSpan(s)
<1>1. /\ call.op = "append" /\ call.step = "run" /\ call.written < call.len /\ k # call.prev
      /\ k = 0 \/ ~AppendsNewIndex
      /\ Load(Now, k, IF k = 0 THEN call.pix ELSE IndexFor(Now, call.fd, k))
  BY DEF AppendLoad, AtIndex, Running, span, place
<1>2. /\ FlashOK(flash) /\ FdOK(flash, fd) /\ Exist(flash, file) /\ Layout(flash, call, file)
      /\ SizesAgree(flash, fd, call, file) /\ CallOK(flash, fd, call, file, view)
      /\ Views(fd, call, file, view)
  BY CoreIs
<1>3. call # NoCall
  BY <1>1, NoCallIs
<1>4. /\ call.fd \in Fd /\ o \in Obj /\ Appending(flash, fd, call, file, view)
      /\ call.offset \in Nat /\ call.written \in Nat /\ call.len \in Nat
  BY <1>1, <1>2, <1>3, CallIs, WriteIs
<1>5. /\ fd[call.fd].open /\ fd[call.fd].obj = o /\ Find(flash, o, 0) # NoPage /\ file[o].exists
  BY <1>1, <1>3, CallsFd
<1>6. n \in Nat /\ n <= MaxSize /\ s \in Spans /\ k \in Nat
  BY <1>1, PlaceType
<1> HIDE DEF o, n, s, k
<1>7. InHand(call, file) /\ call.written = 0 /\ call.prev = -1
  <2>1. /\ InHand(call, file)
        /\ \/ call.written = 0 /\ call.prev = -1
           \/ call.written > 0 /\ call.prev < k /\ call.prev \in Nat
    BY <1>1, Paging DEF n, s, k
  <2>2. CASE call.written > 0 /\ call.prev < k /\ call.prev \in Nat
    <3>1. AppendsNewIndex
      BY <2>2 DEF AppendsNewIndex
    <3>2. k # 0
      BY <1>6, <2>2
    <3> QED BY <1>1, <3>1, <3>2
  <2> QED BY <2>1, <2>2
<1>8. n = call.offset /\ ~Changing(call, o) /\ call.offset = Len(file[o].bytes)
  BY <1>1, <1>4, <1>7 DEF n, Changing, Appending, o
<1>9. Len(Current(call, file, o)) = call.offset
  BY <1>1, <1>4, <1>7, CurrentIs DEF o
<1>10. RefIsTable(flash, flash, call)
  BY <1>7, TableOut DEF RefIsTable
<1>11. /\ Find(flash, o, k) # NoPage
       /\ (IF k = 0 THEN call.pix ELSE IndexFor(Now, call.fd, k)) = Find(flash, o, k)
  <2>1. CASE k = 0
    <3>1. call.pix = Find(flash, o, 0)
      BY <1>1, <1>2, <1>3, <1>7 DEF CallOK, o
    <3> QED BY <1>5, <2>1, <3>1
  <2>2. CASE k # 0
    <3>1. k <= IxSpan(DataSpan(fd[call.fd].size - 1))
      <4>1. ~(k > IxSpan(DataSpan(fd[call.fd].size - 1)))
        BY <1>1, <2>2, StateIs DEF AppendsNewIndex, Now, s, k, n, span, place
      <4>2. PICK m : m = IxSpan(DataSpan(fd[call.fd].size - 1))
        OBVIOUS
      <4>3. m \in Nat
        <5>1. Bytes(fd[call.fd].size) = call.offset
          BY <1>2, <1>4, <1>5, <1>8, <1>9 DEF SizesAgree
        <5>2. fd[call.fd].size \in 0 .. UNDEFINED_LEN
          BY <1>2, <1>4 DEF FdOK, Descriptors
        <5>3. call.offset > 0
          <6>1. n = 0 => k = 0
            BY SpanIs, FirstType, IxSpanOfFirst, ObjectsAssumption DEF s, k
          <6> QED BY <1>4, <1>8, <2>2, <6>1
        <5>4. fd[call.fd].size - 1 \in Nat
          BY <1>4, <5>1, <5>2, <5>3, ObjectsAssumption DEF Bytes, UNDEFINED_LEN
        <5> QED BY <4>2, <5>4, SpanOf, IxSpanType
      <4> QED BY <1>6, <4>1, <4>2, <4>3
    <3>2. Bytes(fd[call.fd].size) = call.offset
      BY <1>2, <1>4, <1>5, <1>8, <1>9 DEF SizesAgree
    <3>3. fd[call.fd].size \in 0 .. UNDEFINED_LEN
      BY <1>2, <1>4 DEF FdOK, Descriptors
    <3>4. call.offset > 0
      <4>1. n = 0 => k = 0
        BY SpanIs, FirstType, IxSpanOfFirst, ObjectsAssumption DEF s, k
      <4> QED BY <1>4, <1>8, <2>2, <4>1
    <3>5. fd[call.fd].size = call.offset
      BY <3>2, <3>4 DEF Bytes
    <3>6. PICK m \in Nat : m = call.offset - 1
      BY <1>4, <3>4
    <3>7. m < Len(Current(call, file, o)) /\ m <= n
      BY <1>4, <1>8, <1>9, <3>6
    <3>8. /\ DataSpan(m) \in Spans /\ IxSpan(DataSpan(m)) \in Nat
          /\ First(DataSpan(m)) < Len(Current(call, file, o))
      BY <1>1, <3>7, LastByte DEF o
    <3>9. IxSpan(DataSpan(m)) = k
      <4>1. DataSpan(m) \in Nat /\ s \in Nat /\ DataSpan(m) <= s
        BY <1>6, <3>7, SpanOf, SpansRise DEF s
      <4>2. IxSpan(DataSpan(m)) <= k
        BY <4>1, IxSpansRise DEF k
      <4>3. k <= IxSpan(DataSpan(m))
        BY <3>1, <3>5, <3>6
      <4> QED BY <1>6, <3>8, <4>2, <4>3
    <3>10. Find(flash, o, IxSpan(DataSpan(m))) # NoPage
      BY <1>2, <1>4, <1>10, <3>8, IndexThere
    <3>11. IndexFor(Now, call.fd, k) = Find(flash, o, k)
      BY <1>2, <1>4, <1>5, IndexForIs DEF Now
    <3> QED BY <2>2, <3>9, <3>10, <3>11
  <2> QED BY <2>1, <2>2
<1>12. Load(State(flash, fd), k, Find(flash, call.obj, k))
  BY <1>1, <1>11 DEF Now, o
<1>13. /\ flash' = flash /\ FdOK(flash, fd') /\ Shown(fd, fd')
       /\ Loaded(call, call', k, Find(flash, call.obj, k), flash[Find(flash, call.obj, k)])
  <2>1. Find(flash, call.obj, k) # NoPage /\ fd[call.fd].obj = call.obj
    BY <1>5, <1>11 DEF o
  <2> QED BY <1>2, <1>4, <1>5, <1>6, <1>12, <2>1, LoadIs
<1>14. PICK p : p = Find(flash, call.obj, k)
  OBVIOUS
<1>15. p \in Target /\ p # NoPage /\ flash[p] \in Pages
  BY <1>2, <1>11, <1>14, FindIs, IxFields DEF o
<1>16. /\ LikeCall(call, call') /\ call'.step = "run" /\ call'.prev = k /\ call'.pix = p
       /\ call'.work = flash[p]
  <2>1. Loaded(call, call', k, p, flash[p]) /\ call \in Locals
    BY <1>2, <1>3, <1>13, <1>14, CallIs
  <2> QED BY <1>1, <1>6, <1>15, <2>1, LoadedIs
<1>17. Placed(fd, fd') /\ SizesHeld(flash, flash, fd, fd', call)
  BY <1>13 DEF Shown, Placed, SizesHeld
<1>18. AllBounded(flash, call', file)
  BY <1>2, <1>7, <1>16, BoundedOn
<1>19. Views(fd', call', file, view)
  <2>1. SameFile(call, call')
    BY <1>16 DEF SameFile, LikeCall
  <2>2. \A f \in Fd : fd[f].pos \in 0 .. MaxSize
    BY <1>2 DEF FdOK, Descriptors
  <2> QED BY <1>1, <1>2, <1>16, <1>17, <2>1, <2>2, ViewsKept
<1>20. Appending(flash, fd', call', file, view)
  <2>1. /\ call.offset <= Bytes(HSize(flash, call.obj)) /\ call.offset + call.written \in Nat
        /\ k = IxSpan(DataSpan(call.offset + call.written))
    BY <1>4, <1>6 DEF Appending, n, s, k
  <2>2. HSize(flash, call.obj) = HSize(flash, call.obj)
    OBVIOUS
  <2> QED BY <1>1, <1>4, <1>7, <1>14, <1>16, <1>17, <2>1, <2>2, AppendingLoaded
<1>21. Goes(flash, fd', call', file, view)
  <2>1. call'.op = "append"
    BY <1>1, <1>16 DEF LikeCall
  <2> QED BY <1>20, <2>1 DEF Goes
<1>22. Find(flash, call.obj, k) # NoPage /\ DataSame(flash, flash)
  BY <1>11 DEF o, DataSame
<1>23. Core(flash, fd', call', file, view) /\ call' # NoCall
  BY <1>1, <1>2, <1>3, <1>6, <1>10, <1>13, <1>17, <1>18, <1>19, <1>21, <1>22, Loads
<1> QED BY <1>13, <1>23

LEMMA ModifyStoredIs ==
  ASSUME NEW fds, NEW st, Core(flash, fd, call, file, view), call.op = "modify", call.step = "run",
         HoldsWork(flash, call), \E p \in Page : flash[p].kind = "free",
         FdOK(flash, fds), Shown(fd, fds), st = ModifyStored(State(flash, fds))
  PROVE  /\ Stored(flash, st.flash, call) /\ HeadsSame(flash, st.flash) /\ FdOK(st.flash, st.fd)
         /\ Steady(fd, st.fd) /\ st = State(st.flash, st.fd)
<1> DEFINE o == call.obj
<1>1. FlashOK(flash) /\ SizesAgree(flash, fd, call, file) /\ CallOK(flash, fd, call, file, view)
  BY CoreIs
<1>2. call # NoCall
  BY NoCallIs
<1>3. call.fd \in Fd /\ o \in Obj /\ Modifying(flash, fd, call, file, view) /\ call.prev \in Nat
  BY <1>1, <1>2, CallIs DEF HoldsWork
<1>4. /\ fd[call.fd].open /\ fd[call.fd].obj = o /\ Find(flash, o, 0) # NoPage /\ file[o].exists
  BY <1>2, CallsFd
<1>5. fds[call.fd].hdr = Find(flash, o, 0)
  BY <1>3, <1>4, IndexForIs DEF Shown
<1>6. \A size, d2 : Resized(fds, d2, o, size) => Resized(fd, d2, o, size)
  BY DEF Resized, Shown
<1>7. ~Changing(call, o)
  BY DEF Changing
<1>8. CASE call.prev = 0
  <2>1. st = HeaderMoved(State(flash, fds), call.obj, Find(flash, call.obj, 0), call.work)
    BY <1>5, <1>8, StateIs DEF ModifyStored
  <2>2. /\ Stored(flash, st.flash, call) /\ Heads(flash, st.flash, call.obj, call.work.size)
        /\ FdOK(st.flash, st.fd) /\ Resized(fds, st.fd, call.obj, call.work.size)
        /\ st = State(st.flash, st.fd)
    BY <1>1, <1>3, <1>8, <2>1, StoreHeader
  <2>3. call.work.size = HSize(flash, o)
    BY <1>3, <1>8 DEF Modifying
  <2>4. HeadsSame(flash, st.flash)
    BY <2>2, <2>3 DEF Heads, HeadsSame
  <2>5. Bytes(call.work.size) = Len(Current(call, file, o))
    BY <1>1, <1>3, <1>4, <1>7, <2>3 DEF SizesAgree
  <2>6. Len(Current(call, file, o)) = Len(file[o].bytes)
    BY <1>3, <1>7, CurrentIs
  <2>7. Steady(fd, st.fd)
    BY <1>3, <1>6, <1>7, <2>2, <2>5, <2>6, ResizedSteady
  <2> QED BY <2>2, <2>4, <2>7
<1>9. CASE call.prev # 0
  <2>1. call.prev > 0
    BY <1>3, <1>9
  <2>2. st = IndexMoved(State(flash, fds), call.obj, call.pix, call.work)
    BY <1>9 DEF ModifyStored
  <2>3. /\ Stored(flash, st.flash, call) /\ HeadsSame(flash, st.flash) /\ FdOK(st.flash, st.fd)
        /\ Resized(fds, st.fd, call.obj, 0) /\ st = State(st.flash, st.fd)
    BY <1>1, <1>3, <2>1, <2>2, StoreMoved
  <2>4. Steady(fd, st.fd)
    BY <1>3, <1>6, <2>3, ResizedSteady
  <2> QED BY <2>3, <2>4
<1> QED BY <1>8, <1>9

LEMMA ShownSelf == \A fds : Shown(fds, fds) /\ Steady(fds, fds) /\ Placed(fds, fds)
BY DEF Shown, Steady, Placed

(* A modification begins on an index page, after it has stored the one     *)
(* before.                                                                 *)
LEMMA ModifyIndexKeeps ==
  ASSUME Core(flash, fd, call, file, view), ModifyIndex
  PROVE  Core(flash', fd', call', file, view) /\ call' # NoCall
<1> DEFINE o == call.obj
           n == call.offset + call.written
           s == DataSpan(n)
           k == IxSpan(s)
<1>0. PICK st : st = IF call.written = 0 THEN Now ELSE ModifyStored(Now)
  OBVIOUS
<1>1. /\ call.op = "modify" /\ call.step = "run" /\ call.written < call.len /\ k # call.prev
      /\ Load(st, k, IF k = 0 THEN call.pix ELSE IndexFor(st, call.fd, k))
  BY <1>0 DEF ModifyIndex, AtIndex, Running, span, place
<1>2. /\ FlashOK(flash) /\ FdOK(flash, fd) /\ Exist(flash, file) /\ Layout(flash, call, file)
      /\ SizesAgree(flash, fd, call, file) /\ CallOK(flash, fd, call, file, view)
      /\ Views(fd, call, file, view)
  BY CoreIs
<1>3. call # NoCall
  BY <1>1, NoCallIs
<1>4. /\ call.fd \in Fd /\ o \in Obj /\ Modifying(flash, fd, call, file, view) /\ ~call.full
      /\ call.offset \in Nat /\ call.written \in Nat /\ call.len \in Nat
      /\ call.offset + call.len <= Len(file[o].bytes) /\ call.prev \in Int
  BY <1>1, <1>2, <1>3, CallIs, WriteIs DEF Modifying, WritesOn, Locals
<1>5. /\ fd[call.fd].open /\ fd[call.fd].obj = o /\ Find(flash, o, 0) # NoPage /\ file[o].exists
  BY <1>1, <1>3, CallsFd
<1>6. n \in Nat /\ n <= MaxSize /\ s \in Spans /\ k \in Nat
  BY <1>1, PlaceType
<1>7. call.written > 0 => \E p \in Page : flash[p].kind = "free"
  BY DEF ModifyIndex, Full
<1> HIDE DEF o, n, s, k
<1>8. /\ InHand(call, file)
      /\ \/ call.written = 0 /\ call.prev = -1
         \/ call.written > 0 /\ call.prev < k /\ call.prev \in Nat /\ HoldsWork(flash, call)
  BY <1>1, Paging DEF n, s, k
<1>9. First(s) < Len(Current(call, file, o))
  <2>1. Len(Current(call, file, o)) = Len(file[o].bytes)
    BY <1>1, <1>4, CurrentIs DEF o
  <2>2. n < Len(Current(call, file, o))
    <3>1. PICK L \in Nat : L = Len(file[o].bytes)
      BY <1>2, <1>4, FileType
    <3>2. n < L
      <4>1. call.written \in Nat /\ call.len \in Nat /\ call.offset \in Nat /\ call.offset + call.len <= L
            /\ call.written < call.len
        BY <1>1, <1>4, <3>1
      <4> QED BY <4>1 DEF n
    <3> QED BY <2>1, <3>1, <3>2
  <2> QED BY <1>1, <1>6, <2>2, LastByte DEF o, s
<1>10. PICK fl2, fds2 : fl2 = st.flash /\ fds2 = st.fd
  OBVIOUS
<1>11. /\ FlashOK(fl2) /\ FdOK(fl2, fds2) /\ FoundSame(flash, fl2) /\ DataSame(flash, fl2)
       /\ RefIsTable(flash, fl2, call) /\ HeadsSame(flash, fl2) /\ Steady(fd, fds2)
       /\ st = State(fl2, fds2)
       /\ k = 0 => fl2 = flash
  <2>1. CASE call.written = 0 /\ call.prev = -1
    <3>1. fl2 = flash /\ fds2 = fd /\ st = State(flash, fd)
      BY <1>0, <1>10, <2>1, StateIs DEF Now
    <3>2. RefIsTable(flash, flash, call)
      BY <2>1, TableOut DEF RefIsTable
    <3> QED BY <1>2, <3>1, <3>2, ShownSelf DEF FoundSame, DataSame, HeadsSame
  <2>2. CASE call.written > 0 /\ call.prev < k /\ call.prev \in Nat /\ HoldsWork(flash, call)
    <3>1. st = ModifyStored(State(flash, fd))
      BY <1>0, <1>4, <2>2 DEF Now
    <3>2. /\ Stored(flash, st.flash, call) /\ HeadsSame(flash, st.flash) /\ FdOK(st.flash, st.fd)
          /\ Steady(fd, st.fd) /\ st = State(st.flash, st.fd)
      BY <1>1, <1>2, <1>7, <2>2, <3>1, ModifyStoredIs, ShownSelf
    <3>3. k # 0
      BY <1>6, <2>2
    <3> QED BY <1>10, <3>2, <3>3 DEF Stored
  <2> QED BY <1>8, <2>1, <2>2
<1>12. fds2[call.fd].open /\ fds2[call.fd].obj = o
  BY <1>4, <1>5, <1>11 DEF Steady
<1>13. Find(fl2, o, k) # NoPage
  BY <1>2, <1>4, <1>6, <1>9, <1>11, IndexThere DEF k
<1>14. (IF k = 0 THEN call.pix ELSE IndexFor(st, call.fd, k)) = Find(fl2, o, k)
  <2>1. CASE k = 0
    <3>1. call.prev = -1
      BY <1>6, <1>8, <2>1
    <3>2. call.pix = Find(flash, o, 0)
      BY <1>1, <1>2, <1>3, <3>1 DEF CallOK, o
    <3> QED BY <1>11, <2>1, <3>2
  <2>2. CASE k # 0
    BY <1>4, <1>11, <1>12, <2>2, IndexForIs
  <2> QED BY <2>1, <2>2
<1>15. Load(State(fl2, fds2), k, Find(fl2, call.obj, k))
  BY <1>1, <1>11, <1>14 DEF o
<1>16. /\ flash' = fl2 /\ FdOK(fl2, fd') /\ Shown(fds2, fd')
       /\ Loaded(call, call', k, Find(fl2, call.obj, k), fl2[Find(fl2, call.obj, k)])
  <2>1. Find(fl2, call.obj, k) # NoPage /\ fds2[call.fd].obj = call.obj
    BY <1>12, <1>13 DEF o
  <2> QED BY <1>4, <1>6, <1>11, <1>12, <1>15, <2>1, LoadIs
<1>17. PICK p : p = Find(fl2, call.obj, k)
  OBVIOUS
<1>18. p \in Target /\ p # NoPage /\ fl2[p] \in Pages
  BY <1>11, <1>13, <1>17, FindIs, IxFields DEF o
<1>19. /\ LikeCall(call, call') /\ call'.step = "run" /\ call'.prev = k /\ call'.pix = p
       /\ call'.work = fl2[p]
  <2>1. Loaded(call, call', k, p, fl2[p]) /\ call \in Locals
    BY <1>2, <1>3, <1>16, <1>17, CallIs
  <2> QED BY <1>1, <1>6, <1>18, <2>1, LoadedIs
<1>20. Placed(fd, fd') /\ SizesHeld(flash, fl2, fd, fd', call)
  BY <1>11, <1>16 DEF Shown, Steady, Placed, SizesHeld, HeadsSame
<1>21. AllBounded(fl2, call', file)
  <2>1. \A u \in Obj, j \in Nat : Find(fl2, u, j) # NoPage => Find(flash, u, j) # NoPage \/ (u = call.obj /\ j = k)
    BY <1>11 DEF FoundSame
  <2> QED BY <1>2, <1>4, <1>8, <1>19, <2>1, BoundedOn
<1>22. Views(fd', call', file, view)
  <2>1. SameFile(call, call')
    BY <1>19 DEF SameFile, LikeCall
  <2>2. \A f \in Fd : fd[f].pos \in 0 .. MaxSize
    BY <1>2 DEF FdOK, Descriptors
  <2> QED BY <1>1, <1>2, <1>19, <1>20, <2>1, <2>2, ViewsKept
<1>23. Modifying(fl2, fd', call', file, view)
  <2>1. k = IxSpan(DataSpan(call.offset + call.written))
    BY DEF n, s, k
  <2> QED BY <1>1, <1>4, <1>17, <1>19, <1>20, <2>1, ModifyingLoaded
<1>24. Goes(fl2, fd', call', file, view)
  <2>1. call'.op = "modify"
    BY <1>1, <1>19 DEF LikeCall
  <2> QED BY <1>23, <2>1 DEF Goes
<1>25. Find(fl2, call.obj, k) # NoPage /\ \A u \in Obj : Find(fl2, u, 0) # NoPage <=> Find(flash, u, 0) # NoPage
  BY <1>11, <1>13 DEF o, FoundSame
<1>26. Core(fl2, fd', call', file, view) /\ call' # NoCall
  BY <1>1, <1>3, <1>6, <1>11, <1>16, <1>20, <1>21, <1>22, <1>24, <1>25, Loads
<1> QED BY <1>16, <1>26

-----------------------------------------------------------------------------
(* An append stores the index page in hand, and the size with it.          *)

(* Only the sizes of the descriptors of a file change.                     *)
SizesOf(fds, fds2, o) ==
  Placed(fds, fds2) /\ \A f \in Fd : fds[f].obj # o => fds2[f].size = fds[f].size

LEMMA AppendHolds ==
  ASSUME NEW n, Core(flash, fd, call, file, view), call.op = "append", call.step = "run",
         call.written > 0, HoldsWork(flash, call), n = call.offset + call.written
  PROVE  /\ n \in Sizes /\ n \in 0 .. UNDEFINED_LEN /\ Bytes(n) = n /\ n # 0 /\ call.offset <= n
         /\ call.fd \in Fd /\ call.obj \in Obj /\ call.prev \in Nat
         /\ call.prev = 0 => call.work.size = n
         /\ call.prev > 0 => call.work.size = flash[call.pix].size
         /\ \A s \in Entries(call.prev) : flash[call.pix].ix[s] \in {NoPage, call.work.ix[s]}
         /\ call.offset = 0 /\ call.prev = 0 => HSize(flash, call.obj) = UNDEFINED_LEN
         /\ fd[call.fd].open /\ fd[call.fd].obj = call.obj /\ Find(flash, call.obj, 0) # NoPage
         /\ \A f \in Fd : fd[f].open /\ fd[f].obj = call.obj => fd[f].pos <= call.offset /\ fd[f].pos \in Nat
<1>1. CallOK(flash, fd, call, file, view) /\ call # NoCall /\ Exist(flash, file) /\ FdOK(flash, fd)
  BY CoreIs, NoCallIs
<1>2. Appending(flash, fd, call, file, view) /\ call.fd \in Fd /\ call.obj \in Obj /\ call.prev \in Nat
  BY <1>1, CallIs DEF HoldsWork
<1>3. /\ call.offset \in Nat /\ call.written \in Nat /\ n \in Nat /\ n <= MaxSize
      /\ call.offset = Len(file[call.obj].bytes)
  BY WriteIs, PlaceType
<1>4. n \in Sizes /\ n \in 0 .. UNDEFINED_LEN /\ Bytes(n) = n /\ n # 0 /\ call.offset <= n
  <2>1. call.offset <= n /\ n \in 1 .. MaxSize
    BY <1>3
  <2>2. PICK m \in 1 .. MaxSize : m = n
    BY <2>1
  <2>3. m \in Sizes /\ m \in 0 .. UNDEFINED_LEN /\ Bytes(m) = m /\ m # 0
    BY ObjectsAssumption DEF Sizes, UNDEFINED_LEN, Bytes
  <2> QED BY <2>1, <2>2, <2>3
<1>5. fd[call.fd].open /\ fd[call.fd].obj = call.obj /\ Find(flash, call.obj, 0) # NoPage
  BY <1>1, CallsFd
<1>6. /\ call.prev = 0 => call.work.size = n
      /\ call.prev > 0 => call.work.size = flash[call.pix].size
      /\ call.offset = 0 /\ call.prev = 0 => HSize(flash, call.obj) = UNDEFINED_LEN
  BY <1>2, <1>3 DEF Appending
<1>7. \A s \in Entries(call.prev) : flash[call.pix].ix[s] \in {NoPage, call.work.ix[s]}
  BY <1>2 DEF Appending
<1>8. ASSUME NEW f \in Fd, fd[f].open, fd[f].obj = call.obj
      PROVE  fd[f].pos <= call.offset /\ fd[f].pos \in Nat
  <2>1. fd[f].pos <= Len(file[fd[f].obj].bytes)
    BY <1>8, PosWithin
  <2>2. fd[f].pos \in 0 .. MaxSize
    BY <1>1 DEF FdOK, Descriptors
  <2> QED BY <1>3, <1>8, <2>1, <2>2
<1> QED BY <1>2, <1>4, <1>5, <1>6, <1>7, <1>8

(* The positions stay where they are, within the old bytes.                *)
LEMMA GrownIs ==
  ASSUME NEW n, NEW fds, NEW fds2, Core(flash, fd, call, file, view), call.op = "append",
         call.step = "run", call.written > 0, HoldsWork(flash, call), n = call.offset + call.written,
         SizesOf(fd, fds, call.obj), Resized(fds, fds2, call.obj, n)
  PROVE  /\ SizesOf(fd, fds2, call.obj)
         /\ \A f \in Fd : fds2[f].open /\ fds2[f].obj = call.obj => fds2[f].size = n
<1>1. /\ Bytes(n) = n /\ n # 0 /\ call.offset <= n /\ n \in Sizes
      /\ \A f \in Fd : fd[f].open /\ fd[f].obj = call.obj => fd[f].pos <= call.offset /\ fd[f].pos \in Nat
  BY AppendHolds
<1>2. call.offset \in Nat /\ n \in Nat
  BY <1>1, WriteIs, ObjectsAssumption DEF Sizes, UNDEFINED_LEN
<1>3. ASSUME NEW f \in Fd, fd[f].open, fd[f].obj = call.obj PROVE Least(fd[f].pos, Bytes(n)) = fd[f].pos
  BY <1>1, <1>2, <1>3 DEF Least
<1>4. ASSUME NEW f \in Fd
      PROVE  /\ fds2[f].open = fd[f].open /\ fds2[f].obj = fd[f].obj /\ fds2[f].pos = fd[f].pos
             /\ fd[f].obj # call.obj => fds2[f].size = fd[f].size
             /\ fds2[f].open /\ fds2[f].obj = call.obj => fds2[f].size = n
  <2>1. fds[f].open = fd[f].open /\ fds[f].obj = fd[f].obj /\ fds[f].pos = fd[f].pos
        /\ (fd[f].obj # call.obj => fds[f].size = fd[f].size)
    BY DEF SizesOf, Placed
  <2>2. CASE fds[f].open /\ fds[f].obj = call.obj
    <3>1. /\ fds2[f].open = fds[f].open /\ fds2[f].obj = fds[f].obj /\ fds2[f].size = n
          /\ fds2[f].pos = Least(fds[f].pos, Bytes(n))
      BY <1>1, <2>2 DEF Resized
    <3>2. Least(fds[f].pos, Bytes(n)) = fd[f].pos
      BY <1>3, <2>1, <2>2
    <3> QED BY <2>1, <2>2, <3>1, <3>2
  <2>3. CASE ~(fds[f].open /\ fds[f].obj = call.obj)
    BY <2>1, <2>3 DEF Resized
  <2> QED BY <2>2, <2>3
<1> QED BY <1>4 DEF SizesOf, Placed

OneFree(fl) == \E p \in Page : fl[p].kind = "free"

LEMMA NotFull ==
  ASSUME NEW fl, ~Full(fl)
  PROVE  OneFree(fl)
BY DEF Full, OneFree

LEMMA FreeLeft ==
  ASSUME NEW fl, NEW fl2, NEW n, Spare(fl, fl2, n), OneFree(fl), n \notin Page
  PROVE  OneFree(fl2)
BY DEF Spare, OneFree

LEMMA AppendStoresFar ==
  ASSUME NEW n, NEW fds, NEW st, Core(flash, fd, call, file, view), call.op = "append",
         call.step = "run", call.written > 0, HoldsWork(flash, call), call.prev # 0,
         n = call.offset + call.written, OneFree(flash), FdOK(flash, fds), SizesOf(fd, fds, call.obj),
         st = HeaderSized(IndexProgrammed(State(flash, fds), call.obj, call.pix, call.work), n)
  PROVE  /\ Stored(flash, st.flash, call) /\ Heads(flash, st.flash, call.obj, n)
         /\ FdOK(st.flash, st.fd) /\ Resized(fds, st.fd, call.obj, n)
         /\ st = State(st.flash, st.fd)
<1>1. FlashOK(flash)
  BY CoreIs
<1>2. /\ n \in Sizes /\ n # 0 /\ call.fd \in Fd /\ call.obj \in Obj /\ call.prev \in Nat
      /\ call.prev > 0 => call.work.size = flash[call.pix].size
      /\ \A s \in Entries(call.prev) : flash[call.pix].ix[s] \in {NoPage, call.work.ix[s]}
      /\ fd[call.fd].open /\ fd[call.fd].obj = call.obj /\ Find(flash, call.obj, 0) # NoPage
  BY AppendHolds
<1>3. call.prev > 0
  BY <1>2
<1>4. PICK st1 : st1 = IndexProgrammed(State(flash, fds), call.obj, call.pix, call.work)
  OBVIOUS
<1>5. /\ Stored(flash, st1.flash, call) /\ HeadsSame(flash, st1.flash) /\ FdOK(st1.flash, st1.fd)
      /\ Resized(fds, st1.fd, call.obj, 0) /\ Spare(flash, st1.flash, NoPage)
      /\ st1 = State(st1.flash, st1.fd)
  BY <1>1, <1>2, <1>3, <1>4, StoreWritten
<1>6. PICK f1, d1 : f1 = st1.flash /\ d1 = st1.fd
  OBVIOUS
<1>7. /\ Stored(flash, f1, call) /\ HeadsSame(flash, f1) /\ FdOK(f1, d1) /\ FlashOK(f1)
      /\ Resized(fds, d1, call.obj, 0) /\ Spare(flash, f1, NoPage)
      /\ st = HeaderSized(State(f1, d1), n)
  BY <1>4, <1>5, <1>6 DEF Stored
<1>8. OneFree(f1)
  BY <1>7, PageType, FreeLeft
<1>9. d1[call.fd].open /\ d1[call.fd].obj = call.obj
  BY <1>2, <1>7 DEF Resized, SizesOf, Placed
<1>10. /\ SizedOnly(f1, st.flash, call.obj, n) /\ FdOK(st.flash, st.fd)
       /\ Resized(d1, st.fd, call.obj, n) /\ Spare(f1, st.flash, NextFree(f1))
       /\ st = State(st.flash, st.fd)
  BY <1>2, <1>7, <1>8, <1>9, HeaderSizedIs DEF OneFree
<1>11. PICK f2, d2 : f2 = st.flash /\ d2 = st.fd
  OBVIOUS
<1>12. SizedOnly(f1, f2, call.obj, n) /\ Resized(d1, d2, call.obj, n) /\ Spare(f1, f2, NextFree(f1))
  BY <1>10, <1>11
<1>13. Resized(fds, d2, call.obj, n)
  BY <1>2, <1>7, <1>12 DEF Resized
<1>14. Stored(flash, f2, call)
  <2>1. FoundSame(flash, f2)
    BY <1>7, <1>12 DEF Stored, SizedOnly, FoundSame
  <2>2. DataSame(flash, f2)
    BY <1>7, <1>12, DataSameSame DEF Stored, SizedOnly
  <2>3. RefIsTable(flash, f2, call)
    BY <1>7, <1>12 DEF Stored, SizedOnly, RefIsTable, RefSame
  <2> QED BY <1>12, <2>1, <2>2, <2>3 DEF Stored, SizedOnly
<1>15. Heads(flash, f2, call.obj, n)
  BY <1>7, <1>12 DEF Stored, FoundSame, HeadsSame, SizedOnly, Heads
<1> QED BY <1>10, <1>11, <1>13, <1>14, <1>15

LEMMA AppendStoresHeader ==
  ASSUME NEW n, NEW fds, NEW st, Core(flash, fd, call, file, view), call.op = "append",
         call.step = "run", call.written > 0, HoldsWork(flash, call), call.prev = 0,
         n = call.offset + call.written, OneFree(flash), FdOK(flash, fds), SizesOf(fd, fds, call.obj),
         st = HeaderMoved(State(flash, fds), call.obj, fds[call.fd].hdr, call.work)
  PROVE  /\ Stored(flash, st.flash, call) /\ Heads(flash, st.flash, call.obj, n)
         /\ FdOK(st.flash, st.fd) /\ Resized(fds, st.fd, call.obj, n)
         /\ st = State(st.flash, st.fd)
<1>1. FlashOK(flash)
  BY CoreIs
<1>2. /\ call.fd \in Fd /\ call.obj \in Obj /\ call.work.size = n
      /\ fd[call.fd].open /\ fd[call.fd].obj = call.obj
  BY AppendHolds
<1>3. fds[call.fd].open /\ fds[call.fd].obj = call.obj
  BY <1>2 DEF SizesOf, Placed
<1>4. fds[call.fd].hdr = Find(flash, call.obj, 0)
  BY <1>2, <1>3 DEF FdOK, Knows
<1>6. /\ Stored(flash, st.flash, call) /\ Heads(flash, st.flash, call.obj, call.work.size)
      /\ FdOK(st.flash, st.fd) /\ Resized(fds, st.fd, call.obj, call.work.size)
      /\ Spare(flash, st.flash, NextFree(flash)) /\ st = State(st.flash, st.fd)
  <2>1. st = HeaderMoved(State(flash, fds), call.obj, Find(flash, call.obj, 0), call.work)
    BY <1>4
  <2> QED BY <1>1, <1>2, <2>1, StoreHeader DEF OneFree
<1> QED BY <1>2, <1>6

LEMMA AppendStoredIs ==
  ASSUME NEW n, NEW st, Core(flash, fd, call, file, view), call.op = "append", call.step = "run",
         call.written > 0, HoldsWork(flash, call), n = call.offset + call.written, HeaderAnew => OneFree(flash),
         st = AppendStored
  PROVE  /\ Stored(flash, st.flash, call) /\ Heads(flash, st.flash, call.obj, n)
         /\ FdOK(st.flash, st.fd) /\ SizesOf(fd, st.fd, call.obj)
         /\ st = State(st.flash, st.fd)
<1>1. FlashOK(flash) /\ FdOK(flash, fd)
  BY CoreIs
<1>2. /\ n \in Sizes /\ n \in 0 .. UNDEFINED_LEN /\ n # 0 /\ call.fd \in Fd /\ call.obj \in Obj
      /\ call.prev \in Nat
      /\ \A s \in Entries(call.prev) : flash[call.pix].ix[s] \in {NoPage, call.work.ix[s]}
      /\ call.offset = 0 /\ call.prev = 0 => HSize(flash, call.obj) = UNDEFINED_LEN
      /\ call.prev = 0 => call.work.size = n
      /\ fd[call.fd].open /\ fd[call.fd].obj = call.obj
  BY AppendHolds
<1>3. SizesOf(fd, fd, call.obj)
  BY DEF SizesOf, Placed
<1>4. PICK st0 : st0 = IF call.prev # 0
                       THEN HeaderSized(IndexProgrammed(Now, call.obj, call.pix, call.work), n)
                       ELSE IF call.offset = 0 THEN State(Programmed(flash, call.pix, call.work), fd)
                       ELSE HeaderMoved(Now, call.obj, fd[call.fd].hdr, call.work)
  OBVIOUS
<1>5. st = [st0 EXCEPT !.fd[call.fd].size = n]
  <2>1. n = place /\ call.written # 0
    BY DEF place
  <2>2. AppendStored = [st0 EXCEPT !.fd[call.fd].size = place]
    BY <1>4, <2>1, Zenon DEF AppendStored
  <2> QED BY <2>1, <2>2
<1>6. PICK f0, d0 : f0 = st0.flash /\ d0 = st0.fd
  OBVIOUS
<1>7. /\ Stored(flash, f0, call) /\ Heads(flash, f0, call.obj, n) /\ FdOK(f0, d0)
      /\ SizesOf(fd, d0, call.obj) /\ st0 = State(f0, d0)
  <2>1. CASE call.prev # 0
    <3>1. st0 = HeaderSized(IndexProgrammed(State(flash, fd), call.obj, call.pix, call.work), n)
      BY <1>4, <2>1 DEF Now
    <3>2. /\ Stored(flash, st0.flash, call) /\ Heads(flash, st0.flash, call.obj, n)
          /\ FdOK(st0.flash, st0.fd) /\ Resized(fd, st0.fd, call.obj, n)
          /\ st0 = State(st0.flash, st0.fd)
      BY <1>1, <1>3, <2>1, <3>1, AppendStoresFar DEF HeaderAnew
    <3>3. SizesOf(fd, st0.fd, call.obj)
      BY <1>3, <3>2, GrownIs
    <3> QED BY <1>6, <3>2, <3>3
  <2>2. CASE call.prev = 0 /\ call.offset = 0
    <3>1. f0 = Programmed(flash, call.pix, call.work) /\ d0 = fd /\ st0 = State(f0, d0)
      BY <1>4, <1>6, <2>2, StateIs
    <3>2. PICK d1 : d1 = Event(fd, "UPD", call.obj, 0, call.pix, n)
      OBVIOUS
    <3>3. \A s \in Entries(0) : flash[call.pix].ix[s] \in {NoPage, call.work.ix[s]}
      BY <1>2, <2>2
    <3>4. /\ Stored(flash, f0, call) /\ Heads(flash, f0, call.obj, call.work.size)
          /\ FdOK(f0, fd) /\ Spare(flash, f0, NoPage)
      <4> QED BY <1>1, <1>2, <2>2, <3>1, <3>2, <3>3, StoreFirst
    <3> QED BY <1>2, <1>3, <2>2, <3>1, <3>4
  <2>3. CASE call.prev = 0 /\ call.offset # 0
    <3>0. OneFree(flash)
      <4>1. call.offset > 0
        BY <2>3, WriteIs
      <4> QED BY <4>1 DEF HeaderAnew
    <3>1. st0 = HeaderMoved(State(flash, fd), call.obj, fd[call.fd].hdr, call.work)
      BY <1>4, <2>3 DEF Now
    <3>2. /\ Stored(flash, st0.flash, call) /\ Heads(flash, st0.flash, call.obj, n)
          /\ FdOK(st0.flash, st0.fd) /\ Resized(fd, st0.fd, call.obj, n)
          /\ st0 = State(st0.flash, st0.fd)
      BY <1>1, <1>3, <2>3, <3>0, <3>1, AppendStoresHeader
    <3>3. SizesOf(fd, st0.fd, call.obj)
      BY <1>3, <3>2, GrownIs
    <3> QED BY <1>6, <3>2, <3>3
  <2> QED BY <1>2, <2>1, <2>2, <2>3
<1>8. PICK d2 : d2 = [d0 EXCEPT ![call.fd].size = n]
  OBVIOUS
<1>9. /\ FdOK(f0, d2) /\ d2[call.fd].open = d0[call.fd].open /\ d2[call.fd].obj = d0[call.fd].obj
      /\ d2[call.fd].pos = d0[call.fd].pos /\ d2[call.fd].size = n
      /\ \A g \in Fd : g # call.fd => d2[g] = d0[g]
  <2>1. SetSize(d0, call.fd, n, d2)
    BY <1>8 DEF SetSize
  <2> QED BY <1>2, <1>7, <2>1, SizeSet
<1>10. SizesOf(fd, d2, call.obj)
  <2>1. SizesOf(fd, d0, call.obj) /\ fd[call.fd].obj = call.obj
    BY <1>2, <1>7
  <2>2. ASSUME NEW g \in Fd
        PROVE  /\ d2[g].open = fd[g].open /\ d2[g].obj = fd[g].obj /\ d2[g].pos = fd[g].pos
               /\ fd[g].obj # call.obj => d2[g].size = fd[g].size
    <3>1. CASE g = call.fd
      BY <1>9, <2>1, <3>1 DEF SizesOf, Placed
    <3>2. CASE g # call.fd
      BY <1>9, <2>1, <3>2 DEF SizesOf, Placed
    <3> QED BY <3>1, <3>2
  <2> QED BY <2>2 DEF SizesOf, Placed
<1>11. st = State(f0, d2)
  BY <1>5, <1>7, <1>8 DEF State
<1>12. st.flash = f0 /\ st.fd = d2
  BY <1>11, StateIs
<1> QED BY <1>7, <1>9, <1>10, <1>11, <1>12

(* The index page that an append makes is not there yet.                   *)
LEMMA NotMade ==
  ASSUME NEW n, NEW k, Core(flash, fd, call, file, view), call.op = "append", call.step = "run",
         call.written < call.len, n = call.offset + call.written, k = IxSpan(DataSpan(n)),
         k # call.prev, k > 0,
         call.written > 0 \/ k > IxSpan(DataSpan(fd[call.fd].size - 1))
  PROVE  Find(flash, call.obj, k) = NoPage /\ call.offset <= n /\ n > 0
<1>1. /\ FlashOK(flash) /\ FdOK(flash, fd) /\ Exist(flash, file) /\ Layout(flash, call, file)
      /\ SizesAgree(flash, fd, call, file) /\ CallOK(flash, fd, call, file, view)
  BY CoreIs
<1>2. call # NoCall
  BY NoCallIs
<1>3. /\ call.fd \in Fd /\ call.obj \in Obj
      /\ call.offset \in Nat /\ call.written \in Nat /\ call.len \in Nat
  BY WriteIs
<1>4. /\ fd[call.fd].open /\ fd[call.fd].obj = call.obj /\ file[call.obj].exists
  BY <1>2, CallsFd
<1>5. n \in Nat /\ k \in Nat
  BY PlaceType
<1>6. Len(Current(call, file, call.obj)) = n
  BY <1>3, CurrentIs
<1>7. n > 0
  <2>1. n = 0 => k = 0
    BY SpanIs, FirstType, IxSpanOfFirst, ObjectsAssumption
  <2> QED BY <1>5, <2>1
<1>8. PICK m \in Nat : m = n - 1
  BY <1>5, <1>7
<1>9. IxSpan(DataSpan(m)) < k
  <2>1. CASE call.written = 0 /\ call.prev = -1
    <3>1. ~Changing(call, call.obj)
      BY <2>1 DEF Changing
    <3>2. Bytes(fd[call.fd].size) = n
      BY <1>1, <1>3, <1>4, <1>6, <3>1 DEF SizesAgree
    <3>3. fd[call.fd].size = n
      BY <1>7, <3>2 DEF Bytes
    <3>4. k > IxSpan(DataSpan(m))
      BY <1>8, <2>1, <3>3
    <3>5. IxSpan(DataSpan(m)) \in Nat
      BY SpanOf, IxSpanType
    <3> QED BY <1>5, <3>4, <3>5
  <2>2. CASE call.written > 0 /\ call.prev = IxSpan(DataSpan(n - 1)) /\ call.prev < k
    BY <1>8, <2>2
  <2> QED BY <2>1, <2>2, Paging
<1>10. ASSUME NEW s \in Entries(k), First(s) < n PROVE FALSE
  <2>1. s \in Nat /\ s \in Spans /\ IxSpan(s) = k /\ n \in Nat \ {0}
    BY <1>5, <1>7, SpansType DEF Entries
  <2>2. s <= DataSpan(m)
    BY <1>8, <1>10, <2>1, Within
  <2>3. DataSpan(m) \in Nat
    BY SpanOf
  <2>4. IxSpan(s) <= IxSpan(DataSpan(m)) /\ IxSpan(DataSpan(m)) \in Nat
    BY <2>1, <2>2, <2>3, IxSpansRise, IxSpanType
  <2> QED BY <1>5, <1>9, <2>1, <2>4
<1>11. ASSUME Find(flash, call.obj, k) # NoPage PROVE FALSE
  <2>1. Bounded(call, file, call.obj, k)
    BY <1>1, <1>3, <1>5, <1>11 DEF Layout
  <2>2. \E s \in Entries(k) : First(s) < Len(Current(call, file, call.obj))
    BY <2>1 DEF Bounded
  <2> QED BY <1>6, <1>10, <2>2
<1> QED BY <1>3, <1>7, <1>11

(* A new index page is made.                                               *)
NewIndexMade(fl, fds, fl2, fds2, o, k) ==
  /\ fl2 = Allocated(fl, IndexPage(o, k))
  /\ fds2 = Event(fds, "NEW", o, k, NextFree(fl), 0)

LEMMA NewIndexIs ==
  ASSUME NEW fl, NEW fds, NEW fl2, NEW fds2, NEW o, NEW k, FlashOK(fl), FdOK(fl, fds), o \in Obj,
         k \in Nat, k # 0, Find(fl, o, k) = NoPage, OneFree(fl), NewIndexMade(fl, fds, fl2, fds2, o, k)
  PROVE  /\ FlashOK(fl2) /\ FdOK(fl2, fds2) /\ DataSame(fl, fl2) /\ RefSame(fl, fl2)
         /\ HeadsSame(fl, fl2) /\ Shown(fds, fds2)
         /\ Find(fl2, o, k) = NextFree(fl) /\ Find(fl2, o, k) # NoPage
         /\ \A u \in Obj, j \in Nat : Find(fl2, u, j) # NoPage <=> Find(fl, u, j) # NoPage \/ (u = o /\ j = k)
<1> DEFINE p == NextFree(fl)
<1>1. Indexed(fl, fl2, o, k, p, IndexPage(o, k)) /\ p \in Page
  BY IndexMadeIs DEF OneFree, NewIndexMade
<1>2. p # NoPage /\ p \in Target
  BY <1>1, PageType DEF Target
<1>3. PICK x : x = IndexPage(o, k)
  OBVIOUS
<1>4. \A s \in Entries(k) : x.ix[s] = NoPage
  BY <1>3, NewIndexPage
<1>5. Indexed(fl, fl2, o, k, p, x)
  BY <1>1, <1>3
<1> HIDE DEF p
<1>6. \A u \in Obj, j \in Nat : Find(fl2, u, j) = IF u = o /\ j = k THEN p ELSE Find(fl, u, j)
  BY <1>5 DEF Indexed
<1>7. FlashOK(fl2) /\ DataSame(fl, fl2)
  BY <1>5 DEF Indexed, DataSame
<1>8. /\ \A u \in Obj, s \in Spans :
            Ref(fl2, u, s) = IF u = o /\ IxSpan(s) = k
                             THEN IF p = NoPage THEN NoPage ELSE x.ix[s] ELSE Ref(fl, u, s)
      /\ \A u \in Obj : Find(fl2, u, 0) # NoPage =>
            HSize(fl2, u) = IF u = o /\ k = 0 THEN x.size ELSE HSize(fl, u)
  BY <1>2, <1>5, IndexedRef
<1>9. RefSame(fl, fl2)
  <2>1. ASSUME NEW s \in Spans, IxSpan(s) = k PROVE Ref(fl2, o, s) = Ref(fl, o, s)
    <3>1. s \in Entries(k) /\ Ref(fl, o, s) = NoPage
      BY <2>1 DEF Entries, Ref
    <3> QED BY <1>2, <1>4, <1>8, <2>1, <3>1
  <2> QED BY <1>8, <2>1 DEF RefSame
<1>10. HeadsSame(fl, fl2)
  <2>1. \A u \in Obj : Find(fl2, u, 0) = Find(fl, u, 0)
    BY <1>6
  <2> QED BY <1>8, <2>1 DEF HeadsSame
<1>11. FdOK(fl2, fds2) /\ Resized(fds, fds2, o, IF k = 0 THEN 0 ELSE 0)
  <2>1. fds2 = Event(fds, "NEW", o, k, p, 0) /\ 0 \in 0 .. UNDEFINED_LEN
    BY SizesType DEF NewIndexMade, p
  <2> QED BY <1>2, <1>5, <2>1, EventIs
<1>12. Shown(fds, fds2)
  BY <1>11 DEF Resized, Shown
<1>13. Find(fl2, o, k) = p
  BY <1>6
<1> QED BY <1>2, <1>6, <1>7, <1>9, <1>10, <1>11, <1>12, <1>13 DEF p

LEMMA AppendIndexKeeps ==
  ASSUME Core(flash, fd, call, file, view), AppendIndex
  PROVE  Core(flash', fd', call', file, view) /\ call' # NoCall
<1> DEFINE o == call.obj
           n == call.offset + call.written
           s == DataSpan(n)
           k == IxSpan(s)
<1>0. PICK st : st = AppendStored
  OBVIOUS
<1>1. /\ call.op = "append" /\ call.step = "run" /\ call.written < call.len /\ k # call.prev /\ k > 0
      /\ AppendsNewIndex
      /\ Load(State(Allocated(st.flash, IndexPage(o, k)),
                    Event(st.fd, "NEW", o, k, NextFree(st.flash), 0)), k, NextFree(st.flash))
  BY <1>0 DEF AppendIndex, AtIndex, Running, span, place
<1>2. /\ FlashOK(flash) /\ FdOK(flash, fd) /\ Exist(flash, file) /\ Layout(flash, call, file)
      /\ SizesAgree(flash, fd, call, file) /\ CallOK(flash, fd, call, file, view)
      /\ Views(fd, call, file, view)
  BY CoreIs
<1>3. call # NoCall
  BY <1>1, NoCallIs
<1>4. /\ call.fd \in Fd /\ o \in Obj /\ Appending(flash, fd, call, file, view) /\ ~call.full
      /\ call.offset \in Nat /\ call.written \in Nat /\ call.len \in Nat /\ call.prev \in Int
  BY <1>1, <1>2, <1>3, CallIs, WriteIs DEF Appending, WritesOn, Locals
<1>5. /\ fd[call.fd].open /\ fd[call.fd].obj = o /\ Find(flash, o, 0) # NoPage /\ file[o].exists
  BY <1>1, <1>3, CallsFd
<1>6. n \in Nat /\ n <= MaxSize /\ s \in Spans /\ k \in Nat
  BY <1>1, PlaceType
<1>7. OneFree(st.flash) /\ (call.written > 0 /\ HeaderAnew => OneFree(flash))
  BY <1>0, NotFull DEF AppendIndex
<1> HIDE DEF o, n, s, k
<1>8. /\ InHand(call, file)
      /\ \/ call.written = 0 /\ call.prev = -1
         \/ call.written > 0 /\ call.prev < k /\ call.prev \in Nat /\ HoldsWork(flash, call)
  BY <1>1, Paging DEF n, s, k
<1>9. PICK fl1, fds1 : fl1 = st.flash /\ fds1 = st.fd
  OBVIOUS
<1>10. /\ Stored(flash, fl1, call) /\ FdOK(fl1, fds1) /\ SizesOf(fd, fds1, o) /\ OneFree(fl1)
       /\ IF call.written = 0 THEN fl1 = flash /\ fds1 = fd ELSE Heads(flash, fl1, o, n)
  <2>1. CASE call.written = 0 /\ call.prev = -1
    <3>1. fl1 = flash /\ fds1 = fd
      BY <1>0, <1>9, <2>1, StateIs DEF AppendStored, Now
    <3>2. RefIsTable(flash, flash, call)
      BY <2>1, TableOut DEF RefIsTable
    <3>3. Stored(flash, flash, call)
      BY <1>2, <3>2 DEF Stored, FoundSame, DataSame
    <3>4. SizesOf(fd, fd, o)
      BY DEF SizesOf, Placed
    <3> QED BY <1>2, <1>7, <1>9, <2>1, <3>1, <3>3, <3>4
  <2>2. CASE call.written > 0 /\ call.prev < k /\ call.prev \in Nat /\ HoldsWork(flash, call)
    <3>1. /\ Stored(flash, st.flash, call) /\ Heads(flash, st.flash, call.obj, n)
          /\ FdOK(st.flash, st.fd) /\ SizesOf(fd, st.fd, call.obj)
      BY <1>0, <1>1, <1>7, <2>2, AppendStoredIs DEF n
    <3> QED BY <1>7, <1>9, <2>2, <3>1 DEF o
  <2> QED BY <1>8, <2>1, <2>2
<1>11. Find(flash, o, k) = NoPage /\ call.offset <= n /\ n > 0
  <2>1. call.written > 0 \/ k > IxSpan(DataSpan(fd[call.fd].size - 1))
    <3>1. CASE call.written = 0
      <4>1. IxSpan(span) = k
        BY DEF span, place, k, s, n
      <4> QED BY <1>1, <3>1, <4>1 DEF AppendsNewIndex
    <3> QED BY <1>4, <3>1
  <2> QED BY <1>1, <2>1, NotMade DEF o, n, s, k
<1>12. FlashOK(fl1) /\ FoundSame(flash, fl1) /\ DataSame(flash, fl1) /\ RefIsTable(flash, fl1, call)
  BY <1>10 DEF Stored
<1>13. Find(fl1, o, k) = NoPage
  BY <1>4, <1>6, <1>11, <1>12 DEF FoundSame
<1>14. PICK fl2, fds2 : /\ fl2 = Allocated(fl1, IndexPage(o, k))
                        /\ fds2 = Event(fds1, "NEW", o, k, NextFree(fl1), 0)
  OBVIOUS
<1>15. Load(State(fl2, fds2), k, NextFree(fl1))
  BY <1>1, <1>9, <1>14
<1>16. /\ FlashOK(fl2) /\ FdOK(fl2, fds2) /\ DataSame(fl1, fl2) /\ RefSame(fl1, fl2)
       /\ HeadsSame(fl1, fl2) /\ Shown(fds1, fds2)
       /\ Find(fl2, o, k) = NextFree(fl1) /\ Find(fl2, o, k) # NoPage
       /\ \A u \in Obj, j \in Nat : Find(fl2, u, j) # NoPage <=> Find(fl1, u, j) # NoPage \/ (u = o /\ j = k)
  <2>1. NewIndexMade(fl1, fds1, fl2, fds2, o, k)
    BY <1>14 DEF NewIndexMade
  <2> QED BY <1>1, <1>4, <1>6, <1>10, <1>12, <1>13, <2>1, NewIndexIs
<1>17. fds2[call.fd].open /\ fds2[call.fd].obj = call.obj
  BY <1>4, <1>5, <1>10, <1>16 DEF SizesOf, Placed, Shown, o
<1>18. /\ flash' = fl2 /\ FdOK(fl2, fd') /\ Shown(fds2, fd')
       /\ Loaded(call, call', k, Find(fl2, call.obj, k), fl2[Find(fl2, call.obj, k)])
  <2>1. Find(fl2, call.obj, k) # NoPage /\ Load(State(fl2, fds2), k, Find(fl2, call.obj, k))
    BY <1>15, <1>16 DEF o
  <2> QED BY <1>4, <1>6, <1>16, <1>17, <2>1, LoadIs
<1>19. PICK p : p = Find(fl2, call.obj, k)
  OBVIOUS
<1>20. p \in Target /\ p # NoPage /\ fl2[p] \in Pages
  BY <1>16, <1>19, FindIs, IxFields DEF o
<1>21. /\ LikeCall(call, call') /\ call'.step = "run" /\ call'.prev = k /\ call'.pix = p
       /\ call'.work = fl2[p]
  <2>1. Loaded(call, call', k, p, fl2[p]) /\ call \in Locals
    BY <1>2, <1>3, <1>18, <1>19, CallIs
  <2> QED BY <1>1, <1>6, <1>20, <2>1, LoadedIs
<1>22. Placed(fd, fd') /\ \A f \in Fd : fd[f].obj # o => fd'[f].size = fd[f].size
  BY <1>10, <1>16, <1>18 DEF SizesOf, Placed, Shown
<1>23. Changing(call, o) <=> call.written > 0
  BY <1>1 DEF Changing, o
<1>24. \A u \in Obj : u # o => ~Changing(call, u)
  BY DEF Changing, o
<1>25. SizesHeld(flash, fl2, fd, fd', call)
  <2>1. ASSUME NEW u \in Obj, Find(flash, u, 0) # NoPage, ~Changing(call, u)
        PROVE  HSize(fl2, u) = HSize(flash, u)
    <3>1. Find(fl1, u, 0) # NoPage
      BY <1>12, <2>1 DEF FoundSame
    <3>2. HSize(fl2, u) = HSize(fl1, u)
      BY <1>16, <3>1 DEF HeadsSame
    <3>3. CASE call.written = 0
      BY <1>10, <3>2, <3>3
    <3>4. CASE call.written # 0
      <4>1. u # o
        BY <1>4, <1>23, <2>1, <3>4
      <4>2. HSize(fl1, u) = HSize(flash, u)
        BY <1>10, <2>1, <3>4, <4>1 DEF Heads
      <4> QED BY <3>2, <4>2
    <3> QED BY <3>3, <3>4
  <2>2. ASSUME NEW f \in Fd, ~Changing(call, fd[f].obj) PROVE fd'[f].size = fd[f].size
    <3>1. CASE call.written = 0
      BY <1>10, <1>16, <1>18, <3>1 DEF Shown
    <3>2. CASE call.written # 0
      <4>1. fd[f].obj # o
        BY <1>4, <1>23, <2>2, <3>2
      <4> QED BY <1>22, <4>1
    <3> QED BY <3>1, <3>2
  <2> QED BY <1>22, <2>1, <2>2 DEF SizesHeld, Placed
<1>26. RefIsTable(flash, fl2, call) /\ DataSame(flash, fl2)
  BY <1>12, <1>16, DataSameSame DEF RefIsTable, RefSame
<1>27. \A u \in Obj, j \in Nat : Find(fl2, u, j) # NoPage <=> Find(flash, u, j) # NoPage \/ (u = o /\ j = k)
  BY <1>12, <1>16 DEF FoundSame
<1>28. AllBounded(fl2, call', file)
  BY <1>2, <1>4, <1>8, <1>21, <1>27, BoundedOn DEF o
<1>29. \A u \in Obj : Find(fl2, u, 0) # NoPage <=> Find(flash, u, 0) # NoPage
  BY <1>1, <1>27
<1>30. Views(fd', call', file, view)
  <2>1. SameFile(call, call')
    BY <1>21 DEF SameFile, LikeCall
  <2>2. \A f \in Fd : fd[f].pos \in 0 .. MaxSize
    BY <1>2 DEF FdOK, Descriptors
  <2> QED BY <1>1, <1>2, <1>21, <1>22, <2>1, <2>2, ViewsKept
<1>31. Appending(fl2, fd', call', file, view)
  <2>1. call.offset + call.written \in Nat /\ k = IxSpan(DataSpan(call.offset + call.written)) /\ k # 0
    BY <1>1, <1>6 DEF n, s, k
  <2>2. call.offset <= Bytes(HSize(fl2, call.obj))
    <3>1. Find(fl1, o, 0) # NoPage
      BY <1>4, <1>5, <1>12 DEF FoundSame
    <3>2. HSize(fl2, o) = HSize(fl1, o)
      BY <1>4, <1>16, <3>1 DEF HeadsSame
    <3>3. CASE call.written = 0
      BY <1>4, <1>10, <3>2, <3>3 DEF Appending, o
    <3>4. CASE call.written # 0
      <4>1. HSize(fl1, o) = n
        BY <1>4, <1>5, <1>10, <3>4 DEF Heads
      <4>2. Bytes(n) = n
        BY <1>6, ObjectsAssumption DEF Bytes, UNDEFINED_LEN
      <4> QED BY <1>11, <3>2, <4>1, <4>2 DEF o
    <3> QED BY <3>3, <3>4
  <2> QED BY <1>1, <1>4, <1>19, <1>21, <1>22, <2>1, <2>2, AppendingLoaded
<1>32. Goes(fl2, fd', call', file, view)
  <2>1. call'.op = "append"
    BY <1>1, <1>21 DEF LikeCall
  <2> QED BY <1>31, <2>1 DEF Goes
<1>33. Find(fl2, call.obj, k) # NoPage
  BY <1>16 DEF o
<1>34. Core(fl2, fd', call', file, view) /\ call' # NoCall
  BY <1>1, <1>3, <1>6, <1>16, <1>18, <1>25, <1>26, <1>28, <1>29, <1>30, <1>32, <1>33, Loads
<1> QED BY <1>18, <1>34

-----------------------------------------------------------------------------
(* A write ends.                                                           *)

LEMMA AtLastByte ==
  ASSUME Core(flash, fd, call, file, view), call.op \in {"append", "modify"}, call.step = "run",
         call.written = call.len
  PROVE  HoldsWork(flash, call) /\ InHand(call, file) /\ call.written > 0 /\ call # NoCall
<1>1. /\ call # NoCall
      /\ call.prev = -1 \/ HoldsWork(flash, call)
  BY CoreIs, CallIs, NoCallIs
<1>2. /\ call.offset \in Nat /\ call.len \in Nat /\ call.obj \in Obj
      /\ WritesOn(flash, fd, call, file, view)
      /\ call.op = "append" => call.offset = Len(file[call.obj].bytes)
      /\ call.op = "modify" => call.offset + call.len <= Len(file[call.obj].bytes)
  BY WriteIs
<1>3. call.written > 0 /\ call.prev = IxSpan(DataSpan(call.offset + call.written - 1))
  BY <1>2 DEF WritesOn
<1>4. PICK m \in Nat : m = call.offset + call.written - 1
  BY <1>2, <1>3
<1>5. m < Len(Current(call, file, call.obj))
  <2>1. Len(Current(call, file, call.obj)) =
          IF call.op = "append" THEN call.offset + call.written ELSE Len(file[call.obj].bytes)
    BY <1>2, CurrentIs
  <2>2. PICK L : L = Len(file[call.obj].bytes)
    OBVIOUS
  <2>3. L \in Nat
    BY <1>2, <2>2, CoreIs, FileType
  <2>4. CASE call.op = "append"
    BY <1>2, <1>4, <2>1, <2>4
  <2>5. CASE call.op = "modify"
    <3>1. m < L
      BY <1>2, <1>4, <2>2, <2>3, <2>5
    <3> QED BY <2>1, <2>2, <2>5, <3>1
  <2> QED BY <2>4, <2>5
<1>6. /\ DataSpan(m) \in Entries(IxSpan(DataSpan(m))) /\ IxSpan(DataSpan(m)) \in Nat
      /\ First(DataSpan(m)) < Len(Current(call, file, call.obj))
  BY <1>5, LastByte
<1>7. call.prev = IxSpan(DataSpan(m)) /\ call.prev # -1
  BY <1>3, <1>4, <1>6
<1>8. InHand(call, file)
  <2>1. PICK s : s = DataSpan(m)
    OBVIOUS
  <2>2. s \in Entries(call.prev) /\ First(s) < Len(Current(call, file, call.obj))
    BY <1>6, <1>7, <2>1
  <2> QED BY <2>2 DEF InHand
<1> QED BY <1>1, <1>3, <1>7, <1>8

(* The descriptor's cursor is put on the page in hand.                     *)
LEMMA CursorOnWork ==
  ASSUME NEW st, Core(flash, fd, call, file, view), call # NoCall, call.op # "create",
         HoldsWork(flash, call), st = Cursor(Now, call.fd, call.prev, call.pix)
  PROVE  FdOK(flash, st.fd) /\ Shown(fd, st.fd) /\ st = State(flash, st.fd) /\ st.flash = flash
<1>1. FlashOK(flash) /\ FdOK(flash, fd) /\ call.fd \in Fd
  BY CoreIs, CallIs
<1>2. fd[call.fd].open /\ fd[call.fd].obj = call.obj
  BY CallsFd
<1>3. call.pix = Find(flash, call.obj, call.prev) /\ call.prev \in Nat
  BY DEF HoldsWork
<1>4. CursorPut(flash, fd, call.fd, call.prev, st)
  BY <1>2, <1>3 DEF CursorPut, Now
<1>5. FdOK(flash, st.fd) /\ Shown(fd, st.fd) /\ st = State(flash, st.fd)
  BY <1>1, <1>2, <1>3, <1>4, CursorIs
<1> QED BY <1>5, StateIs

LEMMA AppendFinishKeeps ==
  ASSUME Core(flash, fd, call, file, view), AppendFinish
  PROVE  /\ call' = NoCall /\ Core(flash', fd', call', Done(call, file), ViewsOf(fd'))
         /\ Repositioned(fd, fd', call.fd, call.offset + call.len)
<1> DEFINE o == call.obj
           n == call.offset + call.written
           st1 == Cursor(Now, call.fd, call.prev, call.pix)
           st == [st1 EXCEPT !.fd[call.fd].size = end]
           done == IF call.prev # 0
                   THEN HeaderSized(IndexProgrammed(st, call.obj, call.pix, call.work), end)
                   ELSE IF call.offset = 0
                   THEN State(Programmed(flash, call.pix, call.work),
                              Event(st.fd, "UPD", call.obj, 0, call.pix, end))
                   ELSE HeaderMoved(st, call.obj, st.fd[call.fd].hdr, call.work)
<1>2. Return([done EXCEPT !.fd[call.fd].pos = end])
  BY Zenon DEF AppendFinish
<1> HIDE DEF o, n, st1, st, done
<1>3. call.op = "append" /\ call.step = "run" /\ call.written = call.len
  <2>1. AtEnd("append")
    BY Zenon DEF AppendFinish
  <2> QED BY <2>1 DEF AtEnd, Running
<1>4. n = end
  BY <1>3 DEF end, n
<1>5. /\ FlashOK(flash) /\ FdOK(flash, fd) /\ Exist(flash, file) /\ SizesAgree(flash, fd, call, file)
  BY CoreIs
<1>6. HoldsWork(flash, call) /\ InHand(call, file) /\ call.written > 0 /\ call # NoCall
  BY <1>3, AtLastByte
<1>7. call.prev # 0 \/ call.offset > 0 => OneFree(flash)
  BY Zenon, NotFull DEF AppendFinish, HeaderAnew
<1>8. /\ n \in Sizes /\ n \in 0 .. UNDEFINED_LEN /\ Bytes(n) = n /\ n # 0 /\ call.offset <= n
      /\ call.fd \in Fd /\ o \in Obj /\ call.prev \in Nat
      /\ call.prev = 0 => call.work.size = n
      /\ \A s \in Entries(call.prev) : flash[call.pix].ix[s] \in {NoPage, call.work.ix[s]}
      /\ call.offset = 0 /\ call.prev = 0 => HSize(flash, call.obj) = UNDEFINED_LEN
      /\ fd[call.fd].open /\ fd[call.fd].obj = o
      /\ \A f \in Fd : fd[f].open /\ fd[f].obj = call.obj => fd[f].pos <= call.offset /\ fd[f].pos \in Nat
  BY <1>3, <1>6, AppendHolds DEF n, o
<1>9. call.offset \in Nat /\ n \in Nat /\ n \in 0 .. MaxSize
  BY <1>3, WriteIs, PlaceType, ObjectsAssumption DEF n
<1>10. FdOK(flash, st1.fd) /\ Shown(fd, st1.fd) /\ st1 = State(flash, st1.fd)
  BY <1>3, <1>6, CursorOnWork DEF st1
<1>11. PICK d1 : d1 = st1.fd
  OBVIOUS
<1>12. PICK d2 : d2 = [d1 EXCEPT ![call.fd].size = n]
  OBVIOUS
<1>13. /\ FdOK(flash, d2) /\ d2[call.fd].open = d1[call.fd].open /\ d2[call.fd].obj = d1[call.fd].obj
       /\ d2[call.fd].pos = d1[call.fd].pos /\ d2[call.fd].size = n
       /\ \A g \in Fd : g # call.fd => d2[g] = d1[g]
  <2>1. SetSize(d1, call.fd, n, d2) /\ FdOK(flash, d1)
    BY <1>10, <1>11, <1>12 DEF SetSize
  <2> QED BY <1>8, <2>1, SizeSet
<1>14. SizesOf(fd, d2, o)
  <2>1. ASSUME NEW g \in Fd
        PROVE  /\ d2[g].open = fd[g].open /\ d2[g].obj = fd[g].obj /\ d2[g].pos = fd[g].pos
               /\ fd[g].obj # o => d2[g].size = fd[g].size
    <3>0. /\ d1[g].open = fd[g].open /\ d1[g].obj = fd[g].obj /\ d1[g].pos = fd[g].pos
          /\ d1[g].size = fd[g].size
      BY <1>10, <1>11 DEF Shown
    <3>1. CASE g = call.fd
      BY <1>8, <1>13, <3>0, <3>1
    <3>2. CASE g # call.fd
      BY <1>13, <3>0, <3>2
    <3> QED BY <3>1, <3>2
  <2> QED BY <2>1 DEF SizesOf, Placed
<1>15. st = State(flash, d2) /\ st.fd = d2
  <2>1. st = State(flash, d2)
    BY <1>4, <1>10, <1>11, <1>12 DEF State, st
  <2> QED BY <2>1, StateIs
<1>16. PICK f3, d3 : f3 = done.flash /\ d3 = done.fd
  OBVIOUS
<1>17. /\ Stored(flash, f3, call) /\ Heads(flash, f3, o, n) /\ FdOK(f3, d3) /\ Resized(d2, d3, o, n)
       /\ done = State(f3, d3)
  <2>1. CASE call.prev # 0
    <3>1. done = HeaderSized(IndexProgrammed(State(flash, d2), call.obj, call.pix, call.work), n)
      BY <1>4, <1>15, <2>1 DEF done
    <3>2. n = call.offset + call.written /\ SizesOf(fd, d2, call.obj)
      BY <1>14 DEF n, o
    <3>3. /\ Stored(flash, done.flash, call) /\ Heads(flash, done.flash, call.obj, n)
          /\ FdOK(done.flash, done.fd) /\ Resized(d2, done.fd, call.obj, n)
          /\ done = State(done.flash, done.fd)
      BY <1>3, <1>6, <1>7, <1>13, <2>1, <3>1, <3>2, AppendStoresFar
    <3> QED BY <1>16, <3>3 DEF o
  <2>2. CASE call.prev = 0 /\ call.offset = 0
    <3>1. /\ f3 = Programmed(flash, call.pix, call.work)
          /\ d3 = Event(d2, "UPD", call.obj, 0, call.pix, n) /\ done = State(f3, d3)
      BY <1>4, <1>15, <1>16, <2>2, StateIs DEF done
    <3>2. \A s \in Entries(0) : flash[call.pix].ix[s] \in {NoPage, call.work.ix[s]}
      BY <1>8, <2>2
    <3>3. call.obj \in Obj
      BY <1>8 DEF o
    <3>4. /\ Stored(flash, f3, call) /\ Heads(flash, f3, call.obj, call.work.size)
          /\ FdOK(f3, d3) /\ Resized(d2, d3, call.obj, n)
      BY <1>5, <1>6, <1>8, <1>13, <2>2, <3>1, <3>2, <3>3, StoreFirst
    <3> QED BY <1>8, <2>2, <3>1, <3>4 DEF o
  <2>3. CASE call.prev = 0 /\ call.offset # 0
    <3>1. done = HeaderMoved(State(flash, d2), call.obj, d2[call.fd].hdr, call.work)
      BY <1>15, <2>3 DEF done
    <3>2. n = call.offset + call.written /\ SizesOf(fd, d2, call.obj)
      BY <1>14 DEF n, o
    <3>3. /\ Stored(flash, done.flash, call) /\ Heads(flash, done.flash, call.obj, n)
          /\ FdOK(done.flash, done.fd) /\ Resized(d2, done.fd, call.obj, n)
          /\ done = State(done.flash, done.fd)
      BY <1>3, <1>6, <1>7, <1>9, <1>13, <2>3, <3>1, <3>2, AppendStoresHeader
    <3> QED BY <1>16, <3>3 DEF o
  <2> QED BY <1>8, <2>1, <2>2, <2>3
<1>18. /\ SizesOf(fd, d3, o)
       /\ \A f \in Fd : d3[f].open /\ d3[f].obj = o => d3[f].size = n
  BY <1>3, <1>6, <1>14, <1>17, GrownIs DEF o, n
<1>19. call' = NoCall /\ flash' = f3 /\ SetPos(d3, call.fd, n, fd')
  <2>1. [done EXCEPT !.fd[call.fd].pos = end] = State(f3, [d3 EXCEPT ![call.fd].pos = n])
    BY <1>4, <1>17 DEF State
  <2>2. PICK d4 : d4 = [d3 EXCEPT ![call.fd].pos = n]
    OBVIOUS
  <2>3. Return(State(f3, d4))
    BY <1>2, <2>1, <2>2
  <2> QED BY <2>2, <2>3, StateIs DEF Return, Becomes, SetPos
<1>20. /\ FdOK(f3, fd') /\ fd'[call.fd].open = d3[call.fd].open /\ fd'[call.fd].obj = d3[call.fd].obj
       /\ fd'[call.fd].size = d3[call.fd].size /\ fd'[call.fd].pos = n
       /\ \A g \in Fd : g # call.fd => fd'[g] = d3[g]
  BY <1>8, <1>9, <1>17, <1>19, PosSet
<1>21. PICK W : W = Done(call, file)
  OBVIOUS
<1>22. \A u \in Obj : W[u].exists = file[u].exists /\ W[u].bytes = Current(call, file, u)
  BY <1>6, <1>21, DoneIs
<1>23. Len(W[o].bytes) = n
  BY <1>3, <1>8, <1>22, CurrentIs DEF o, n
<1>24. \A u : u # o => ~Changing(call, u)
  BY DEF Changing, o
<1>25. SizesAre(f3, fd', W)
  <2>1. ASSUME NEW u \in Obj, W[u].exists PROVE Bytes(HSize(f3, u)) = Len(W[u].bytes)
    <3>1. file[u].exists /\ Find(flash, u, 0) # NoPage
      BY <1>5, <1>22, <2>1 DEF Exist
    <3>2. CASE u = o
      BY <1>8, <1>17, <1>23, <3>1, <3>2 DEF Heads
    <3>3. CASE u # o
      <4>1. HSize(f3, u) = HSize(flash, u)
        BY <1>17, <3>1, <3>3 DEF Heads
      <4>2. Bytes(HSize(flash, u)) = Len(Current(call, file, u))
        BY <1>5, <1>24, <3>1, <3>3 DEF SizesAgree
      <4> QED BY <1>22, <4>1, <4>2
    <3> QED BY <3>2, <3>3
  <2>2. ASSUME NEW f \in Fd, fd'[f].open
        PROVE  /\ Bytes(fd'[f].size) = Len(W[fd'[f].obj].bytes) /\ fd'[f].pos <= Len(W[fd'[f].obj].bytes)
    <3>1. /\ fd'[f].open = d3[f].open /\ fd'[f].obj = d3[f].obj /\ fd'[f].size = d3[f].size
          /\ f # call.fd => fd'[f].pos = d3[f].pos
      BY <1>20
    <3>2. /\ d3[f].open = fd[f].open /\ d3[f].obj = fd[f].obj /\ d3[f].pos = fd[f].pos
          /\ fd[f].obj # o => d3[f].size = fd[f].size
      BY <1>18 DEF SizesOf, Placed
    <3>3. CASE fd[f].obj = o
      <4>1. fd'[f].size = n /\ fd'[f].obj = o
        BY <1>18, <2>2, <3>1, <3>2, <3>3
      <4>2. fd'[f].pos <= n
        <5>1. CASE f = call.fd
          BY <1>9, <1>20, <5>1
        <5>2. CASE f # call.fd
          <6>1. fd'[f].pos = fd[f].pos /\ fd[f].pos \in Nat /\ fd[f].pos <= call.offset
            BY <1>8, <2>2, <3>1, <3>2, <3>3, <5>2 DEF o
          <6> QED BY <1>8, <1>9, <6>1
        <5> QED BY <5>1, <5>2
      <4> QED BY <1>8, <1>23, <4>1, <4>2
    <3>4. CASE fd[f].obj # o
      <4>1. f # call.fd /\ fd[f].open /\ fd[f].obj \in Obj /\ Knows(flash, fd[f])
        BY <1>5, <1>8, <2>2, <3>1, <3>2, <3>4 DEF FdOK, Descriptors
      <4>2. PICK u \in Obj : u = fd[f].obj
        BY <4>1
      <4>3. file[u].exists
        BY <1>5, <4>1, <4>2 DEF Knows, Exist
      <4>4. Bytes(fd[f].size) = Len(Current(call, file, u))
        BY <1>5, <1>24, <3>4, <4>1, <4>2, <4>3 DEF SizesAgree
      <4>5. fd[f].pos <= Len(file[u].bytes)
        BY <1>24, <3>4, <4>1, <4>2, PosWithin
      <4>6. Current(call, file, u) = file[u].bytes
        BY <3>4, <4>2, CurrentOut DEF o
      <4> QED BY <1>22, <3>1, <3>2, <3>4, <4>1, <4>2, <4>4, <4>5, <4>6
    <3> QED BY <3>3, <3>4
  <2> QED BY <2>1, <2>2 DEF SizesAre
<1>26. Core(f3, fd', NoCall, W, ViewsOf(fd'))
  <2>1. SizesAre(f3, fd', Done(call, file))
    BY <1>21, <1>25
  <2>2. Core(f3, fd', NoCall, Done(call, file), ViewsOf(fd'))
    BY <1>6, <1>17, <1>20, <2>1, Returns DEF Stored
  <2> QED BY <1>21, <2>2
<1>27. Repositioned(fd, fd', call.fd, n)
  <2>1. ASSUME NEW g \in Fd
        PROVE  /\ fd'[g].open = fd[g].open /\ fd'[g].obj = fd[g].obj
               /\ fd'[g].pos = IF g = call.fd THEN n ELSE fd[g].pos
    <3>1. d3[g].open = fd[g].open /\ d3[g].obj = fd[g].obj /\ d3[g].pos = fd[g].pos
      BY <1>18 DEF SizesOf, Placed
    <3> QED BY <1>20, <3>1
  <2> QED BY <2>1 DEF Repositioned
<1>28. n = call.offset + call.len
  BY <1>3 DEF n
<1> QED BY <1>19, <1>21, <1>26, <1>27, <1>28

(* What is beyond the end is handed to an append.                          *)
Handed(c, c2, n) ==
  c2 = [c EXCEPT !.op = "append", !.step = "gc", !.offset = n, !.len = c.rest, !.written = 0,
                 !.prev = -1, !.pix = NoPage, !.work = FreePage]

LEMMA HandedIs ==
  ASSUME NEW c, NEW c2, NEW n, c \in Locals, n \in Nat, Handed(c, c2, n)
  PROVE  /\ c2 \in Locals /\ c2.op = "append" /\ c2.step = "gc" /\ c2.offset = n /\ c2.len = c.rest
         /\ c2.written = 0 /\ c2.prev = -1 /\ c2.fd = c.fd /\ c2.obj = c.obj /\ c2.temp = c.temp
         /\ c2.start = c.start /\ c2.val = c.val /\ c2.full = c.full
<1>1. FreePage \in Pages /\ NoPage \in Target /\ -1 \in Int /\ c.rest \in Nat
  BY DEF Pages, Target, Locals
<1>2. PICK m : m = c.rest
  OBVIOUS
<1>3. PICK x : x = FreePage
  OBVIOUS
<1>4. PICK t : t = NoPage
  OBVIOUS
<1>5. c2 = [c EXCEPT !.op = "append", !.step = "gc", !.offset = n, !.len = m, !.written = 0,
                     !.prev = -1, !.pix = t, !.work = x]
  BY <1>2, <1>3, <1>4 DEF Handed
<1>6. m \in Nat /\ x \in Pages /\ t \in Target
  BY <1>1, <1>2, <1>3, <1>4
<1>7. c2 \in Locals
  <2>1. PICK d : d = [c EXCEPT !.op = "append", !.step = "gc", !.offset = n]
    OBVIOUS
  <2>2. PICK e : e = [d EXCEPT !.len = m, !.written = 0]
    OBVIOUS
  <2>3. d \in Locals
    BY <2>1 DEF Locals
  <2>4. e \in Locals
    BY <1>6, <2>2, <2>3 DEF Locals
  <2>5. PICK g : g = [e EXCEPT !.prev = -1]
    OBVIOUS
  <2>6. g \in Locals
    BY <2>4, <2>5 DEF Locals
  <2>7. c2 = [g EXCEPT !.pix = t, !.work = x]
    BY <1>5, <2>1, <2>2, <2>5
  <2> QED BY <1>6, <2>6, <2>7 DEF Locals
<1>8. /\ c2.op = "append" /\ c2.step = "gc" /\ c2.offset = n /\ c2.len = m
      /\ c2.written = 0 /\ c2.prev = -1 /\ c2.fd = c.fd /\ c2.obj = c.obj /\ c2.temp = c.temp
      /\ c2.start = c.start /\ c2.val = c.val /\ c2.full = c.full
  BY <1>5 DEF Locals
<1> QED BY <1>2, <1>7, <1>8

LEMMA HandsOn ==
  ASSUME NEW fl2, NEW fds2, NEW c2, Core(flash, fd, call, file, view), call.op = "modify",
         call.step = "run", call.written = call.len, call.rest > 0, InHand(call, file),
         Stored(flash, fl2, call), HeadsSame(flash, fl2), FdOK(fl2, fds2), Steady(fd, fds2),
         Handed(call, c2, call.offset + call.len)
  PROVE  Core(fl2, fds2, c2, file, view) /\ c2 # NoCall
<1> DEFINE o == call.obj
           n == call.offset + call.len
<1>1. /\ FlashOK(flash) /\ FdOK(flash, fd) /\ Exist(flash, file) /\ Layout(flash, call, file)
      /\ SizesAgree(flash, fd, call, file) /\ CallOK(flash, fd, call, file, view)
      /\ Views(fd, call, file, view)
  BY CoreIs
<1>2. call # NoCall
  BY NoCallIs
<1>3. /\ call \in Locals /\ call.fd \in Fd /\ o \in Obj /\ Modifying(flash, fd, call, file, view)
      /\ WritesOn(flash, fd, call, file, view)
      /\ call.offset \in Nat /\ call.len \in Nat /\ call.rest \in Nat /\ call.start = call.offset
      /\ ~call.temp /\ ~call.full /\ call.len > 0
  BY <1>1, <1>2, CallIs, WriteIs DEF WritesOn
<1>4. /\ n = Len(file[o].bytes) /\ n \in Nat /\ n + call.rest <= MaxSize
      /\ (n + call.rest) - call.start \in Lens /\ n > 0 /\ call.start <= n
  <2>1. call.len + call.rest \in Lens /\ call.offset + call.len + call.rest <= MaxSize
        /\ call.offset + call.len = Len(file[o].bytes)
    BY <1>3 DEF Modifying
  <2>2. (n + call.rest) - call.start = call.len + call.rest
    BY <1>3
  <2> QED BY <1>3, <2>1, <2>2
<1>5. fd[call.fd].open /\ fd[call.fd].obj = o /\ Find(flash, o, 0) # NoPage /\ file[o].exists
  BY <1>2, CallsFd
<1> HIDE DEF o, n
<1>6. /\ c2 \in Locals /\ c2.op = "append" /\ c2.step = "gc" /\ c2.offset = n /\ c2.len = call.rest
      /\ c2.written = 0 /\ c2.prev = -1 /\ c2.fd = call.fd /\ c2.obj = call.obj /\ c2.temp = call.temp
      /\ c2.start = call.start /\ c2.val = call.val /\ c2.full = call.full
  <2>1. Handed(call, c2, n)
    BY DEF n
  <2> QED BY <1>3, <1>4, <2>1, HandedIs
<1>7. /\ FlashOK(fl2) /\ FoundSame(flash, fl2) /\ DataSame(flash, fl2) /\ RefIsTable(flash, fl2, call)
  BY DEF Stored
<1>8. \A u \in Obj : Current(c2, file, u) = Current(call, file, u)
  <2>1. (c2.offset + c2.written) - c2.start = (call.offset + call.written) - call.start
    <3>1. c2.offset + c2.written = call.offset + call.written
      BY <1>3, <1>4, <1>6 DEF n
    <3> QED BY <1>6, <3>1
  <2>2. c2.op \in {"append", "modify"} /\ call.op \in {"append", "modify"}
        /\ c2.op # "truncate" /\ call.op # "truncate"
    BY <1>6
  <2>3. PICK m : m = (call.offset + call.written) - call.start
    OBVIOUS
  <2>4. ASSUME NEW u \in Obj, u = call.obj PROVE Current(c2, file, u) = Current(call, file, u)
    <3>1. Current(c2, file, u) = Spliced(file[u].bytes, call.start, m, call.val)
      BY <1>6, <2>1, <2>2, <2>3, <2>4 DEF Current
    <3>2. Current(call, file, u) = Spliced(file[u].bytes, call.start, m, call.val)
      BY <2>2, <2>3, <2>4 DEF Current
    <3> QED BY <3>1, <3>2
  <2> QED BY <1>6, <2>4, CurrentOut
<1>9. Layout(fl2, c2, file)
  <2>1. \A u \in Obj, s \in Spans : Table(fl2, c2, u)[s] = Table(flash, call, u)[s]
    <3>1. \A u \in Obj, s \in Spans : Table(fl2, c2, u)[s] = Ref(fl2, u, s)
      BY <1>6, TableOut
    <3> QED BY <1>7, <3>1 DEF RefIsTable
  <2>2. ASSUME NEW u \in Obj, NEW k \in Nat, Find(fl2, u, k) # NoPage PROVE Bounded(c2, file, u, k)
    <3>1. Bounded(call, file, u, k)
      BY <1>1, <1>7, <2>2 DEF FoundSame, Layout
    <3>2. Current(c2, file, u) = Current(call, file, u)
      BY <1>8
    <3>3. CASE u = call.obj /\ k = call.prev /\ k # 0
      BY <3>2, <3>3 DEF InHand, Bounded
    <3> QED BY <3>1, <3>2, <3>3 DEF Bounded
  <2> QED BY <1>1, <1>7, <1>8, <2>1, <2>2, LayoutKept
<1>10. Exist(fl2, file)
  BY <1>1, <1>7, ExistKept DEF FoundSame
<1>11. SizesAgree(fl2, fds2, c2, file)
  <2>1. \A u \in Obj : Changing(call, u) => Changing(c2, u)
    BY DEF Changing
  <2> QED BY <1>1, <1>8, <2>1, SizesKept DEF HeadsSame
<1>12. n <= Bytes(HSize(fl2, o))
  <2>1. ~Changing(call, o)
    BY DEF Changing
  <2>2. Bytes(HSize(flash, o)) = Len(Current(call, file, o)) /\ HSize(fl2, o) = HSize(flash, o)
    BY <1>1, <1>3, <1>5, <2>1 DEF SizesAgree, HeadsSame, o
  <2>3. Len(Current(call, file, o)) = Len(file[o].bytes)
    BY <1>3, <2>1, CurrentIs
  <2> QED BY <1>4, <2>2, <2>3
<1>13. WritesOn(fl2, fds2, c2, file, view)
  <2>1. /\ fd[call.fd].open /\ fd[call.fd].obj = call.obj /\ fd[call.fd].pos = call.start
        /\ view[call.fd].open /\ view[call.fd].obj = call.obj
        /\ call.start = IF call.fd \in Appends THEN Len(file[call.obj].bytes) ELSE view[call.fd].pos
    BY <1>3 DEF WritesOn
  <2>2. /\ fds2[call.fd].open /\ fds2[call.fd].obj = call.obj /\ fds2[call.fd].pos = call.start
    BY <1>3, <2>1 DEF Steady
  <2>3. c2.len > 0 /\ c2.written <= c2.len /\ c2.start <= c2.offset /\ ~c2.temp /\ ~c2.full
    BY <1>3, <1>4, <1>6
  <2> QED BY <1>6, <2>1, <2>2, <2>3 DEF WritesOn
<1>14. Appending(fl2, fds2, c2, file, view)
  BY <1>3, <1>4, <1>6, <1>12, <1>13 DEF Appending, o
<1>15. CallOK(fl2, fds2, c2, file, view)
  BY <1>6, <1>14 DEF CallOK
<1>16. Views(fds2, c2, file, view)
  <2>1. ASSUME NEW f \in Fd PROVE Seen(c2, f, fds2[f], view[f])
    <3>1. Seen(call, f, fd[f], view[f])
      BY <1>1 DEF Views
    <3>2. fds2[f].open = fd[f].open /\ fds2[f].obj = fd[f].obj /\ fds2[f].pos = fd[f].pos
      BY DEF Steady
    <3>3. View(fds2[f]) = View(fd[f])
      BY <3>2 DEF View
    <3> QED BY <1>3, <1>6, <3>1, <3>3 DEF Seen, Writing
  <2> QED BY <1>1, <2>1 DEF Views
<1> QED BY <1>6, <1>7, <1>9, <1>10, <1>11, <1>15, <1>16, NoCallIs DEF Core

LEMMA ModifyFinishKeeps ==
  ASSUME Core(flash, fd, call, file, view), ModifyFinish
  PROVE  \/ /\ call' = NoCall /\ Core(flash', fd', call', Done(call, file), ViewsOf(fd'))
            /\ call.rest = 0 /\ Repositioned(fd, fd', call.fd, call.offset + call.len)
         \/ call' # NoCall /\ Core(flash', fd', call', file, view)
<1> DEFINE o == call.obj
           st1 == Cursor(Now, call.fd, call.prev, call.pix)
           st == ModifyStored(st1)
<1>1. /\ AtEnd("modify")
      /\ IF call.rest = 0 THEN Return([st EXCEPT !.fd[call.fd].pos = end])
         ELSE Becomes(st) /\ Handed(call, call', end)
  BY Zenon DEF ModifyFinish, Handed
<1> HIDE DEF o, st1, st
<1>2. call.op = "modify" /\ call.step = "run" /\ call.written = call.len
  BY <1>1 DEF AtEnd, Running
<1>3. HoldsWork(flash, call) /\ InHand(call, file) /\ call # NoCall
  BY <1>2, AtLastByte
<1>4. /\ FlashOK(flash) /\ FdOK(flash, fd) /\ Exist(flash, file) /\ SizesAgree(flash, fd, call, file)
      /\ CallOK(flash, fd, call, file, view)
  BY CoreIs
<1>5. /\ call.fd \in Fd /\ o \in Obj /\ ~call.full /\ call.rest \in Nat
      /\ end \in Nat /\ end <= Len(file[o].bytes)
  BY <1>2, <1>3, <1>4, CallIs, WriteIs DEF WritesOn, o, end
<1>6. \E p \in Page : flash[p].kind = "free"
  BY Zenon DEF ModifyFinish, Full
<1>7. FdOK(flash, st1.fd) /\ Shown(fd, st1.fd) /\ st1 = State(flash, st1.fd)
  BY <1>2, <1>3, CursorOnWork DEF st1
<1>8. PICK f3, d3 : f3 = st.flash /\ d3 = st.fd
  OBVIOUS
<1>9. /\ Stored(flash, f3, call) /\ HeadsSame(flash, f3) /\ FdOK(f3, d3) /\ Steady(fd, d3)
      /\ st = State(f3, d3)
  <2>1. PICK d1 : d1 = st1.fd
    OBVIOUS
  <2>2. st = ModifyStored(State(flash, d1)) /\ FdOK(flash, d1) /\ Shown(fd, d1)
    BY <1>7, <2>1 DEF st
  <2>3. /\ Stored(flash, st.flash, call) /\ HeadsSame(flash, st.flash) /\ FdOK(st.flash, st.fd)
        /\ Steady(fd, st.fd) /\ st = State(st.flash, st.fd)
    BY <1>2, <1>3, <1>6, <2>2, ModifyStoredIs
  <2> QED BY <1>8, <2>3
<1>10. CASE call.rest # 0
  <2>1. flash' = f3 /\ fd' = d3 /\ Handed(call, call', call.offset + call.len) /\ call.rest > 0
    BY <1>1, <1>5, <1>8, <1>10 DEF Becomes, end
  <2>2. Core(f3, d3, call', file, view) /\ call' # NoCall
    BY <1>2, <1>3, <1>9, <2>1, HandsOn
  <2> QED BY <2>1, <2>2
<1>11. CASE call.rest = 0
  <2>1. call' = NoCall /\ flash' = f3 /\ SetPos(d3, call.fd, end, fd')
    <3>1. [st EXCEPT !.fd[call.fd].pos = end] = State(f3, [d3 EXCEPT ![call.fd].pos = end])
      BY <1>9 DEF State
    <3>2. PICK d4 : d4 = [d3 EXCEPT ![call.fd].pos = end]
      OBVIOUS
    <3>3. Return(State(f3, d4))
      BY <1>1, <1>11, <3>1, <3>2
    <3> QED BY <3>2, <3>3, StateIs DEF Return, Becomes, SetPos
  <2>2. PICK m : m = end
    OBVIOUS
  <2>3. m \in 0 .. MaxSize
    <3>1. PICK L : L = Len(file[o].bytes)
      OBVIOUS
    <3>2. L \in 0 .. MaxSize
      BY <1>4, <1>5, <3>1, FileType
    <3>3. m \in Nat /\ m <= L
      BY <1>5, <2>2, <3>1
    <3> QED BY <3>2, <3>3, ObjectsAssumption
  <2>4. /\ FdOK(f3, fd') /\ fd'[call.fd].open = d3[call.fd].open /\ fd'[call.fd].obj = d3[call.fd].obj
        /\ fd'[call.fd].size = d3[call.fd].size /\ fd'[call.fd].pos = m
        /\ \A g \in Fd : g # call.fd => fd'[g] = d3[g]
    BY <1>5, <1>9, <2>1, <2>2, <2>3, PosSet
  <2>5. PICK W : W = Done(call, file)
    OBVIOUS
  <2>6. \A u \in Obj : W[u].exists = file[u].exists /\ W[u].bytes = Current(call, file, u)
    BY <1>3, <2>5, DoneIs
  <2>7. \A u : ~Changing(call, u)
    BY <1>2 DEF Changing
  <2>8. \A u \in Obj : Len(W[u].bytes) = Len(file[u].bytes)
    BY <2>6, <2>7, CurrentIs
  <2>9. SizesAre(f3, fd', W)
    <3>1. ASSUME NEW u \in Obj, W[u].exists PROVE Bytes(HSize(f3, u)) = Len(W[u].bytes)
      <4>1. file[u].exists /\ Find(flash, u, 0) # NoPage
        BY <1>4, <2>6, <3>1 DEF Exist
      <4>2. HSize(f3, u) = HSize(flash, u)
        BY <1>9, <4>1 DEF HeadsSame
      <4>3. Bytes(HSize(flash, u)) = Len(Current(call, file, u))
        BY <1>4, <2>7, <4>1 DEF SizesAgree
      <4> QED BY <2>6, <4>2, <4>3
    <3>2. ASSUME NEW f \in Fd, fd'[f].open
          PROVE  /\ Bytes(fd'[f].size) = Len(W[fd'[f].obj].bytes) /\ fd'[f].pos <= Len(W[fd'[f].obj].bytes)
      <4>1. /\ fd'[f].open = d3[f].open /\ fd'[f].obj = d3[f].obj /\ fd'[f].size = d3[f].size
            /\ f # call.fd => fd'[f].pos = d3[f].pos
        BY <2>4
      <4>2. /\ d3[f].open = fd[f].open /\ d3[f].obj = fd[f].obj /\ d3[f].pos = fd[f].pos
            /\ Bytes(d3[f].size) = Bytes(fd[f].size)
        BY <1>9 DEF Steady
      <4>3. fd[f].open /\ fd[f].obj \in Obj /\ Knows(flash, fd[f])
        BY <1>4, <3>2, <4>1, <4>2 DEF FdOK, Descriptors
      <4>4. PICK u \in Obj : u = fd[f].obj
        BY <4>3
      <4>5. file[u].exists
        BY <1>4, <4>3, <4>4 DEF Knows, Exist
      <4>6. Bytes(fd[f].size) = Len(W[u].bytes)
        BY <1>4, <2>6, <2>7, <4>3, <4>4, <4>5 DEF SizesAgree
      <4>7. fd'[f].pos <= Len(W[u].bytes)
        <5>1. CASE f = call.fd
          <6>1. u = o
            BY <1>3, <4>4, <5>1, CallsFd, <1>2 DEF o
          <6> QED BY <1>5, <2>2, <2>4, <2>8, <5>1, <6>1
        <5>2. CASE f # call.fd
          <6>1. fd[f].pos <= Len(file[fd[f].obj].bytes)
            BY <2>7, <4>3, PosWithin
          <6>2. Len(W[u].bytes) = Len(file[fd[f].obj].bytes) /\ fd'[f].pos = fd[f].pos
            BY <2>8, <4>1, <4>2, <4>4, <5>2
          <6> QED BY <6>1, <6>2
        <5> QED BY <5>1, <5>2
      <4> QED BY <4>1, <4>2, <4>4, <4>6, <4>7
    <3> QED BY <3>1, <3>2 DEF SizesAre
  <2>10. Core(f3, fd', NoCall, Done(call, file), ViewsOf(fd'))
    <3>1. SizesAre(f3, fd', Done(call, file))
      BY <2>5, <2>9
    <3> QED BY <1>3, <1>9, <2>4, <3>1, Returns DEF Stored
  <2>11. Repositioned(fd, fd', call.fd, m)
    <3>1. ASSUME NEW g \in Fd
          PROVE  /\ fd'[g].open = fd[g].open /\ fd'[g].obj = fd[g].obj
                 /\ fd'[g].pos = IF g = call.fd THEN m ELSE fd[g].pos
      <4>1. d3[g].open = fd[g].open /\ d3[g].obj = fd[g].obj /\ d3[g].pos = fd[g].pos
        BY <1>9 DEF Steady
      <4> QED BY <2>4, <4>1
    <3> QED BY <3>1 DEF Repositioned
  <2>12. m = call.offset + call.len
    BY <2>2 DEF end
  <2> QED BY <1>11, <2>1, <2>10, <2>11, <2>12
<1> QED BY <1>10, <1>11

-----------------------------------------------------------------------------
(* The data of one span of the call's file is written anew, or deleted,    *)
(* and the index page in hand refers to it.                                *)
Anew(fl, fl2, o, s, q) ==
  \A p \in Page :
    \/ fl2[p] = fl[p] /\ (p = q \/ ~(DataOf(fl[p], o) /\ fl[p].span = s))
    \/ /\ fl[p].kind # "index" /\ fl2[p].kind # "index"
       /\ fl[p].kind = "data" => fl[p].obj = o /\ fl[p].span = s
       /\ fl2[p].kind = "data" => p = q /\ fl2[p].obj = o /\ fl2[p].span = s

Reworked(c, c2, s, q) ==
  /\ c2.obj = c.obj /\ c2.prev = c.prev /\ c2.pix = c.pix /\ c2.step = c.step /\ c2.op = c.op
  /\ c2.work \in IxPages /\ c2.work.obj = c.work.obj /\ c2.work.span = c.work.span
  /\ c2.work.ix[s] = q /\ \A t \in Entries(c.prev) : t # s => c2.work.ix[t] = c.work.ix[t]

OthersKept(fl, fl2, o) ==
  \A u, p : u # o /\ p \in Page /\ (DataOf(fl[p], u) \/ DataOf(fl2[p], u)) => fl2[p] = fl[p]

LEMMA AnewPages ==
  ASSUME NEW fl, NEW fl2, NEW o, NEW s, NEW q, FlashOK(fl), fl2 \in [Page -> Pages],
         Anew(fl, fl2, o, s, q)
  PROVE  /\ \A p \in Page : fl[p].kind = "index" \/ fl2[p].kind = "index" => fl2[p] = fl[p]
         /\ PagesAnew(fl, fl2, o, s, q) /\ OthersKept(fl, fl2, o)
<1>1. \A p \in Page : fl[p].kind = "index" \/ fl2[p].kind = "index" => fl2[p] = fl[p]
  BY DEF Anew
<1>2. PagesAnew(fl, fl2, o, s, q)
  BY DEF Anew, PagesAnew, DataOf
<1>3. OthersKept(fl, fl2, o)
  BY DEF Anew, DataOf, OthersKept
<1> QED BY <1>1, <1>2, <1>3

LEMMA RefsReworked ==
  ASSUME NEW fl, NEW fl2, NEW c, NEW c2, NEW s, NEW q, s \in Entries(c.prev), c.obj \in Obj,
         RefSame(fl, fl2), Reworked(c, c2, s, q)
  PROVE  /\ RefsAnew(Table(fl, c, c.obj), Table(fl2, c2, c.obj), s, q)
         /\ \A u \in Obj : u # c.obj => \A t \in Spans : Table(fl2, c2, u)[t] = Table(fl, c, u)[t]
<1>1. IxSpan(s) = c.prev /\ s \in Spans
  BY DEF Entries
<1>2. ASSUME NEW t \in Spans, t # s, IxSpan(t) = c.prev PROVE c2.work.ix[t] = c.work.ix[t]
  BY <1>2 DEF Entries, Reworked
<1>3. c2.work.ix[s] = q /\ c2.obj = c.obj /\ c2.prev = c.prev
  BY DEF Reworked
<1>4. ASSUME NEW u \in Obj, NEW t \in Spans
      PROVE  /\ Table(fl, c, u)[t] = IF u = c.obj /\ IxSpan(t) = c.prev THEN c.work.ix[t] ELSE Ref(fl, u, t)
             /\ Table(fl2, c2, u)[t] = IF u = c.obj /\ IxSpan(t) = c.prev THEN c2.work.ix[t] ELSE Ref(fl, u, t)
  BY <1>3, <1>4, TableType DEF RefSame
<1>5. Table(fl2, c2, c.obj)[s] = q
  BY <1>1, <1>3, <1>4
<1>6. \A t \in Spans : t # s => Table(fl2, c2, c.obj)[t] = Table(fl, c, c.obj)[t]
  BY <1>2, <1>4
<1>7. \A u \in Obj : u # c.obj => \A t \in Spans : Table(fl2, c2, u)[t] = Table(fl, c, u)[t]
  BY <1>4
<1> QED BY <1>5, <1>6, <1>7 DEF RefsAnew

Rewritten(fl, fl2, c, c2, fi, s, q, b, b2) ==
  /\ HoldsWork(fl, c) /\ c # NoCall /\ s \in Entries(c.prev) /\ q \in Target
  /\ fl2 \in [Page -> Pages] /\ Anew(fl, fl2, c.obj, s, q) /\ Reworked(c, c2, s, q)
  /\ b = Current(c, fi, c.obj) /\ b2 = Current(c2, fi, c.obj) /\ Len(b2) \in Nat
  /\ DataAnew(fl, fl2, c.obj, s, q, b2) /\ BytesAnew(b, b2, s)

LEMMA DataStep ==
  ASSUME NEW fl, NEW fds, NEW c, NEW fi, NEW vw, NEW fl2, NEW c2, NEW s, NEW q, NEW b, NEW b2,
         Core(fl, fds, c, fi, vw), Rewritten(fl, fl2, c, c2, fi, s, q, b, b2)
  PROVE  /\ FlashOK(fl2) /\ FdOK(fl2, fds) /\ Exist(fl2, fi) /\ Layout(fl2, c2, fi)
         /\ HoldsWork(fl2, c2) /\ HeadsSame(fl, fl2) /\ fl2[c.pix] = fl[c.pix]
         /\ Find(fl2, c.obj, 0) = Find(fl, c.obj, 0)
<1> DEFINE o == c.obj
<1>0. /\ HoldsWork(fl, c) /\ c # NoCall /\ s \in Entries(c.prev) /\ q \in Target
      /\ fl2 \in [Page -> Pages] /\ Anew(fl, fl2, o, s, q) /\ Reworked(c, c2, s, q)
      /\ b = Current(c, fi, o) /\ b2 = Current(c2, fi, o) /\ Len(b2) \in Nat
      /\ DataAnew(fl, fl2, o, s, q, b2) /\ BytesAnew(b, b2, s)
  BY DEF Rewritten
<1>1. /\ FlashOK(fl) /\ FdOK(fl, fds) /\ Exist(fl, fi) /\ Layout(fl, c, fi) /\ CallOK(fl, fds, c, fi, vw)
      /\ o \in Obj /\ s \in Spans /\ c.prev \in Nat /\ c.step = "run"
  BY <1>0, CoreIs, CallIs DEF HoldsWork, Entries
<1>2. /\ \A p \in Page : fl[p].kind = "index" \/ fl2[p].kind = "index" => fl2[p] = fl[p]
      /\ PagesAnew(fl, fl2, o, s, q) /\ OthersKept(fl, fl2, o)
  <2>1. FlashOK(fl)
    BY <1>1
  <2> QED BY <1>0, <2>1, AnewPages
<1>3. /\ FlashOK(fl2) /\ FindSame(fl, fl2) /\ HeadsSame(fl, fl2) /\ RefSame(fl, fl2)
      /\ \A u \in Obj, k \in Nat : Find(fl, u, k) # NoPage => fl2[Find(fl, u, k)] = fl[Find(fl, u, k)]
  BY <1>0, <1>1, <1>2, IndexSame DEF FindSame, HeadsSame, RefSame
<1>4. FdOK(fl2, fds)
  BY <1>1, <1>3, KnownSame DEF FindSame
<1>5. Exist(fl2, fi)
  BY <1>1, <1>3, ExistKept DEF FindSame
<1>6. /\ RefsAnew(Table(fl, c, o), Table(fl2, c2, o), s, q)
      /\ \A u \in Obj : u # o => \A t \in Spans : Table(fl2, c2, u)[t] = Table(fl, c, u)[t]
  BY <1>0, <1>1, <1>3, RefsReworked
<1>7. c2.obj = c.obj /\ c2.prev = c.prev /\ c2.pix = c.pix /\ c2.step = c.step /\ c2.op = c.op
  BY <1>0 DEF Reworked
<1>8. \A u : u # o => Current(c2, fi, u) = fi[u].bytes /\ Current(c, fi, u) = fi[u].bytes
  BY <1>7, CurrentOut
<1>9. Len(b) \in Nat
  BY <1>0, <1>1, CurrentIs
<1> HIDE DEF o
<1>10. Laid(fl, Table(fl, c, o), o, b)
  BY <1>0, <1>1 DEF Layout, o
<1>11. Laid(fl2, Table(fl2, c2, o), o, b2)
  <2>1. DataAnew(fl, fl2, o, s, q, b2)
    BY <1>0 DEF o
  <2> QED BY <1>0, <1>1, <1>2, <1>3, <1>6, <1>9, <1>10, <2>1, LaidAnew
<1>12. ASSUME NEW u \in Obj PROVE Laid(fl2, Table(fl2, c2, u), u, Current(c2, fi, u))
  <2>1. CASE u = o
    BY <1>0, <1>11, <2>1 DEF o
  <2>2. CASE u # o
    <3>1. Laid(fl, Table(fl, c, u), u, Current(c2, fi, u))
      BY <1>1, <1>8, <2>2 DEF Layout
    <3>2. /\ \A t \in Spans : Table(fl2, c2, u)[t] = Table(fl, c, u)[t]
          /\ \A p \in Page : DataOf(fl[p], u) \/ DataOf(fl2[p], u) => fl2[p] = fl[p]
      BY <1>2, <1>6, <2>2 DEF OthersKept
    <3> QED BY <1>1, <3>1, <3>2, LaidSame
  <2> QED BY <2>1, <2>2
<1>13. ASSUME NEW u \in Obj, NEW k \in Nat, Find(fl2, u, k) # NoPage PROVE Bounded(c2, fi, u, k)
  <2>1. Bounded(c, fi, u, k)
    BY <1>1, <1>3, <1>13 DEF Layout, FindSame
  <2>2. CASE u # o
    BY <1>7, <1>8, <2>1, <2>2 DEF Bounded, o
  <2>3. CASE u = o /\ k # 0 /\ k # c.prev
    <3>1. PICK t \in Entries(k) : First(t) < Len(b)
      BY <1>0, <2>1, <2>3 DEF Bounded, o
    <3>2. t \in Spans /\ t # s /\ t \in Nat
      BY <1>0, <2>3, <3>1, SpansType DEF Entries
    <3>3. PICK m : m = First(t)
      OBVIOUS
    <3>4. m + 0 < Len(b) <=> m + 0 < Len(b2)
      <4>1. 0 \in 0 .. DPS - 1
        BY ObjectsAssumption
      <4> QED BY <1>0, <3>2, <3>3, <4>1 DEF BytesAnew
    <3>5. m \in Nat
      BY <3>2, <3>3, FirstType
    <3>6. First(t) < Len(b2)
      BY <1>0, <1>9, <3>1, <3>3, <3>4, <3>5
    <3> QED BY <1>0, <2>3, <3>1, <3>6 DEF Bounded, o
  <2>4. CASE u = o /\ (k = 0 \/ k = c.prev)
    BY <1>7, <2>4 DEF Bounded, o
  <2> QED BY <2>2, <2>3, <2>4
<1>14. Layout(fl2, c2, fi)
  BY <1>12, <1>13 DEF Layout
<1>15. c.pix # NoPage /\ c.pix = Find(fl, o, c.prev) /\ c.op # "create" /\ c.work.obj = o /\ c.work.span = c.prev
  BY <1>0 DEF HoldsWork, o
<1>16. fl2[c.pix] = fl[c.pix] /\ Find(fl2, o, c.prev) = Find(fl, o, c.prev) /\ Find(fl2, o, 0) = Find(fl, o, 0)
  BY <1>0, <1>1, <1>3, <1>15 DEF FindSame, o
<1>17. HoldsWork(fl2, c2)
  BY <1>0, <1>1, <1>7, <1>15, <1>16 DEF HoldsWork, Reworked, o
<1> QED BY <1>0, <1>3, <1>4, <1>5, <1>14, <1>16, <1>17 DEF o

-----------------------------------------------------------------------------
(* A write puts bytes into a data page.                                    *)
LEMMA OtherSpan ==
  ASSUME NEW s, NEW t, NEW j, s \in Nat, t \in Nat, t # s, j \in 0 .. DPS - 1
  PROVE  First(t) + j \in Nat /\ (First(t) + j < First(s) \/ First(s) + DPS <= First(t) + j)
<1>1. PICK a, c : a = First(s) /\ c = First(t)
  OBVIOUS
<1>2. a \in Nat /\ c \in Nat /\ DPS \in Nat
  BY <1>1, FirstType, ObjectsAssumption
<1>3. CASE t < s
  <2>1. c + DPS <= a
    BY <1>1, <1>3, FirstRises
  <2> QED BY <1>1, <1>2, <2>1
<1>4. CASE s < t
  <2>1. a + DPS <= c
    BY <1>1, <1>4, FirstRises
  <2> QED BY <1>1, <1>2, <2>1
<1> QED BY <1>3, <1>4

(* b2 is b with m bytes v from place n on.                                 *)
Grown(b, b2, n, m, v) ==
  /\ Len(b) \in Nat /\ Len(b2) \in Nat /\ n \in Nat /\ m \in Nat \ {0} /\ n <= Len(b)
  /\ Len(b2) = IF n + m > Len(b) THEN n + m ELSE Len(b)
  /\ \A i \in 1 .. Len(b2) : b2[i] = IF n < i /\ i <= n + m THEN v ELSE b[i]

LEMMA GrownElsewhere ==
  ASSUME NEW b, NEW b2, NEW n, NEW m, NEW v, NEW s, Grown(b, b2, n, m, v), s \in Nat,
         First(s) <= n, n + m <= First(s) + DPS
  PROVE  BytesAnew(b, b2, s)
<1> SUFFICES ASSUME NEW t \in Spans, t # s, NEW j \in 0 .. DPS - 1
             PROVE  /\ First(t) + j < Len(b) <=> First(t) + j < Len(b2)
                    /\ First(t) + j < Len(b) => b[First(t) + j + 1] = b2[First(t) + j + 1]
  BY DEF BytesAnew
<1>1. PICK x : x = First(t) + j
  OBVIOUS
<1>2. PICK a : a = First(s)
  OBVIOUS
<1>3. x \in Nat /\ (x < a \/ a + DPS <= x) /\ a \in Nat
  BY <1>1, <1>2, OtherSpan, FirstType, SpansType
<1>4. PICK l, l2 : l = Len(b) /\ l2 = Len(b2)
  OBVIOUS
<1>5. /\ l \in Nat /\ l2 \in Nat /\ n \in Nat /\ m \in Nat \ {0} /\ n <= l
      /\ l2 = IF n + m > l THEN n + m ELSE l
      /\ a <= n /\ n + m <= a + DPS /\ DPS \in Nat
      /\ \A i \in 1 .. l2 : b2[i] = IF n < i /\ i <= n + m THEN v ELSE b[i]
  BY <1>2, <1>4, ObjectsAssumption DEF Grown
<1>6. x < l <=> x < l2
  BY <1>3, <1>5
<1>7. x < l => x + 1 \in 1 .. l2 /\ ~(n < x + 1 /\ x + 1 <= n + m)
  BY <1>3, <1>5
<1>8. x < l => b[x + 1] = b2[x + 1]
  BY <1>5, <1>7
<1> QED BY <1>1, <1>4, <1>6, <1>8

LEMMA GrownHere ==
  ASSUME NEW b, NEW b2, NEW n, NEW m, NEW v, NEW x, Grown(b, b2, n, m, v), x \in Nat
  PROVE  (IF x < Len(b2) THEN b2[x + 1] ELSE Erased) =
            IF n <= x /\ x < n + m THEN v ELSE IF x < Len(b) THEN b[x + 1] ELSE Erased
<1>4. PICK l, l2 : l = Len(b) /\ l2 = Len(b2)
  OBVIOUS
<1>5. /\ l \in Nat /\ l2 \in Nat /\ n \in Nat /\ m \in Nat \ {0} /\ n <= l
      /\ l2 = IF n + m > l THEN n + m ELSE l
      /\ \A i \in 1 .. l2 : b2[i] = IF n < i /\ i <= n + m THEN v ELSE b[i]
  BY <1>4 DEF Grown
<1>6. x < l2 => b2[x + 1] = IF n < x + 1 /\ x + 1 <= n + m THEN v ELSE b[x + 1]
  BY <1>5
<1>7. CASE n <= x /\ x < n + m
  <2>1. x < l2 /\ n < x + 1 /\ x + 1 <= n + m
    BY <1>5, <1>7
  <2> QED BY <1>4, <1>6, <1>7, <2>1
<1>8. CASE ~(n <= x /\ x < n + m)
  <2>1. (x < l2 <=> x < l) /\ ~(n < x + 1 /\ x + 1 <= n + m)
    BY <1>5, <1>8
  <2> QED BY <1>4, <1>6, <1>8, <2>1
<1> QED BY <1>7, <1>8

(* A call in which m more bytes are written, and page q is in hand for s.  *)
Wrote(c, c2, m, s, q) ==
  /\ c2 \in Locals /\ Reworked(c, c2, s, q) /\ c2.written = c.written + m
  /\ c2.fd = c.fd /\ c2.temp = c.temp /\ c2.start = c.start /\ c2.offset = c.offset
  /\ c2.len = c.len /\ c2.rest = c.rest /\ c2.val = c.val /\ c2.new = c.new /\ c2.full = c.full
  /\ c2.work.size = IF c.op = "append" /\ c.prev = 0 THEN c2.offset + c2.written ELSE c.work.size

(* The places of a step: m bytes from place n on, in the page of span s.   *)
Chunked(c, n, m, s) ==
  /\ n = c.offset + c.written /\ n \in Nat /\ s = DataSpan(n) /\ s \in Spans /\ s \in Nat
  /\ m \in Nat \ {0} /\ c.written + m <= c.len /\ c.written + m \in Nat
  /\ First(s) <= n /\ n + m <= First(s) + DPS /\ n = First(s) + (n % DPS) /\ n % DPS \in 0 .. DPS - 1
  /\ First(s) \in Nat /\ n + m \in 1 .. MaxSize /\ DataSpan(n + m - 1) = s
  /\ s \in Entries(c.prev)

LEMMA ChunkIs ==
  ASSUME NEW n, NEW m, NEW s, Core(flash, fd, call, file, view), call.op \in {"append", "modify"},
         call.written < call.len, IxSpan(span) = call.prev, n = place, m = Chunk, s = span
  PROVE  Chunked(call, n, m, s)
<1>1. /\ call.offset \in Nat /\ call.len \in Nat /\ call.written \in Nat
      /\ call.offset + call.len <= MaxSize
  BY WriteIs
<1>2. n \in Nat /\ s = DataSpan(n) /\ s \in Spans /\ n = call.offset + call.written
  BY PlaceType DEF place, span
<1>3. /\ s \in Nat /\ n % DPS \in 0 .. DPS - 1 /\ First(s) \in Nat /\ n = First(s) + (n % DPS)
  BY <1>2, SpanOf
<1>4. PICK i, a : i = n % DPS /\ a = First(s)
  OBVIOUS
<1>5. m = Least(call.len - call.written, DPS - i)
  <2>1. m = Min({call.len - call.written, DPS - i})
    BY <1>4 DEF Chunk
  <2>2. call.len - call.written \in Int /\ DPS - i \in Int
    BY <1>1, <1>3, <1>4, ObjectsAssumption
  <2> QED BY <2>1, <2>2, MinOfTwo
<1>6. /\ m \in Nat \ {0} /\ call.written + m <= call.len /\ a <= n /\ n + m <= a + DPS
      /\ call.written + m \in Nat
  <2>1. PICK d, g, w : d = DPS /\ g = call.len /\ w = call.written
    OBVIOUS
  <2>2. d \in Nat \ {0} /\ g \in Nat /\ w \in Nat /\ w < g /\ i \in 0 .. d - 1 /\ a \in Nat /\ n = a + i
    BY <1>1, <1>3, <1>4, <2>1, ObjectsAssumption
  <2>3. m = IF g - w <= d - i THEN g - w ELSE d - i
    BY <1>5, <2>1 DEF Least
  <2>4. m \in Nat \ {0} /\ w + m <= g /\ a <= n /\ n + m <= a + d /\ w + m \in Nat
    BY <2>2, <2>3
  <2> QED BY <2>1, <2>4
<1>7. n + m \in 1 .. MaxSize
  BY <1>1, <1>2, <1>6, ObjectsAssumption
<1>8. DataSpan(n + m - 1) = s
  <2>1. PICK j : j = (n + m - 1) - a
    OBVIOUS
  <2>2. j \in 0 .. DPS - 1 /\ a + j = n + m - 1
    <3>1. PICK d : d = DPS
      OBVIOUS
    <3>2. d \in Nat /\ a \in Nat /\ n \in Nat /\ m \in Nat \ {0} /\ a <= n /\ n + m <= a + d
      BY <1>2, <1>3, <1>4, <1>6, <3>1, ObjectsAssumption
    <3> QED BY <2>1, <3>1, <3>2
  <2>3. DataSpan(First(s) + j) = s
    BY <1>3, <2>2, SpanIs
  <2> QED BY <1>4, <2>2, <2>3
<1>9. s \in Entries(call.prev)
  BY <1>2 DEF Entries
<1> QED BY <1>2, <1>3, <1>4, <1>6, <1>7, <1>8, <1>9 DEF Chunked

LEMMA WroteIs ==
  ASSUME NEW n, NEW m, NEW s, NEW q, call \in Locals, HoldsWork(flash, call), Chunked(call, n, m, s),
         n = place, m = Chunk, s = span, q \in Target, Referring(q)
  PROVE  Wrote(call, call', m, s, q)
<1>1. PICK x : x = call.work
  OBVIOUS
<1>2. x \in IxPages /\ s \in Entries(x.span) /\ x.span = call.prev
  BY <1>1 DEF HoldsWork, Chunked
<1>3. PICK y : y = [x EXCEPT !.ix[s] = q]
  OBVIOUS
<1>4. RefSet(x, y, s, q)
  BY <1>2, <1>3, RefSetIs
<1>5. PICK e : e = IF call.op = "append" /\ call.prev = 0 THEN n + m ELSE x.size
  OBVIOUS
<1>6. e \in Sizes
  <2>1. x.size \in Sizes
    BY <1>2, IxFields
  <2>2. n + m \in Sizes
    BY ObjectsAssumption DEF Chunked, Sizes, UNDEFINED_LEN
  <2> QED BY <1>5, <2>1, <2>2
<1>7. PICK z : z = [y EXCEPT !.size = e]
  OBVIOUS
<1>8. z \in IxPages /\ z.obj = x.obj /\ z.span = x.span /\ z.size = e /\ z.ix = y.ix
  BY <1>4, <1>6, <1>7, IxFields DEF RefSet, IxPages
<1>9. PICK w : w = call.written + m
  OBVIOUS
<1>10. call' = [call EXCEPT !.written = w, !.work = z]
  <2>1. z = [x EXCEPT !.ix[s] = q, !.size = e]
    BY <1>3, <1>7
  <2>2. call' = [call EXCEPT !.written = @ + m, !.work.ix[s] = q,
                             !.work.size = IF call.op = "append" /\ call.prev = 0 THEN n + m ELSE @]
    BY Zenon DEF Referring
  <2>3. call.work.size = x.size
    BY <1>1
  <2> QED BY <1>1, <1>5, <1>9, <2>1, <2>2, <2>3 DEF Locals
<1>11. w \in Nat /\ z \in Pages
  BY <1>8, <1>9, IxFields DEF Chunked
<1>12. call' \in Locals
  BY <1>10, <1>11 DEF Locals
<1>13. /\ call'.written = w /\ call'.work = z
       /\ call'.obj = call.obj /\ call'.prev = call.prev /\ call'.pix = call.pix
       /\ call'.step = call.step /\ call'.op = call.op
       /\ call'.fd = call.fd /\ call'.temp = call.temp /\ call'.start = call.start
       /\ call'.offset = call.offset /\ call'.len = call.len /\ call'.rest = call.rest
       /\ call'.val = call.val /\ call'.new = call.new /\ call'.full = call.full
  BY <1>10 DEF Locals
<1>14. Reworked(call, call', s, q)
  <2>1. z.ix[s] = q /\ \A t \in Entries(call.prev) : t # s => z.ix[t] = x.ix[t]
    BY <1>2, <1>4, <1>8 DEF RefSet
  <2> QED BY <1>1, <1>8, <1>13, <2>1 DEF Reworked
<1>15. call'.work.size = IF call.op = "append" /\ call.prev = 0 THEN call'.offset + call'.written ELSE call.work.size
  <2>1. call.offset + w = n + m
    <3>1. call.offset \in Nat /\ call.written \in Nat /\ m \in Nat /\ n = call.offset + call.written
      BY DEF Locals, Chunked
    <3> QED BY <1>9, <3>1
  <2> QED BY <1>1, <1>5, <1>8, <1>13, <2>1
<1> QED BY <1>9, <1>12, <1>13, <1>14, <1>15 DEF Wrote

LEMMA CurrentGrows ==
  ASSUME NEW fl, NEW fds, NEW c, NEW fi, NEW vw, NEW c2, NEW n, NEW m, NEW s, NEW q,
         Core(fl, fds, c, fi, vw), c.op \in {"append", "modify"}, Chunked(c, n, m, s),
         Wrote(c, c2, m, s, q)
  PROVE  Grown(Current(c, fi, c.obj), Current(c2, fi, c.obj), n, m, c.val)
<1>1. /\ c.obj \in Obj /\ c.val \in Val /\ c.start \in Nat /\ c.offset \in Nat /\ c.written \in Nat
      /\ c.start <= c.offset /\ c.offset <= Len(fi[c.obj].bytes) /\ Exist(fl, fi)
  BY WriteIs, CoreIs
<1>2. PICK a, o, v, a0 : a = fi[c.obj].bytes /\ o = c.obj /\ v = c.val /\ a0 = c.start
  OBVIOUS
<1>3. a \in Seq(Val) /\ Len(a) \in Nat /\ v \in Val /\ a0 \in Nat /\ a0 <= Len(a)
  <2>1. fi[c.obj].bytes \in Seq(Val) /\ Len(fi[c.obj].bytes) \in 0 .. MaxSize
    BY <1>1, FileType
  <2>2. a \in Seq(Val) /\ Len(a) \in 0 .. MaxSize
    BY <1>2, <2>1
  <2>3. v \in Val /\ a0 \in Nat
    BY <1>1, <1>2
  <2>4. PICK x, l : x = c.offset /\ l = Len(a)
    OBVIOUS
  <2>5. x \in Nat /\ a0 <= x /\ x <= l
    BY <1>1, <1>2, <2>4
  <2>6. a0 <= l /\ l \in Nat
    BY <2>2, <2>3, <2>4, <2>5
  <2> QED BY <2>2, <2>3, <2>4, <2>6
<1>4. n = c.offset + c.written /\ m \in Nat \ {0} /\ n \in Nat /\ a0 <= n
  <2>1. n = c.offset + c.written /\ m \in Nat \ {0} /\ n \in Nat
    BY DEF Chunked
  <2>2. PICK x, y : x = c.offset /\ y = c.written
    OBVIOUS
  <2>3. x \in Nat /\ y \in Nat /\ a0 <= x /\ a0 \in Nat
    BY <1>1, <1>2, <2>2
  <2>4. a0 <= n
    BY <2>1, <2>2, <2>3
  <2> QED BY <2>1, <2>4
<1>5. PICK w, w2 : w = n - a0 /\ w2 = (n + m) - a0
  OBVIOUS
<1>6. w \in Nat /\ w2 \in Nat /\ a0 + w = n /\ a0 + w2 = n + m
  <2>1. a0 \in Nat /\ n \in Nat /\ m \in Nat /\ a0 <= n
    BY <1>3, <1>4
  <2>2. w = n - a0 /\ w2 = (n + m) - a0
    BY <1>5
  <2> QED BY <2>1, <2>2
<1>7. /\ c2.op = c.op /\ c2.obj = c.obj /\ c2.start = c.start /\ c2.offset = c.offset
      /\ c2.written = c.written + m /\ c2.val = c.val
  BY DEF Wrote, Reworked
<1>8. Current(c, fi, c.obj) = Spliced(a, a0, w, v)
  BY <1>2, <1>4, <1>5 DEF Current
<1>9. Current(c2, fi, c.obj) = Spliced(a, a0, w2, v)
  <2>1. (c2.offset + c2.written) - c2.start = w2
    BY <1>1, <1>2, <1>4, <1>5, <1>7
  <2> QED BY <1>2, <1>7, <2>1 DEF Current
<1>10. PICK b, b2 : b = Spliced(a, a0, w, v) /\ b2 = Spliced(a, a0, w2, v)
  OBVIOUS
<1>11. PICK l : l = Len(a)
  OBVIOUS
<1>12. /\ Len(b) = IF n > l THEN n ELSE l
       /\ \A i \in 1 .. Len(b) : b[i] = IF a0 < i /\ i <= n THEN v ELSE a[i]
  <2>1. /\ Len(b) = IF a0 + w > Len(a) THEN a0 + w ELSE Len(a)
        /\ \A i \in 1 .. Len(b) : b[i] = IF a0 < i /\ i <= a0 + w THEN v ELSE a[i]
    <3>1. a \in Seq(Val) /\ a0 \in Nat /\ w \in Nat /\ v \in Val /\ a0 <= Len(a)
      BY <1>3, <1>6
    <3> QED BY <1>10, <3>1, SplicedIs
  <2> QED BY <1>6, <1>11, <2>1
<1>13. /\ Len(b2) = IF n + m > l THEN n + m ELSE l
       /\ \A i \in 1 .. Len(b2) : b2[i] = IF a0 < i /\ i <= n + m THEN v ELSE a[i]
  <2>1. /\ Len(b2) = IF a0 + w2 > Len(a) THEN a0 + w2 ELSE Len(a)
        /\ \A i \in 1 .. Len(b2) : b2[i] = IF a0 < i /\ i <= a0 + w2 THEN v ELSE a[i]
    BY <1>3, <1>6, <1>10, SplicedIs
  <2> QED BY <1>6, <1>11, <2>1
<1>14. PICK k, k2 : k = Len(b) /\ k2 = Len(b2)
  OBVIOUS
<1>15. /\ l \in Nat /\ k = (IF n > l THEN n ELSE l) /\ k2 = (IF n + m > l THEN n + m ELSE l)
       /\ k \in Nat /\ k2 \in Nat /\ n <= k /\ k2 = IF n + m > k THEN n + m ELSE k
  BY <1>3, <1>4, <1>11, <1>12, <1>13, <1>14
<1>16. ASSUME NEW i \in 1 .. k2 PROVE b2[i] = IF n < i /\ i <= n + m THEN v ELSE b[i]
  <2>1. b2[i] = IF a0 < i /\ i <= n + m THEN v ELSE a[i]
    BY <1>13, <1>14
  <2>2. CASE n < i /\ i <= n + m
    <3>1. a0 < i
      BY <1>3, <1>4, <1>15, <1>16, <2>2
    <3> QED BY <2>1, <2>2, <3>1
  <2>3. CASE ~(n < i /\ i <= n + m)
    <3>1. i \in 1 .. k
      BY <1>4, <1>15, <1>16, <2>3
    <3>2. b[i] = IF a0 < i /\ i <= n THEN v ELSE a[i]
      BY <1>12, <1>14, <3>1
    <3>3. (a0 < i /\ i <= n) <=> (a0 < i /\ i <= n + m)
      BY <1>3, <1>4, <1>15, <2>3
    <3> QED BY <2>1, <2>3, <3>2, <3>3
  <2> QED BY <2>2, <2>3
<1>17. Grown(b, b2, n, m, v)
  BY <1>4, <1>14, <1>15, <1>16 DEF Grown
<1> QED BY <1>2, <1>8, <1>9, <1>10, <1>17

(* What page q holds after the step.                                       *)
Holds(fl2, o, s, q, b, n, m, v) ==
  /\ q \in Page /\ DataOf(fl2[q], o) /\ fl2[q].span = s
  /\ \A j \in 0 .. DPS - 1 :
       fl2[q].bytes[j] = IF n <= First(s) + j /\ First(s) + j < n + m THEN v
                         ELSE IF First(s) + j < Len(b) THEN b[First(s) + j + 1] ELSE Erased

LEMMA HoldsIs ==
  ASSUME NEW fl, NEW fl2, NEW o, NEW s, NEW q, NEW b, NEW b2, NEW n, NEW m, NEW v,
         Holds(fl2, o, s, q, b, n, m, v), Grown(b, b2, n, m, v), s \in Nat,
         First(s) <= n, DataOf(fl[q], o) => fl[q].span = s
  PROVE  DataAnew(fl, fl2, o, s, q, b2)
<1>1. q # NoPage
  BY PageType DEF Holds
<1>2. First(s) \in Nat
  BY FirstType
<1>3. ASSUME NEW j \in 0 .. DPS - 1
      PROVE  fl2[q].bytes[j] = IF First(s) + j < Len(b2) THEN b2[First(s) + j + 1] ELSE Erased
  <2>1. PICK x : x = First(s) + j
    OBVIOUS
  <2>2. x \in Nat
    BY <1>2, <2>1
  <2>3. fl2[q].bytes[j] = IF n <= x /\ x < n + m THEN v ELSE IF x < Len(b) THEN b[x + 1] ELSE Erased
    BY <2>1 DEF Holds
  <2>4. fl2[q].bytes[j] = IF x < Len(b2) THEN b2[x + 1] ELSE Erased
    BY <2>2, <2>3, GrownHere
  <2> QED BY <2>1, <2>4
<1>4. First(s) < Len(b2)
  BY <1>2 DEF Grown
<1> QED BY <1>1, <1>3, <1>4 DEF DataAnew, Holds

(* The page of a step is erased, or was the one in hand.                   *)
Adds(fl, c, s, q) ==
  q = c.work.ix[s] \/ (fl[c.pix].ix[s] = NoPage /\ c.offset <= First(s))

LEMMA WroteOn ==
  ASSUME NEW fl, NEW fds, NEW c, NEW fi, NEW vw, NEW fl2, NEW c2, NEW n, NEW m, NEW s, NEW q,
         WritesOn(fl, fds, c, fi, vw), Chunked(c, n, m, s), Wrote(c, c2, m, s, q), c.step = "run",
         c.offset \in Nat, c.written \in Nat, c.len \in Nat
  PROVE  WritesOn(fl2, fds, c2, fi, vw)
<1>1. /\ ~c.temp /\ ~c.full
      /\ fds[c.fd].open /\ fds[c.fd].obj = c.obj /\ fds[c.fd].pos = c.start
      /\ vw[c.fd].open /\ vw[c.fd].obj = c.obj
      /\ c.start = IF c.fd \in Appends THEN Len(fi[c.obj].bytes) ELSE vw[c.fd].pos
      /\ c.start <= c.offset /\ c.len > 0
  BY DEF WritesOn
<1>2. /\ c2.temp = c.temp /\ c2.full = c.full /\ c2.fd = c.fd /\ c2.obj = c.obj
      /\ c2.start = c.start /\ c2.offset = c.offset /\ c2.len = c.len /\ c2.written = c.written + m
      /\ c2.step = c.step /\ c2.prev = c.prev
  BY DEF Wrote, Reworked
<1>3. c.written + m <= c.len /\ c.written + m > 0 /\ n + m - 1 = c.offset + c2.written - 1
  <2>1. m \in Nat \ {0} /\ c.written + m <= c.len /\ n = c.offset + c.written
    BY DEF Chunked
  <2>2. PICK x, y : x = c.offset /\ y = c.written
    OBVIOUS
  <2>3. x \in Nat /\ y \in Nat /\ c2.written = y + m /\ n = x + y
    BY <1>2, <2>1, <2>2
  <2> QED BY <2>1, <2>2, <2>3
<1>4. c2.prev = IxSpan(DataSpan(c2.offset + c2.written - 1))
  <2>1. DataSpan(n + m - 1) = s /\ IxSpan(s) = c.prev
    BY DEF Chunked, Entries
  <2> QED BY <1>2, <1>3, <2>1
<1> QED BY <1>1, <1>2, <1>3, <1>4 DEF WritesOn

LEMMA WroteModify ==
  ASSUME NEW fl, NEW fds, NEW c, NEW fi, NEW vw, NEW fl2, NEW c2, NEW n, NEW m, NEW s, NEW q,
         Modifying(fl, fds, c, fi, vw), Wrote(c, c2, m, s, q), c.op = "modify",
         WritesOn(fl2, fds, c2, fi, vw), HSize(fl2, c.obj) = HSize(fl, c.obj)
  PROVE  Modifying(fl2, fds, c2, fi, vw)
<1>1. /\ c2.fd = c.fd /\ c2.obj = c.obj /\ c2.start = c.start /\ c2.offset = c.offset /\ c2.len = c.len
      /\ c2.rest = c.rest /\ c2.prev = c.prev /\ c2.work.size = c.work.size
  BY DEF Wrote, Reworked
<1> QED BY <1>1 DEF Modifying

LEMMA WroteAppend ==
  ASSUME NEW fl, NEW fds, NEW c, NEW fi, NEW vw, NEW fl2, NEW c2, NEW n, NEW m, NEW s, NEW q,
         Appending(fl, fds, c, fi, vw), Wrote(c, c2, m, s, q), c.op = "append", Chunked(c, n, m, s),
         WritesOn(fl2, fds, c2, fi, vw), HSize(fl2, c.obj) = HSize(fl, c.obj), fl2[c.pix] = fl[c.pix],
         Adds(fl, c, s, q), c.offset \in Nat, c.written \in Nat
  PROVE  Appending(fl2, fds, c2, fi, vw)
<1>1. /\ c2.fd = c.fd /\ c2.obj = c.obj /\ c2.start = c.start /\ c2.offset = c.offset /\ c2.len = c.len
      /\ c2.prev = c.prev /\ c2.pix = c.pix /\ c2.written = c.written + m
      /\ c2.work.size = IF c.prev = 0 THEN c2.offset + c2.written ELSE c.work.size
      /\ c2.work.ix[s] = q /\ \A t \in Entries(c.prev) : t # s => c2.work.ix[t] = c.work.ix[t]
  BY DEF Wrote, Reworked
<1>2. c2.written # 0
  BY <1>1 DEF Chunked
<1>3. PICK x, k : x = fl[c.pix].ix /\ k = c.prev
  OBVIOUS
<1>4. k # -1 => \A t \in Entries(k) :
       /\ x[t] \in {NoPage, c.work.ix[t]}
       /\ First(t) < c.offset => x[t] = c.work.ix[t]
  BY <1>3 DEF Appending
<1>5. s \in Entries(k) /\ First(s) \in Nat
  BY <1>3 DEF Chunked
<1>6. ASSUME k # -1, NEW t \in Entries(k)
      PROVE  /\ x[t] \in {NoPage, c2.work.ix[t]}
             /\ First(t) < c.offset => x[t] = c2.work.ix[t]
  <2>1. CASE t # s
    BY <1>1, <1>3, <1>4, <1>6, <2>1
  <2>2. CASE t = s /\ q = c.work.ix[s]
    BY <1>1, <1>4, <1>6, <2>2
  <2>3. CASE t = s /\ x[s] = NoPage /\ c.offset <= First(s)
    BY <1>1, <1>5, <2>3
  <2> QED BY <1>3, <2>1, <2>2, <2>3 DEF Adds
<1>7. /\ c.offset = Len(fi[c.obj].bytes)
      /\ c.offset + c.len <= MaxSize /\ (c.offset + c.len) - c.start \in Lens
      /\ c.prev > 0 => c.work.size = fl[c.pix].size
      /\ c.offset <= Bytes(HSize(fl, c.obj))
      /\ c.offset = 0 /\ c.prev <= 0 => HSize(fl, c.obj) = UNDEFINED_LEN
  BY DEF Appending
<1>8. c2.prev # -1 => \A t \in Entries(c2.prev) :
       /\ fl2[c2.pix].ix[t] \in {NoPage, c2.work.ix[t]}
       /\ First(t) < c2.offset => fl2[c2.pix].ix[t] = c2.work.ix[t]
  BY <1>1, <1>3, <1>6
<1>9. c2.prev = 0 => c2.work.size = IF c2.written = 0 THEN HSize(fl2, c2.obj) ELSE c2.offset + c2.written
  BY <1>1, <1>2
<1>10. c2.prev > 0 => c2.work.size = fl2[c2.pix].size
  BY <1>1, <1>7
<1> QED BY <1>1, <1>7, <1>8, <1>9, <1>10 DEF Appending

LEMMA WroteKeeps ==
  ASSUME NEW fl2, NEW c2, NEW n, NEW m, NEW s, NEW q, Core(flash, fd, call, file, view),
         call.op \in {"append", "modify"}, HoldsWork(flash, call), Chunked(call, n, m, s),
         Wrote(call, c2, m, s, q), fl2 \in [Page -> Pages],
         Anew(flash, fl2, call.obj, s, q), DataOf(flash[q], call.obj) => flash[q].span = s,
         Holds(fl2, call.obj, s, q, Current(call, file, call.obj), n, m, call.val),
         call.op = "append" => Adds(flash, call, s, q)
  PROVE  Core(fl2, fd, c2, file, view) /\ c2 # NoCall
<1> DEFINE o == call.obj
<1>1. /\ FlashOK(flash) /\ FdOK(flash, fd) /\ Exist(flash, file) /\ Layout(flash, call, file)
      /\ SizesAgree(flash, fd, call, file) /\ CallOK(flash, fd, call, file, view)
      /\ Views(fd, call, file, view) /\ call # NoCall
  BY CoreIs, NoCallIs
<1>2. /\ call.offset \in Nat /\ call.written \in Nat /\ call.len \in Nat /\ o \in Obj /\ call.fd \in Fd
      /\ WritesOn(flash, fd, call, file, view) /\ call.step = "run"
      /\ call.op = "modify" => Modifying(flash, fd, call, file, view)
      /\ call.op = "append" => Appending(flash, fd, call, file, view)
  BY <1>1, WriteIs, CallIs DEF HoldsWork
<1>3. Find(flash, o, 0) # NoPage
  BY <1>1, CallsFd
<1> HIDE DEF o
<1>4. PICK b, b2 : b = Current(call, file, call.obj) /\ b2 = Current(c2, file, call.obj)
  OBVIOUS
<1>5. Grown(b, b2, n, m, call.val)
  BY <1>4, CurrentGrows
<1>6. s \in Nat /\ First(s) <= n /\ n + m <= First(s) + DPS /\ s \in Entries(call.prev)
  BY DEF Chunked
<1>7. DataAnew(flash, fl2, call.obj, s, q, b2)
  <2>1. Holds(fl2, call.obj, s, q, b, n, m, call.val)
    BY <1>4
  <2> QED BY <1>5, <1>6, <2>1, HoldsIs
<1>8. BytesAnew(b, b2, s)
  BY <1>5, <1>6, GrownElsewhere
<1>9. Reworked(call, c2, s, q) /\ Len(b2) \in Nat /\ Len(b) \in Nat /\ q \in Target
  BY <1>5 DEF Wrote, Grown, Holds, Target
<1>10. /\ FlashOK(fl2) /\ FdOK(fl2, fd) /\ Exist(fl2, file) /\ Layout(fl2, c2, file)
       /\ HoldsWork(fl2, c2) /\ HeadsSame(flash, fl2) /\ fl2[call.pix] = flash[call.pix]
       /\ Find(fl2, call.obj, 0) = Find(flash, call.obj, 0)
  <2>1. s \in Entries(call.prev) /\ q \in Target /\ Len(b2) \in Nat /\ call # NoCall
    BY <1>1, <1>6, <1>9
  <2>2. Reworked(call, c2, s, q) /\ BytesAnew(b, b2, s) /\ DataAnew(flash, fl2, call.obj, s, q, b2)
    BY <1>7, <1>8, <1>9
  <2>3. Rewritten(flash, fl2, call, c2, file, s, q, b, b2)
    BY <1>4, <2>1, <2>2 DEF Rewritten
  <2> QED BY <2>3, DataStep
<1>11. /\ c2 \in Locals /\ c2.op = call.op /\ c2.step = "run" /\ c2.obj = call.obj /\ c2.fd = call.fd
       /\ c2.temp = call.temp /\ c2.new = call.new /\ c2.written = call.written + m
  BY <1>2 DEF Wrote, Reworked
<1>12. HSize(fl2, call.obj) = HSize(flash, call.obj)
  BY <1>2, <1>3, <1>10 DEF HeadsSame, o
<1>13. WritesOn(fl2, fd, c2, file, view)
  BY <1>2, WroteOn
<1>14. Goes(fl2, fd, c2, file, view)
  <2>1. CASE call.op = "modify"
    BY <1>2, <1>11, <1>12, <1>13, <2>1, WroteModify DEF Goes
  <2>2. CASE call.op = "append"
    BY <1>2, <1>10, <1>11, <1>12, <1>13, <2>2, WroteAppend DEF Goes
  <2> QED BY <2>1, <2>2
<1>15. CallOK(fl2, fd, c2, file, view)
  BY <1>10, <1>11, <1>14 DEF CallOK, Goes, HoldsWork
<1>16. SizesAgree(fl2, fd, c2, file)
  <2>1. ASSUME NEW u \in Obj, file[u].exists, ~Changing(c2, u)
        PROVE  ~Changing(call, u) /\ Len(Current(c2, file, u)) = Len(Current(call, file, u))
    <3>1. CASE u # o
      BY <1>11, <3>1, CurrentOut DEF Changing, o
    <3>2. CASE u = o
      <4>1. call.op = "modify"
        BY <1>2, <1>11, <2>1, <3>2 DEF Changing, Chunked, o
      <4>2. Len(b) = Len(file[o].bytes)
        BY <1>2, <1>4, <4>1, CurrentIs DEF o
      <4>3. n + m <= Len(b)
        <5>1. call.offset + call.len <= Len(file[o].bytes)
          BY <4>1, WriteIs DEF o
        <5>2. n + m <= call.offset + call.len
          <6>1. PICK x, y, z : x = call.offset /\ y = call.written /\ z = call.len
            OBVIOUS
          <6>2. x \in Nat /\ y \in Nat /\ z \in Nat /\ n = x + y /\ m \in Nat /\ y + m <= z
            BY <1>2, <6>1 DEF Chunked
          <6> QED BY <6>1, <6>2
        <5>3. PICK l, z : l = Len(b) /\ z = call.offset + call.len
          OBVIOUS
        <5>4. z <= l /\ n + m <= z /\ l \in Nat /\ z \in Nat /\ n + m \in Nat
          <6>1. n \in Nat /\ m \in Nat
            BY DEF Chunked
          <6>2. z \in Nat /\ l \in Nat
            BY <1>2, <1>9, <5>3
          <6>3. z <= l
            BY <4>2, <5>1, <5>3
          <6> QED BY <5>2, <5>3, <6>1, <6>2, <6>3
        <5> QED BY <5>3, <5>4
      <4>4. Len(b2) = Len(b)
        <5>1. Len(b2) = IF n + m > Len(b) THEN n + m ELSE Len(b)
          BY <1>5 DEF Grown
        <5>2. n + m \in Nat
          BY DEF Chunked
        <5> QED BY <1>9, <4>3, <5>1, <5>2
      <4> QED BY <1>4, <3>2, <4>1, <4>4 DEF Changing, o
    <3> QED BY <3>1, <3>2
  <2>2. ASSUME NEW u \in Obj, file[u].exists, ~Changing(c2, u)
        PROVE  /\ Bytes(HSize(fl2, u)) = Len(Current(c2, file, u))
               /\ \A f \in Fd : fd[f].open /\ fd[f].obj = u => Bytes(fd[f].size) = Len(Current(c2, file, u))
    <3>1. ~Changing(call, u) /\ Len(Current(c2, file, u)) = Len(Current(call, file, u))
      BY <2>1, <2>2
    <3>2. HSize(fl2, u) = HSize(flash, u)
      BY <1>1, <1>10, <2>2 DEF Exist, HeadsSame
    <3>3. /\ Bytes(HSize(flash, u)) = Len(Current(call, file, u))
          /\ \A f \in Fd : fd[f].open /\ fd[f].obj = u => Bytes(fd[f].size) = Len(Current(call, file, u))
      BY <1>1, <2>2, <3>1 DEF SizesAgree
    <3> QED BY <3>1, <3>2, <3>3
  <2> QED BY <2>2 DEF SizesAgree
<1>17. Views(fd, c2, file, view)
  <2>1. \A f \in Fd : fd[f].pos \in 0 .. MaxSize
    BY <1>1 DEF FdOK, Descriptors
  <2>2. SameFile(call, c2) /\ c2.step = call.step
    BY <1>2, <1>11 DEF SameFile
  <2> QED BY <1>1, <2>1, <2>2, ShownSelf, ViewsKept
<1> QED BY <1>10, <1>11, <1>15, <1>16, <1>17, NoCallIs DEF Core

(* The data of a span whose index page is in hand.                         *)
SpanBytes(fl, x, s, b) ==
  \A j \in 0 .. DPS - 1 :
    BytesOf(fl, x)[j] = IF First(s) + j < Len(b) THEN b[First(s) + j + 1] ELSE Erased
OnlyPage(fl, o, s, x) == \A p \in Page : DataOf(fl[p], o) /\ fl[p].span = s => p = x

LEMMA InHandData ==
  ASSUME NEW fl, NEW fds, NEW c, NEW fi, NEW vw, NEW s, NEW b, NEW x,
         Core(fl, fds, c, fi, vw), HoldsWork(fl, c), s \in Entries(c.prev),
         b = Current(c, fi, c.obj), x = c.work.ix[s], c.obj \in Obj
  PROVE  /\ First(s) < Len(b) => DataIn(fl, x, c.obj, s)
         /\ First(s) < Len(b) => SpanBytes(fl, x, s, b)
         /\ ~(First(s) < Len(b)) => x = NoPage
         /\ OnlyPage(fl, c.obj, s, x)
<1>1. FlashOK(fl) /\ Layout(fl, c, fi) /\ s \in Spans /\ IxSpan(s) = c.prev
  BY CoreIs DEF Entries
<1>2. PICK R, o : R = Table(fl, c, o) /\ o = c.obj
  OBVIOUS
<1>3. Laid(fl, R, o, b)
  BY <1>1, <1>2 DEF Layout
<1>4. R[s] = x
  BY <1>1, <1>2, TableType
<1>5. /\ First(s) < Len(b) => DataIn(fl, x, o, s)
      /\ First(s) < Len(b) => SpanBytes(fl, x, s, b)
  BY <1>1, <1>3, <1>4, DataAt, ByteIs DEF SpanBytes
<1>6. ~(First(s) < Len(b)) => x = NoPage
  BY <1>1, <1>3, <1>4 DEF Laid
<1>7. OnlyPage(fl, o, s, x)
  BY <1>3, <1>4 DEF Laid, DataOf, OnlyPage
<1> QED BY <1>2, <1>5, <1>6, <1>7

(* The m places from i on of a page's bytes are erased, or v.              *)
BytesSet == [0 .. DPS - 1 -> Val \cup {Erased}]
Blank(y, i, m) == \A j \in 0 .. DPS - 1 : i <= j /\ j < i + m => y[j] = Erased
FilledWith(y, z, i, m, v) ==
  \A j \in 0 .. DPS - 1 : z[j] = IF i <= j /\ j < i + m THEN v ELSE y[j]

LEMMA FilledIs ==
  ASSUME NEW y, NEW i, NEW m, NEW v, NEW z, y \in BytesSet, v \in Val,
         i \in Nat, m \in Nat, Blank(y, i, m), z = Filled(y, i, m, v)
  PROVE  z \in BytesSet /\ FilledWith(y, z, i, m, v)
<1>1. z = [j \in 0 .. DPS - 1 |-> IF j \in i .. i + m - 1 THEN Over(y[j], v, Erased, Garbled) ELSE y[j]]
  BY DEF Filled
<1>2. ASSUME NEW j \in 0 .. DPS - 1 PROVE z[j] = IF i <= j /\ j < i + m THEN v ELSE y[j]
  <2>1. DPS - 1 \in Int /\ j \in Int
    BY ObjectsAssumption
  <2>2. j \in i .. i + m - 1 <=> i <= j /\ j < i + m
    BY <2>1
  <2> QED BY <1>1, <2>2 DEF Over, Blank
<1>3. \A j \in 0 .. DPS - 1 : z[j] \in Val \cup {Erased}
  BY <1>2 DEF BytesSet
<1>4. z = [j \in 0 .. DPS - 1 |-> z[j]]
  BY <1>1
<1> QED BY <1>2, <1>3, <1>4 DEF BytesSet, FilledWith

LEMMA DataPageIs ==
  ASSUME NEW o, NEW s, NEW z, o \in Obj, s \in Spans, z \in BytesSet
  PROVE  /\ DataPage(o, s, z) \in DataPages /\ DataPage(o, s, z) \in Pages
         /\ DataOf(DataPage(o, s, z), o) /\ DataPage(o, s, z).span = s /\ DataPage(o, s, z).bytes = z
         /\ DataPage(o, s, z).kind = "data"
BY DEF DataPage, DataPages, Pages, DataOf, BytesSet

LEMMA WriteAt ==
  ASSUME NEW n, NEW m, NEW s, Core(flash, fd, call, file, view), call.op \in {"append", "modify"},
         call.step = "run", call.written < call.len, IxSpan(span) = call.prev,
         n = place, m = Chunk, s = span
  PROVE  /\ HoldsWork(flash, call) /\ Chunked(call, n, m, s)
         /\ call.obj \in Obj /\ call.val \in Val /\ call \in Locals /\ FlashOK(flash)
         /\ Len(Current(call, file, call.obj)) \in Nat
         /\ call.op = "append" => /\ Len(Current(call, file, call.obj)) = n /\ call.offset <= n
                                  /\ Appending(flash, fd, call, file, view)
         /\ call.op = "modify" => n < Len(Current(call, file, call.obj))
<1>1. Chunked(call, n, m, s)
  BY ChunkIs
<1>2. /\ call \in Locals /\ call.obj \in Obj /\ call.val \in Val /\ WritesOn(flash, fd, call, file, view)
      /\ call.offset \in Nat /\ call.len \in Nat /\ call.written \in Nat
      /\ call.op = "modify" => call.offset + call.len <= Len(file[call.obj].bytes)
  BY WriteIs
<1>3. call.prev = -1 \/ HoldsWork(flash, call)
  BY CoreIs, CallIs, NoCallIs
<1>4. call.prev \in Nat
  BY <1>1, IxSpanType DEF Chunked, Entries
<1>5. HoldsWork(flash, call)
  BY <1>3, <1>4
<1>7. /\ Len(Current(call, file, call.obj)) = IF call.op = "append" THEN call.offset + call.written
                                             ELSE Len(file[call.obj].bytes)
      /\ Len(Current(call, file, call.obj)) \in Nat
  BY <1>2, CurrentIs
<1>8. n = call.offset + call.written /\ call.offset <= n /\ n < call.offset + call.len
  <2>1. PICK a, w, g : a = call.offset /\ w = call.written /\ g = call.len
    OBVIOUS
  <2>2. /\ a \in Nat /\ w \in Nat /\ g \in Nat /\ n = a + w /\ m \in Nat \ {0} /\ w + m <= g
    BY <1>1, <1>2, <2>1 DEF Chunked
  <2> QED BY <2>1, <2>2
<1>9. call.op = "modify" => n < Len(Current(call, file, call.obj))
  <2>1. PICK l, y : l = Len(Current(call, file, call.obj)) /\ y = call.offset + call.len
    OBVIOUS
  <2>2. call.op = "modify" => y <= l /\ n < y
    BY <1>2, <1>7, <1>8, <2>1
  <2>3. y \in Nat /\ l \in Nat /\ n \in Nat
    <3>1. n \in Nat
      BY <1>1 DEF Chunked
    <3> QED BY <1>2, <1>7, <2>1, <3>1
  <2> QED BY <2>1, <2>2, <2>3
<1>10. call.op = "append" => Appending(flash, fd, call, file, view)
  BY CoreIs, CallIs, NoCallIs
<1> QED BY <1>1, <1>2, <1>5, <1>7, <1>8, <1>9, <1>10, CoreIs

LEMMA InHandNone ==
  ASSUME NEW s, NEW b, NEW x, Core(flash, fd, call, file, view), HoldsWork(flash, call),
         s \in Entries(call.prev), b = Current(call, file, call.obj), x = call.work.ix[s],
         call.obj \in Obj, ~(First(s) < Len(b))
  PROVE  x = NoPage /\ OnlyPage(flash, call.obj, s, x)
<1>1. FlashOK(flash) /\ Layout(flash, call, file) /\ s \in Spans /\ IxSpan(s) = call.prev
  BY CoreIs DEF Entries
<1>2. PICK R, o : R = Table(flash, call, o) /\ o = call.obj
  OBVIOUS
<1>3. Laid(flash, R, o, b)
  BY <1>1, <1>2 DEF Layout
<1>4. R[s] = x
  BY <1>1, <1>2, TableType
<1> QED BY <1>1, <1>2, <1>3, <1>4 DEF Laid, DataOf, OnlyPage

LEMMA AppendDataKeeps ==
  ASSUME Core(flash, fd, call, file, view), AppendData
  PROVE  Core(flash', fd', call', file, view) /\ call' # NoCall
<1>1. PICK n, m, s, q : n = place /\ m = Chunk /\ s = span /\ q = NextFree(flash)
  OBVIOUS
<1>2. PICK o, v : o = call.obj /\ v = call.val
  OBVIOUS
<1>3. PICK z : z = Filled(NoBytes, 0, m, v)
  OBVIOUS
<1>4. /\ call.op = "append" /\ call.step = "run" /\ call.written < call.len /\ IxSpan(span) = call.prev
      /\ n % DPS = 0 /\ flash' = Allocated(flash, DataPage(o, s, z)) /\ Referring(q) /\ fd' = fd
  BY <1>1, <1>2, <1>3 DEF AppendData, AtData, Running
<1>5. /\ HoldsWork(flash, call) /\ Chunked(call, n, m, s) /\ OneFree(flash)
      /\ call.obj \in Obj /\ call.val \in Val /\ call \in Locals /\ FlashOK(flash)
      /\ Len(Current(call, file, call.obj)) = n /\ call.offset <= n
      /\ Appending(flash, fd, call, file, view)
  BY <1>1, <1>4, WriteAt, NotFull DEF AppendData
<1>6. PICK b, x, fl2, img : /\ b = Current(call, file, call.obj) /\ x = call.work.ix[s]
                            /\ fl2 = flash' /\ img = DataPage(o, s, z)
  OBVIOUS
<1>7. First(s) = n /\ n \in Nat /\ s \in Entries(call.prev) /\ s \in Spans /\ m \in Nat \ {0}
  BY <1>4, <1>5 DEF Chunked
<1>8. x = NoPage /\ OnlyPage(flash, call.obj, s, x)
  <2>1. First(s) = n /\ Len(b) = n
    BY <1>5, <1>6, <1>7
  <2>2. ~(First(s) < Len(b))
    BY <1>7, <2>1
  <2>3. /\ HoldsWork(flash, call) /\ s \in Entries(call.prev) /\ b = Current(call, file, call.obj)
        /\ x = call.work.ix[s] /\ call.obj \in Obj
    BY <1>5, <1>6, <1>7
  <2> QED BY <2>2, <2>3, InHandNone
<1>9. NoBytes \in BytesSet /\ Blank(NoBytes, 0, m) /\ \A j \in 0 .. DPS - 1 : NoBytes[j] = Erased
  BY DEF NoBytes, BytesSet, Blank
<1>10. z \in BytesSet /\ \A j \in 0 .. DPS - 1 : z[j] = IF j < m THEN v ELSE Erased
  <2>1. v \in Val /\ 0 \in Nat /\ m \in Nat
    BY <1>2, <1>5, <1>7
  <2>2. z \in BytesSet /\ FilledWith(NoBytes, z, 0, m, v)
    BY <1>3, <1>9, <2>1, FilledIs
  <2> QED BY <1>7, <1>9, <2>2, ObjectsAssumption DEF FilledWith
<1>11. img \in Pages /\ DataOf(img, o) /\ img.span = s /\ img.bytes = z /\ img.kind = "data"
  BY <1>2, <1>5, <1>6, <1>7, <1>10, DataPageIs
<1>12. q \in Page /\ flash[q].kind = "free"
  BY <1>1, <1>5, NextFreeIs DEF OneFree
<1>13. fl2 = [flash EXCEPT ![q] = img]
  BY <1>1, <1>4, <1>6 DEF Allocated
<1>14. flash \in [Page -> Pages]
  BY <1>5 DEF FlashOK
<1>15. fl2 \in [Page -> Pages] /\ fl2[q] = img /\ \A p \in Page : p # q => fl2[p] = flash[p]
  BY <1>11, <1>12, <1>13, <1>14
<1>16. ~DataOf(flash[q], o)
  BY <1>12 DEF DataOf
<1>17. Anew(flash, fl2, o, s, q)
  <2>1. ASSUME NEW p \in Page, p # q PROVE ~(DataOf(flash[p], o) /\ flash[p].span = s)
    BY <1>2, <1>8, <2>1, PageType DEF OnlyPage
  <2> QED BY <1>11, <1>12, <1>15, <2>1 DEF Anew, DataOf
<1>18. Holds(fl2, o, s, q, b, n, m, v)
  <2>1. ASSUME NEW j \in 0 .. DPS - 1
        PROVE  z[j] = IF n <= First(s) + j /\ First(s) + j < n + m THEN v
                      ELSE IF First(s) + j < Len(b) THEN b[First(s) + j + 1] ELSE Erased
    <3>1. j \in Nat /\ ~(n + j < n) /\ (n <= n + j /\ n + j < n + m <=> j < m)
      BY <1>7, ObjectsAssumption
    <3> QED BY <1>5, <1>6, <1>7, <1>10, <3>1
  <2> QED BY <1>11, <1>12, <1>15, <2>1 DEF Holds
<1>19. Adds(flash, call, s, q)
  <2>1. flash[call.pix].ix[s] \in {NoPage, x}
    <3>1. call.prev # -1
      BY <1>5 DEF HoldsWork
    <3> QED BY <1>5, <1>6, <1>7, <3>1 DEF Appending
  <2> QED BY <1>5, <1>7, <1>8, <2>1 DEF Adds
<1>20. Wrote(call, call', m, s, q)
  <2>1. q \in Target
    BY <1>12 DEF Target
  <2> QED BY <1>1, <1>4, <1>5, <2>1, WroteIs
<1>21. Core(fl2, fd, call', file, view) /\ call' # NoCall
  <2>1. /\ Anew(flash, fl2, call.obj, s, q)
        /\ DataOf(flash[q], call.obj) => flash[q].span = s
        /\ Holds(fl2, call.obj, s, q, Current(call, file, call.obj), n, m, call.val)
    BY <1>2, <1>6, <1>16, <1>17, <1>18
  <2> QED BY <1>4, <1>5, <1>15, <1>19, <1>20, <2>1, WroteKeeps
<1> QED BY <1>4, <1>6, <1>21

(* The last page of the file is filled up.                                 *)
LEMMA AppendInPageKeeps ==
  ASSUME Core(flash, fd, call, file, view), AppendInPage
  PROVE  Core(flash', fd', call', file, view) /\ call' # NoCall
<1>1. PICK n, m, s, q : n = place /\ m = Chunk /\ s = span /\ q = call.work.ix[s]
  OBVIOUS
<1>2. PICK o, v, i : o = call.obj /\ v = call.val /\ i = n % DPS
  OBVIOUS
<1>3. /\ call.op = "append" /\ call.step = "run" /\ call.written < call.len /\ IxSpan(span) = call.prev
      /\ i > 0
      /\ IF q \in Page /\ flash[q].kind = "data"
         THEN /\ flash' = [flash EXCEPT ![q].bytes = Filled(@, i, m, v)]
              /\ Referring(q)
              /\ fd' = fd
         ELSE Fail(Now)
  BY <1>1, <1>2 DEF AppendInPage, AtData, Running
<1>4. /\ HoldsWork(flash, call) /\ Chunked(call, n, m, s)
      /\ call.obj \in Obj /\ call.val \in Val /\ call \in Locals /\ FlashOK(flash)
      /\ Len(Current(call, file, call.obj)) = n
  BY <1>1, <1>3, WriteAt
<1>5. PICK b, fl2 : b = Current(call, file, call.obj) /\ fl2 = flash'
  OBVIOUS
<1>6. PICK a : a = First(s)
  OBVIOUS
<1>7. a \in Nat /\ n = a + i /\ n \in Nat /\ i \in 0 .. DPS - 1 /\ s \in Entries(call.prev) /\ s \in Spans
      /\ m \in Nat \ {0} /\ a < n
  BY <1>2, <1>3, <1>4, <1>6 DEF Chunked
<1>8. First(s) < Len(b)
  BY <1>4, <1>5, <1>6, <1>7
<1>9. /\ DataIn(flash, q, call.obj, s) /\ SpanBytes(flash, q, s, b)
      /\ OnlyPage(flash, call.obj, s, q)
  <2>1. /\ HoldsWork(flash, call) /\ s \in Entries(call.prev) /\ b = Current(call, file, call.obj)
        /\ q = call.work.ix[s] /\ call.obj \in Obj
    BY <1>1, <1>4, <1>5, <1>7
  <2> QED BY <1>8, <2>1, InHandData
<1>10. PICK y, z : y = flash[q].bytes /\ z = Filled(y, i, m, v)
  OBVIOUS
<1>11. /\ q \in Page /\ flash[q] \in DataPages /\ flash[q].kind = "data" /\ flash[q].obj = o
       /\ flash[q].span = s /\ y \in BytesSet
  BY <1>2, <1>9, <1>10, DataFields DEF DataIn, BytesSet
<1>12. \A j \in 0 .. DPS - 1 : y[j] = IF a + j < n THEN b[a + j + 1] ELSE Erased
  BY <1>4, <1>5, <1>6, <1>9, <1>10 DEF DataIn, SpanBytes
<1>13. Blank(y, i, m)
  <2>1. ASSUME NEW j \in 0 .. DPS - 1, i <= j PROVE y[j] = Erased
    <3>1. ~(a + j < n)
      BY <1>7, <2>1, ObjectsAssumption
    <3> QED BY <1>12, <3>1
  <2> QED BY <2>1 DEF Blank
<1>14. z \in BytesSet /\ FilledWith(y, z, i, m, v)
  <2>1. v \in Val /\ i \in Nat /\ m \in Nat
    BY <1>2, <1>4, <1>7, ObjectsAssumption
  <2> QED BY <1>10, <1>11, <1>13, <2>1, FilledIs
<1>15. PICK x : x = [flash[q] EXCEPT !.bytes = z]
  OBVIOUS
<1>16. x \in Pages /\ DataOf(x, o) /\ x.span = s /\ x.bytes = z /\ x.kind = "data"
  <2>1. x \in DataPages /\ x.obj = o /\ x.span = s /\ x.bytes = z
    BY <1>11, <1>14, <1>15 DEF DataPages, BytesSet
  <2> QED BY <2>1, DataFields DEF DataOf
<1>17. fl2 = [flash EXCEPT ![q] = x] /\ Referring(q) /\ fd' = fd
  <2>1. flash' = [flash EXCEPT ![q].bytes = Filled(@, i, m, v)] /\ Referring(q) /\ fd' = fd
    BY <1>3, <1>11
  <2> QED BY <1>5, <1>10, <1>15, <2>1
<1>18. flash \in [Page -> Pages]
  BY <1>4 DEF FlashOK
<1>19. fl2 \in [Page -> Pages] /\ fl2[q] = x /\ \A p \in Page : p # q => fl2[p] = flash[p]
  BY <1>11, <1>16, <1>17, <1>18
<1>20. Anew(flash, fl2, o, s, q)
  <2>1. ASSUME NEW p \in Page, p # q PROVE ~(DataOf(flash[p], o) /\ flash[p].span = s)
    BY <1>2, <1>9, <2>1 DEF OnlyPage
  <2> QED BY <1>11, <1>16, <1>19, <2>1 DEF Anew, DataOf
<1>21. Holds(fl2, o, s, q, b, n, m, v)
  <2>1. ASSUME NEW j \in 0 .. DPS - 1
        PROVE  z[j] = IF n <= a + j /\ a + j < n + m THEN v
                      ELSE IF a + j < n THEN b[a + j + 1] ELSE Erased
    <3>1. n <= a + j /\ a + j < n + m <=> i <= j /\ j < i + m
      BY <1>7, ObjectsAssumption
    <3>2. z[j] = IF i <= j /\ j < i + m THEN v ELSE y[j]
      BY <1>14 DEF FilledWith
    <3>3. y[j] = IF a + j < n THEN b[a + j + 1] ELSE Erased
      BY <1>12
    <3> QED BY <3>1, <3>2, <3>3
  <2> QED BY <1>4, <1>5, <1>6, <1>11, <1>16, <1>19, <2>1 DEF Holds
<1>22. Adds(flash, call, s, q)
  BY <1>1 DEF Adds
<1>23. Wrote(call, call', m, s, q)
  <2>1. q \in Target
    BY <1>11 DEF Target
  <2> QED BY <1>1, <1>4, <1>17, <2>1, WroteIs
<1>24. Core(fl2, fd, call', file, view) /\ call' # NoCall
  <2>1. /\ Anew(flash, fl2, call.obj, s, q)
        /\ DataOf(flash[q], call.obj) => flash[q].span = s
        /\ Holds(fl2, call.obj, s, q, Current(call, file, call.obj), n, m, call.val)
    BY <1>2, <1>5, <1>11, <1>20, <1>21
  <2> QED BY <1>3, <1>4, <1>19, <1>22, <1>23, <2>1, WroteKeeps
<1> QED BY <1>5, <1>17, <1>24

LEMMA DataMovedTo ==
  ASSUME NEW fl, NEW p, NEW q, NEW img, NEW fl2, fl \in [Page -> Pages], p \in Page,
         fl[p].kind # "free", q = NextFree(fl), OneFree(fl), img \in Pages, fl2 = Moved(fl, p, img)
  PROVE  /\ fl2 \in [Page -> Pages] /\ q \in Page /\ q # p /\ fl[q].kind = "free"
         /\ fl2[q] = img /\ fl2[p] = DeletedPage
         /\ \A r \in Page : r # q /\ r # p => fl2[r] = fl[r]
<1>1. q \in Page /\ fl[q].kind = "free"
  BY NextFreeIs DEF OneFree
<1>2. fl2 = [[fl EXCEPT ![q] = img] EXCEPT ![p] = DeletedPage]
  BY DEF Moved, Allocated, Without
<1>3. DeletedPage \in Pages
  BY DEF Pages
<1> QED BY <1>1, <1>2, <1>3

(* A page is written anew with what it held and the new bytes.             *)
LEMMA ModifyDataHolds ==
  ASSUME Core(flash, fd, call, file, view), ModifyData
  PROVE  Core(flash', fd', call', file, view) /\ call' # NoCall
<1>1. PICK n, m, s, p : n = place /\ m = Chunk /\ s = span /\ p = call.work.ix[s]
  OBVIOUS
<1>2. PICK o, v, i, q : o = call.obj /\ v = call.val /\ i = n % DPS /\ q = NextFree(flash)
  OBVIOUS
<1>3. PICK z : z = [j \in 0 .. DPS - 1 |-> IF j \in i .. i + m - 1 THEN v ELSE BytesOf(flash, p)[j]]
  OBVIOUS
<1>4. /\ call.op = "modify" /\ call.step = "run" /\ call.written < call.len /\ IxSpan(span) = call.prev
      /\ flash' = Moved(flash, p, DataPage(o, s, z)) /\ Referring(q) /\ fd' = fd
  BY <1>1, <1>2, <1>3 DEF ModifyData, AtData, Running
<1>5. /\ HoldsWork(flash, call) /\ Chunked(call, n, m, s) /\ OneFree(flash)
      /\ call.obj \in Obj /\ call.val \in Val /\ call \in Locals /\ FlashOK(flash)
      /\ n < Len(Current(call, file, call.obj)) /\ Len(Current(call, file, call.obj)) \in Nat
  BY <1>1, <1>4, WriteAt, NotFull DEF ModifyData
<1>6. PICK b, fl2, a, img : /\ b = Current(call, file, call.obj) /\ fl2 = flash' /\ a = First(s)
                            /\ img = DataPage(o, s, z)
  OBVIOUS
<1>7. a \in Nat /\ n = a + i /\ n \in Nat /\ i \in 0 .. DPS - 1 /\ s \in Entries(call.prev) /\ s \in Spans
      /\ m \in Nat \ {0}
  BY <1>2, <1>5, <1>6 DEF Chunked
<1>8. First(s) < Len(b)
  <2>1. PICK l : l = Len(b)
    OBVIOUS
  <2>2. n < l /\ l \in Nat
    BY <1>5, <1>6, <2>1
  <2>3. a < l
    BY <1>7, <2>2
  <2> QED BY <1>6, <2>1, <2>3
<1>9. /\ DataIn(flash, p, call.obj, s) /\ SpanBytes(flash, p, s, b)
      /\ OnlyPage(flash, call.obj, s, p)
  <2>1. /\ HoldsWork(flash, call) /\ s \in Entries(call.prev) /\ b = Current(call, file, call.obj)
        /\ p = call.work.ix[s] /\ call.obj \in Obj
    BY <1>1, <1>5, <1>6, <1>7
  <2> QED BY <1>8, <2>1, InHandData
<1>10. /\ p \in Page /\ flash[p] \in DataPages /\ flash[p].kind = "data" /\ flash[p].obj = o
       /\ flash[p].span = s /\ BytesOf(flash, p) \in BytesSet
  BY <1>2, <1>9, DataFields DEF DataIn, BytesSet
<1>11. ASSUME NEW j \in 0 .. DPS - 1
       PROVE  z[j] = IF n <= a + j /\ a + j < n + m THEN v ELSE BytesOf(flash, p)[j]
  <2>1. j \in i .. i + m - 1 <=> n <= a + j /\ a + j < n + m
    BY <1>7, ObjectsAssumption
  <2> QED BY <1>3, <2>1
<1>12. z \in BytesSet
  <2>1. \A j \in 0 .. DPS - 1 : z[j] \in Val \cup {Erased}
    BY <1>2, <1>5, <1>10, <1>11 DEF BytesSet
  <2>2. z = [j \in 0 .. DPS - 1 |-> z[j]]
    BY <1>3
  <2> QED BY <2>1, <2>2 DEF BytesSet
<1>13. img \in Pages /\ DataOf(img, o) /\ img.span = s /\ img.bytes = z /\ img.kind = "data"
  BY <1>2, <1>5, <1>6, <1>7, <1>12, DataPageIs
<1>14. /\ fl2 \in [Page -> Pages] /\ q \in Page /\ q # p /\ flash[q].kind = "free"
       /\ fl2[q] = img /\ fl2[p] = DeletedPage
       /\ \A r \in Page : r # q /\ r # p => fl2[r] = flash[r]
  <2>1. flash \in [Page -> Pages] /\ flash[p].kind # "free" /\ fl2 = Moved(flash, p, img)
    BY <1>4, <1>5, <1>6, <1>10 DEF FlashOK
  <2> QED BY <1>2, <1>5, <1>10, <1>13, <2>1, DataMovedTo
<1>15. DeletedPage.kind = "deleted"
  BY DEF DeletedPage
<1>16. Anew(flash, fl2, o, s, q)
  <2>1. ASSUME NEW r \in Page, r # q, r # p PROVE fl2[r] = flash[r] /\ ~(DataOf(flash[r], o) /\ flash[r].span = s)
    BY <1>2, <1>9, <1>14, <2>1 DEF OnlyPage
  <2> QED BY <1>10, <1>13, <1>14, <1>15, <2>1 DEF Anew, DataOf
<1>17. Holds(fl2, o, s, q, b, n, m, v)
  <2>1. ASSUME NEW j \in 0 .. DPS - 1
        PROVE  z[j] = IF n <= First(s) + j /\ First(s) + j < n + m THEN v
                      ELSE IF First(s) + j < Len(b) THEN b[First(s) + j + 1] ELSE Erased
    BY <1>6, <1>9, <1>11 DEF SpanBytes
  <2> QED BY <1>13, <1>14, <2>1 DEF Holds
<1>18. Wrote(call, call', m, s, q)
  <2>1. q \in Target
    BY <1>14 DEF Target
  <2> QED BY <1>1, <1>4, <1>5, <2>1, WroteIs
<1>19. Core(fl2, fd, call', file, view) /\ call' # NoCall
  <2>1. /\ Anew(flash, fl2, call.obj, s, q)
        /\ DataOf(flash[q], call.obj) => flash[q].span = s
        /\ Holds(fl2, call.obj, s, q, Current(call, file, call.obj), n, m, call.val)
    BY <1>2, <1>6, <1>14, <1>16, <1>17 DEF DataOf
  <2>2. call.op # "append" /\ call.op \in {"append", "modify"}
    BY <1>4
  <2> QED BY <1>5, <1>14, <1>18, <2>1, <2>2, WroteKeeps
<1> QED BY <1>4, <1>6, <1>19
=============================================================================
