--------------------------- MODULE ObjectsProofs ---------------------------
(***************************************************************************)
(* Theorems about Objects, for files of any size, any number of pages,     *)
(* descriptors and calls, under one hypothesis: files are cut only where   *)
(* spiffs_object_truncate handles it (Cuts).                               *)
(***************************************************************************)
EXTENDS ObjectsLemmas

-----------------------------------------------------------------------------
(* A truncation gives up the data of the last span.                        *)
(* The call's file now ends at place n; page q is in hand for span s.      *)
Shortened(c, c2, n, s, q) ==
  /\ c2 \in Locals /\ Reworked(c, c2, s, q) /\ c2.cur = n /\ c2.span = c.span - 1
  /\ c2.fd = c.fd /\ c2.temp = c.temp /\ c2.new = c.new /\ c2.full = c.full

LEMMA ShortenedIs ==
  ASSUME NEW n, NEW s, NEW q, call \in Locals, HoldsWork(flash, call), s \in Entries(call.prev),
         s = call.span, n \in Nat, q \in Target, Shorter(n, q)
  PROVE  Shortened(call, call', n, s, q) /\ SetSize(fd, call.fd, n, fd')
<1>1. PICK x : x = call.work
  OBVIOUS
<1>2. x \in IxPages /\ s \in Entries(x.span) /\ x.span = call.prev
  BY <1>1 DEF HoldsWork
<1>3. PICK y : y = [x EXCEPT !.ix[s] = q]
  OBVIOUS
<1>4. RefSet(x, y, s, q)
  BY <1>2, <1>3, RefSetIs
<1>5. PICK r : r = call.span - 1
  OBVIOUS
<1>6. call' = [call EXCEPT !.cur = n, !.span = r, !.work = y]
  <2>1. call' = [call EXCEPT !.cur = n, !.span = @ - 1, !.work.ix[s] = q]
    BY Zenon DEF Shorter
  <2> QED BY <1>1, <1>3, <1>5, <2>1 DEF Locals
<1>7. r \in Int /\ y \in Pages
  BY <1>4, <1>5, IxFields DEF Locals, RefSet
<1>8. call' \in Locals
  BY <1>6, <1>7 DEF Locals
<1>9. /\ call'.cur = n /\ call'.span = r /\ call'.work = y
      /\ call'.obj = call.obj /\ call'.prev = call.prev /\ call'.pix = call.pix
      /\ call'.step = call.step /\ call'.op = call.op
      /\ call'.fd = call.fd /\ call'.temp = call.temp /\ call'.new = call.new /\ call'.full = call.full
  BY <1>6 DEF Locals
<1>10. Reworked(call, call', s, q)
  <2>1. /\ y.ix[s] = q /\ \A t \in Entries(call.prev) : t # s => y.ix[t] = x.ix[t]
        /\ y \in IxPages /\ y.obj = x.obj /\ y.span = x.span
    BY <1>2, <1>4 DEF RefSet
  <2> QED BY <1>1, <1>9, <2>1 DEF Reworked
<1>11. SetSize(fd, call.fd, n, fd')
  BY DEF Shorter, SetSize
<1> QED BY <1>5, <1>8, <1>9, <1>10, <1>11 DEF Shortened

(* The last span before the end.                                           *)
LEMMA LastSpan ==
  ASSUME NEW n, NEW s, n \in Nat, n > 0, s = DataSpan(n - 1)
  PROVE  /\ s \in Nat /\ First(s) \in Nat /\ First(s) < n /\ n <= First(s) + DPS
         /\ DPS * DataSpan(n - 1) = First(s) /\ DataSpan(First(s)) = s
         /\ s > 0 => DataSpan(First(s) - 1) = s - 1
         /\ s = 0 <=> First(s) = 0
         /\ First(s) % DPS = 0
         /\ n % DPS = 0 => n = First(s) + DPS
<1>1. n - 1 \in Nat /\ DPS \in Nat \ {0}
  BY ObjectsAssumption
<1>2. /\ s \in Nat /\ (n - 1) % DPS \in 0 .. DPS - 1 /\ First(s) \in Nat
      /\ n - 1 = First(s) + ((n - 1) % DPS) /\ First(s) = DPS * s
  BY <1>1, SpanOf
<1>3. PICK a, i : a = First(s) /\ i = (n - 1) % DPS
  OBVIOUS
<1>4. a \in Nat /\ i \in 0 .. DPS - 1 /\ n - 1 = a + i
  BY <1>2, <1>3
<1>5. a < n /\ n <= a + DPS
  BY <1>1, <1>4
<1>6. DataSpan(First(s) + 0) = s /\ (First(s) + 0) % DPS = 0
  <2>1. 0 \in 0 .. DPS - 1
    BY <1>1
  <2> QED BY <1>2, <2>1, SpanIs
<1>7. First(s) + 0 = First(s)
  BY <1>2
<1>8. s > 0 => DataSpan(First(s) - 1) = s - 1
  <2> SUFFICES ASSUME s > 0 PROVE DataSpan(First(s) - 1) = s - 1
    OBVIOUS
  <2>1. PICK t : t = s - 1
    OBVIOUS
  <2>2. t \in Nat /\ t + 1 = s
    BY <1>2, <2>1
  <2>3. First(t) \in Nat /\ First(s) = First(t) + DPS
    BY <2>2, FirstType
  <2>4. DataSpan(First(t) + (DPS - 1)) = t
    <3>1. DPS - 1 \in 0 .. DPS - 1
      BY <1>1
    <3> QED BY <2>2, <3>1, SpanIs
  <2>5. First(t) + (DPS - 1) = First(s) - 1
    BY <1>1, <2>3
  <2> QED BY <2>1, <2>4, <2>5
<1>9. s = 0 <=> First(s) = 0
  <2>1. First(0) = 0
    BY FirstType
  <2>2. CASE s # 0
    <3>1. 0 \in Nat /\ 0 < s
      BY <1>2, <2>2
    <3>2. First(0) + DPS <= First(s)
      BY <1>2, <3>1, FirstRises
    <3> QED BY <1>1, <1>2, <2>1, <2>2, <3>2
  <2>3. CASE s = 0
    BY <2>1, <2>3
  <2> QED BY <2>2, <2>3
<1>10. n % DPS = 0 => n = First(s) + DPS
  <2> SUFFICES ASSUME n % DPS = 0 PROVE n = First(s) + DPS
    OBVIOUS
  <2>1. PICK k : k = DataSpan(n)
    OBVIOUS
  <2>2. k \in Nat /\ First(k) \in Nat /\ n = First(k)
    BY <2>1, SpanOf
  <2>3. CASE s < k
    <3>1. First(s) + DPS <= First(k)
      BY <1>2, <2>2, <2>3, FirstRises
    <3>2. PICK d : d = DPS
      OBVIOUS
    <3>3. a + d <= n /\ d \in Nat /\ a \in Nat /\ n \in Nat /\ n <= a + d
      BY <1>1, <1>3, <1>4, <1>5, <2>2, <3>1, <3>2
    <3> QED BY <1>3, <3>2, <3>3
  <2>4. CASE k < s
    <3>1. First(k) + DPS <= First(s)
      BY <1>2, <2>2, <2>4, FirstRises
    <3> QED BY <1>1, <1>2, <1>3, <1>5, <2>2, <3>1
  <2>5. CASE k = s
    BY <1>3, <1>5, <2>2, <2>5, <1>2
  <2> QED BY <1>2, <2>2, <2>3, <2>4, <2>5
<1> QED BY <1>2, <1>3, <1>5, <1>6, <1>7, <1>8, <1>9, <1>10

(* The places of a truncation's step: the last span is s.                  *)
Cutoff(fl, c, s) ==
  /\ HoldsWork(fl, c) /\ c # NoCall /\ c \in Locals /\ c.obj \in Obj /\ c.fd \in Fd
  /\ s \in Entries(c.prev) /\ s \in Nat /\ s \in Spans /\ s = c.span /\ s = DataSpan(c.cur - 1)
  /\ c.cur \in Nat /\ c.new \in Nat /\ c.new < c.cur /\ c.prev \in Nat

LEMMA CutoffIs ==
  ASSUME NEW s, Core(flash, fd, call, file, view), call.op = "truncate", call.step = "run",
         call.cur > call.new, IxSpan(s) = call.prev, s = call.span
  PROVE  /\ Cutoff(flash, call, s) /\ Shortens(flash, fd, call, file, view)
         /\ Len(Current(call, file, call.obj)) = call.cur
         /\ call.cur <= Len(file[call.obj].bytes) /\ Len(file[call.obj].bytes) \in 0 .. MaxSize
<1>1. /\ call \in Locals /\ call.fd \in Fd /\ call.obj \in Obj /\ call.new \in Nat /\ call.cur \in Nat
      /\ call.new <= call.cur /\ call.cur <= Len(file[call.obj].bytes)
      /\ Shortens(flash, fd, call, file, view) /\ Len(file[call.obj].bytes) \in 0 .. MaxSize
  BY CutPlace
<1>2. call # NoCall
  BY NoCallIs
<1>3. s = DataSpan(call.cur - 1)
  BY <1>1 DEF Shortens
<1>4. PICK l, m : l = Len(file[call.obj].bytes) /\ m = call.cur - 1
  OBVIOUS
<1>5. m \in 0 .. MaxSize
  BY <1>1, <1>4, ObjectsAssumption
<1>6. s \in Spans /\ s \in Nat
  BY <1>3, <1>4, <1>5, SpansType
<1>7. call.prev \in Nat /\ s \in Entries(call.prev)
  BY <1>6, IxSpanType DEF Entries
<1>8. HoldsWork(flash, call)
  <2>1. call.prev = -1 \/ HoldsWork(flash, call)
    BY <1>2, CoreIs, CallIs
  <2> QED BY <1>7, <2>1
<1>9. Len(Current(call, file, call.obj)) = call.cur
  BY <1>1, CurrentIs
<1> QED BY <1>1, <1>2, <1>3, <1>6, <1>7, <1>8, <1>9 DEF Cutoff

LEMMA CutGoes ==
  ASSUME NEW fl, NEW fds, NEW c, NEW fi, NEW vw, NEW fl2, NEW fds2, NEW c2, NEW n, NEW s, NEW q,
         Shortens(fl, fds, c, fi, vw), Cutoff(fl, c, s), Shortened(c, c2, n, s, q), c.step = "run",
         Placed(fds, fds2), n \in Nat, c.new <= n, First(s) <= n, n < c.cur, n = First(s) \/ n = c.new,
         Len(fi[c.obj].bytes) \in Nat
  PROVE  Shortens(fl2, fds2, c2, fi, vw)
<1>1. /\ c2.obj = c.obj /\ c2.prev = c.prev /\ c2.step = c.step /\ c2.cur = n /\ c2.span = c.span - 1
      /\ c2.fd = c.fd /\ c2.temp = c.temp /\ c2.new = c.new /\ c2.full = c.full
  BY DEF Shortened, Reworked
<1>2. /\ s \in Nat /\ s = c.span /\ s = DataSpan(c.cur - 1) /\ c.cur \in Nat /\ c.new \in Nat
      /\ c.prev = IxSpan(s) /\ c.prev \in Nat /\ c.fd \in Fd
  BY DEF Cutoff, Entries
<1>3. /\ fds[c.fd].open /\ fds[c.fd].obj = c.obj /\ c.cur <= Len(fi[c.obj].bytes)
      /\ c.full => c.new = 0
      /\ c.temp => c.new = 0 /\ fds[c.fd].pos = 0
      /\ ~c.full => c.new < Len(fi[c.obj].bytes) /\ CutKind(Len(fi[c.obj].bytes), c.new) = "clean"
  BY DEF Shortens
<1>4. PICK a : a = First(s)
  OBVIOUS
<1>5. /\ a \in Nat /\ a < c.cur /\ c.cur <= a + DPS /\ DataSpan(a) = s
      /\ s > 0 => DataSpan(a - 1) = s - 1
      /\ s = 0 <=> a = 0
      /\ a % DPS = 0
  <2>1. c.cur > 0
    BY <1>2 DEF Cutoff
  <2> QED BY <1>2, <1>4, <2>1, LastSpan
<1>6. PICK l : l = Len(fi[c.obj].bytes)
  OBVIOUS
<1>7. l \in Nat /\ l # 0 /\ n <= l
  BY <1>2, <1>3, <1>6
<1>8. ASSUME n > c.new
      PROVE  c2.span = DataSpan(n - 1) /\ n % DPS = 0 /\ IxSpan(c2.span) <= c.prev
  <2>1. n = a
    BY <1>4, <1>8
  <2>2. s > 0
    BY <1>2, <1>5, <1>8, <2>1
  <2>3. PICK t : t = s - 1
    OBVIOUS
  <2>4. t \in Nat /\ t <= s /\ c2.span = t
    BY <1>1, <1>2, <2>2, <2>3
  <2>5. IxSpan(t) <= IxSpan(s)
    BY <1>2, <2>4, IxSpansRise
  <2> QED BY <1>2, <1>5, <2>1, <2>2, <2>3, <2>4, <2>5
<1>9. ASSUME n = c.new PROVE c.prev = IxSpan(DataSpan(c.new))
  <2>1. PICK j, d, m : j = n - a /\ d = DPS /\ m = c.cur
    OBVIOUS
  <2>4. n \in Nat /\ a \in Nat /\ m \in Nat /\ a <= n /\ n < m /\ m <= a + d /\ d \in Nat
    BY <1>2, <1>4, <1>5, <2>1, ObjectsAssumption
  <2>5. j \in 0 .. d - 1 /\ a + j = n
    BY <2>1, <2>4
  <2>2. j \in 0 .. DPS - 1 /\ a + j = n
    BY <2>1, <2>5
  <2>3. DataSpan(First(s) + j) = s
    BY <1>2, <2>2, SpanIs
  <2>6. First(s) + j = c.new
    BY <1>4, <1>9, <2>2
  <2> QED BY <1>2, <2>3, <2>6
<1>10. fds2[c.fd].open = fds[c.fd].open /\ fds2[c.fd].obj = fds[c.fd].obj /\ fds2[c.fd].pos = fds[c.fd].pos
  BY <1>2 DEF Placed
<1>11. c.prev # -1
  BY <1>2
<1> QED BY <1>1, <1>3, <1>6, <1>7, <1>8, <1>9, <1>10 DEF Shortens

(* What page q holds after the step.                                       *)
Keeps(fl2, o, s, q, b, n) ==
  IF q = NoPage THEN n = First(s)
  ELSE /\ First(s) < n /\ DataOf(fl2[q], o) /\ fl2[q].span = s
       /\ \A j \in 0 .. DPS - 1 :
            fl2[q].bytes[j] = IF First(s) + j < n THEN b[First(s) + j + 1] ELSE Erased

LEMMA CurrentCut ==
  ASSUME NEW fl, NEW fds, NEW c, NEW fi, NEW vw, NEW c2, NEW n, NEW s, NEW q, NEW b, NEW b2,
         Core(fl, fds, c, fi, vw), c.op = "truncate", Cutoff(fl, c, s), Shortened(c, c2, n, s, q),
         n \in Nat, First(s) <= n, n < c.cur, b = Current(c, fi, c.obj), b2 = Current(c2, fi, c.obj)
  PROVE  /\ Len(b2) = n /\ Len(b) = c.cur /\ \A i \in 1 .. n : b2[i] = b[i]
         /\ BytesAnew(b, b2, s)
<1>1. /\ c.cur \in Nat /\ c.cur <= Len(fi[c.obj].bytes) /\ fi[c.obj].bytes \in Seq(Val)
  BY CutPlace
<1>2. PICK a, m : a = fi[c.obj].bytes /\ m = c.cur
  OBVIOUS
<1>3. b = SubSeq(a, 1, m) /\ b2 = SubSeq(a, 1, n)
  BY <1>2 DEF Current, Shortened, Reworked
<1>4. m \in 0 .. Len(a) /\ n \in 0 .. Len(a) /\ a \in Seq(Val)
  <2>1. Len(a) \in Nat
    BY <1>1, <1>2
  <2> QED BY <1>1, <1>2, <2>1
<1>5. /\ Len(b) = m /\ Len(b2) = n
      /\ \A i \in 1 .. m : b[i] = a[i]
      /\ \A i \in 1 .. n : b2[i] = a[i]
  BY <1>3, <1>4, CutIs
<1>6. m \in Nat /\ n < m
  BY <1>1, <1>2
<1>7. \A i \in 1 .. n : b2[i] = b[i]
  BY <1>5, <1>6
<1>8. PICK f : f = First(s)
  OBVIOUS
<1>9. s \in Nat /\ f \in Nat /\ f <= n /\ m <= f + DPS
  <2>1. c.cur > 0 /\ s = DataSpan(c.cur - 1)
    BY <1>1 DEF Cutoff
  <2> QED BY <1>1, <1>2, <1>8, <2>1, LastSpan
<1>10. ASSUME NEW t \in Spans, t # s, NEW j \in 0 .. DPS - 1
       PROVE  /\ First(t) + j < Len(b) <=> First(t) + j < Len(b2)
              /\ First(t) + j < Len(b) => b[First(t) + j + 1] = b2[First(t) + j + 1]
  <2>1. PICK x : x = First(t) + j
    OBVIOUS
  <2>2. x \in Nat /\ (x < f \/ f + DPS <= x)
    BY <1>8, <1>9, <1>10, <2>1, OtherSpan, SpansType
  <2>3. x < m <=> x < n
    BY <1>6, <1>9, <2>2, ObjectsAssumption
  <2>4. x < n => x + 1 \in 1 .. n
    BY <2>2
  <2> QED BY <1>5, <1>7, <2>1, <2>3, <2>4
<1> QED BY <1>2, <1>5, <1>7, <1>10 DEF BytesAnew

(* A truncation's step from the end of the file to place n.                *)
CutTo(fl2, fds2, c2, n, s, q) ==
  /\ call.op = "truncate" /\ call.step = "run" /\ call.cur > call.new
  /\ IxSpan(s) = call.prev /\ s = call.span
  /\ q \in Target /\ fl2 \in [Page -> Pages] /\ Anew(flash, fl2, call.obj, s, q)
  /\ q # NoPage /\ DataOf(flash[q], call.obj) => flash[q].span = s
  /\ Shortened(call, c2, n, s, q) /\ SetSize(fd, call.fd, n, fds2)
  /\ n \in Nat /\ call.new <= n /\ First(s) <= n /\ n < call.cur
  /\ n = First(s) \/ n = call.new
  /\ Keeps(fl2, call.obj, s, q, Current(call, file, call.obj), n)

LEMMA KeepsIs ==
  ASSUME NEW fl, NEW fl2, NEW o, NEW s, NEW q, NEW b, NEW b2, NEW n,
         Keeps(fl2, o, s, q, b, n), Len(b2) = n, \A i \in 1 .. n : b2[i] = b[i], s \in Nat, n \in Nat,
         q # NoPage /\ DataOf(fl[q], o) => fl[q].span = s
  PROVE  DataAnew(fl, fl2, o, s, q, b2)
<1>1. ASSUME q = NoPage PROVE ~(First(s) < Len(b2))
  <2>1. n = First(s)
    BY <1>1 DEF Keeps
  <2> QED BY <2>1
<1>2. ASSUME q # NoPage
      PROVE  /\ DataOf(fl2[q], o) /\ fl2[q].span = s /\ First(s) < Len(b2)
             /\ \A j \in 0 .. DPS - 1 :
                  fl2[q].bytes[j] = IF First(s) + j < Len(b2) THEN b2[First(s) + j + 1] ELSE Erased
  <2>1. /\ First(s) < n /\ DataOf(fl2[q], o) /\ fl2[q].span = s
        /\ \A j \in 0 .. DPS - 1 :
             fl2[q].bytes[j] = IF First(s) + j < n THEN b[First(s) + j + 1] ELSE Erased
    BY <1>2 DEF Keeps
  <2>2. ASSUME NEW j \in 0 .. DPS - 1, First(s) + j < n PROVE b2[First(s) + j + 1] = b[First(s) + j + 1]
    <3>1. PICK a : a = First(s) + j
      OBVIOUS
    <3>2. First(s) \in Nat /\ j \in Nat
      BY FirstType, ObjectsAssumption
    <3>3. a \in Nat /\ a < n
      BY <2>2, <3>1, <3>2
    <3>4. a + 1 \in 1 .. n
      BY <3>3
    <3> QED BY <3>1, <3>4
  <2> QED BY <2>1, <2>2
<1> QED BY <1>1, <1>2 DEF DataAnew

LEMMA CutKeeps ==
  ASSUME NEW fl2, NEW fds2, NEW c2, NEW n, NEW s, NEW q, Core(flash, fd, call, file, view),
         CutTo(fl2, fds2, c2, n, s, q)
  PROVE  Core(fl2, fds2, c2, file, view) /\ c2 # NoCall
<1>1. /\ call.op = "truncate" /\ call.step = "run" /\ call.cur > call.new
      /\ IxSpan(s) = call.prev /\ s = call.span
      /\ q \in Target /\ fl2 \in [Page -> Pages] /\ Anew(flash, fl2, call.obj, s, q)
      /\ Shortened(call, c2, n, s, q) /\ SetSize(fd, call.fd, n, fds2)
      /\ n \in Nat /\ call.new <= n /\ First(s) <= n /\ n < call.cur
      /\ n = First(s) \/ n = call.new
      /\ Keeps(fl2, call.obj, s, q, Current(call, file, call.obj), n)
  BY DEF CutTo
<1>2. q # NoPage /\ DataOf(flash[q], call.obj) => flash[q].span = s
  BY DEF CutTo
<1>3. /\ Cutoff(flash, call, s) /\ Shortens(flash, fd, call, file, view)
      /\ Len(Current(call, file, call.obj)) = call.cur
      /\ call.cur <= Len(file[call.obj].bytes) /\ Len(file[call.obj].bytes) \in 0 .. MaxSize
  BY <1>1, CutoffIs
<1>4. PICK b, b2 : b = Current(call, file, call.obj) /\ b2 = Current(c2, file, call.obj)
  OBVIOUS
<1>5. Len(b2) = n /\ (\A i \in 1 .. n : b2[i] = b[i]) /\ BytesAnew(b, b2, s)
  BY <1>1, <1>3, <1>4, CurrentCut
<1>6. /\ HoldsWork(flash, call) /\ call # NoCall /\ call \in Locals /\ call.obj \in Obj /\ call.fd \in Fd
      /\ s \in Entries(call.prev) /\ s \in Nat /\ call.cur \in Nat
  BY <1>3 DEF Cutoff
<1>7. DataAnew(flash, fl2, call.obj, s, q, b2)
  <2>1. Keeps(fl2, call.obj, s, q, b, n)
    BY <1>1, <1>4
  <2> QED BY <1>1, <1>2, <1>5, <1>6, <2>1, KeepsIs
<1>8. Reworked(call, c2, s, q)
  BY <1>1 DEF Shortened
<1>9. Rewritten(flash, fl2, call, c2, file, s, q, b, b2)
  BY <1>1, <1>4, <1>5, <1>6, <1>7, <1>8 DEF Rewritten
<1>10. /\ FlashOK(fl2) /\ FdOK(fl2, fd) /\ Exist(fl2, file) /\ Layout(fl2, c2, file)
       /\ HoldsWork(fl2, c2) /\ HeadsSame(flash, fl2)
  BY <1>9, DataStep
<1>11. n \in 0 .. UNDEFINED_LEN
  <2>1. PICK l, m : l = Len(file[call.obj].bytes) /\ m = call.cur
    OBVIOUS
  <2>2. n < m /\ m <= l /\ l \in 0 .. MaxSize /\ m \in Nat
    BY <1>1, <1>3, <1>6, <2>1
  <2> QED BY <1>1, <2>2, ObjectsAssumption DEF UNDEFINED_LEN
<1>12. /\ FdOK(fl2, fds2)
       /\ fds2[call.fd].open = fd[call.fd].open /\ fds2[call.fd].obj = fd[call.fd].obj
       /\ fds2[call.fd].pos = fd[call.fd].pos
       /\ \A g \in Fd : g # call.fd => fds2[g] = fd[g]
  BY <1>1, <1>6, <1>10, <1>11, SizeSet
<1>13. Placed(fd, fds2)
  BY <1>12 DEF Placed
<1>14. /\ c2.op = "truncate" /\ c2.step = "run" /\ c2.obj = call.obj /\ c2 \in Locals
       /\ c2.fd = call.fd /\ c2.temp = call.temp /\ c2.new = call.new /\ c2.prev = call.prev
  BY <1>1 DEF Shortened, Reworked
<1>15. c2 # NoCall
  BY <1>14, NoCallIs
<1>16. fd[call.fd].obj = call.obj
  BY <1>3 DEF Shortens
<1>17. SizesAgree(fl2, fds2, c2, file)
  <2>1. SizesAgree(flash, fd, call, file) /\ Exist(flash, file)
    BY CoreIs
  <2>2. SizesHeld(flash, fl2, fd, fds2, call)
    <3>1. ASSUME NEW f \in Fd, ~Changing(call, fd[f].obj) PROVE fds2[f] = fd[f]
      <4>1. f # call.fd
        BY <1>1, <1>16, <3>1 DEF Changing
      <4> QED BY <1>12, <4>1
    <3>2. \A u \in Obj : Find(flash, u, 0) # NoPage /\ ~Changing(call, u) => HSize(fl2, u) = HSize(flash, u)
      BY <1>10 DEF HeadsSame
    <3> QED BY <1>13, <3>1, <3>2 DEF SizesHeld, Placed
  <2>3. ASSUME NEW u \in Obj, ~Changing(c2, u)
        PROVE  ~Changing(call, u) /\ Current(c2, file, u) = Current(call, file, u)
    <3>1. u # call.obj
      BY <1>14, <2>3 DEF Changing
    <3>2. Current(c2, file, u) = file[u].bytes /\ Current(call, file, u) = file[u].bytes
      BY <1>14, <3>1, CurrentOut
    <3> QED BY <3>1, <3>2 DEF Changing
  <2> QED BY <2>1, <2>2, <2>3, SizesHeldAgree
<1>18. CallOK(fl2, fds2, c2, file, view)
  <2>1. Shortens(fl2, fds2, c2, file, view)
    <3>1. Len(file[call.obj].bytes) \in Nat
      BY <1>3
    <3> QED BY <1>1, <1>3, <1>13, <3>1, CutGoes
  <2>2. c2.prev # -1
    BY <1>10 DEF HoldsWork
  <2> QED BY <1>10, <1>14, <2>1, <2>2 DEF CallOK
<1>19. Views(fds2, c2, file, view)
  <2>1. Views(fd, call, file, view) /\ FdOK(flash, fd)
    BY CoreIs
  <2>2. \A f \in Fd : fd[f].pos \in 0 .. MaxSize
    BY <2>1 DEF FdOK, Descriptors
  <2>3. SameFile(call, c2)
    BY <1>1, <1>14 DEF SameFile
  <2>4. c2.step = call.step
    BY <1>1, <1>14
  <2> QED BY <1>13, <2>1, <2>2, <2>3, <2>4, ViewsKept
<1> QED BY <1>10, <1>12, <1>15, <1>17, <1>18, <1>19 DEF Core

(* The last page lies within the cut.                                      *)
LEMMA TruncateWholeKeeps ==
  ASSUME Core(flash, fd, call, file, view), TruncateWhole
  PROVE  Core(flash', fd', call', file, view) /\ call' # NoCall
<1>1. PICK s, p, b, n : /\ s = call.span /\ p = call.work.ix[s] /\ b = Current(call, file, call.obj)
                        /\ n = DPS * DataSpan(call.cur - 1)
  OBVIOUS
<1>2. /\ call.op = "truncate" /\ call.step = "run" /\ call.cur > call.new /\ IxSpan(s) = call.prev
      /\ flash' = Without(flash, p) /\ Shorter(n, NoPage)
      /\ call.new = 0 \/ call.cur - call.new >= DPS
  BY <1>1 DEF TruncateWhole, AtPage, WholePage, Running
<1>3. Cutoff(flash, call, s) /\ Len(b) = call.cur
  BY <1>1, <1>2, CutoffIs
<1>4. /\ HoldsWork(flash, call) /\ call \in Locals /\ call.obj \in Obj /\ call.fd \in Fd
      /\ s \in Entries(call.prev) /\ s \in Nat /\ s \in Spans /\ s = DataSpan(call.cur - 1)
      /\ call.cur \in Nat /\ call.new \in Nat /\ call.new < call.cur
  BY <1>3 DEF Cutoff
<1>5. PICK o, a, m, d, k : o = call.obj /\ a = First(s) /\ m = call.cur /\ d = DPS /\ k = call.new
  OBVIOUS
<1>6. a \in Nat /\ a < m /\ m <= a + d /\ n = a /\ m \in Nat /\ k \in Nat /\ d \in Nat
  <2>1. call.cur > 0
    BY <1>4
  <2>2. /\ First(s) \in Nat /\ First(s) < call.cur /\ call.cur <= First(s) + DPS
        /\ DPS * DataSpan(call.cur - 1) = First(s)
    BY <1>4, <2>1, LastSpan
  <2> QED BY <1>1, <1>4, <1>5, <2>2, ObjectsAssumption
<1>7. k <= n
  <2>1. k = 0 \/ m - k >= d
    BY <1>2, <1>5
  <2> QED BY <1>6, <2>1
<1>8. /\ DataIn(flash, p, o, s) /\ OnlyPage(flash, o, s, p) /\ FlashOK(flash)
  <2>1. First(s) < Len(b)
    BY <1>3, <1>5, <1>6
  <2> QED BY <1>1, <1>4, <1>5, <2>1, InHandData, CoreIs
<1>9. p \in Page /\ flash[p].kind = "data" /\ flash[p].obj = o /\ flash[p].span = s
  BY <1>8 DEF DataIn
<1>10. flash \in [Page -> Pages] /\ DeletedPage \in Pages /\ DeletedPage.kind = "deleted"
  BY <1>8 DEF FlashOK, Pages, DeletedPage
<1>11. flash' = [flash EXCEPT ![p] = DeletedPage]
  BY <1>2, <1>9 DEF Without
<1>12. PICK fl2 : fl2 = flash'
  OBVIOUS
<1>13. fl2 \in [Page -> Pages] /\ fl2[p] = DeletedPage /\ \A r \in Page : r # p => fl2[r] = flash[r]
  BY <1>9, <1>10, <1>11, <1>12
<1>14. Anew(flash, fl2, o, s, NoPage)
  <2>1. ASSUME NEW r \in Page, r # p PROVE fl2[r] = flash[r] /\ ~(DataOf(flash[r], o) /\ flash[r].span = s)
    BY <1>8, <1>13, <2>1 DEF OnlyPage
  <2> QED BY <1>9, <1>10, <1>13, <2>1 DEF Anew
<1>15. NoPage \in Target
  BY DEF Target
<1>16. Shortened(call, call', n, s, NoPage) /\ SetSize(fd, call.fd, n, fd')
  BY <1>1, <1>2, <1>4, <1>6, <1>15, ShortenedIs
<1>17. Keeps(fl2, call.obj, s, NoPage, Current(call, file, call.obj), n)
  BY <1>5, <1>6 DEF Keeps
<1>18. n \in Nat /\ call.new <= n /\ First(s) <= n /\ n < call.cur /\ n = First(s)
  BY <1>5, <1>6, <1>7
<1>19. CutTo(fl2, fd', call', n, s, NoPage)
  BY <1>1, <1>2, <1>5, <1>13, <1>14, <1>15, <1>16, <1>17, <1>18 DEF CutTo
<1> QED BY <1>12, <1>19, CutKeeps

(* The new end is within the last page.                                    *)
LEMMA PartPlace ==
  ASSUME NEW s, Core(flash, fd, call, file, view), Cutoff(flash, call, s),
         Shortens(flash, fd, call, file, view), call.new # 0, ~(call.cur - call.new >= DPS)
  PROVE  ~call.full /\ First(s) < call.new
<1>1. /\ s = DataSpan(call.cur - 1) /\ call.cur \in Nat /\ call.new \in Nat /\ call.new < call.cur
  BY DEF Cutoff
<1>2. /\ ~call.full /\ CutKind(Len(file[call.obj].bytes), call.new) = "clean"
      /\ call.cur = Len(file[call.obj].bytes) \/ call.cur % DPS = 0
  BY <1>1 DEF Shortens
<1>3. PICK a, m, d, k : a = First(s) /\ m = call.cur /\ d = DPS /\ k = call.new
  OBVIOUS
<1>4. call.cur > 0
  BY <1>1
<1>5. /\ a \in Nat /\ a < m /\ m <= a + d /\ DPS * DataSpan(call.cur - 1) = a
      /\ call.cur % DPS = 0 => m = a + d
  BY <1>1, <1>3, <1>4, LastSpan
<1>6. m \in Nat /\ k \in Nat /\ d \in Nat /\ k # 0 /\ ~(m - k >= d)
  BY <1>1, <1>3, ObjectsAssumption
<1>7. CASE call.cur % DPS = 0
  <2>1. m = a + d
    BY <1>5, <1>7
  <2>2. a < k
    BY <1>5, <1>6, <2>1
  <2> QED BY <1>2, <1>3, <2>2
<1>8. CASE call.cur = Len(file[call.obj].bytes)
  <2>1. CutKind(m, k) = "clean"
    BY <1>2, <1>3, <1>8
  <2>2. ~(m - k < d /\ k <= DPS * DataSpan(m - 1) /\ k > 0)
    BY <1>3, <2>1 DEF CutKind
  <2>3. DPS * DataSpan(m - 1) = a
    BY <1>3, <1>5
  <2>4. ~(m - k < d /\ k <= a /\ k > 0)
    BY <2>2, <2>3
  <2>5. a < k
    BY <1>5, <1>6, <2>4
  <2> QED BY <1>2, <1>3, <2>5
<1> QED BY <1>2, <1>7, <1>8

LEMMA TruncatePartKeeps ==
  ASSUME Core(flash, fd, call, file, view), TruncatePart
  PROVE  Core(flash', fd', call', file, view) /\ call' # NoCall
<1>1. PICK s, p, b, n, q : /\ s = call.span /\ p = call.work.ix[s] /\ b = Current(call, file, call.obj)
                           /\ n = call.new /\ q = NextFree(flash)
  OBVIOUS
<1>2. PICK o, a, m, d, i : o = call.obj /\ a = First(s) /\ m = call.cur /\ d = DPS /\ i = n % DPS
  OBVIOUS
<1>3. PICK z, fl2 : /\ z = [j \in 0 .. DPS - 1 |-> IF j < i THEN BytesOf(flash, p)[j] ELSE Erased]
                    /\ fl2 = flash'
  OBVIOUS
<1>4. PICK img : img = DataPage(o, s, z)
  OBVIOUS
<1>5. /\ call.op = "truncate" /\ call.step = "run" /\ call.cur > call.new /\ IxSpan(s) = call.prev
      /\ call.new # 0 /\ ~(call.cur - call.new >= DPS)
  BY <1>1 DEF TruncatePart, AtPage, WholePage, Running
<1>6. fl2 = Moved(flash, p, img) /\ Shorter(n, q)
  BY <1>1, <1>2, <1>3, <1>4 DEF TruncatePart
<1>7. Cutoff(flash, call, s) /\ Shortens(flash, fd, call, file, view) /\ Len(b) = call.cur
  BY <1>1, <1>5, CutoffIs
<1>8. /\ HoldsWork(flash, call) /\ call \in Locals /\ call.obj \in Obj /\ call.fd \in Fd
      /\ s \in Entries(call.prev) /\ s \in Nat /\ s \in Spans /\ s = DataSpan(call.cur - 1)
      /\ call.cur \in Nat /\ call.new \in Nat /\ call.new < call.cur
  BY <1>7 DEF Cutoff
<1>9. ~call.full /\ First(s) < call.new
  BY <1>5, <1>7, PartPlace
<1>10. a \in Nat /\ n \in Nat /\ m \in Nat /\ d \in Nat /\ a < n /\ n < m /\ m <= a + d
  <2>1. call.cur > 0
    BY <1>8
  <2>2. First(s) \in Nat /\ call.cur <= First(s) + DPS
    BY <1>8, <2>1, LastSpan
  <2> QED BY <1>1, <1>2, <1>8, <1>9, <2>2, ObjectsAssumption
<1>11. i \in 0 .. DPS - 1 /\ n = a + i
  <2>1. PICK j : j = n - a
    OBVIOUS
  <2>2. j \in 0 .. d - 1 /\ a + j = n
    BY <1>10, <2>1
  <2>3. j \in 0 .. DPS - 1
    BY <1>2, <2>2
  <2>4. (First(s) + j) % DPS = j
    BY <1>8, <2>3, SpanIs
  <2> QED BY <1>2, <2>2, <2>3, <2>4
<1>12. OneFree(flash)
  BY NotFull DEF TruncatePart
<1>13. /\ DataIn(flash, p, call.obj, s) /\ SpanBytes(flash, p, s, b)
       /\ OnlyPage(flash, call.obj, s, p) /\ FlashOK(flash)
  <2>1. First(s) < Len(b)
    <3>1. a < m
      BY <1>10
    <3> QED BY <1>2, <1>7, <3>1
  <2>2. /\ b = Current(call, file, call.obj) /\ p = call.work.ix[s]
    BY <1>1
  <2> QED BY <1>8, <2>1, <2>2, InHandData, CoreIs
<1>14. /\ p \in Page /\ flash[p] \in DataPages /\ flash[p].kind = "data" /\ flash[p].obj = o
       /\ flash[p].span = s /\ BytesOf(flash, p) \in BytesSet
  BY <1>2, <1>13, DataFields DEF DataIn, BytesSet
<1>15. z \in BytesSet
  <2>1. \A j \in 0 .. DPS - 1 : z[j] \in Val \cup {Erased}
    BY <1>3, <1>14 DEF BytesSet
  <2>2. z = [j \in 0 .. DPS - 1 |-> z[j]]
    BY <1>3
  <2> QED BY <2>1, <2>2 DEF BytesSet
<1>16. img \in Pages /\ DataOf(img, o) /\ img.span = s /\ img.bytes = z /\ img.kind = "data"
  BY <1>2, <1>4, <1>8, <1>15, DataPageIs
<1>17. /\ fl2 \in [Page -> Pages] /\ q \in Page /\ q # p /\ flash[q].kind = "free"
       /\ fl2[q] = img /\ fl2[p] = DeletedPage
       /\ \A r \in Page : r # q /\ r # p => fl2[r] = flash[r]
  <2>1. flash \in [Page -> Pages] /\ flash[p].kind # "free"
    BY <1>13, <1>14 DEF FlashOK
  <2> QED BY <1>1, <1>6, <1>12, <1>14, <1>16, <2>1, DataMovedTo
<1>18. DeletedPage.kind = "deleted"
  BY DEF DeletedPage
<1>19. Anew(flash, fl2, o, s, q)
  <2>1. ASSUME NEW r \in Page, r # q, r # p
        PROVE  fl2[r] = flash[r] /\ ~(DataOf(flash[r], o) /\ flash[r].span = s)
    BY <1>2, <1>13, <1>17, <2>1 DEF OnlyPage
  <2> QED BY <1>14, <1>16, <1>17, <1>18, <2>1 DEF Anew, DataOf
<1>20. q \in Target /\ q # NoPage
  BY <1>17, PageType DEF Target
<1>21. Shortened(call, call', n, s, q) /\ SetSize(fd, call.fd, n, fd')
  BY <1>1, <1>6, <1>8, <1>10, <1>20, ShortenedIs
<1>22. ASSUME NEW j \in 0 .. DPS - 1
       PROVE  z[j] = IF First(s) + j < n THEN b[First(s) + j + 1] ELSE Erased
  <2>1. PICK x, l : x = First(s) + j /\ l = Len(b)
    OBVIOUS
  <2>2. x \in Nat /\ x = a + j /\ j \in Nat /\ l = m
    BY <1>2, <1>7, <1>10, <2>1, ObjectsAssumption
  <2>3. j < i <=> x < n
    BY <1>10, <1>11, <2>2
  <2>4. x < n => x < l
    BY <1>10, <2>2
  <2>5. BytesOf(flash, p)[j] = IF x < l THEN b[x + 1] ELSE Erased
    BY <1>13, <2>1 DEF SpanBytes
  <2>6. z[j] = IF j < i THEN BytesOf(flash, p)[j] ELSE Erased
    BY <1>3
  <2> QED BY <2>1, <2>3, <2>4, <2>5, <2>6
<1>23. Keeps(fl2, call.obj, s, q, Current(call, file, call.obj), n)
  <2>1. First(s) < n
    BY <1>2, <1>10
  <2> QED BY <1>1, <1>2, <1>16, <1>17, <1>20, <1>22, <2>1 DEF Keeps
<1>24. n \in Nat /\ call.new <= n /\ First(s) <= n /\ n < call.cur /\ n = call.new
  BY <1>1, <1>2, <1>10
<1>25. ~DataOf(flash[q], call.obj)
  BY <1>17 DEF DataOf
<1>26. CutTo(fl2, fd', call', n, s, q)
  BY <1>1, <1>2, <1>5, <1>17, <1>19, <1>20, <1>21, <1>23, <1>24, <1>25 DEF CutTo
<1> QED BY <1>3, <1>26, CutKeeps

(* The positions in a file of m bytes; the sizes of other files stay.      *)
Clipped(fds, fds2, o, m) ==
  \A f \in Fd :
    /\ fds2[f].open = fds[f].open /\ fds2[f].obj = fds[f].obj
    /\ fds[f].obj # o => fds2[f].size = fds[f].size
    /\ fds2[f].pos = fds[f].pos \/ (fds[f].open /\ fds[f].obj = o /\ fds2[f].pos = Least(fds[f].pos, m))

LEMMA LeastTwice ==
  ASSUME NEW i, NEW m, NEW n, i \in Nat, m \in Nat, n \in Nat, n <= m
  PROVE  Least(Least(i, m), n) = Least(i, n) /\ Least(0, m) = 0
BY DEF Least

LEMMA ClippedViews ==
  ASSUME NEW fds, NEW fds2, NEW c, NEW c2, NEW fi, NEW vw, NEW m, Views(fds, c, fi, vw),
         Clipped(fds, fds2, c.obj, m), SameFile(c, c2), c.op = "truncate", c.step = "run",
         c2.step = "run", c.new \in Nat, m \in Nat, c.new <= m,
         \A f \in Fd : fds[f].pos \in 0 .. MaxSize
  PROVE  Views(fds2, c2, fi, vw)
<1>1. /\ c2.op = c.op /\ c2.fd = c.fd /\ c2.obj = c.obj /\ c2.temp = c.temp /\ c2.new = c.new
  BY DEF SameFile
<1>2. ASSUME NEW f \in Fd PROVE Seen(c2, f, fds2[f], vw[f])
  <2>1. Seen(c, f, fds[f], vw[f])
    BY DEF Views
  <2>2. /\ fds2[f].open = fds[f].open /\ fds2[f].obj = fds[f].obj
        /\ fds2[f].pos = fds[f].pos \/ (fds[f].open /\ fds[f].obj = c.obj /\ fds2[f].pos = Least(fds[f].pos, m))
    BY DEF Clipped
  <2>3. CASE c.temp /\ f = c.fd
    BY <1>1, <2>1, <2>3 DEF Seen
  <2>4. CASE ~(c.temp /\ f = c.fd) /\ fds[f].open /\ fds[f].obj = c.obj
    <3>1. PICK n \in 0 .. MaxSize :
            vw[f] = Promise!At(c.obj, n) /\ Least(n, c.new) = Least(fds[f].pos, c.new)
      BY <2>1, <2>4 DEF Seen
    <3>2. Least(fds2[f].pos, c.new) = Least(fds[f].pos, c.new)
      <4>1. fds[f].pos \in Nat
        OBVIOUS
      <4>2. PICK i, k : i = fds[f].pos /\ k = c.new
        OBVIOUS
      <4>3. Least(Least(i, m), k) = Least(i, k)
        BY <4>1, <4>2, LeastTwice
      <4> QED BY <2>2, <4>2, <4>3
    <3> QED BY <1>1, <2>2, <2>4, <3>1, <3>2 DEF Seen
  <2>5. CASE ~(c.temp /\ f = c.fd) /\ ~(fds[f].open /\ fds[f].obj = c.obj)
    <3>1. fds2[f].pos = fds[f].pos
      BY <2>2, <2>5
    <3>2. vw[f] = View(fds[f])
      BY <2>1, <2>5 DEF Seen, Writing
    <3>3. View(fds2[f]) = View(fds[f])
      BY <2>2, <3>1 DEF View
    <3> QED BY <1>1, <2>2, <2>5, <3>2, <3>3 DEF Seen, Writing
  <2> QED BY <2>3, <2>4, <2>5
<1> QED BY <1>2 DEF Views

(* The index page in hand is given up, if there is one.                    *)
Dropped(fl, fl2, c) ==
  \A u \in Obj, j \in Nat :
    Find(fl2, u, j) # NoPage <=> Find(fl, u, j) # NoPage /\ ~(u = c.obj /\ j = c.prev)
OtherHeads(fl, fl2, o) == \A u \in Obj : Find(fl, u, 0) # NoPage /\ u # o => HSize(fl2, u) = HSize(fl, u)
PageFor(fl2, fds2, k, p) == p = IF k = 0 THEN fds2[call.fd].hdr ELSE Find(fl2, call.obj, k)

LEMMA CutLoads ==
  ASSUME NEW fl2, NEW fds2, NEW k, NEW p, Core(flash, fd, call, file, view), call.op = "truncate",
         call.step = "run", call.cur > call.new, k = IxSpan(call.span), k # call.prev,
         FlashOK(fl2), FdOK(fl2, fds2), Clipped(fd, fds2, call.obj, call.cur),
         RefIsTable(flash, fl2, call), DataSame(flash, fl2), Dropped(flash, fl2, call),
         OtherHeads(flash, fl2, call.obj), PageFor(fl2, fds2, k, p), Load(State(fl2, fds2), k, p)
  PROVE  Core(flash', fd', call', file, view) /\ call' # NoCall
<1>1. /\ call \in Locals /\ call.fd \in Fd /\ call.obj \in Obj /\ call.new \in Nat /\ call.cur \in Nat
      /\ call.new <= call.cur /\ call.cur <= Len(file[call.obj].bytes)
      /\ Shortens(flash, fd, call, file, view) /\ Len(file[call.obj].bytes) \in 0 .. MaxSize
  BY CutPlace
<1>2. /\ call.span = DataSpan(call.cur - 1)
      /\ call.prev # -1 => IxSpan(call.span) <= call.prev
      /\ call.cur = Len(file[call.obj].bytes) \/ call.cur % DPS = 0
      /\ fd[call.fd].open /\ fd[call.fd].obj = call.obj
  BY <1>1 DEF Shortens
<1>3. call # NoCall
  BY NoCallIs
<1>4. PICK s, m, b : s = call.span /\ m = call.cur /\ b = Current(call, file, call.obj)
  OBVIOUS
<1>5. s \in Spans /\ s \in Nat /\ First(s) < m /\ Len(b) = m /\ m \in Nat
  <2>1. m \in Nat /\ m > 0 /\ m - 1 \in 0 .. MaxSize
    <3>1. PICK l : l = Len(file[call.obj].bytes)
      OBVIOUS
    <3> QED BY <1>1, <1>4, <3>1, ObjectsAssumption
  <2>2. s = DataSpan(m - 1)
    BY <1>2, <1>4
  <2>3. s \in Spans /\ s \in Nat
    BY <2>1, <2>2, SpansType
  <2>4. First(s) < m
    BY <2>1, <2>2, LastSpan
  <2>5. Len(b) = m
    BY <1>1, <1>4, CurrentIs
  <2> QED BY <2>1, <2>3, <2>4, <2>5
<1>6. k \in Nat
  BY <1>4, <1>5, IxSpanType
<1>7. Find(fl2, call.obj, k) # NoPage
  <2>1. FlashOK(flash) /\ Layout(flash, call, file)
    BY CoreIs
  <2>2. First(s) < Len(Current(call, file, call.obj))
    BY <1>4, <1>5
  <2>3. Find(fl2, call.obj, IxSpan(s)) # NoPage
    BY <1>1, <1>5, <2>1, <2>2, IndexThere
  <2> QED BY <1>4, <2>3
<1>8. /\ \A f \in Fd : fds2[f].open = fd[f].open /\ fds2[f].obj = fd[f].obj
  BY DEF Clipped
<1>9. fds2[call.fd].open /\ fds2[call.fd].obj = call.obj
  BY <1>1, <1>2, <1>8
<1>10. p = Find(fl2, call.obj, k)
  <2>1. fds2[call.fd].hdr = Find(fl2, call.obj, 0)
    BY <1>1, <1>9 DEF FdOK, Knows
  <2> QED BY <2>1 DEF PageFor
<1>11. /\ flash' = fl2 /\ FdOK(fl2, fd') /\ Shown(fds2, fd')
       /\ Loaded(call, call', k, Find(fl2, call.obj, k), fl2[Find(fl2, call.obj, k)])
  BY <1>1, <1>6, <1>7, <1>9, <1>10, LoadIs
<1>12. Find(fl2, call.obj, k) \in Target /\ fl2[Find(fl2, call.obj, k)] \in Pages
  BY <1>7, FindIs, IxFields
<1>13. LikeCall(call, call') /\ call'.step = call.step /\ call'.prev = k
  BY <1>1, <1>6, <1>11, <1>12, LoadedIs
<1>14. Clipped(fd, fd', call.obj, m)
  BY <1>4, <1>11 DEF Clipped, Shown
<1>15. call.prev = -1 \/ (call.prev \in Nat /\ call.prev # 0)
  <2>1. call.prev = -1 \/ HoldsWork(flash, call)
    BY <1>3, CoreIs, CallIs
  <2>2. ASSUME call.prev # -1 PROVE call.prev \in Nat /\ call.prev # 0
    <3>1. call.prev \in Nat /\ k <= call.prev
      BY <1>2, <2>1, <2>2 DEF HoldsWork
    <3> QED BY <1>6, <3>1
  <2> QED BY <2>2
<1>16. \A u \in Obj : Find(fl2, u, 0) # NoPage <=> Find(flash, u, 0) # NoPage
  BY <1>15 DEF Dropped
<1>17. AllBounded(fl2, call', file)
  <2> SUFFICES ASSUME NEW u \in Obj, NEW j \in Nat, Find(fl2, u, j) # NoPage
               PROVE  Bounded(call', file, u, j)
    BY DEF AllBounded
  <2>1. Find(flash, u, j) # NoPage /\ ~(u = call.obj /\ j = call.prev)
    BY DEF Dropped
  <2>2. Bounded(call, file, u, j)
    BY <2>1, CoreIs DEF Layout
  <2>3. Current(call', file, u) = Current(call, file, u)
    BY <1>13, CurrentLike
  <2> QED BY <2>1, <2>2, <2>3 DEF Bounded
<1>18. SizesHeld(flash, fl2, fd, fd', call)
  <2>1. Changing(call, call.obj)
    BY DEF Changing
  <2>2. \A u \in Obj : Find(flash, u, 0) # NoPage /\ ~Changing(call, u) => HSize(fl2, u) = HSize(flash, u)
    BY <2>1 DEF OtherHeads
  <2>3. \A f \in Fd : ~Changing(call, fd[f].obj) => fd'[f].size = fd[f].size
    BY <1>14, <2>1 DEF Clipped
  <2>4. \A f \in Fd : fd'[f].open = fd[f].open /\ fd'[f].obj = fd[f].obj
    BY <1>14 DEF Clipped
  <2> QED BY <2>2, <2>3, <2>4 DEF SizesHeld
<1>19. FdOK(flash, fd) /\ Views(fd, call, file, view)
  BY CoreIs
<1>20. \A f \in Fd : fd[f].pos \in 0 .. MaxSize
  BY <1>19 DEF FdOK, Descriptors
<1>21. Views(fd', call', file, view)
  <2>1. SameFile(call, call')
    BY <1>13 DEF SameFile, LikeCall
  <2>2. call'.step = "run" /\ call.new <= m
    BY <1>1, <1>4, <1>13
  <2> QED BY <1>1, <1>5, <1>14, <1>19, <1>20, <2>1, <2>2, ClippedViews
<1>22. Shortens(fl2, fd', call', file, view)
  <2>1. /\ call'.obj = call.obj /\ call'.fd = call.fd /\ call'.new = call.new /\ call'.cur = call.cur
        /\ call'.full = call.full /\ call'.temp = call.temp /\ call'.span = call.span
        /\ call'.step = "run" /\ call'.prev = k
    BY <1>13 DEF LikeCall
  <2>2. fd'[call.fd].open /\ fd'[call.fd].obj = call.obj
    BY <1>1, <1>2, <1>14 DEF Clipped
  <2>3. call.temp => fd'[call.fd].pos = 0
    <3>1. call.temp => fd[call.fd].pos = 0
      BY <1>1 DEF Shortens
    <3>2. fd'[call.fd].pos = fd[call.fd].pos \/ fd'[call.fd].pos = Least(fd[call.fd].pos, m)
      BY <1>1, <1>14 DEF Clipped
    <3>3. Least(0, m) = 0
      BY <1>5 DEF Least
    <3> QED BY <3>1, <3>2, <3>3
  <2>4. IxSpan(call.span) <= k
    BY <1>6
  <2>5. /\ call.full => call.new = 0
        /\ call.temp => call.new = 0
        /\ ~call.full => call.new < Len(file[call.obj].bytes) /\ CutKind(Len(file[call.obj].bytes), call.new) = "clean"
    BY <1>1 DEF Shortens
  <2>6. call.cur # call.new
    BY <1>1
  <2> QED BY <1>1, <1>2, <2>1, <2>2, <2>3, <2>4, <2>5, <2>6 DEF Shortens
<1>23. Goes(fl2, fd', call', file, view)
  <2>1. call'.op = "truncate"
    BY <1>13 DEF LikeCall
  <2> QED BY <1>22, <2>1 DEF Goes
<1>24. Core(fl2, fd', call', file, view) /\ call' # NoCall
  BY <1>3, <1>6, <1>7, <1>11, <1>16, <1>17, <1>18, <1>21, <1>23, Loads
<1> QED BY <1>11, <1>24

(* What an event about a header or another page leaves alone.              *)
LEMMA ResizedClips ==
  ASSUME NEW fds, NEW fds1, NEW fds2, NEW o, NEW m, Resized(fds, fds1, o, 0), m \in Nat, m # 0,
         Bytes(m) = m, fds2 = fds1 \/ Resized(fds1, fds2, o, m)
  PROVE  Clipped(fds, fds2, o, m)
<1>1. \A f \in Fd : /\ fds1[f].open = fds[f].open /\ fds1[f].obj = fds[f].obj
                    /\ fds1[f].size = fds[f].size /\ fds1[f].pos = fds[f].pos
  BY DEF Resized
<1>2. CASE fds2 = fds1
  BY <1>1, <1>2 DEF Clipped
<1>3. CASE Resized(fds1, fds2, o, m)
  BY <1>1, <1>3 DEF Clipped, Resized
<1> QED BY <1>2, <1>3

(* The references of the last index page are gone before the page is.      *)
LEMMA EmptyInHand ==
  ASSUME NEW k, Core(flash, fd, call, file, view), call.op = "truncate",
         call.step = "run", call.cur > call.new, k = IxSpan(call.span), k # call.prev, call.prev # -1
  PROVE  /\ HoldsWork(flash, call) /\ call.prev \in Nat /\ call.prev # 0 /\ call.obj \in Obj
         /\ \A s \in Entries(call.prev) : call.work.ix[s] = NoPage
<1>1. /\ call.fd \in Fd /\ call.obj \in Obj /\ call.new \in Nat /\ call.cur \in Nat
      /\ call.cur <= Len(file[call.obj].bytes)
      /\ Shortens(flash, fd, call, file, view) /\ Len(file[call.obj].bytes) \in 0 .. MaxSize
  BY CutPlace
<1>2. call.span = DataSpan(call.cur - 1) /\ IxSpan(call.span) <= call.prev
  BY <1>1 DEF Shortens
<1>3. call # NoCall
  BY NoCallIs
<1>4. HoldsWork(flash, call)
  BY <1>3, CoreIs, CallIs
<1>5. PICK s, m, b : s = call.span /\ m = call.cur /\ b = Current(call, file, call.obj)
  OBVIOUS
<1>6. m \in Nat /\ m # 0 /\ m - 1 \in 0 .. MaxSize
  <2>1. PICK l : l = Len(file[call.obj].bytes)
    OBVIOUS
  <2> QED BY <1>1, <1>5, <2>1, ObjectsAssumption
<1>7. s \in Nat /\ s = DataSpan(m - 1) /\ k \in Nat /\ k = IxSpan(s)
  <2>1. s = DataSpan(m - 1)
    BY <1>2, <1>5
  <2>2. s \in Nat
    BY <1>6, <2>1, SpansType
  <2> QED BY <1>5, <2>1, <2>2, IxSpanType
<1>8. call.prev \in Nat /\ k < call.prev
  <2>1. call.prev \in Nat /\ k <= call.prev
    BY <1>2, <1>4 DEF HoldsWork
  <2> QED BY <1>7, <2>1
<1>9. Len(b) = m
  BY <1>1, <1>5, CurrentIs
<1>10. ASSUME NEW t \in Entries(call.prev) PROVE call.work.ix[t] = NoPage
  <2>1. t \in Nat /\ IxSpan(t) = call.prev
    BY SpansType DEF Entries
  <2>2. ~(t <= s)
    <3>1. ASSUME t <= s PROVE FALSE
      <4>1. IxSpan(t) <= IxSpan(s)
        BY <1>7, <2>1, <3>1, IxSpansRise
      <4> QED BY <1>7, <1>8, <2>1, <4>1
    <3> QED BY <3>1
  <2>3. ~(First(t) < m)
    <3>1. m \in Nat \ {0}
      BY <1>6
    <3>2. First(t) < m <=> t <= DataSpan(m - 1)
      BY <2>1, <3>1, Within
    <3> QED BY <1>7, <2>2, <3>2
  <2>4. PICK x : x = call.work.ix[t]
    OBVIOUS
  <2>5. ~(First(t) < Len(b)) => x = NoPage
    BY <1>1, <1>4, <1>5, <2>4, InHandData
  <2> QED BY <1>9, <2>3, <2>4, <2>5
<1> QED BY <1>1, <1>4, <1>7, <1>8, <1>10

LEMMA PageGone ==
  ASSUME NEW k, NEW st, Core(flash, fd, call, file, view), call.op = "truncate",
         call.step = "run", call.cur > call.new, k = IxSpan(call.span), k # call.prev, call.prev # -1,
         st = State(Without(flash, call.pix), Event(fd, "DEL", call.obj, call.prev, call.pix, 0))
  PROVE  /\ FlashOK(st.flash) /\ FdOK(st.flash, st.fd) /\ Resized(fd, st.fd, call.obj, 0)
         /\ RefIsTable(flash, st.flash, call) /\ DataSame(flash, st.flash)
         /\ Dropped(flash, st.flash, call) /\ HeadsSame(flash, st.flash)
         /\ Spare(flash, st.flash, NoPage) /\ st = State(st.flash, st.fd)
<1>1. /\ HoldsWork(flash, call) /\ call.prev \in Nat /\ call.prev # 0 /\ call.obj \in Obj
      /\ \A s \in Entries(call.prev) : call.work.ix[s] = NoPage
  BY EmptyInHand
<1>2. PICK o, j, p, fl2, fds2 : /\ o = call.obj /\ j = call.prev /\ p = call.pix
                                /\ fl2 = Without(flash, p) /\ fds2 = Event(fd, "DEL", o, j, p, 0)
  OBVIOUS
<1>3. st.flash = fl2 /\ st.fd = fds2 /\ st = State(fl2, fds2)
  BY <1>2, StateIs
<1>4. p = Find(flash, o, j) /\ p # NoPage /\ o \in Obj /\ j \in Nat /\ j # 0
  BY <1>1, <1>2 DEF HoldsWork
<1>5. FlashOK(flash) /\ FdOK(flash, fd)
  BY CoreIs
<1>6. p \in Target /\ NoPage \in Target
  BY <1>4, <1>5, FindIs DEF Target
<1>7. Indexed(flash, fl2, o, j, NoPage, FreePage) /\ \A q \in Page : flash[q].kind = "free" => fl2[q].kind = "free"
  BY <1>2, <1>4, <1>5, IndexGoneIs
<1>8. FlashOK(fl2) /\ DataSame(flash, fl2)
  BY <1>7 DEF Indexed, DataSame
<1>9. FdOK(fl2, fds2) /\ Resized(fd, fds2, o, 0)
  <2>1. 0 \in 0 .. UNDEFINED_LEN
    BY SizesType
  <2>2. /\ FdOK(fl2, Event(fd, "DEL", o, j, p, 0))
        /\ Resized(fd, Event(fd, "DEL", o, j, p, 0), o, IF j = 0 THEN 0 ELSE 0)
    BY <1>4, <1>5, <1>6, <1>7, <2>1, EventIs
  <2> QED BY <1>2, <2>2
<1>10. Dropped(flash, fl2, call)
  BY <1>2, <1>7 DEF Indexed, Dropped
<1>11. /\ \A u \in Obj, s \in Spans : Ref(fl2, u, s) = IF u = o /\ IxSpan(s) = j THEN NoPage ELSE Ref(flash, u, s)
       /\ \A u \in Obj : Find(fl2, u, 0) # NoPage => HSize(fl2, u) = HSize(flash, u)
  BY <1>4, <1>5, <1>6, <1>7, IndexedRef
<1>12. RefIsTable(flash, fl2, call)
  <2> SUFFICES ASSUME NEW u \in Obj, NEW s \in Spans PROVE Ref(fl2, u, s) = Table(flash, call, u)[s]
    BY DEF RefIsTable
  <2>1. Table(flash, call, u)[s] = IF u = o /\ IxSpan(s) = j THEN call.work.ix[s] ELSE Ref(flash, u, s)
    BY <1>2, TableType
  <2>2. IxSpan(s) = j => call.work.ix[s] = NoPage
    BY <1>1, <1>2 DEF Entries
  <2> QED BY <1>11, <2>1, <2>2
<1>13. HeadsSame(flash, fl2)
  BY <1>2, <1>4, <1>10, <1>11 DEF Dropped, HeadsSame
<1>14. Spare(flash, fl2, NoPage)
  BY <1>7 DEF Spare
<1> QED BY <1>2, <1>3, <1>8, <1>9, <1>10, <1>12, <1>13, <1>14

(* A truncation reads an index page, after it has given up the one beyond. *)
LEMMA CutSize ==
  ASSUME NEW m, Core(flash, fd, call, file, view), call.op = "truncate", m = call.cur, m > call.new
  PROVE  m \in Nat /\ m # 0 /\ m \in Sizes /\ Bytes(m) = m
<1>1. /\ call.new \in Nat /\ call.cur \in Nat
      /\ call.cur <= Len(file[call.obj].bytes) /\ Len(file[call.obj].bytes) \in 0 .. MaxSize
  BY CutPlace
<1>2. PICK l, n : l = Len(file[call.obj].bytes) /\ n = call.new
  OBVIOUS
<1>3. m \in Nat /\ n \in Nat /\ m > n /\ m <= l /\ l \in 0 .. MaxSize
  BY <1>1, <1>2
<1>4. m # 0 /\ m <= MaxSize
  BY <1>3, ObjectsAssumption
<1> QED BY <1>3, <1>4, ObjectsAssumption DEF Sizes, UNDEFINED_LEN, Bytes

LEMMA TruncateIndexKeeps ==
  ASSUME Core(flash, fd, call, file, view), TruncateIndex
  PROVE  Core(flash', fd', call', file, view) /\ call' # NoCall
<1>1. PICK k, m, gone : /\ k = IxSpan(call.span) /\ m = call.cur
                        /\ gone = State(Without(flash, call.pix),
                                        Event(fd, "DEL", call.obj, call.prev, call.pix, 0))
  OBVIOUS
<1>2. /\ call.op = "truncate" /\ call.step = "run" /\ call.cur > call.new /\ k # call.prev
  BY <1>1 DEF TruncateIndex, Running
<1>3. PICK st : /\ st = (IF call.prev = -1 THEN Now ELSE IF call.full THEN gone ELSE HeaderSized(gone, m))
                /\ Load(st, k, IF k = 0 THEN st.fd[call.fd].hdr ELSE Find(st.flash, call.obj, k))
  BY <1>1 DEF TruncateIndex
<1>4. m \in Nat /\ m # 0 /\ m \in Sizes /\ Bytes(m) = m
  BY <1>1, <1>2, CutSize
<1>5. /\ call.fd \in Fd /\ call.obj \in Obj /\ fd[call.fd].open /\ fd[call.fd].obj = call.obj
      /\ Find(flash, call.obj, 0) # NoPage
  <2>1. call # NoCall /\ call.op # "create"
    BY <1>2, NoCallIs
  <2> QED BY <2>1, CallsFd, CoreIs, CallIs
<1>6. FlashOK(flash) /\ FdOK(flash, fd)
  BY CoreIs
<1>7. /\ FlashOK(st.flash) /\ FdOK(st.flash, st.fd) /\ Clipped(fd, st.fd, call.obj, m)
      /\ RefIsTable(flash, st.flash, call) /\ DataSame(flash, st.flash) /\ Dropped(flash, st.flash, call)
      /\ OtherHeads(flash, st.flash, call.obj) /\ st = State(st.flash, st.fd)
  <2>1. CASE call.prev = -1
    <3>1. st.flash = flash /\ st.fd = fd /\ st = State(flash, fd)
      BY <1>3, <2>1, StateIs DEF Now
    <3>2. Clipped(fd, fd, call.obj, m)
      BY DEF Clipped
    <3>3. RefIsTable(flash, flash, call)
      BY <2>1, TableOut DEF RefIsTable
    <3>4. Dropped(flash, flash, call)
      BY <2>1 DEF Dropped
    <3>5. DataSame(flash, flash) /\ OtherHeads(flash, flash, call.obj)
      BY DEF DataSame, OtherHeads
    <3> QED BY <1>6, <3>1, <3>2, <3>3, <3>4, <3>5
  <2>2. CASE call.prev # -1
    <3>1. /\ FlashOK(gone.flash) /\ FdOK(gone.flash, gone.fd) /\ Resized(fd, gone.fd, call.obj, 0)
          /\ RefIsTable(flash, gone.flash, call) /\ DataSame(flash, gone.flash)
          /\ Dropped(flash, gone.flash, call) /\ HeadsSame(flash, gone.flash)
          /\ Spare(flash, gone.flash, NoPage) /\ gone = State(gone.flash, gone.fd)
      BY <1>1, <1>2, <2>2, PageGone
    <3>2. Clipped(fd, gone.fd, call.obj, m)
      BY <1>4, <3>1, ResizedClips
    <3>3. OtherHeads(flash, gone.flash, call.obj)
      BY <3>1 DEF HeadsSame, OtherHeads
    <3>4. CASE call.full
      BY <1>3, <2>2, <3>1, <3>2, <3>3, <3>4
    <3>5. CASE ~call.full
      <4>1. st = HeaderSized(State(gone.flash, gone.fd), m)
        BY <1>3, <2>2, <3>1, <3>5
      <4>2. OneFree(gone.flash)
        <5>1. OneFree(flash)
          BY <2>2, <3>5, NotFull DEF TruncateIndex
        <5>2. OneFree(flash) /\ NoPage \notin Page
          BY <5>1, PageType
        <5> QED BY <3>1, <5>2, FreeLeft
      <4>3. gone.fd[call.fd].open /\ gone.fd[call.fd].obj = call.obj
        BY <1>5, <3>1 DEF Resized
      <4>4. PICK fl1, fds1 : fl1 = gone.flash /\ fds1 = gone.fd
        OBVIOUS
      <4>5. /\ SizedOnly(fl1, st.flash, call.obj, m) /\ FdOK(st.flash, st.fd)
            /\ Resized(fds1, st.fd, call.obj, m) /\ st = State(st.flash, st.fd)
        <5>1. \E p \in Page : fl1[p].kind = "free"
          BY <4>2, <4>4 DEF OneFree
        <5>2. FlashOK(fl1) /\ FdOK(fl1, fds1) /\ fds1[call.fd].open /\ fds1[call.fd].obj = call.obj
              /\ st = HeaderSized(State(fl1, fds1), m)
          BY <3>1, <4>1, <4>3, <4>4
        <5> QED BY <1>4, <1>5, <5>1, <5>2, HeaderSizedIs
      <4>6. Clipped(fd, st.fd, call.obj, m)
        BY <1>4, <3>1, <4>4, <4>5, ResizedClips
      <4>7. /\ FlashOK(st.flash) /\ FoundSame(fl1, st.flash) /\ DataSame(fl1, st.flash)
            /\ RefSame(fl1, st.flash) /\ Heads(fl1, st.flash, call.obj, m)
        BY <4>5 DEF SizedOnly
      <4>8. RefIsTable(flash, st.flash, call)
        BY <3>1, <4>4, <4>7 DEF RefIsTable, RefSame
      <4>9. DataSame(flash, st.flash)
        BY <3>1, <4>4, <4>7, DataSameSame
      <4>10. Dropped(flash, st.flash, call)
        BY <3>1, <4>4, <4>7 DEF Dropped, FoundSame
      <4>11. OtherHeads(flash, st.flash, call.obj)
        <5> SUFFICES ASSUME NEW u \in Obj, Find(flash, u, 0) # NoPage, u # call.obj
                     PROVE  HSize(st.flash, u) = HSize(flash, u)
          BY DEF OtherHeads
        <5>1. HSize(fl1, u) = HSize(flash, u)
          BY <3>1, <4>4 DEF HeadsSame
        <5>2. Find(fl1, u, 0) # NoPage
          BY <3>1, <4>4 DEF Dropped
        <5>3. HSize(st.flash, u) = HSize(fl1, u)
          BY <4>7, <5>2 DEF Heads
        <5> QED BY <5>1, <5>3
      <4> QED BY <4>5, <4>6, <4>7, <4>8, <4>9, <4>10, <4>11
    <3> QED BY <3>4, <3>5
  <2> QED BY <2>1, <2>2
<1>8. PICK fl2, fds2 : fl2 = st.flash /\ fds2 = st.fd
  OBVIOUS
<1>9. PICK p : p = IF k = 0 THEN fds2[call.fd].hdr ELSE Find(fl2, call.obj, k)
  OBVIOUS
<1>10. Load(State(fl2, fds2), k, p)
  BY <1>3, <1>7, <1>8, <1>9
<1>11. PageFor(fl2, fds2, k, p)
  BY <1>9 DEF PageFor
<1>12. /\ FlashOK(fl2) /\ FdOK(fl2, fds2) /\ Clipped(fd, fds2, call.obj, call.cur)
       /\ RefIsTable(flash, fl2, call) /\ DataSame(flash, fl2) /\ Dropped(flash, fl2, call)
       /\ OtherHeads(flash, fl2, call.obj)
  BY <1>1, <1>7, <1>8
<1> QED BY <1>1, <1>2, <1>10, <1>11, <1>12, CutLoads

(* A truncation ends.                                                      *)
(* The page in hand is that of the new end, and holds data of the file.    *)
LEMMA AtCutIs ==
  ASSUME NEW m, Core(flash, fd, call, file, view), call.op = "truncate", call.step = "run",
         call.cur <= call.new, ~call.full, m = call.cur
  PROVE  /\ HoldsWork(flash, call) /\ call # NoCall /\ call.prev \in Nat
         /\ call.fd \in Fd /\ call.obj \in Obj /\ fd[call.fd].open /\ fd[call.fd].obj = call.obj
         /\ Find(flash, call.obj, 0) # NoPage
         /\ m \in Nat /\ m = call.new /\ m < Len(file[call.obj].bytes) /\ m \in 0 .. MaxSize
         /\ call.prev = IxSpan(DataSpan(m)) /\ CutKind(Len(file[call.obj].bytes), m) = "clean"
         /\ Len(Current(call, file, call.obj)) = m
<1>1. /\ call \in Locals /\ call.fd \in Fd /\ call.obj \in Obj /\ call.new \in Nat /\ call.cur \in Nat
      /\ call.new <= call.cur /\ call.cur <= Len(file[call.obj].bytes)
      /\ Shortens(flash, fd, call, file, view) /\ Len(file[call.obj].bytes) \in 0 .. MaxSize
  BY CutPlace
<1>2. call # NoCall /\ call.op # "create"
  BY NoCallIs
<1>3. m = call.new /\ m \in Nat
  BY <1>1
<1>4. /\ fd[call.fd].open /\ fd[call.fd].obj = call.obj
      /\ call.new < Len(file[call.obj].bytes) /\ CutKind(Len(file[call.obj].bytes), call.new) = "clean"
  BY <1>1 DEF Shortens
<1>5. IF Len(file[call.obj].bytes) = 0 THEN call.prev = -1 ELSE call.prev = IxSpan(DataSpan(call.new))
  BY <1>1, <1>3 DEF Shortens
<1>6. Len(file[call.obj].bytes) # 0
  BY <1>1, <1>4
<1>7. m \in 0 .. MaxSize
  <2>1. PICK l : l = Len(file[call.obj].bytes)
    OBVIOUS
  <2> QED BY <1>1, <1>3, <1>4, <2>1, ObjectsAssumption
<1>8. call.prev = IxSpan(DataSpan(m)) /\ call.prev \in Nat
  <2>1. DataSpan(m) \in Nat
    BY <1>7, SpansType
  <2> QED BY <1>3, <1>5, <1>6, <2>1, IxSpanType
<1>9. HoldsWork(flash, call)
  <2>1. call.prev # -1
    BY <1>8
  <2> QED BY <1>2, <2>1, CoreIs, CallIs
<1>10. Find(flash, call.obj, 0) # NoPage
  BY <1>2, CallsFd
<1>11. Len(Current(call, file, call.obj)) = m
  BY <1>1, CurrentIs
<1> QED BY <1>1, <1>2, <1>3, <1>4, <1>7, <1>8, <1>9, <1>10, <1>11

LEMMA SpanZero == DataSpan(0) = 0
<1>1. 0 \in Nat /\ 0 \in 0 .. DPS - 1
  BY ObjectsAssumption
<1>2. DataSpan(First(0) + 0) = 0 /\ First(0) = 0
  BY <1>1, SpanIs, FirstType
<1>3. First(0) + 0 = 0
  BY <1>2
<1> QED BY <1>2, <1>3

LEMMA CutInHand ==
  ASSUME NEW m, NEW l, m \in 0 .. MaxSize, CutKind(l, m) = "clean", call.prev = IxSpan(DataSpan(m)),
         Len(Current(call, file, call.obj)) = m
  PROVE  InHand(call, file)
<1>1. SUFFICES ASSUME call.prev > 0 PROVE \E s \in Entries(call.prev) : First(s) < m
  BY DEF InHand
<1>2. m \in Nat /\ DataSpan(m) \in Nat /\ DataSpan(m) \in Spans
  <2>1. DataSpan(m) \in Spans /\ Spans \subseteq Nat
    BY SpansType
  <2>2. m \in Nat
    BY ObjectsAssumption
  <2> QED BY <2>1, <2>2
<1>3. First(DataSpan(m)) \in Nat /\ m = First(DataSpan(m)) + (m % DPS) /\ m % DPS \in 0 .. DPS - 1
  BY <1>2, SpanOf
<1>4. CASE m % DPS # 0
  <2>1. PICK a, i : a = First(DataSpan(m)) /\ i = m % DPS
    OBVIOUS
  <2>2. a \in Nat /\ i \in Nat /\ i # 0 /\ m = a + i
    BY <1>3, <1>4, <2>1, ObjectsAssumption
  <2>3. a < m
    BY <2>2
  <2>4. DataSpan(m) \in Entries(call.prev)
    BY <1>2 DEF Entries
  <2> QED BY <2>1, <2>3, <2>4
<1>5. CASE m % DPS = 0
  <2>1. m # 0
    <3>1. m = 0 => DataSpan(m) = 0
      BY SpanZero
    <3> QED BY <1>1, <3>1, IxSpanOfFirst
  <2>2. PICK t : t = DataSpan(m - 1)
    OBVIOUS
  <2>3. m > 0 /\ m - 1 \in 0 .. MaxSize /\ m - 1 \in Nat /\ m - 1 <= m
    BY <1>2, <2>1, ObjectsAssumption
  <2>4. t \in Spans /\ t \in Nat
    BY <2>2, <2>3, SpansType
  <2>5. First(t) < m
    BY <1>2, <2>2, <2>3, LastSpan
  <2>6. IxSpan(t) = IxSpan(DataSpan(m))
    <3>1. ~(IxSpan(DataSpan(m)) > IxSpan(DataSpan(m - 1)))
      BY <1>5, <2>3 DEF CutKind
    <3>2. t <= DataSpan(m)
      BY <1>2, <2>2, <2>3, SpansRise
    <3>3. IxSpan(t) <= IxSpan(DataSpan(m))
      BY <1>2, <2>4, <3>2, IxSpansRise
    <3>4. IxSpan(t) \in Nat /\ IxSpan(DataSpan(m)) \in Nat
      BY <1>2, <2>4, IxSpanType
    <3> QED BY <2>2, <3>1, <3>3, <3>4
  <2> QED BY <2>4, <2>5, <2>6 DEF Entries
<1> QED BY <1>4, <1>5

(* The sizes and positions of a file of m bytes.                           *)
Trimmed(fds, fds2, o, m) ==
  \A f \in Fd :
    /\ fds2[f].open = fds[f].open /\ fds2[f].obj = fds[f].obj
    /\ fds[f].open /\ fds[f].obj = o => Bytes(fds2[f].size) = m /\ fds2[f].pos <= m
    /\ fds[f].obj # o => fds2[f].size = fds[f].size /\ fds2[f].pos = fds[f].pos

LEMMA ResizedTrims ==
  ASSUME NEW fl, NEW fl2, NEW fds, NEW fds2, NEW fds3, NEW o, NEW g, NEW size, NEW m, FdOK(fl2, fds2),
         g \in Fd, FdOK(fl, fds), fds[g].obj = o, Resized(fds, fds2, o, size), size # 0, Bytes(size) = m,
         m \in 0 .. MaxSize, SetSize(fds2, g, m, fds3)
  PROVE  FdOK(fl2, fds3) /\ Trimmed(fds, fds3, o, m)
<1>1. m \in 0 .. UNDEFINED_LEN /\ Bytes(m) = m /\ m \in Nat
  BY ObjectsAssumption DEF UNDEFINED_LEN, Bytes
<1>2. /\ FdOK(fl2, fds3) /\ fds3[g].open = fds2[g].open /\ fds3[g].obj = fds2[g].obj /\ fds3[g].pos = fds2[g].pos
      /\ fds3[g].size = m
      /\ \A f \in Fd : f # g => fds3[f] = fds2[f]
  BY <1>1, SizeSet
<1>3. ASSUME NEW f \in Fd
      PROVE  /\ fds3[f].open = fds[f].open /\ fds3[f].obj = fds[f].obj
             /\ fds[f].open /\ fds[f].obj = o => Bytes(fds3[f].size) = m /\ fds3[f].pos <= m
             /\ fds[f].obj # o => fds3[f].size = fds[f].size /\ fds3[f].pos = fds[f].pos
  <2>1. /\ fds2[f].open = fds[f].open /\ fds2[f].obj = fds[f].obj
        /\ fds[f].open /\ fds[f].obj = o => fds2[f].size = size /\ fds2[f].pos = Least(fds[f].pos, m)
        /\ fds[f].obj # o => fds2[f].size = fds[f].size /\ fds2[f].pos = fds[f].pos
    BY DEF Resized
  <2>2. Least(fds[f].pos, m) <= m
    <3>1. fds[f].pos \in Nat
      BY DEF FdOK, Descriptors
    <3> QED BY <1>1, <3>1 DEF Least
  <2>3. CASE f = g
    BY <1>1, <1>2, <2>1, <2>2, <2>3
  <2>4. CASE f # g
    BY <1>2, <2>1, <2>2, <2>4
  <2> QED BY <2>3, <2>4
<1> QED BY <1>2, <1>3 DEF Trimmed

(* The index page in hand, with the new size, is written anew.             *)
HeaderWith(m) == IF m = 0 THEN IndexPage(call.obj, 0) ELSE [call.work EXCEPT !.size = m]

LEMMA NothingBeyond ==
  ASSUME NEW b, NEW s, NEW x, Core(flash, fd, call, file, view), HoldsWork(flash, call),
         call.obj \in Obj, s \in Entries(call.prev), b = Current(call, file, call.obj),
         x = call.work.ix[s]
  PROVE  ~(First(s) < Len(b)) => x = NoPage
<1>1. /\ First(s) < Len(b) => DataIn(flash, x, call.obj, s)
      /\ First(s) < Len(b) => SpanBytes(flash, x, s, b)
      /\ ~(First(s) < Len(b)) => x = NoPage
      /\ OnlyPage(flash, call.obj, s, x)
  BY InHandData
<1> QED BY <1>1

LEMMA HeaderWithIs ==
  ASSUME NEW m, NEW x, Core(flash, fd, call, file, view), HoldsWork(flash, call), call.prev = 0,
         call.obj \in Obj, m \in 0 .. MaxSize, Len(Current(call, file, call.obj)) = m, x = HeaderWith(m)
  PROVE  /\ x \in IxPages /\ x.obj = call.obj /\ x.span = 0 /\ x.ix = call.work.ix
         /\ Bytes(x.size) = m /\ x.size # 0
<1>1. call.work \in IxPages /\ call.work.obj = call.obj /\ call.work.span = 0
  BY DEF HoldsWork
<1>2. PICK w : w = call.work
  OBVIOUS
<1>3. CASE m # 0
  <2>1. x = [w EXCEPT !.size = m]
    BY <1>2, <1>3 DEF HeaderWith
  <2>2. m \in Sizes /\ Bytes(m) = m
    BY <1>3, ObjectsAssumption DEF Sizes, UNDEFINED_LEN, Bytes
  <2>3. x \in IxPages
    BY <1>1, <1>2, <2>1, <2>2, IxFields
  <2>4. w \in [kind : {"index"}, obj : Obj, span : Nat, size : Sizes, ix : References]
    BY <1>1, <1>2 DEF IxPages
  <2>5. x.size = m /\ x.obj = w.obj /\ x.span = w.span /\ x.ix = w.ix
    BY <2>1, <2>4
  <2> QED BY <1>1, <1>2, <1>3, <2>2, <2>3, <2>5
<1>4. CASE m = 0
  <2>1. x = IndexPage(call.obj, 0) /\ 0 \in Nat
    BY <1>4 DEF HeaderWith
  <2>2. /\ x \in IxPages /\ x.obj = call.obj /\ x.span = 0 /\ x.size = UNDEFINED_LEN
        /\ \A s \in Entries(0) : x.ix[s] = NoPage
    BY <2>1, NewIndexPage
  <2>3. x.ix \in [Entries(0) -> Target] /\ w.ix \in [Entries(0) -> Target]
    BY <1>1, <1>2, <2>2, IxFields
  <2>4. ASSUME NEW s \in Entries(0) PROVE w.ix[s] = NoPage
    <3>1. First(s) \in Nat
      BY FirstType, SpansType DEF Entries
    <3>2. ~(First(s) < m)
      BY <1>4, <3>1
    <3>3. s \in Entries(call.prev)
      OBVIOUS
    <3>4. PICK p, b : p = call.work.ix[s] /\ b = Current(call, file, call.obj)
      OBVIOUS
    <3>5. ~(First(s) < Len(b)) => p = NoPage
      BY <3>3, <3>4, NothingBeyond
    <3>6. Len(b) = m
      BY <3>4
    <3> QED BY <1>2, <3>2, <3>4, <3>5, <3>6
  <2>5. x.ix = w.ix
    BY <2>2, <2>3, <2>4
  <2>6. Bytes(UNDEFINED_LEN) = 0 /\ UNDEFINED_LEN # 0
    BY ObjectsAssumption DEF Bytes, UNDEFINED_LEN
  <2> QED BY <1>2, <1>4, <2>2, <2>5, <2>6
<1> QED BY <1>3, <1>4

(* What is stored when a truncation ends, but for the call's descriptor.   *)
CutStored(st, size, m) ==
  /\ FlashOK(st.flash) /\ FdOK(st.flash, st.fd) /\ Resized(fd, st.fd, call.obj, size)
  /\ Stored(flash, st.flash, call) /\ Heads(flash, st.flash, call.obj, size)
  /\ st = State(st.flash, st.fd) /\ Bytes(size) = m /\ size # 0

LEMMA CutStoresHeader ==
  ASSUME NEW m, NEW st, Core(flash, fd, call, file, view), HoldsWork(flash, call), call.prev = 0,
         call.obj \in Obj, m \in 0 .. MaxSize, Len(Current(call, file, call.obj)) = m, OneFree(flash),
         st = HeaderMoved(Now, call.obj, call.pix, HeaderWith(m))
  PROVE  CutStored(st, HeaderWith(m).size, m)
<1>1. PICK x : x = HeaderWith(m)
  OBVIOUS
<1>2. /\ x \in IxPages /\ x.obj = call.obj /\ x.span = 0 /\ x.ix = call.work.ix
      /\ Bytes(x.size) = m /\ x.size # 0
  BY <1>1, HeaderWithIs
<1>3. call.pix = Find(flash, call.obj, 0) /\ Find(flash, call.obj, 0) # NoPage
  BY DEF HoldsWork
<1>4. FlashOK(flash) /\ FdOK(flash, fd)
  BY CoreIs
<1>5. \E p \in Page : flash[p].kind = "free"
  BY DEF OneFree
<1>6. PICK o : o = call.obj
  OBVIOUS
<1>7. st = HeaderMoved(State(flash, fd), o, Find(flash, o, 0), x)
  BY <1>1, <1>3, <1>6 DEF Now
<1>8. /\ Indexed(flash, st.flash, o, 0, NextFree(flash), x) /\ NextFree(flash) \in Page
      /\ FlashOK(st.flash) /\ FdOK(st.flash, st.fd) /\ Resized(fd, st.fd, o, x.size)
      /\ st = State(st.flash, st.fd)
  BY <1>2, <1>3, <1>4, <1>5, <1>6, <1>7, HeaderMovedIs
<1>9. Stored(flash, st.flash, call) /\ Heads(flash, st.flash, call.obj, x.size)
  <2>1. Indexed(flash, st.flash, call.obj, call.prev, NextFree(flash), x) /\ call.prev \in Nat
    BY <1>6, <1>8
  <2>2. Find(flash, call.obj, call.prev) # NoPage
    BY <1>3
  <2> QED BY <1>2, <1>4, <1>8, <2>1, <2>2, StoredIs
<1> QED BY <1>1, <1>2, <1>6, <1>8, <1>9 DEF CutStored

LEMMA CutStoresFar ==
  ASSUME NEW m, NEW st, Core(flash, fd, call, file, view), HoldsWork(flash, call), call.prev > 0,
         call.obj \in Obj, call.fd \in Fd, fd[call.fd].open, fd[call.fd].obj = call.obj,
         m \in 0 .. MaxSize, m # 0, OneFree(flash),
         OneFree(IndexMoved(Now, call.obj, call.pix, call.work).flash),
         st = HeaderSized(IndexMoved(Now, call.obj, call.pix, call.work), m)
  PROVE  CutStored(st, m, m)
<1>1. PICK st1, fl1, fds1 : /\ st1 = IndexMoved(State(flash, fd), call.obj, call.pix, call.work)
                            /\ fl1 = st1.flash /\ fds1 = st1.fd
  OBVIOUS
<1>2. FlashOK(flash) /\ FdOK(flash, fd)
  BY CoreIs
<1>4. /\ Stored(flash, fl1, call) /\ HeadsSame(flash, fl1) /\ FdOK(fl1, fds1)
      /\ Resized(fd, fds1, call.obj, 0) /\ Spare(flash, fl1, NextFree(flash))
      /\ st1 = State(fl1, fds1)
  <2>1. \E p \in Page : flash[p].kind = "free"
    BY DEF OneFree
  <2> QED BY <1>1, <1>2, <2>1, StoreMoved
<1>5. OneFree(fl1)
  BY <1>1 DEF Now
<1>6. st = HeaderSized(State(fl1, fds1), m)
  <2>1. st = HeaderSized(st1, m)
    BY <1>1 DEF Now
  <2> QED BY <1>4, <2>1
<1>7. m \in Sizes /\ Bytes(m) = m
  BY ObjectsAssumption DEF Sizes, UNDEFINED_LEN, Bytes
<1>8. /\ SizedOnly(fl1, st.flash, call.obj, m) /\ FdOK(st.flash, st.fd)
      /\ Resized(fds1, st.fd, call.obj, m) /\ st = State(st.flash, st.fd)
  <2>1. \E p \in Page : fl1[p].kind = "free"
    BY <1>5 DEF OneFree
  <2>2. FlashOK(fl1) /\ fds1[call.fd].open /\ fds1[call.fd].obj = call.obj
    BY <1>4 DEF Stored, Resized
  <2> QED BY <1>4, <1>6, <1>7, <2>1, <2>2, HeaderSizedIs
<1>9. /\ FlashOK(st.flash) /\ FoundSame(fl1, st.flash) /\ DataSame(fl1, st.flash)
      /\ RefSame(fl1, st.flash) /\ Heads(fl1, st.flash, call.obj, m)
  BY <1>8 DEF SizedOnly
<1>10. Stored(flash, st.flash, call)
  <2>1. FoundSame(flash, fl1) /\ DataSame(flash, fl1) /\ RefIsTable(flash, fl1, call)
    BY <1>4 DEF Stored
  <2>2. FoundSame(flash, st.flash) /\ RefIsTable(flash, st.flash, call)
    BY <1>9, <2>1 DEF FoundSame, RefSame, RefIsTable
  <2>3. DataSame(flash, st.flash)
    BY <1>9, <2>1, DataSameSame
  <2> QED BY <1>9, <2>2, <2>3 DEF Stored
<1>11. Heads(flash, st.flash, call.obj, m)
  <2> SUFFICES ASSUME NEW u \in Obj, Find(flash, u, 0) # NoPage
               PROVE  HSize(st.flash, u) = IF u = call.obj THEN m ELSE HSize(flash, u)
    BY DEF Heads
  <2>1. Find(fl1, u, 0) # NoPage
    <3>1. 0 \in Nat
      OBVIOUS
    <3> QED BY <1>4, <3>1 DEF Stored, FoundSame
  <2>2. HSize(fl1, u) = HSize(flash, u)
    BY <1>4 DEF HeadsSame
  <2>3. HSize(st.flash, u) = IF u = call.obj THEN m ELSE HSize(fl1, u)
    BY <1>9, <2>1 DEF Heads
  <2> QED BY <2>2, <2>3
<1>12. Resized(fd, st.fd, call.obj, m)
  BY <1>4, <1>8 DEF Resized
<1> QED BY <1>7, <1>8, <1>9, <1>10, <1>11, <1>12 DEF CutStored

(* No position of the file is beyond m any more.                           *)
Cropped(fds, fds2, o, m) ==
  \A g \in Fd : /\ fds2[g].open = fds[g].open /\ fds2[g].obj = fds[g].obj
                /\ fds2[g].pos = IF fds[g].open /\ fds[g].obj = o THEN Least(fds[g].pos, m) ELSE fds[g].pos

LEMMA TruncateFinishKeeps ==
  ASSUME Core(flash, fd, call, file, view), TruncateFinish
  PROVE  /\ call' = NoCall /\ Core(flash', fd', call', Done(call, file), ViewsOf(fd'))
         /\ Cropped(fd, fd', call.obj, call.cur)
<1>1. PICK m : m = call.cur
  OBVIOUS
<1>2. call.op = "truncate" /\ call.step = "run" /\ call.cur <= call.new /\ ~call.full
  BY DEF TruncateFinish, AtCut, Running
<1>3. /\ HoldsWork(flash, call) /\ call # NoCall /\ call.prev \in Nat
      /\ call.fd \in Fd /\ call.obj \in Obj /\ fd[call.fd].open /\ fd[call.fd].obj = call.obj
      /\ m \in Nat /\ m \in 0 .. MaxSize
      /\ call.prev = IxSpan(DataSpan(m)) /\ CutKind(Len(file[call.obj].bytes), m) = "clean"
      /\ Len(Current(call, file, call.obj)) = m
  BY <1>1, <1>2, AtCutIs
<1>4. InHand(call, file)
  <2>1. PICK l : l = Len(file[call.obj].bytes)
    OBVIOUS
  <2> QED BY <1>3, <2>1, CutInHand
<1>5. /\ OneFree(flash)
      /\ call.prev > 0 => OneFree(IndexMoved(Now, call.obj, call.pix, call.work).flash)
  BY NotFull DEF TruncateFinish
<1>6. PICK st : /\ st = (IF call.prev > 0
                         THEN HeaderSized(IndexMoved(Now, call.obj, call.pix, call.work), m)
                         ELSE HeaderMoved(Now, call.obj, call.pix, HeaderWith(m)))
                /\ Return([st EXCEPT !.fd[call.fd].size = m])
  BY <1>1 DEF TruncateFinish, HeaderWith
<1>7. \E size : CutStored(st, size, m)
  <2>1. CASE call.prev > 0
    <3>1. m # 0
      <4>1. DataSpan(0) = 0
        BY SpanZero
      <4> QED BY <1>3, <2>1, <4>1, IxSpanOfFirst
    <3>2. st = HeaderSized(IndexMoved(Now, call.obj, call.pix, call.work), m)
      BY <1>6, <2>1
    <3> QED BY <1>3, <1>5, <2>1, <3>1, <3>2, CutStoresFar
  <2>2. CASE call.prev = 0
    <3>1. st = HeaderMoved(Now, call.obj, call.pix, HeaderWith(m))
      BY <1>6, <2>2
    <3> QED BY <1>3, <1>5, <2>2, <3>1, CutStoresHeader
  <2> QED BY <1>3, <2>1, <2>2
<1>8. PICK size : CutStored(st, size, m)
  BY <1>7
<1>9. PICK fl2, fds2 : fl2 = st.flash /\ fds2 = st.fd
  OBVIOUS
<1>10. /\ FlashOK(fl2) /\ FdOK(fl2, fds2) /\ Resized(fd, fds2, call.obj, size)
       /\ Stored(flash, fl2, call) /\ Heads(flash, fl2, call.obj, size)
       /\ st = State(fl2, fds2) /\ Bytes(size) = m /\ size # 0
  BY <1>8, <1>9 DEF CutStored
<1>11. /\ flash' = fl2 /\ call' = NoCall /\ SetSize(fds2, call.fd, m, fd')
  <2>1. [State(fl2, fds2) EXCEPT !.fd[call.fd].size = m] = State(fl2, [fds2 EXCEPT ![call.fd].size = m])
    BY DEF State
  <2>2. Return(State(fl2, [fds2 EXCEPT ![call.fd].size = m]))
    BY <1>6, <1>10, <2>1
  <2> QED BY <2>2, StateIs DEF Return, Becomes, SetSize
<1>12. FdOK(flash, fd) /\ Exist(flash, file) /\ SizesAgree(flash, fd, call, file)
  BY CoreIs
<1>13. FdOK(fl2, fd') /\ Trimmed(fd, fd', call.obj, m)
  BY <1>3, <1>10, <1>11, <1>12, ResizedTrims
<1>14. /\ FoundSame(flash, fl2) /\ RefIsTable(flash, fl2, call) /\ DataSame(flash, fl2)
  BY <1>10 DEF Stored
<1>15. \A u \in Obj : /\ Done(call, file)[u].exists = file[u].exists
                      /\ Done(call, file)[u].bytes = Current(call, file, u)
  BY <1>3, DoneIs
<1>16. SizesAre(fl2, fd', Done(call, file))
  <2>1. ASSUME NEW u \in Obj, Done(call, file)[u].exists
        PROVE  Bytes(HSize(fl2, u)) = Len(Done(call, file)[u].bytes)
    <3>1. file[u].exists /\ Find(flash, u, 0) # NoPage
      BY <1>12, <1>15, <2>1 DEF Exist
    <3>2. HSize(fl2, u) = IF u = call.obj THEN size ELSE HSize(flash, u)
      BY <1>10, <3>1 DEF Heads
    <3>3. u # call.obj => Bytes(HSize(flash, u)) = Len(Current(call, file, u))
      BY <1>12, <3>1 DEF SizesAgree, Changing
    <3> QED BY <1>3, <1>10, <1>15, <3>2, <3>3
  <2>2. ASSUME NEW f \in Fd, fd'[f].open
        PROVE  /\ Bytes(fd'[f].size) = Len(Done(call, file)[fd'[f].obj].bytes)
               /\ fd'[f].pos <= Len(Done(call, file)[fd'[f].obj].bytes)
    <3>1. /\ fd'[f].open = fd[f].open /\ fd'[f].obj = fd[f].obj
          /\ fd[f].open /\ fd[f].obj = call.obj => Bytes(fd'[f].size) = m /\ fd'[f].pos <= m
          /\ fd[f].obj # call.obj => fd'[f].size = fd[f].size /\ fd'[f].pos = fd[f].pos
      BY <1>13 DEF Trimmed
    <3>2. PICK u : u = fd[f].obj
      OBVIOUS
    <3>3. u \in Obj
      BY <1>12, <3>2 DEF FdOK, Descriptors
    <3>4. CASE u = call.obj
      BY <1>3, <1>15, <2>2, <3>1, <3>2, <3>3, <3>4
    <3>5. CASE u # call.obj
      <4>1. ~Changing(call, u)
        BY <3>5 DEF Changing
      <4>2. Find(flash, u, 0) # NoPage
        BY <1>12, <2>2, <3>1, <3>2 DEF FdOK, Knows
      <4>3. file[u].exists
        BY <1>12, <3>3, <4>2 DEF Exist
      <4>4. Bytes(fd[f].size) = Len(Current(call, file, u))
        BY <1>12, <2>2, <3>1, <3>2, <3>3, <4>1, <4>3 DEF SizesAgree
      <4>5. fd[f].pos <= Len(file[u].bytes)
        BY <2>2, <3>1, <3>2, <4>1, PosWithin
      <4>6. Current(call, file, u) = file[u].bytes
        BY <3>5, CurrentOut
      <4> QED BY <1>15, <3>1, <3>2, <3>3, <3>5, <4>4, <4>5, <4>6
    <3> QED BY <3>4, <3>5
  <2> QED BY <2>1, <2>2 DEF SizesAre
<1>17. Core(fl2, fd', NoCall, Done(call, file), ViewsOf(fd'))
  BY <1>3, <1>4, <1>10, <1>13, <1>14, <1>16, Returns
<1>18. Cropped(fd, fd', call.obj, m)
  <2>1. \A g \in Fd : fd'[g].open = fds2[g].open /\ fd'[g].obj = fds2[g].obj /\ fd'[g].pos = fds2[g].pos
    <3>1. m \in 0 .. UNDEFINED_LEN
      BY <1>3, ObjectsAssumption DEF UNDEFINED_LEN
    <3>2. /\ fd'[call.fd].open = fds2[call.fd].open /\ fd'[call.fd].obj = fds2[call.fd].obj
          /\ fd'[call.fd].pos = fds2[call.fd].pos
          /\ \A g \in Fd : g # call.fd => fd'[g] = fds2[g]
      BY <1>3, <1>10, <1>11, <3>1, SizeSet
    <3> QED BY <3>2
  <2>2. ASSUME NEW g \in Fd
        PROVE  /\ fd'[g].open = fd[g].open /\ fd'[g].obj = fd[g].obj
               /\ fd'[g].pos = IF fd[g].open /\ fd[g].obj = call.obj THEN Least(fd[g].pos, m) ELSE fd[g].pos
    <3>1. /\ fds2[g].open = fd[g].open /\ fds2[g].obj = fd[g].obj
          /\ IF fd[g].open /\ fd[g].obj = call.obj /\ size # 0
             THEN fds2[g].size = size /\ fds2[g].pos = Least(fd[g].pos, Bytes(size))
             ELSE fds2[g].size = fd[g].size /\ fds2[g].pos = fd[g].pos
      BY <1>10 DEF Resized
    <3> QED BY <1>10, <2>1, <3>1
  <2> QED BY <2>2 DEF Cropped
<1> QED BY <1>1, <1>11, <1>17, <1>18

-----------------------------------------------------------------------------
(* Every step preserves the invariant.                                     *)
(* A call goes on, or the files are W when it has returned.                *)
Continues == Core(flash', fd', call', file, view) /\ call' # NoCall
Returned(W) == call' = NoCall /\ Core(flash', fd', call', W, ViewsOf(fd'))

LEMMA RecordKeeps ==
  ASSUME Record, Continues \/ (\E W : Returned(W))
  PROVE  Core(flash', fd', call', file', view')
<1>1. CASE Continues
  <2>1. Core(flash', fd', call', file, view) /\ call' # NoCall
    BY <1>1 DEF Continues
  <2>2. file' = file /\ view' = view
    BY <2>1, Recorded
  <2> QED BY <2>1, <2>2
<1>2. CASE \E W : Returned(W)
  <2>1. PICK W : Returned(W)
    BY <1>2
  <2>2. PICK V : V = ViewsOf(fd')
    OBVIOUS
  <2>3. call' = NoCall /\ Core(flash', fd', call', W, V)
    BY <2>1, <2>2 DEF Returned
  <2>4. IF call' = NoCall THEN V = ViewsOf(fd') ELSE W = file /\ V = view
    BY <2>2, <2>3
  <2>5. file' = W /\ view' = V
    BY <2>3, <2>4, Recorded
  <2> QED BY <2>3, <2>5
<1> QED BY <1>1, <1>2

LEMMA RestedReturns ==
  ASSUME Rested
  PROVE  \E W : Returned(W)
<1>1. Returned(file)
  BY DEF Rested, Returned
<1> QED BY <1>1

LEMMA GcContinues ==
  ASSUME Core(flash, fd, call, file, view), GcSkips \/ GcErases \/ GcMovesIndex \/ GcMovesData
  PROVE  Continues
<1>1. Core(flash', fd', call', file, view)
  BY GcSkipsKeeps, GcErasesKeeps, GcMovesIndexKeeps, GcMovesDataKeeps
<1>2. call' # NoCall
  <2>1. \E st : Go(st)
    <3>0. CASE GcSkips
      BY <3>0 DEF GcSkips
    <3>1. CASE GcErases
      BY <3>1 DEF GcErases
    <3>2. CASE GcMovesIndex
      BY <3>2 DEF GcMovesIndex
    <3>3. CASE GcMovesData
      <4>1. PICK p \in Movable :
              LET o == flash[p].obj
                  s == flash[p].span
                  i == Find(flash, o, IxSpan(s))
                  st == State([Allocated(Collected, flash[p]) EXCEPT ![p] = FreePage], fd)
                  img == [flash[i] EXCEPT !.ix[s] = NextFree(Collected)]
              IN  IF i = NoPage THEN Go(State([Collected EXCEPT ![p] = FreePage], fd))
                  ELSE IF IxSpan(s) = 0 THEN Go(HeaderMoved(st, o, i, img))
                  ELSE Go(IndexMoved(st, o, i, img))
        BY Zenon, <3>3 DEF GcMovesData
      <4> QED BY <4>1
    <3> QED BY <3>0, <3>1, <3>2, <3>3
  <2>2. PICK st : Go(st)
    BY <2>1
  <2>6. call.step = "gc"
    BY DEF GcSkips, GcErases, GcMovesIndex, GcMovesData, Checking
  <2>7. call' = [call EXCEPT !.step = "run", !.pix = st.fd[call.fd].hdr]
    BY <2>2, Zenon DEF Go
  <2>3. call' = [call EXCEPT !.step = "run", !.pix = st.fd[call.fd].hdr] /\ call.step = "gc"
    BY <2>6, <2>7
  <2>4. call \in Locals
    <3>1. call # NoCall
      BY <2>3, NoCallIs
    <3> QED BY <3>1, CoreIs, CallIs
  <2>5. call'.step = "run"
    BY <2>3, <2>4 DEF Locals
  <2> QED BY <2>5, NoCallIs
<1> QED BY <1>1, <1>2 DEF Continues

LEMMA GcKeeps ==
  ASSUME Core(flash, fd, call, file, view), Gc
  PROVE  Continues \/ (\E W : Returned(W))
<1>1. ASSUME GcSkips \/ GcErases \/ GcMovesIndex \/ GcMovesData PROVE Continues
  BY <1>1, GcContinues
<1>2. ASSUME GcFull PROVE \E W : Returned(W)
  <2>1. Returned(Done(call, file))
    BY <1>2, GcFullKeeps DEF Returned
  <2> QED BY <2>1
<1>3. ASSUME GcQuick PROVE Continues
  BY <1>3, GcQuickKeeps DEF Continues
<1> QED BY <1>1, <1>2, <1>3 DEF Gc

(* The steps that begin a call or are one.                                 *)
LEMMA CallsKeep ==
  ASSUME NEW f \in Fd, NEW o \in Obj, Core(flash, fd, call, file, view),
         Open(f, o) \/ Create(f, o) \/ OpenTruncate(f, o) \/ Remove(f, o) \/ Rename(f, o)
  PROVE  Continues \/ (\E W : Returned(W))
<1>1. CASE Open(f, o)
  BY <1>1, OpenKeeps, RestedReturns
<1>2. CASE Rename(f, o)
  BY <1>2, RenameKeeps, RestedReturns
<1>3. CASE Create(f, o)
  BY <1>3, CreateKeeps DEF Continues
<1>4. CASE OpenTruncate(f, o)
  BY <1>4, OpenTruncateKeeps DEF Continues
<1>5. CASE Remove(f, o)
  BY <1>5, RemoveKeeps DEF Continues
<1> QED BY <1>1, <1>2, <1>3, <1>4, <1>5

LEMMA DescriptorCallsKeep ==
  ASSUME NEW f \in Fd, Cuts \subseteq {"clean"}, Core(flash, fd, call, file, view),
         \/ Close(f) \/ SeekBeyond(f)
         \/ \E n \in Places : Seek(f, n) \/ Read(f, n)
         \/ \E n \in 0 .. MaxSize : Truncate(f, n)
         \/ \E n \in Lens, v \in Val : (OwnVal => v = f) /\ Write(f, n, v)
  PROVE  Continues \/ (\E W : Returned(W))
<1>1. CASE Close(f)
  BY <1>1, CloseKeeps, RestedReturns
<1>2. CASE SeekBeyond(f)
  BY <1>2, SeekBeyondKeeps, RestedReturns
<1>3. ASSUME NEW n \in Places, Seek(f, n) PROVE Rested
  <2>1. n \in Nat
    BY ObjectsAssumption
  <2> QED BY <1>3, <2>1, SeekKeeps
<1>4. ASSUME NEW n \in Places, Read(f, n) PROVE Rested
  <2>1. n \in Nat
    BY ObjectsAssumption
  <2> QED BY <1>4, <2>1, ReadKeeps
<1>5. ASSUME NEW n \in 0 .. MaxSize, Truncate(f, n) PROVE Continues
  <2>1. n \in Nat
    BY ObjectsAssumption
  <2> QED BY <1>5, <2>1, TruncateKeeps DEF Continues
<1>6. ASSUME NEW n \in Lens, NEW v \in Val, Write(f, n, v) PROVE Continues
  BY <1>6, WriteKeeps DEF Continues
<1> QED BY <1>1, <1>2, <1>3, <1>4, <1>5, <1>6, RestedReturns

(* The steps of a call in progress.                                        *)
Working ==
  \/ CreateFinish
  \/ AppendLoad \/ AppendIndex \/ AppendData \/ AppendInPage \/ AppendFinish
  \/ ModifyIndex \/ ModifyData \/ ModifyFinish
  \/ TruncateIndex \/ TruncateWhole \/ TruncatePart \/ TruncateFinish \/ RemoveFinish

LEMMA WorkingKeeps ==
  ASSUME Core(flash, fd, call, file, view), Working
  PROVE  Continues \/ (\E W : Returned(W))
<1>1. CASE CreateFinish
  BY <1>1, CreateFinishKeeps DEF Returned
<1>2. CASE AppendFinish
  BY <1>2, AppendFinishKeeps DEF Returned
<1>3. CASE ModifyFinish
  BY <1>3, ModifyFinishKeeps DEF Returned, Continues
<1>4. CASE TruncateFinish
  BY <1>4, TruncateFinishKeeps DEF Returned
<1>5. CASE RemoveFinish
  BY <1>5, RemoveFinishKeeps DEF Returned
<1>6. CASE AppendLoad
  BY <1>6, AppendLoadKeeps DEF Continues
<1>7. CASE AppendIndex
  BY <1>7, AppendIndexKeeps DEF Continues
<1>8. CASE AppendData
  BY <1>8, AppendDataKeeps DEF Continues
<1>9. CASE AppendInPage
  BY <1>9, AppendInPageKeeps DEF Continues
<1>10. CASE ModifyIndex
  BY <1>10, ModifyIndexKeeps DEF Continues
<1>11. CASE ModifyData
  BY <1>11, ModifyDataHolds DEF Continues
<1>12. CASE TruncateIndex
  BY <1>12, TruncateIndexKeeps DEF Continues
<1>13. CASE TruncateWhole
  BY <1>13, TruncateWholeKeeps DEF Continues
<1>14. CASE TruncatePart
  BY <1>14, TruncatePartKeeps DEF Continues
<1> QED BY <1>1, <1>2, <1>3, <1>4, <1>5, <1>6, <1>7, <1>8, <1>9, <1>10, <1>11, <1>12, <1>13, <1>14
        DEF Working

-----------------------------------------------------------------------------
(* The beginning.                                                          *)
LEMMA NothingFound ==
  ASSUME NEW fl, NEW o, NEW k, \A p \in Page : fl[p].kind # "index"
  PROVE  Find(fl, o, k) = NoPage
<1>1. IndexPages(fl, o, k) = {}
  BY DEF IndexPages
<1> QED BY <1>1 DEF Find

LEMMA Begun ==
  ASSUME Init
  PROVE  Core(flash, fd, call, file, view) /\ calls \in 0 .. CallCap /\ short = "none"
<1>1. /\ flash = [p \in Page |-> FreePage] /\ fd = [f \in Fd |-> Closed] /\ call = NoCall /\ calls = 0
      /\ file = [o \in Obj |-> Promise!NoFile] /\ view = [f \in Fd |-> Promise!Closed]
  BY DEF Init, Promise!Init
<1>2. \A p \in Page : flash[p] = FreePage /\ flash[p].kind = "free"
  BY <1>1 DEF FreePage
<1>3. \A o, k : Find(flash, o, k) = NoPage
  BY <1>2, NothingFound
<1>4. FlashOK(flash)
  <2>1. flash \in [Page -> Pages]
    BY <1>1 DEF Pages
  <2> QED BY <1>2, <2>1 DEF FlashOK
<1>5. FdOK(flash, fd)
  <2>1. \A f \in Fd : fd[f] = Closed
    BY <1>1
  <2>2. fd \in [Fd -> Descriptors]
    BY <1>1, ClosedIs
  <2> QED BY <2>1, <2>2, ClosedIs DEF FdOK
<1>6. \A o \in Obj : file[o].exists = FALSE /\ file[o].bytes = <<>>
  BY <1>1 DEF Promise!NoFile
<1>7. Exist(flash, file)
  <2>1. file \in [Obj -> FilesSet]
    <3>1. <<>> \in Seq(Val)
      OBVIOUS
    <3>2. Promise!NoFile \in FilesSet
      BY <3>1 DEF Promise!NoFile, FilesSet
    <3> QED BY <1>1, <3>2
  <2>2. Len(<<>>) <= MaxSize
    BY ObjectsAssumption
  <2> QED BY <1>3, <1>6, <2>1, <2>2 DEF Exist
<1>8. Layout(flash, NoCall, file)
  <2>1. ASSUME NEW o \in Obj PROVE Laid(flash, Table(flash, NoCall, o), o, Current(NoCall, file, o))
    <3>1. Current(NoCall, file, o) = <<>>
      BY <1>6, NoCallIs, CurrentOut
    <3>2. \A s \in Spans : Table(flash, NoCall, o)[s] = NoPage
      <4>1. \A s \in Spans : Ref(flash, o, s) = NoPage
        BY <1>3 DEF Ref
      <4> QED BY <4>1, NoCallIs, TableOut
    <3>3. \A s \in Spans : ~(First(s) < Len(<<>>))
      <4>1. Spans \subseteq Nat
        BY SpansType
      <4>2. \A s \in Spans : First(s) \in Nat
        BY <4>1, FirstType
      <4> QED BY <4>2
    <3>4. \A s \in Spans : IF First(s) < Len(<<>>)
             THEN /\ Table(flash, NoCall, o)[s] \in Page /\ flash[Table(flash, NoCall, o)[s]].kind = "data"
                  /\ flash[Table(flash, NoCall, o)[s]].obj = o /\ flash[Table(flash, NoCall, o)[s]].span = s
             ELSE Table(flash, NoCall, o)[s] = NoPage
      BY <3>2, <3>3
    <3>5. \A p \in Page : flash[p].kind # "data"
      BY <1>2
    <3> QED BY <3>1, <3>4, <3>5 DEF Laid
  <2> QED BY <1>3, <2>1 DEF Layout
<1>9. SizesAre(flash, fd, file)
  <2>1. \A f \in Fd : ~fd[f].open
    BY <1>1, ClosedIs
  <2> QED BY <1>6, <2>1 DEF SizesAre
<1>10. Core(flash, fd, NoCall, file, ViewsOf(fd))
  BY <1>4, <1>5, <1>7, <1>8, <1>9, Idles
<1>11. view = ViewsOf(fd)
  <2>1. \A f \in Fd : View(fd[f]) = Promise!Closed
    BY <1>1, ClosedIs DEF View
  <2> QED BY <1>1, <2>1 DEF ViewsOf
<1>12. calls \in 0 .. CallCap /\ short = "none"
  BY <1>1, ObjectsAssumption DEF Init
<1> QED BY <1>1, <1>10, <1>11, <1>12

-----------------------------------------------------------------------------
(* The number of calls.                                                    *)
Counted == calls' = calls \/ (calls' \in Nat /\ calls' <= CallCap)

LEMMA StepCounts ==
  ASSUME Step, calls \in 0 .. CallCap
  PROVE  Counted
<1>1. ASSUME NEW c, Begin(c) PROVE Counted
  <2>1. PICK w : w = Weight(c)
    OBVIOUS
  <2>2. w \in {1, 2} /\ calls' = calls + w /\ calls + w <= CallCap /\ calls \in Nat
    BY <1>1, <2>1, ObjectsAssumption DEF Begin, Weight
  <2> QED BY <2>2, ObjectsAssumption DEF Counted
<1>2. ASSUME NEW op, Running(op) PROVE Counted
  BY <1>2 DEF Running, Counted
<1>3. ASSUME Gc PROVE Counted
  BY <1>3 DEF Gc, GcSkips, GcErases, GcMovesIndex, GcMovesData, GcFull, GcQuick, Checking, Counted
<1>4. ASSUME NEW f, NEW o, Open(f, o) \/ Create(f, o) \/ OpenTruncate(f, o) \/ Remove(f, o) \/ Rename(f, o)
      PROVE  Counted
  <2>1. CASE Open(f, o)
    BY <2>1 DEF Open, Counted
  <2>2. CASE Create(f, o)
    BY <1>1, <2>2 DEF Create
  <2>3. CASE OpenTruncate(f, o)
    BY <1>1, <2>3 DEF OpenTruncate
  <2>4. CASE Remove(f, o)
    BY <1>1, <2>4 DEF Remove
  <2>5. CASE Rename(f, o)
    BY <2>5, ObjectsAssumption DEF Rename, Counted
  <2> QED BY <1>4, <2>1, <2>2, <2>3, <2>4, <2>5
<1>5. ASSUME NEW f, Close(f) \/ SeekBeyond(f) PROVE Counted
  BY <1>5 DEF Close, SeekBeyond, Counted
<1>6. ASSUME NEW f, NEW n, Seek(f, n) \/ Read(f, n) PROVE Counted
  BY <1>6 DEF Seek, Read, Counted
<1>7. ASSUME NEW f, NEW n, Truncate(f, n) PROVE Counted
  BY <1>1, <1>7 DEF Truncate
<1>8. ASSUME NEW f, NEW n, NEW v, Write(f, n, v) PROVE Counted
  BY <1>1, <1>8 DEF Write
<1>9. ASSUME Working PROVE Counted
  <2>1. CASE CreateFinish
    BY <1>2, <2>1 DEF CreateFinish
  <2>2. ASSUME NEW op, AtIndex(op) \/ AtData(op) \/ AtEnd(op) PROVE Counted
    BY <1>2, <2>2 DEF AtIndex, AtData, AtEnd
  <2>3. ASSUME AtPage \/ AtCut PROVE Counted
    BY <1>2, <2>3 DEF AtPage, AtCut
  <2>4. CASE AppendLoad
    BY <2>2, <2>4 DEF AppendLoad
  <2>5. CASE AppendIndex
    BY <2>2, <2>5 DEF AppendIndex
  <2>6. CASE AppendData
    BY <2>2, <2>6 DEF AppendData
  <2>7. CASE AppendInPage
    BY <2>2, <2>7 DEF AppendInPage
  <2>8. CASE AppendFinish
    <3>1. AtEnd("append")
      BY <2>8, Zenon DEF AppendFinish
    <3> QED BY <2>2, <3>1
  <2>9. CASE ModifyIndex
    BY <2>2, <2>9 DEF ModifyIndex
  <2>10. CASE ModifyData
    BY <2>2, <2>10 DEF ModifyData
  <2>11. CASE ModifyFinish
    BY <2>2, <2>11 DEF ModifyFinish
  <2>12. CASE TruncateIndex
    BY <1>2, <2>12 DEF TruncateIndex
  <2>13. CASE TruncateWhole
    BY <2>3, <2>13 DEF TruncateWhole
  <2>14. CASE TruncatePart
    BY <2>3, <2>14 DEF TruncatePart
  <2>15. CASE TruncateFinish
    BY <2>3, <2>15 DEF TruncateFinish
  <2>16. CASE RemoveFinish
    BY <2>3, <2>16 DEF RemoveFinish
  <2> QED BY <1>9, <2>1, <2>4, <2>5, <2>6, <2>7, <2>8, <2>9, <2>10, <2>11,
            <2>12, <2>13, <2>14, <2>15, <2>16 DEF Working
<1> QED BY <1>3, <1>4, <1>5, <1>6, <1>7, <1>8, <1>9 DEF Step, Working

LEMMA CoreKept ==
  ASSUME Cuts \subseteq {"clean"}, Core(flash, fd, call, file, view), Step, Record
  PROVE  Core(flash', fd', call', file', view')
<1>2. Continues \/ (\E W : Returned(W))
  <2>1. CASE Gc
    BY <2>1, GcKeeps
  <2>2. CASE \E f \in Fd, o \in Obj :
               Open(f, o) \/ Create(f, o) \/ OpenTruncate(f, o) \/ Remove(f, o) \/ Rename(f, o)
    BY <2>2, CallsKeep
  <2>3. CASE \E f \in Fd :
               \/ Close(f) \/ SeekBeyond(f)
               \/ \E n \in Places : Seek(f, n) \/ Read(f, n)
               \/ \E n \in 0 .. MaxSize : Truncate(f, n)
               \/ \E n \in Lens, v \in Val : (OwnVal => v = f) /\ Write(f, n, v)
    <3>1. PICK f \in Fd : \/ Close(f) \/ SeekBeyond(f)
                          \/ \E n \in Places : Seek(f, n) \/ Read(f, n)
                          \/ \E n \in 0 .. MaxSize : Truncate(f, n)
                          \/ \E n \in Lens, v \in Val : (OwnVal => v = f) /\ Write(f, n, v)
      BY <2>3
    <3> QED BY <3>1, DescriptorCallsKeep
  <2>4. CASE Working
    BY <2>4, WorkingKeeps
  <2> QED BY <2>1, <2>2, <2>3, <2>4 DEF Step, Working
<1> QED BY <1>2, RecordKeeps


-----------------------------------------------------------------------------
(* A call that runs out of pages midway leaves pages and descriptors with  *)
(* their types.                                                            *)
Kinds(fl) == \A p \in Page : fl[p].kind \in {"free", "deleted", "data", "index"}
Halted(st) == st = State(st.flash, st.fd) /\ Kinds(st.flash) /\ st.fd \in [Fd -> Descriptors]

LEMMA FlashKinds ==
  ASSUME NEW fl, FlashOK(fl)
  PROVE  Kinds(fl)
BY KindIs DEF FlashOK, Kinds

LEMMA KeptHalts ==
  ASSUME NEW st, st = State(st.flash, st.fd), FlashOK(st.flash), FdOK(st.flash, st.fd)
  PROVE  Halted(st)
BY FlashKinds DEF Halted, FdOK

LEMMA NowHalts ==
  ASSUME Core(flash, fd, call, file, view)
  PROVE  Halted(Now)
<1>1. Now = State(flash, fd) /\ Now.flash = flash /\ Now.fd = fd
  BY StateIs DEF Now
<1> QED BY <1>1, CoreIs, KeptHalts

LEMMA EventTypes ==
  ASSUME NEW fds, NEW ev, NEW o, NEW k, NEW p, NEW size, fds \in [Fd -> Descriptors], k \in Nat,
         p \in Target, size \in 0 .. UNDEFINED_LEN
  PROVE  Event(fds, ev, o, k, p, size) \in [Fd -> Descriptors]
<1>1. ASSUME NEW f \in Fd PROVE Told(fds[f], ev, k, p, size) \in Descriptors
  <2>1. CASE k = 0 /\ ev = "DEL"
    BY <2>1, ClosedIs DEF Told
  <2>2. CASE ~(k = 0 /\ ev = "DEL")
    BY <2>2, ToldIs
  <2> QED BY <2>1, <2>2
<1> QED BY <1>1 DEF Event

LEMMA ProgrammedKinds ==
  ASSUME NEW p, NEW img, FlashOK(flash), p \in Page
  PROVE  Kinds(Programmed(flash, p, img))
<1>1. flash \in [Page -> Pages] /\ \A q \in Page : flash[q].kind \in {"free", "deleted", "data", "index"}
  BY KindIs DEF FlashOK
<1>2. ASSUME NEW x PROVE [x EXCEPT !.size = Over(@, img.size, UNDEFINED_LEN, 0)].kind = x.kind
  OBVIOUS
<1> QED BY <1>1, <1>2 DEF Programmed, Kinds

LEMMA CursorHalts ==
  ASSUME NEW k, NEW p, NEW st, Core(flash, fd, call, file, view), k \in Nat, p \in Target,
         st = Cursor(Now, call.fd, k, p)
  PROVE  Halted(st) /\ st.flash = flash
<1>1. fd \in [Fd -> Descriptors] /\ FlashOK(flash)
  BY CoreIs DEF FdOK
<1>2. PICK fds : fds = [fd EXCEPT ![call.fd].cspan = k, ![call.fd].cpix = p]
  OBVIOUS
<1>3. fds \in [Fd -> Descriptors]
  BY <1>1, <1>2 DEF Descriptors
<1>4. st = State(flash, fds)
  BY <1>2 DEF Cursor, Now, State
<1> QED BY <1>1, <1>3, <1>4, StateIs, FlashKinds DEF Halted

(* The state is one with the types after SPIFFS_ERR_FULL.                  *)
Ended == Typed' /\ short' = call.op /\ UNCHANGED <<file, view>>

LEMMA RunOutEnds ==
  ASSUME NEW st, Core(flash, fd, call, file, view), RunOut(st), Halted(st)
  PROVE  Ended
<1>1. /\ short' = call.op /\ file' = file /\ view' = view
      /\ Return(IF call.temp THEN [st EXCEPT !.fd[call.fd] = Closed] ELSE st)
  BY DEF RunOut, Fail
<1>2. PICK fl, fds : fl = st.flash /\ fds = st.fd
  OBVIOUS
<1>3. st = State(fl, fds) /\ Kinds(fl) /\ fds \in [Fd -> Descriptors]
  BY <1>2 DEF Halted
<1>4. [st EXCEPT !.fd[call.fd] = Closed] = State(fl, [fds EXCEPT ![call.fd] = Closed])
  BY <1>3 DEF State
<1>5. PICK fds2 : fds2 = IF call.temp THEN [fds EXCEPT ![call.fd] = Closed] ELSE fds
  OBVIOUS
<1>6. fds2 \in [Fd -> Descriptors]
  BY <1>3, <1>5, ClosedIs
<1>7. Return(State(fl, fds2))
  BY <1>1, <1>3, <1>4, <1>5
<1>8. flash' = fl /\ fd' = fds2 /\ call' = NoCall
  BY <1>7, StateIs DEF Return, Becomes
<1>9. \A f \in Fd : /\ fds2[f].size \in 0 .. UNDEFINED_LEN /\ fds2[f].pos \in 0 .. MaxSize
                    /\ {fds2[f].hdr, fds2[f].cpix} \subseteq Target
  BY <1>6 DEF Descriptors
<1>10. \A o \in Obj : \A i \in DOMAIN file[o].bytes : file[o].bytes[i] \in Val
  <2>1. \A o \in Obj : file[o].bytes \in Seq(Val)
    BY CoreIs, FileType
  <2> QED BY <2>1
<1> QED BY <1>1, <1>3, <1>8, <1>9, <1>10 DEF Ended, Typed, Kinds

(* The call in progress has an index page in hand.                         *)
LEMMA InHandTypes ==
  ASSUME Core(flash, fd, call, file, view), call # NoCall, call.op # "create", HoldsWork(flash, call)
  PROVE  call.prev \in Nat /\ call.pix \in Page /\ call.pix \in Target
<1>1. call.obj \in Obj /\ FlashOK(flash)
  BY CoreIs, CallIs
<1>2. call.prev \in Nat /\ call.pix # NoPage /\ call.pix = Find(flash, call.obj, call.prev)
  BY DEF HoldsWork
<1> QED BY <1>1, <1>2, FindIs

LEMMA WriteInHand ==
  ASSUME NEW op, op \in {"append", "modify"}, Core(flash, fd, call, file, view),
         AtData(op) \/ AtEnd(op)
  PROVE  /\ call.op = op /\ call # NoCall /\ HoldsWork(flash, call)
         /\ call.prev \in Nat /\ call.pix \in Page /\ call.pix \in Target
         /\ place \in 0 .. UNDEFINED_LEN
<1>1. call.op = op /\ call.step = "run" /\ call # NoCall
  BY NoCallIs DEF AtData, AtEnd, Running
<1>2. HoldsWork(flash, call)
  <2>1. CASE AtEnd(op)
    BY <1>1, <2>1, AtLastByte DEF AtEnd
  <2>2. CASE AtData(op)
    <3>1. call.written < call.len /\ IxSpan(span) = call.prev
      BY <2>2 DEF AtData
    <3>2. PICK n, m, s : n = place /\ m = Chunk /\ s = span
      OBVIOUS
    <3> QED BY <1>1, <3>1, <3>2, WriteAt
  <2> QED BY <2>1, <2>2
<1>3. place \in 0 .. UNDEFINED_LEN
  BY <1>1, PlaceType, ObjectsAssumption DEF place, UNDEFINED_LEN
<1> QED BY <1>1, <1>2, <1>3, InHandTypes

LEMMA ModifyEnds ==
  ASSUME Core(flash, fd, call, file, view), ModifyIndexShort \/ ModifyShort
  PROVE  Ended /\ call.op = "modify" /\ calls' = calls
<1>1. CASE ModifyIndexShort
  <2>1. call.op = "modify" /\ calls' = calls /\ RunOut(Now)
    BY <1>1 DEF ModifyIndexShort, AtIndex, Running
  <2> QED BY <2>1, NowHalts, RunOutEnds
<1>2. CASE ModifyShort
  <2>1. AtData("modify") \/ AtEnd("modify")
    BY <1>2 DEF ModifyShort
  <2>2. calls' = calls
    BY <2>1 DEF AtData, AtEnd, Running
  <2>3. call.op = "modify" /\ call.prev \in Nat /\ call.pix \in Target
    BY <2>1, WriteInHand
  <2>4. PICK p : p \in Target /\ RunOut(Cursor(Now, call.fd, call.prev, p))
    BY <1>2, <2>3 DEF ModifyShort, Target
  <2>5. Halted(Cursor(Now, call.fd, call.prev, p))
    BY <2>3, <2>4, CursorHalts
  <2> QED BY <2>2, <2>3, <2>4, <2>5, RunOutEnds
<1> QED BY <1>1, <1>2

LEMMA TruncateEnds ==
  ASSUME Core(flash, fd, call, file, view), TruncateIndexShort \/ TruncateShort \/ TruncateFinishShort
  PROVE  Ended /\ call.op = "truncate" /\ calls' = calls
<1>1. call.op = "truncate" /\ call.step = "run" /\ calls' = calls
  BY DEF TruncateIndexShort, TruncateShort, TruncateFinishShort, AtPage, AtCut, Running
<1>2. /\ call # NoCall /\ call.obj \in Obj /\ FlashOK(flash) /\ FdOK(flash, fd)
      /\ call.prev = -1 \/ HoldsWork(flash, call)
  BY <1>1, NoCallIs, CoreIs, CallIs
<1>3. CASE TruncateIndexShort
  <2>1. PICK st : /\ st = State(Without(flash, call.pix),
                                Event(fd, "DEL", call.obj, call.prev, call.pix, 0))
                  /\ RunOut(st)
    BY <1>3 DEF TruncateIndexShort
  <2>2. call.prev \in Nat /\ call.pix \in Page /\ call.pix \in Target
    BY <1>1, <1>2, <1>3, InHandTypes DEF TruncateIndexShort
  <2>3. Kinds(Without(flash, call.pix))
    <3>1. flash \in [Page -> Pages] /\ Kinds(flash) /\ DeletedPage.kind = "deleted"
      BY <1>2, FlashKinds DEF FlashOK, DeletedPage
    <3> QED BY <3>1 DEF Without, Kinds
  <2>4. Event(fd, "DEL", call.obj, call.prev, call.pix, 0) \in [Fd -> Descriptors]
    <3>1. fd \in [Fd -> Descriptors] /\ 0 \in 0 .. UNDEFINED_LEN
      BY <1>2, SizesType DEF FdOK
    <3> QED BY <2>2, <3>1, EventTypes
  <2>5. Halted(st)
    BY <2>1, <2>3, <2>4, StateIs DEF Halted
  <2> QED BY <1>1, <2>1, <2>5, RunOutEnds
<1>4. CASE TruncateShort
  <2>1. RunOut(Now)
    BY <1>4 DEF TruncateShort
  <2> QED BY <1>1, <2>1, NowHalts, RunOutEnds
<1>5. CASE TruncateFinishShort
  <2>1. PICK st : st = IndexMoved(State(flash, fd), call.obj, call.pix, call.work) /\ RunOut(st)
    BY <1>5 DEF TruncateFinishShort, Now
  <2>2. call.prev > 0 /\ OneFree(flash)
    BY <1>5, NotFull DEF TruncateFinishShort
  <2>3. HoldsWork(flash, call)
    BY <1>2, <2>2
  <2>4. Stored(flash, st.flash, call) /\ FdOK(st.flash, st.fd) /\ st = State(st.flash, st.fd)
    BY <1>2, <2>1, <2>2, <2>3, StoreMoved DEF OneFree
  <2>5. Halted(st)
    BY <2>4, KeptHalts DEF Stored
  <2> QED BY <1>1, <2>1, <2>5, RunOutEnds
<1> QED BY <1>3, <1>4, <1>5

(* An index page is written in its place, and descriptors are told.        *)
LEMMA ProgrammedHalts ==
  ASSUME NEW img, NEW fds, NEW k, NEW size, NEW st, FlashOK(flash), call.pix \in Page,
         call.pix \in Target, fds \in [Fd -> Descriptors], k \in Nat, size \in 0 .. UNDEFINED_LEN,
         st = State(Programmed(flash, call.pix, img), Event(fds, "UPD", call.obj, k, call.pix, size))
  PROVE  Halted(st)
<1>1. Kinds(Programmed(flash, call.pix, img))
  BY ProgrammedKinds
<1>2. Event(fds, "UPD", call.obj, k, call.pix, size) \in [Fd -> Descriptors]
  BY EventTypes
<1> QED BY <1>1, <1>2, StateIs DEF Halted

LEMMA AppendIndexEnds ==
  ASSUME Core(flash, fd, call, file, view), AppendIndexShort
  PROVE  Ended /\ call.op = "append" /\ calls' = calls
<1>1. /\ call.op = "append" /\ call.step = "run" /\ calls' = calls /\ call.written < call.len
      /\ IxSpan(span) # call.prev
  BY DEF AppendIndexShort, AtIndex, Running
<1>2. /\ call # NoCall /\ call.written \in Nat /\ FlashOK(flash) /\ FdOK(flash, fd)
      /\ call.prev = -1 \/ HoldsWork(flash, call)
  BY <1>1, NoCallIs, CoreIs, CallIs, WriteIs
<1>3. call.written > 0 => HoldsWork(flash, call)
  <2>1. PICK n, s, k : n = place /\ s = DataSpan(n) /\ k = IxSpan(s)
    OBVIOUS
  <2>2. \/ call.written = 0 /\ call.prev = -1
        \/ call.written > 0 /\ HoldsWork(flash, call)
    BY <1>1, Paging DEF span, place
  <2> QED BY <2>2
<1>4. CASE call.written > 0 /\ HeaderAnew /\ Full(flash)
  <2>1. RunOut(IF call.prev = 0 THEN Now ELSE IndexProgrammed(Now, call.obj, call.pix, call.work))
    BY <1>4 DEF AppendIndexShort
  <2>2. CASE call.prev = 0
    BY <1>1, <2>1, <2>2, NowHalts, RunOutEnds
  <2>3. CASE call.prev # 0
    <3>1. PICK st : st = IndexProgrammed(Now, call.obj, call.pix, call.work)
      OBVIOUS
    <3>2. st = State(Programmed(flash, call.pix, call.work),
                     Event(fd, "UPD", call.obj, call.work.span, call.pix, 0))
      BY <3>1, StateIs DEF IndexProgrammed, Now
    <3>3. call.pix \in Page /\ call.pix \in Target /\ call.work.span \in Nat
      BY <1>1, <1>2, <1>3, <1>4, InHandTypes DEF HoldsWork
    <3>4. fd \in [Fd -> Descriptors] /\ 0 \in 0 .. UNDEFINED_LEN
      BY <1>2, SizesType DEF FdOK
    <3>5. Halted(st)
      BY <1>2, <3>2, <3>3, <3>4, ProgrammedHalts
    <3> QED BY <1>1, <2>1, <2>3, <3>1, <3>5, RunOutEnds
  <2> QED BY <2>2, <2>3
<1>5. CASE ~(call.written > 0 /\ HeaderAnew /\ Full(flash))
  <2>1. PICK st : st = AppendStored /\ RunOut(st)
    BY <1>5 DEF AppendIndexShort
  <2>2. CASE call.written = 0
    <3>1. st = Now
      BY <2>1, <2>2 DEF AppendStored
    <3> QED BY <1>1, <2>1, <3>1, NowHalts, RunOutEnds
  <2>3. CASE call.written > 0
    <3>1. PICK n : n = call.offset + call.written
      OBVIOUS
    <3>2. HeaderAnew => OneFree(flash)
      BY <1>5, <2>3, NotFull
    <3>3. Stored(flash, st.flash, call) /\ FdOK(st.flash, st.fd) /\ st = State(st.flash, st.fd)
      BY <1>1, <1>3, <2>1, <2>3, <3>1, <3>2, AppendStoredIs
    <3>4. Halted(st)
      BY <3>3, KeptHalts DEF Stored
    <3> QED BY <1>1, <2>1, <3>4, RunOutEnds
  <2> QED BY <1>2, <2>2, <2>3
<1> QED BY <1>4, <1>5

LEMMA AppendEnds ==
  ASSUME Core(flash, fd, call, file, view), AppendShort
  PROVE  Ended /\ call.op = "append" /\ calls' = calls
<1>1. AtData("append") \/ AtEnd("append")
  BY DEF AppendShort
<1>2. /\ call.op = "append" /\ call # NoCall /\ HoldsWork(flash, call)
      /\ call.prev \in Nat /\ call.pix \in Page /\ call.pix \in Target
      /\ place \in 0 .. UNDEFINED_LEN /\ calls' = calls /\ FlashOK(flash)
  <2>1. calls' = calls
    BY <1>1 DEF AtData, AtEnd, Running
  <2> QED BY <1>1, <2>1, WriteInHand, CoreIs
<1>3. PICK st1 : st1 = Cursor(Now, call.fd, call.prev, call.pix)
  OBVIOUS
<1>4. Halted(st1) /\ st1.flash = flash
  BY <1>2, <1>3, CursorHalts
<1>5. PICK d1, d2 : d1 = st1.fd /\ d2 = [d1 EXCEPT ![call.fd].size = place]
  OBVIOUS
<1>6. d2 \in [Fd -> Descriptors]
  BY <1>2, <1>4, <1>5 DEF Halted, Descriptors
<1>7. PICK st : st = [st1 EXCEPT !.fd[call.fd].size = place]
  OBVIOUS
<1>8. st = State(flash, d2) /\ st.flash = flash /\ st.fd = d2
  <2>1. st1 = State(flash, d1)
    BY <1>4, <1>5 DEF Halted
  <2>2. st = State(flash, d2)
    BY <1>5, <1>7, <2>1 DEF State
  <2> QED BY <2>2, StateIs
<1>9. PICK img : img = [call.work EXCEPT !.size = place]
  OBVIOUS
<1>10. PICK out :
         /\ out = IF call.prev # 0 THEN IndexProgrammed(st, call.obj, call.pix, call.work)
                  ELSE IF call.offset > 0 THEN st
                  ELSE State(Programmed(flash, call.pix, img),
                             Event(st.fd, "UPD", call.obj, 0, call.pix, place))
         /\ RunOut(out)
  <2>1. LET s == [Cursor(Now, call.fd, call.prev, call.pix) EXCEPT !.fd[call.fd].size = place]
            w == [call.work EXCEPT !.size = place]
        IN  RunOut(IF call.prev # 0 THEN IndexProgrammed(s, call.obj, call.pix, call.work)
                   ELSE IF call.offset > 0 THEN s
                   ELSE State(Programmed(flash, call.pix, w), Event(s.fd, "UPD", call.obj, 0, call.pix, place)))
    BY Zenon DEF AppendShort
  <2>2. st = [Cursor(Now, call.fd, call.prev, call.pix) EXCEPT !.fd[call.fd].size = place]
    BY <1>3, <1>7
  <2>3. RunOut(IF call.prev # 0 THEN IndexProgrammed(st, call.obj, call.pix, call.work)
               ELSE IF call.offset > 0 THEN st
               ELSE State(Programmed(flash, call.pix, img), Event(st.fd, "UPD", call.obj, 0, call.pix, place)))
    BY <1>9, <2>1, <2>2
  <2> QED BY <2>3
<1>11. 0 \in 0 .. UNDEFINED_LEN /\ call.work.span \in Nat
  BY <1>2, SizesType DEF HoldsWork
<1>12. CASE call.prev # 0
  <2>1. out = State(Programmed(flash, call.pix, call.work),
                    Event(d2, "UPD", call.obj, call.work.span, call.pix, 0))
    BY <1>8, <1>10, <1>12 DEF IndexProgrammed
  <2>2. Halted(out)
    BY <1>2, <1>6, <1>11, <2>1, ProgrammedHalts
  <2> QED BY <1>2, <1>10, <2>2, RunOutEnds
<1>13. CASE call.prev = 0 /\ call.offset > 0
  <2>1. Halted(out)
    BY <1>2, <1>6, <1>8, <1>10, <1>13, FlashKinds DEF Halted
  <2> QED BY <1>2, <1>10, <2>1, RunOutEnds
<1>14. CASE call.prev = 0 /\ ~(call.offset > 0)
  <2>1. out = State(Programmed(flash, call.pix, img), Event(d2, "UPD", call.obj, 0, call.pix, place))
    BY <1>8, <1>10, <1>14
  <2>2. Halted(out)
    BY <1>2, <1>6, <2>1, ProgrammedHalts
  <2> QED BY <1>2, <1>10, <2>2, RunOutEnds
<1> QED BY <1>12, <1>13, <1>14

LEMMA ShortEnds ==
  ASSUME Core(flash, fd, call, file, view), RunsOut
  PROVE  Ended /\ call.op \in {"append", "modify", "truncate"} /\ calls' = calls
<1>1. CASE AppendIndexShort \/ AppendShort
  BY <1>1, AppendIndexEnds, AppendEnds
<1>2. CASE ModifyIndexShort \/ ModifyShort
  BY <1>2, ModifyEnds
<1>3. CASE TruncateIndexShort \/ TruncateShort \/ TruncateFinishShort
  BY <1>3, TruncateEnds
<1> QED BY <1>1, <1>2, <1>3 DEF RunsOut
-----------------------------------------------------------------------------
(* What the invariant says.                                                *)
LEMMA TypesFollow ==
  ASSUME IInv
  PROVE  TypeOK
<1>0. CASE short # "none"
  <2>1. Typed /\ calls \in 0 .. CallCap /\ short \in {"none", "append", "modify", "truncate"}
    BY <1>0 DEF IInv
  <2>2. call.op = "none"
    BY <2>1, NoCallIs DEF Typed
  <2> QED BY <2>1, <2>2 DEF Typed, TypeOK, Target
<1> SUFFICES ASSUME short = "none" PROVE TypeOK
  BY <1>0
<1>1. /\ FlashOK(flash) /\ FdOK(flash, fd) /\ CallOK(flash, fd, call, file, view)
      /\ calls \in 0 .. CallCap
  BY CoreIs DEF IInv
<1>2. \A p \in Page : flash[p].kind \in {"free", "deleted", "data", "index"}
  BY <1>1, KindIs DEF FlashOK
<1>3. \A f \in Fd : /\ fd[f].size \in 0 .. UNDEFINED_LEN /\ fd[f].pos \in 0 .. MaxSize
                    /\ {fd[f].hdr, fd[f].cpix} \subseteq Page \cup {NoPage}
  BY <1>1 DEF FdOK, Descriptors, Target
<1>4. call.op \in {"none", "create", "append", "modify", "truncate"}
  BY <1>1, NoCallIs DEF CallOK, Locals
<1> QED BY <1>1, <1>2, <1>3, <1>4 DEF TypeOK

LEMMA IdleLaid ==
  ASSUME NEW o, Core(flash, fd, call, file, view), Idle, o \in Obj
  PROVE  /\ FlashOK(flash) /\ FdOK(flash, fd) /\ Exist(flash, file) /\ SizesAre(flash, fd, file)
         /\ Laid(flash, Table(flash, NoCall, o), o, file[o].bytes)
         /\ \A k \in Nat : Find(flash, o, k) # NoPage =>
              k = 0 \/ \E s \in Entries(k) : First(s) < Len(file[o].bytes)
         /\ \A s \in Spans : Table(flash, NoCall, o)[s] = Ref(flash, o, s)
         /\ file[o].bytes \in Seq(Val) /\ Len(file[o].bytes) \in 0 .. MaxSize
<1>1. Core(flash, fd, NoCall, file, view)
  BY DEF Idle
<1>2. /\ FlashOK(flash) /\ FdOK(flash, fd) /\ Exist(flash, file) /\ Layout(flash, NoCall, file)
      /\ SizesAre(flash, fd, file)
  BY <1>1, IdleIs
<1>3. \A u : Current(NoCall, file, u) = file[u].bytes
  BY NoCallIs, CurrentOut
<1>4. Laid(flash, Table(flash, NoCall, o), o, file[o].bytes)
  BY <1>2, <1>3 DEF Layout
<1>5. ASSUME NEW k \in Nat, Find(flash, o, k) # NoPage
      PROVE  k = 0 \/ \E s \in Entries(k) : First(s) < Len(file[o].bytes)
  <2>1. Bounded(NoCall, file, o, k)
    BY <1>2, <1>5 DEF Layout
  <2>2. k # NoCall.prev
    BY <1>5, NoCallIs
  <2> QED BY <1>3, <2>1, <2>2 DEF Bounded
<1>6. \A s \in Spans : Table(flash, NoCall, o)[s] = Ref(flash, o, s)
  BY NoCallIs, TableOut
<1>7. file[o].bytes \in Seq(Val) /\ Len(file[o].bytes) \in 0 .. MaxSize
  BY <1>2, FileType
<1> QED BY <1>2, <1>4, <1>5, <1>6, <1>7

LEMMA AgreeFollows ==
  ASSUME IInv
  PROVE  DescriptorsAgree
<1> SUFFICES ASSUME Idle, short = "none", NEW f \in Fd, fd[f].open
             PROVE  /\ Exists(fd[f].obj)
                    /\ ReadThrough(f) = file[fd[f].obj].bytes
                    /\ fd[f].pos <= Bytes(fd[f].size)
  BY DEF DescriptorsAgree
<1>1. PICK o, b, R : o = fd[f].obj /\ b = file[o].bytes /\ R = Table(flash, NoCall, o)
  OBVIOUS
<1>2. FlashOK(flash) /\ FdOK(flash, fd) /\ Core(flash, fd, call, file, view)
  BY CoreIs DEF IInv
<1>3. o \in Obj /\ fd[f].hdr = Find(flash, o, 0) /\ Find(flash, o, 0) # NoPage
  BY <1>1, <1>2 DEF FdOK, Descriptors, Knows
<1>4. /\ SizesAre(flash, fd, file) /\ Laid(flash, R, o, b)
      /\ \A s \in Spans : R[s] = Ref(flash, o, s)
      /\ b \in Seq(Val) /\ Len(b) \in 0 .. MaxSize
  BY <1>1, <1>2, <1>3, IdleLaid
<1>5. Bytes(fd[f].size) = Len(b) /\ fd[f].pos <= Len(b)
  BY <1>1, <1>4 DEF SizesAre
<1>6. Exists(fd[f].obj)
  BY <1>1, <1>2, <1>3, ExistsIs
<1>7. PICK n : n = Len(b)
  OBVIOUS
<1>8. n \in Nat
  BY <1>4, <1>7
<1>9. ASSUME NEW i \in 1 .. n
      PROVE  LET s == DataSpan(i - 1)
                 k == IxSpan(s)
                 p == IF k = 0 THEN fd[f].hdr ELSE IndexFor(Now, f, k)
             IN  (IF IsIndex(flash, p, k) THEN BytesOf(flash, flash[p].ix[s])[(i - 1) % DPS] ELSE Garbled) = b[i]
  <2>1. PICK j, s, k : j = i - 1 /\ s = DataSpan(j) /\ k = IxSpan(s)
    OBVIOUS
  <2>2. j \in Nat /\ j < n /\ j + 1 = i
    BY <1>8, <2>1
  <2>3. PICK p : p = IF k = 0 THEN fd[f].hdr ELSE IndexFor(Now, f, k)
    OBVIOUS
  <2>4. p = Find(flash, o, k)
    <3>1. IndexFor(State(flash, fd), f, k) = Find(flash, fd[f].obj, k)
      BY <1>2, IndexForIs
    <3> QED BY <1>1, <1>3, <2>3, <3>1 DEF Now
  <2>5. /\ Find(flash, o, IxSpan(DataSpan(j))) # NoPage
        /\ BytesOf(flash, flash[Find(flash, o, IxSpan(DataSpan(j)))].ix[DataSpan(j)])[j % DPS] = b[j + 1]
        /\ ByteAt(flash, o, j) = b[j + 1]
    <3>1. DataSpan(j) \in Spans => R[DataSpan(j)] = Ref(flash, o, DataSpan(j))
      BY <1>4
    <3>2. j < Len(b)
      BY <1>7, <2>2
    <3> QED BY <1>2, <1>3, <1>4, <2>2, <3>1, <3>2, ReadIs
  <2>6. IsIndex(flash, p, k)
    BY <1>2, <2>1, <2>4, <2>5, IsIndexFound
  <2>7. BytesOf(flash, flash[p].ix[s])[j % DPS] = b[i]
    BY <2>1, <2>2, <2>4, <2>5
  <2> QED BY <2>1, <2>3, <2>6, <2>7
<1>10. ReadThrough(f) = b
  <2>1. ReadThrough(f) = [i \in 1 .. n |-> b[i]]
    BY <1>5, <1>7, <1>9 DEF ReadThrough
  <2>2. b = [i \in 1 .. n |-> b[i]]
    BY <1>4, <1>7
  <2> QED BY <2>1, <2>2
<1> QED BY <1>1, <1>5, <1>6, <1>10

LEMMA StrayFollows ==
  ASSUME IInv
  PROVE  NothingStray
<1> SUFFICES ASSUME Idle, short = "none", NEW p \in Page, flash[p].kind \in {"data", "index"}
             PROVE  InUse(p)
  BY DEF NothingStray
<1>1. FlashOK(flash) /\ Core(flash, fd, call, file, view)
  BY CoreIs DEF IInv
<1>2. PICK o, s : o = flash[p].obj /\ s = flash[p].span
  OBVIOUS
<1>3. /\ o \in Obj /\ s \in Nat
      /\ flash[p].kind = "data" => s \in Spans
  <2>1. flash[p] \in Pages
    BY <1>1 DEF FlashOK
  <2>2. CASE flash[p].kind = "data"
    BY <1>2, <2>1, <2>2, KindIs, DataFields, SpansType
  <2>3. CASE flash[p].kind = "index"
    BY <1>2, <2>1, <2>3, KindIs, IxFields
  <2> QED BY <2>2, <2>3
<1>4. PICK h, b, R : h = Find(flash, o, 0) /\ b = file[o].bytes /\ R = Table(flash, NoCall, o)
  OBVIOUS
<1>5. /\ SizesAre(flash, fd, file) /\ Laid(flash, R, o, b) /\ Exist(flash, file)
      /\ \A k \in Nat : Find(flash, o, k) # NoPage => k = 0 \/ \E t \in Entries(k) : First(t) < Len(b)
      /\ \A t \in Spans : R[t] = Ref(flash, o, t)
      /\ b \in Seq(Val) /\ Len(b) \in 0 .. MaxSize
  BY <1>1, <1>3, <1>4, IdleLaid
<1>6. PICK n : n = Len(b)
  OBVIOUS
<1>7. n \in Nat
  BY <1>5, <1>6
<1>8. n > 0 => h # NoPage
  <2>1. ~file[o].exists => Len(b) = 0
    <3>1. Len(<<>>) = 0
      OBVIOUS
    <3> QED BY <1>3, <1>4, <1>5, <3>1 DEF Exist
  <2> QED BY <1>3, <1>4, <1>5, <1>6, <2>1 DEF Exist
<1>9. h # NoPage => Bytes(flash[h].size) = n
  BY <1>3, <1>4, <1>5, <1>6 DEF Exist, SizesAre, HSize
<1>10. ASSUME flash[p].kind = "index"
       PROVE  /\ h # NoPage /\ IndexPages(flash, o, s) = {p}
              /\ s = 0 \/ (n > 0 /\ s <= IxSpan(DataSpan(n - 1)))
  <2>1. Find(flash, o, s) = p /\ p # NoPage
    BY <1>1, <1>2, <1>10, FindIs, PageType
  <2>2. IndexPages(flash, o, s) = {p}
    BY <1>1, <1>2, <1>10 DEF IndexPages, FlashOK
  <2>3. CASE s = 0
    BY <1>4, <2>1, <2>2, <2>3
  <2>4. CASE s # 0
    <3>1. PICK t \in Entries(s) : First(t) < n
      BY <1>3, <1>5, <1>6, <2>1, <2>4
    <3>2. t \in Nat /\ IxSpan(t) = s /\ First(t) \in Nat
      BY SpansType, FirstType DEF Entries
    <3>3. n > 0 /\ n \in Nat \ {0}
      BY <1>7, <3>1, <3>2
    <3>4. t <= DataSpan(n - 1)
      BY <3>1, <3>2, <3>3, Within
    <3>5. DataSpan(n - 1) \in Nat
      <4>1. n - 1 \in Nat
        BY <3>3
      <4> QED BY <4>1, SpanOf
    <3>6. IxSpan(t) <= IxSpan(DataSpan(n - 1))
      BY <3>2, <3>4, <3>5, IxSpansRise
    <3> QED BY <1>8, <2>2, <3>2, <3>3, <3>6
  <2> QED BY <2>3, <2>4
<1>11. ASSUME flash[p].kind = "data"
       PROVE  /\ h # NoPage /\ s * DPS < n
              /\ \E i \in Page : IsIndex(flash, i, IxSpan(s)) /\ flash[i].obj = o /\ flash[i].ix[s] = p
  <2>1. R[s] = p
    BY <1>2, <1>5, <1>11 DEF Laid
  <2>2. p # NoPage /\ s \in Spans
    BY <1>3, <1>11, PageType
  <2>3. First(s) < n
    BY <1>5, <1>6, <2>1, <2>2 DEF Laid
  <2>4. s * DPS < n
    BY <2>3 DEF First
  <2>5. First(s) \in Nat
    BY <1>3, FirstType
  <2>6. n > 0
    BY <1>7, <2>3, <2>5
  <2>7. Ref(flash, o, s) = p
    BY <1>5, <2>1, <2>2
  <2>8. PICK i : i = Find(flash, o, IxSpan(s))
    OBVIOUS
  <2>9. i # NoPage /\ flash[i].ix[s] = p
    BY <2>2, <2>7, <2>8 DEF Ref
  <2>10. i \in Page /\ flash[i].obj = o
    BY <1>1, <2>8, <2>9, FindIs
  <2>11. IsIndex(flash, i, IxSpan(s))
    BY <1>1, <2>8, <2>9, IsIndexFound
  <2> QED BY <1>8, <2>4, <2>6, <2>9, <2>10, <2>11
<1>12. CASE flash[p].kind = "index"
  BY <1>2, <1>4, <1>9, <1>10, <1>12 DEF InUse
<1>13. CASE flash[p].kind = "data"
  BY <1>2, <1>4, <1>9, <1>11, <1>13 DEF InUse
<1> QED BY <1>12, <1>13

(* The bytes of a file before an append, as flash has them.                *)
LEMMA FrontIs ==
  ASSUME NEW a, NEW g, NEW n, NEW m, a \in Seq(Val), Len(a) = n, n \in Nat, m \in Nat, n <= m,
         g = [i \in 1 .. m |-> g[i]], \A i \in 1 .. n : g[i] = a[i]
  PROVE  Len(g) = m /\ SubSeq(g, 1, n) = a
<1>1. PICK S : S = {g[i] : i \in 1 .. m}
  OBVIOUS
<1>2. g \in [1 .. m -> S]
  BY <1>1
<1>3. g \in Seq(S) /\ Len(g) = m
  BY <1>2, SeqIs
<1>4. SubSeq(g, 1, n) = [i \in 1 .. n |-> g[i]]
  BY <1>3
<1>5. a = [i \in 1 .. n |-> a[i]]
  OBVIOUS
<1> QED BY <1>3, <1>4, <1>5

LEMMA AddsFollows ==
  ASSUME IInv
  PROVE  AppendOnlyAdds
<1> SUFFICES ASSUME call.op = "append", call.start = call.offset
             PROVE  LET old == file[call.obj].bytes
                        now == Content(flash, call.obj).bytes
                    IN  Len(old) <= Len(now) /\ SubSeq(now, 1, Len(old)) = old
  BY DEF AppendOnlyAdds
<1>1. Core(flash, fd, call, file, view)
  <2>1. call # NoCall
    BY NoCallIs
  <2> QED BY <2>1 DEF IInv, Typed
<1>2. /\ FlashOK(flash) /\ FdOK(flash, fd) /\ Exist(flash, file) /\ Layout(flash, call, file)
      /\ CallOK(flash, fd, call, file, view)
  BY <1>1, CoreIs
<1>3. call # NoCall
  BY NoCallIs
<1>4. /\ call.obj \in Obj /\ call.val \in Val /\ call.start \in Nat /\ call.offset \in Nat
      /\ call.written \in Nat /\ call.offset = Len(file[call.obj].bytes)
  BY <1>1, WriteIs
<1>5. Appending(flash, fd, call, file, view)
  BY <1>2, <1>3, CallIs
<1>6. Find(flash, call.obj, 0) # NoPage
  BY <1>1, <1>3, CallsFd
<1>7. PICK o, a, b, R, n, m : /\ o = call.obj /\ a = file[o].bytes /\ b = Current(call, file, o)
                              /\ R = Table(flash, call, o) /\ n = Len(a) /\ m = Bytes(HSize(flash, o))
  OBVIOUS
<1>8. a \in Seq(Val) /\ Len(a) \in 0 .. MaxSize
  BY <1>2, <1>4, <1>7, FileType
<1>9. n \in Nat /\ n = call.offset
  BY <1>4, <1>7, <1>8
<1>10. m \in Nat /\ n <= m
  <2>1. n <= m
    BY <1>5, <1>7, <1>9 DEF Appending
  <2>2. flash[Find(flash, o, 0)].size \in 0 .. UNDEFINED_LEN
    BY <1>2, <1>6, <1>7, FindIs, IxFields, SizesType
  <2>3. m \in 0 .. MaxSize
    BY <1>7, <2>2, BytesType DEF HSize
  <2> QED BY <2>1, <2>3
<1>11. PICK g : g = [i \in 1 .. m |-> ByteAt(flash, o, i - 1)]
  OBVIOUS
<1>12. Content(flash, call.obj).bytes = g
  BY <1>6, <1>7, <1>11 DEF Content, Promise!Holding, HSize
<1>13. Len(b) \in 0 .. MaxSize /\ n <= Len(b) /\ \A i \in 1 .. n : b[i] = a[i]
  <2>1. b = Spliced(a, call.start, (call.offset + call.written) - call.start, call.val)
    BY <1>7 DEF Current
  <2>2. PICK x, w : x = call.start /\ w = call.written
    OBVIOUS
  <2>3. (call.offset + call.written) - call.start = w
    BY <1>4, <2>2
  <2>4. b = Spliced(a, x, w, call.val) /\ x = n /\ x \in Nat /\ w \in Nat
    BY <1>4, <1>9, <2>1, <2>2, <2>3
  <2>5. /\ Len(b) = IF x + w > Len(a) THEN x + w ELSE Len(a)
        /\ \A i \in 1 .. Len(b) : b[i] = IF x < i /\ i <= x + w THEN call.val ELSE a[i]
    <3>1. x <= Len(a)
      BY <1>7, <1>9, <2>4
    <3> QED BY <1>4, <1>8, <2>4, <3>1, SplicedIs
  <2>6. n <= Len(b)
    BY <1>7, <1>9, <2>4, <2>5
  <2>7. Len(b) \in 0 .. MaxSize
    BY <1>1, <1>4, <1>7, CurrentIs
  <2>8. ASSUME NEW i \in 1 .. n PROVE b[i] = a[i]
    <3>1. i \in 1 .. Len(b) /\ ~(x < i)
      BY <1>9, <2>4, <2>6, <2>7
    <3> QED BY <2>5, <3>1
  <2> QED BY <2>6, <2>7, <2>8
<1>14. ASSUME NEW j \in Nat, j < n PROVE ByteAt(flash, o, j) = b[j + 1]
  <2>1. PICK s : s = DataSpan(j)
    OBVIOUS
  <2>2. j \in Nat /\ j < n
    BY <1>14
  <2>3. s \in Nat /\ First(s) <= j /\ First(s) \in Nat
    <3>1. s \in Nat /\ First(s) \in Nat /\ j = First(s) + (j % DPS) /\ j % DPS \in 0 .. DPS - 1
      BY <2>1, <2>2, SpanOf
    <3>2. PICK x, y : x = First(s) /\ y = j % DPS
      OBVIOUS
    <3>3. x \in Nat /\ y \in Nat /\ j = x + y
      BY <3>1, <3>2, ObjectsAssumption
    <3> QED BY <3>1, <3>2, <3>3
  <2>4. First(s) < call.offset
    BY <1>9, <2>2, <2>3
  <2>5. ASSUME NEW t \in Spans, t = s PROVE R[t] = Ref(flash, o, t)
    <3>1. R[t] = IF IxSpan(t) = call.prev THEN call.work.ix[t] ELSE Ref(flash, o, t)
      BY <1>7, TableType
    <3>2. CASE IxSpan(t) = call.prev
      <4>1. t \in Entries(call.prev) /\ call.prev # -1
        <5>1. IxSpan(t) \in Nat
          BY <2>3, <2>5, IxSpanType
        <5> QED BY <3>2, <5>1 DEF Entries
      <4>2. flash[call.pix].ix[t] = call.work.ix[t]
        BY <1>5, <2>4, <2>5, <4>1 DEF Appending
      <4>3. HoldsWork(flash, call)
        BY <1>2, <1>3, <4>1, CallIs
      <4>4. Ref(flash, o, t) = flash[call.pix].ix[t]
        BY <1>7, <3>2, <4>3 DEF Ref, HoldsWork
      <4> QED BY <3>1, <3>2, <4>2, <4>4
    <3>3. CASE IxSpan(t) # call.prev
      BY <3>1, <3>3
    <3> QED BY <3>2, <3>3
  <2>6. ByteAt(flash, o, j) = b[j + 1]
    <3>1. DataSpan(j) \in Spans => R[DataSpan(j)] = Ref(flash, o, DataSpan(j))
      BY <2>1, <2>5
    <3>2. j < Len(b)
      BY <1>9, <1>13, <2>2
    <3>3. Laid(flash, R, o, b)
      BY <1>2, <1>4, <1>7 DEF Layout
    <3>4. FlashOK(flash) /\ o \in Obj /\ Len(b) \in 0 .. MaxSize /\ j \in Nat
      BY <1>2, <1>4, <1>7, <1>13, <2>2
    <3>5. ByteAt(flash, o, j) = b[j + 1]
      BY <3>1, <3>2, <3>3, <3>4, ReadIs
    <3> QED BY <3>5
  <2> QED BY <2>6
<1>15. ASSUME NEW i \in 1 .. n PROVE g[i] = a[i]
  <2>1. PICK j : j = i - 1
    OBVIOUS
  <2>2. j \in Nat /\ j < n /\ j + 1 = i /\ i \in 1 .. m
    BY <1>9, <1>10, <2>1
  <2>3. ByteAt(flash, o, j) = b[j + 1]
    BY <1>14, <2>2
  <2>4. g[i] = ByteAt(flash, o, j)
    BY <1>11, <2>1, <2>2
  <2> QED BY <1>13, <2>2, <2>3, <2>4
<1>16. Len(g) = m /\ SubSeq(g, 1, n) = a
  <2>1. g = [i \in 1 .. m |-> g[i]]
    BY <1>11
  <2>2. \A i \in 1 .. n : g[i] = a[i]
    BY <1>15
  <2>3. a \in Seq(Val) /\ Len(a) = n /\ n \in Nat /\ m \in Nat /\ n <= m
    BY <1>7, <1>8, <1>9, <1>10
  <2> QED BY <2>1, <2>2, <2>3, FrontIs
<1> QED BY <1>7, <1>10, <1>12, <1>16

LEMMA RestFollows ==
  ASSUME IInv
  PROVE  BytesAsWritten /\ OneIndexPage
<1>1. short = "none" => FlashOK(flash) /\ Exist(flash, file)
  BY CoreIs DEF IInv
<1>2. BytesAsWritten
  <2>1. CASE short = "none"
    <3>1. \A o \in Obj : file[o].bytes \in Seq(Val)
      BY <1>1, <2>1, FileType
    <3> QED BY <3>1 DEF BytesAsWritten
  <2>2. CASE short # "none"
    BY <2>2 DEF IInv, Typed, BytesAsWritten
  <2> QED BY <2>1, <2>2
<1>3. OneIndexPage
  BY <1>1 DEF FlashOK, OneIndexPage, IndexPages
<1> QED BY <1>2, <1>3


-----------------------------------------------------------------------------
(* The theorems.                                                           *)

LEMMA OnlyOnce ==
  ASSUME RunsOut
  PROVE  short = "none"
<1>1. \E st : RunOut(st)
  <2>1. CASE AppendIndexShort
    BY <2>1 DEF AppendIndexShort
  <2>2. CASE AppendShort
    BY <2>2, Zenon DEF AppendShort
  <2>3. CASE ModifyIndexShort \/ TruncateIndexShort \/ TruncateShort
    BY <2>3 DEF ModifyIndexShort, TruncateIndexShort, TruncateShort
  <2>4. CASE ModifyShort
    BY <2>4, Zenon DEF ModifyShort
  <2>5. CASE TruncateFinishShort
    BY <2>5 DEF TruncateFinishShort
  <2> QED BY <2>1, <2>2, <2>3, <2>4, <2>5 DEF RunsOut
<1> QED BY <1>1 DEF RunOut

LEMMA Inductive ==
  ASSUME Cuts \subseteq {"clean"}, IInv, [Next]_vars
  PROVE  IInv'
<1>1. CASE UNCHANGED vars
  BY <1>1 DEF IInv, Typed, vars
<1>2. CASE short = "none" /\ Step /\ Record /\ UNCHANGED short
  <2>1. Core(flash', fd', call', file', view')
    BY <1>2, CoreKept DEF IInv
  <2>2. calls' \in 0 .. CallCap
    <3>1. calls \in 0 .. CallCap
      BY DEF IInv
    <3>2. Counted
      BY <1>2, <3>1, StepCounts
    <3> QED BY <3>1, <3>2, ObjectsAssumption DEF Counted
  <2> QED BY <1>2, <2>1, <2>2 DEF IInv
<1>3. CASE RunsOut
  <2>1. Core(flash, fd, call, file, view) /\ calls \in 0 .. CallCap
    BY <1>3, OnlyOnce DEF IInv
  <2>2. /\ Typed' /\ short' \in {"append", "modify", "truncate"} /\ calls' = calls
    BY <1>3, <2>1, ShortEnds DEF Ended
  <2> QED BY <2>1, <2>2 DEF IInv
<1> QED BY <1>1, <1>2, <1>3 DEF Next

(* While files are cut only where the code handles it, flash, descriptors, *)
(* call and history agree in every state until a call runs out of pages    *)
(* midway, and keep their types from then on.                              *)
THEOREM Invariant ==
  ASSUME Cuts \subseteq {"clean"}
  PROVE  Spec => []IInv
<1>1. Init => IInv
  BY Begun DEF IInv
<1>2. IInv /\ [Next]_vars => IInv'
  BY Inductive
<1> QED BY <1>1, <1>2, PTL DEF Spec

(* Pages, descriptors and the call in progress keep their types.           *)
THEOREM TypeCorrect ==
  ASSUME Cuts \subseteq {"clean"}
  PROVE  Spec => []TypeOK
<1>1. IInv => TypeOK
  BY TypesFollow
<1> QED BY <1>1, Invariant, PTL

(* Whatever calls, collections and events came before, every open          *)
(* descriptor has the header page, the size and the cursor's index page    *)
(* that spiffs_object_read needs to read what the flash holds of the file. *)
THEOREM DescriptorsKept ==
  ASSUME Cuts \subseteq {"clean"}
  PROVE  Spec => []DescriptorsAgree
<1>1. IInv => DescriptorsAgree
  BY AgreeFollows
<1> QED BY <1>1, Invariant, PTL

(* Between calls every page in use belongs to a file and lies within it.   *)
(* No call that returned before one ran out of pages midway left a page    *)
(* behind: those that were refused as they began are among them, cuts of   *)
(* the kinds "short" and "edge" are not.                                   *)
THEOREM StrayNone ==
  ASSUME Cuts \subseteq {"clean"}
  PROVE  Spec => []NothingStray
<1>1. IInv => NothingStray
  BY StrayFollows
<1> QED BY <1>1, Invariant, PTL

(* In every state of an append at the end of a file the bytes from before  *)
(* it are there: a power loss then costs none of them.                     *)
THEOREM AppendKeeps ==
  ASSUME Cuts \subseteq {"clean"}
  PROVE  Spec => []AppendOnlyAdds
<1>1. IInv => AppendOnlyAdds
  BY AddsFollows
<1> QED BY <1>1, Invariant, PTL

(* Between calls every byte of a file is one that was written, and a file  *)
(* has no two index pages of the same span.                                *)
THEOREM FilesRead ==
  ASSUME Cuts \subseteq {"clean"}
  PROVE  Spec => [](BytesAsWritten /\ OneIndexPage)
<1>1. IInv => BytesAsWritten /\ OneIndexPage
  BY RestFollows
<1> QED BY <1>1, Invariant, PTL

-----------------------------------------------------------------------------
(* Every call does what Files promises, when it returns.                   *)

LEMMA Effect ==
  ASSUME NEW W, Returned(W), Record
  PROVE  file' = W /\ view' = ViewsOf(fd')
<1>1. PICK V : V = ViewsOf(fd')
  OBVIOUS
<1>2. call' = NoCall /\ Core(flash', fd', call', W, V)
  BY <1>1 DEF Returned
<1>3. IF call' = NoCall THEN V = ViewsOf(fd') ELSE W = file /\ V = view
  BY <1>1, <1>2
<1> QED BY <1>1, <1>2, <1>3, Recorded

LEMMA NoEffect ==
  ASSUME Continues, Record
  PROVE  file' = file /\ view' = view
<1>1. Core(flash', fd', call', file, view) /\ call' # NoCall
  BY DEF Continues
<1> QED BY <1>1, Recorded

(* What a step does, as a step of Files.                                   *)
Promised == Promise!Next \/ (file' = file /\ view' = view)

LEMMA PlaceIs ==
  ASSUME NEW o, NEW n
  PROVE  /\ Promise!At(o, n).open /\ Promise!At(o, n).obj = o /\ Promise!At(o, n).pos = n
         /\ ~Promise!Closed.open
         /\ \A m : [Promise!At(o, n) EXCEPT !.pos = m] = Promise!At(o, m)
<1>1. Promise!At(o, n).open /\ Promise!At(o, n).obj = o /\ Promise!At(o, n).pos = n
  BY DEF Promise!At
<1>2. ~Promise!Closed.open
  BY DEF Promise!Closed
<1>3. ASSUME NEW m PROVE [Promise!At(o, n) EXCEPT !.pos = m] = Promise!At(o, m)
  <2>1. PICK r, q : r = Promise!At(o, n) /\ q = Promise!At(o, m)
    OBVIOUS
  <2>2. r \in [open : BOOLEAN, obj : {o}, pos : {n}] /\ r.open
    BY <2>1 DEF Promise!At
  <2>3. q \in [open : BOOLEAN, obj : {o}, pos : {m}] /\ q.open
    BY <2>1 DEF Promise!At
  <2>4. [r EXCEPT !.pos = m] = q
    BY <2>2, <2>3
  <2> QED BY <2>1, <2>4
<1> QED BY <1>1, <1>2, <1>3

LEMMA ViewIs ==
  ASSUME NEW d
  PROVE  /\ d.open => /\ View(d) = Promise!At(d.obj, d.pos)
                      /\ View(d).open /\ View(d).obj = d.obj /\ View(d).pos = d.pos
         /\ ~d.open => View(d) = Promise!Closed /\ ~View(d).open
BY PlaceIs DEF View

LEMMA ViewType ==
  ASSUME NEW fl, NEW fds, NEW c, NEW fi, NEW vw, Core(fl, fds, c, fi, vw)
  PROVE  vw = [g \in Fd |-> vw[g]]
<1>1. vw \in [Fd -> [open : BOOLEAN, obj : Obj, pos : 0 .. MaxSize]]
  BY CoreIs DEF Views
<1> QED BY <1>1

(* One descriptor is shown elsewhere.                                      *)
LEMMA ViewPut ==
  ASSUME NEW vw, NEW fds2, NEW f, NEW w, f \in Fd, vw = [g \in Fd |-> vw[g]], View(fds2[f]) = w,
         \A g \in Fd : g # f => View(fds2[g]) = vw[g]
  PROVE  ViewsOf(fds2) = [vw EXCEPT ![f] = w]
<1>1. PICK a : a = ViewsOf(fds2)
  OBVIOUS
<1>2. a = [g \in Fd |-> View(fds2[g])]
  BY <1>1 DEF ViewsOf
<1>3. PICK b : b = [vw EXCEPT ![f] = w]
  OBVIOUS
<1>4. b = [g \in Fd |-> IF g = f THEN w ELSE vw[g]]
  BY <1>3
<1>5. \A g \in Fd : View(fds2[g]) = IF g = f THEN w ELSE vw[g]
  OBVIOUS
<1>6. a = b
  BY <1>2, <1>4, <1>5
<1> QED BY <1>1, <1>3, <1>6

(* Between calls.                                                          *)
LEMMA IdleView ==
  ASSUME NEW g, g \in Fd, Core(flash, fd, NoCall, file, view)
  PROVE  view[g] = View(fd[g])
<1>1. view = ViewsOf(fd)
  BY IdleIs
<1> QED BY <1>1 DEF ViewsOf

LEMMA OpenPromised ==
  ASSUME NEW f, NEW o, f \in Fd, o \in Obj, Core(flash, fd, call, file, view), Open(f, o),
         file' = file, view' = ViewsOf(fd')
  PROVE  Promise!Open(f, o)
<1> DEFINE d == Opened(flash, o, Find(flash, o, 0))
<1>1. call = NoCall /\ ~fd[f].open /\ Exists(o) /\ fd' = [fd EXCEPT ![f] = d]
  BY DEF Open, Idle
<1>2. Core(flash, fd, NoCall, file, view)
  BY <1>1
<1>3. FlashOK(flash) /\ FdOK(flash, fd) /\ Exist(flash, file)
  BY <1>2, IdleIs
<1>4. file[o].exists
  BY <1>1, <1>3, ExistsIs DEF Exist
<1>5. d.open /\ d.obj = o /\ d.pos = 0
  BY DEF Opened
<1> HIDE DEF d
<1>6. fd'[f] = d /\ \A g \in Fd : g # f => fd'[g] = fd[g]
  BY <1>1, <1>3 DEF FdOK
<1>7. ~view[f].open
  BY <1>1, <1>2, IdleView, ViewIs
<1>8. View(fd'[f]) = Promise!At(o, 0)
  BY <1>5, <1>6, ViewIs
<1>9. \A g \in Fd : g # f => View(fd'[g]) = view[g]
  BY <1>2, <1>6, IdleView
<1>10. view' = [view EXCEPT ![f] = Promise!At(o, 0)]
  BY <1>8, <1>9, ViewPut, ViewType
<1> QED BY <1>4, <1>7, <1>10 DEF Promise!Open

LEMMA ClosePromised ==
  ASSUME NEW f, f \in Fd, Core(flash, fd, call, file, view), Close(f),
         file' = file, view' = ViewsOf(fd')
  PROVE  Promise!Close(f)
<1>1. call = NoCall /\ fd[f].open /\ fd' = [fd EXCEPT ![f] = Closed]
  BY DEF Close, Idle
<1>2. Core(flash, fd, NoCall, file, view)
  BY <1>1
<1>3. FdOK(flash, fd)
  BY <1>2, IdleIs
<1>4. fd'[f] = Closed /\ \A g \in Fd : g # f => fd'[g] = fd[g]
  BY <1>1, <1>3 DEF FdOK
<1>5. view[f].open
  BY <1>1, <1>2, IdleView, ViewIs
<1>6. View(fd'[f]) = Promise!Closed
  BY <1>4, ClosedIs, ViewIs
<1>7. \A g \in Fd : g # f => View(fd'[g]) = view[g]
  BY <1>2, <1>4, IdleView
<1>8. view' = [view EXCEPT ![f] = Promise!Closed]
  BY <1>6, <1>7, ViewPut, ViewType
<1> QED BY <1>5, <1>8 DEF Promise!Close

(* A position changes, in the eyes of Files.                               *)
LEMMA ViewMoves ==
  ASSUME NEW vw, NEW fds, NEW fds2, NEW f, NEW n, f \in Fd, vw = [g \in Fd |-> vw[g]],
         fds[f].open, vw[f] = Promise!At(fds[f].obj, vw[f].pos),
         \A g \in Fd : g # f => vw[g] = View(fds[g]), Repositioned(fds, fds2, f, n)
  PROVE  ViewsOf(fds2) = [vw EXCEPT ![f].pos = n]
<1>1. \A g \in Fd : /\ fds2[g].open = fds[g].open /\ fds2[g].obj = fds[g].obj
                    /\ fds2[g].pos = IF g = f THEN n ELSE fds[g].pos
  BY DEF Repositioned
<1>2. PICK w : w = Promise!At(fds[f].obj, n)
  OBVIOUS
<1>3. View(fds2[f]) = w
  BY <1>1, <1>2, ViewIs
<1>4. ASSUME NEW g \in Fd, g # f PROVE View(fds2[g]) = vw[g]
  <2>1. View(fds2[g]) = View(fds[g])
    BY <1>1, <1>4 DEF View
  <2> QED BY <1>4, <2>1
<1>5. ViewsOf(fds2) = [vw EXCEPT ![f] = w]
  BY <1>3, <1>4, ViewPut
<1>6. [vw[f] EXCEPT !.pos = n] = w
  BY <1>2, PlaceIs
<1>7. [vw EXCEPT ![f].pos = n] = [vw EXCEPT ![f] = [vw[f] EXCEPT !.pos = n]]
  OBVIOUS
<1> QED BY <1>5, <1>6, <1>7

LEMMA GoPromised ==
  ASSUME NEW f, NEW n, f \in Fd, n \in Nat, Core(flash, fd, NoCall, file, view), fd[f].open,
         n <= Bytes(fd[f].size), Repositioned(fd, fd', f, n), file' = file, view' = ViewsOf(fd')
  PROVE  Promise!GoTo(f, n) /\ n \in 0 .. Promise!Size(view[f].obj) /\ view[f].open
<1>1. FdOK(flash, fd) /\ SizesAre(flash, fd, file) /\ Exist(flash, file)
  BY IdleIs
<1>2. view[f].open /\ view[f].obj = fd[f].obj /\ view[f].pos = fd[f].pos
      /\ view[f] = Promise!At(fd[f].obj, fd[f].pos)
  BY IdleView, ViewIs
<1>3. \A g \in Fd : view[g] = View(fd[g])
  BY IdleView
<1>4. view' = [view EXCEPT ![f].pos = n]
  BY <1>2, <1>3, ViewMoves, ViewType
<1>5. n \in 0 .. Promise!Size(view[f].obj)
  <2>1. Bytes(fd[f].size) = Len(file[fd[f].obj].bytes)
    BY <1>1 DEF SizesAre
  <2>2. PICK m : m = Len(file[fd[f].obj].bytes)
    OBVIOUS
  <2>3. fd[f].obj \in Obj
    BY <1>1 DEF FdOK, Descriptors
  <2>4. m \in 0 .. MaxSize
    BY <1>1, <2>2, <2>3, FileType
  <2>5. Promise!Size(view[f].obj) = m
    BY <1>2, <2>2 DEF Promise!Size
  <2>6. n <= m
    BY <2>1, <2>2
  <2> QED BY <2>4, <2>5, <2>6
<1> QED BY <1>2, <1>4, <1>5 DEF Promise!GoTo

(* A write.                                                                *)
LEMMA WriteView ==
  ASSUME Core(flash, fd, call, file, view), call.op \in {"append", "modify"}
  PROVE  /\ call.fd \in Fd /\ call.obj \in Obj /\ call.val \in Val /\ call # NoCall
         /\ view[call.fd] = Promise!At(call.obj, view[call.fd].pos)
         /\ view[call.fd].open /\ view[call.fd].obj = call.obj
         /\ fd[call.fd].open /\ fd[call.fd].obj = call.obj /\ fd[call.fd].pos = call.start
         /\ \A g \in Fd : g # call.fd => view[g] = View(fd[g])
         /\ call.start = Promise!WritePlace(call.fd)
<1>1. Views(fd, call, file, view)
  BY CoreIs
<1>2. call # NoCall
  BY NoCallIs
<1>3. /\ call.fd \in Fd /\ call.obj \in Obj /\ call.val \in Val /\ WritesOn(flash, fd, call, file, view)
  BY WriteIs
<1>4. /\ ~call.temp /\ fd[call.fd].open /\ fd[call.fd].obj = call.obj /\ fd[call.fd].pos = call.start
      /\ view[call.fd].open /\ view[call.fd].obj = call.obj
      /\ call.start = IF call.fd \in Appends THEN Len(file[call.obj].bytes) ELSE view[call.fd].pos
  BY <1>3 DEF WritesOn
<1>5. \A g \in Fd : Seen(call, g, fd[g], view[g])
  BY <1>1 DEF Views
<1>6. view[call.fd] = Promise!At(call.obj, view[call.fd].pos)
  BY <1>3, <1>4, <1>5 DEF Seen, Writing
<1>7. \A g \in Fd : g # call.fd => view[g] = View(fd[g])
  BY <1>4, <1>5 DEF Seen, Writing
<1>8. call.start = Promise!WritePlace(call.fd)
  BY <1>4 DEF Promise!WritePlace, Promise!Size
<1> QED BY <1>2, <1>3, <1>4, <1>6, <1>7, <1>8

LEMMA WriteMoves ==
  ASSUME NEW n, Core(flash, fd, call, file, view), call.op \in {"append", "modify"},
         Repositioned(fd, fd', call.fd, n)
  PROVE  ViewsOf(fd') = [view EXCEPT ![call.fd].pos = n]
<1>1. /\ call.fd \in Fd /\ fd[call.fd].open /\ fd[call.fd].obj = call.obj
      /\ view[call.fd] = Promise!At(call.obj, view[call.fd].pos)
      /\ \A g \in Fd : g # call.fd => view[g] = View(fd[g])
  BY WriteView
<1> QED BY <1>1, ViewMoves, ViewType

LEMMA MaxOfTwo ==
  ASSUME NEW m \in Nat, NEW n \in Nat
  PROVE  Promise!Max({m, n}) = IF n > m THEN n ELSE m
<1> DEFINE x == IF n > m THEN n ELSE m
<1>1. x \in {m, n} /\ \A y \in {m, n} : x >= y
  OBVIOUS
<1>2. \A z \in {m, n} : (\A y \in {m, n} : z >= y) => z = x
  OBVIOUS
<1> HIDE DEF x
<1>3. Promise!Max({m, n}) = x
  BY <1>1, <1>2 DEF Promise!Max
<1> QED BY <1>3 DEF x

LEMMA WrittenIs ==
  ASSUME NEW b, NEW at, NEW n, NEW v, b \in Seq(Val), at \in Nat, n \in Nat
  PROVE  Promise!Written(b, at, n, v) = Spliced(b, at, n, v)
<1>1. Len(b) \in Nat /\ at + n \in Nat
  OBVIOUS
<1>2. Promise!Max({Len(b), at + n}) = IF at + n > Len(b) THEN at + n ELSE Len(b)
  BY <1>1, MaxOfTwo
<1> QED BY <1>2 DEF Promise!Written, Spliced

(* n bytes are written from where the write began.                         *)
LEMMA DoneWrites ==
  ASSUME NEW n, Core(flash, fd, call, file, view), call.op \in {"append", "modify"},
         n = (call.offset + call.written) - call.start
  PROVE  /\ Done(call, file) = [file EXCEPT ![call.obj].bytes = Promise!Written(@, call.start, n, call.val)]
         /\ n \in Nat /\ call.start + n = call.offset + call.written
<1>1. /\ call.obj \in Obj /\ call.start \in Nat /\ call.offset \in Nat /\ call.written \in Nat
      /\ call.start <= call.offset
  BY WriteIs
<1>2. n \in Nat /\ call.start + n = call.offset + call.written
  BY <1>1
<1>3. file[call.obj].bytes \in Seq(Val)
  BY <1>1, CoreIs, FileType
<1>4. Promise!Written(file[call.obj].bytes, call.start, n, call.val)
      = Spliced(file[call.obj].bytes, call.start, n, call.val)
  BY <1>1, <1>2, <1>3, WrittenIs
<1>5. Current(call, file, call.obj) = Spliced(file[call.obj].bytes, call.start, n, call.val)
  BY DEF Current
<1>6. Done(call, file) = [file EXCEPT ![call.obj].bytes = Promise!Written(file[call.obj].bytes, call.start, n, call.val)]
  BY <1>4, <1>5 DEF Done
<1> QED BY <1>2, <1>6

LEMMA WritePromised ==
  ASSUME NEW n, Core(flash, fd, call, file, view), call.op \in {"append", "modify"},
         n = (call.offset + call.written) - call.start, file' = Done(call, file),
         view' = ViewsOf(fd'), Repositioned(fd, fd', call.fd, call.offset + call.written)
  PROVE  Promise!Write(call.fd, n, call.val)
<1>1. /\ view[call.fd].open /\ view[call.fd].obj = call.obj /\ call.start = Promise!WritePlace(call.fd)
  BY WriteView
<1>2. /\ file' = [file EXCEPT ![call.obj].bytes = Promise!Written(@, call.start, n, call.val)]
      /\ call.start + n = call.offset + call.written
  BY DoneWrites
<1>3. view' = [view EXCEPT ![call.fd].pos = call.start + n]
  <2>1. PICK m : m = call.offset + call.written
    OBVIOUS
  <2>2. Repositioned(fd, fd', call.fd, m)
    BY <2>1
  <2>3. ViewsOf(fd') = [view EXCEPT ![call.fd].pos = m]
    BY <2>2, WriteMoves
  <2> QED BY <1>2, <2>1, <2>3
<1> QED BY <1>1, <1>2, <1>3 DEF Promise!Write

LEMMA WriteInNext ==
  ASSUME NEW f, NEW n, NEW v, f \in Fd, n \in Lens, v \in Val, Promise!Write(f, n, v)
  PROVE  Promised
<1>1. Promise!Next
  BY DEF Promise!Next
<1> QED BY <1>1 DEF Promised

LEMMA AppendFinishPromised ==
  ASSUME Core(flash, fd, call, file, view), AppendFinish, Record
  PROVE  Promised
<1>1. call.op = "append" /\ call.step = "run" /\ call.written = call.len
  <2>1. AtEnd("append")
    BY Zenon DEF AppendFinish
  <2> QED BY <2>1 DEF AtEnd, Running
<1>2. /\ call' = NoCall /\ Core(flash', fd', call', Done(call, file), ViewsOf(fd'))
      /\ Repositioned(fd, fd', call.fd, call.offset + call.len)
  BY AppendFinishKeeps
<1>3. PICK W : W = Done(call, file)
  OBVIOUS
<1>4. file' = W /\ view' = ViewsOf(fd')
  BY <1>2, <1>3, Effect DEF Returned
<1>5. PICK n : n = (call.offset + call.written) - call.start
  OBVIOUS
<1>6. Promise!Write(call.fd, n, call.val)
  BY <1>1, <1>2, <1>3, <1>4, <1>5, WritePromised
<1>7. call.fd \in Fd /\ call.val \in Val /\ call # NoCall
  BY <1>1, WriteView
<1>8. n \in Lens
  <2>1. Appending(flash, fd, call, file, view)
    BY <1>1, <1>7, CoreIs, CallIs
  <2> QED BY <1>1, <1>5, <2>1 DEF Appending
<1> QED BY <1>6, <1>7, <1>8, WriteInNext

LEMMA ModifyFinishPromised ==
  ASSUME Core(flash, fd, call, file, view), ModifyFinish, Record
  PROVE  Promised
<1>1. call.op = "modify" /\ call.written = call.len
  <2>1. AtEnd("modify")
    BY Zenon DEF ModifyFinish
  <2> QED BY <2>1 DEF AtEnd, Running
<1>2. CASE call' # NoCall /\ Core(flash', fd', call', file, view)
  BY <1>2, NoEffect DEF Continues, Promised
<1>3. CASE /\ call' = NoCall /\ Core(flash', fd', call', Done(call, file), ViewsOf(fd'))
           /\ call.rest = 0 /\ Repositioned(fd, fd', call.fd, call.offset + call.len)
  <2>3. PICK W : W = Done(call, file)
    OBVIOUS
  <2>4. file' = W /\ view' = ViewsOf(fd')
    BY <1>3, <2>3, Effect DEF Returned
  <2>5. PICK n : n = (call.offset + call.written) - call.start
    OBVIOUS
  <2>6. Promise!Write(call.fd, n, call.val)
    BY <1>1, <1>3, <2>3, <2>4, <2>5, WritePromised
  <2>7. call.fd \in Fd /\ call.val \in Val /\ call # NoCall
    BY <1>1, WriteView
  <2>8. n \in Lens
    <3>1. Modifying(flash, fd, call, file, view)
      BY <1>1, <2>7, CoreIs, CallIs
    <3>2. call.start = call.offset /\ call.len + call.rest \in Lens
      BY <3>1 DEF Modifying
    <3>3. call.offset \in Nat /\ call.len \in Nat
      BY <1>1, WriteIs
    <3>4. n = call.len
      BY <1>1, <2>5, <3>2, <3>3
    <3> QED BY <1>3, <3>2, <3>3, <3>4
  <2> QED BY <2>6, <2>7, <2>8, WriteInNext
<1> QED BY <1>2, <1>3, ModifyFinishKeeps

(* spiffs_gc_check fails: nothing was done, the place of the write was     *)
(* sought, or what lies within the file was written.                       *)
LEMMA WriteFullPromised ==
  ASSUME Core(flash, fd, call, file, view), GcFull, call.op \in {"append", "modify"},
         file' = Done(call, file), view' = ViewsOf(fd')
  PROVE  Promised
<1>1. call.step = "gc" /\ fd' = fd
  <2>1. call.step = "gc" /\ Fail(Now)
    BY DEF GcFull, Checking
  <2>2. ~call.temp
    BY WriteIs DEF WritesOn
  <2>3. Return(Now)
    BY <2>1, <2>2 DEF Fail
  <2> QED BY <2>1, <2>3, StateIs DEF Return, Becomes, Now
<1>2. /\ call.fd \in Fd /\ call.obj \in Obj /\ call.val \in Val /\ call # NoCall
      /\ view[call.fd].open /\ view[call.fd].obj = call.obj
      /\ fd[call.fd].open /\ fd[call.fd].obj = call.obj /\ fd[call.fd].pos = call.start
      /\ call.start = Promise!WritePlace(call.fd)
  BY WriteView
<1>3. /\ call.start \in Nat /\ call.offset \in Nat /\ call.start <= call.offset
      /\ call.offset <= Len(file[call.obj].bytes)
      /\ call.op = "append" => call.offset = Len(file[call.obj].bytes)
      /\ call.op = "modify" => call.start = call.offset
      /\ WritesOn(flash, fd, call, file, view)
  BY WriteIs
<1>4. call.written = 0
  BY <1>1, <1>3 DEF WritesOn
<1>5. Repositioned(fd, fd', call.fd, call.start)
  BY <1>1, <1>2 DEF Repositioned
<1>6. view' = [view EXCEPT ![call.fd].pos = call.start]
  BY <1>5, WriteMoves
<1>7. PICK n : n = (call.offset + call.written) - call.start
  OBVIOUS
<1>8. file' = [file EXCEPT ![call.obj].bytes = Promise!Written(@, call.start, n, call.val)]
  BY <1>7, DoneWrites
<1>9. file[call.obj].bytes \in Seq(Val) /\ Len(file[call.obj].bytes) \in 0 .. MaxSize
  BY <1>2, CoreIs, FileType
<1>10. CASE call.start = call.offset
  <2>1. n = 0
    BY <1>3, <1>4, <1>7, <1>10
  <2>2. file' = file
    <3>1. PICK b : b = file[call.obj].bytes
      OBVIOUS
    <3>2. call.start <= Len(b) /\ b \in Seq(Val)
      BY <1>3, <1>9, <1>10, <3>1
    <3>3. Promise!Written(b, call.start, 0, call.val) = b
      <4>1. Promise!Written(b, call.start, 0, call.val) = Spliced(b, call.start, 0, call.val)
        BY <1>3, <3>2, WrittenIs
      <4>2. Spliced(b, call.start, 0, call.val) = b
        BY <1>3, <3>2, SplicedNone
      <4> QED BY <4>1, <4>2
    <3>4. file' = [file EXCEPT ![call.obj].bytes = b]
      BY <1>8, <2>1, <3>1, <3>3
    <3>5. file \in [Obj -> FilesSet]
      BY CoreIs DEF Exist
    <3> QED BY <1>2, <3>1, <3>4, <3>5 DEF FilesSet
  <2>3. call.start \in 0 .. Promise!Size(view[call.fd].obj)
    BY <1>2, <1>3, <1>9, <1>10 DEF Promise!Size
  <2>4. Promise!GoTo(call.fd, call.start)
    BY <1>2, <1>6, <2>2, <2>3 DEF Promise!GoTo
  <2>5. Promise!Next
    BY <1>2, <2>3, <2>4 DEF Promise!Next
  <2> QED BY <2>5 DEF Promised
<1>11. CASE call.start # call.offset
  <2>1. call.offset = Len(file[call.obj].bytes)
    BY <1>3, <1>11
  <2>2. n = Len(file[call.obj].bytes) - call.start
    BY <1>3, <1>4, <1>7, <2>1
  <2>3. file' = [file EXCEPT ![call.obj].bytes = Promise!Written(@, call.start, Len(@) - call.start, call.val)]
    BY <1>8, <2>2
  <2>4. Promise!WriteWithin(call.fd, call.val)
    BY <1>2, <1>6, <2>3 DEF Promise!WriteWithin
  <2>5. Promise!Next
    BY <1>2, <2>4 DEF Promise!Next
  <2> QED BY <2>5 DEF Promised
<1> QED BY <1>10, <1>11

(* Creation.                                                               *)
LEMMA CreateView ==
  ASSUME Core(flash, fd, call, file, view), call # NoCall, call.op = "create"
  PROVE  /\ call.fd \in Fd /\ call.obj \in Obj /\ ~call.temp /\ ~fd[call.fd].open
         /\ \A g \in Fd : /\ view[g] = View(fd[g])
                          /\ fd[g].open => fd[g].obj # call.obj
<1>1. /\ FdOK(flash, fd) /\ Exist(flash, file) /\ CallOK(flash, fd, call, file, view)
      /\ Views(fd, call, file, view)
  BY CoreIs
<1>2. call.fd \in Fd /\ call.obj \in Obj /\ Creating(fd, call, file)
  BY <1>1, CallIs
<1>3. ~call.temp /\ ~fd[call.fd].open /\ ~file[call.obj].exists
  BY <1>2 DEF Creating
<1>4. \A g \in Fd : view[g] = View(fd[g])
  BY <1>1, <1>3 DEF Views, Seen, Writing
<1>5. \A g \in Fd : fd[g].open => fd[g].obj # call.obj
  BY <1>1, <1>2, <1>3 DEF FdOK, Knows, Exist
<1> QED BY <1>2, <1>3, <1>4, <1>5

LEMMA CreatePromised ==
  ASSUME Core(flash, fd, call, file, view), CreateFinish, Record
  PROVE  Promised
<1> DEFINE f == call.fd
           o == call.obj
<1>1. call.op = "create"
  BY DEF CreateFinish, Running
<1>2. call # NoCall
  BY <1>1, NoCallIs
<1>3. /\ f \in Fd /\ o \in Obj /\ ~fd[f].open
      /\ \A g \in Fd : view[g] = View(fd[g]) /\ (fd[g].open => fd[g].obj # o)
  BY <1>1, <1>2, CreateView
<1>4. PICK d : /\ fd' = [fd EXCEPT ![f] = d] /\ d.open /\ d.obj = o /\ d.pos = 0
  <2>1. PICK fl, p : fd' = State(fl, [fd EXCEPT ![call.fd] = Opened(fl, call.obj, p)]).fd
    BY DEF CreateFinish, Return, Becomes
  <2>2. PICK d : d = Opened(fl, o, p)
    OBVIOUS
  <2>3. d.open /\ d.obj = o /\ d.pos = 0
    BY <2>2 DEF Opened
  <2>4. fd' = [fd EXCEPT ![f] = d]
    BY <2>1, <2>2, StateIs
  <2> QED BY <2>3, <2>4
<1>5. PICK W : W = [file EXCEPT ![o] = Promise!Holding(<<>>)]
  OBVIOUS
<1>6. Returned(W)
  BY <1>5, CreateFinishKeeps DEF Returned
<1>7. file' = W /\ view' = ViewsOf(fd')
  BY <1>6, Effect
<1> HIDE DEF f, o
<1>8. fd'[f] = d /\ \A g \in Fd : g # f => fd'[g] = fd[g]
  BY <1>3, <1>4, CoreIs DEF FdOK
<1>9. View(fd'[f]) = Promise!At(o, 0)
  BY <1>4, <1>8, ViewIs
<1>10. view' = [view EXCEPT ![f] = Promise!At(o, 0)]
  <2>1. \A g \in Fd : g # f => View(fd'[g]) = view[g]
    BY <1>3, <1>8
  <2>2. view = [g \in Fd |-> view[g]]
    BY ViewType
  <2>3. ViewsOf(fd') = [view EXCEPT ![f] = Promise!At(o, 0)]
    BY <1>3, <1>9, <2>1, <2>2, ViewPut
  <2> QED BY <1>7, <2>3
<1>11. Promise!Clamped(o, 0) = view
  <2>1. \A g \in Fd : ~(view[g].open /\ view[g].obj = o)
    BY <1>3, ViewIs
  <2>2. Promise!Clamped(o, 0) = [g \in Fd |-> view[g]]
    BY <2>1 DEF Promise!Clamped
  <2> QED BY <2>2, ViewType
<1>12. Promise!OpenEmpty(f, o)
  <2>1. ~view[f].open
    BY <1>3, ViewIs
  <2> QED BY <1>5, <1>7, <1>10, <1>11, <2>1 DEF Promise!OpenEmpty
<1>13. Promise!Next
  BY <1>3, <1>12 DEF Promise!Next
<1> QED BY <1>13 DEF Promised

(* What is shown of a file while it is truncated.                          *)
LEMMA CutView ==
  ASSUME Core(flash, fd, call, file, view), call.op = "truncate"
  PROVE  /\ call.fd \in Fd /\ call.obj \in Obj /\ call # NoCall
         /\ fd[call.fd].open /\ fd[call.fd].obj = call.obj /\ file[call.obj].exists
         /\ call.temp => view[call.fd] = Promise!Closed /\ call.new = 0 /\ fd[call.fd].pos = 0
         /\ \A g \in Fd : (call.temp => g # call.fd) =>
              /\ call.step = "gc" \/ ~(fd[g].open /\ fd[g].obj = call.obj) => view[g] = View(fd[g])
              /\ call.step = "run" /\ fd[g].open /\ fd[g].obj = call.obj =>
                   \E n \in 0 .. MaxSize : /\ view[g] = Promise!At(call.obj, n)
                                           /\ Least(n, call.new) = Least(fd[g].pos, call.new)
<1>1. Views(fd, call, file, view)
  BY CoreIs
<1>2. call # NoCall
  BY NoCallIs
<1>3. call.fd \in Fd /\ call.obj \in Obj /\ Shortens(flash, fd, call, file, view)
  BY CutPlace
<1>4. file[call.obj].exists
  BY <1>2, CallsFd
<1>5. /\ fd[call.fd].open /\ fd[call.fd].obj = call.obj
      /\ call.temp => call.new = 0 /\ fd[call.fd].pos = 0
  BY <1>3 DEF Shortens
<1>6. \A g \in Fd : Seen(call, g, fd[g], view[g])
  BY <1>1 DEF Views
<1>7. call.temp => view[call.fd] = Promise!Closed
  BY <1>3, <1>6 DEF Seen
<1>8. ASSUME NEW g \in Fd, call.temp => g # call.fd
      PROVE  /\ call.step = "gc" \/ ~(fd[g].open /\ fd[g].obj = call.obj) => view[g] = View(fd[g])
             /\ call.step = "run" /\ fd[g].open /\ fd[g].obj = call.obj =>
                  \E n \in 0 .. MaxSize : /\ view[g] = Promise!At(call.obj, n)
                                          /\ Least(n, call.new) = Least(fd[g].pos, call.new)
  BY <1>6, <1>8 DEF Seen, Writing
<1> QED BY <1>2, <1>3, <1>4, <1>5, <1>7, <1>8

LEMMA RemovePromised ==
  ASSUME Core(flash, fd, call, file, view), RemoveFinish, Record
  PROVE  Promised
<1> DEFINE o == call.obj
<1>1. call.op = "truncate" /\ call.step = "run"
  BY DEF RemoveFinish, AtCut, Running
<1>2. fd' = Event(fd, "DEL", o, 0, call.pix, 0)
  BY StateIs DEF RemoveFinish, Return, Becomes
<1>3. PICK W : W = [file EXCEPT ![o] = Promise!NoFile]
  OBVIOUS
<1>4. Returned(W)
  BY <1>3, RemoveFinishKeeps DEF Returned
<1>5. file' = W /\ view' = ViewsOf(fd')
  BY <1>4, Effect
<1>6. /\ o \in Obj /\ call.fd \in Fd /\ fd[call.fd].open /\ fd[call.fd].obj = o /\ file[o].exists
      /\ call.temp => view[call.fd] = Promise!Closed
      /\ \A g \in Fd : (call.temp => g # call.fd) =>
           IF fd[g].open /\ fd[g].obj = o THEN \E n : view[g] = Promise!At(o, n)
                                          ELSE view[g] = View(fd[g])
  BY <1>1, CutView
<1> HIDE DEF o
<1>7. \A g \in Fd : fd'[g] = IF fd[g].open /\ fd[g].obj = o THEN Closed ELSE fd[g]
  BY <1>2 DEF Event, Told
<1>8. ASSUME NEW g \in Fd
      PROVE  View(fd'[g]) = IF view[g].open /\ view[g].obj = o THEN Promise!Closed ELSE view[g]
  <2>1. CASE call.temp /\ g = call.fd
    BY <1>6, <1>7, <2>1, ClosedIs, ViewIs, PlaceIs
  <2>2. CASE ~(call.temp /\ g = call.fd)
    <3>1. CASE fd[g].open /\ fd[g].obj = o
      BY <1>6, <1>7, <2>2, <3>1, ClosedIs, ViewIs, PlaceIs
    <3>2. CASE ~(fd[g].open /\ fd[g].obj = o)
      BY <1>6, <1>7, <2>2, <3>2, ViewIs
    <3> QED BY <3>1, <3>2
  <2> QED BY <2>1, <2>2
<1>9. view' = [g \in Fd |-> IF view[g].open /\ view[g].obj = o THEN Promise!Closed ELSE view[g]]
  BY <1>5, <1>8 DEF ViewsOf
<1>10. Promise!Remove(o)
  BY <1>3, <1>5, <1>6, <1>9 DEF Promise!Remove
<1>11. Promise!Next
  BY <1>6, <1>10 DEF Promise!Next
<1> QED BY <1>11 DEF Promised

LEMMA MinIsLeast ==
  ASSUME NEW m \in Nat, NEW n \in Nat
  PROVE  Promise!Min({m, n}) = Least(m, n)
<1> DEFINE x == Least(m, n)
<1>1. x \in {m, n} /\ \A y \in {m, n} : x <= y
  BY DEF Least
<1>2. \A z \in {m, n} : (\A y \in {m, n} : z <= y) => z = x
  BY DEF Least
<1> HIDE DEF x
<1>3. Promise!Min({m, n}) = x
  BY <1>1, <1>2 DEF Promise!Min
<1> QED BY <1>3 DEF x

(* A truncation shows every position of its file at the new end, if it     *)
(* lay beyond.                                                             *)
LEMMA CutShown ==
  ASSUME NEW m, NEW g, Core(flash, fd, call, file, view), call.op = "truncate", call.step = "run",
         g \in Fd, call.temp => g # call.fd, m = call.new, m \in Nat,
         Cropped(fd, fd', call.obj, m)
  PROVE  View(fd'[g]) = IF view[g].open /\ view[g].obj = call.obj
                        THEN [view[g] EXCEPT !.pos = Promise!Min({@, m})] ELSE view[g]
<1>1. /\ fd'[g].open = fd[g].open /\ fd'[g].obj = fd[g].obj
      /\ fd'[g].pos = IF fd[g].open /\ fd[g].obj = call.obj THEN Least(fd[g].pos, m) ELSE fd[g].pos
  BY DEF Cropped
<1>2. CASE fd[g].open /\ fd[g].obj = call.obj
  <2>1. PICK n \in 0 .. MaxSize : view[g] = Promise!At(call.obj, n) /\ Least(n, m) = Least(fd[g].pos, m)
    BY <1>2, CutView
  <2>2. n \in Nat
    BY ObjectsAssumption
  <2>3. View(fd'[g]) = Promise!At(call.obj, Least(n, m))
    <3>1. PICK e : e = fd'[g]
      OBVIOUS
    <3>2. e.open /\ e.obj = call.obj /\ e.pos = Least(n, m)
      BY <1>1, <1>2, <2>1, <3>1
    <3>3. View(e) = Promise!At(e.obj, e.pos)
      BY <3>2, ViewIs
    <3> QED BY <3>1, <3>2, <3>3
  <2>4. view[g].open /\ view[g].obj = call.obj /\ view[g].pos = n
    BY <2>1, PlaceIs
  <2>5. Promise!Min({n, m}) = Least(n, m)
    BY <2>2, MinIsLeast
  <2>6. [view[g] EXCEPT !.pos = Promise!Min({@, m})] = Promise!At(call.obj, Least(n, m))
    <3>1. [view[g] EXCEPT !.pos = Promise!Min({@, m})] = [view[g] EXCEPT !.pos = Promise!Min({n, m})]
      BY <2>4
    <3>2. PICK k : k = Least(n, m)
      OBVIOUS
    <3>3. [Promise!At(call.obj, n) EXCEPT !.pos = k] = Promise!At(call.obj, k)
      BY PlaceIs
    <3> QED BY <2>1, <2>5, <3>1, <3>2, <3>3
  <2> QED BY <2>3, <2>4, <2>6
<1>3. CASE ~(fd[g].open /\ fd[g].obj = call.obj)
  <2>1. view[g] = View(fd[g])
    BY <1>3, CutView
  <2>2. View(fd'[g]) = View(fd[g])
    BY <1>1, <1>3 DEF View
  <2>3. ~(view[g].open /\ view[g].obj = call.obj)
    BY <1>3, <2>1, ViewIs
  <2> QED BY <2>1, <2>2, <2>3
<1> QED BY <1>2, <1>3

LEMMA TruncatePromised ==
  ASSUME Core(flash, fd, call, file, view), TruncateFinish, Record
  PROVE  Promised
<1>1. call.op = "truncate" /\ call.step = "run" /\ call.cur <= call.new /\ ~call.full
  BY DEF TruncateFinish, AtCut, Running
<1>2. PICK m : m = call.cur
  OBVIOUS
<1>3. m \in Nat /\ m = call.new /\ m < Len(file[call.obj].bytes)
  BY <1>1, <1>2, AtCutIs
<1>4. /\ call' = NoCall /\ Core(flash', fd', call', Done(call, file), ViewsOf(fd'))
      /\ Cropped(fd, fd', call.obj, m)
  BY <1>2, TruncateFinishKeeps
<1>5. PICK W : W = Done(call, file)
  OBVIOUS
<1>6. file' = W /\ view' = ViewsOf(fd')
  BY <1>4, <1>5, Effect DEF Returned
<1>7. PICK f, o : f = call.fd /\ o = call.obj
  OBVIOUS
<1>8. /\ f \in Fd /\ o \in Obj /\ fd[f].open /\ fd[f].obj = o /\ file[o].exists
      /\ call.temp => view[f] = Promise!Closed /\ m = 0 /\ fd[f].pos = 0
  BY <1>1, <1>3, <1>7, CutView
<1>9. W = [file EXCEPT ![o].bytes = SubSeq(file[o].bytes, 1, m)]
  BY <1>1, <1>2, <1>5, <1>7 DEF Done, Current
<1>10. Cropped(fd, fd', o, m)
  BY <1>4, <1>7
<1>11. \A g \in Fd : (call.temp => g # f) => View(fd'[g]) = Promise!Clamped(o, m)[g]
  <2>1. ASSUME NEW g \in Fd, call.temp => g # f PROVE View(fd'[g]) = Promise!Clamped(o, m)[g]
    <3>1. View(fd'[g]) = IF view[g].open /\ view[g].obj = call.obj
                         THEN [view[g] EXCEPT !.pos = Promise!Min({@, m})] ELSE view[g]
      BY <1>1, <1>3, <1>4, <1>7, <2>1, CutShown
    <3>2. Promise!Clamped(o, m)[g] = IF view[g].open /\ view[g].obj = o
                                     THEN [view[g] EXCEPT !.pos = Promise!Min({@, m})] ELSE view[g]
      BY <2>1 DEF Promise!Clamped
    <3> QED BY <1>7, <3>1, <3>2
  <2> QED BY <2>1
<1>12. CASE ~call.temp
  <2>1. view' = Promise!Clamped(o, m)
    <3>1. \A g \in Fd : View(fd'[g]) = Promise!Clamped(o, m)[g]
      BY <1>11, <1>12
    <3>2. PICK y : y = Promise!Clamped(o, m) /\ y = [g \in Fd |-> y[g]]
      BY DEF Promise!Clamped
    <3> QED BY <1>6, <3>1, <3>2 DEF ViewsOf
  <2>2. view[f].open /\ view[f].obj = o
    <3>1. \E n : view[f] = Promise!At(o, n)
      BY <1>1, <1>7, <1>8, <1>12, CutView
    <3> QED BY <3>1, PlaceIs
  <2>3. m \in 0 .. Promise!Size(view[f].obj)
    BY <1>3, <1>7, <2>2 DEF Promise!Size
  <2>4. Promise!Truncate(f, m)
    BY <1>6, <1>9, <2>1, <2>2, <2>3 DEF Promise!Truncate
  <2>5. Promise!Next
    BY <1>8, <2>2, <2>3, <2>4 DEF Promise!Next
  <2> QED BY <2>5 DEF Promised
<1>13. CASE call.temp
  <2>1. m = 0 /\ ~view[f].open
    BY <1>8, <1>13, PlaceIs
  <2>2. W = [file EXCEPT ![o] = Promise!Holding(<<>>)]
    <3>1. SubSeq(file[o].bytes, 1, 0) = <<>>
      <4>1. file[o].bytes \in Seq(Val)
        BY <1>8, CoreIs, FileType
      <4>2. 0 \in 0 .. Len(file[o].bytes)
        BY <4>1
      <4>3. SubSeq(file[o].bytes, 1, 0) \in Seq(Val) /\ Len(SubSeq(file[o].bytes, 1, 0)) = 0
        BY <4>1, <4>2, CutIs
      <4> QED BY <4>3, EmptySeq
    <3>2. W = [file EXCEPT ![o].bytes = <<>>]
      BY <1>9, <2>1, <3>1
    <3>3. file \in [Obj -> FilesSet]
      BY CoreIs DEF Exist
    <3>4. PICK x : x = file[o]
      OBVIOUS
    <3>5. [x EXCEPT !.bytes = <<>>] = Promise!Holding(<<>>)
      <4>1. PICK y : y = Promise!Holding(<<>>)
        OBVIOUS
      <4>2. y \in [exists : BOOLEAN, bytes : {<<>>}] /\ y.exists
        BY <4>1 DEF Promise!Holding
      <4>3. x \in [exists : BOOLEAN, bytes : {x.bytes}] /\ x.exists
        BY <1>8, <3>3, <3>4 DEF FilesSet
      <4>4. [x EXCEPT !.bytes = <<>>] = y
        BY <4>2, <4>3
      <4> QED BY <4>1, <4>4
    <3>6. W = [file EXCEPT ![o] = [x EXCEPT !.bytes = <<>>]]
      BY <3>2, <3>4
    <3> QED BY <3>5, <3>6
  <2>3. View(fd'[f]) = Promise!At(o, 0)
    <3>1. fd'[f].open /\ fd'[f].obj = o /\ fd'[f].pos = Least(0, 0)
      BY <1>8, <1>10, <1>13 DEF Cropped
    <3>2. Least(0, 0) = 0
      BY DEF Least
    <3> QED BY <3>1, <3>2, ViewIs
  <2>4. view' = [Promise!Clamped(o, 0) EXCEPT ![f] = Promise!At(o, 0)]
    <3>1. PICK y : y = Promise!Clamped(o, 0) /\ y = [g \in Fd |-> y[g]]
      BY DEF Promise!Clamped
    <3>2. \A g \in Fd : g # f => View(fd'[g]) = y[g]
      BY <1>11, <2>1, <3>1
    <3>3. ViewsOf(fd') = [y EXCEPT ![f] = Promise!At(o, 0)]
      BY <1>8, <2>3, <3>1, <3>2, ViewPut
    <3> QED BY <1>6, <3>1, <3>3
  <2>5. Promise!OpenEmpty(f, o)
    BY <1>6, <2>1, <2>2, <2>4 DEF Promise!OpenEmpty
  <2>6. Promise!Next
    BY <1>8, <2>5 DEF Promise!Next
  <2> QED BY <2>6 DEF Promised
<1> QED BY <1>12, <1>13

(* The collector fails before anything was done.                           *)
LEMMA GcFullPromised ==
  ASSUME Core(flash, fd, call, file, view), GcFull, Record
  PROVE  Promised
<1>1. PICK W : W = Done(call, file)
  OBVIOUS
<1>2. file' = W /\ view' = ViewsOf(fd')
  BY <1>1, GcFullKeeps, Effect DEF Returned
<1>3. /\ call.step = "gc" /\ fd' = IF call.temp THEN [fd EXCEPT ![call.fd] = Closed] ELSE fd
  <2>1. call.step = "gc" /\ Fail(Now)
    BY DEF GcFull, Checking
  <2>2. Return(IF call.temp THEN [Now EXCEPT !.fd[call.fd] = Closed] ELSE Now)
    BY <2>1 DEF Fail
  <2>3. [Now EXCEPT !.fd[call.fd] = Closed].fd = [fd EXCEPT ![call.fd] = Closed]
    BY DEF Now, State
  <2> QED BY <2>1, <2>2, <2>3, StateIs DEF Return, Becomes, Now
<1>4. call # NoCall
  BY <1>3, NoCallIs
<1>5. call.op \in {"create", "append", "modify", "truncate"}
  BY <1>4, CoreIs, CallIs
<1>6. FdOK(flash, fd) /\ Exist(flash, file)
  BY CoreIs
<1>7. CASE call.op \in {"append", "modify"}
  BY <1>1, <1>2, <1>7, WriteFullPromised
<1>8. CASE call.op \in {"create", "truncate"}
  <2>1. \A g \in Fd : View(fd'[g]) = view[g]
    <3>1. CASE call.op = "create"
      BY <1>3, <1>4, <3>1, CreateView
    <3>2. CASE call.op = "truncate"
      <4>1. ASSUME NEW g \in Fd PROVE View(fd'[g]) = view[g]
        <5>1. call.fd \in Fd /\ (call.temp => view[call.fd] = Promise!Closed)
              /\ ((call.temp => g # call.fd) => view[g] = View(fd[g]))
          BY <1>3, <3>2, CutView
        <5>2. fd'[g] = IF call.temp /\ g = call.fd THEN Closed ELSE fd[g]
          BY <1>3, <1>6, <5>1 DEF FdOK
        <5> QED BY <5>1, <5>2, ClosedIs, ViewIs
      <4> QED BY <4>1
    <3> QED BY <1>8, <3>1, <3>2
  <2>2. view' = view
    <3>1. view' = [g \in Fd |-> View(fd'[g])]
      BY <1>2 DEF ViewsOf
    <3>2. view = [g \in Fd |-> view[g]]
      BY ViewType
    <3> QED BY <2>1, <3>1, <3>2
  <2>3. W = file
    <3>1. \A u \in Obj : W[u].exists = file[u].exists /\ W[u].bytes = Current(call, file, u)
      BY <1>1, <1>4, DoneIs
    <3>2. \A u \in Obj : Current(call, file, u) = file[u].bytes
      <4>1. CASE call.op = "create"
        BY <4>1, CurrentOut
      <4>2. CASE call.op = "truncate"
        <5>1. ASSUME NEW u \in Obj, u # call.obj PROVE Current(call, file, u) = file[u].bytes
          BY <5>1, CurrentOut
        <5>2. Current(call, file, call.obj) = file[call.obj].bytes
          <6>1. call.cur = Len(file[call.obj].bytes) /\ file[call.obj].bytes \in Seq(Val)
            BY <1>3, <4>2, CutPlace
          <6>2. SubSeq(file[call.obj].bytes, 1, call.cur) = file[call.obj].bytes
            BY <6>1, CutIs
          <6> QED BY <4>2, <6>2 DEF Current
        <5> QED BY <5>1, <5>2
      <4> QED BY <1>8, <4>1, <4>2
    <3>3. W \in [Obj -> FilesSet] /\ file \in [Obj -> FilesSet]
      BY <1>1, <1>4, <1>6, DoneIs DEF Exist
    <3>4. ASSUME NEW u \in Obj PROVE W[u] = file[u]
      BY <3>1, <3>2, <3>3 DEF FilesSet
    <3> QED BY <3>3, <3>4
  <2> QED BY <1>2, <2>2, <2>3 DEF Promised
<1> QED BY <1>5, <1>7, <1>8

-----------------------------------------------------------------------------
(* Every step is one of Files, or shows nothing.                           *)
LEMMA RestedEffect ==
  ASSUME Rested, Record
  PROVE  file' = file /\ view' = ViewsOf(fd')
<1>1. Returned(file)
  BY DEF Rested, Returned
<1> QED BY <1>1, Effect

LEMMA CallsPromised ==
  ASSUME NEW f \in Fd, NEW o \in Obj, Core(flash, fd, call, file, view), Record,
         Open(f, o) \/ Create(f, o) \/ OpenTruncate(f, o) \/ Remove(f, o) \/ Rename(f, o)
  PROVE  Promised
<1>1. CASE Open(f, o)
  <2>1. file' = file /\ view' = ViewsOf(fd')
    BY <1>1, OpenKeeps, RestedEffect
  <2>2. Promise!Open(f, o)
    BY <1>1, <2>1, OpenPromised
  <2>3. Promise!Next
    BY <2>2 DEF Promise!Next
  <2> QED BY <2>3 DEF Promised
<1>2. CASE Rename(f, o)
  <2>1. file' = file /\ view' = ViewsOf(fd') /\ Placed(fd, fd')
    BY <1>2, RenameKeeps, RestedEffect
  <2>2. Core(flash, fd, NoCall, file, view)
    BY <1>2 DEF Rename, Idle
  <2>3. \A g \in Fd : View(fd'[g]) = view[g]
    <3>1. \A g \in Fd : View(fd'[g]) = View(fd[g])
      BY <2>1 DEF Placed, View
    <3> QED BY <2>2, <3>1, IdleView
  <2>4. view' = view
    <3>1. view' = [g \in Fd |-> View(fd'[g])] /\ view = [g \in Fd |-> view[g]]
      BY <2>1, ViewType DEF ViewsOf
    <3> QED BY <2>3, <3>1
  <2> QED BY <2>1, <2>4 DEF Promised
<1>3. CASE Create(f, o) \/ OpenTruncate(f, o) \/ Remove(f, o)
  <2>1. Continues
    BY <1>3, CreateKeeps, OpenTruncateKeeps, RemoveKeeps DEF Continues
  <2> QED BY <2>1, NoEffect DEF Promised
<1> QED BY <1>1, <1>2, <1>3

LEMMA GoInNext ==
  ASSUME NEW f, NEW n, f \in Fd, Promise!GoTo(f, n), n \in 0 .. Promise!Size(view[f].obj), view[f].open
  PROVE  Promised
<1>1. Promise!Next
  BY DEF Promise!Next
<1> QED BY <1>1 DEF Promised

LEMMA DescriptorCallsPromised ==
  ASSUME NEW f \in Fd, Cuts \subseteq {"clean"}, Core(flash, fd, call, file, view), Record,
         \/ Close(f) \/ SeekBeyond(f)
         \/ \E n \in Places : Seek(f, n) \/ Read(f, n)
         \/ \E n \in 0 .. MaxSize : Truncate(f, n)
         \/ \E n \in Lens, v \in Val : (OwnVal => v = f) /\ Write(f, n, v)
  PROVE  Promised
<1>0. FdOK(flash, fd)
  BY CoreIs
<1>1. CASE Close(f)
  <2>1. file' = file /\ view' = ViewsOf(fd')
    BY <1>1, CloseKeeps, RestedEffect
  <2>2. Promise!Close(f)
    BY <1>1, <2>1, ClosePromised
  <2>3. Promise!Next
    BY <2>2 DEF Promise!Next
  <2> QED BY <2>3 DEF Promised
<1>2. ASSUME NEW n, n \in Nat, Idle, fd[f].open, n <= Bytes(fd[f].size), Rested,
             Repositioned(fd, fd', f, n)
      PROVE  Promised
  <2>1. file' = file /\ view' = ViewsOf(fd')
    BY <1>2, RestedEffect
  <2>2. Core(flash, fd, NoCall, file, view)
    BY <1>2 DEF Idle
  <2>3. Promise!GoTo(f, n) /\ n \in 0 .. Promise!Size(view[f].obj) /\ view[f].open
    BY <1>2, <2>1, <2>2, GoPromised
  <2> QED BY <2>3, GoInNext
<1>3. Bytes(fd[f].size) \in Nat
  <2>1. fd[f].size \in 0 .. UNDEFINED_LEN
    BY <1>0 DEF FdOK, Descriptors
  <2> QED BY <2>1, BytesType, ObjectsAssumption
<1>4. CASE SeekBeyond(f)
  <2>1. Idle /\ fd[f].open
    BY <1>4 DEF SeekBeyond
  <2>2. Rested /\ Repositioned(fd, fd', f, Bytes(fd[f].size))
    BY <1>4, SeekBeyondKeeps
  <2> QED BY <1>2, <1>3, <2>1, <2>2
<1>5. ASSUME NEW n \in Places, Seek(f, n) PROVE Promised
  <2>1. n \in Nat
    BY ObjectsAssumption
  <2>2. Idle /\ fd[f].open /\ n \in 0 .. Bytes(fd[f].size)
    BY <1>5 DEF Seek
  <2>3. Rested /\ Repositioned(fd, fd', f, n)
    BY <1>5, <2>1, SeekKeeps
  <2>4. n <= Bytes(fd[f].size)
    BY <1>3, <2>2
  <2> QED BY <1>2, <2>1, <2>2, <2>3, <2>4
<1>6. ASSUME NEW n \in Places, Read(f, n) PROVE Promised
  <2>1. n \in Nat
    BY ObjectsAssumption
  <2>2. Idle /\ fd[f].open /\ n \in fd[f].pos + 1 .. Bytes(fd[f].size)
    BY <1>6 DEF Read
  <2>3. Rested /\ Repositioned(fd, fd', f, n)
    BY <1>6, <2>1, ReadKeeps
  <2>4. n <= Bytes(fd[f].size)
    BY <1>3, <2>2
  <2> QED BY <1>2, <2>1, <2>2, <2>3, <2>4
<1>7. ASSUME NEW n \in 0 .. MaxSize, Truncate(f, n) PROVE Promised
  <2>1. n \in Nat
    BY ObjectsAssumption
  <2>2. Continues
    BY <1>7, <2>1, TruncateKeeps DEF Continues
  <2> QED BY <2>2, NoEffect DEF Promised
<1>8. ASSUME NEW n \in Lens, NEW v \in Val, Write(f, n, v) PROVE Promised
  <2>1. Continues
    BY <1>8, WriteKeeps DEF Continues
  <2> QED BY <2>1, NoEffect DEF Promised
<1> QED BY <1>1, <1>4, <1>5, <1>6, <1>7, <1>8

LEMMA WorkingPromised ==
  ASSUME Core(flash, fd, call, file, view), Working, Record
  PROVE  Promised
<1>1. CASE CreateFinish
  BY <1>1, CreatePromised
<1>2. CASE AppendFinish
  BY <1>2, AppendFinishPromised
<1>3. CASE ModifyFinish
  BY <1>3, ModifyFinishPromised
<1>4. CASE TruncateFinish
  BY <1>4, TruncatePromised
<1>5. CASE RemoveFinish
  BY <1>5, RemovePromised
<1>6. CASE AppendLoad \/ AppendIndex \/ AppendData \/ AppendInPage
  <2>1. Continues
    BY <1>6, AppendLoadKeeps, AppendIndexKeeps, AppendDataKeeps, AppendInPageKeeps DEF Continues
  <2> QED BY <2>1, NoEffect DEF Promised
<1>7. CASE ModifyIndex \/ ModifyData
  <2>1. Continues
    BY <1>7, ModifyIndexKeeps, ModifyDataHolds DEF Continues
  <2> QED BY <2>1, NoEffect DEF Promised
<1>8. CASE TruncateIndex \/ TruncateWhole \/ TruncatePart
  <2>1. Continues
    BY <1>8, TruncateIndexKeeps, TruncateWholeKeeps, TruncatePartKeeps DEF Continues
  <2> QED BY <2>1, NoEffect DEF Promised
<1> QED BY <1>1, <1>2, <1>3, <1>4, <1>5, <1>6, <1>7, <1>8 DEF Working

LEMMA GcPromised ==
  ASSUME Core(flash, fd, call, file, view), Gc, Record
  PROVE  Promised
<1>1. CASE GcFull
  BY <1>1, GcFullPromised
<1>2. CASE GcSkips \/ GcErases \/ GcMovesIndex \/ GcMovesData
  <2>1. Continues
    BY <1>2, GcContinues
  <2> QED BY <2>1, NoEffect DEF Promised
<1>3. CASE GcQuick
  <2>1. Continues
    BY <1>3, GcQuickKeeps DEF Continues
  <2> QED BY <2>1, NoEffect DEF Promised
<1> QED BY <1>1, <1>2, <1>3 DEF Gc

LEMMA StepPromised ==
  ASSUME Cuts \subseteq {"clean"}, IInv, [Next]_vars
  PROVE  Promised
<1>1. CASE UNCHANGED vars
  BY <1>1 DEF vars, Promised
<1>2. CASE short = "none" /\ Step /\ Record
  <2>0. Core(flash, fd, call, file, view) /\ Step /\ Record
    BY <1>2 DEF IInv
  <2>1. CASE Gc
    BY <2>0, <2>1, GcPromised
  <2>2. CASE \E f \in Fd, o \in Obj :
               Open(f, o) \/ Create(f, o) \/ OpenTruncate(f, o) \/ Remove(f, o) \/ Rename(f, o)
    BY <2>0, <2>2, CallsPromised
  <2>3. CASE \E f \in Fd :
               \/ Close(f) \/ SeekBeyond(f)
               \/ \E n \in Places : Seek(f, n) \/ Read(f, n)
               \/ \E n \in 0 .. MaxSize : Truncate(f, n)
               \/ \E n \in Lens, v \in Val : (OwnVal => v = f) /\ Write(f, n, v)
    <3>1. PICK f \in Fd : \/ Close(f) \/ SeekBeyond(f)
                          \/ \E n \in Places : Seek(f, n) \/ Read(f, n)
                          \/ \E n \in 0 .. MaxSize : Truncate(f, n)
                          \/ \E n \in Lens, v \in Val : (OwnVal => v = f) /\ Write(f, n, v)
      BY <2>3
    <3> QED BY <2>0, <3>1, DescriptorCallsPromised
  <2>4. CASE Working
    BY <2>0, <2>4, WorkingPromised
  <2> QED BY <2>0, <2>1, <2>2, <2>3, <2>4 DEF Step, Working
<1>3. CASE RunsOut
  <2>1. Core(flash, fd, call, file, view)
    BY <1>3, OnlyOnce DEF IInv
  <2> QED BY <1>3, <2>1, ShortEnds DEF Ended, Promised
<1> QED BY <1>1, <1>2, <1>3 DEF Next

(* Files are what Files says: a call takes effect at once, when it         *)
(* returns, whatever the collector moves and however many pages, index     *)
(* pages and descriptors it takes, and other files are not touched.        *)
THEOREM Refinement ==
  ASSUME Cuts \subseteq {"clean"}
  PROVE  Spec => ImplementsFiles
<1>1. Init => Promise!Init
  BY DEF Init
<1>2. IInv /\ [Next]_vars => [Promise!Next]_(Promise!vars)
  BY StepPromised DEF Promised, Promise!vars
<1> QED BY <1>1, <1>2, Invariant, PTL DEF Spec, ImplementsFiles, Promise!Spec
=============================================================================
