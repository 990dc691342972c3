----------------------------- MODULE IxMapProofs -----------------------------
(***************************************************************************)
(* Proofs about the index maps: for any number of files and descriptors,   *)
(* any size of pages and index pages, and any arguments of the map calls,  *)
(* a map follows its file in everything but the two cases Judged names.    *)
(***************************************************************************)
EXTENDS IxMap, FiniteSetTheorems, TLAPS

-----------------------------------------------------------------------------
(* The inductive invariant.                                                *)

Place == {NoPage, Stale} \cup (Obj \X Nat)
Buf == UNION {[0 .. n - 1 -> Place] : n \in Nat}
Map == [start : Nat, buf : Buf]
Descriptor == [open : BOOLEAN, obj : Obj, map : Map]

Types ==
  /\ size \in [Obj -> -1 .. MaxSize]
  /\ fd \in [Fd -> Descriptor]
  /\ missed \subseteq Fd
  /\ inherited \subseteq Fd

(* Entry e of d's map is where the data of its span is.                    *)
Right(d, e) == d.map.buf[e] = <<d.obj, d.map.start + e>>

(* Every entry within the file is right, but those of the index header if  *)
(* the map was not told of them.                                           *)
Leads ==
  \A f \in Fd : \A e \in DOMAIN fd[f].map.buf :
    /\ fd[f].open /\ f \notin inherited
    /\ fd[f].map.start + e < size[fd[f].obj]
    /\ f \in missed => IxSpan(fd[f].map.start + e) # 0
    => Right(fd[f], e)

(* A closed descriptor has no map, unless its file was removed.            *)
Bare == \A f \in Fd : fd[f].open \/ f \in inherited \/ DOMAIN fd[f].map.buf = {}

IInv == Types /\ Leads /\ Bare

-----------------------------------------------------------------------------
(* What the operators on maps return.                                      *)

(* A map has a finite number of entries, counted from zero.                *)
LEMMA BufDomain ==
  ASSUME NEW b \in Buf
  PROVE  \E n \in Nat : DOMAIN b = 0 .. n - 1 /\ b \in [0 .. n - 1 -> Place]
BY DEF Buf

LEMMA ClearedType ==
  ASSUME NEW start \in Nat, NEW n \in Int
  PROVE  /\ Cleared(start, n) \in Map
         /\ Cleared(start, n).start = start
<1> DEFINE k == IF n < 0 THEN 0 ELSE n
           b == [e \in 0 .. n - 1 |-> NoPage]
<1>1. k \in Nat /\ 0 .. n - 1 = 0 .. k - 1
  OBVIOUS
<1>2. b \in [0 .. k - 1 -> Place]
  BY <1>1 DEF Place
<1>3. b \in Buf
  BY <1>1, <1>2 DEF Buf
<1> QED
  BY <1>3 DEF Cleared, Map

LEMMA NoMapType == NoMap \in Map /\ DOMAIN NoMap.buf = {}
<1>1. 0 .. 0 - 1 = {}
  OBVIOUS
<1>2. DOMAIN NoMap.buf = 0 .. 0 - 1
  BY DEF NoMap, Cleared
<1> QED
  BY <1>1, <1>2, ClearedType DEF NoMap

(* spiffs_update_ix_map sets the entries of the index pages it is given,   *)
(* as far as the file goes, and leaves the others.                         *)
IsUpdated(new, map, o, ks, n) ==
  /\ new \in Map
  /\ new.start = map.start
  /\ DOMAIN new.buf = DOMAIN map.buf
  /\ \A e \in DOMAIN map.buf :
       new.buf[e] = IF IxSpan(map.start + e) \in ks /\ map.start + e < n
                    THEN <<o, map.start + e>> ELSE map.buf[e]

LEMMA UpdatedEntries ==
  ASSUME NEW map \in Map, NEW o \in Obj, NEW ks, NEW n \in Int
  PROVE  IsUpdated(Updated(map, o, ks, n), map, o, ks, n)
<1> DEFINE V(e) == IF IxSpan(map.start + e) \in ks /\ map.start + e < n
                   THEN <<o, map.start + e>> ELSE map.buf[e]
           b == [e \in DOMAIN map.buf |-> V(e)]
<1>1. map.start \in Nat /\ map.buf \in Buf
  BY DEF Map
<1>2. PICK k \in Nat : DOMAIN map.buf = 0 .. k - 1 /\ map.buf \in [0 .. k - 1 -> Place]
  BY <1>1, BufDomain
<1>3. \A e \in DOMAIN map.buf : V(e) \in Place
  <2> TAKE e \in DOMAIN map.buf
  <2>1. map.buf[e] \in Place /\ map.start + e \in Nat
    BY <1>1, <1>2
  <2>2. <<o, map.start + e>> \in Place
    BY <2>1 DEF Place
  <2> QED
    BY <2>1, <2>2
<1>4. b \in [0 .. k - 1 -> Place]
  BY <1>2, <1>3
<1>5. b \in Buf
  BY <1>4 DEF Buf
<1>6. Updated(map, o, ks, n) = [map EXCEPT !.buf = b]
  BY DEF Updated
<1>7. Updated(map, o, ks, n).start = map.start /\ Updated(map, o, ks, n).buf = b
  BY <1>6 DEF Map
<1>8. Updated(map, o, ks, n) \in Map
  BY <1>5, <1>6 DEF Map
<1> HIDE DEF V
<1>9. DOMAIN b = DOMAIN map.buf /\ \A e \in DOMAIN map.buf : b[e] = V(e)
  OBVIOUS
<1> QED
  BY <1>7, <1>8, <1>9 DEF V, IsUpdated

(* SPIFFS_ix_map and ix_remap: the entries from one on are filled, as far  *)
(* as the file goes, and no other is lost.                                 *)
IsPopulated(new, map, from, o, n) ==
  /\ new \in Map
  /\ new.start = map.start
  /\ DOMAIN new.buf = DOMAIN map.buf
  /\ \A e \in DOMAIN map.buf :
       map.start + e < n /\ (e >= from \/ map.buf[e] = <<o, map.start + e>>)
       => new.buf[e] = <<o, map.start + e>>

LEMMA PopulatedEntries ==
  ASSUME NEW map \in Map, NEW from \in Int, NEW o \in Obj, NEW n \in Int
  PROVE  IsPopulated(Populated(map, from, o, n), map, from, o, n)
<1> DEFINE ks == IxSpans({map.start + e : e \in {d \in DOMAIN map.buf : d >= from}})
<1>1. \A e \in DOMAIN map.buf : e >= from => IxSpan(map.start + e) \in ks
  BY DEF IxSpans
<1>2. Populated(map, from, o, n) = Updated(map, o, ks, n)
  BY DEF Populated
<1> HIDE DEF ks
<1>3. IsUpdated(Updated(map, o, ks, n), map, o, ks, n)
  BY UpdatedEntries
<1> QED
  BY <1>1, <1>2, <1>3 DEF IsUpdated, IsPopulated

(* SPIFFS_ix_remap by less than the map's length: what stays in range      *)
(* moves with its span.                                                    *)
LEMMA MovedEntries ==
  ASSUME NEW map \in Map, NEW diff \in Int, map.start + diff \in Nat
  PROVE  /\ Moved(map, diff) \in Map
         /\ Moved(map, diff).start = map.start + diff
         /\ DOMAIN Moved(map, diff).buf = DOMAIN map.buf
         /\ \A e \in DOMAIN map.buf :
              e + diff \in DOMAIN map.buf => Moved(map, diff).buf[e] = map.buf[e + diff]
<1> DEFINE V(e) == IF e + diff \in DOMAIN map.buf THEN map.buf[e + diff] ELSE NoPage
           b == [e \in DOMAIN map.buf |-> V(e)]
<1>1. PICK k \in Nat : DOMAIN map.buf = 0 .. k - 1 /\ map.buf \in [0 .. k - 1 -> Place]
  BY BufDomain DEF Map
<1>2. \A e \in DOMAIN map.buf : V(e) \in Place
  BY <1>1 DEF Place
<1>3. b \in [0 .. k - 1 -> Place]
  BY <1>1, <1>2
<1>4. b \in Buf
  BY <1>3 DEF Buf
<1>5. Moved(map, diff) = [start |-> map.start + diff, buf |-> b]
  BY DEF Moved
<1>6. Moved(map, diff) \in Map
  BY <1>4, <1>5 DEF Map
<1> HIDE DEF V
<1>7. DOMAIN b = DOMAIN map.buf /\ \A e \in DOMAIN map.buf : b[e] = V(e)
  OBVIOUS
<1> QED
  BY <1>5, <1>6, <1>7 DEF V

(* A page that is given up leaves stale entries, and nothing else.         *)
IsOutdated(new, d, P) ==
  /\ new \in Descriptor
  /\ new.open = d.open
  /\ new.obj = d.obj
  /\ new.map.start = d.map.start
  /\ DOMAIN new.map.buf = DOMAIN d.map.buf
  /\ \A e \in DOMAIN d.map.buf : d.map.buf[e] \notin P => new.map.buf[e] = d.map.buf[e]

LEMMA OutdatedEntries ==
  ASSUME NEW fds \in [Fd -> Descriptor], NEW P
  PROVE  /\ Outdated(fds, P) \in [Fd -> Descriptor]
         /\ \A f \in Fd : IsOutdated(Outdated(fds, P)[f], fds[f], P)
<1> DEFINE V(f, e) == IF fds[f].map.buf[e] \in P THEN Stale ELSE fds[f].map.buf[e]
           b(f) == [e \in DOMAIN fds[f].map.buf |-> V(f, e)]
           d(f) == [fds[f] EXCEPT !.map = [@ EXCEPT !.buf = b(f)]]
<1>1. SUFFICES ASSUME NEW f \in Fd
               PROVE  IsOutdated(Outdated(fds, P)[f], fds[f], P)
  <2>1. Outdated(fds, P) = [f \in Fd |-> Outdated(fds, P)[f]]
    BY DEF Outdated
  <2> QED
    BY <2>1 DEF IsOutdated
<1>2. fds[f] \in Descriptor /\ fds[f].map \in Map /\ fds[f].map.buf \in Buf
  BY DEF Descriptor, Map
<1>3. PICK k \in Nat : /\ DOMAIN fds[f].map.buf = 0 .. k - 1
                       /\ fds[f].map.buf \in [0 .. k - 1 -> Place]
  BY <1>2, BufDomain
<1>4. b(f) \in [0 .. k - 1 -> Place]
  BY <1>3 DEF Place
<1>5. b(f) \in Buf
  BY <1>4 DEF Buf
<1>6. Outdated(fds, P)[f] = [fds[f] EXCEPT !.map.buf = b(f)]
  BY DEF Outdated
<1> HIDE DEF b
<1>7. /\ Outdated(fds, P)[f] \in Descriptor
      /\ Outdated(fds, P)[f].open = fds[f].open
      /\ Outdated(fds, P)[f].obj = fds[f].obj
      /\ Outdated(fds, P)[f].map.start = fds[f].map.start
      /\ Outdated(fds, P)[f].map.buf = b(f)
  BY <1>2, <1>5, <1>6 DEF Descriptor, Map
<1> HIDE DEF V
<1>8. /\ DOMAIN b(f) = DOMAIN fds[f].map.buf
      /\ \A e \in DOMAIN fds[f].map.buf : b(f)[e] = V(f, e)
  BY DEF b
<1> QED
  BY <1>7, <1>8 DEF V, IsOutdated

(* The descriptors of file o learn where the data of index pages ks is.    *)
IsTold(new, d, o, ks, n) ==
  /\ new \in Descriptor
  /\ new.open = d.open
  /\ new.obj = d.obj
  /\ IF d.open /\ d.obj = o THEN IsUpdated(new.map, d.map, o, ks, n) ELSE new = d

LEMMA ToldEntries ==
  ASSUME NEW fds \in [Fd -> Descriptor], NEW o \in Obj, NEW ks, NEW n \in Int
  PROVE  /\ Told(fds, o, ks, n) \in [Fd -> Descriptor]
         /\ \A f \in Fd : IsTold(Told(fds, o, ks, n)[f], fds[f], o, ks, n)
<1>1. \A f \in Fd : Told(fds, o, ks, n)[f] =
        IF fds[f].open /\ fds[f].obj = o
        THEN [fds[f] EXCEPT !.map = Updated(fds[f].map, o, ks, n)] ELSE fds[f]
  BY DEF Told
<1>2. ASSUME NEW f \in Fd
      PROVE  IsTold(Told(fds, o, ks, n)[f], fds[f], o, ks, n)
  <2> DEFINE U == Updated(fds[f].map, o, ks, n)
  <2>1. fds[f] \in Descriptor /\ fds[f].map \in Map
    BY DEF Descriptor
  <2>2. IsUpdated(U, fds[f].map, o, ks, n)
    BY <2>1, UpdatedEntries
  <2>3. CASE fds[f].open /\ fds[f].obj = o
    <3>1. Told(fds, o, ks, n)[f] = [fds[f] EXCEPT !.map = U]
      BY <1>1, <2>3
    <3> HIDE DEF U
    <3> QED
      BY <2>1, <2>2, <2>3, <3>1 DEF IsTold, IsUpdated, Descriptor
  <2>4. CASE ~(fds[f].open /\ fds[f].obj = o)
    BY <1>1, <2>1, <2>4 DEF IsTold
  <2> QED
    BY <2>3, <2>4
<1>3. Told(fds, o, ks, n) = [f \in Fd |-> Told(fds, o, ks, n)[f]]
  BY DEF Told
<1>4. \A f \in Fd : Told(fds, o, ks, n)[f] \in Descriptor
  BY <1>2 DEF IsTold
<1> QED
  BY <1>2, <1>3, <1>4

LEMMA ClosedType ==
  ASSUME NEW map \in Map
  PROVE  /\ ClosedFd(map) \in Descriptor
         /\ ~ClosedFd(map).open /\ ClosedFd(map).map = map
BY IxMapAssumption DEF ClosedFd, Descriptor

-----------------------------------------------------------------------------
(* The steps.                                                              *)

(* A call that makes file o n pages long, gives up the data pages P, which *)
(* makes of the descriptors fds, and tells those of o of index pages ks.   *)
Calls(o, n, P, fds, ks) ==
  /\ fds \in [Fd -> Descriptor]
  /\ \A f \in Fd : IsOutdated(fds[f], fd[f], P)
  /\ \A q \in Obj, s \in Nat : <<q, s>> \in P => q = o /\ (s >= n \/ IxSpan(s) \in ks)
  /\ \A s \in Nat : s >= size[o] /\ s < n =>
       \/ IxSpan(s) \in ks
       \/ IxSpan(s) = 0 /\ {f \in Opens(o) : Mapped(f)} \subseteq missed'
  /\ \A f \in missed \ missed' : f \in Opens(o) /\ 0 \in ks
  /\ missed' \subseteq Fd
  /\ inherited' = inherited
  /\ size' = [size EXCEPT ![o] = n]
  /\ fd' = Told(fds, o, ks, n)

LEMMA FollowsCall ==
  ASSUME IInv, NEW o \in Obj, NEW n \in -1 .. MaxSize, NEW P, NEW fds, NEW ks,
         Calls(o, n, P, fds, ks)
  PROVE  IInv'
<1> USE DEF Calls
<1>1. /\ fd' \in [Fd -> Descriptor]
      /\ \A f \in Fd : IsTold(fd'[f], fds[f], o, ks, n)
  BY ToldEntries
<1>2. Types'
  BY <1>1 DEF IInv, Types
<1>3. ASSUME NEW f \in Fd
      PROVE  /\ fd'[f].open = fd[f].open
             /\ fd'[f].obj = fd[f].obj
             /\ fd'[f].map.start = fd[f].map.start
             /\ DOMAIN fd'[f].map.buf = DOMAIN fd[f].map.buf
  <2>1. IsTold(fd'[f], fds[f], o, ks, n) /\ IsOutdated(fds[f], fd[f], P)
    BY <1>1
  <2>2. CASE fds[f].open /\ fds[f].obj = o
    BY <2>1, <2>2 DEF IsTold, IsUpdated, IsOutdated
  <2>3. CASE ~(fds[f].open /\ fds[f].obj = o)
    BY <2>1, <2>3 DEF IsTold, IsOutdated
  <2> QED
    BY <2>2, <2>3
<1>4. Bare'
  BY <1>3 DEF IInv, Bare
<1>5. ASSUME NEW f \in Fd, NEW e \in DOMAIN fd[f].map.buf,
             fd[f].open, f \notin inherited,
             fd[f].map.start + e < size'[fd[f].obj],
             f \in missed' => IxSpan(fd[f].map.start + e) # 0
      PROVE  fd'[f].map.buf[e] = <<fd[f].obj, fd[f].map.start + e>>
  <2> DEFINE s == fd[f].map.start + e
             q == fd[f].obj
  <2>1. q \in Obj /\ s \in Nat /\ fd[f].map \in Map
    <3>1. fd[f] \in Descriptor
      BY DEF IInv, Types
    <3>2. q \in Obj /\ fd[f].map \in Map
      BY <3>1 DEF Descriptor
    <3>3. fd[f].map.start \in Nat /\ fd[f].map.buf \in Buf
      BY <3>2 DEF Map
    <3>4. PICK k \in Nat : DOMAIN fd[f].map.buf = 0 .. k - 1
      BY <3>3, BufDomain
    <3> QED
      BY <3>2, <3>3, <3>4
  <2>2. IsTold(fd'[f], fds[f], o, ks, n) /\ IsOutdated(fds[f], fd[f], P)
    BY <1>1
  <2>3. s < size[q] /\ (f \in missed => IxSpan(s) # 0) => fd[f].map.buf[e] = <<q, s>>
    BY <1>5 DEF IInv, Leads, Right
  <2>4. CASE q # o
    <3>1. s < size[q] /\ (f \in missed => f \in missed')
      BY <1>5, <2>1, <2>4 DEF IInv, Types, Opens
    <3>2. fd[f].map.buf[e] = <<q, s>> /\ <<q, s>> \notin P
      BY <1>5, <2>1, <2>3, <2>4, <3>1
    <3>3. fds[f].map.buf[e] = <<q, s>>
      BY <2>2, <3>2 DEF IsOutdated
    <3>4. fd'[f] = fds[f]
      BY <2>2, <2>4 DEF IsTold, IsOutdated
    <3> QED
      BY <3>3, <3>4
  <2>5. CASE q = o
    <3>1. s < n
      BY <1>5, <2>5 DEF IInv, Types
    <3>2. /\ fds[f].map.start = fd[f].map.start
          /\ DOMAIN fds[f].map.buf = DOMAIN fd[f].map.buf
          /\ fd'[f].map.buf[e] = IF IxSpan(s) \in ks /\ s < n
                                 THEN <<o, s>> ELSE fds[f].map.buf[e]
      <4>1. fds[f].open /\ fds[f].obj = o
        BY <1>5, <2>2, <2>5 DEF IsOutdated
      <4>2. IsUpdated(fd'[f].map, fds[f].map, o, ks, n)
        BY <2>2, <4>1 DEF IsTold
      <4> QED
        BY <2>2, <4>2 DEF IsUpdated, IsOutdated
    <3>3. CASE IxSpan(s) \in ks
      BY <2>5, <3>1, <3>2, <3>3
    <3>4. CASE IxSpan(s) \notin ks
      <4>1. Mapped(f) /\ f \in Opens(o)
        BY <1>5, <2>5 DEF Mapped, Opens
      <4>2. s < size[o]
        <5>1. ~(IxSpan(s) = 0 /\ {g \in Opens(o) : Mapped(g)} \subseteq missed')
          BY <1>5, <4>1
        <5> QED
          BY <2>1, <3>1, <3>4, <5>1 DEF IInv, Types
      <4>3. f \in missed => IxSpan(s) # 0
        BY <1>5, <3>4
      <4>4. fd[f].map.buf[e] = <<o, s>>
        BY <2>3, <2>5, <4>2, <4>3
      <4>5. <<o, s>> \notin P
        BY <2>1, <3>1, <3>4
      <4>6. fds[f].map.buf[e] = <<o, s>>
        BY <2>2, <4>4, <4>5 DEF IsOutdated
      <4> QED
        BY <2>5, <3>2, <3>4, <4>6
    <3> QED
      BY <3>3, <3>4
  <2> QED
    BY <2>4, <2>5
<1>6. Leads'
  BY <1>3, <1>5 DEF Leads, Right
<1> QED
  BY <1>2, <1>4, <1>6 DEF IInv

LEMMA AppendStep ==
  ASSUME IInv, NEW o \in Obj, NEW n \in 0 .. MaxSize, n > 0, Append(o, n)
  PROVE  IInv'
<1> DEFINE ks == IxSpans(size[o] .. size[o] + n - 1) \ (IF size[o] = 0 THEN {0} ELSE {})
<1>1. size[o] \in -1 .. MaxSize /\ size[o] + n \in -1 .. MaxSize
  BY DEF IInv, Types, Append
<1>2. /\ size' = [size EXCEPT ![o] = size[o] + n]
      /\ fd' = Told(fd, o, ks, size[o] + n)
      /\ missed' = IF size[o] = 0 THEN missed \cup {f \in Opens(o) : Mapped(f)}
                   ELSE IF 0 \in ks THEN missed \ Opens(o) ELSE missed
      /\ inherited' = inherited
  BY DEF Append
<1>3. \A s \in Nat : s >= size[o] /\ s < size[o] + n =>
        \/ IxSpan(s) \in ks
        \/ IxSpan(s) = 0 /\ {f \in Opens(o) : Mapped(f)} \subseteq missed'
  <2> TAKE s \in Nat
  <2> HAVE s >= size[o] /\ s < size[o] + n
  <2>1. IxSpan(s) \in IxSpans(size[o] .. size[o] + n - 1)
    BY <1>1 DEF IxSpans
  <2>2. CASE size[o] = 0
    BY <1>2, <2>1, <2>2
  <2>3. CASE size[o] # 0
    BY <2>1, <2>3
  <2> QED
    BY <2>2, <2>3
<1> HIDE DEF ks
<1>4. fd \in [Fd -> Descriptor] /\ missed' \subseteq Fd
  BY <1>2 DEF IInv, Types, Opens
<1>5. \A f \in Fd : IsOutdated(fd[f], fd[f], {})
  BY <1>4 DEF IsOutdated
<1>6. \A f \in missed \ missed' : f \in Opens(o) /\ 0 \in ks
  BY <1>2
<1>7. Calls(o, size[o] + n, {}, fd, ks)
  BY <1>2, <1>3, <1>4, <1>5, <1>6 DEF Calls
<1> QED
  BY <1>1, <1>7, FollowsCall

(* Modify and the collector.                                               *)
LEMMA RewriteStep ==
  ASSUME IInv, NEW o \in Obj, NEW S, Rewrite(o, S)
  PROVE  IInv'
<1> DEFINE P == Pages(o, S)
           ks == IxSpans(S)
           fds == Outdated(fd, P)
<1>1. fd \in [Fd -> Descriptor] /\ size[o] \in -1 .. MaxSize
  BY DEF IInv, Types
<1>2. fds \in [Fd -> Descriptor] /\ \A f \in Fd : IsOutdated(fds[f], fd[f], P)
  BY <1>1, OutdatedEntries
<1>3. \A q \in Obj, s \in Nat : <<q, s>> \in P => q = o /\ IxSpan(s) \in ks
  BY DEF Pages, IxSpans
<1>4. /\ fd' = Told(fds, o, ks, size[o])
      /\ missed' = IF 0 \in ks THEN missed \ Opens(o) ELSE missed
      /\ size' = [size EXCEPT ![o] = size[o]]
      /\ inherited' = inherited
  BY DEF Rewrite, IInv, Types
<1> HIDE DEF P, ks, fds
<1>5. missed' \subseteq Fd /\ \A f \in missed \ missed' : f \in Opens(o) /\ 0 \in ks
  BY <1>4 DEF IInv, Types
<1>6. \A s \in Nat : ~(s >= size[o] /\ s < size[o])
  BY <1>1
<1>7. Calls(o, size[o], P, fds, ks)
  BY <1>2, <1>3, <1>4, <1>5, <1>6 DEF Calls
<1> QED
  BY <1>1, <1>7, FollowsCall

LEMMA TruncateStep ==
  ASSUME IInv, NEW o \in Obj, NEW n \in 0 .. MaxSize, Truncate(o, n)
  PROVE  IInv'
<1> DEFINE P == Pages(o, n .. size[o] - 1)
           ks == {IxSpan(n)}
           fds == Outdated(fd, P)
<1>1. fd \in [Fd -> Descriptor] /\ size[o] \in -1 .. MaxSize /\ n \in -1 .. MaxSize
  BY DEF IInv, Types
<1>2. fds \in [Fd -> Descriptor] /\ \A f \in Fd : IsOutdated(fds[f], fd[f], P)
  BY <1>1, OutdatedEntries
<1>3. \A q \in Obj, s \in Nat : <<q, s>> \in P => q = o /\ s >= n
  BY <1>1 DEF Pages
<1>4. /\ fd' = Told(fds, o, ks, n)
      /\ missed' = IF IxSpan(n) = 0 THEN missed \ Opens(o) ELSE missed
      /\ size' = [size EXCEPT ![o] = n]
      /\ inherited' = inherited
      /\ n < size[o]
  BY DEF Truncate
<1>5. missed' \subseteq Fd /\ \A f \in missed \ missed' : f \in Opens(o) /\ 0 \in ks
  BY <1>4 DEF IInv, Types
<1> HIDE DEF P, ks, fds
<1>6. \A s \in Nat : ~(s >= size[o] /\ s < n)
  BY <1>1, <1>4
<1>7. Calls(o, n, P, fds, ks)
  BY <1>2, <1>3, <1>4, <1>5, <1>6 DEF Calls
<1> QED
  BY <1>1, <1>7, FollowsCall

(* A file that comes or goes: no data of it is within its size, and the    *)
(* maps of other files stay as they are.                                   *)
LEMMA CreateStep ==
  ASSUME IInv, NEW f \in Fd, NEW o \in Obj, Create(f, o)
  PROVE  IInv'
<1>1. /\ size' = [size EXCEPT ![o] = 0]
      /\ fd' = [fd EXCEPT ![f].open = TRUE, ![f].obj = o]
      /\ missed' = missed /\ inherited' = inherited
      /\ ~fd[f].open /\ size[o] < 0
  BY DEF Create, FirstClosed, Closed, Exists, IInv, Types
<1>2. fd[f] \in Descriptor /\ fd \in [Fd -> Descriptor] /\ size \in [Obj -> -1 .. MaxSize]
  BY DEF IInv, Types
<1>3. /\ fd'[f] \in Descriptor /\ fd'[f].open /\ fd'[f].obj = o
      /\ fd'[f].map = fd[f].map
  BY <1>1, <1>2 DEF Descriptor
<1>4. \A g \in Fd \ {f} : fd'[g] = fd[g]
  BY <1>1, <1>2
<1>5. fd' \in [Fd -> Descriptor]
  BY <1>1, <1>2, <1>3
<1>6. Types'
  BY <1>1, <1>5, IxMapAssumption DEF IInv, Types
<1>7. Bare'
  BY <1>1, <1>3, <1>4 DEF IInv, Bare
<1>8. \A g \in Fd : \A e \in DOMAIN fd[g].map.buf : fd[g].map.start + e >= 0
  <2> TAKE g \in Fd
  <2>1. fd[g].map.start \in Nat /\ fd[g].map.buf \in Buf
    BY <1>2 DEF Descriptor, Map
  <2>2. PICK k \in Nat : DOMAIN fd[g].map.buf = 0 .. k - 1
    BY <2>1, BufDomain
  <2> QED
    BY <2>1, <2>2
<1>9. Leads'
  <2> SUFFICES ASSUME NEW g \in Fd, NEW e \in DOMAIN fd'[g].map.buf,
                      fd'[g].open, g \notin inherited,
                      fd'[g].map.start + e < size'[fd'[g].obj],
                      g \in missed => IxSpan(fd'[g].map.start + e) # 0
               PROVE  fd'[g].map.buf[e] = <<fd'[g].obj, fd'[g].map.start + e>>
    BY <1>1 DEF Leads, Right
  <2>1. CASE g = f
    BY <1>1, <1>3, <2>1 DEF IInv, Bare
  <2>2. CASE g # f
    <3>1. fd'[g] = fd[g]
      BY <1>4, <2>2
    <3>2. fd[g].obj # o
      <4>1. size'[o] = 0
        BY <1>1, <1>2
      <4>2. fd[g].map.start + e \in Int
        <5>1. fd[g].map.start \in Nat /\ fd[g].map.buf \in Buf
          BY <1>2 DEF Descriptor, Map
        <5>2. PICK k \in Nat : DOMAIN fd[g].map.buf = 0 .. k - 1
          BY <5>1, BufDomain
        <5> QED
          BY <5>1, <5>2, <3>1
      <4> QED
        BY <1>8, <3>1, <4>1, <4>2
    <3>3. fd[g].map.start + e < size[fd[g].obj]
      BY <1>1, <1>2, <3>1, <3>2 DEF Descriptor
    <3> QED
      BY <3>1, <3>3 DEF IInv, Leads, Right
  <2> QED
    BY <2>1, <2>2
<1> QED
  BY <1>6, <1>7, <1>9 DEF IInv

LEMMA RemoveStep ==
  ASSUME IInv, NEW o \in Obj, Remove(o)
  PROVE  IInv'
<1> DEFINE P == Pages(o, 0 .. size[o] - 1)
           fds == Outdated(fd, P)
<1>1. fd \in [Fd -> Descriptor] /\ size \in [Obj -> -1 .. MaxSize]
  BY DEF IInv, Types
<1>2. fds \in [Fd -> Descriptor] /\ \A f \in Fd : IsOutdated(fds[f], fd[f], P)
  BY <1>1, OutdatedEntries
<1>3. \A q \in Obj, s \in Nat : <<q, s>> \in P => q = o
  BY DEF Pages
<1>4. /\ fd' = [f \in Fd |-> IF f \in Opens(o) THEN ClosedFd(fds[f].map) ELSE fds[f]]
      /\ size' = [size EXCEPT ![o] = -1]
      /\ inherited' = inherited \cup {f \in Opens(o) : Mapped(f)}
      /\ missed' = missed
  BY DEF Remove
<1> HIDE DEF P, fds
<1>5. ASSUME NEW f \in Fd
      PROVE  /\ fd'[f] \in Descriptor
             /\ DOMAIN fd'[f].map.buf = DOMAIN fd[f].map.buf
             /\ IF f \in Opens(o) THEN ~fd'[f].open
                ELSE /\ fd'[f] = fds[f] /\ fd'[f].open = fd[f].open
                     /\ fd'[f].obj = fd[f].obj
                     /\ fd'[f].map.start = fd[f].map.start
  <2>1. fds[f] \in Descriptor /\ fds[f].map \in Map /\ IsOutdated(fds[f], fd[f], P)
    BY <1>2 DEF Descriptor
  <2>2. CASE f \in Opens(o)
    <3>1. fd'[f] = ClosedFd(fds[f].map)
      BY <1>4, <2>2
    <3> QED
      BY <2>1, <2>2, <3>1, ClosedType DEF IsOutdated
  <2>3. CASE f \notin Opens(o)
    BY <1>4, <2>1, <2>3 DEF IsOutdated
  <2> QED
    BY <2>2, <2>3
<1>6. Types'
  <2>1. fd' = [f \in Fd |-> fd'[f]]
    BY <1>4
  <2>2. fd' \in [Fd -> Descriptor]
    BY <1>5, <2>1
  <2>3. size' \in [Obj -> -1 .. MaxSize]
    BY <1>1, <1>4, IxMapAssumption
  <2> QED
    BY <1>4, <2>2, <2>3 DEF IInv, Types, Opens
<1>7. Bare'
  <2> SUFFICES ASSUME NEW f \in Fd
               PROVE  fd'[f].open \/ f \in inherited' \/ DOMAIN fd'[f].map.buf = {}
    BY DEF Bare
  <2>1. CASE f \in Opens(o)
    BY <1>4, <1>5, <2>1 DEF Mapped
  <2>2. CASE f \notin Opens(o)
    BY <1>4, <1>5, <2>2 DEF IInv, Bare
  <2> QED
    BY <2>1, <2>2
<1>8. Leads'
  <2> SUFFICES ASSUME NEW f \in Fd, NEW e \in DOMAIN fd'[f].map.buf,
                      fd'[f].open, f \notin inherited',
                      fd'[f].map.start + e < size'[fd'[f].obj],
                      f \in missed => IxSpan(fd'[f].map.start + e) # 0
               PROVE  fd'[f].map.buf[e] = <<fd'[f].obj, fd'[f].map.start + e>>
    BY <1>4 DEF Leads, Right
  <2>1. f \notin Opens(o) /\ fd[f].open /\ fd[f].obj # o
    BY <1>5 DEF Opens
  <2>2. /\ fd'[f] = fds[f] /\ fd'[f].obj = fd[f].obj
        /\ fd'[f].map.start = fd[f].map.start /\ e \in DOMAIN fd[f].map.buf
    BY <1>5, <2>1
  <2>3. fd[f].map.start + e < size[fd[f].obj] /\ fd[f].obj \in Obj
    <3>1. fd[f].obj \in Obj
      BY <1>1 DEF Descriptor
    <3> QED
      BY <1>1, <1>4, <2>1, <2>2, <3>1
  <2>4. fd[f].map.buf[e] = <<fd[f].obj, fd[f].map.start + e>>
    BY <1>4, <2>1, <2>2, <2>3 DEF IInv, Leads, Right
  <2>5. fd[f].map.start + e \in Nat
    <3>1. fd[f].map.start \in Nat /\ fd[f].map.buf \in Buf
      BY <1>1 DEF Descriptor, Map
    <3>2. PICK k \in Nat : DOMAIN fd[f].map.buf = 0 .. k - 1
      BY <3>1, BufDomain
    <3> QED
      BY <2>2, <3>1, <3>2
  <2>6. fd[f].map.buf[e] \notin P
    BY <1>3, <2>1, <2>3, <2>4, <2>5
  <2>7. IsOutdated(fds[f], fd[f], P)
    BY <1>2
  <2> QED
    BY <2>2, <2>4, <2>6, <2>7 DEF IsOutdated
<1> QED
  BY <1>6, <1>7, <1>8 DEF IInv

(* Descriptor f becomes d.                                                 *)
Changes(f, d) ==
  /\ d \in Descriptor
  /\ fd' = [fd EXCEPT ![f] = d]
  /\ size' = size
  /\ missed' = missed \/ missed' = missed \ {f}
  /\ inherited' = inherited \/ inherited' = inherited \ {f}
  /\ d.open \/ f \in inherited' \/ DOMAIN d.map.buf = {}
  /\ \A e \in DOMAIN d.map.buf :
       /\ d.open /\ f \notin inherited'
       /\ d.map.start + e < size[d.obj]
       /\ f \in missed' => IxSpan(d.map.start + e) # 0
       => Right(d, e)

LEMMA OneDescriptor ==
  ASSUME IInv, NEW f \in Fd, NEW d, Changes(f, d)
  PROVE  IInv'
<1>1. fd \in [Fd -> Descriptor]
  BY DEF IInv, Types
<1>2. fd'[f] = d /\ \A g \in Fd \ {f} : fd'[g] = fd[g]
  BY <1>1 DEF Changes
<1>3. Types'
  BY <1>1 DEF Changes, IInv, Types
<1>4. Bare'
  BY <1>2 DEF Changes, IInv, Bare
<1>5. Leads'
  <2> SUFFICES ASSUME NEW g \in Fd, NEW e \in DOMAIN fd'[g].map.buf,
                      fd'[g].open, g \notin inherited',
                      fd'[g].map.start + e < size'[fd'[g].obj],
                      g \in missed' => IxSpan(fd'[g].map.start + e) # 0
               PROVE  Right(fd'[g], e)
    BY DEF Leads, Right
  <2>1. CASE g = f
    BY <1>2, <2>1 DEF Changes
  <2>2. CASE g # f
    <3>1. fd'[g] = fd[g] /\ g \notin inherited /\ (g \in missed => g \in missed') /\ size' = size
      BY <1>2, <2>2 DEF Changes
    <3> QED
      BY <3>1 DEF IInv, Leads
  <2> QED
    BY <2>1, <2>2
<1> QED
  BY <1>3, <1>4, <1>5 DEF IInv

LEMMA OpenStep ==
  ASSUME IInv, NEW f \in Fd, NEW o \in Obj, Open(f, o)
  PROVE  IInv'
<1> DEFINE d == [fd[f] EXCEPT !.open = TRUE, !.obj = o]
<1>1. /\ fd' = [fd EXCEPT ![f] = d]
      /\ size' = size /\ missed' = missed /\ inherited' = inherited
      /\ ~fd[f].open
  BY DEF Open, FirstClosed, Closed
<1>2. fd[f] \in Descriptor
  BY DEF IInv, Types
<1>3. d \in Descriptor /\ d.open /\ d.map = fd[f].map
  BY <1>2 DEF Descriptor
<1>4. f \in inherited \/ DOMAIN d.map.buf = {}
  BY <1>1, <1>3 DEF IInv, Bare
<1> HIDE DEF d
<1>5. Changes(f, d)
  BY <1>1, <1>3, <1>4 DEF Changes
<1> QED
  BY <1>5, OneDescriptor

LEMMA CloseStep ==
  ASSUME IInv, NEW f \in Fd, Close(f)
  PROVE  IInv'
<1>1. Changes(f, ClosedFd(NoMap))
  BY NoMapType, ClosedType DEF Changes, Close, Unmapped
<1> QED
  BY <1>1, OneDescriptor

(* The map of f is dropped.                                                *)
LEMMA UnmapStep ==
  ASSUME IInv, NEW f \in Fd, fd' = [fd EXCEPT ![f].map = NoMap], Unmapped({f}), size' = size
  PROVE  IInv'
<1> DEFINE d == [fd[f] EXCEPT !.map = NoMap]
<1>1. fd[f] \in Descriptor
  BY DEF IInv, Types
<1>2. d \in Descriptor /\ d.map = NoMap
  BY <1>1, NoMapType DEF Descriptor
<1>3. fd' = [fd EXCEPT ![f] = d]
  OBVIOUS
<1> HIDE DEF d
<1>4. Changes(f, d)
  BY <1>2, <1>3, NoMapType DEF Changes, Unmapped
<1> QED
  BY <1>4, OneDescriptor

LEMMA RemountStep ==
  ASSUME IInv, Remount
  PROVE  IInv'
<1>1. fd' = [f \in Fd |-> ClosedFd(NoMap)] /\ size' = size /\ missed' = {} /\ inherited' = {}
  BY DEF Remount, Unmapped, IInv, Types
<1>2. /\ ClosedFd(NoMap) \in Descriptor /\ ~ClosedFd(NoMap).open
      /\ DOMAIN ClosedFd(NoMap).map.buf = {}
  BY NoMapType, ClosedType
<1>3. \A f \in Fd : fd'[f] = ClosedFd(NoMap)
  BY <1>1
<1>4. Types'
  BY <1>1, <1>2 DEF IInv, Types
<1> QED
  BY <1>2, <1>3, <1>4 DEF IInv, Bare, Leads

(* An offset in bytes is in some data span.                                *)
LEMMA OffsetSpan ==
  ASSUME NEW offset \in Offsets
  PROVE  offset \div DPS \in Nat
BY IxMapAssumption

LEMMA MapStep ==
  ASSUME IInv, NEW f \in Fd, NEW offset \in Offsets, NEW len \in Lens, IxMap(f, offset, len)
  PROVE  IInv'
<1> DEFINE n == Entries(offset, len)
           map == Cleared(offset \div DPS, n)
           new == Populated(map, 0, fd[f].obj, size[fd[f].obj])
           d == [fd[f] EXCEPT !.map = new]
<1>1. fd[f] \in Descriptor /\ size \in [Obj -> -1 .. MaxSize]
  BY DEF IInv, Types
<1>2. fd[f].obj \in Obj /\ size[fd[f].obj] \in Int
  BY <1>1, IxMapAssumption DEF Descriptor
<1>3. n \in Int
  BY IxMapAssumption DEF Entries
<1>4. map \in Map /\ \A e \in DOMAIN map.buf : e >= 0
  <2>1. map \in Map
    BY <1>3, OffsetSpan, ClearedType
  <2>2. PICK k \in Nat : DOMAIN map.buf = 0 .. k - 1
    BY <2>1, BufDomain DEF Map
  <2> QED
    BY <2>1, <2>2
<1>5. fd' = [fd EXCEPT ![f] = d] /\ size' = size /\ missed' = missed /\ inherited' = inherited
      /\ fd[f].open
  BY DEF IxMap
<1> HIDE DEF n, map
<1>6. IsPopulated(new, map, 0, fd[f].obj, size[fd[f].obj])
  BY <1>2, <1>4, PopulatedEntries
<1> HIDE DEF new
<1>7. d \in Descriptor /\ d.map = new /\ d.open = fd[f].open /\ d.obj = fd[f].obj
  BY <1>1, <1>6 DEF Descriptor, IsPopulated
<1> HIDE DEF d
<1>8. Changes(f, d)
  BY <1>4, <1>5, <1>6, <1>7 DEF Changes, Right, IsPopulated
<1> QED
  BY <1>8, OneDescriptor

LEMMA RemapStep ==
  ASSUME IInv, NEW f \in Fd, NEW offset \in Offsets, IxRemap(f, offset)
  PROVE  IInv'
<1> DEFINE map == fd[f].map
           o == fd[f].obj
           diff == offset \div DPS - map.start
           from == IF diff > 0 THEN VecLen(map) - diff ELSE 0
           new == Populated(Moved(map, diff), from, o, size[o])
           d == [fd[f] EXCEPT !.map = IF diff >= VecLen(map) THEN NoMap ELSE new]
<1>1. fd[f] \in Descriptor /\ size \in [Obj -> -1 .. MaxSize]
  BY DEF IInv, Types
<1>2. /\ o \in Obj /\ size[o] \in Int /\ map \in Map /\ map.start \in Nat
      /\ diff \in Int /\ map.start + diff \in Nat
  BY <1>1, OffsetSpan, IxMapAssumption DEF Descriptor, Map
<1>3. PICK k \in Nat : DOMAIN map.buf = 0 .. k - 1
  BY <1>2, BufDomain DEF Map
<1>4. VecLen(map) = k
  BY <1>3, FS_Interval DEF VecLen
<1>5. /\ fd' = [fd EXCEPT ![f] = d] /\ size' = size
      /\ missed' = missed /\ inherited' = inherited /\ fd[f].open
  BY DEF IxRemap
<1>6. CASE diff >= VecLen(map)
  <2>1. d \in Descriptor /\ DOMAIN d.map.buf = {}
    BY <1>1, <1>6, NoMapType DEF Descriptor
  <2> HIDE DEF d
  <2>2. Changes(f, d)
    BY <1>5, <2>1 DEF Changes
  <2> QED
    BY <2>2, OneDescriptor
<1>7. CASE ~(diff >= VecLen(map))
  <2> DEFINE mv == Moved(map, diff)
  <2>1. /\ mv \in Map /\ mv.start = map.start + diff /\ DOMAIN mv.buf = DOMAIN map.buf
        /\ \A e \in DOMAIN map.buf : e + diff \in DOMAIN map.buf => mv.buf[e] = map.buf[e + diff]
    BY <1>2, MovedEntries
  <2>2. from \in Int
    BY <1>2, <1>4
  <2>3. \A e \in DOMAIN map.buf : e < from => e + diff \in DOMAIN map.buf
    BY <1>2, <1>3, <1>4
  <2> HIDE DEF mv, from
  <2>4. IsPopulated(new, mv, from, o, size[o])
    BY <1>2, <2>1, <2>2, PopulatedEntries DEF mv
  <2> HIDE DEF new
  <2>5. d \in Descriptor /\ d.map = new /\ d.open = fd[f].open /\ d.obj = o
    BY <1>1, <1>7, <2>4 DEF Descriptor, IsPopulated
  <2>6. ASSUME NEW e \in DOMAIN map.buf, f \notin inherited,
               map.start + diff + e < size[o],
               f \in missed => IxSpan(map.start + diff + e) # 0
        PROVE  new.buf[e] = <<o, map.start + diff + e>>
    <3>1. CASE e >= from
      BY <2>1, <2>4, <2>6, <3>1 DEF IsPopulated
    <3>2. CASE ~(e >= from)
      <4>1. e + diff \in DOMAIN map.buf /\ mv.buf[e] = map.buf[e + diff]
        BY <1>3, <2>1, <2>2, <2>3, <3>2
      <4>2. map.start + (e + diff) = map.start + diff + e
        BY <1>2, <1>3
      <4>3. map.buf[e + diff] = <<o, map.start + (e + diff)>>
        BY <1>5, <2>6, <4>1, <4>2 DEF IInv, Leads, Right
      <4> QED
        BY <2>1, <2>4, <2>6, <4>1, <4>2, <4>3 DEF IsPopulated
    <3> QED
      BY <3>1, <3>2
  <2> HIDE DEF d
  <2>7. Changes(f, d)
    BY <1>5, <2>1, <2>4, <2>5, <2>6 DEF Changes, Right, IsPopulated
  <2> QED
    BY <2>7, OneDescriptor
<1> QED
  BY <1>6, <1>7

-----------------------------------------------------------------------------
(* The invariant.                                                          *)

LEMMA InitInvariant == Init => IInv
<1> SUFFICES ASSUME Init
             PROVE  IInv
  OBVIOUS
<1>1. /\ ClosedFd(NoMap) \in Descriptor /\ ~ClosedFd(NoMap).open
      /\ DOMAIN ClosedFd(NoMap).map.buf = {}
  BY NoMapType, ClosedType
<1>2. Types
  BY <1>1, IxMapAssumption DEF Init, Types
<1> QED
  BY <1>1, <1>2 DEF Init, IInv, Bare, Leads

LEMMA NextInvariant == IInv /\ [Next]_vars => IInv'
<1> SUFFICES ASSUME IInv, [Next]_vars
             PROVE  IInv'
  OBVIOUS
<1>1. ASSUME NEW f \in Fd, NEW o \in Obj, Open(f, o)
      PROVE  IInv'
  BY <1>1, OpenStep
<1>2. ASSUME NEW f \in Fd, NEW o \in Obj, Create(f, o)
      PROVE  IInv'
  BY <1>2, CreateStep
<1>3. ASSUME NEW f \in Fd, NEW o \in Obj, OpenAndReturn(f, o)
      PROVE  IInv'
  BY <1>3, UnmapStep DEF OpenAndReturn
<1>4. ASSUME NEW o \in Obj, Remove(o)
      PROVE  IInv'
  BY <1>4, RemoveStep
<1>5. ASSUME NEW f \in Fd, Close(f)
      PROVE  IInv'
  BY <1>5, CloseStep
<1>6. ASSUME NEW f \in Fd, IxUnmap(f)
      PROVE  IInv'
  BY <1>6, UnmapStep DEF IxUnmap
<1>7. ASSUME NEW f \in Fd, NEW offset \in Offsets, IxRemap(f, offset)
      PROVE  IInv'
  BY <1>7, RemapStep
<1>8. ASSUME NEW f \in Fd, NEW offset \in Offsets, NEW len \in Lens, IxMap(f, offset, len)
      PROVE  IInv'
  BY <1>8, MapStep
<1>9. ASSUME NEW o \in Obj, NEW n \in 0 .. MaxSize, Truncate(o, n)
      PROVE  IInv'
  BY <1>9, TruncateStep
<1>10. ASSUME NEW o \in Obj, NEW n \in 0 .. MaxSize, n > 0, Append(o, n)
       PROVE  IInv'
  BY <1>10, AppendStep
<1>11. ASSUME NEW o \in Obj, NEW n \in 0 .. MaxSize, NEW s \in Span, Modify(o, s, n)
       PROVE  IInv'
  BY <1>11, RewriteStep DEF Modify
<1>12. ASSUME NEW o \in Obj, NEW S \in SUBSET Span, Collect(o, S)
       PROVE  IInv'
  BY <1>12, RewriteStep DEF Collect
<1>13. CASE Remount
  BY <1>13, RemountStep
<1>14. CASE UNCHANGED vars
  BY <1>14 DEF vars, IInv, Types, Leads, Right, Bare
<1> QED
  BY <1>1, <1>2, <1>3, <1>4, <1>5, <1>6, <1>7, <1>8, <1>9, <1>10, <1>11, <1>12, <1>13, <1>14
  DEF Next

THEOREM Invariance == Spec => []IInv
BY InitInvariant, NextInvariant, PTL DEF Spec

-----------------------------------------------------------------------------

(* Every variable keeps its type, for any file system geometry.            *)
THEOREM TypeCorrect == Spec => []TypeOK
<1>1. IInv => TypeOK
  BY DEF IInv, Types, TypeOK, Descriptor, Map
<1> QED
  BY <1>1, Invariance, PTL

(* A mapped descriptor reads its own file's data (spiffs_object_read).     *)
THEOREM MapLeadsCorrect == Spec => []MapLeads
<1>1. ASSUME IInv, NEW f \in Fd, NEW s \in Span, Judged(f, s), s < size[fd[f].obj],
             Reads(f, s) # <<fd[f].obj, s>>
      PROVE  FALSE
  <2> DEFINE map == fd[f].map
             e == s - map.start
  <2>1. map.start \in Nat /\ s \in Nat
    BY <1>1 DEF IInv, Types, Descriptor, Map, Span
  <2>2. e \in DOMAIN map.buf /\ Reads(f, s) = map.buf[e]
    BY <1>1 DEF Reads
  <2>3. map.start + e = s
    BY <2>1
  <2>4. map.buf[e] = <<fd[f].obj, map.start + e>>
    BY <1>1, <2>2, <2>3 DEF IInv, Leads, Right, Judged
  <2> QED
    BY <1>1, <2>2, <2>3, <2>4
<1>2. IInv => MapLeads
  BY <1>1 DEF MapLeads
<1> QED
  BY <1>2, Invariance, PTL

(* A map has a place for every span of the file that it covers             *)
(* (spiffs_populate_ix_map, spiffs_update_ix_map).                         *)
THEOREM MapFilledCorrect == Spec => []MapFilled
<1>1. \A o, s : <<o, s>> # NoPage
  BY DEF NoPage
<1>2. IInv => MapFilled
  BY <1>1 DEF IInv, Leads, Right, MapFilled, Judged
<1> QED
  BY <1>2, Invariance, PTL
=============================================================================
