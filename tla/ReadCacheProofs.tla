-------------------------- MODULE ReadCacheProofs --------------------------
(***************************************************************************)
(* Proofs about ReadCache, for any items, buffers and bounds: how old what *)
(* a process is shown may be.                                              *)
(*                                                                         *)
(* Of a buffer two things may be known.  It is never newer than the disk,  *)
(* and never older than what the process knows (Latest).  If nobody else   *)
(* writes to its item, it is the part file itself (Alone).  The lemmas     *)
(* before the steps say what V_GET, V_CLR and a write make of the buffers  *)
(* and of the files.                                                       *)
(***************************************************************************)
EXTENDS ReadCache, FiniteSetTheorems, TLAPS

Bufs == [item : Items \cup {0, -1}, first : Nat, vers : Seq(Nat), used : 0 .. NBuf]
Dirs == [item : Items, starts : SUBSET Nat]

Types ==
  /\ text \in [Items -> Seq(Nat)] /\ starts \in [Items -> SUBSET Nat]
  /\ cache \in [Buffers -> Bufs]
  /\ pdir = Other \/ (pdir \in Dirs /\ 0 \in pdir.starts)
  /\ DOMAIN known = Items /\ \A i \in Items : known[i] \in [1 .. MaxResp[i] + 1 -> Nat]
  /\ twin \in BOOLEAN /\ asked \in BOOLEAN

\* The files of an item: text txt, in parts that start with sts, of which the
\* process knows kn.
Filed(i, txt, sts, kn) ==
  /\ Len(txt) \in 1 .. MaxResp[i] + 1
  /\ \A k \in 1 .. Len(txt) : txt[k] \in 1 .. MaxVer[i]
  /\ 0 \in sts /\ \A s \in sts : s < Len(txt)
  /\ \A k \in 1 .. MaxResp[i] + 1 : kn[k] > 0 => k <= Len(txt) /\ kn[k] <= txt[k]

\* A buffer has responses that are there, and no version that never was.
Past(x, txt) ==
  /\ last(x) < Len(txt)
  /\ \A k \in 1 .. Len(x.vers) : x.vers[k] \in 1 .. txt[x.first + k]

\* A buffer is a part file.
Whole(x, txt, sts) ==
  /\ x.first \in sts /\ x.first <= last(x) /\ last(x) < Len(txt)
  /\ \A k \in 1 .. Len(x.vers) : x.vers[k] = txt[x.first + k]
  /\ last(x) + 1 = Len(txt) \/ last(x) + 1 \in sts
  /\ \A t \in sts : t <= x.first \/ last(x) < t

Disk == \A i \in Items : Filed(i, text[i], starts[i], known[i])
Cached == \A b \in Buffers : cache[b].item \in Items => Past(cache[b], text[cache[b].item])

\* A response is in one buffer.
Single(c) ==
  \A i \in Items : \A r \in Resps(i) : \A b, d \in Buffers :
    Holds(c[b], i, r) /\ Holds(c[d], i, r) => b = d

\* A buffer is not older than what the process knows of item i.
Recent(c, i, kn) ==
  \A b \in Buffers : \A r \in Resps(i) :
    Holds(c[b], i, r) => kn[r + 1] <= c[b].vers[r - c[b].first + 1]

Latest == ~twin => Single(cache) /\ \A i \in Items : Recent(cache, i, known[i])

\* The buffers of item i are part files, and the directory dir, if it is this
\* item's, has the ends of those parts.
Own(c, i, txt, sts) ==
  /\ \A b \in Buffers : c[b].item = i => Whole(c[b], txt, sts)
  /\ \A b, d \in Buffers : c[b].item = i /\ c[d].item = i /\ c[b].first = c[d].first => b = d

Agrees(c, i, txt, dir) ==
  dir # Other /\ dir.item = i =>
    \A b \in Buffers : c[b].item = i => last(c[b]) + 1 \in dir.starts \cup {Len(txt)}

Alone ==
  ~asked => \A i \in Items \ shared :
    Own(cache, i, text[i], starts[i]) /\ Agrees(cache, i, text[i], pdir)

IInv == Types /\ Disk /\ Cached /\ Latest /\ Alone /\ TwinsByOthers

-----------------------------------------------------------------------------
(* Numbers: the first, the last, and more than one.                        *)

\* Every set of numbers has a least one.
LEMMA LeastNumber ==
  ASSUME NEW T, T \subseteq Nat, T # {}
  PROVE  \E n \in T : \A m \in T : n <= m
<1> DEFINE R == {ss \in Nat \X Nat : ss[1] < ss[2]}
<1>1. IsWellFoundedOn(R, Nat)
  BY NatLessThanWellFounded DEF OpToRel
<1>2. \A m, n \in T : <<m, n>> \in R <=> m < n
  OBVIOUS
<1> HIDE DEF R
<1>3. PICK n \in T : \A m \in T : ~(<<m, n>> \in R)
  BY <1>1, WFMin, Zenon
<1>4. \A m \in T : ~(m < n)
  BY <1>2, <1>3, Zenon
<1>5. \A m \in T : n <= m
  BY <1>4
<1> QED
  BY <1>5

LEMMA LeastIs ==
  ASSUME NEW S, S \subseteq Nat, S # {}
  PROVE  Least(S) \in S /\ \A d \in S : Least(S) <= d
<1>1. \E n \in S : \A m \in S : n <= m
  BY LeastNumber, Zenon
<1> QED
  BY <1>1, Zenon DEF Least

\* partnum() finds the part that r is in.
LEMMA PartnumIs ==
  ASSUME NEW dir, dir \subseteq Nat, 0 \in dir, NEW r \in Nat
  PROVE  LET s == partnum(dir, r) IN
         s \in dir /\ s <= r /\ \A t \in dir : t <= s \/ r < t
<1> DEFINE T == {r - s : s \in {s \in dir : s <= r}}
<1>1. T \subseteq Nat /\ T # {}
  <2>1. \A s \in dir : s <= r => r - s \in Nat
    OBVIOUS
  <2>2. r - 0 \in T
    OBVIOUS
  <2> QED
    BY <2>1, <2>2
<1>2. PICK n \in T : \A m \in T : n <= m
  <2> HIDE DEF T
  <2> QED
    BY <1>1, LeastNumber, Zenon
<1>3. PICK s \in dir : s <= r /\ n = r - s
  OBVIOUS
<1>4. \A t \in dir : t <= s \/ r < t
  <2>1. SUFFICES ASSUME NEW t \in dir, ~(r < t) PROVE t <= s
    BY Zenon
  <2>2. t <= r /\ r - t \in T
    <3>1. t <= r
      BY <2>1
    <3> QED
      BY <3>1
  <2> QED
    BY <1>2, <1>3, <2>2
<1>5. \E x \in dir : x <= r /\ \A t \in dir : t <= x \/ r < t
  BY <1>3, <1>4
<1> QED
  BY <1>5, Zenon DEF partnum

\* Sequences of versions.
LEMMA ElementOf ==
  ASSUME NEW q \in Seq(Nat), NEW k \in 1 .. Len(q)
  PROVE  q[k] \in Nat
OBVIOUS

LEMMA ExceptIs ==
  ASSUME NEW q \in Seq(Nat), NEW k \in 1 .. Len(q), NEW v \in Nat
  PROVE  /\ [q EXCEPT ![k] = v] \in Seq(Nat) /\ Len([q EXCEPT ![k] = v]) = Len(q)
         /\ \A j \in 1 .. Len(q) : [q EXCEPT ![k] = v][j] = IF j = k THEN v ELSE q[j]
OBVIOUS

LEMMA SubSeqIs ==
  ASSUME NEW q \in Seq(Nat), NEW m \in 1 .. Len(q), NEW n \in m .. Len(q)
  PROVE  /\ SubSeq(q, m, n) \in Seq(Nat) /\ Len(SubSeq(q, m, n)) = n - m + 1
         /\ \A k \in 1 .. n - m + 1 : SubSeq(q, m, n)[k] = q[m + k - 1]
<1>1. Len(SubSeq(q, m, n)) = n - m + 1
  OBVIOUS
<1>2. \A k \in 1 .. n - m + 1 : SubSeq(q, m, n)[k] = q[m + k - 1]
  OBVIOUS
<1>3. SubSeq(q, m, n) \in Seq(Nat)
  OBVIOUS
<1> QED
  BY <1>1, <1>2, <1>3

\* Two buffers with one response are what Twins looks for.
LEMMA TwinsAre ==
  ASSUME NEW c
  PROVE  Twins(c) <=> ~Single(c)
<1> SUFFICES ASSUME NEW i \in Items, NEW r \in Resps(i)
             PROVE  Cardinality(Matching(c, i, r)) > 1 <=>
                      \E b, d \in Buffers : Holds(c[b], i, r) /\ Holds(c[d], i, r) /\ b # d
  BY DEF Twins, Single
<1> DEFINE S == Matching(c, i, r)
<1>0. \A b : b \in S <=> b \in Buffers /\ Holds(c[b], i, r)
  BY DEF Matching
<1>1. IsFiniteSet(S) /\ Cardinality(S) \in Nat
  <2>1. IsFiniteSet(Buffers)
    BY ReadCacheAssumption, FS_Interval DEF Buffers
  <2>2. S \in SUBSET Buffers
    BY DEF Matching
  <2> QED
    BY <2>1, <2>2, FS_Subset, FS_CardinalityType
<1>2. Cardinality(S) > 1 <=> \E b, d \in S : b # d
  <2> HIDE DEF S
  <2>1. Cardinality(S) = 0 <=> S = {}
    BY <1>1, FS_EmptySet
  <2>2. Cardinality(S) = 1 <=> \E x : S = {x}
    BY <1>1, FS_Singleton, Zenon
  <2>3. ASSUME \E b, d \in S : b # d PROVE Cardinality(S) > 1
    <3>1. S # {} /\ ~\E x : S = {x}
      BY <2>3
    <3>2. Cardinality(S) # 0 /\ Cardinality(S) # 1
      BY <2>1, <2>2, <3>1
    <3> QED
      BY <1>1, <3>2
  <2>4. ASSUME ~\E b, d \in S : b # d PROVE ~(Cardinality(S) > 1)
    <3>1. S = {} \/ \E x : S = {x}
      BY <2>4
    <3> QED
      BY <1>1, <2>1, <2>2, <3>1
  <2> QED
    BY <2>3, <2>4
<1> HIDE DEF S
<1>3. (\E b, d \in S : b # d) <=>
        \E b, d \in Buffers : Holds(c[b], i, r) /\ Holds(c[d], i, r) /\ b # d
  BY <1>0, Zenon
<1> QED
  BY <1>2, <1>3 DEF S

-----------------------------------------------------------------------------
(* V_GET and V_CLR.                                                        *)

\* Two buffers with the same contents.
Same(x, y) == x.item = y.item /\ x.first = y.first /\ x.vers = y.vers

LEMMA TextIs ==
  ASSUME Types, NEW i \in Items
  PROVE  text[i] \in Seq(Nat) /\ Len(text[i]) \in Nat /\ starts[i] \subseteq Nat
<1>1. text[i] \in Seq(Nat) /\ starts[i] \subseteq Nat
  BY DEF Types
<1> QED
  BY <1>1

\* What is read from a part file.
LEMMA PartIs ==
  ASSUME Types, Disk, NEW i \in Items, NEW s \in starts[i]
  PROVE  LET v == Part(i, s) IN
         /\ v \in Seq(Nat) /\ Len(v) > 0 /\ s + Len(v) <= Len(text[i])
         /\ \A k \in 1 .. Len(v) : v[k] = text[i][s + k]
         /\ s + Len(v) = Len(text[i]) \/ s + Len(v) \in starts[i]
         /\ \A t \in starts[i] : t <= s \/ s + Len(v) <= t
<1> DEFINE Later == {t \in starts[i] : t > s}
           end == IF Later = {} THEN Len(text[i])
                  ELSE CHOOSE t \in Later : \A u \in Later : t <= u
<1>0. /\ text[i] \in Seq(Nat) /\ starts[i] \subseteq Nat /\ s \in Nat /\ Len(text[i]) \in Nat
      /\ \A t \in starts[i] : t < Len(text[i])
  BY DEF Types, Disk, Filed
<1>1. /\ end \in Nat /\ s < end /\ end <= Len(text[i])
      /\ end = Len(text[i]) \/ end \in starts[i]
      /\ \A t \in starts[i] : t <= s \/ end <= t
  <2>1. CASE Later = {}
    <3>1. end = Len(text[i])
      BY <2>1
    <3>2. \A t \in starts[i] : t <= s
      BY <1>0, <2>1
    <3> QED
      BY <1>0, <3>1, <3>2
  <2>2. CASE Later # {}
    <3>1. Later \subseteq Nat
      BY <1>0
    <3>2. \E t \in Later : \A u \in Later : t <= u
      BY <2>2, <3>1, LeastNumber, Zenon
    <3>3. end \in Later /\ \A u \in Later : end <= u
      <4> HIDE DEF Later
      <4> QED
        BY <2>2, <3>2
    <3> HIDE DEF end
    <3> QED
      BY <1>0, <3>3
  <2> QED
    BY <2>1, <2>2
<1>2. Part(i, s) = SubSeq(text[i], s + 1, end)
  BY DEF Part
<1> HIDE DEF end
<1>3. /\ Part(i, s) \in Seq(Nat) /\ Len(Part(i, s)) = end - s
      /\ \A k \in 1 .. end - s : Part(i, s)[k] = text[i][s + k]
  <2>1. \A k \in s + 1 .. end : text[i][k] \in Nat
    BY <1>0, <1>1
  <2>2. /\ Part(i, s) \in Seq(Nat)
        /\ Len(Part(i, s)) = IF s + 1 <= end THEN end - (s + 1) + 1 ELSE 0
        /\ \A k \in 1 .. end - (s + 1) + 1 : Part(i, s)[k] = text[i][s + 1 + k - 1]
    BY <1>0, <1>1, <1>2, <2>1, SubSeqIs
  <2> QED
    BY <1>0, <1>1, <2>2
<1> QED
  BY <1>0, <1>1, <1>3

\* V_GET finds a buffer.
LEMMA HitIs ==
  ASSUME Types, NEW i \in Items, NEW r \in Nat
  PROVE  LET h == Hit(cache, i, r) IN
         /\ h \in Buffers
         /\ Holds(cache[h], i, r) \/ \A d \in Buffers : ~Holds(cache[d], i, r)
<1> DEFINE m == Matching(cache, i, r)
           old == {b \in Buffers : \A d \in Buffers : cache[b].used <= cache[d].used}
<1>0. Buffers \subseteq Nat /\ 1 \in Buffers
  BY ReadCacheAssumption DEF Buffers
<1>1. CASE m # {}
  <2>1. m \subseteq Nat /\ \A b \in m : b \in Buffers /\ Holds(cache[b], i, r)
    BY <1>0, Zenon DEF Matching
  <2>2. Least(m) \in m
    BY <1>1, <2>1, LeastIs
  <2>3. Hit(cache, i, r) = Least(m)
    BY <1>1 DEF Hit
  <2> QED
    BY <2>1, <2>2, <2>3
<1>2. CASE m = {}
  <2>1. \A d \in Buffers : ~Holds(cache[d], i, r)
    BY <1>2 DEF Matching
  <2>2. old # {}
    <3> DEFINE U == {cache[b].used : b \in Buffers}
    <3>1. \A b \in Buffers : cache[b].used \in Nat
      BY ReadCacheAssumption DEF Types, Bufs
    <3>2. U \subseteq Nat /\ cache[1].used \in U
      BY <1>0, <3>1, Zenon
    <3>3. PICK u \in U : \A w \in U : u <= w
      <4> HIDE DEF U
      <4> QED
        BY <3>2, LeastNumber, Zenon
    <3>4. PICK b \in Buffers : u = cache[b].used
      OBVIOUS
    <3>5. \A d \in Buffers : cache[d].used \in U
      OBVIOUS
    <3>6. \A d \in Buffers : cache[b].used <= cache[d].used
      BY <3>3, <3>4, <3>5, Zenon
    <3> QED
      BY <3>6
  <2>3. Least(old) \in old
    <3>1. old \subseteq Nat
      BY <1>0, Zenon
    <3> HIDE DEF old
    <3> QED
      BY <2>2, <3>1, LeastIs, Zenon
  <2>4. Hit(cache, i, r) = Least(old)
    BY <1>2 DEF Hit
  <2> QED
    BY <2>1, <2>3, <2>4
<1> QED
  BY <1>1, <1>2

\* There are no more ranks than buffers.
LEMMA RankIs ==
  ASSUME NEW f \in [Buffers -> Nat], NEW S \in SUBSET Buffers
  PROVE  Cardinality({f[e] : e \in S} \ {0}) \in 0 .. NBuf
<1> DEFINE T == {f[e] : e \in S}
           g == [e \in S |-> f[e]]
<1>1. IsFiniteSet(Buffers) /\ Cardinality(Buffers) = NBuf
  BY ReadCacheAssumption, FS_Interval DEF Buffers
<1>2. IsFiniteSet(S) /\ Cardinality(S) \in Nat /\ Cardinality(S) <= NBuf
  BY <1>1, FS_Subset, FS_CardinalityType
<1>3. g \in Surjection(S, T)
  BY DEF Surjection
<1> HIDE DEF T, g
<1>4. IsFiniteSet(T) /\ Cardinality(T) \in Nat /\ Cardinality(T) <= Cardinality(S)
  BY <1>2, <1>3, FS_Surjection, FS_CardinalityType
<1>5. T \ {0} \in SUBSET T
  OBVIOUS
<1>6. Cardinality(T \ {0}) \in Nat /\ Cardinality(T \ {0}) <= Cardinality(T)
  BY <1>4, <1>5, FS_Subset, FS_CardinalityType
<1>7. Cardinality(T \ {0}) \in 0 .. NBuf
  BY <1>2, <1>4, <1>6, ReadCacheAssumption
<1> QED
  BY <1>7 DEF T

\* The buffer after getline2().
LEMMA BufIs ==
  ASSUME Types, Disk, NEW i \in Items, NEW r \in Nat
  PROVE  LET old == cache[Hit(cache, i, r)]
             x == Buf(i, r)
         IN
         /\ x \in Bufs
         /\ Kept(old, i, r) => x = old
         /\ ~Kept(old, i, r) =>
              /\ x.item = i /\ Whole(x, text[i], starts[i]) /\ x.first <= r
              /\ r < Len(text[i]) => Holds(x, i, r)
<1> DEFINE old == cache[Hit(cache, i, r)]
           s == partnum(starts[i], r)
           v == Part(i, s)
           x == [old EXCEPT !.item = i, !.first = s, !.vers = v]
<1>0. old \in Bufs
  BY HitIs DEF Types
<1>1. CASE Kept(old, i, r)
  <2>1. Buf(i, r) = old
    BY <1>1 DEF Buf
  <2> HIDE DEF old
  <2> QED
    BY <1>0, <1>1, <2>1 DEF old
<1>2. CASE ~Kept(old, i, r)
  <2>1. Buf(i, r) = x
    BY <1>2 DEF Buf
  <2>2. starts[i] \subseteq Nat /\ 0 \in starts[i] /\ Len(text[i]) \in Nat
    BY DEF Types, Disk, Filed
  <2>3. s \in starts[i] /\ s \in Nat /\ s <= r /\ \A t \in starts[i] : t <= s \/ r < t
    BY <2>2, PartnumIs
  <2>4. /\ v \in Seq(Nat) /\ Len(v) > 0 /\ s + Len(v) <= Len(text[i])
        /\ \A k \in 1 .. Len(v) : v[k] = text[i][s + k]
        /\ s + Len(v) = Len(text[i]) \/ s + Len(v) \in starts[i]
        /\ \A t \in starts[i] : t <= s \/ s + Len(v) <= t
    BY <2>3, PartIs, Zenon
  <2> HIDE DEF s, v, old
  <2>5. x \in Bufs /\ x.item = i /\ x.first = s /\ x.vers = v
    BY <1>0, <2>3, <2>4, Zenon DEF Bufs
  <2> HIDE DEF x
  <2>6. last(x) = s + Len(v) - 1 /\ Len(v) \in Nat
    BY <2>4, <2>5 DEF last
  <2>7. Whole(x, text[i], starts[i])
    <3>1. s <= last(x) /\ last(x) < Len(text[i]) /\ last(x) + 1 = s + Len(v)
      BY <2>2, <2>3, <2>4, <2>6
    <3>2. \A t \in starts[i] : t <= s \/ last(x) < t
      BY <2>2, <2>3, <2>4, <2>6
    <3> QED
      BY <2>3, <2>4, <2>5, <3>1, <3>2, Zenon DEF Whole
  <2>8. r < Len(text[i]) => Holds(x, i, r)
    BY <2>2, <2>3, <2>4, <2>5, <2>6, SMTT(30) DEF Holds
  <2> QED
    BY <1>2, <2>1, <2>3, <2>5, <2>7, <2>8 DEF old
<1> QED
  BY <1>1, <1>2

\* V_GET changes the buffer it returns, if any.
LEMMA LoadedIs ==
  ASSUME Types, Disk, NEW i \in Items, NEW r \in Nat
  PROVE  LET h == Hit(cache, i, r)
             c == Loaded(i, r)
         IN
         /\ h \in Buffers /\ c \in [Buffers -> Bufs]
         /\ \A d \in Buffers : d # h => Same(c[d], cache[d])
         /\ Same(c[h], Buf(i, r))
<1> DEFINE h == Hit(cache, i, r)
           c == Loaded(i, r)
           virgin == \A d \in Buffers : cache[d] = Unused
           stamp == [d \in Buffers |-> IF d # h THEN cache[d].used ELSE IF virgin THEN 0 ELSE NBuf + 1]
           rank(d) == Cardinality({stamp[e] : e \in {e \in Buffers : stamp[e] <= stamp[d]}} \ {0})
           was(d) == IF d = h THEN Buf(i, r) ELSE cache[d]
<1>1. h \in Buffers
  BY HitIs
<1>2. \A d \in Buffers : was(d) \in Bufs
  BY BufIs DEF Types
<1>3. stamp \in [Buffers -> Nat]
  <2>1. \A d \in Buffers : cache[d].used \in Nat
    BY ReadCacheAssumption DEF Types, Bufs
  <2>2. NBuf + 1 \in Nat
    BY ReadCacheAssumption
  <2> HIDE DEF h, virgin
  <2> QED
    BY <2>1, <2>2
<1>4. \A d \in Buffers : rank(d) \in 0 .. NBuf
  <2> HIDE DEF stamp
  <2> QED
    BY <1>3, RankIs, Zenon
<1>5. c = [d \in Buffers |-> [was(d) EXCEPT !.used = rank(d)]]
  BY DEF Loaded
<1> HIDE DEF h, c, was, rank
<1>6. \A d \in Buffers : [was(d) EXCEPT !.used = rank(d)] \in Bufs
  <2> SUFFICES ASSUME NEW x \in Bufs, NEW u \in 0 .. NBuf PROVE [x EXCEPT !.used = u] \in Bufs
    BY <1>2, <1>4
  <2> QED
    BY DEF Bufs
<1>7. \A d \in Buffers : Same(c[d], was(d))
  <2>1. ASSUME NEW x \in Bufs, NEW u PROVE Same([x EXCEPT !.used = u], x)
    BY DEF Bufs, Same
  <2> QED
    BY <1>2, <1>5, <2>1, Zenon
<1>8. c \in [Buffers -> Bufs]
  BY <1>5, <1>6
<1>9. \A d \in Buffers : was(d) = IF d = h THEN Buf(i, r) ELSE cache[d]
  BY DEF was
<1> QED
  BY <1>1, <1>7, <1>8, <1>9 DEF h, c

\* Only the buffer that V_GET returns holds the response, if none held it
\* before or only one.
LEMMA OnlyHit ==
  ASSUME Types, Disk, NEW i \in Items, NEW r \in Nat,
         \A b, d \in Buffers : Holds(cache[b], i, r) /\ Holds(cache[d], i, r) => b = d
  PROVE  \A d \in Buffers : Holds(Loaded(i, r)[d], i, r) =>
           d = Hit(cache, i, r) /\ Holds(Buf(i, r), i, r)
<1> DEFINE h == Hit(cache, i, r)
           c == Loaded(i, r)
<1>1. /\ h \in Buffers
      /\ Holds(cache[h], i, r) \/ \A d \in Buffers : ~Holds(cache[d], i, r)
  BY HitIs
<1>2. (\A d \in Buffers : d # h => Same(c[d], cache[d])) /\ Same(c[h], Buf(i, r))
  BY LoadedIs
<1> HIDE DEF h, c
<1>3. \A x, y : Same(x, y) => (Holds(x, i, r) <=> Holds(y, i, r))
  BY DEF Same, Holds, last
<1>4. SUFFICES ASSUME NEW d \in Buffers, Holds(c[d], i, r)
               PROVE  d = h /\ Holds(Buf(i, r), i, r)
  BY DEF h, c
<1>5. CASE d # h
  BY <1>1, <1>2, <1>3, <1>4, <1>5
<1> QED
  BY <1>2, <1>3, <1>4, <1>5

\* V_CLR takes one buffer that holds the response out of the cache.
LEMMA ClearedIs ==
  ASSUME NEW c \in [Buffers -> Bufs], NEW i, NEW r
  PROVE  LET e == Cleared(c, i, r) IN
         /\ e \in [Buffers -> Bufs]
         /\ \A d \in Buffers : e[d] = c[d] \/ e[d] = NoBuf
         /\ \A d \in Buffers : e[d] = NoBuf \/ ~Holds(c[d], i, r)
              \/ \E b \in Buffers : b # d /\ Holds(c[b], i, r)
<1> DEFINE m == Matching(c, i, r)
<1>1. NoBuf \in Bufs
  BY ReadCacheAssumption DEF NoBuf, Bufs
<1>2. CASE m = {}
  BY <1>2 DEF Cleared, Matching
<1>3. CASE m # {}
  <2>1. m \subseteq Nat /\ \A b : b \in m <=> b \in Buffers /\ Holds(c[b], i, r)
    BY DEF Matching, Buffers
  <2>2. Least(m) \in m
    BY <1>3, <2>1, LeastIs
  <2>3. Cleared(c, i, r) = [c EXCEPT ![Least(m)] = NoBuf]
    BY <1>3 DEF Cleared
  <2> HIDE DEF m
  <2> QED
    BY <1>1, <2>1, <2>2, <2>3
<1> QED
  BY <1>2, <1>3

-----------------------------------------------------------------------------
(* What a step makes of the buffers of an item.                            *)

\* A buffer that holds no response, and one that is as it was or read anew.
Blank(x) == x.item \in {0, -1}
Kin(c, i) ==
  \A d \in Buffers :
    Same(c[d], cache[d]) \/ Blank(c[d]) \/ (c[d].item = i /\ Whole(c[d], text[i], starts[i]))

LEMMA SameHolds ==
  ASSUME NEW x, NEW y, Same(x, y)
  PROVE  /\ last(x) = last(y)
         /\ \A i, r : Holds(x, i, r) <=> Holds(y, i, r)
         /\ \A txt : Past(x, txt) <=> Past(y, txt)
         /\ \A txt, sts : Whole(x, txt, sts) <=> Whole(y, txt, sts)
<1>1. x.item = y.item /\ x.first = y.first /\ x.vers = y.vers
  BY DEF Same
<1>2. last(x) = last(y)
  BY <1>1 DEF last
<1>3. \A i, r : Holds(x, i, r) <=> Holds(y, i, r)
  BY <1>1, <1>2, Zenon DEF Holds
<1>4. \A txt : Past(x, txt) <=> Past(y, txt)
  BY <1>1, <1>2, Zenon DEF Past
<1>5. \A txt, sts : Whole(x, txt, sts) <=> Whole(y, txt, sts)
  BY <1>1, <1>2, Zenon DEF Whole
<1> QED
  BY <1>2, <1>3, <1>4, <1>5

LEMMA LastIs ==
  ASSUME NEW x \in Bufs
  PROVE  /\ x.first \in Nat /\ x.vers \in Seq(Nat) /\ Len(x.vers) \in Nat
         /\ last(x) \in Int /\ last(x) = x.first + Len(x.vers) - 1
BY DEF Bufs, last

LEMMA BlankHolds ==
  ASSUME NEW x, Blank(x)
  PROVE  x.item \notin Items /\ \A i \in Items : \A r : ~Holds(x, i, r)
<1>1. x.item \notin Items
  BY ReadCacheAssumption DEF Blank
<1> QED
  BY <1>1 DEF Holds

LEMMA KinLoaded ==
  ASSUME Types, Disk, NEW i \in Items, NEW r \in Nat
  PROVE  Kin(Loaded(i, r), i)
<1> DEFINE h == Hit(cache, i, r)
           c == Loaded(i, r)
<1>1. /\ h \in Buffers /\ \A d \in Buffers : d # h => Same(c[d], cache[d])
      /\ Same(c[h], Buf(i, r))
  BY LoadedIs
<1>2. Buf(i, r) = cache[h] \/ (Buf(i, r).item = i /\ Whole(Buf(i, r), text[i], starts[i]))
  BY BufIs
<1> HIDE DEF h, c
<1>3. Same(c[h], cache[h]) \/ (c[h].item = i /\ Whole(c[h], text[i], starts[i]))
  <2>1. c[h].item = Buf(i, r).item
    BY <1>1 DEF Same
  <2> QED
    BY <1>1, <1>2, <2>1, SameHolds, Zenon
<1>4. Kin(c, i)
  BY <1>1, <1>3, Zenon DEF Kin
<1> QED
  BY <1>4 DEF c

LEMMA KinCleared ==
  ASSUME NEW i, NEW c \in [Buffers -> Bufs], Kin(c, i), NEW j, NEW r
  PROVE  Cleared(c, j, r) \in [Buffers -> Bufs] /\ Kin(Cleared(c, j, r), i)
<1> DEFINE e == Cleared(c, j, r)
<1>1. e \in [Buffers -> Bufs] /\ \A d \in Buffers : e[d] = c[d] \/ e[d] = NoBuf
  BY ClearedIs
<1> HIDE DEF e
<1>2. Blank(NoBuf)
  BY DEF Blank, NoBuf
<1>3. Kin(e, i)
  BY <1>1, <1>2, Zenon DEF Kin
<1> QED
  BY <1>1, <1>3 DEF e

LEMMA Inside ==
  ASSUME NEW f \in Nat, NEW n \in Nat, NEW m \in Nat, f + n - 1 < m
  PROVE  \A k \in 1 .. n : f + k \in 1 .. m
OBVIOUS

LEMMA Outside ==
  ASSUME NEW f \in Nat, NEW n \in Nat, NEW r \in Nat, ~(f <= r /\ r <= f + n - 1)
  PROVE  \A k \in 1 .. n : f + k # r + 1
OBVIOUS

\* Nothing is newer than the disk.
LEMMA CachedStep ==
  ASSUME Types, Disk, Cached, NEW i \in Items, NEW c \in [Buffers -> Bufs], Kin(c, i),
         NEW t \in [Items -> Seq(Nat)],
         \A j \in Items : /\ Len(text[j]) <= Len(t[j])
                          /\ \A k \in 1 .. Len(text[j]) : text[j][k] <= t[j][k]
  PROVE  \A b \in Buffers : c[b].item \in Items => Past(c[b], t[c[b].item])
<1> SUFFICES ASSUME NEW b \in Buffers, c[b].item \in Items
             PROVE  Past(c[b], t[c[b].item])
  OBVIOUS
<1> DEFINE x == c[b]
           j == x.item
<1>0. /\ x \in Bufs /\ x.first \in Nat /\ x.vers \in Seq(Nat) /\ last(x) = x.first + Len(x.vers) - 1
      /\ Len(x.vers) \in Nat
  BY DEF Bufs, last
<1>1. Past(x, text[j])
  <2>1. CASE Same(x, cache[b])
    <3>1. j = cache[b].item
      BY <2>1 DEF Same
    <3>2. Past(cache[b], text[j])
      BY <3>1 DEF Cached
    <3> QED
      BY <2>1, <3>2, SameHolds
  <2>2. CASE Blank(x)
    BY <2>2, BlankHolds
  <2>3. CASE j = i /\ Whole(x, text[i], starts[i])
    <3>1. /\ last(x) < Len(text[i])
          /\ \A k \in 1 .. Len(x.vers) : x.vers[k] = text[i][x.first + k]
      BY <2>3 DEF Whole
    <3>2. Len(text[i]) \in Nat /\ \A k \in 1 .. Len(text[i]) : text[i][k] \in Nat /\ text[i][k] >= 1
      <4>1. text[i] \in Seq(Nat) /\ MaxVer[i] \in Nat
        BY ReadCacheAssumption DEF Types
      <4>2. \A k \in 1 .. Len(text[i]) : text[i][k] \in 1 .. MaxVer[i]
        BY DEF Disk, Filed
      <4> QED
        BY <4>1, <4>2
    <3> HIDE DEF x
    <3>3. \A k \in 1 .. Len(x.vers) : x.first + k \in 1 .. Len(text[i])
      BY <1>0, <3>1, <3>2, Inside, Zenon
    <3>4. ASSUME NEW k \in 1 .. Len(x.vers) PROVE x.vers[k] \in 1 .. text[i][x.first + k]
      <4>1. text[i][x.first + k] \in Nat /\ text[i][x.first + k] >= 1
        BY <3>2, <3>3, Zenon
      <4>2. x.vers[k] = text[i][x.first + k]
        BY <3>1
      <4> QED
        BY <4>1, <4>2
    <3> QED
      BY <2>3, <3>1, <3>4 DEF Past
  <2> QED
    BY <2>1, <2>2, <2>3 DEF Kin
<1>2. /\ Len(text[j]) \in Nat /\ Len(t[j]) \in Nat /\ Len(text[j]) <= Len(t[j])
      /\ \A k \in 1 .. Len(text[j]) : text[j][k] \in Nat /\ t[j][k] \in Nat /\ text[j][k] <= t[j][k]
  <2> HIDE DEF j
  <2>0. j \in Items
    BY DEF j
  <2>1. text[j] \in Seq(Nat) /\ t[j] \in Seq(Nat)
    BY <2>0 DEF Types
  <2>2. Len(text[j]) <= Len(t[j]) /\ \A k \in 1 .. Len(text[j]) : text[j][k] <= t[j][k]
    BY <2>0
  <2>3. Len(text[j]) \in Nat /\ Len(t[j]) \in Nat
    BY <2>1
  <2>4. ASSUME NEW k \in 1 .. Len(text[j])
        PROVE  text[j][k] \in Nat /\ t[j][k] \in Nat
    <3>1. k \in 1 .. Len(t[j])
      BY <2>2, <2>3
    <3> QED
      BY <2>1, <3>1, ElementOf
  <2> QED
    BY <2>2, <2>3, <2>4
<1> HIDE DEF x, j
<1>3. last(x) < Len(t[j])
  BY <1>0, <1>1, <1>2 DEF Past
<1>4. \A k \in 1 .. Len(x.vers) : x.first + k \in 1 .. Len(text[j])
  BY <1>0, <1>1, <1>2, Inside, Zenon DEF Past
<1>5. ASSUME NEW k \in 1 .. Len(x.vers) PROVE x.vers[k] \in 1 .. t[j][x.first + k]
  <2> DEFINE a == text[j][x.first + k]
             z == t[j][x.first + k]
  <2>1. a \in Nat /\ z \in Nat /\ a <= z
    BY <1>2, <1>4, Zenon
  <2>2. x.vers[k] \in 1 .. a
    BY <1>1 DEF Past
  <2> HIDE DEF a, z
  <2>3. x.vers[k] \in 1 .. z
    BY <2>1, <2>2
  <2> QED
    BY <2>3 DEF z
<1> QED
  BY <1>3, <1>5 DEF Past, x, j

\* Nothing is older than what the process knows.
LEMMA RecentStep ==
  ASSUME Types, Disk, NEW i \in Items, NEW c \in [Buffers -> Bufs], Kin(c, i),
         NEW j \in Items, Recent(cache, j, known[j])
  PROVE  Recent(c, j, known[j])
<1> SUFFICES ASSUME NEW b \in Buffers, NEW r \in Resps(j), Holds(c[b], j, r)
             PROVE  known[j][r + 1] <= c[b].vers[r - c[b].first + 1]
  BY DEF Recent
<1>1. CASE Same(c[b], cache[b])
  <2>1. Holds(cache[b], j, r) /\ c[b].first = cache[b].first /\ c[b].vers = cache[b].vers
    BY <1>1, SameHolds DEF Same
  <2> QED
    BY <2>1 DEF Recent
<1>2. CASE Blank(c[b])
  BY <1>2, BlankHolds
<1>3. CASE c[b].item = i /\ Whole(c[b], text[i], starts[i])
  <2> DEFINE x == c[b]
             k == r - x.first + 1
  <2>1. /\ x.first \in Nat /\ Len(x.vers) \in Nat /\ r \in Nat /\ MaxResp[j] \in Nat
        /\ r <= MaxResp[j] /\ last(x) = x.first + Len(x.vers) - 1
    BY ReadCacheAssumption DEF Resps, Bufs, last
  <2>2. j = i /\ x.first <= r /\ r <= last(x)
    BY <1>3 DEF Holds
  <2>3. k \in 1 .. Len(x.vers) /\ x.first + k = r + 1 /\ r + 1 \in 1 .. MaxResp[j] + 1
    <3> HIDE DEF x
    <3> QED
      BY <2>1, <2>2, SMTT(30)
  <2>4. x.vers[k] = text[j][r + 1]
    BY <1>3, <2>2, <2>3 DEF Whole
  <2>5. last(x) < Len(text[j]) /\ text[j] \in Seq(Nat) /\ Len(text[j]) \in Nat
    BY <1>3, <2>2 DEF Whole, Types
  <2>6. r + 1 \in 1 .. Len(text[j])
    BY <2>1, <2>2, <2>5
  <2>7. text[j][r + 1] \in Nat /\ known[j][r + 1] \in Nat
    BY <2>3, <2>5, <2>6, ElementOf, Zenon DEF Types
  <2>8. known[j][r + 1] > 0 => known[j][r + 1] <= text[j][r + 1]
    BY <2>3 DEF Disk, Filed
  <2> HIDE DEF k, x
  <2>9. known[j][r + 1] <= x.vers[k]
    BY <2>4, <2>7, <2>8
  <2> QED
    BY <2>9 DEF k, x
<1> QED
  BY <1>1, <1>2, <1>3 DEF Kin

\* The process learns of a version, and has no older one.
LEMMA LearnStep ==
  ASSUME NEW i \in Items, NEW c, NEW kn \in [1 .. MaxResp[i] + 1 -> Nat],
         Recent(c, i, kn), NEW r \in Resps(i), NEW v,
         \A b \in Buffers : Holds(c[b], i, r) => v <= c[b].vers[r - c[b].first + 1]
  PROVE  Recent(c, i, [kn EXCEPT ![r + 1] = v])
<1> SUFFICES ASSUME NEW b \in Buffers, NEW s \in Resps(i), Holds(c[b], i, s)
             PROVE  [kn EXCEPT ![r + 1] = v][s + 1] <= c[b].vers[s - c[b].first + 1]
  BY DEF Recent
<1>1. s + 1 \in 1 .. MaxResp[i] + 1 /\ r \in Nat /\ s \in Nat
  BY ReadCacheAssumption DEF Resps
<1>2. [kn EXCEPT ![r + 1] = v][s + 1] = IF s = r THEN v ELSE kn[s + 1]
  BY <1>1
<1>3. kn[s + 1] <= c[b].vers[s - c[b].first + 1]
  BY DEF Recent
<1> QED
  BY <1>2, <1>3

\* Fewer buffers of an item that are part files.
LEMMA OwnLess ==
  ASSUME NEW i, NEW txt, NEW sts, NEW c, NEW e, Own(c, i, txt, sts),
         \A d \in Buffers : e[d].item = i => Same(e[d], c[d])
  PROVE  /\ Own(e, i, txt, sts)
         /\ \A dir : Agrees(c, i, txt, dir) => Agrees(e, i, txt, dir)
<1>1. \A d \in Buffers : e[d].item = i =>
        /\ c[d].item = i /\ c[d].first = e[d].first /\ last(c[d]) = last(e[d])
        /\ Whole(c[d], txt, sts) <=> Whole(e[d], txt, sts)
  BY SameHolds, Zenon DEF Same
<1>2. Own(e, i, txt, sts)
  BY <1>1, Zenon DEF Own
<1>3. \A dir : Agrees(c, i, txt, dir) => Agrees(e, i, txt, dir)
  BY <1>1, Zenon DEF Agrees
<1> QED
  BY <1>2, <1>3

\* V_GET of a response that is there.
LEMMA OwnLoaded ==
  ASSUME Types, Disk, NEW i \in Items, NEW r \in Nat, r < Len(text[i]),
         Own(cache, i, text[i], starts[i])
  PROVE  Own(Loaded(i, r), i, text[i], starts[i])
<1> DEFINE h == Hit(cache, i, r)
           c == Loaded(i, r)
           x == Buf(i, r)
<1>1. /\ h \in Buffers /\ c \in [Buffers -> Bufs]
      /\ \A d \in Buffers : d # h => Same(c[d], cache[d])
      /\ Same(c[h], x)
  BY LoadedIs
<1>2. \/ x = cache[h]
      \/ /\ ~Holds(cache[h], i, r) /\ x.item = i /\ Whole(x, text[i], starts[i])
         /\ Holds(x, i, r)
  BY BufIs DEF Kept
<1>3. Holds(cache[h], i, r) \/ \A d \in Buffers : ~Holds(cache[d], i, r)
  BY HitIs
<1> HIDE DEF h, c, x
<1>4. CASE x = cache[h]
  <2>1. \A d \in Buffers : Same(c[d], cache[d])
    BY <1>1, <1>4
  <2> QED
    BY <2>1, OwnLess DEF c
<1>5. CASE /\ ~Holds(cache[h], i, r) /\ x.item = i /\ Whole(x, text[i], starts[i])
           /\ Holds(x, i, r)
  <2>1. \A d \in Buffers : ~Holds(cache[d], i, r)
    BY <1>3, <1>5
  <2>2. c[h].item = i /\ Whole(c[h], text[i], starts[i]) /\ Holds(c[h], i, r)
    BY <1>1, <1>5, SameHolds DEF Same
  <2>3. \A d \in Buffers : d # h => Same(c[d], cache[d])
    BY <1>1
  <2>4. \A d \in Buffers : c[d].item = i => Whole(c[d], text[i], starts[i])
    <3> SUFFICES ASSUME NEW d \in Buffers, c[d].item = i, d # h PROVE Whole(c[d], text[i], starts[i])
      BY <2>2
    <3>1. Same(c[d], cache[d]) /\ cache[d].item = i
      BY <2>3 DEF Same
    <3>2. Whole(cache[d], text[i], starts[i])
      BY <3>1 DEF Own
    <3> QED
      BY <3>1, <3>2, SameHolds
  <2>5. ASSUME NEW d \in Buffers, d # h, c[d].item = i PROVE c[d].first # c[h].first
    <3>1. Same(c[d], cache[d])
      BY <2>3, <2>5
    <3>2. ~Holds(c[d], i, r)
      BY <2>1, <3>1, SameHolds
    <3>3. Whole(c[d], text[i], starts[i])
      BY <2>4, <2>5
    <3> DEFINE y == c[d]
               z == c[h]
    <3>4. /\ y.first \in Nat /\ last(y) \in Int /\ starts[i] \subseteq Nat /\ Len(text[i]) \in Nat
          /\ z.first \in Nat /\ last(z) \in Int
      <4>1. y \in Bufs /\ z \in Bufs
        BY <1>1
      <4>2. starts[i] \subseteq Nat /\ Len(text[i]) \in Nat
        BY DEF Types
      <4> QED
        BY <4>1, <4>2, LastIs
    <3>5. /\ y.item = i /\ ~(y.first <= r /\ r <= last(y))
          /\ last(y) + 1 = Len(text[i]) \/ last(y) + 1 \in starts[i]
      BY <2>5, <3>2, <3>3 DEF Holds, Whole
    <3>6. z.first <= r /\ r <= last(z) /\ \A t \in starts[i] : t <= z.first \/ last(z) < t
      BY <2>2 DEF Holds, Whole
    <3>7. y.first <= last(y)
      BY <3>3 DEF Whole
    <3> HIDE DEF y, z
    <3>8. y.first # z.first
      <4> SUFFICES ASSUME y.first = z.first PROVE FALSE
        OBVIOUS
      <4>1. last(y) < r
        BY <3>4, <3>5, <3>6
      <4>2. last(y) + 1 \in starts[i]
        BY <3>4, <3>5, <4>1
      <4>3. last(y) + 1 <= z.first \/ last(z) < last(y) + 1
        BY <3>6, <4>2
      <4> QED
        BY <3>4, <3>6, <3>7, <4>1, <4>3
    <3> QED
      BY <3>8 DEF y, z
  <2>6. ASSUME NEW b \in Buffers, NEW d \in Buffers, c[b].item = i, c[d].item = i,
               c[b].first = c[d].first
        PROVE  b = d
    <3>1. CASE b = h \/ d = h
      BY <2>5, <2>6, <3>1
    <3>2. CASE b # h /\ d # h
      <4>1. Same(c[b], cache[b]) /\ Same(c[d], cache[d])
        BY <2>3, <3>2
      <4> QED
        BY <2>6, <4>1, Zenon DEF Same, Own
    <3> QED
      BY <3>1, <3>2
  <2>7. Own(c, i, text[i], starts[i])
    BY <2>4, <2>6 DEF Own
  <2> QED
    BY <2>7 DEF c
<1> QED
  BY <1>2, <1>4, <1>5

\* Part files have no response in common.
LEMMA OwnSingle ==
  ASSUME NEW c \in [Buffers -> Bufs], NEW i, NEW txt, NEW sts, sts \subseteq Nat,
         Own(c, i, txt, sts), NEW r \in Nat, NEW b \in Buffers, NEW d \in Buffers,
         Holds(c[b], i, r), Holds(c[d], i, r)
  PROVE  b = d
<1> DEFINE x == c[b]
           y == c[d]
<1>1. /\ x.item = i /\ x.first <= r /\ r <= last(x)
      /\ y.item = i /\ y.first <= r /\ r <= last(y)
  BY DEF Holds
<1>2. /\ x.first \in Nat /\ last(x) \in Int /\ y.first \in Nat /\ last(y) \in Int
  BY LastIs
<1>3. /\ x.first \in sts /\ \A t \in sts : t <= x.first \/ last(x) < t
      /\ y.first \in sts /\ \A t \in sts : t <= y.first \/ last(y) < t
  BY <1>1 DEF Own, Whole
<1>4. x.first = y.first
  <2> HIDE DEF x, y
  <2>1. y.first <= x.first \/ last(x) < y.first
    BY <1>3, Zenon
  <2>2. x.first <= y.first \/ last(y) < x.first
    BY <1>3, Zenon
  <2> QED
    BY <1>1, <1>2, <2>1, <2>2
<1> QED
  BY <1>1, <1>4 DEF Own

\* A response is added, and no buffer has the last one before it.
LEMMA OwnAdd ==
  ASSUME NEW c \in [Buffers -> Bufs], NEW i, NEW txt \in Seq(Nat), NEW sts, sts \subseteq Nat,
         Own(c, i, txt, sts), \A b \in Buffers : ~Holds(c[b], i, Len(txt) - 1),
         NEW v \in Nat, NEW news, news \subseteq {Len(txt)}
  PROVE  /\ Own(c, i, Append(txt, v), sts \cup news)
         /\ Agrees(c, i, Append(txt, v), [item |-> i, starts |-> sts])
<1> DEFINE t == Append(txt, v)
<1>1. /\ t \in Seq(Nat) /\ Len(txt) \in Nat /\ Len(t) = Len(txt) + 1
      /\ \A k \in 1 .. Len(txt) : t[k] = txt[k]
  OBVIOUS
<1> HIDE DEF t
<1>2. ASSUME NEW b \in Buffers, c[b].item = i
      PROVE  Whole(c[b], t, sts \cup news) /\ last(c[b]) + 1 \in sts
  <2> DEFINE x == c[b]
  <2>1. /\ x.first \in sts /\ x.first <= last(x) /\ last(x) < Len(txt)
        /\ \A k \in 1 .. Len(x.vers) : x.vers[k] = txt[x.first + k]
        /\ last(x) + 1 = Len(txt) \/ last(x) + 1 \in sts
        /\ \A s \in sts : s <= x.first \/ last(x) < s
    BY <1>2 DEF Own, Whole
  <2>2. x.first \in Nat /\ last(x) \in Int /\ Len(x.vers) \in Nat /\ last(x) = x.first + Len(x.vers) - 1
    BY LastIs
  <2>3. ~(x.first <= Len(txt) - 1 /\ Len(txt) - 1 <= last(x))
    BY <1>2 DEF Holds
  <2> HIDE DEF x
  <2>4. last(x) + 1 # Len(txt)
    BY <1>1, <2>1, <2>2, <2>3
  <2>5. \A k \in 1 .. Len(x.vers) : x.first + k \in 1 .. Len(txt)
    BY <1>1, <2>1, <2>2, Inside, Zenon
  <2>6. \A k \in 1 .. Len(x.vers) : x.vers[k] = t[x.first + k]
    BY <1>1, <2>1, <2>5, Zenon
  <2>7. \A s \in sts \cup news : s <= x.first \/ last(x) < s
    BY <2>1
  <2>8. last(x) < Len(t)
    BY <1>1, <2>1, <2>2
  <2>9. Whole(x, t, sts \cup news) /\ last(x) + 1 \in sts
    BY <2>1, <2>4, <2>6, <2>7, <2>8, Zenon DEF Whole
  <2> QED
    BY <2>9 DEF x
<1>3. Own(c, i, t, sts \cup news)
  BY <1>2, Zenon DEF Own
<1>4. Agrees(c, i, t, [item |-> i, starts |-> sts])
  BY <1>2 DEF Agrees
<1> QED
  BY <1>3, <1>4 DEF t

\* A response is changed, and no buffer has it.
LEMMA OwnChange ==
  ASSUME NEW c \in [Buffers -> Bufs], NEW i, NEW txt \in Seq(Nat), NEW sts, sts \subseteq Nat,
         Own(c, i, txt, sts), NEW r \in Nat, r < Len(txt),
         \A b \in Buffers : ~Holds(c[b], i, r),
         NEW v \in Nat, NEW news, news \subseteq {r, r + 1}
  PROVE  /\ Own(c, i, [txt EXCEPT ![r + 1] = v], sts \cup news)
         /\ Agrees(c, i, [txt EXCEPT ![r + 1] = v], [item |-> i, starts |-> sts])
<1> DEFINE t == [txt EXCEPT ![r + 1] = v]
<1>1. /\ t \in Seq(Nat) /\ Len(txt) \in Nat /\ Len(t) = Len(txt)
      /\ \A k \in 1 .. Len(txt) : k # r + 1 => t[k] = txt[k]
  BY ExceptIs
<1> HIDE DEF t
<1>2. ASSUME NEW b \in Buffers, c[b].item = i
      PROVE  Whole(c[b], t, sts \cup news) /\ last(c[b]) + 1 \in sts \cup {Len(t)}
  <2> DEFINE x == c[b]
  <2>1. /\ x.first \in sts /\ x.first <= last(x) /\ last(x) < Len(txt)
        /\ \A k \in 1 .. Len(x.vers) : x.vers[k] = txt[x.first + k]
        /\ last(x) + 1 = Len(txt) \/ last(x) + 1 \in sts
        /\ \A s \in sts : s <= x.first \/ last(x) < s
    BY <1>2 DEF Own, Whole
  <2>2. x.first \in Nat /\ last(x) \in Int /\ Len(x.vers) \in Nat /\ last(x) = x.first + Len(x.vers) - 1
    BY LastIs
  <2>3. ~(x.first <= r /\ r <= last(x))
    BY <1>2 DEF Holds
  <2> HIDE DEF x
  <2>5. \A k \in 1 .. Len(x.vers) : x.first + k \in 1 .. Len(txt)
    BY <1>1, <2>1, <2>2, Inside, Zenon
  <2>6. \A k \in 1 .. Len(x.vers) : x.first + k # r + 1
    <3>1. ~(x.first <= r /\ r <= x.first + Len(x.vers) - 1)
      BY <2>2, <2>3, Zenon
    <3> QED
      BY <2>2, <3>1, Outside, Zenon
  <2>7. \A k \in 1 .. Len(x.vers) : x.vers[k] = t[x.first + k]
    BY <1>1, <2>1, <2>5, <2>6, Zenon
  <2>8. \A s \in {r, r + 1} : s <= x.first \/ last(x) < s
    BY <2>2, <2>3
  <2>9. \A s \in sts \cup news : s <= x.first \/ last(x) < s
    BY <2>1, <2>8, Zenon
  <2>10. Whole(x, t, sts \cup news) /\ last(x) + 1 \in sts \cup {Len(t)}
    <3>1. last(x) < Len(t) /\ (last(x) + 1 = Len(t) \/ last(x) + 1 \in sts)
      BY <1>1, <2>1
    <3> QED
      BY <2>1, <2>7, <2>9, <3>1, Zenon DEF Whole
  <2> QED
    BY <2>10 DEF x
<1>3. Own(c, i, t, sts \cup news)
  BY <1>2, Zenon DEF Own
<1>4. Agrees(c, i, t, [item |-> i, starts |-> sts])
  BY <1>2 DEF Agrees
<1> QED
  BY <1>3, <1>4 DEF t

-----------------------------------------------------------------------------
(* What a step makes of the files of an item.                              *)

Knowings(i) == [1 .. MaxResp[i] + 1 -> Nat]
Learns(kn, kn2, k, v) == kn2 = kn \/ kn2 = [kn EXCEPT ![k] = v]

LEMMA FiledAdd ==
  ASSUME NEW i \in Items, NEW txt \in Seq(Nat), NEW sts, sts \subseteq Nat,
         NEW kn \in Knowings(i), Filed(i, txt, sts, kn), Len(txt) <= MaxResp[i],
         NEW news, news \subseteq {Len(txt)}, NEW kn2, Learns(kn, kn2, Len(txt) + 1, 1)
  PROVE  Filed(i, Append(txt, 1), sts \cup news, kn2)
<1> DEFINE t == Append(txt, 1)
           n == Len(txt)
<1>1. /\ n \in Nat /\ Len(t) = n + 1 /\ t[n + 1] = 1
      /\ \A k \in 1 .. n : t[k] = txt[k]
  OBVIOUS
<1>2. MaxResp[i] \in Nat /\ MaxVer[i] \in Nat /\ 1 <= MaxVer[i]
  BY ReadCacheAssumption
<1>3. \A k \in 1 .. MaxResp[i] + 1 : kn2[k] = IF kn2 # kn /\ k = n + 1 THEN 1 ELSE kn[k]
  BY Zenon DEF Knowings, Learns
<1> HIDE DEF t, n
<1>4. Len(t) \in 1 .. MaxResp[i] + 1
  BY <1>1, <1>2 DEF n
<1>5. ASSUME NEW k \in 1 .. Len(t) PROVE t[k] \in 1 .. MaxVer[i]
  <2>1. CASE k = n + 1
    BY <1>1, <1>2, <2>1
  <2>2. CASE k \in 1 .. n
    BY <1>1, <2>2 DEF Filed, n
  <2> QED
    BY <1>1, <2>1, <2>2
<1>6. 0 \in sts \cup news /\ \A s \in sts \cup news : s < Len(t)
  <2>1. 0 \in sts /\ \A s \in sts : s < n
    BY DEF Filed, n
  <2>2. \A s \in news : s = n
    BY DEF n
  <2> QED
    BY <1>1, <2>1, <2>2
<1>7. ASSUME NEW k \in 1 .. MaxResp[i] + 1, kn2[k] > 0 PROVE k <= Len(t) /\ kn2[k] <= t[k]
  <2>1. CASE kn2 # kn /\ k = n + 1
    BY <1>1, <1>3, <2>1
  <2>2. CASE ~(kn2 # kn /\ k = n + 1)
    <3>1. kn2[k] = kn[k]
      BY <1>3, <2>2
    <3>2. k <= n /\ kn[k] <= txt[k]
      BY <1>7, <3>1 DEF Filed, n
    <3>3. k \in 1 .. n
      BY <1>1, <3>2
    <3> QED
      BY <1>1, <3>1, <3>2, <3>3
  <2> QED
    BY <2>1, <2>2
<1> QED
  BY <1>4, <1>5, <1>6, <1>7 DEF Filed, t

LEMMA FiledChange ==
  ASSUME NEW i \in Items, NEW txt \in Seq(Nat), NEW sts, sts \subseteq Nat,
         NEW kn \in Knowings(i), Filed(i, txt, sts, kn),
         NEW r \in Nat, r < Len(txt), NEW v \in Nat, v = txt[r + 1] + 1, v <= MaxVer[i],
         NEW news, \A s \in news : s \in Nat /\ s < Len(txt),
         NEW kn2, Learns(kn, kn2, r + 1, v)
  PROVE  Filed(i, [txt EXCEPT ![r + 1] = v], sts \cup news, kn2)
<1> DEFINE t == [txt EXCEPT ![r + 1] = v]
           n == Len(txt)
<1>1. /\ n \in Nat /\ Len(t) = n /\ r + 1 \in 1 .. n
      /\ \A k \in 1 .. n : t[k] = IF k = r + 1 THEN v ELSE txt[k]
  BY ExceptIs
<1>2. MaxResp[i] \in Nat /\ MaxVer[i] \in Nat
  BY ReadCacheAssumption
<1>3. \A k \in 1 .. MaxResp[i] + 1 : kn2[k] = IF kn2 # kn /\ k = r + 1 THEN v ELSE kn[k]
  BY Zenon DEF Knowings, Learns
<1>4. \A k \in 1 .. n : txt[k] \in 1 .. MaxVer[i] /\ txt[k] \in Nat
  BY SMTT(30) DEF Filed
<1> HIDE DEF t, n
<1>5. Len(t) \in 1 .. MaxResp[i] + 1
  BY <1>1 DEF n, Filed
<1>6. \A k \in 1 .. Len(t) : t[k] \in 1 .. MaxVer[i]
  <2>1. v \in 1 .. MaxVer[i]
    BY <1>1, <1>2, <1>4
  <2> QED
    BY <1>1, <1>4, <2>1, Zenon
<1>7. 0 \in sts \cup news /\ \A s \in sts \cup news : s < Len(t)
  BY <1>1 DEF Filed, n
<1>8. ASSUME NEW k \in 1 .. MaxResp[i] + 1, kn2[k] > 0 PROVE k <= Len(t) /\ kn2[k] <= t[k]
  <2>1. CASE k = r + 1
    <3>1. k \in 1 .. n /\ t[k] = v /\ v = txt[k] + 1 /\ txt[k] \in Nat
      BY <1>1, <1>4, <2>1
    <3>2. kn2[k] = v \/ kn2[k] = kn[k]
      BY <1>3, <2>1
    <3>3. kn2[k] = kn[k] => kn[k] <= txt[k]
      BY <1>8 DEF Filed
    <3>4. kn[k] \in Nat
      BY Zenon DEF Knowings
    <3>5. kn2[k] <= v
      <4>1. CASE kn2[k] = v
        BY <4>1
      <4>2. CASE kn2[k] = kn[k]
        <5>1. kn[k] <= txt[k]
          BY <3>3, <4>2
        <5> QED
          BY <3>1, <3>4, <4>2, <5>1, SMTT(30)
      <4> QED
        BY <3>2, <4>1, <4>2
    <3>6. k <= n
      BY <3>1, <1>1
    <3> QED
      BY <1>1, <3>1, <3>5, <3>6
  <2>2. CASE k # r + 1
    <3>1. kn2[k] = kn[k]
      BY <1>3, <2>2
    <3>2. k <= n /\ kn[k] <= txt[k]
      BY <1>8, <3>1 DEF Filed, n
    <3>3. k \in 1 .. n
      BY <1>1, <3>2
    <3> QED
      BY <1>1, <2>2, <3>1, <3>2, <3>3
  <2> QED
    BY <2>1, <2>2
<1> QED
  BY <1>5, <1>6, <1>7, <1>8 DEF Filed, t

\* What is written where.
Fitting(i, r, v, news) ==
  \/ r = Len(text[i]) /\ r <= MaxResp[i] /\ v = 1 /\ news \subseteq {r}
  \/ /\ r < Len(text[i]) /\ v = text[i][r + 1] + 1 /\ v <= MaxVer[i]
     /\ news \subseteq {r, r + 1} /\ \A s \in news : s < Len(text[i])

LEMMA WroteIs ==
  ASSUME Types, Disk, NEW i \in Items, NEW r \in Nat, NEW v, NEW news,
         Fitting(i, r, v, news), Wrote(i, r, v, news)
  PROVE  /\ text' \in [Items -> Seq(Nat)] /\ starts' \in [Items -> SUBSET Nat]
         /\ text'[i] = IF r = Len(text[i]) THEN Append(text[i], v) ELSE [text[i] EXCEPT ![r + 1] = v]
         /\ starts'[i] = starts[i] \cup news
         /\ v \in Nat /\ r \in Resps(i)
         /\ \A j \in Items : j # i => text'[j] = text[j] /\ starts'[j] = starts[j]
         /\ \A j \in Items : /\ Len(text[j]) <= Len(text'[j])
                             /\ \A k \in 1 .. Len(text[j]) : text[j][k] <= text'[j][k]
         /\ \A kn2 : Learns(known[i], kn2, r + 1, v) =>
              Filed(i, text'[i], starts'[i], kn2)
<1> DEFINE txt == text[i]
           t == IF r = Len(txt) THEN Append(txt, v) ELSE [txt EXCEPT ![r + 1] = v]
<1>0. /\ text' = [text EXCEPT ![i] = t] /\ starts' = [starts EXCEPT ![i] = starts[i] \cup news]
  BY DEF Wrote
<1>1. /\ text \in [Items -> Seq(Nat)] /\ starts \in [Items -> SUBSET Nat]
      /\ txt \in Seq(Nat) /\ Len(txt) \in Nat /\ MaxResp[i] \in Nat /\ MaxVer[i] \in Nat
      /\ starts[i] \subseteq Nat /\ known[i] \in Knowings(i)
      /\ Filed(i, txt, starts[i], known[i])
  BY ReadCacheAssumption DEF Types, Disk, Knowings
<1>2. Len(txt) <= MaxResp[i] + 1 /\ \A k \in 1 .. Len(txt) : txt[k] \in Nat
  BY <1>1 DEF Filed
<1>3. v \in Nat /\ news \subseteq Nat /\ r \in Resps(i)
  <2>1. CASE r = Len(txt) /\ r <= MaxResp[i] /\ v = 1 /\ news \subseteq {r}
    BY <1>1, <2>1 DEF Resps
  <2>2. CASE r < Len(txt) /\ v = txt[r + 1] + 1 /\ news \subseteq {r, r + 1}
    <3>1. r + 1 \in 1 .. Len(txt)
      BY <1>1, <2>2
    <3>2. txt[r + 1] \in Nat
      BY <1>2, <3>1
    <3>3. v \in Nat /\ news \subseteq Nat
      BY <2>2, <3>2
    <3>4. r \in Resps(i)
      BY <1>1, <1>2, <2>2 DEF Resps
    <3> QED
      BY <3>3, <3>4
  <2> QED
    BY <2>1, <2>2 DEF Fitting
<1>4. /\ t \in Seq(Nat) /\ Len(txt) <= Len(t)
      /\ \A k \in 1 .. Len(txt) : txt[k] <= t[k]
  <2>1. CASE r = Len(txt)
    <3>1. t = Append(txt, v)
      BY <2>1
    <3>2. Append(txt, v) \in Seq(Nat) /\ Len(Append(txt, v)) = Len(txt) + 1
      BY <1>1, <1>3
    <3>3. \A k \in 1 .. Len(txt) : Append(txt, v)[k] = txt[k]
      BY <1>1, <1>3
    <3> HIDE DEF t
    <3> QED
      BY <1>1, <1>2, <3>1, <3>2, <3>3
  <2>2. CASE r # Len(txt)
    <3>1. t = [txt EXCEPT ![r + 1] = v] /\ r + 1 \in 1 .. Len(txt) /\ v = txt[r + 1] + 1
      BY <1>1, <2>2 DEF Fitting
    <3>2. /\ t \in Seq(Nat) /\ Len(t) = Len(txt)
          /\ \A k \in 1 .. Len(txt) : t[k] = IF k = r + 1 THEN v ELSE txt[k]
      BY <1>1, <1>3, <3>1, ExceptIs
    <3> HIDE DEF t, txt
    <3>3. ASSUME NEW k \in 1 .. Len(txt) PROVE txt[k] <= t[k]
      <4>1. txt[k] \in Nat /\ t[k] = IF k = r + 1 THEN txt[k] + 1 ELSE txt[k]
        BY <1>2, <3>1, <3>2, Zenon
      <4> QED
        BY <4>1
    <3> QED
      BY <1>1, <3>2, <3>3
  <2> QED
    BY <2>1, <2>2
<1>5. ASSUME NEW kn2, Learns(known[i], kn2, r + 1, v)
      PROVE  Filed(i, t, starts[i] \cup news, kn2)
  <2>1. CASE r = Len(txt)
    <3>1. t = Append(txt, 1) /\ v = 1 /\ r <= MaxResp[i] /\ news \subseteq {r}
      BY <1>1, <2>1 DEF Fitting
    <3> HIDE DEF t, txt
    <3>2. /\ Len(txt) <= MaxResp[i] /\ news \subseteq {Len(txt)}
          /\ Learns(known[i], kn2, Len(txt) + 1, 1)
      BY <1>5, <2>1, <3>1
    <3>3. Filed(i, Append(txt, 1), starts[i] \cup news, kn2)
      BY <1>1, <3>2, FiledAdd, Zenon
    <3> QED
      BY <3>1, <3>3
  <2>2. CASE r # Len(txt)
    <3>1. /\ t = [txt EXCEPT ![r + 1] = v] /\ r < Len(txt) /\ v = txt[r + 1] + 1 /\ v <= MaxVer[i]
          /\ \A s \in news : s \in Nat /\ s < Len(txt)
      BY <1>1, <1>3, <2>2 DEF Fitting
    <3> HIDE DEF t, txt
    <3>2. Filed(i, [txt EXCEPT ![r + 1] = v], starts[i] \cup news, kn2)
      BY <1>1, <1>3, <1>5, <3>1, FiledChange, Zenon
    <3> QED
      BY <3>1, <3>2
  <2> QED
    BY <2>1, <2>2
<1> HIDE DEF t
<1>6. text' \in [Items -> Seq(Nat)] /\ text'[i] = t /\ \A j \in Items : j # i => text'[j] = text[j]
  BY <1>0, <1>1, <1>4, Zenon
<1>7. /\ starts' \in [Items -> SUBSET Nat] /\ starts'[i] = starts[i] \cup news
      /\ \A j \in Items : j # i => starts'[j] = starts[j]
  BY <1>0, <1>1, <1>3, Zenon
<1>8. ASSUME NEW j \in Items
      PROVE  /\ Len(text[j]) <= Len(text'[j])
             /\ \A k \in 1 .. Len(text[j]) : text[j][k] <= text'[j][k]
  <2>1. CASE j = i
    BY <1>4, <1>6, <2>1
  <2>2. CASE j # i
    <3>1. text'[j] = text[j] /\ text[j] \in Seq(Nat)
      BY <1>1, <1>6, <2>2
    <3> QED
      BY <3>1
  <2> QED
    BY <2>1, <2>2
<1>9. \A kn2 : Learns(known[i], kn2, r + 1, v) =>
        Filed(i, text'[i], starts'[i], kn2)
  BY <1>5, <1>6, <1>7, Zenon
<1> QED
  BY <1>3, <1>6, <1>7, <1>8, <1>9, Zenon DEF t

-----------------------------------------------------------------------------
(* The steps.                                                              *)

LEMMA InitInv == Init => IInv
<1> SUFFICES ASSUME Init PROVE IInv
  OBVIOUS
<1>1. Unused \in Bufs /\ Unused.item = -1
  <2>1. Unused = [item |-> -1, first |-> 0, vers |-> <<>>, used |-> 0]
    BY DEF Unused, NoBuf
  <2>2. 0 \in 0 .. NBuf /\ <<>> \in Seq(Nat)
    BY ReadCacheAssumption
  <2> QED
    BY <2>1, <2>2 DEF Bufs
<1>2. cache \in [Buffers -> Bufs] /\ \A b \in Buffers : Blank(cache[b])
  BY <1>1 DEF Init, Blank
<1>3. \A i \in Items : <<1>> \in Seq(Nat) /\ text[i] = <<1>> /\ starts[i] = {0}
  BY DEF Init
<1>4. \A i \in Items : known[i] = [k \in 1 .. MaxResp[i] + 1 |-> 0] /\ DOMAIN known = Items
  BY DEF Init
<1>5. Types
  <2>1. text \in [Items -> Seq(Nat)] /\ starts \in [Items -> SUBSET Nat]
    BY DEF Init
  <2>2. DOMAIN known = Items /\ \A i \in Items : known[i] \in [1 .. MaxResp[i] + 1 -> Nat]
    BY DEF Init
  <2> QED
    BY <1>2, <2>1, <2>2, Zenon DEF Types, Init
<1>6. Disk
  <2> SUFFICES ASSUME NEW i \in Items PROVE Filed(i, <<1>>, {0}, [k \in 1 .. MaxResp[i] + 1 |-> 0])
    BY <1>3, <1>4, Zenon DEF Disk
  <2>1. MaxResp[i] \in Nat /\ MaxVer[i] \in Nat /\ 1 <= MaxVer[i]
    BY ReadCacheAssumption
  <2>2. Len(<<1>>) = 1 /\ \A k \in 1 .. 1 : <<1>>[k] = 1
    OBVIOUS
  <2> QED
    BY <2>1, <2>2 DEF Filed
<1>7. Cached
  BY <1>2, BlankHolds DEF Cached
<1>8. Latest
  BY <1>2, BlankHolds DEF Latest, Single, Recent
<1>9. Alone
  <2>1. \A i \in Items : \A b \in Buffers : cache[b].item # i
    BY <1>2, BlankHolds
  <2> QED
    BY <2>1 DEF Alone, Own, Agrees
<1>10. TwinsByOthers
  BY DEF Init, TwinsByOthers
<1> QED
  BY <1>5, <1>6, <1>7, <1>8, <1>9, <1>10 DEF IInv

\* If all items are the process's own, no response is in two buffers.
LEMMA NoTwins ==
  ASSUME NEW c \in [Buffers -> Bufs], NEW t, NEW s \in [Items -> SUBSET Nat],
         \A i \in Items : Own(c, i, t[i], s[i])
  PROVE  Single(c)
<1> SUFFICES ASSUME NEW i \in Items, NEW r \in Resps(i), NEW b \in Buffers, NEW d \in Buffers,
                    Holds(c[b], i, r), Holds(c[d], i, r)
             PROVE  b = d
  BY DEF Single
<1>1. r \in Nat /\ s[i] \subseteq Nat
  BY ReadCacheAssumption DEF Resps
<1> QED
  BY <1>1, OwnSingle

LEMMA KinOther ==
  ASSUME NEW i \in Items, NEW c, Kin(c, i), NEW j \in Items, j # i
  PROVE  \A d \in Buffers : c[d].item = j => Same(c[d], cache[d])
BY BlankHolds DEF Kin

\* The process adds or changes a response.
LEMMA WriteInv ==
  ASSUME IInv, NEW i \in Items, NEW r \in Nat, NEW v, NEW news,
         Fitting(i, r, v, news), Wrote(i, r, v, news), Mine(i, r, v),
         cache' \in [Buffers -> Bufs], Kin(cache', i), pdir' = Dir(i),
         twin' = (twin \/ Twins(cache')),
         ~twin => \A b \in Buffers : ~Holds(cache'[b], i, r),
         ~asked /\ i \notin shared =>
           /\ Own(cache', i, text[i], starts[i])
           /\ \A b \in Buffers : /\ ~Holds(cache'[b], i, r)
                                 /\ r = Len(text[i]) => ~Holds(cache'[b], i, r - 1)
  PROVE  IInv'
<1>0. Types /\ Disk /\ Cached /\ Latest /\ Alone /\ TwinsByOthers
  BY DEF IInv
<1>1. /\ text' \in [Items -> Seq(Nat)] /\ starts' \in [Items -> SUBSET Nat]
      /\ text'[i] = IF r = Len(text[i]) THEN Append(text[i], v) ELSE [text[i] EXCEPT ![r + 1] = v]
      /\ starts'[i] = starts[i] \cup news
      /\ v \in Nat /\ r \in Resps(i)
      /\ \A j \in Items : j # i => text'[j] = text[j] /\ starts'[j] = starts[j]
      /\ \A j \in Items : /\ Len(text[j]) <= Len(text'[j])
                          /\ \A k \in 1 .. Len(text[j]) : text[j][k] <= text'[j][k]
      /\ \A kn2 : Learns(known[i], kn2, r + 1, v) => Filed(i, text'[i], starts'[i], kn2)
  BY <1>0, WroteIs, Zenon
<1>2. /\ known' = [known EXCEPT ![i] = [known[i] EXCEPT ![r + 1] = v]]
      /\ shared' = shared /\ asked' = asked
  BY DEF Mine
<1>3. /\ DOMAIN known' = Items /\ known'[i] = [known[i] EXCEPT ![r + 1] = v]
      /\ \A j \in Items : j # i => known'[j] = known[j]
  BY <1>0, <1>2, Zenon DEF Types
<1>4. Types'
  <2>1. pdir' \in Dirs /\ 0 \in pdir'.starts
    BY <1>0, Zenon DEF Dir, Dirs, Types, Disk, Filed
  <2>2. ASSUME NEW j \in Items PROVE known'[j] \in [1 .. MaxResp[j] + 1 -> Nat]
    <3>1. known[j] \in [1 .. MaxResp[j] + 1 -> Nat]
      BY <1>0, Zenon DEF Types
    <3>2. known'[j] = known[j] \/ known'[j] = [known[j] EXCEPT ![r + 1] = v]
      BY <1>3, Zenon
    <3>3. v \in Nat
      BY <1>1, Zenon
    <3> QED
      BY <3>1, <3>2, <3>3, Zenon
  <2>3. twin' \in BOOLEAN /\ asked' \in BOOLEAN
    BY <1>0, <1>2, Zenon DEF Types
  <2> QED
    BY <1>1, <1>3, <2>1, <2>2, <2>3, Zenon DEF Types
<1>5. Disk'
  <2>1. Learns(known[i], known'[i], r + 1, v)
    BY <1>3, Zenon DEF Learns
  <2>2. Filed(i, text'[i], starts'[i], known'[i])
    BY <1>1, <2>1, Zenon
  <2>3. \A j \in Items : j # i => Filed(j, text'[j], starts'[j], known'[j])
    BY <1>0, <1>1, <1>3, Zenon DEF Disk
  <2> QED
    BY <2>2, <2>3, Zenon DEF Disk
<1>6. Cached'
  <2>1. \A b \in Buffers : cache'[b].item \in Items => Past(cache'[b], text'[cache'[b].item])
    BY <1>0, <1>1, CachedStep, Zenon
  <2> QED
    BY <2>1, Zenon DEF Cached
<1>7. Latest'
  <2> SUFFICES ASSUME ~twin' PROVE Single(cache') /\ \A j \in Items : Recent(cache', j, known'[j])
    BY Zenon DEF Latest
  <2>1. ~twin /\ Single(cache')
    BY TwinsAre, Zenon
  <2>2. \A j \in Items : Recent(cache', j, known[j])
    BY <1>0, <2>1, RecentStep, Zenon DEF Latest
  <2>3. Recent(cache', i, known'[i])
    <3>1. known[i] \in [1 .. MaxResp[i] + 1 -> Nat] /\ Recent(cache', i, known[i])
      BY <1>0, <2>2, Zenon DEF Types
    <3>2. \A b \in Buffers : ~Holds(cache'[b], i, r)
      BY <2>1, Zenon
    <3>3. Recent(cache', i, [known[i] EXCEPT ![r + 1] = v])
      BY <1>1, <3>1, <3>2, LearnStep, Zenon
    <3> QED
      BY <1>3, <3>3, Zenon
  <2> QED
    BY <1>3, <2>1, <2>2, <2>3, Zenon
<1>8. Alone'
  <2> SUFFICES ASSUME ~asked, NEW j \in Items, j \notin shared
               PROVE  Own(cache', j, text'[j], starts'[j]) /\ Agrees(cache', j, text'[j], pdir')
    BY <1>2, Zenon DEF Alone
  <2>1. CASE j # i
    <3>1. Own(cache, j, text[j], starts[j])
      BY <1>0, Zenon DEF Alone
    <3>2. \A d \in Buffers : cache'[d].item = j => Same(cache'[d], cache[d])
      BY <2>1, KinOther, Zenon
    <3>3. Own(cache', j, text[j], starts[j])
      BY <3>1, <3>2, OwnLess, Zenon
    <3>4. Agrees(cache', j, text'[j], pdir')
      BY <2>1, Zenon DEF Agrees, Dir
    <3> QED
      BY <1>1, <2>1, <3>3, <3>4, Zenon
  <2>2. CASE j = i
    <3>1. /\ Own(cache', i, text[i], starts[i])
          /\ \A b \in Buffers : /\ ~Holds(cache'[b], i, r)
                                /\ r = Len(text[i]) => ~Holds(cache'[b], i, r - 1)
      BY <2>2, Zenon
    <3>2. text[i] \in Seq(Nat) /\ starts[i] \subseteq Nat /\ Len(text[i]) \in Nat
      BY <1>0, TextIs, Zenon
    <3>3. pdir' = [item |-> i, starts |-> starts[i]]
      BY DEF Dir
    <3>4. CASE r = Len(text[i])
      <4>1. /\ text'[i] = Append(text[i], v) /\ news \subseteq {Len(text[i])}
            /\ \A b \in Buffers : ~Holds(cache'[b], i, Len(text[i]) - 1)
        <5>1. ~(r < Len(text[i]))
          <6> DEFINE k == Len(text[i])
          <6> HIDE DEF k
          <6>1. r = k /\ k \in Nat
            BY <3>2, <3>4, Zenon DEF k
          <6>2. ~(r < k)
            BY <6>1
          <6> QED
            BY <6>2, Zenon DEF k
        <5>2. text'[i] = Append(text[i], v)
          BY <1>1, <3>4, Zenon
        <5>3. news \subseteq {Len(text[i])}
          BY <3>4, <5>1, Zenon DEF Fitting
        <5>4. \A b \in Buffers : ~Holds(cache'[b], i, Len(text[i]) - 1)
          BY <3>1, <3>4, Zenon
        <5> QED
          BY <5>2, <5>3, <5>4
      <4>2. /\ Own(cache', i, Append(text[i], v), starts[i] \cup news)
            /\ Agrees(cache', i, Append(text[i], v), [item |-> i, starts |-> starts[i]])
        BY <1>1, <3>1, <3>2, <4>1, OwnAdd, Zenon
      <4> QED
        BY <1>1, <2>2, <3>3, <4>1, <4>2, Zenon
    <3>5. CASE r # Len(text[i])
      <4>1. /\ text'[i] = [text[i] EXCEPT ![r + 1] = v] /\ news \subseteq {r, r + 1} /\ r < Len(text[i])
        BY <1>1, <3>2, <3>5, Zenon DEF Fitting
      <4>2. /\ Own(cache', i, [text[i] EXCEPT ![r + 1] = v], starts[i] \cup news)
            /\ Agrees(cache', i, [text[i] EXCEPT ![r + 1] = v], [item |-> i, starts |-> starts[i]])
        BY <1>1, <3>1, <3>2, <4>1, OwnChange, Zenon
      <4> QED
        BY <1>1, <2>2, <3>3, <4>1, <4>2, Zenon
    <3> QED
      BY <3>4, <3>5, Zenon
  <2> QED
    BY <2>1, <2>2, Zenon
<1>9. TwinsByOthers'
  <2> SUFFICES ASSUME ~asked, shared = {} PROVE ~twin'
    BY <1>2, Zenon DEF TwinsByOthers
  <2>1. ~twin
    BY <1>0 DEF TwinsByOthers
  <2>2. \A j \in Items : Own(cache', j, text'[j], starts'[j])
    BY <1>2, <1>8 DEF Alone
  <2>3. Single(cache')
    BY <1>1, <2>2, NoTwins, Zenon
  <2> QED
    BY <2>1, <2>3, TwinsAre, Zenon
<1> QED
  BY <1>4, <1>5, <1>6, <1>7, <1>8, <1>9, Zenon DEF IInv

\* A response that is not there is in no buffer.
LEMMA HoldsThere ==
  ASSUME Types, Disk, Cached, NEW i \in Items, NEW c \in [Buffers -> Bufs], Kin(c, i),
         NEW b \in Buffers, NEW r \in Nat, Holds(c[b], i, r)
  PROVE  r < Len(text[i])
<1>1. Past(c[b], text[i])
  <2>1. c[b].item = i
    BY DEF Holds
  <2>2. /\ text \in [Items -> Seq(Nat)]
        /\ \A j \in Items : /\ Len(text[j]) <= Len(text[j])
                            /\ \A k \in 1 .. Len(text[j]) : text[j][k] <= text[j][k]
    BY DEF Types
  <2>3. \A d \in Buffers : c[d].item \in Items => Past(c[d], text[c[d].item])
    BY <2>2, CachedStep, Zenon
  <2> QED
    BY <2>1, <2>3
<1>2. last(c[b]) \in Int /\ Len(text[i]) \in Nat
  BY LastIs DEF Types
<1> QED
  BY <1>1, <1>2 DEF Holds, Past

\* If there is nothing wrong with the item, or was nowhere, no two buffers
\* have the same response of it.
LEMMA OneBuffer ==
  ASSUME IInv, NEW i \in Items, NEW r \in Resps(i), ~twin \/ (~asked /\ i \notin shared)
  PROVE  \A b, d \in Buffers : Holds(cache[b], i, r) /\ Holds(cache[d], i, r) => b = d
<1>1. r \in Nat
  BY ReadCacheAssumption DEF Resps
<1>2. CASE ~twin
  BY <1>2 DEF IInv, Latest, Single
<1>3. CASE ~asked /\ i \notin shared
  <2>1. Own(cache, i, text[i], starts[i]) /\ cache \in [Buffers -> Bufs] /\ starts[i] \subseteq Nat
    BY <1>3, Zenon DEF IInv, Alone, Types
  <2> QED
    BY <1>1, <2>1, OwnSingle
<1> QED
  BY <1>2, <1>3

\* V_GET and V_CLR of a response: it is in no buffer.
LEMMA GetAndClear ==
  ASSUME IInv, NEW i \in Items, NEW r \in Resps(i),
         NEW c \in [Buffers -> Bufs],
         \A d \in Buffers : c[d] = Loaded(i, r)[d] \/ Blank(c[d])
  PROVE  /\ Cleared(c, i, r) \in [Buffers -> Bufs] /\ Kin(Cleared(c, i, r), i)
         /\ ~twin \/ (~asked /\ i \notin shared) =>
              \A b \in Buffers : ~Holds(Cleared(c, i, r)[b], i, r)
         /\ ~asked /\ i \notin shared /\ r < Len(text[i]) =>
              Own(Cleared(c, i, r), i, text[i], starts[i])
<1>0. Types /\ Disk /\ Cached /\ r \in Nat
  BY ReadCacheAssumption DEF IInv, Resps
<1>1. Kin(c, i)
  <2>1. Kin(Loaded(i, r), i)
    BY <1>0, KinLoaded
  <2> QED
    BY <2>1, Zenon DEF Kin
<1> DEFINE e == Cleared(c, i, r)
<1>2. e \in [Buffers -> Bufs] /\ Kin(e, i)
  BY <1>1, KinCleared
<1>3. /\ \A d \in Buffers : e[d] = c[d] \/ e[d] = NoBuf
      /\ \A d \in Buffers : e[d] = NoBuf \/ ~Holds(c[d], i, r)
           \/ \E b \in Buffers : b # d /\ Holds(c[b], i, r)
  BY ClearedIs
<1> HIDE DEF e
<1>4. Blank(NoBuf)
  BY DEF Blank, NoBuf
<1>5. ASSUME ~twin \/ (~asked /\ i \notin shared), NEW b \in Buffers PROVE ~Holds(e[b], i, r)
  <2>1. \A d \in Buffers : Holds(Loaded(i, r)[d], i, r) => d = Hit(cache, i, r)
    BY <1>0, <1>5, OneBuffer, OnlyHit
  <2>2. \A d \in Buffers : Holds(c[d], i, r) => d = Hit(cache, i, r)
    BY <2>1, BlankHolds, Zenon
  <2>3. ~Holds(NoBuf, i, r)
    BY <1>4, BlankHolds, Zenon
  <2> QED
    BY <1>3, <2>2, <2>3, Zenon
<1>6. ASSUME ~asked, i \notin shared, r < Len(text[i]) PROVE Own(e, i, text[i], starts[i])
  <2>1. Own(cache, i, text[i], starts[i])
    BY <1>6 DEF IInv, Alone
  <2>2. Own(Loaded(i, r), i, text[i], starts[i])
    BY <1>0, <1>6, <2>1, OwnLoaded
  <2>3. \A d \in Buffers : e[d].item = i => Same(e[d], Loaded(i, r)[d])
    <3>1. \A d \in Buffers : e[d] = Loaded(i, r)[d] \/ Blank(e[d])
      BY <1>3, <1>4, Zenon
    <3>2. \A d \in Buffers : Blank(e[d]) => e[d].item # i
      BY BlankHolds, Zenon
    <3>3. \A x : Same(x, x)
      BY DEF Same
    <3> QED
      BY <3>1, <3>2, <3>3, Zenon
  <2> QED
    BY <2>2, <2>3, OwnLess, Zenon
<1> QED
  BY <1>2, <1>5, <1>6 DEF e

\* One more V_CLR.
LEMMA ClearMore ==
  ASSUME NEW i \in Items, NEW c \in [Buffers -> Bufs], Kin(c, i), NEW s
  PROVE  LET e == Cleared(c, i, s) IN
         /\ e \in [Buffers -> Bufs] /\ Kin(e, i)
         /\ \A r : (\A b \in Buffers : ~Holds(c[b], i, r)) => \A b \in Buffers : ~Holds(e[b], i, r)
         /\ \A txt, sts : Own(c, i, txt, sts) => Own(e, i, txt, sts)
<1> DEFINE e == Cleared(c, i, s)
<1>1. e \in [Buffers -> Bufs] /\ Kin(e, i)
  BY KinCleared
<1>2. \A d \in Buffers : e[d] = c[d] \/ e[d] = NoBuf
  BY ClearedIs
<1> HIDE DEF e
<1>3. NoBuf.item # i /\ \A r : ~Holds(NoBuf, i, r)
  <2>1. Blank(NoBuf)
    BY DEF Blank, NoBuf
  <2> QED
    BY <2>1, BlankHolds
<1>4. \A r : (\A b \in Buffers : ~Holds(c[b], i, r)) => \A b \in Buffers : ~Holds(e[b], i, r)
  BY <1>2, <1>3, Zenon
<1>5. \A d \in Buffers : e[d].item = i => Same(e[d], c[d])
  BY <1>2, <1>3, Zenon DEF Same
<1>6. \A txt, sts : Own(c, i, txt, sts) => Own(e, i, txt, sts)
  BY <1>5, OwnLess
<1> QED
  BY <1>1, <1>4, <1>6 DEF e

LEMMA ChangeInv ==
  ASSUME IInv, NEW i \in Items, NEW r \in Resps(i), Change(i, r)
  PROVE  IInv'
<1> DEFINE c == Cleared(Loaded(i, r), i, r)
           v == text[i][r + 1] + 1
<1>0. Types /\ Disk /\ r \in Nat
  BY ReadCacheAssumption DEF IInv, Resps
<1>1. /\ r < Len(text[i]) /\ text[i][r + 1] < MaxVer[i]
      /\ Left(c, Dir(i)) /\ Mine(i, r, v)
  BY DEF Change, MayChange, Exists
<1>2. PICK news \in SUBSET ({r} \cup {s \in {r + 1} : Exists(i, s)}) : Wrote(i, r, v, news)
  BY DEF Change, Changed
<1>3. Fitting(i, r, v, news)
  <2>1. text[i][r + 1] \in Nat /\ MaxVer[i] \in Nat
    <3>1. text[i] \in Seq(Nat) /\ MaxVer[i] \in Nat
      BY <1>0, ReadCacheAssumption DEF Types
    <3>2. r + 1 \in 1 .. Len(text[i])
      BY <1>0, <1>1, <3>1
    <3> QED
      BY <3>1, <3>2, ElementOf
  <2>2. v <= MaxVer[i]
    BY <1>1, <2>1, SMTT(30)
  <2>3. news \subseteq {r, r + 1} /\ \A s \in news : s < Len(text[i])
    BY <1>1 DEF Exists
  <2> QED
    BY <1>1, <2>2, <2>3, Zenon DEF Fitting
<1>4. Loaded(i, r) \in [Buffers -> Bufs]
  BY <1>0, LoadedIs, Zenon
<1>5. /\ c \in [Buffers -> Bufs] /\ Kin(c, i)
      /\ ~twin \/ (~asked /\ i \notin shared) => \A b \in Buffers : ~Holds(c[b], i, r)
      /\ ~asked /\ i \notin shared /\ r < Len(text[i]) => Own(c, i, text[i], starts[i])
  BY <1>4, GetAndClear, Zenon
<1>6. cache' = c /\ pdir' = Dir(i) /\ twin' = (twin \/ Twins(cache'))
  BY <1>1 DEF Left
<1>7. r # Len(text[i])
  <2>1. Len(text[i]) \in Nat /\ r < Len(text[i])
    BY <1>0, <1>1, TextIs
  <2> QED
    BY <2>1
<1> HIDE DEF c, v
<1> QED
  BY <1>0, <1>1, <1>2, <1>3, <1>5, <1>6, <1>7, WriteInv, Zenon

LEMMA DeleteInv ==
  ASSUME IInv, NEW i \in Items, NEW r \in Resps(i), Delete(i, r)
  PROVE  IInv'
<1> DEFINE h == Hit(cache, i, r)
           gone == [Loaded(i, r) EXCEPT ![h].item = 0]
           e == Cleared(gone, i, r)
           c == Cleared(e, i, 0)
           v == text[i][r + 1] + 1
<1>0. Types /\ Disk /\ r \in Nat
  BY ReadCacheAssumption DEF IInv, Resps
<1>1. /\ r < Len(text[i]) /\ text[i][r + 1] < MaxVer[i]
      /\ Wrote(i, r, v, {}) /\ Left(c, Dir(i)) /\ Mine(i, r, v)
  BY DEF Delete, MayChange, Exists
<1>3. Fitting(i, r, v, {})
  <2>1. text[i][r + 1] \in Nat /\ MaxVer[i] \in Nat
    <3>1. text[i] \in Seq(Nat) /\ MaxVer[i] \in Nat
      BY <1>0, ReadCacheAssumption DEF Types
    <3>2. r + 1 \in 1 .. Len(text[i])
      BY <1>0, <1>1, <3>1
    <3> QED
      BY <3>1, <3>2, ElementOf
  <2>2. v <= MaxVer[i]
    BY <1>1, <2>1
  <2> QED
    BY <1>1, <2>2 DEF Fitting
<1>4. /\ gone \in [Buffers -> Bufs]
      /\ \A d \in Buffers : gone[d] = Loaded(i, r)[d] \/ Blank(gone[d])
  <2>1. h \in Buffers /\ Loaded(i, r) \in [Buffers -> Bufs]
    BY <1>0, LoadedIs
  <2> DEFINE x == [Loaded(i, r)[h] EXCEPT !.item = 0]
  <2>2. gone = [Loaded(i, r) EXCEPT ![h] = x]
    OBVIOUS
  <2>3. x \in Bufs /\ x.item = 0
    BY <2>1, Zenon DEF Bufs
  <2> HIDE DEF x, h, gone
  <2>4. Blank(x)
    BY <2>3 DEF Blank
  <2> QED
    BY <2>1, <2>2, <2>3, <2>4
<1>5. /\ e \in [Buffers -> Bufs] /\ Kin(e, i)
      /\ ~twin \/ (~asked /\ i \notin shared) => \A b \in Buffers : ~Holds(e[b], i, r)
      /\ ~asked /\ i \notin shared /\ r < Len(text[i]) => Own(e, i, text[i], starts[i])
  <2> HIDE DEF gone
  <2> QED
    BY <1>4, GetAndClear, Zenon
<1>6. /\ c \in [Buffers -> Bufs] /\ Kin(c, i)
      /\ ~twin \/ (~asked /\ i \notin shared) => \A b \in Buffers : ~Holds(c[b], i, r)
      /\ ~asked /\ i \notin shared => Own(c, i, text[i], starts[i])
  <2> HIDE DEF e
  <2> QED
    BY <1>1, <1>5, ClearMore, Zenon
<1>7. cache' = c /\ pdir' = Dir(i) /\ twin' = (twin \/ Twins(cache'))
  BY <1>1 DEF Left
<1>8. r # Len(text[i])
  <2>1. Len(text[i]) \in Nat /\ r < Len(text[i])
    BY <1>0, <1>1, TextIs
  <2> QED
    BY <2>1
<1> HIDE DEF c, v
<1> QED
  BY <1>0, <1>1, <1>3, <1>6, <1>7, <1>8, WriteInv, Zenon


LEMMA AddInv ==
  ASSUME IInv, NEW i \in Items, Add(i)
  PROVE  IInv'
<1> DEFINE r == Len(text[i])
           c0 == Loaded(i, 0)
           c1 == Cleared(c0, i, r - 1)
           c2 == Cleared(c1, i, r)
           c == Cleared(c2, i, 0)
<1>0. Types /\ Disk /\ Cached
  BY DEF IInv
<1>1. /\ r <= MaxResp[i] /\ Added(i) /\ Left(c, Dir(i)) /\ Mine(i, r, 1)
  BY DEF Add, MayAdd
<1>2. r \in Nat /\ r > 0 /\ r - 1 \in Nat /\ MaxResp[i] \in Nat
  <2>1. text[i] \in Seq(Nat) /\ Len(text[i]) \in 1 .. MaxResp[i] + 1 /\ MaxResp[i] \in Nat
    BY <1>0, ReadCacheAssumption DEF Types, Disk, Filed
  <2> QED
    BY <2>1
<1>3. PICK news \in SUBSET {r} : Wrote(i, r, 1, news)
  BY <1>1 DEF Added
<1>4. Fitting(i, r, 1, news)
  BY <1>1, Zenon DEF Fitting
<1>5. c0 \in [Buffers -> Bufs] /\ Kin(c0, i)
  BY <1>0, LoadedIs, KinLoaded
<1>6. \A b \in Buffers : ~Holds(c0[b], i, r)
  BY <1>0, <1>2, <1>5, HoldsThere
<1>7. ~asked /\ i \notin shared => Own(c0, i, text[i], starts[i])
  <2>1. SUFFICES ASSUME ~asked, i \in Items \ shared PROVE Own(c0, i, text[i], starts[i])
    OBVIOUS
  <2>2. Own(cache, i, text[i], starts[i])
    BY <2>1 DEF IInv, Alone
  <2> QED
    BY <1>0, <1>2, <2>2, OwnLoaded
<1> HIDE DEF c0, r
<1>8. ~asked /\ i \notin shared => \A b \in Buffers : ~Holds(c1[b], i, r - 1)
  <2>1. SUFFICES ASSUME ~asked, i \notin shared, NEW b \in Buffers PROVE ~Holds(c1[b], i, r - 1)
    OBVIOUS
  <2>2. \A d \in Buffers : Holds(c0[b], i, r - 1) /\ Holds(c0[d], i, r - 1) => b = d
    <3>1. starts[i] \subseteq Nat
      BY <1>0 DEF Types
    <3> QED
      BY <1>2, <1>5, <1>7, <2>1, <3>1, OwnSingle, Zenon
  <2>3. /\ c1[b] = c0[b] \/ c1[b] = NoBuf
        /\ \/ c1[b] = NoBuf \/ ~Holds(c0[b], i, r - 1)
           \/ \E d \in Buffers : d # b /\ Holds(c0[d], i, r - 1)
    BY <1>5, ClearedIs
  <2>4. ~Holds(NoBuf, i, r - 1)
    <3>1. Blank(NoBuf)
      BY Zenon DEF Blank, NoBuf
    <3> QED
      BY <3>1, BlankHolds
  <2> HIDE DEF c1
  <2> QED
    BY <2>2, <2>3, <2>4, Zenon
<1>9. /\ c1 \in [Buffers -> Bufs] /\ Kin(c1, i)
      /\ \A b \in Buffers : ~Holds(c1[b], i, r)
      /\ ~asked /\ i \notin shared => Own(c1, i, text[i], starts[i])
  BY <1>5, <1>6, <1>7, ClearMore
<1> HIDE DEF c1
<1>10. /\ c2 \in [Buffers -> Bufs] /\ Kin(c2, i)
       /\ \A b \in Buffers : ~Holds(c2[b], i, r)
       /\ ~asked /\ i \notin shared => /\ Own(c2, i, text[i], starts[i])
                                       /\ \A b \in Buffers : ~Holds(c2[b], i, r - 1)
  BY <1>8, <1>9, ClearMore, Zenon
<1> HIDE DEF c2
<1>11. /\ c \in [Buffers -> Bufs] /\ Kin(c, i)
       /\ \A b \in Buffers : ~Holds(c[b], i, r)
       /\ ~asked /\ i \notin shared => /\ Own(c, i, text[i], starts[i])
                                       /\ \A b \in Buffers : ~Holds(c[b], i, r - 1)
  BY <1>10, ClearMore, Zenon
<1>12. cache' = c /\ pdir' = Dir(i) /\ twin' = (twin \/ Twins(cache'))
  BY <1>1 DEF Left
<1> HIDE DEF c
<1> QED
  BY <1>1, <1>2, <1>3, <1>4, <1>11, <1>12, WriteInv, Zenon


-----------------------------------------------------------------------------
(* Reading, and what others do.                                            *)

\* What a read shows was on the disk at some time, and is in the buffer that
\* V_GET returns.
LEMMA ShownIs ==
  ASSUME IInv, NEW i \in Items, NEW r \in Resps(i)
  PROVE  /\ Shown(i, r) \in Nat
         /\ Holds(Buf(i, r), i, r) => Shown(i, r) = Buf(i, r).vers[r - Buf(i, r).first + 1]
         /\ Holds(Buf(i, r), i, r) =>
              /\ Shown(i, r) > 0 /\ r < Len(text[i])
              /\ Shown(i, r) <= text[i][r + 1]
         /\ ~Holds(Buf(i, r), i, r) => Shown(i, r) = 0
<1> DEFINE x == Buf(i, r)
           h == Hit(cache, i, r)
           c == Loaded(i, r)
<1>0. Types /\ Disk /\ Cached /\ r \in Nat
  BY ReadCacheAssumption DEF IInv, Resps
<1>1. h \in Buffers /\ c \in [Buffers -> Bufs] /\ Same(c[h], x) /\ Kin(c, i) /\ x \in Bufs
  BY <1>0, LoadedIs, KinLoaded, BufIs, Zenon
<1>2. Shown(i, r) = IF Holds(x, i, r) THEN x.vers[r - x.first + 1] ELSE 0
  BY DEF Shown
<1> HIDE DEF x, h, c
<1>3. ASSUME Holds(x, i, r)
      PROVE  LET v == x.vers[r - x.first + 1] IN
             v \in Nat /\ v > 0 /\ r < Len(text[i]) /\ v <= text[i][r + 1]
  <2>1. Past(c[h], text[i])
    <3>1. /\ text \in [Items -> Seq(Nat)]
          /\ \A j \in Items : /\ Len(text[j]) <= Len(text[j])
                              /\ \A k \in 1 .. Len(text[j]) : text[j][k] <= text[j][k]
      BY <1>0 DEF Types
    <3>2. \A b \in Buffers : c[b].item \in Items => Past(c[b], text[c[b].item])
      BY <1>0, <1>1, <3>1, CachedStep, Zenon
    <3>3. c[h].item = i
      BY <1>1, <1>3 DEF Holds, Same
    <3> QED
      BY <1>1, <3>2, <3>3
  <2>2. Past(x, text[i])
    BY <1>1, <2>1, SameHolds
  <2>3. /\ x.first \in Nat /\ x.vers \in Seq(Nat) /\ Len(x.vers) \in Nat
        /\ last(x) = x.first + Len(x.vers) - 1
    BY <1>1, LastIs
  <2>4. x.first <= r /\ r <= last(x) /\ last(x) < Len(text[i])
    BY <1>3, <2>2 DEF Holds, Past
  <2> DEFINE k == r - x.first + 1
  <2>5. k \in 1 .. Len(x.vers) /\ x.first + k = r + 1
    BY <1>0, <2>3, <2>4
  <2>6. text[i] \in Seq(Nat) /\ Len(text[i]) \in Nat
    BY <1>0 DEF Types
  <2>7. r < Len(text[i]) /\ r + 1 \in 1 .. Len(text[i])
    BY <1>0, <2>3, <2>4, <2>6
  <2>8. text[i][r + 1] \in Nat
    BY <2>6, <2>7, ElementOf
  <2> HIDE DEF k
  <2>9. x.vers[k] \in 1 .. text[i][r + 1]
    BY <2>2, <2>5 DEF Past
  <2> QED
    BY <2>7, <2>8, <2>9 DEF k
<1>4. CASE Holds(x, i, r)
  <2>1. Shown(i, r) = x.vers[r - x.first + 1]
    BY <1>2, <1>4
  <2> QED
    BY <1>3, <1>4, <2>1, Zenon DEF x
<1>5. CASE ~Holds(x, i, r)
  <2>1. Shown(i, r) = 0
    BY <1>2, <1>5
  <2> QED
    BY <1>5, <2>1 DEF x
<1> QED
  BY <1>4, <1>5, Zenon

\* A process knows a version that it is shown.
LEMMA FiledLearn ==
  ASSUME NEW i \in Items, NEW txt, NEW sts, NEW kn \in Knowings(i), Filed(i, txt, sts, kn),
         NEW k, NEW v \in Nat, v > 0 => k <= Len(txt) /\ v <= txt[k]
  PROVE  Filed(i, txt, sts, [kn EXCEPT ![k] = v])
<1> DEFINE kn2 == [kn EXCEPT ![k] = v]
<1>1. \A m \in 1 .. MaxResp[i] + 1 : kn2[m] = IF m = k THEN v ELSE kn[m]
  BY DEF Knowings
<1> HIDE DEF kn2
<1> QED
  BY <1>1 DEF Filed, kn2

LEMMA GetInv ==
  ASSUME IInv, NEW i \in Items, NEW r \in Resps(i), Get(i, r)
  PROVE  IInv'
<1> DEFINE h == Hit(cache, i, r)
           c == Loaded(i, r)
           x == Buf(i, r)
           sh == Shown(i, r)
           v == IF sh > known[i][r + 1] THEN sh ELSE known[i][r + 1]
<1>0. Types /\ Disk /\ Cached /\ Latest /\ Alone /\ TwinsByOthers /\ r \in Nat
  BY ReadCacheAssumption DEF IInv, Resps
<1>1. /\ cache' = c /\ pdir' = NewDir(i, r) /\ twin' = (twin \/ Twins(cache'))
      /\ known' = [known EXCEPT ![i] = [known[i] EXCEPT ![r + 1] = v]]
      /\ asked' = (asked \/ ~Exists(i, r))
      /\ text' = text /\ starts' = starts /\ shared' = shared
  BY DEF Get, Left
<1>2. /\ h \in Buffers /\ c \in [Buffers -> Bufs] /\ Kin(c, i)
      /\ \A d \in Buffers : d # h => Same(c[d], cache[d])
      /\ Same(c[h], x)
  BY <1>0, LoadedIs, KinLoaded
<1>3. /\ Kept(cache[h], i, r) => x = cache[h] /\ pdir' = pdir
      /\ ~Kept(cache[h], i, r) => pdir' = Dir(i)
  <2>1. Kept(cache[h], i, r) => x = cache[h]
    BY <1>0, BufIs
  <2> QED
    BY <1>1, <2>1, Zenon DEF NewDir
<1>4. /\ DOMAIN known' = Items /\ known'[i] = [known[i] EXCEPT ![r + 1] = v]
      /\ \A j \in Items : j # i => known'[j] = known[j]
  BY <1>0, <1>1, Zenon DEF Types
<1>5. /\ sh \in Nat
      /\ Holds(x, i, r) => sh = x.vers[r - x.first + 1]
      /\ Holds(x, i, r) => sh > 0 /\ r < Len(text[i]) /\ sh <= text[i][r + 1]
      /\ ~Holds(x, i, r) => sh = 0
  BY ShownIs
<1>6. /\ known[i] \in [1 .. MaxResp[i] + 1 -> Nat] /\ r + 1 \in 1 .. MaxResp[i] + 1
      /\ known[i][r + 1] \in Nat
  <2>1. known[i] \in [1 .. MaxResp[i] + 1 -> Nat]
    BY <1>0 DEF Types
  <2>2. r + 1 \in 1 .. MaxResp[i] + 1
    BY ReadCacheAssumption DEF Resps
  <2> QED
    BY <2>1, <2>2, Zenon
<1>7. v \in Nat /\ (v = sh \/ v = known[i][r + 1])
  BY <1>5, <1>6, Zenon
<1> HIDE DEF h, c, x, sh, v
<1>8. Types'
  <2>1. pdir' = Other \/ (pdir' \in Dirs /\ 0 \in pdir'.starts)
    <3>1. Dir(i) \in Dirs /\ 0 \in Dir(i).starts
      BY <1>0 DEF Dir, Dirs, Types, Disk, Filed
    <3> QED
      BY <1>0, <1>3, <3>1, Zenon DEF Types
  <2>2. ASSUME NEW j \in Items PROVE known'[j] \in [1 .. MaxResp[j] + 1 -> Nat]
    <3>1. known[j] \in [1 .. MaxResp[j] + 1 -> Nat]
      BY <1>0 DEF Types
    <3>2. known'[j] = known[j] \/ known'[j] = [known[j] EXCEPT ![r + 1] = v]
      BY <1>4
    <3> QED
      BY <1>7, <3>1, <3>2, Zenon
  <2>3. twin' \in BOOLEAN /\ asked' \in BOOLEAN
    BY <1>0, <1>1 DEF Types
  <2> QED
    BY <1>0, <1>1, <1>2, <1>4, <2>1, <2>2, <2>3 DEF Types
<1>9. Disk'
  <2>1. Filed(i, text[i], starts[i], known[i]) /\ known[i] \in Knowings(i)
    BY <1>0, <1>6 DEF Disk, Knowings
  <2>2. text[i] \in Seq(Nat) /\ Len(text[i]) \in Nat
    BY <1>0 DEF Types
  <2>3. v > 0 => r + 1 <= Len(text[i]) /\ v <= text[i][r + 1]
    <3>1. CASE v = sh
      <4>1. v > 0 => r < Len(text[i]) /\ v <= text[i][r + 1]
        BY <1>5, <3>1
      <4> QED
        BY <1>0, <2>2, <4>1
    <3>2. CASE v = known[i][r + 1]
      BY <1>6, <2>1, <3>2 DEF Filed
    <3> QED
      BY <1>7, <3>1, <3>2
  <2>4. Filed(i, text[i], starts[i], known'[i])
    <3>1. Filed(i, text[i], starts[i], [known[i] EXCEPT ![r + 1] = v])
      BY <1>7, <2>1, <2>3, FiledLearn, Zenon
    <3> QED
      BY <1>4, <3>1
  <2>5. \A j \in Items : j # i => Filed(j, text[j], starts[j], known'[j])
    BY <1>0, <1>4 DEF Disk
  <2> QED
    BY <1>1, <2>4, <2>5 DEF Disk
<1>10. Cached'
  <2>1. /\ text \in [Items -> Seq(Nat)]
        /\ \A j \in Items : /\ Len(text[j]) <= Len(text[j])
                            /\ \A k \in 1 .. Len(text[j]) : text[j][k] <= text[j][k]
    BY <1>0 DEF Types
  <2>2. \A b \in Buffers : c[b].item \in Items => Past(c[b], text[c[b].item])
    BY <1>0, <1>2, <2>1, CachedStep, Zenon
  <2> QED
    BY <1>1, <2>2 DEF Cached
<1>11. Latest'
  <2> SUFFICES ASSUME ~twin' PROVE Single(c) /\ \A j \in Items : Recent(c, j, known'[j])
    BY <1>1 DEF Latest
  <2>1. ~twin /\ Single(c)
    BY <1>1, TwinsAre, Zenon
  <2>2. \A j \in Items : Recent(c, j, known[j])
    BY <1>0, <1>2, <2>1, RecentStep, Zenon DEF Latest
  <2>3. ASSUME NEW b \in Buffers, Holds(c[b], i, r) PROVE v <= c[b].vers[r - c[b].first + 1]
    <3>1. \A b2, d \in Buffers : Holds(cache[b2], i, r) /\ Holds(cache[d], i, r) => b2 = d
      BY <2>1, OneBuffer, Zenon
    <3>2. b = h /\ Holds(x, i, r)
      BY <1>0, <2>3, <3>1, OnlyHit DEF x, h, c
    <3>3. c[b].vers = x.vers /\ c[b].first = x.first
      BY <1>2, <3>2, Zenon DEF Same
    <3>4. known[i][r + 1] <= c[b].vers[r - c[b].first + 1]
      BY <2>2, <2>3, Zenon DEF Recent
    <3>5. sh = c[b].vers[r - c[b].first + 1]
      BY <1>5, <3>2, <3>3, Zenon
    <3>6. CASE v = sh
      BY <1>5, <3>5, <3>6, SMTT(30)
    <3>7. CASE v = known[i][r + 1]
      BY <3>4, <3>7
    <3> QED
      BY <1>7, <3>6, <3>7
  <2>4. Recent(c, i, [known[i] EXCEPT ![r + 1] = v])
    BY <1>6, <2>2, <2>3, LearnStep, Zenon
  <2> QED
    BY <1>4, <2>1, <2>2, <2>4, Zenon
<1>12. Alone'
  <2> SUFFICES ASSUME ~asked, Exists(i, r), NEW j \in Items, j \notin shared
               PROVE  Own(c, j, text[j], starts[j]) /\ Agrees(c, j, text[j], pdir')
    BY <1>1, Zenon DEF Alone
  <2>1. Own(cache, j, text[j], starts[j]) /\ Agrees(cache, j, text[j], pdir)
    BY <1>0, Zenon DEF Alone
  <2>2. CASE Kept(cache[h], i, r)
    <3>1. \A d \in Buffers : c[d].item = j => Same(c[d], cache[d])
      BY <1>2, <1>3, <2>2
    <3> QED
      BY <1>3, <2>1, <2>2, <3>1, OwnLess, Zenon
  <2>3. CASE ~Kept(cache[h], i, r) /\ j # i
    <3>1. \A d \in Buffers : c[d].item = j => Same(c[d], cache[d])
      BY <1>2, <2>3, KinOther
    <3>2. Own(c, j, text[j], starts[j])
      BY <2>1, <3>1, OwnLess, Zenon
    <3>3. Agrees(c, j, text[j], pdir')
      <4>1. pdir'.item = i
        BY <1>3, <2>3 DEF Dir
      <4> QED
        BY <2>3, <4>1, Zenon DEF Agrees
    <3> QED
      BY <3>2, <3>3, Zenon
  <2>4. CASE ~Kept(cache[h], i, r) /\ j = i
    <3>1. Own(c, i, text[i], starts[i])
      BY <1>0, <2>1, <2>4, OwnLoaded DEF c, Exists
    <3>2. Agrees(c, i, text[i], Dir(i))
      BY <3>1, Zenon DEF Own, Whole, Agrees, Dir
    <3> QED
      BY <1>3, <2>4, <3>1, <3>2, Zenon
  <2> QED
    BY <2>2, <2>3, <2>4, Zenon
<1>13. TwinsByOthers'
  <2> SUFFICES ASSUME ~asked', shared' = {} PROVE ~twin'
    BY DEF TwinsByOthers
  <2>1. ~twin
    BY <1>0, <1>1, Zenon DEF TwinsByOthers
  <2>2. \A j \in Items : Own(c, j, text[j], starts[j])
    BY <1>1, <1>12 DEF Alone
  <2>3. Single(c)
    <3>1. starts \in [Items -> SUBSET Nat]
      BY <1>0 DEF Types
    <3> QED
      BY <1>2, <2>2, <3>1, NoTwins, Zenon
  <2> QED
    BY <1>1, <2>1, <2>3, TwinsAre, Zenon
<1> QED
  BY <1>8, <1>9, <1>10, <1>11, <1>12, <1>13 DEF IInv


\* Another process adds or changes a response.
LEMMA OthersInv ==
  ASSUME IInv, NEW i \in Items, Others(i)
  PROVE  IInv'
<1>0. Types /\ Disk /\ Cached /\ Latest /\ Alone /\ TwinsByOthers
  BY DEF IInv
<1>1. /\ shared' = shared \cup {i} /\ cache' = cache /\ pdir' = pdir
      /\ known' = known /\ twin' = twin /\ asked' = asked
  BY DEF Others
<1>2. PICK r \in Nat : \E v, news : Fitting(i, r, v, news) /\ Wrote(i, r, v, news)
  <2>1. CASE MayAdd(i) /\ Added(i)
    <3>1. Len(text[i]) \in Nat
      BY <1>0 DEF Types
    <3>2. PICK news \in SUBSET {Len(text[i])} : Wrote(i, Len(text[i]), 1, news)
      BY <2>1 DEF Added
    <3>3. Fitting(i, Len(text[i]), 1, news)
      BY <2>1 DEF Fitting, MayAdd
    <3> QED
      BY <3>1, <3>2, <3>3
  <2>2. ASSUME NEW r \in Resps(i), MayChange(i, r), Changed(i, r)
        PROVE  \E v, news : Fitting(i, r, v, news) /\ Wrote(i, r, v, news)
    <3> DEFINE v == text[i][r + 1] + 1
    <3>1. PICK news \in SUBSET ({r} \cup {s \in {r + 1} : Exists(i, s)}) : Wrote(i, r, v, news)
      BY <2>2 DEF Changed
    <3>2. r \in Nat /\ r < Len(text[i]) /\ text[i][r + 1] < MaxVer[i]
      BY <2>2, ReadCacheAssumption DEF MayChange, Exists, Resps
    <3>3. v <= MaxVer[i]
      <4>1. text[i] \in Seq(Nat) /\ MaxVer[i] \in Nat
        BY <1>0, ReadCacheAssumption DEF Types
      <4>2. r + 1 \in 1 .. Len(text[i])
        BY <3>2, <4>1, SMTT(30)
      <4>3. text[i][r + 1] \in Nat
        BY <4>1, <4>2, ElementOf
      <4> QED
        BY <3>2, <4>1, <4>3, SMTT(30)
    <3>4. news \subseteq {r, r + 1} /\ \A s \in news : s < Len(text[i])
      BY <3>2 DEF Exists
    <3>5. Fitting(i, r, v, news)
      BY <3>2, <3>3, <3>4 DEF Fitting
    <3> QED
      BY <3>1, <3>5, Zenon
  <2>3. \A r \in Resps(i) : r \in Nat
    BY ReadCacheAssumption DEF Resps
  <2>4. (MayAdd(i) /\ Added(i)) \/ \E r \in Resps(i) : MayChange(i, r) /\ Changed(i, r)
    BY DEF Others
  <2> QED
    BY <2>1, <2>2, <2>3, <2>4
<1>3. PICK v, news : Fitting(i, r, v, news) /\ Wrote(i, r, v, news)
  BY <1>2
<1>4. /\ text' \in [Items -> Seq(Nat)] /\ starts' \in [Items -> SUBSET Nat]
      /\ \A j \in Items : j # i => text'[j] = text[j] /\ starts'[j] = starts[j]
      /\ \A j \in Items : /\ Len(text[j]) <= Len(text'[j])
                          /\ \A k \in 1 .. Len(text[j]) : text[j][k] <= text'[j][k]
      /\ \A kn2 : Learns(known[i], kn2, r + 1, v) => Filed(i, text'[i], starts'[i], kn2)
  BY <1>0, <1>3, WroteIs, Zenon
<1>5. Types'
  BY <1>0, <1>1, <1>4, Zenon DEF Types
<1>6. Disk'
  <2>1. Filed(i, text'[i], starts'[i], known[i])
    BY <1>4, Zenon DEF Learns
  <2> QED
    BY <1>0, <1>1, <1>4, <2>1, Zenon DEF Disk
<1>7. Cached'
  <2>1. cache \in [Buffers -> Bufs] /\ Kin(cache, i)
    BY <1>0 DEF Types, Kin, Same
  <2>2. \A b \in Buffers : cache[b].item \in Items => Past(cache[b], text'[cache[b].item])
    BY <1>0, <1>4, <2>1, CachedStep, Zenon
  <2> QED
    BY <1>1, <2>2, Zenon DEF Cached
<1>8. Latest'
  BY <1>0, <1>1, Zenon DEF Latest
<1>9. Alone'
  BY <1>0, <1>1, <1>4, Zenon DEF Alone
<1>10. TwinsByOthers'
  BY <1>1 DEF TwinsByOthers
<1> QED
  BY <1>5, <1>6, <1>7, <1>8, <1>9, <1>10, Zenon DEF IInv

\* pdir is used for something else.
LEMMA ElsewhereInv ==
  ASSUME IInv, Elsewhere
  PROVE  IInv'
<1>0. Types /\ Disk /\ Cached /\ Latest /\ Alone /\ TwinsByOthers
  BY DEF IInv
<1>1. /\ pdir' = Other /\ text' = text /\ starts' = starts /\ cache' = cache
      /\ shared' = shared /\ known' = known /\ twin' = twin /\ asked' = asked
  BY DEF Elsewhere
<1>2. Types'
  BY <1>0, <1>1, Zenon DEF Types
<1>3. Alone'
  <2>1. \A j : Agrees(cache, j, text[j], Other)
    BY DEF Agrees
  <2> QED
    BY <1>0, <1>1, <2>1, Zenon DEF Alone
<1>4. Disk' /\ Cached' /\ Latest' /\ TwinsByOthers'
  BY <1>0, <1>1, Zenon DEF Disk, Cached, Latest, TwinsByOthers
<1> QED
  BY <1>2, <1>3, <1>4 DEF IInv

LEMMA NextInv == IInv /\ [Next]_vars => IInv'
<1> SUFFICES ASSUME IInv, [Next]_vars PROVE IInv'
  OBVIOUS
<1>1. CASE Elsewhere
  BY <1>1, ElsewhereInv
<1>2. CASE \E i \in Items : Add(i)
  BY <1>2, AddInv
<1>3. CASE \E i \in Items : Others(i)
  BY <1>3, OthersInv
<1>4. CASE \E i \in Items : \E r \in Resps(i) : Get(i, r)
  BY <1>4, GetInv
<1>5. CASE \E i \in Items : \E r \in Resps(i) : Change(i, r)
  BY <1>5, ChangeInv
<1>6. CASE \E i \in Items : \E r \in Resps(i) : Delete(i, r)
  BY <1>6, DeleteInv
<1>7. CASE UNCHANGED vars
  <2>1. /\ text' = text /\ starts' = starts /\ cache' = cache /\ pdir' = pdir
        /\ shared' = shared /\ known' = known /\ twin' = twin /\ asked' = asked
    BY <1>7 DEF vars
  <2>2. Types' /\ Disk' /\ Cached'
    BY <2>1, Zenon DEF IInv, Types, Disk, Cached
  <2>3. Latest' /\ Alone' /\ TwinsByOthers'
    BY <2>1, Zenon DEF IInv, Latest, Alone, TwinsByOthers
  <2> QED
    BY <2>2, <2>3 DEF IInv
<1> QED
  BY <1>1, <1>2, <1>3, <1>4, <1>5, <1>6, <1>7, Zenon DEF Next


-----------------------------------------------------------------------------
(* The theorems.                                                           *)

\* What a buffer may hold, always.
THEOREM Invariance == Spec => []IInv
  BY InitInv, NextInv, PTL DEF Spec

\* The disk and the buffers are in range, and no buffer of a_cch_tbuf() holds
\* a response, or a version of one, that was never written.
THEOREM TypeCorrect == Spec => []TypeOK
<1>1. IInv => TypeOK
  <2> SUFFICES ASSUME IInv PROVE TypeOK
    OBVIOUS
  <2>0. Types /\ Disk /\ Cached
    BY DEF IInv
  <2>1. ASSUME NEW i \in Items
        PROVE  Len(text[i]) <= MaxResp[i] + 1 /\ starts[i] \subseteq Resps(i)
    <3>1. /\ Len(text[i]) \in 1 .. MaxResp[i] + 1 /\ \A s \in starts[i] : s < Len(text[i])
          /\ MaxResp[i] \in Nat /\ starts[i] \subseteq Nat
      BY <2>0, ReadCacheAssumption DEF Types, Disk, Filed
    <3>2. ASSUME NEW s \in starts[i] PROVE s \in 0 .. MaxResp[i]
      BY <3>1, SMTT(30)
    <3> QED
      BY <3>1, <3>2, SMTT(30) DEF Resps
  <2>2. ASSUME NEW b \in Buffers
        PROVE  LET buf == cache[b] IN
               /\ buf.used \in 0 .. NBuf
               /\ buf.item > 0 => /\ buf.item \in Items /\ last(buf) < Len(text[buf.item])
                                  /\ \A k \in DOMAIN buf.vers :
                                       buf.vers[k] \in 1 .. text[buf.item][buf.first + k]
    <3> DEFINE x == cache[b]
    <3>1. x \in Bufs /\ (x.item \in Items => Past(x, text[x.item]))
      BY <2>0 DEF Types, Cached
    <3>2. /\ x.used \in 0 .. NBuf /\ (x.item > 0 => x.item \in Items)
          /\ DOMAIN x.vers = 1 .. Len(x.vers)
      <4> HIDE DEF x
      <4> QED
        BY <3>1 DEF Bufs
    <3> HIDE DEF x
    <3>3. /\ x.used \in 0 .. NBuf
          /\ x.item > 0 => /\ x.item \in Items /\ last(x) < Len(text[x.item])
                           /\ \A k \in DOMAIN x.vers :
                                x.vers[k] \in 1 .. text[x.item][x.first + k]
      BY <3>1, <3>2, Zenon DEF Past
    <3> QED
      BY <3>3 DEF x
  <2> QED
    BY <2>1, <2>2, Zenon DEF TypeOK
<1> QED
  BY <1>1, Invariance, PTL

\* A buffer that is a part file shows the disk.
LEMMA WholeShows ==
  ASSUME NEW x \in Bufs, NEW i, NEW txt, NEW sts, Whole(x, txt, sts),
         NEW r \in Nat, Holds(x, i, r)
  PROVE  x.vers[r - x.first + 1] = txt[r + 1]
<1> DEFINE k == r - x.first + 1
<1>1. /\ x.first \in Nat /\ Len(x.vers) \in Nat /\ last(x) = x.first + Len(x.vers) - 1
      /\ x.first <= r /\ r <= last(x)
  BY LastIs DEF Holds
<1>2. k \in 1 .. Len(x.vers) /\ x.first + k = r + 1
  BY <1>1, SMTT(30)
<1> HIDE DEF k
<1>3. x.vers[k] = txt[x.first + k]
  BY <1>2, Zenon DEF Whole
<1> QED
  BY <1>2, <1>3, Zenon DEF k

\* A process that is alone with an item, and asks a_cch_tbuf() for responses
\* that are there, is shown what is on the disk, unless getline2() believes
\* the part directory of another item.
THEOREM Fresh == Spec => []FreshIfAlone
<1>1. IInv => FreshIfAlone
  <2> SUFFICES ASSUME IInv, ~asked, NEW i \in Items, i \notin shared, NEW r \in Present(i)
               PROVE  \/ Shown(i, r) = text[i][r + 1]
                      \/ Shown(i, r) = 0 /\ pdir # Other /\ pdir.item # i
    BY DEF FreshIfAlone
  <2> DEFINE h == Hit(cache, i, r)
             old == cache[h]
             x == Buf(i, r)
  <2>0. Types /\ Disk
    BY DEF IInv
  <2>1. r \in Nat /\ r < Len(text[i]) /\ r \in Resps(i) /\ Len(text[i]) \in Nat
    <3>1. Len(text[i]) \in 1 .. MaxResp[i] + 1 /\ MaxResp[i] \in Nat
      BY <2>0, ReadCacheAssumption DEF Disk, Filed
    <3> QED
      BY <3>1 DEF Present, Resps
  <2>2. h \in Buffers /\ old \in Bufs /\ x \in Bufs
    BY <2>0, <2>1, HitIs, BufIs, Zenon DEF Types
  <2>3. /\ Kept(old, i, r) => x = old
        /\ ~Kept(old, i, r) => Whole(x, text[i], starts[i]) /\ Holds(x, i, r)
    BY <2>0, <2>1, BufIs, Zenon
  <2>4. /\ Holds(x, i, r) => Shown(i, r) = x.vers[r - x.first + 1]
        /\ ~Holds(x, i, r) => Shown(i, r) = 0
    BY <2>1, ShownIs, Zenon
  <2>5. /\ old.item = i => Whole(old, text[i], starts[i])
        /\ pdir # Other /\ pdir.item = i /\ old.item = i =>
             last(old) + 1 \in pdir.starts \cup {Len(text[i])}
    BY <2>2, Zenon DEF IInv, Alone, Own, Agrees
  <2>6. pdir # Other => pdir.starts \subseteq Nat /\ 0 \in pdir.starts
    BY <2>0, Zenon DEF Types, Dirs
  <2> HIDE DEF h, old, x
  <2>7. CASE Holds(x, i, r)
    <3>1. Whole(x, text[i], starts[i])
      BY <2>3, <2>5, <2>7, Zenon DEF Holds
    <3> QED
      BY <2>1, <2>2, <2>4, <2>7, <3>1, WholeShows, SMTT(30)
  <2>8. CASE ~Holds(x, i, r)
    <3>1. Beyond(pdir, old, i, r)
      BY <2>3, <2>8 DEF Kept
    <3>2. /\ old.item = i /\ old.first <= r /\ r > last(old)
          /\ pdir # Other /\ partnum(pdir.starts, r) = old.first
      BY <3>1 DEF Beyond
    <3>3. \A t \in pdir.starts : t <= old.first \/ r < t
      BY <2>1, <2>6, <3>2, PartnumIs, SMTT(30)
    <3>4. old.first \in Nat /\ last(old) \in Int /\ old.first <= last(old)
      BY <2>2, <2>5, <3>2, LastIs DEF Whole
    <3>5. last(old) + 1 \notin pdir.starts /\ last(old) + 1 # Len(text[i])
      <4>1. ~(last(old) + 1 <= old.first) /\ ~(r < last(old) + 1)
        BY <2>1, <3>2, <3>4
      <4>2. last(old) + 1 # Len(text[i])
        BY <2>1, <3>2, <3>4, SMTT(30)
      <4> QED
        BY <3>3, <4>1, <4>2
    <3>6. pdir.item # i
      BY <2>5, <3>2, <3>5
    <3> QED
      BY <2>4, <2>8, <3>2, <3>6, Zenon
  <2> QED
    BY <2>7, <2>8, Zenon
<1> QED
  BY <1>1, Invariance, PTL

\* Once getline2() has no part directory to believe, a response that is there
\* is found.
THEOREM Found == Spec => []NotMissed
<1>1. IInv => NotMissed
  <2> SUFFICES ASSUME IInv, pdir = Other, NEW i \in Items, NEW r \in Present(i)
               PROVE  Shown(i, r) # 0
    BY DEF NotMissed
  <2> DEFINE old == cache[Hit(cache, i, r)]
             x == Buf(i, r)
  <2>0. Types /\ Disk
    BY DEF IInv
  <2>1. r \in Nat /\ r < Len(text[i]) /\ r \in Resps(i)
    <3>1. Len(text[i]) \in 1 .. MaxResp[i] + 1 /\ MaxResp[i] \in Nat
      BY <2>0, ReadCacheAssumption, Zenon DEF Disk, Filed
    <3> QED
      BY <3>1 DEF Present, Resps
  <2>2. /\ Kept(old, i, r) => x = old
        /\ ~Kept(old, i, r) => Holds(x, i, r)
    BY <2>0, <2>1, BufIs, Zenon
  <2>3. Kept(old, i, r) => Holds(old, i, r)
    BY DEF Kept, Beyond
  <2>4. Holds(x, i, r)
    BY <2>2, <2>3
  <2>5. Shown(i, r) \in Nat /\ Shown(i, r) > 0
    BY <2>1, <2>4, ShownIs
  <2> QED
    BY <2>5
<1> QED
  BY <1>1, Invariance, PTL

\* As long as no response was in two buffers of a_cch_tbuf(), a process is not
\* shown a version older than one that it has written or been shown before.
THEOREM Onward == Spec => []NeverBack
<1>1. IInv => NeverBack
  <2> SUFFICES ASSUME IInv, ~twin, NEW i \in Items, NEW r \in Present(i)
               PROVE  Shown(i, r) \in {0} \cup known[i][r + 1] .. MaxVer[i]
    BY DEF NeverBack
  <2> DEFINE h == Hit(cache, i, r)
             c == Loaded(i, r)
             x == Buf(i, r)
  <2>0. Types /\ Disk /\ Latest
    BY DEF IInv
  <2>1. r \in Nat /\ r < Len(text[i]) /\ r \in Resps(i) /\ r + 1 \in 1 .. MaxResp[i] + 1
    <3>1. Len(text[i]) \in 1 .. MaxResp[i] + 1 /\ MaxResp[i] \in Nat
      BY <2>0, ReadCacheAssumption, Zenon DEF Disk, Filed
    <3> QED
      BY <3>1 DEF Present, Resps
  <2>2. SUFFICES ASSUME Holds(x, i, r) PROVE Shown(i, r) \in known[i][r + 1] .. MaxVer[i]
    BY <2>1, ShownIs, Zenon
  <2>3. /\ Shown(i, r) = x.vers[r - x.first + 1] /\ Shown(i, r) \in Nat
        /\ Shown(i, r) <= text[i][r + 1]
    BY <2>1, <2>2, ShownIs, Zenon
  <2>4. h \in Buffers /\ Same(c[h], x) /\ c \in [Buffers -> Bufs] /\ Kin(c, i)
    BY <2>0, <2>1, LoadedIs, KinLoaded
  <2> HIDE DEF c, x, h
  <2>5. Recent(c, i, known[i])
    BY <2>0, <2>4, RecentStep DEF Latest
  <2>6. Holds(c[h], i, r) /\ c[h].vers = x.vers /\ c[h].first = x.first
    BY <2>2, <2>4, SameHolds DEF Same
  <2>7. known[i][r + 1] <= Shown(i, r)
    BY <2>1, <2>3, <2>4, <2>5, <2>6, Zenon DEF Recent
  <2>8. known[i][r + 1] \in Nat /\ text[i][r + 1] \in 1 .. MaxVer[i] /\ MaxVer[i] \in Nat
    <3>1. known[i] \in [1 .. MaxResp[i] + 1 -> Nat] /\ MaxVer[i] \in Nat
      BY <2>0, ReadCacheAssumption, Zenon DEF Types
    <3>2. Len(text[i]) \in Nat /\ \A k \in 1 .. Len(text[i]) : text[i][k] \in 1 .. MaxVer[i]
      BY <2>0 DEF Types, Disk, Filed
    <3>3. r + 1 \in 1 .. Len(text[i])
      BY <2>1, <3>2
    <3> QED
      BY <2>1, <3>1, <3>2, <3>3, Zenon
  <2> QED
    BY <2>3, <2>7, <2>8
<1> QED
  BY <1>1, Invariance, PTL

\* a_cch_tbuf() has a response in two buffers only after another process has
\* written to an item, or a response was asked for that is not there.
THEOREM TwinsExplained == Spec => []TwinsByOthers
<1>1. IInv => TwinsByOthers
  BY DEF IInv
<1> QED
  BY <1>1, Invariance, PTL

=============================================================================
