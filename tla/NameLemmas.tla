----------------------------- MODULE NameLemmas -----------------------------
(***************************************************************************)
(* What the operators of NameList do, for any number of words, values,     *)
(* lines and parts: the binary search, the editing and the splitting of a  *)
(* part, and the directory.                                                *)
(***************************************************************************)
EXTENDS NameList, SequenceTheorems, WellFoundedInduction, TLAPS

-----------------------------------------------------------------------------
(* Numbers, sequences and the recursion of the binary search.              *)

\* A set of numbers has a least one.
LEMMA Least ==
  ASSUME NEW T, T \subseteq Nat, T # {}
  PROVE  \E x \in T : \A y \in T : x <= y
<1>1. PICK x \in T : \A y \in T : ~(<<y, x>> \in OpToRel(<, Nat))
  BY NatLessThanWellFounded, WFMin
<1>2. \A y \in T : ~(y < x)
  BY <1>1, Zenon DEF OpToRel
<1> QED
  BY <1>2

\* nameinsert(): the lines behind the slot move up.
LEMMA Inserting ==
  ASSUME NEW S, NEW s \in Seq(S), NEW i \in 1 .. Len(s) + 1, NEW e \in S
  PROVE  /\ InsertAt(s, i, e) \in Seq(S)
         /\ Len(InsertAt(s, i, e)) = Len(s) + 1
         /\ \A j \in 1 .. Len(s) + 1 :
              InsertAt(s, i, e)[j] = IF j < i THEN s[j] ELSE IF j = i THEN e ELSE s[j - 1]
<1> DEFINE a == SubSeq(s, 1, i - 1)
           b == SubSeq(s, i, Len(s))
<1>1. Len(s) \in Nat /\ \A j \in 1 .. Len(s) : s[j] \in S
  BY ElementOfSeq, LenProperties
<1>2. a \in Seq(S) /\ Len(a) = i - 1 /\ \A j \in 1 .. i - 1 : a[j] = s[j]
  BY <1>1, SubSeqProperties
<1>3. b \in Seq(S) /\ Len(b) = Len(s) - i + 1 /\ \A j \in 1 .. Len(s) - i + 1 : b[j] = s[i + j - 1]
  BY <1>1, SubSeqProperties
<1>4. <<e>> \in Seq(S) /\ Len(<<e>>) = 1 /\ <<e>>[1] = e
  OBVIOUS
<1> HIDE DEF a, b
<1>5. /\ a \o <<e>> \in Seq(S) /\ Len(a \o <<e>>) = i
      /\ \A j \in 1 .. i : (a \o <<e>>)[j] = IF j < i THEN s[j] ELSE e
  BY <1>1, <1>2, <1>4, ConcatProperties
<1> DEFINE c == a \o <<e>>
<1>6. c \in Seq(S) /\ Len(c) = i /\ \A j \in 1 .. i : c[j] = IF j < i THEN s[j] ELSE e
  BY <1>5
<1> HIDE DEF c
<1>7. /\ c \o b \in Seq(S) /\ Len(c \o b) = Len(c) + Len(b)
      /\ \A j \in 1 .. Len(c) + Len(b) : (c \o b)[j] = IF j <= Len(c) THEN c[j] ELSE b[j - Len(c)]
  BY <1>3, <1>6, ConcatProperties
<1>8. InsertAt(s, i, e) = c \o b
  BY DEF InsertAt, a, b, c
<1>9. ASSUME NEW j \in 1 .. Len(s) + 1
      PROVE  (c \o b)[j] = IF j < i THEN s[j] ELSE IF j = i THEN e ELSE s[j - 1]
  <2>1. CASE j <= i
    BY <1>1, <1>3, <1>6, <1>7, <2>1
  <2>2. CASE j > i
    <3>1. j \in 1 .. Len(c) + Len(b) /\ ~(j <= Len(c)) /\ j - i \in 1 .. Len(s) - i + 1
      BY <1>1, <1>3, <1>6, <2>2
    <3>2. (c \o b)[j] = b[j - i] /\ b[j - i] = s[i + (j - i) - 1]
      BY <1>3, <1>6, <1>7, <3>1
    <3> QED
      BY <2>2, <3>2
  <2>3. j <= i \/ j > i
    BY <1>1
  <2> QED
    BY <2>1, <2>2, <2>3, Zenon
<1>10. Len(c \o b) = Len(s) + 1
  BY <1>1, <1>3, <1>6, <1>7
<1> QED
  BY <1>7, <1>8, <1>9, <1>10

\* The lines behind the one that is removed move down.
LEMMA Removing ==
  ASSUME NEW S, NEW s \in Seq(S), NEW i \in 1 .. Len(s)
  PROVE  /\ RemoveAt(s, i) \in Seq(S)
         /\ Len(RemoveAt(s, i)) = Len(s) - 1
         /\ \A j \in 1 .. Len(s) - 1 : RemoveAt(s, i)[j] = IF j < i THEN s[j] ELSE s[j + 1]
<1> DEFINE a == SubSeq(s, 1, i - 1)
           b == SubSeq(s, i + 1, Len(s))
<1>1. Len(s) \in Nat /\ \A j \in 1 .. Len(s) : s[j] \in S
  BY ElementOfSeq, LenProperties
<1>2. a \in Seq(S) /\ Len(a) = i - 1 /\ \A j \in 1 .. i - 1 : a[j] = s[j]
  BY <1>1, SubSeqProperties
<1>3. b \in Seq(S) /\ Len(b) = Len(s) - i /\ \A j \in 1 .. Len(s) - i : b[j] = s[i + j]
  BY <1>1, SubSeqProperties
<1> HIDE DEF a, b
<1>4. /\ a \o b \in Seq(S) /\ Len(a \o b) = Len(a) + Len(b)
      /\ \A j \in 1 .. Len(a) + Len(b) : (a \o b)[j] = IF j <= Len(a) THEN a[j] ELSE b[j - Len(a)]
  BY <1>2, <1>3, ConcatProperties, Zenon
<1>5. RemoveAt(s, i) = a \o b
  BY DEF RemoveAt, a, b
<1>6. ASSUME NEW j \in 1 .. Len(s) - 1
      PROVE  (a \o b)[j] = IF j < i THEN s[j] ELSE s[j + 1]
  <2>1. CASE j < i
    BY <1>1, <1>2, <1>3, <1>4, <2>1
  <2>2. CASE j >= i
    <3>1. j \in 1 .. Len(a) + Len(b) /\ ~(j <= Len(a)) /\ j - (i - 1) \in 1 .. Len(s) - i
      BY <1>1, <1>2, <1>3, <2>2
    <3>2. (a \o b)[j] = b[j - (i - 1)] /\ b[j - (i - 1)] = s[i + (j - (i - 1))]
      BY <1>2, <1>3, <1>4, <3>1
    <3> QED
      BY <2>2, <3>2
  <2>3. j < i \/ j >= i
    BY <1>1
  <2> QED
    BY <2>1, <2>2, <2>3, Zenon
<1>7. Len(a \o b) = Len(s) - 1
  BY <1>1, <1>2, <1>3, <1>4
<1> QED
  BY <1>4, <1>5, <1>6, <1>7

\* A function that goes on from one state to the next until it may stop.
Descent(f, D, stop, next) == f = [x \in D |-> IF x \in stop THEN x ELSE f[next[x]]]

\* There is such a function.
LEMMA Descents ==
  ASSUME NEW D, NEW stop \in SUBSET D, NEW next \in [D -> D]
  PROVE  \E f : Descent(f, D, stop, next)
<1> DEFINE Closed(C) == \A z \in C \ stop : next[z] \in C
           R(x) == {y \in stop : \A C \in SUBSET D : x \in C /\ Closed(C) => y \in C}
           f == [x \in D |-> IF x \in stop THEN x ELSE CHOOSE y : y \in R(next[x])]
<1>1. ASSUME NEW x \in D \ stop, next[x] \notin stop PROVE R(next[x]) = R(next[next[x]])
  <2> DEFINE z == next[x]
  <2>1. z \in D \ stop /\ next[z] \in D
    BY <1>1
  <2>2. ASSUME NEW y \in R(z) PROVE y \in R(next[z])
    <3>1. SUFFICES ASSUME NEW C \in SUBSET D, next[z] \in C, Closed(C) PROVE y \in C
      BY <2>2
    <3>2. C \cup {z} \in SUBSET D /\ z \in C \cup {z} /\ Closed(C \cup {z})
      BY <2>1, <3>1
    <3>3. y \in C \cup {z} /\ y \in stop
      BY <2>2, <3>2, Zenon
    <3> QED
      BY <3>3, <2>1
  <2>3. ASSUME NEW y \in R(next[z]) PROVE y \in R(z)
    BY <2>1, <2>3
  <2> QED
    BY <2>2, <2>3
<1>2. ASSUME NEW x \in D \ stop, next[x] \in stop PROVE R(next[x]) = {next[x]}
  <2> DEFINE z == next[x]
  <2>1. z \in stop /\ {z} \in SUBSET D /\ Closed({z})
    BY <1>2
  <2>2. R(z) \subseteq {z}
    BY <2>1, Zenon
  <2>3. z \in R(z)
    BY <2>1
  <2> QED
    BY <2>2, <2>3
<1>3. ASSUME NEW x \in D \ stop PROVE (CHOOSE y : y \in R(next[x])) = f[next[x]]
  <2>1. CASE next[x] \in stop
    <3>1. R(next[x]) = {next[x]} /\ f[next[x]] = next[x]
      BY <1>2, <1>3, <2>1
    <3> QED
      BY <3>1
  <2>2. CASE next[x] \notin stop
    <3>1. R(next[x]) = R(next[next[x]]) /\ next[x] \in D
      BY <1>1, <1>3, <2>2
    <3> HIDE DEF R
    <3>2. f[next[x]] = CHOOSE y : y \in R(next[next[x]])
      BY <2>2, <3>1
    <3> QED
      BY <3>1, <3>2
  <2> QED
    BY <2>1, <2>2, Zenon
<1>4. f = [x \in D |-> IF x \in stop THEN x ELSE f[next[x]]]
  <2> HIDE DEF R
  <2>1. ASSUME NEW x \in D \ stop PROVE f[x] = f[next[x]]
    <3>1. f[x] = CHOOSE y : y \in R(next[x])
      OBVIOUS
    <3> QED
      BY ONLY <1>3, <2>1, <3>1
  <2>2. \A x \in stop : f[x] = x
    OBVIOUS
  <2> HIDE DEF f
  <2>3. f = [x \in D |-> f[x]]
    BY DEF f
  <2> QED
    BY <2>1, <2>2, <2>3
<1> HIDE DEF f
<1> QED
  BY <1>4 DEF Descent

\* When the way gets shorter, what every step keeps holds in the end.
Shortens(f, D, stop, next, m, G) ==
  /\ stop \in SUBSET D /\ next \in [D -> D] /\ m \in [D -> Nat] /\ G \in SUBSET D
  /\ \A x \in D \ stop : m[next[x]] < m[x]
  /\ \A x \in G \ stop : next[x] \in G
  /\ Descent(f, D, stop, next)

LEMMA Descended ==
  ASSUME NEW f, NEW D, NEW stop, NEW next, NEW m, NEW G, Shortens(f, D, stop, next, m, G)
  PROVE  \A x \in G : f[x] \in G \cap stop
<1> USE DEF Shortens
<1> DEFINE Bad == {x \in G : f[x] \notin G \cap stop}
           T == {m[x] : x \in Bad}
<1> SUFFICES ASSUME Bad # {} PROVE FALSE
  OBVIOUS
<1>1. T \subseteq Nat /\ T # {}
  OBVIOUS
<1>2. PICK n \in T : \A k \in T : n <= k
  BY <1>1, Least, Zenon
<1>3. PICK x \in Bad : n = m[x]
  BY <1>2
<1>4. x \in D /\ x \in G /\ f[x] = IF x \in stop THEN x ELSE f[next[x]]
  BY <1>3 DEF Descent
<1>5. x \notin stop
  BY <1>3, <1>4
<1>6. next[x] \in G /\ f[next[x]] = f[x] /\ m[next[x]] < m[x]
  BY <1>4, <1>5
<1>7. next[x] \in Bad
  BY <1>3, <1>6
<1>8. m[x] <= m[next[x]] /\ m[x] \in Nat /\ m[next[x]] \in Nat
  BY <1>2, <1>3, <1>4, <1>7
<1> QED
  BY <1>6, <1>8

-----------------------------------------------------------------------------
(* The binary search.                                                      *)

States(n) == [lo : 0 .. n - 1, hi : 0 .. n - 1, md : 0 .. n - 1, result : -1 .. 1]
Halts(n) == {s \in States(n) : s.hi <= s.lo + 1 \/ s.result = 0}
Mid(s) == (s.hi + s.lo) \div 2
Half(cmp, s) == [lo |-> IF Line(cmp, Mid(s)) < 0 THEN Mid(s) ELSE s.lo,
                 hi |-> IF Line(cmp, Mid(s)) > 0 THEN Mid(s) ELSE s.hi,
                 md |-> Mid(s), result |-> Line(cmp, Mid(s))]
Halves(cmp) == [s \in States(Len(cmp)) |-> Half(cmp, s)]
Width(n) == [s \in States(n) |-> (IF s.hi > s.lo THEN 2 * (s.hi - s.lo) ELSE 0)
                                   + (IF s.result = 0 THEN 0 ELSE 1)]
Start(cmp, first) == [lo |-> 0, hi |-> Len(cmp) - 1, md |-> first, result |-> 1]

\* A probe is between lo and hi.
LEMMA Probing ==
  ASSUME NEW cmp \in Seq(-1 .. 1), NEW s \in States(Len(cmp))
  PROVE  /\ Mid(s) \in 0 .. Len(cmp) - 1 /\ Line(cmp, Mid(s)) \in -1 .. 1
         /\ Half(cmp, s) \in States(Len(cmp))
         /\ s.lo + 1 < s.hi => s.lo < Mid(s) /\ Mid(s) < s.hi
<1> DEFINE n == Len(cmp)
<1>1. n \in Nat /\ s.lo \in 0 .. n - 1 /\ s.hi \in 0 .. n - 1 /\ s.md \in 0 .. n - 1
      /\ s.result \in -1 .. 1
  BY DEF States
<1> HIDE DEF n
<1>2. /\ Mid(s) \in 0 .. n - 1
      /\ s.lo + 1 < s.hi => s.lo < Mid(s) /\ Mid(s) < s.hi
  BY <1>1 DEF Mid
<1>3. Mid(s) + 1 \in 1 .. Len(cmp)
  BY <1>1, <1>2 DEF n
<1>4. Line(cmp, Mid(s)) \in -1 .. 1
  BY <1>3, ElementOfSeq DEF Line
<1>5. Half(cmp, s) \in States(n)
  <2> DEFINE m == Mid(s)
             c == Line(cmp, Mid(s))
  <2>1. m \in 0 .. n - 1 /\ c \in -1 .. 1
    BY <1>2, <1>4
  <2>2. Half(cmp, s) = [lo |-> IF c < 0 THEN m ELSE s.lo, hi |-> IF c > 0 THEN m ELSE s.hi,
                        md |-> m, result |-> c]
    BY DEF Half
  <2> HIDE DEF m, c
  <2> QED
    BY <1>1, <2>1, <2>2 DEF States
<1> QED
  BY <1>2, <1>4, <1>5 DEF n

\* The search gets somewhere with every probe.
LEMMA Narrowing ==
  ASSUME NEW cmp \in Seq(-1 .. 1)
  PROVE  /\ Halts(Len(cmp)) \in SUBSET States(Len(cmp))
         /\ Halves(cmp) \in [States(Len(cmp)) -> States(Len(cmp))]
         /\ Width(Len(cmp)) \in [States(Len(cmp)) -> Nat]
         /\ \A s \in States(Len(cmp)) \ Halts(Len(cmp)) :
              Width(Len(cmp))[Halves(cmp)[s]] < Width(Len(cmp))[s]
<1> DEFINE n == Len(cmp)
<1>1. \A s \in States(n) : Half(cmp, s) \in States(n)
  BY Probing
<1>2. Halves(cmp) \in [States(n) -> States(n)]
  BY <1>1, Zenon DEF Halves
<1>3. \A s \in States(n) : /\ s.lo \in Int /\ s.hi \in Int /\ s.result \in Int
                           /\ Width(n)[s] = (IF s.hi > s.lo THEN 2 * (s.hi - s.lo) ELSE 0)
                                              + (IF s.result = 0 THEN 0 ELSE 1)
  BY DEF States, Width
<1>4. Width(n) \in [States(n) -> Nat]
  <2>1. \A s \in States(n) : Width(n)[s] \in Nat
    BY <1>3
  <2>2. Width(n) = [s \in States(n) |-> Width(n)[s]]
    BY DEF Width
  <2> QED
    BY <2>1, <2>2
<1>5. ASSUME NEW s \in States(n) \ Halts(n) PROVE Width(n)[Halves(cmp)[s]] < Width(n)[s]
  <2> DEFINE h == Half(cmp, s)
  <2>1. s.lo + 1 < s.hi /\ s.result # 0 /\ s.lo \in Int /\ s.hi \in Int
    BY <1>3, <1>5 DEF Halts
  <2>2. Halves(cmp)[s] = h /\ h \in States(n)
    BY <1>1, <1>5 DEF Halves
  <2>3. s.lo < Mid(s) /\ Mid(s) < s.hi /\ Mid(s) \in Int /\ Line(cmp, Mid(s)) \in -1 .. 1
    BY <1>5, <2>1, Probing
  <2>4. /\ h.lo = IF Line(cmp, Mid(s)) < 0 THEN Mid(s) ELSE s.lo
        /\ h.hi = IF Line(cmp, Mid(s)) > 0 THEN Mid(s) ELSE s.hi
        /\ h.result = Line(cmp, Mid(s))
    BY DEF Half
  <2>5. Width(n)[h] = (IF h.hi > h.lo THEN 2 * (h.hi - h.lo) ELSE 0) + (IF h.result = 0 THEN 0 ELSE 1)
    BY <1>3, <2>2
  <2>6. Width(n)[s] = (IF s.hi > s.lo THEN 2 * (s.hi - s.lo) ELSE 0) + (IF s.result = 0 THEN 0 ELSE 1)
    BY <1>3, <1>5
  <2> HIDE DEF h, n
  <2> QED
    BY <2>1, <2>2, <2>3, <2>4, <2>5, <2>6
<1> QED
  BY <1>2, <1>4, <1>5 DEF Halts

\* What the loop keeps is true when it ends.
LEMMA Searching ==
  ASSUME NEW cmp \in Seq(-1 .. 1), NEW first \in {0, 1}, 2 <= Len(cmp),
         NEW G \in SUBSET States(Len(cmp)), Start(cmp, first) \in G,
         \A s \in G \ Halts(Len(cmp)) : Half(cmp, s) \in G
  PROVE  Search(cmp, first) \in G \cap Halts(Len(cmp))
<1> DEFINE n == Len(cmp)
           IsHalved(f) ==
             f = [s \in States(n) |->
                    IF s.hi <= s.lo + 1 \/ s.result = 0 THEN s
                    ELSE f[[lo |-> IF Line(cmp, (s.hi + s.lo) \div 2) < 0
                                   THEN (s.hi + s.lo) \div 2 ELSE s.lo,
                            hi |-> IF Line(cmp, (s.hi + s.lo) \div 2) > 0
                                   THEN (s.hi + s.lo) \div 2 ELSE s.hi,
                            md |-> (s.hi + s.lo) \div 2,
                            result |-> Line(cmp, (s.hi + s.lo) \div 2)]]]
<1>1. Search(cmp, first) = (CHOOSE f : IsHalved(f))[Start(cmp, first)]
  BY DEF Search, Start, States
<1>2. \A f : IsHalved(f) <=> Descent(f, States(n), Halts(n), Halves(cmp))
  <2>1. SUFFICES ASSUME NEW f PROVE IsHalved(f) <=> Descent(f, States(n), Halts(n), Halves(cmp))
    OBVIOUS
  <2>2. ASSUME NEW s \in States(n)
        PROVE  (IF s.hi <= s.lo + 1 \/ s.result = 0 THEN s ELSE f[Half(cmp, s)])
                 = (IF s \in Halts(n) THEN s ELSE f[Halves(cmp)[s]])
    BY <2>2, Zenon DEF Halts, Halves
  <2>3. [s \in States(n) |-> IF s.hi <= s.lo + 1 \/ s.result = 0 THEN s ELSE f[Half(cmp, s)]]
          = [s \in States(n) |-> IF s \in Halts(n) THEN s ELSE f[Halves(cmp)[s]]]
    BY <2>2, Zenon
  <2>4. IsHalved(f) <=>
          f = [s \in States(n) |-> IF s.hi <= s.lo + 1 \/ s.result = 0 THEN s ELSE f[Half(cmp, s)]]
    BY DEF Half, Mid
  <2> HIDE DEF IsHalved
  <2> QED
    BY <2>3, <2>4, Zenon DEF Descent
<1>3. \E f : IsHalved(f)
  BY <1>2, Narrowing, Descents, Zenon
<1> HIDE DEF IsHalved
<1>4. PICK f : IsHalved(f) /\ Search(cmp, first) = f[Start(cmp, first)]
  BY <1>1, <1>3, Zenon
<1>5. Descent(f, States(n), Halts(n), Halves(cmp))
  BY <1>2, <1>4
<1>6. \A s \in G \ Halts(n) : Halves(cmp)[s] \in G
  BY DEF Halves
<1>7. \A s \in G : f[s] \in G \cap Halts(n)
  <2>1. /\ Halts(n) \in SUBSET States(n) /\ Halves(cmp) \in [States(n) -> States(n)]
        /\ Width(n) \in [States(n) -> Nat]
        /\ \A s \in States(n) \ Halts(n) : Width(n)[Halves(cmp)[s]] < Width(n)[s]
    BY Narrowing
  <2> HIDE DEF n
  <2>2. G \in SUBSET States(n)
    BY DEF n
  <2>3. Shortens(f, States(n), Halts(n), Halves(cmp), Width(n), G)
    BY <1>5, <1>6, <2>1, <2>2 DEF Shortens
  <2> QED
    BY <2>3, Descended, Zenon
<1> QED
  BY <1>4, <1>7

-----------------------------------------------------------------------------
(* What the operators do to a part and to the directory.                   *)

Strs == (0 .. Words + 1) \X (0 .. Values) \X Nat
Ops == [remove : BOOLEAN, name : Names]

\* A part: markers at both ends, and nothing that collates behind every word
\* before the last line.
Shaped(b) ==
  /\ b \in Seq(Strs) /\ 2 <= Len(b) /\ b[1][2] = 0 /\ b[Len(b)][2] = 0
  /\ \A i \in 1 .. Len(b) - 1 : b[i][1] <= Words

\* The directory: in order, and with each part once.
Entry == [str : Strs, num : Nat]
Directory(d) ==
  /\ d \in Seq(Entry) /\ 2 <= Len(d) /\ d[Len(d)] = [str |-> sorthigh, num |-> 0]
  /\ \A k \in 1 .. Len(d) - 1 : d[k].num \in 1 .. Len(d) - 1 /\ ~Less(d[k + 1].str, d[k].str)
  /\ \A n \in 1 .. Len(d) - 1 : \E k \in 1 .. Len(d) - 1 : d[k].num = n

LEMMA Directories ==
  ASSUME NEW d, Directory(d)
  PROVE  /\ d \in Seq(Entry) /\ Len(d) \in Nat /\ 2 <= Len(d) /\ d[Len(d)].num = 0
         /\ \A k \in 1 .. Len(d) - 1 : d[k].num \in 1 .. Len(d) - 1
         /\ \A n \in 1 .. Len(d) - 1 : \E k \in 1 .. Len(d) - 1 : d[k].num = n
<1>1. d \in Seq(Entry) /\ 2 <= Len(d) /\ d[Len(d)] = [str |-> sorthigh, num |-> 0]
  BY Zenon DEF Directory
<1>2. \A k \in 1 .. Len(d) - 1 : d[k].num \in 1 .. Len(d) - 1
  BY Zenon DEF Directory
<1>3. \A n \in 1 .. Len(d) - 1 : \E k \in 1 .. Len(d) - 1 : d[k].num = n
  BY Zenon DEF Directory
<1>4. Len(d) \in Nat /\ d[Len(d)].num = 0
  BY <1>1
<1> QED
  BY <1>1, <1>2, <1>3, <1>4, Zenon

LEMMA Strings ==
  /\ Names \subseteq Strs
  /\ \A n \in Names : n[1] \in 1 .. Words /\ n[2] \in 1 .. Values /\ n[3] = 0 /\ Less(n, sorthigh)
  /\ sortlow \in Strs /\ sorthigh \in Strs
  /\ \A a \in Strs : a[1] \in Nat /\ a[2] \in Nat /\ a[3] \in Nat
BY NameListAssumption DEF Names, Strs, sortlow, sorthigh, Bang, Bare, Less

\* Strings are in a linear order.
LEMMA Ordered ==
  ASSUME NEW a \in Strs, NEW b \in Strs
  PROVE  /\ Less(a, b) \/ a = b \/ Less(b, a)
         /\ Less(a, b) => a # b /\ ~Less(b, a)
<1>1. /\ a[1] \in Int /\ a[2] \in Int /\ a[3] \in Int /\ b[1] \in Int /\ b[2] \in Int /\ b[3] \in Int
      /\ a = <<a[1], a[2], a[3]>> /\ b = <<b[1], b[2], b[3]>>
  BY DEF Strs
<1>2. a[1] = b[1] /\ a[2] = b[2] /\ a[3] = b[3] => a = b
  BY <1>1
<1> QED
  BY <1>1, <1>2 DEF Less

\* There is always a string that is next.
LEMMA Firsts ==
  ASSUME NEW todo \in SUBSET Ops, todo # {}
  PROVE  /\ First(todo) \in todo
         /\ \A y \in todo \ {First(todo)} : Before(First(todo), y)
<1> DEFINE T == {o.name[1] : o \in todo}
<1>0. \A o \in todo : /\ o.name \in Names /\ o.name[1] \in Nat /\ o.name[2] \in Nat /\ o.name[3] = 0
                      /\ o.name = <<o.name[1], o.name[2], o.name[3]>> /\ o.remove \in BOOLEAN
                      /\ o = [remove |-> o.remove, name |-> o.name]
  BY DEF Ops, Names
<1>1. T \subseteq Nat /\ T # {}
  BY <1>0
<1>2. PICK w \in T : \A y \in T : w <= y
  BY <1>1, Least, Zenon
<1> DEFINE U == {o.name[2] : o \in {p \in todo : p.name[1] = w}}
<1>3. U \subseteq Nat /\ U # {}
  BY <1>0, <1>2
<1>4. PICK v \in U : \A y \in U : v <= y
  BY <1>3, Least, Zenon
<1>5. PICK o \in todo : o.name[1] = w /\ o.name[2] = v
  BY <1>4
<1>6. PICK x \in todo : /\ x.name = o.name
                        /\ x.remove \/ \A y \in todo : y.name = o.name => ~y.remove
  BY <1>5
<1>7. ASSUME NEW y \in todo \ {x} PROVE Before(x, y)
  <2>1. w <= y.name[1] /\ (y.name[1] = w => v <= y.name[2]) /\ w \in Nat /\ v \in Nat
    BY <1>1, <1>2, <1>3, <1>4, <1>7
  <2>2. Less(x.name, y.name) \/ x.name = y.name
    BY <1>0, <1>5, <1>6, <1>7, <2>1 DEF Less
  <2>3. x.name = y.name => x.remove /\ ~y.remove
    <3>1. x.name = y.name => x.remove # y.remove
      BY <1>0, <1>7
    <3> QED
      BY <1>0, <1>6, <1>7, <3>1
  <2> QED
    BY <2>2, <2>3 DEF Before
<1>8. \E z \in todo : \A y \in todo \ {z} : Before(z, y)
  BY <1>7
<1> QED
  BY <1>8, Zenon DEF First

\* Where a search ends: at a line between the markers that it has looked at,
\* or, when there is none, where it began.
LEMMA Searched ==
  ASSUME NEW cmp \in Seq(-1 .. 1), NEW first \in {0, 1}, 2 <= Len(cmp)
  PROVE  LET r == Search(cmp, first)
         IN  \/ r.md \in 1 .. Len(cmp) - 2 /\ r.result = Line(cmp, r.md) /\ r.result \in -1 .. 1
             \/ Len(cmp) = 2 /\ r.md = first /\ r.result = 1
<1> DEFINE n == Len(cmp)
           Ok(s) == \/ s.md \in 1 .. n - 2 /\ s.result = Line(cmp, s.md)
                    \/ s = Start(cmp, first)
           G == {s \in States(n) : Ok(s)}
<1>0. n \in Nat /\ 2 <= n
  OBVIOUS
<1>1. Start(cmp, first) \in G
  BY <1>0 DEF Start, States
<1>2. ASSUME NEW s \in G \ Halts(n) PROVE Half(cmp, s) \in G
  <2>1. s \in States(n) /\ s.lo + 1 < s.hi /\ s.lo \in 0 .. n - 1 /\ s.hi \in 0 .. n - 1
    BY <1>2 DEF Halts, States
  <2>2. Half(cmp, s) \in States(n) /\ s.lo < Mid(s) /\ Mid(s) < s.hi /\ Mid(s) \in 0 .. n - 1
    BY <2>1, Probing
  <2>3. Mid(s) \in 1 .. n - 2
    BY <1>0, <2>1, <2>2
  <2>4. Half(cmp, s).md = Mid(s) /\ Half(cmp, s).result = Line(cmp, Mid(s))
    BY DEF Half
  <2> QED
    BY <2>2, <2>3, <2>4
<1>3. Search(cmp, first) \in G \cap Halts(n)
  <2> HIDE DEF Ok
  <2> QED
    BY <1>1, <1>2, Searching, Zenon
<1>4. CASE Search(cmp, first) = Start(cmp, first)
  <2>1. /\ Start(cmp, first).hi = n - 1 /\ Start(cmp, first).lo = 0
        /\ Start(cmp, first).result = 1 /\ Start(cmp, first).md = first
    BY DEF Start
  <2>2. Start(cmp, first).hi <= Start(cmp, first).lo + 1 \/ Start(cmp, first).result = 0
    BY <1>3, <1>4 DEF Halts
  <2>3. n - 1 <= 0 + 1 \/ 1 = 0
    BY <2>1, <2>2, Zenon
  <2> HIDE DEF n
  <2>4. n = 2
    BY <1>0, <2>3
  <2> QED
    BY <1>4, <2>1, <2>4, Zenon DEF n
<1>5. CASE Search(cmp, first) # Start(cmp, first)
  BY <1>3, <1>5 DEF States
<1> QED
  BY <1>4, <1>5

\* How the lines of a part compare to a name.
LEMMA Comparing ==
  ASSUME NEW b \in Seq(Strs), NEW x
  PROVE  LET cmp == [i \in DOMAIN b |-> Compare(b[i], x)]
         IN  /\ cmp \in Seq(-1 .. 1) /\ Len(cmp) = Len(b)
             /\ \A i \in 1 .. Len(b) : cmp[i] = Compare(b[i], x)
<1> DEFINE cmp == [i \in 1 .. Len(b) |-> Compare(b[i], x)]
<1>1. Len(b) \in Nat /\ DOMAIN b = 1 .. Len(b)
  OBVIOUS
<1>2. \A i \in 1 .. Len(b) : Compare(b[i], x) \in -1 .. 1
  BY DEF Compare
<1>3. cmp \in Seq(-1 .. 1) /\ Len(cmp) = Len(b)
  BY <1>1, <1>2
<1>4. \A i \in 1 .. Len(b) : cmp[i] = Compare(b[i], x)
  OBVIOUS
<1> QED
  BY <1>1, <1>3, <1>4

\* What modnames() does to a part: a name is added, or one line with it is
\* removed if the search finds one; the markers stay at the ends.
LEMMA Edits ==
  ASSUME NEW b, Shaped(b), NEW op \in Ops
  PROVE  /\ Shaped(Edited(b, op))
         /\ Len(Edited(b, op)) <= Len(b) + (IF op.remove THEN 0 ELSE 1)
         /\ ~op.remove => Range(Edited(b, op)) = Range(b) \cup {op.name}
         /\ op.remove => /\ Range(Edited(b, op)) \subseteq Range(b)
                         /\ Range(b) \subseteq Range(Edited(b, op)) \cup {op.name}
<1> DEFINE cmp == [i \in DOMAIN b |-> Compare(b[i], op.name)]
           r == Search(cmp, 1)
           e == op.name
           n == Len(b)
<1>1. /\ b \in Seq(Strs) /\ n \in Nat /\ 2 <= n /\ b[1][2] = 0 /\ b[n][2] = 0
      /\ \A i \in 1 .. n - 1 : b[i][1] <= Words
  BY DEF Shaped
<1>2. e \in Names /\ e \in Strs /\ e[1] <= Words /\ e[2] # 0 /\ op.remove \in BOOLEAN
  BY Strings DEF Ops
<1>3. /\ cmp \in Seq(-1 .. 1) /\ Len(cmp) = n
      /\ \A i \in 1 .. n : cmp[i] = Compare(b[i], e)
  BY <1>1, Comparing, Zenon
<1>4. Edited(b, op) = IF op.remove
                      THEN IF r.result = 0 THEN RemoveAt(b, r.md + 1) ELSE b
                      ELSE InsertAt(b, (IF r.result < 0 THEN r.md + 1 ELSE r.md) + 1, e)
  BY DEF Edited, nameinsert
<1>5. \/ r.md \in 1 .. n - 2 /\ r.result = Line(cmp, r.md) /\ r.result \in -1 .. 1
      \/ n = 2 /\ r.md = 1 /\ r.result = 1
  <2> HIDE DEF cmp
  <2> QED
    BY <1>1, <1>3, Searched
<1> HIDE DEF r, cmp
<1>6. CASE ~op.remove
  <2> DEFINE i == (IF r.result < 0 THEN r.md + 1 ELSE r.md) + 1
             c == InsertAt(b, i, e)
  <2>1. i \in 2 .. n
    BY <1>1, <1>5
  <2> HIDE DEF i
  <2>2. /\ c \in Seq(Strs) /\ Len(c) = n + 1
        /\ \A j \in 1 .. n + 1 : c[j] = IF j < i THEN b[j] ELSE IF j = i THEN e ELSE b[j - 1]
    BY <1>1, <1>2, <2>1, Inserting
  <2>3. Edited(b, op) = c
    BY <1>4, <1>6 DEF i
  <2> HIDE DEF c
  <2>4. Shaped(c)
    <3>1. c[1] = b[1] /\ c[n + 1] = b[n]
      BY <1>1, <2>1, <2>2
    <3>2. ASSUME NEW j \in 1 .. n PROVE c[j][1] <= Words
      <4>1. CASE j < i
        BY <1>1, <2>1, <2>2, <4>1
      <4>2. CASE j = i
        BY <1>1, <1>2, <2>1, <2>2, <4>2
      <4>3. CASE j > i
        BY <1>1, <2>1, <2>2, <4>3
      <4> QED
        BY <1>1, <2>1, <4>1, <4>2, <4>3
    <3> QED
      BY <1>1, <2>2, <3>1, <3>2 DEF Shaped
  <2>5. Range(c) = Range(b) \cup {e}
    <3>1. Range(b) = {b[j] : j \in 1 .. n} /\ Range(c) = {c[j] : j \in 1 .. n + 1}
      BY <1>1, <2>2, RangeEquality
    <3>2. \A j \in 1 .. n + 1 : c[j] \in Range(b) \cup {e}
      <4>1. ASSUME NEW j \in 1 .. n + 1 PROVE j < i \/ j = i \/ (j > i /\ j - 1 \in 1 .. n)
        BY <1>1, <2>1
      <4> QED
        BY <1>1, <2>1, <2>2, <3>1, <4>1
    <3>3. e \in Range(c)
      <4>1. i \in 1 .. n + 1 /\ c[i] = e
        BY <1>1, <2>1, <2>2
      <4> QED
        BY <3>1, <4>1
    <3>4. ASSUME NEW j \in 1 .. n PROVE b[j] \in Range(c)
      <4>1. CASE j < i
        BY <1>1, <2>1, <2>2, <3>1, <4>1
      <4>2. CASE ~(j < i)
        <5>1. j + 1 \in 1 .. n + 1 /\ c[j + 1] = b[(j + 1) - 1] /\ (j + 1) - 1 = j
          BY <1>1, <2>1, <2>2, <4>2
        <5> QED
          BY <3>1, <5>1
      <4> QED
        BY <4>1, <4>2
    <3> QED
      BY <3>1, <3>2, <3>3, <3>4
  <2> QED
    BY <1>1, <1>6, <2>2, <2>3, <2>4, <2>5
<1>7. CASE op.remove /\ r.result = 0
  <2> DEFINE i == r.md + 1
             c == RemoveAt(b, i)
  <2>1. i \in 2 .. n - 1 /\ b[i] = e
    <3>1. r.md \in 1 .. n - 2 /\ Line(cmp, r.md) = 0
      BY <1>5, <1>7
    <3>2. i \in 2 .. n - 1 /\ cmp[i] = 0
      BY <1>1, <3>1 DEF Line
    <3>3. Compare(b[i], e) = 0
      BY <1>1, <1>3, <3>2
    <3> QED
      BY <3>2, <3>3 DEF Compare
  <2> HIDE DEF i
  <2>2. /\ c \in Seq(Strs) /\ Len(c) = n - 1
        /\ \A j \in 1 .. n - 1 : c[j] = IF j < i THEN b[j] ELSE b[j + 1]
    <3>1. i \in 1 .. Len(b)
      BY <1>1, <2>1
    <3> QED
      BY <1>1, <3>1, Removing
  <2>3. Edited(b, op) = c
    BY <1>4, <1>7 DEF i
  <2> HIDE DEF c
  <2>4. Shaped(c)
    <3>1. c[1] = b[1] /\ c[n - 1] = b[n]
      BY <1>1, <2>1, <2>2
    <3>2. ASSUME NEW j \in 1 .. n - 2 PROVE c[j][1] <= Words
      <4>1. j \in 1 .. n - 1 /\ j + 1 \in 1 .. n - 1 /\ (c[j] = b[j] \/ c[j] = b[j + 1])
        BY <1>1, <2>1, <2>2
      <4> QED
        BY <1>1, <4>1
    <3>3. 2 <= n - 1
      BY <1>1, <2>1
    <3> QED
      BY <1>1, <2>2, <3>1, <3>2, <3>3 DEF Shaped
  <2>5. Range(c) \subseteq Range(b) /\ Range(b) \subseteq Range(c) \cup {e}
    <3>1. Range(b) = {b[j] : j \in 1 .. n} /\ Range(c) = {c[j] : j \in 1 .. n - 1}
      BY <1>1, <2>2, RangeEquality
    <3>2. \A j \in 1 .. n - 1 : c[j] \in Range(b)
      BY <1>1, <2>1, <2>2, <3>1
    <3>3. ASSUME NEW j \in 1 .. n PROVE b[j] \in Range(c) \cup {e}
      <4>1. CASE j < i
        BY <1>1, <2>1, <2>2, <3>1, <4>1
      <4>2. CASE j > i
        <5>1. j - 1 \in 1 .. n - 1 /\ c[j - 1] = b[(j - 1) + 1] /\ (j - 1) + 1 = j
          BY <1>1, <2>1, <2>2, <4>2
        <5> QED
          BY <3>1, <5>1
      <4> QED
        BY <1>1, <2>1, <4>1, <4>2
    <3> QED
      BY <3>1, <3>2, <3>3, Zenon
  <2> QED
    BY <1>1, <1>7, <2>2, <2>3, <2>4, <2>5
<1>8. CASE op.remove /\ r.result # 0
  BY <1>1, <1>4, <1>8
<1> QED
  BY <1>2, <1>6, <1>7, <1>8

\* A part that is too long is split inside.
LEMMA Middles ==
  ASSUME NEW b, Shaped(b), TooLong(b)
  PROVE  Middle(b) \in 2 .. Len(b) - 3
<1> DEFINE mid == Len(b) \div 2
           Same(i) == Token(Line(b, i)) = Token(Line(b, mid))
           Stop(i) == \/ ~Same(mid + i) \/ ~Same(mid - i)
                      \/ mid - i < 3 \/ mid + i + 3 >= Len(b)
           IsFirst(i) == i \in 1 .. mid /\ Stop(i) /\ \A j \in 1 .. i - 1 : ~Stop(j)
           i == CHOOSE i \in 1 .. mid : Stop(i) /\ \A j \in 1 .. i - 1 : ~Stop(j)
           T == {k \in 1 .. mid : Stop(k)}
<1>1. Len(b) \in Nat /\ 6 <= Len(b)
  BY NameListAssumption DEF Shaped, TooLong
<1>2. mid \in Nat /\ 3 <= mid /\ mid <= Len(b) - 3
  BY <1>1
<1>3. Middle(b) = CASE ~Same(mid + i) -> mid + i - 1
                    [] Same(mid + i) /\ ~Same(mid - i) -> mid - i
                    [] OTHER -> mid
  BY DEF Middle
<1> HIDE DEF Same, mid
<1>4. \E k : IsFirst(k)
  <2>1. mid - 2 \in T /\ T \subseteq Nat
    BY <1>2
  <2>2. PICK k \in T : \A j \in T : k <= j
    <3> HIDE DEF T
    <3> QED
      BY <2>1, Least, Zenon
  <2>3. k \in 1 .. mid /\ Stop(k)
    BY <2>2
  <2>4. ASSUME NEW j \in 1 .. k - 1 PROVE ~Stop(j)
    <3>1. j \in 1 .. mid /\ ~(k <= j)
      BY <1>2, <2>3, <2>4
    <3> HIDE DEF Stop
    <3> QED
      BY <2>2, <3>1
  <2> HIDE DEF Stop
  <2> QED
    BY <2>3, <2>4
<1>5. IsFirst(i)
  <2> HIDE DEF Stop
  <2> QED
    BY <1>4, Zenon
<1>6. i \in 1 .. mid /\ \A j \in 1 .. i - 1 : mid - j >= 3 /\ mid + j + 3 < Len(b)
  <2>1. i \in 1 .. mid /\ \A j \in 1 .. i - 1 : ~Stop(j)
    BY <1>5, Zenon
  <2> HIDE DEF i, IsFirst
  <2> QED
    BY <1>1, <1>2, <2>1
<1> HIDE DEF i, Stop, IsFirst
<1>7. i = 1 \/ (i - 1 \in 1 .. i - 1 /\ mid - (i - 1) >= 3 /\ mid + (i - 1) + 3 < Len(b))
  BY <1>2, <1>6
<1>8. Middle(b) = mid + i - 1 \/ Middle(b) = mid - i \/ Middle(b) = mid
  BY <1>3, Zenon
<1> QED
  BY <1>1, <1>2, <1>6, <1>7, <1>8

\* The marker between the halves of a part.
LEMMA Marking ==
  ASSUME NEW e \in Strs
  PROVE  Bang(Token(e)) \in Strs /\ Bang(Token(e))[1] = e[1] /\ Bang(Token(e))[2] = 0
BY NameListAssumption DEF Strs, Bang, Token, Bare

\* What stornpart() makes of a part: two parts that have all its lines.
LEMMA Splits ==
  ASSUME NEW b, Shaped(b), TooLong(b)
  PROVE  LET mid == Middle(b)
             bound == Bang(Token(Line(b, mid)))
             buf == nameinsert(b, mid + 1, bound)
         IN  /\ bound \in Strs /\ bound[1] <= Words /\ bound[2] = 0
             /\ Shaped(buf) /\ Len(buf) = Len(b) + 1
             /\ Shaped(Lower(buf, mid)) /\ Shaped(Upper(buf, mid))
             /\ Range(b) \subseteq Range(buf)
             /\ Range(buf) = Range(Lower(buf, mid)) \cup Range(Upper(buf, mid))
<1> DEFINE mid == Middle(b)
           bound == Bang(Token(Line(b, mid)))
           buf == nameinsert(b, mid + 1, bound)
           n == Len(b)
           lo == Lower(buf, mid)
           up == Upper(buf, mid)
<1>1. /\ b \in Seq(Strs) /\ n \in Nat /\ 2 <= n /\ b[1][2] = 0 /\ b[n][2] = 0
      /\ \A i \in 1 .. n - 1 : b[i][1] <= Words
  BY DEF Shaped
<1>2. mid \in 2 .. n - 3
  BY Middles
<1>3. bound \in Strs /\ bound[1] <= Words /\ bound[2] = 0
  <2>1. mid + 1 \in 1 .. n - 1 /\ mid + 1 \in 1 .. n
    BY <1>1, <1>2
  <2>2. Line(b, mid) \in Strs /\ Line(b, mid)[1] <= Words
    BY <1>1, <2>1, ElementOfSeq DEF Line
  <2> QED
    BY <2>2, Marking, Zenon
<1> HIDE DEF bound, mid
<1>4. /\ buf \in Seq(Strs) /\ Len(buf) = n + 1
      /\ \A j \in 1 .. n + 1 : buf[j] = IF j < mid + 2 THEN b[j] ELSE IF j = mid + 2 THEN bound ELSE b[j - 1]
  <2>1. mid + 2 \in 1 .. Len(b) + 1 /\ (mid + 1) + 1 = mid + 2
    BY <1>1, <1>2
  <2>2. buf = InsertAt(b, mid + 2, bound)
    BY <2>1 DEF nameinsert
  <2> DEFINE k == mid + 2
  <2>3. k \in 1 .. Len(b) + 1 /\ buf = InsertAt(b, k, bound)
    BY <2>1, <2>2
  <2> HIDE DEF buf, k
  <2>4. b \in Seq(Strs) /\ bound \in Strs /\ k \in 1 .. Len(b) + 1
    BY <1>1, <1>3, <2>3
  <2>5. /\ InsertAt(b, k, bound) \in Seq(Strs) /\ Len(InsertAt(b, k, bound)) = Len(b) + 1
        /\ \A j \in 1 .. Len(b) + 1 : InsertAt(b, k, bound)[j] =
                                  IF j < k THEN b[j] ELSE IF j = k THEN bound ELSE b[j - 1]
    BY <2>4, Inserting
  <2> QED
    BY <2>3, <2>5 DEF k
<1> HIDE DEF buf
<1>5. buf[1] = b[1] /\ buf[n + 1] = b[n] /\ buf[mid + 2] = bound
  BY <1>1, <1>2, <1>4
<1>6. ASSUME NEW j \in 1 .. n PROVE buf[j][1] <= Words
  <2>1. CASE j < mid + 2
    BY <1>1, <1>2, <1>4, <2>1
  <2>2. CASE j = mid + 2
    BY <1>3, <1>5, <2>2
  <2>3. CASE j > mid + 2
    <3>1. j - 1 \in 1 .. n - 1 /\ j \in 1 .. n + 1 /\ ~(j < mid + 2) /\ j # mid + 2
      BY <1>1, <1>2, <2>3
    <3>2. buf[j] = b[j - 1]
      BY <1>4, <3>1, Zenon
    <3> QED
      BY <1>1, <3>1, <3>2
  <2> QED
    BY <1>1, <1>2, <2>1, <2>2, <2>3
<1>7. Shaped(buf)
  BY <1>1, <1>4, <1>5, <1>6 DEF Shaped
<1>8. /\ lo \in Seq(Strs) /\ Len(lo) = mid + 2 /\ \A j \in 1 .. mid + 2 : lo[j] = buf[j]
  <2>1. \A j \in 1 .. mid + 2 : buf[j] \in Strs
    BY <1>1, <1>2, <1>4, ElementOfSeq
  <2>2. mid + 2 \in Int /\ 1 <= mid + 2
    BY <1>1, <1>2
  <2> DEFINE c == SubSeq(buf, 1, mid + 2)
  <2>3. c \in Seq(Strs) /\ Len(c) = mid + 2 /\ \A j \in 1 .. mid + 2 : c[j] = buf[1 + j - 1]
    BY <2>1, <2>2, SubSeqProperties
  <2> QED
    BY <1>1, <1>2, <2>3 DEF Lower
<1>9. /\ up \in Seq(Strs) /\ Len(up) = n - mid /\ \A j \in 1 .. n - mid : up[j] = buf[mid + 1 + j]
  <2>1. \A j \in mid + 2 .. n + 1 : buf[j] \in Strs
    BY <1>1, <1>2, <1>4, ElementOfSeq
  <2>2. mid + 2 \in Int /\ n + 1 \in Int /\ mid + 2 <= n + 1 /\ n + 1 - (mid + 2) + 1 = n - mid
    BY <1>1, <1>2
  <2> DEFINE c == SubSeq(buf, mid + 2, n + 1)
  <2>3. c \in Seq(Strs) /\ Len(c) = n - mid /\ \A j \in 1 .. n - mid : c[j] = buf[mid + 2 + j - 1]
    BY <2>1, <2>2, SubSeqProperties
  <2> QED
    BY <1>1, <1>2, <1>4, <2>3 DEF Upper
<1> HIDE DEF lo, up
<1>10. Shaped(lo)
  BY <1>1, <1>2, <1>3, <1>5, <1>6, <1>8 DEF Shaped
<1>11. Shaped(up)
  <2>1. up[1] = bound /\ up[n - mid] = b[n] /\ 2 <= n - mid
    BY <1>1, <1>2, <1>5, <1>9
  <2>2. ASSUME NEW j \in 1 .. n - mid - 1 PROVE up[j][1] <= Words
    <3>1. mid + 1 + j \in 1 .. n /\ up[j] = buf[mid + 1 + j]
      BY <1>1, <1>2, <1>9
    <3> QED
      BY <1>6, <3>1
  <2> QED
    BY <1>1, <1>2, <1>3, <1>9, <2>1, <2>2, Zenon DEF Shaped
<1>12. /\ Range(b) = {b[j] : j \in 1 .. n} /\ Range(buf) = {buf[j] : j \in 1 .. n + 1}
       /\ Range(lo) = {lo[j] : j \in 1 .. mid + 2} /\ Range(up) = {up[j] : j \in 1 .. n - mid}
  BY <1>1, <1>4, <1>8, <1>9, RangeEquality
<1>13. ASSUME NEW j \in 1 .. n PROVE b[j] \in Range(buf)
  <2>1. CASE j < mid + 2
    <3>1. j \in 1 .. n + 1 /\ buf[j] = b[j]
      BY <1>1, <1>4, <2>1
    <3> QED
      BY <1>12, <3>1
  <2>2. CASE ~(j < mid + 2)
    <3>1. j + 1 \in 1 .. n + 1 /\ buf[j + 1] = b[(j + 1) - 1] /\ (j + 1) - 1 = j
      BY <1>1, <1>2, <1>4, <2>2
    <3> QED
      BY <1>12, <3>1
  <2> QED
    BY <2>1, <2>2
<1>14. ASSUME NEW j \in 1 .. n + 1 PROVE buf[j] \in Range(lo) \cup Range(up)
  <2>1. CASE j <= mid + 2
    BY <1>1, <1>2, <1>8, <1>12, <2>1
  <2>2. CASE ~(j <= mid + 2)
    <3>1. j - mid - 1 \in 1 .. n - mid /\ mid + 1 + (j - mid - 1) = j
      BY <1>1, <1>2, <2>2
    <3>2. up[j - mid - 1] = buf[j]
      BY <1>9, <3>1
    <3> QED
      BY <1>12, <3>1, <3>2, Zenon
  <2> QED
    BY <2>1, <2>2
<1>15. \A j \in 1 .. mid + 2 : j \in 1 .. n + 1
  BY <1>1, <1>2
<1>16. \A j \in 1 .. n - mid : mid + 1 + j \in 1 .. n + 1
  BY <1>1, <1>2
<1>17. Range(lo) \subseteq Range(buf) /\ Range(up) \subseteq Range(buf)
  BY <1>8, <1>9, <1>12, <1>15, <1>16
<1>18. Range(buf) = Range(lo) \cup Range(up) /\ Range(b) \subseteq Range(buf)
  <2>1. Range(b) \subseteq Range(buf)
    BY <1>12, <1>13, Zenon
  <2>2. Range(buf) \subseteq Range(lo) \cup Range(up)
    BY <1>12, <1>14, Zenon
  <2> QED
    BY <1>17, <2>1, <2>2, Zenon
<1> QED
  BY <1>3, <1>4, <1>7, <1>10, <1>11, <1>18, Zenon DEF bound, mid, buf, lo, up

\* A new part gets a place of its own in the directory.
LEMMA Adds ==
  ASSUME NEW d, Directory(d), NEW str \in Strs, str[1] <= Words
  PROVE  /\ Directory(nladd(d, str, Len(d)))
         /\ Len(nladd(d, str, Len(d))) = Len(d) + 1
<1> DEFINE n == Len(d)
           new == [str |-> str, num |-> n]
           Place(k) == /\ k \in 0 .. n /\ \A i \in 1 .. k : ~Less(str, d[i].str)
                       /\ k = n \/ Less(str, d[k + 1].str)
           k == CHOOSE k \in 0 .. n : /\ \A i \in 1 .. k : ~Less(str, d[i].str)
                                      /\ k = n \/ Less(str, d[k + 1].str)
           c == InsertAt(d, k + 1, new)
           T == {j \in 1 .. n : Less(str, d[j].str)}
<1>1. d \in Seq(Entry) /\ d[n] = [str |-> sorthigh, num |-> 0]
  BY Zenon DEF Directory
<1>0. n \in Nat /\ 2 <= n
  BY <1>1 DEF Directory
<1> HIDE DEF n
<1>n. \A j \in 1 .. n - 1 : d[j].num \in 1 .. n - 1
  BY Zenon DEF Directory, n
<1>o. \A j \in 1 .. n - 1 : ~Less(d[j + 1].str, d[j].str)
  BY Zenon DEF Directory, n
<1>p. \A m \in 1 .. n - 1 : \E j \in 1 .. n - 1 : d[j].num = m
  BY Zenon DEF Directory, n
<1>2. nladd(d, str, n) = c
  BY DEF nladd, n
<1>3. n \in T /\ T \subseteq Nat
  <2>1. Less(str, sorthigh)
    BY NameListAssumption DEF Less, sorthigh, Bare, Strs
  <2> QED
    BY <1>0, <1>1, <2>1
<1>4. \E j : Place(j)
  <2>1. PICK j \in T : \A i \in T : j <= i
    BY <1>3, Least, Zenon
  <2>a. j \in 1 .. n /\ Less(str, d[j].str)
    BY <2>1
  <2>2. j - 1 \in 0 .. n /\ (j - 1) + 1 = j
    BY <1>0, <2>a
  <2>3. ASSUME NEW i \in 1 .. j - 1 PROVE ~Less(str, d[i].str)
    <3>1. i \in 1 .. n /\ ~(j <= i)
      BY <1>0, <2>3, <2>a
    <3> QED
      BY <2>1, <3>1
  <2>4. Place(j - 1)
    BY <2>2, <2>3
  <2> HIDE DEF Place
  <2> QED
    BY <2>4
<1>5. Place(k)
  BY <1>4, Zenon
<1> HIDE DEF k
<1>6. k \in 0 .. n - 1 /\ Less(str, d[k + 1].str) /\ \A i \in 1 .. k : ~Less(str, d[i].str)
  <2>1. k # n
    BY <1>0, <1>3, <1>5, Zenon
  <2> QED
    BY <1>0, <1>5, <2>1
<1>7. new \in Entry /\ \A j \in 1 .. n : d[j] \in Entry
  BY <1>0, <1>1, ElementOfSeq, Zenon DEF Entry, n
<1> HIDE DEF new
<1>8. /\ c \in Seq(Entry) /\ Len(c) = n + 1
      /\ \A j \in 1 .. n + 1 : c[j] = IF j < k + 1 THEN d[j] ELSE IF j = k + 1 THEN new ELSE d[j - 1]
  <2> DEFINE i == k + 1
  <2>1. d \in Seq(Entry) /\ new \in Entry /\ i \in 1 .. Len(d) + 1
    BY <1>0, <1>1, <1>6, <1>7 DEF n
  <2> HIDE DEF i
  <2>2. /\ InsertAt(d, i, new) \in Seq(Entry) /\ Len(InsertAt(d, i, new)) = Len(d) + 1
        /\ \A j \in 1 .. Len(d) + 1 : InsertAt(d, i, new)[j] =
                                  IF j < i THEN d[j] ELSE IF j = i THEN new ELSE d[j - 1]
    BY <2>1, Inserting
  <2> QED
    BY <2>2 DEF i, n
<1> HIDE DEF c
<1>9. /\ \A j \in 1 .. k : j \in 1 .. n - 1 /\ c[j] = d[j]
      /\ c[k + 1] = new
      /\ \A j \in k + 1 .. n : j + 1 \in 1 .. n + 1 /\ c[j + 1] = d[j]
  <2>1. ASSUME NEW j \in 1 .. k PROVE j \in 1 .. n - 1 /\ c[j] = d[j]
    <3>1. j \in 1 .. n - 1 /\ j \in 1 .. n + 1 /\ j < k + 1
      BY <1>0, <1>6
    <3> QED
      BY <1>8, <3>1
  <2>2. c[k + 1] = new
    <3>1. k + 1 \in 1 .. n + 1 /\ ~(k + 1 < k + 1)
      BY <1>0, <1>6
    <3> QED
      BY <1>8, <3>1
  <2>3. ASSUME NEW j \in k + 1 .. n PROVE j + 1 \in 1 .. n + 1 /\ c[j + 1] = d[j]
    <3>1. j + 1 \in 1 .. n + 1 /\ ~(j + 1 < k + 1) /\ j + 1 # k + 1 /\ (j + 1) - 1 = j
      BY <1>0, <1>6
    <3> QED
      BY <1>8, <3>1
  <2> QED
    BY <2>1, <2>2, <2>3
<1>10. c[n + 1] = [str |-> sorthigh, num |-> 0]
  <2>1. n \in k + 1 .. n
    BY <1>0, <1>6
  <2> QED
    BY <1>1, <1>9, <2>1
<1>11. ASSUME NEW j \in 1 .. n PROVE c[j].num \in 1 .. n
  <2>1. CASE j <= k
    <3>1. j \in 1 .. k
      BY <1>0, <1>6, <2>1
    <3>2. c[j].num \in 1 .. n - 1
      BY <1>9, <1>n, <3>1
    <3> QED
      BY <1>0, <3>2
  <2>2. CASE j = k + 1
    BY <1>0, <1>9, <2>2 DEF new
  <2>3. CASE j > k + 1
    <3>1. j - 1 \in k + 1 .. n /\ j - 1 \in 1 .. n - 1 /\ (j - 1) + 1 = j
      BY <1>0, <1>6, <2>3
    <3>2. c[j].num \in 1 .. n - 1
      BY <1>9, <1>n, <3>1, Zenon
    <3> QED
      BY <1>0, <3>2
  <2> QED
    BY <1>0, <1>6, <2>1, <2>2, <2>3
<1>12. ASSUME NEW j \in 1 .. n PROVE ~Less(c[j + 1].str, c[j].str)
  <2>1. CASE j < k
    <3>1. j \in 1 .. k /\ j + 1 \in 1 .. k /\ j \in 1 .. n - 1
      BY <1>0, <1>6, <2>1
    <3> QED
      BY <1>o, <1>9, <3>1, Zenon
  <2>2. CASE j = k
    <3>1. j \in 1 .. k
      BY <1>6, <2>2
    <3> QED
      BY <1>6, <1>9, <2>2, <3>1 DEF new
  <2>3. CASE j = k + 1
    <3>1. j \in k + 1 .. n /\ c[j + 1] = d[j] /\ c[j].str = str /\ Less(str, d[j].str)
      BY <1>0, <1>6, <1>9, <2>3 DEF new
    <3>2. d[j].str \in Strs
      BY <1>7, Zenon DEF Entry
    <3> QED
      BY <3>1, <3>2, Ordered, Zenon
  <2>4. CASE j > k + 1
    <3>1. j - 1 \in k + 1 .. n /\ j \in k + 1 .. n /\ j - 1 \in 1 .. n - 1 /\ (j - 1) + 1 = j
      BY <1>0, <1>6, <2>4
    <3> QED
      BY <1>o, <1>9, <3>1
  <2> QED
    BY <1>0, <1>6, <2>1, <2>2, <2>3, <2>4
<1>13. ASSUME NEW m \in 1 .. n PROVE \E j \in 1 .. n : c[j].num = m
  <2>1. CASE m = n
    <3>1. k + 1 \in 1 .. n /\ c[k + 1].num = m
      BY <1>0, <1>6, <1>9, <2>1 DEF new
    <3> QED
      BY <3>1
  <2>2. CASE m # n
    <3>1. PICK j \in 1 .. n - 1 : d[j].num = m
      <4>1. m \in 1 .. n - 1
        BY <1>0, <2>2
      <4> QED
        BY <1>p, <4>1
    <3>2. CASE j <= k
      <4>1. j \in 1 .. k /\ j \in 1 .. n
        BY <1>0, <1>6, <3>2
      <4> QED
        BY <1>9, <3>1, <4>1
    <3>3. CASE ~(j <= k)
      <4>1. j \in k + 1 .. n /\ j + 1 \in 1 .. n
        BY <1>0, <1>6, <3>3
      <4> QED
        BY <1>9, <3>1, <4>1
    <3> QED
      BY <3>2, <3>3
  <2> QED
    BY <2>1, <2>2
<1>14. Directory(c)
  <2>1. Len(c) - 1 = n /\ 2 <= Len(c) /\ Len(c) = n + 1
    BY <1>0, <1>8
  <2>2. \A j \in 1 .. n : c[j].num \in 1 .. n /\ ~Less(c[j + 1].str, c[j].str)
    BY <1>11, <1>12, Zenon
  <2>3. \A m \in 1 .. n : \E j \in 1 .. n : c[j].num = m
    BY <1>13, Zenon
  <2> QED
    BY <1>8, <1>10, <2>1, <2>2, <2>3, Zenon DEF Directory
<1> QED
  BY <1>2, <1>8, <1>14 DEF n

\* Every name has a place in the directory.
LEMMA Places ==
  ASSUME NEW d, Directory(d), NEW e \in Names
  PROVE  /\ whatnm(e, d) \in 1 .. Len(d) - 1
         /\ d[whatnm(e, d)].num \in 1 .. Len(d) - 1
<1> DEFINE n == Len(d)
           T == {j \in 1 .. n - 1 : Less(e, d[j + 1].str)}
           Place(k) == /\ k \in 1 .. n - 1 /\ Less(e, d[k + 1].str)
                       /\ \A i \in 1 .. k - 1 : ~Less(e, d[i + 1].str)
<1>0. n \in Nat /\ 2 <= n
  BY DEF Directory
<1> HIDE DEF n
<1>1. d[n] = [str |-> sorthigh, num |-> 0] /\ \A k \in 1 .. n - 1 : d[k].num \in 1 .. n - 1
  BY Zenon DEF Directory, n
<1>2. n - 1 \in T /\ T \subseteq Nat
  <2>1. n - 1 \in 1 .. n - 1 /\ (n - 1) + 1 = n
    BY <1>0
  <2> QED
    BY <1>1, <2>1, Strings
<1>3. PICK j \in T : \A i \in T : j <= i
  BY <1>2, Least, Zenon
<1>4. Place(j)
  <2>1. ASSUME NEW i \in 1 .. j - 1 PROVE ~Less(e, d[i + 1].str)
    <3>1. i \in 1 .. n - 1 /\ ~(j <= i)
      <4>1. j \in 1 .. n - 1
        BY <1>3
      <4> QED
        BY <1>0, <2>1, <4>1
    <3> QED
      BY <1>3, <3>1
  <2> QED
    BY <1>3, <2>1
<1>5. Place(whatnm(e, d))
  BY <1>4, Zenon DEF whatnm, n
<1> QED
  BY <1>1, <1>5, Zenon DEF n

=============================================================================
