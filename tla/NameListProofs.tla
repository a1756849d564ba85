--------------------------- MODULE NameListProofs ---------------------------
(***************************************************************************)
(* Proofs about NameList, for any number of words, values, lines and parts:*)
(* no entry is lost, the directory stays in order, a scan sees who stays,  *)
(* and the buffer is not overrun.                                          *)
(***************************************************************************)
EXTENDS NameLemmas, FiniteSetTheorems

-----------------------------------------------------------------------------
(* The inductive invariant.                                                *)

Jobs == [pc : {"next", "load", "upper", "dir"}, todo : SUBSET Ops, loaded : 0 .. MaxParts,
         changed : BOOLEAN, buf : Seq(Strs), dir : Seq(Entry), num : Nat, upper : Seq(Strs),
         moved : SUBSET Names, missed : Nat, add : SUBSET Names, del : SUBSET Names]
Scans == [on : {TRUE}, watch : Names, dir : Seq(Entry), pos : Nat, got : BOOLEAN, moved : BOOLEAN]

Types ==
  /\ Directory(dir) /\ Len(dir) <= MaxParts + 1
  /\ part \in [1 .. MaxParts -> Seq(Strs)]
  /\ job \in Jobs \cup {NoJob} /\ scan \in Scans \cup {NoScan}
  /\ names \subseteq Names /\ risk \subseteq Names /\ crowded \in BOOLEAN

\* The parts that there are, those a split has just made included, and what is
\* in them once modnames() gets to write them.
Known == IF job = NoJob THEN Len(dir) ELSE job.num
File(m) == IF job.pc = "upper" /\ m = job.num - 1 THEN job.upper ELSE part[m]
Content(m) == Range(IF job.pc = "next" /\ m = job.loaded THEN job.buf ELSE File(m))

Files == \A m \in 1 .. Known - 1 : Shaped(File(m)) /\ (TooLong(File(m)) => crowded)

\* What modnames() has in memory.
Adding(n) == [remove |-> FALSE, name |-> n]
Removal(n) == [remove |-> TRUE, name |-> n]
InMemory == job # NoJob =>
  /\ Directory(job.dir) /\ Len(job.dir) = job.num /\ job.num \in Len(dir) .. MaxParts + 1
  /\ job.loaded \in 0 .. job.num - 1
  /\ job.loaded # 0 => Shaped(job.buf)
  /\ job.changed => job.loaded # 0
  /\ job.pc # "next" => job.changed
  /\ job.pc = "upper" => Len(dir) < job.num /\ job.loaded # job.num - 1
  /\ job.pc = "dir" => job.todo = {}
  /\ job.todo \subseteq Merged(job.add, job.del)

\* How the buffer and the file it is for differ.
Buffer == job # NoJob /\ job.loaded # 0 =>
  /\ job.pc = "next" => Range(part[job.loaded]) \cap Names \subseteq Range(job.buf) \cup job.del
  /\ job.pc = "next" /\ ~job.changed => job.buf = part[job.loaded]
  /\ job.pc # "next" => Range(part[job.loaded]) \subseteq Range(job.buf)

\* The entries that are to be on the list by now: one that is removed and
\* added is removed first.
Added == {n \in job.add : Adding(n) \notin job.todo}
Claimed == IF job = NoJob THEN names ELSE (names \ job.del) \cup Added
RemovedFirst == job # NoJob => \A n \in Added : Removal(n) \notin job.todo
Present == \A n \in Claimed \ risk : \E m \in 1 .. Known - 1 : n \in Content(m)

\* The entries that are on the list even if modnames() dies.
OnDisk == job # NoJob =>
  \A n \in names \ (risk \cup job.add \cup job.del \cup job.moved) :
    \E m \in 1 .. Len(dir) - 1 : n \in Range(part[m])

\* What nextuser() has still to read has the entry that is looked for.
Ahead == scan.on =>
  /\ Directory(scan.dir) /\ Len(scan.dir) <= Len(dir) /\ scan.pos \in 1 .. Len(scan.dir)
  /\ job # NoJob /\ scan.watch \in job.del => scan.moved
  /\ \/ scan.got \/ scan.moved \/ scan.watch \in risk
     \/ \E k \in scan.pos .. Len(scan.dir) - 1 : scan.watch \in Range(part[scan.dir[k].num])

\* There is room for what is still to be added, and for one marker.
Pending == {n \in job.add : Adding(n) \in job.todo}
Room == job # NoJob =>
  /\ Cardinality(Pending) < Slack
  /\ ~crowded => Len(job.buf) + Cardinality(Pending)
                   <= LMax + job.missed - (IF job.pc = "next" THEN 1 ELSE 0)

IInv == /\ Types /\ Files /\ InMemory /\ Buffer /\ RemovedFirst /\ Present /\ OnDisk
        /\ Ahead /\ Room

LEMMA Bounds == MaxParts \in Nat /\ 1 <= MaxParts /\ LMax \in Nat /\ Slack \in Nat /\ Slack < LMax
BY NameListAssumption

LEMMA Fields ==
  ASSUME Types, job # NoJob
  PROVE  /\ job \in Jobs /\ job.pc \in {"next", "load", "upper", "dir"} /\ job.todo \subseteq Ops
         /\ job.loaded \in 0 .. MaxParts /\ job.changed \in BOOLEAN /\ job.buf \in Seq(Strs)
         /\ job.dir \in Seq(Entry) /\ job.num \in Nat /\ job.upper \in Seq(Strs)
         /\ job.moved \subseteq Names /\ job.missed \in Nat /\ job.add \subseteq Names
         /\ job.del \subseteq Names
BY DEF Types, Jobs

LEMMA Idle == NoJob.pc = "idle" /\ NoScan.on = FALSE
BY DEF NoJob, NoScan

LEMMA Finite ==
  ASSUME NEW S \in SUBSET Names
  PROVE  IsFiniteSet(S) /\ Cardinality(S) \in Nat
<1> DEFINE P == (1 .. Words) \X (1 .. Values)
           f == [p \in P |-> <<p[1], p[2], 0>>]
<1>1. IsFiniteSet(P)
  <2>1. IsFiniteSet(1 .. Words) /\ IsFiniteSet(1 .. Values)
    BY NameListAssumption, FS_Interval
  <2> QED
    BY <2>1, FS_Product, Zenon
<1>2. f \in Surjection(P, Names)
  <2>1. ASSUME NEW e \in Names PROVE \E p \in P : f[p] = e
    <3>1. <<e[1], e[2]>> \in P /\ e = <<e[1], e[2], 0>>
      BY DEF Names
    <3>2. f[<<e[1], e[2]>>] = e
      BY <3>1
    <3> QED
      BY <3>1, <3>2
  <2>2. f \in [P -> Names]
    BY DEF Names
  <2> QED
    BY <2>1, <2>2, Zenon DEF Surjection
<1>3. IsFiniteSet(Names)
  BY <1>1, <1>2, FS_Surjection, Zenon
<1> QED
  BY <1>3, FS_Subset, FS_CardinalityType

\* A nextuser() in progress is told what is moved.
LEMMA Told ==
  ASSUME Types, NEW ns, Moves(ns)
  PROVE  /\ scan' \in Scans \cup {NoScan} /\ scan'.on = scan.on
         /\ scan.on => /\ scan'.dir = scan.dir /\ scan'.pos = scan.pos
                       /\ scan'.watch = scan.watch /\ scan'.got = scan.got
                       /\ scan.watch \in Names
                       /\ scan'.moved = (scan.moved \/ scan.watch \in ns)
<1>1. CASE scan.on /\ scan.watch \in ns
  <2>1. scan \in Scans /\ scan' = [scan EXCEPT !.moved = TRUE]
    BY <1>1, Idle DEF Types, Moves
  <2> QED
    BY <1>1, <2>1, Zenon DEF Scans
<1>2. CASE scan.on /\ scan.watch \notin ns
  <2>1. scan \in Scans /\ scan' = scan
    BY <1>2, Idle DEF Types, Moves
  <2> QED
    BY <1>2, <2>1, Zenon DEF Scans
<1>3. CASE ~scan.on
  BY <1>3 DEF Types, Moves
<1> QED
  BY <1>1, <1>2, <1>3

LEMMA Starts == Init => IInv
<1> SUFFICES ASSUME Init PROVE IInv
  OBVIOUS
<1>1. /\ dir = <<[str |-> sortlow, num |-> 1], [str |-> sorthigh, num |-> 0]>>
      /\ part = [n \in 1 .. MaxParts |-> IF n = 1 THEN <<sortlow, sorthigh>> ELSE <<>>]
      /\ job = NoJob /\ scan = NoScan
      /\ names = {} /\ risk = {} /\ crowded = FALSE /\ faults = 0
  BY DEF Init
<1>2. /\ sortlow \in Strs /\ sorthigh \in Strs /\ sortlow[1] = 0 /\ sortlow[2] = 0
      /\ sorthigh[1] = Words + 1 /\ sorthigh[2] = 0
  BY Strings DEF sortlow, sorthigh, Bang, Bare
<1>3. Shaped(<<sortlow, sorthigh>>)
  BY <1>2, NameListAssumption DEF Shaped
<1>4. Directory(dir) /\ Len(dir) = 2
  <2>1. [str |-> sortlow, num |-> 1] \in Entry /\ [str |-> sorthigh, num |-> 0] \in Entry
    BY <1>2 DEF Entry
  <2>2. dir \in Seq(Entry) /\ Len(dir) = 2 /\ dir[1].num = 1 /\ dir[1].str = sortlow
        /\ dir[2] = [str |-> sorthigh, num |-> 0]
    BY <1>1, <2>1
  <2>3. ~Less(dir[2].str, dir[1].str)
    BY <1>2, <2>2, NameListAssumption DEF Less
  <2> QED
    BY <2>2, <2>3 DEF Directory
<1>5. part[1] = <<sortlow, sorthigh>> /\ part \in [1 .. MaxParts -> Seq(Strs)]
  BY <1>1, <1>2, NameListAssumption
<1>6. Types
  <2>1. Len(dir) <= MaxParts + 1
    BY <1>4, NameListAssumption
  <2> QED
    BY <1>1, <1>4, <1>5, <2>1, Zenon DEF Types
<1>7. Files
  <2>1. File(1) = part[1] /\ Known = 2
    BY <1>1, <1>4, Idle, Zenon DEF File, Known
  <2>2. ~TooLong(part[1])
    BY <1>5, NameListAssumption DEF TooLong
  <2> QED
    BY <1>3, <1>5, <2>1, <2>2 DEF Files
<1> QED
  BY <1>1, <1>6, <1>7, Idle, Zenon
    DEF IInv, InMemory, Buffer, RemovedFirst, Present, Claimed, OnDisk, Ahead, Room

\* modnames() locks and loads the directory.
LEMMA Begins ==
  ASSUME IInv, NEW c \in Calls, Begin(c.add, c.del)
  PROVE  IInv'
<1>1. /\ job = NoJob
      /\ job' = [pc |-> "next", todo |-> Merged(c.add, c.del), loaded |-> 0, changed |-> FALSE,
                 buf |-> <<>>, dir |-> dir, num |-> Len(dir), upper |-> <<>>, moved |-> {},
                 missed |-> 0, add |-> c.add, del |-> c.del]
      /\ Moves(c.del)
      /\ UNCHANGED <<dir, part, names, risk, crowded, faults>>
  BY Zenon DEF Begin
<1>2. /\ job'.pc = "next" /\ job'.todo = Merged(c.add, c.del) /\ job'.loaded = 0
      /\ job'.changed = FALSE /\ job'.buf = <<>> /\ job'.dir = dir /\ job'.num = Len(dir)
      /\ job'.moved = {} /\ job'.missed = 0 /\ job'.add = c.add /\ job'.del = c.del
  BY <1>1
<1>3. c.add \in SUBSET Names /\ c.del \in SUBSET Names /\ Cardinality(c.add) < Slack
  BY NameListAssumption, Zenon
<1>4. Directory(dir) /\ dir \in Seq(Entry) /\ Len(dir) \in Nat
  BY Directories DEF IInv, Types
<1>5. job' \in Jobs
  <2>1. Merged(c.add, c.del) \in SUBSET Ops
    BY <1>3, Zenon DEF Merged, Ops
  <2>2. 0 \in 0 .. MaxParts /\ <<>> \in Seq(Strs) /\ {} \in SUBSET Names /\ 0 \in Nat
        /\ FALSE \in BOOLEAN /\ "next" \in {"next", "load", "upper", "dir"}
    BY Bounds
  <2> QED
    BY <1>1, <1>3, <1>4, <2>1, <2>2, Zenon DEF Jobs
<1>6. job' # NoJob
  BY <1>2, Idle
<1>7. Types'
  <2>1. scan' \in Scans \cup {NoScan}
    BY <1>1, Told, Zenon DEF IInv
  <2> QED
    BY <1>1, <1>5, <2>1, Zenon DEF IInv, Types
<1>8. Known' = Known /\ \A m : File(m)' = File(m) /\ (m \in 1 .. Known - 1 => Content(m)' = Content(m))
  <2>1. Known' = Known /\ job.pc = "idle" /\ job'.pc = "next"
    BY <1>1, <1>2, <1>6, Idle DEF Known
  <2>2. \A m : File(m)' = part[m] /\ File(m) = part[m]
    BY <1>1, <2>1, Zenon DEF File
  <2>3. \A m \in 1 .. Known - 1 : m # 0
    OBVIOUS
  <2> QED
    BY <1>2, <2>1, <2>2, <2>3 DEF Content
<1>9. Files'
  BY <1>1, <1>8 DEF IInv, Files
<1>10. InMemory'
  <2>1. 2 <= Len(dir) /\ Len(dir) <= MaxParts + 1
    BY <1>4, Directories DEF IInv, Types
  <2>2. Len(dir) \in Len(dir) .. MaxParts + 1 /\ 0 \in 0 .. Len(dir) - 1
    BY <1>4, <2>1, Bounds
  <2> QED
    BY <1>1, <1>2, <1>4, <2>2 DEF InMemory
<1>11. Buffer' /\ RemovedFirst'
  <2>1. \A n \in c.add : Adding(n) \in Merged(c.add, c.del)
    BY Zenon DEF Adding, Merged
  <2> QED
    BY <1>2, <2>1 DEF Buffer, RemovedFirst, Added
<1>12. Present'
  <2>1. Added' = {}
    BY <1>2, Zenon DEF Added, Adding, Merged
  <2>2. Claimed' \subseteq Claimed
    BY <1>1, <1>2, <1>6, <2>1, Zenon DEF Claimed
  <2> QED
    BY <1>1, <1>8, <2>2, Zenon DEF IInv, Present
<1>13. OnDisk'
  <2>1. \A n \in names \ risk : \E m \in 1 .. Len(dir) - 1 : n \in Range(part[m])
    BY <1>1, Idle, Zenon DEF IInv, Present, Claimed, Known, Content, File
  <2> QED
    BY <1>1, <1>2, <2>1, Zenon DEF OnDisk
<1>14. Ahead'
  BY <1>1, <1>2, Told, Zenon DEF IInv, Ahead
<1>15. Room'
  <2>1. Pending' = c.add
    BY <1>2, Zenon DEF Pending, Adding, Merged
  <2>2. Cardinality(c.add) \in Nat
    BY <1>3, Finite, Zenon
  <2> QED
    BY <1>2, <1>3, <2>1, <2>2, Bounds DEF Room
<1> QED
  BY <1>7, <1>9, <1>10, <1>11, <1>12, <1>13, <1>14, <1>15, Zenon DEF IInv

\* The next two: modnames() is done, or its process dies.
LEMMA Finishes ==
  ASSUME IInv, Finish
  PROVE  IInv'
<1>1. /\ job.pc = "dir" \/ (job.pc = "next" /\ ~job.changed /\ job.todo = {})
      /\ dir' = job.dir /\ job' = NoJob /\ names' = (names \ job.del) \cup job.add
      /\ UNCHANGED <<part, scan, risk, crowded, faults>>
  BY Zenon DEF Finish
<1>2. job # NoJob /\ job'.pc = "idle"
  BY <1>1, Idle, Zenon
<1>3. job.add \subseteq Names /\ job.todo = {} /\ Directory(job.dir) /\ Len(job.dir) = job.num
      /\ job.num \in Len(dir) .. MaxParts + 1 /\ Len(dir) \in Nat
  <2>1. Directory(dir) /\ Len(dir) \in Nat
    BY Directories, Zenon DEF IInv, Types
  <2> QED
    BY <1>1, <1>2, <2>1, Fields, Zenon DEF IInv, InMemory
<1>4. Types'
  BY <1>1, <1>3 DEF IInv, Types
<1>5. Known' = Known /\ \A m : File(m)' = File(m)
  BY <1>1, <1>2, <1>3, Zenon DEF Known, File
<1>6. \A m \in 1 .. Known - 1 : Content(m)' = Content(m)
  <2>1. job.pc = "next" /\ job.loaded # 0 => job.buf = part[job.loaded]
    BY <1>1, <1>2, Zenon DEF IInv, Buffer
  <2> QED
    BY <1>1, <1>2, <2>1 DEF Content, File
<1>7. Files'
  BY <1>1, <1>5, Zenon DEF IInv, Files
<1>8. Present'
  <2>1. Claimed' = Claimed
    BY <1>1, <1>2, <1>3, Zenon DEF Claimed, Added
  <2> QED
    BY <1>1, <1>5, <1>6, <2>1, Zenon DEF IInv, Present
<1>9. Ahead'
  <2>1. scan.on => Len(scan.dir) \in Nat
    BY Directories, Zenon DEF IInv, Ahead
  <2> QED
    BY <1>1, <1>2, <1>3, <2>1 DEF IInv, Ahead
<1> QED
  BY <1>1, <1>4, <1>7, <1>8, <1>9, Zenon DEF IInv, InMemory, Buffer, RemovedFirst, OnDisk, Room

LEMMA Dies ==
  ASSUME IInv, Die
  PROVE  IInv'
<1>1. /\ job # NoJob /\ job' = NoJob /\ risk' = risk \cup job.add \cup job.del \cup job.moved
      /\ UNCHANGED <<dir, part, scan, names, crowded>>
  BY Zenon DEF Die
<1>2. job'.pc = "idle"
  BY <1>1, Idle, Zenon
<1>3. /\ job.add \subseteq Names /\ job.del \subseteq Names /\ job.moved \subseteq Names
      /\ job.num \in Nat /\ Len(dir) \in Nat
  <2>1. Directory(dir) /\ Len(dir) \in Nat
    BY Directories DEF IInv, Types
  <2> QED
    BY <1>1, <2>1, Fields, Zenon DEF IInv
<1>4. Types'
  BY <1>1, <1>3, Zenon DEF IInv, Types
<1>5. Known' = Len(dir) /\ \A m : File(m)' = part[m] /\ Content(m)' = Range(part[m])
  BY <1>1, <1>2, Zenon DEF Known, File, Content
<1>6. Files'
  <2>1. \A m \in 1 .. Len(dir) - 1 : m \in 1 .. Known - 1 /\ File(m) = part[m]
    BY <1>1, <1>3 DEF IInv, InMemory, Known, File
  <2> QED
    BY <1>1, <1>5, <2>1, Zenon DEF IInv, Files
<1>7. Present'
  <2>1. \A n \in names \ risk' : \E m \in 1 .. Len(dir) - 1 : n \in Range(part[m])
    BY <1>1, Zenon DEF IInv, OnDisk
  <2> QED
    BY <1>1, <1>5, <2>1, Zenon DEF Present, Claimed
<1>8. Ahead'
  BY <1>1 DEF IInv, Ahead
<1> QED
  BY <1>1, <1>4, <1>6, <1>7, <1>8, Zenon DEF IInv, InMemory, Buffer, RemovedFirst, OnDisk, Room

\* nextuser() changes nothing but what it has read.
LEMMA Scanning ==
  ASSUME IInv, scan' \in Scans \cup {NoScan}, Ahead',
         UNCHANGED <<dir, part, job, names, risk, crowded, faults>>
  PROVE  IInv'
<1>1. Types'
  BY Zenon DEF IInv, Types
<1>2. Known' = Known /\ Claimed' = Claimed /\ Added' = Added /\ Pending' = Pending
      /\ \A m : File(m)' = File(m) /\ Content(m)' = Content(m)
  BY Zenon DEF Known, Claimed, Added, Pending, File, Content
<1>3. Files' /\ InMemory' /\ Buffer' /\ RemovedFirst'
  BY <1>2, Zenon DEF IInv, Files, InMemory, Buffer, RemovedFirst
<1>4. Present' /\ OnDisk' /\ Room'
  BY <1>2, Zenon DEF IInv, Present, OnDisk, Room
<1> QED
  BY <1>1, <1>3, <1>4, Zenon DEF IInv

LEMMA ScansDir ==
  ASSUME IInv, NEW n \in names, ScanDir(n)
  PROVE  IInv'
<1>1. /\ ~scan.on /\ job = NoJob /\ n \notin risk
      /\ scan' = [on |-> TRUE, watch |-> n, dir |-> dir, pos |-> 1, got |-> FALSE, moved |-> FALSE]
      /\ UNCHANGED <<dir, part, job, names, risk, crowded, faults>>
  BY Zenon DEF ScanDir
<1>2. Directory(dir) /\ dir \in Seq(Entry) /\ Len(dir) \in Nat /\ 2 <= Len(dir)
      /\ \A m \in 1 .. Len(dir) - 1 : \E k \in 1 .. Len(dir) - 1 : dir[k].num = m
  <2>1. Directory(dir)
    BY Zenon DEF IInv, Types
  <2> QED
    BY <2>1, Directories, Zenon
<1>3. scan' \in Scans
  BY <1>1, <1>2, Zenon DEF IInv, Types, Scans
<1>4. PICK m \in 1 .. Len(dir) - 1 : n \in Range(part[m])
  BY <1>1, Idle, Zenon DEF IInv, Present, Claimed, Known, Content, File
<1>5. PICK k \in 1 .. Len(dir) - 1 : dir[k].num = m
  BY <1>2, Zenon
<1>6. Ahead'
  <2>1. scan'.watch = n /\ scan'.dir = dir /\ scan'.pos = 1
    BY <1>1
  <2>2. n \in Range(part[dir[k].num])
    BY <1>4, <1>5
  <2>3. 1 \in 1 .. Len(dir) /\ Len(dir) <= Len(dir)
    BY <1>2
  <2> QED
    BY <1>1, <1>2, <2>1, <2>2, <2>3, Zenon DEF Ahead
<1> QED
  BY <1>1, <1>3, <1>6, Scanning, Zenon

LEMMA ScansPart ==
  ASSUME IInv, ScanPart
  PROVE  IInv'
<1> DEFINE k == scan.pos
<1>1. /\ scan.on /\ scan.dir[k].num # 0
      /\ scan' = [scan EXCEPT !.pos = @ + 1,
                              !.got = @ \/ scan.watch \in Range(part[scan.dir[scan.pos].num])]
      /\ UNCHANGED <<dir, part, job, names, risk, crowded, faults>>
  BY Zenon DEF ScanPart, AtEnd
<1>2. scan \in Scans /\ Directory(scan.dir) /\ k \in 1 .. Len(scan.dir) /\ Len(scan.dir) \in Nat
      /\ scan.dir[Len(scan.dir)].num = 0
  BY <1>1, Idle, Directories DEF IInv, Types, Ahead
<1>3. k \in 1 .. Len(scan.dir) - 1 /\ k + 1 \in 1 .. Len(scan.dir)
  BY <1>1, <1>2
<1>4. /\ scan'.on = scan.on /\ scan'.watch = scan.watch /\ scan'.dir = scan.dir /\ scan'.pos = k + 1
      /\ scan'.got = (scan.got \/ scan.watch \in Range(part[scan.dir[k].num]))
      /\ scan'.moved = scan.moved
  BY <1>1, <1>2, Zenon DEF Scans
<1>5. scan' \in Scans
  <2>1. k + 1 \in Nat /\ (scan.got \/ scan.watch \in Range(part[scan.dir[k].num])) \in BOOLEAN
    BY <1>2
  <2> QED
    BY <1>1, <1>2, <2>1, Zenon DEF Scans
<1>6. Ahead'
  <2>1. CASE scan'.got \/ scan'.moved \/ scan.watch \in risk
    BY <1>1, <1>2, <1>3, <1>4, <2>1 DEF IInv, Ahead
  <2>2. CASE ~(scan'.got \/ scan'.moved \/ scan.watch \in risk)
    <3>1. PICK j \in k .. Len(scan.dir) - 1 : scan.watch \in Range(part[scan.dir[j].num])
      BY <1>1, <1>4, <2>2, Zenon DEF IInv, Ahead
    <3>2. j # k
      BY <1>4, <2>2, <3>1, Zenon
    <3>3. j \in k + 1 .. Len(scan.dir) - 1
      BY <1>2, <3>2
    <3> QED
      BY <1>1, <1>2, <1>3, <1>4, <3>1, <3>3, Zenon DEF IInv, Ahead
  <2> QED
    BY <2>1, <2>2, Zenon
<1> QED
  BY <1>1, <1>5, <1>6, Scanning

LEMMA ScansEnd ==
  ASSUME IInv, ScanEnd
  PROVE  IInv'
<1>1. scan' = NoScan /\ UNCHANGED <<dir, part, job, names, risk, crowded, faults>>
  BY Zenon DEF ScanEnd
<1>2. Ahead'
  BY <1>1, Idle, Zenon DEF Ahead
<1> QED
  BY <1>1, <1>2, Scanning

\* The entry that is next, and where it belongs.
LEMMA Chosen ==
  ASSUME IInv, job # NoJob, job.todo # {}
  PROVE  LET op == First(job.todo)
         IN  /\ op \in job.todo /\ op \in Ops /\ op.name \in Names
             /\ IF op.remove THEN op.name \in job.del /\ op = Removal(op.name)
                ELSE op.name \in job.add /\ op = Adding(op.name) /\ Removal(op.name) \notin job.todo
             /\ Target \in 1 .. job.num - 1 /\ Target \in 1 .. MaxParts
<1> DEFINE op == First(job.todo)
<1>1. job.todo \in SUBSET Ops /\ job.todo \subseteq Merged(job.add, job.del)
      /\ Directory(job.dir) /\ Len(job.dir) = job.num /\ job.num \in Nat /\ job.num <= MaxParts + 1
  <2>1. job.todo \subseteq Ops /\ job.num \in Nat
    BY Fields DEF IInv
  <2>2. /\ job.todo \subseteq Merged(job.add, job.del) /\ Directory(job.dir)
        /\ Len(job.dir) = job.num /\ job.num \in Len(dir) .. MaxParts + 1
    BY Zenon DEF IInv, InMemory
  <2> QED
    BY <2>1, <2>2
<1>2. op \in job.todo /\ \A y \in job.todo \ {op} : Before(op, y)
  BY <1>1, Firsts, Zenon
<1>3. Target \in 1 .. job.num - 1
  <2>1. op.name \in Names
    BY <1>1, <1>2 DEF Ops
  <2> QED
    BY <1>1, <2>1, Places, Zenon DEF Target
<1> HIDE DEF op
<1>4. op \in Ops /\ op.name \in Names
  BY <1>1, <1>2 DEF Ops
<1>5. IF op.remove THEN op.name \in job.del /\ op = Removal(op.name)
      ELSE op.name \in job.add /\ op = Adding(op.name)
  BY <1>1, <1>2, Zenon DEF Merged, Adding, Removal
<1>6. ASSUME ~op.remove, Removal(op.name) \in job.todo PROVE FALSE
  <2>1. Removal(op.name).name = op.name /\ Removal(op.name).remove
    BY DEF Removal
  <2>2. Before(op, Removal(op.name))
    BY <1>2, <1>6, <2>1
  <2>3. Less(op.name, op.name)
    BY <1>6, <2>1, <2>2, Zenon DEF Before
  <2> QED
    BY <1>4, <2>3, Strings, Ordered
<1>7. Target \in 1 .. MaxParts
  BY <1>1, <1>3, Bounds
<1> QED
  BY <1>2, <1>3, <1>4, <1>5, <1>6, <1>7, Zenon DEF op

\* One entry less is to do.
LEMMA Taken ==
  ASSUME IInv, job # NoJob, job.todo # {}, job'.add = job.add,
         job'.todo = job.todo \ {First(job.todo)}
  PROVE  LET op == First(job.todo)
         IN  /\ Added' = IF op.remove THEN Added ELSE Added \cup {op.name}
             /\ Cardinality(Pending) \in Nat /\ Cardinality(Pending)' \in Nat
             /\ Cardinality(Pending)' + (IF op.remove THEN 0 ELSE 1) = Cardinality(Pending)
<1> DEFINE op == First(job.todo)
<1>1. IF op.remove THEN op = Removal(op.name)
      ELSE op.name \in job.add /\ op = Adding(op.name) /\ Adding(op.name) \in job.todo
  BY Chosen, Zenon
<1>2. \A m, n : Adding(m) # Removal(n) /\ (Adding(m) = Adding(n) => m = n)
  BY DEF Adding, Removal
<1> HIDE DEF op
<1>3. Added' = IF op.remove THEN Added ELSE Added \cup {op.name}
  <2>1. CASE op.remove
    BY <1>1, <1>2, <2>1, Zenon DEF Added, op
  <2>2. CASE ~op.remove
    BY <1>1, <1>2, <2>2, Zenon DEF Added, op
  <2> QED
    BY <2>1, <2>2, Zenon
<1>4. Pending' = (IF op.remove THEN Pending ELSE Pending \ {op.name})
      /\ (~op.remove => op.name \in Pending)
  <2>1. CASE op.remove
    BY <1>1, <1>2, <2>1 DEF Pending, op
  <2>2. CASE ~op.remove
    BY <1>1, <1>2, <2>2, Zenon DEF Pending, op
  <2> QED
    BY <2>1, <2>2, Zenon
<1>5. IsFiniteSet(Pending) /\ Cardinality(Pending) \in Nat
  BY Fields, Finite, Zenon DEF IInv, Pending
<1>6. ~op.remove => Cardinality(Pending \ {op.name}) = Cardinality(Pending) - 1
                    /\ Cardinality(Pending \ {op.name}) \in Nat
  BY <1>4, <1>5, FS_RemoveElement, FS_CardinalityType, Zenon
<1>7. /\ Cardinality(Pending)' \in Nat
      /\ Cardinality(Pending)' + (IF op.remove THEN 0 ELSE 1) = Cardinality(Pending)
  BY <1>4, <1>5, <1>6
<1> QED
  BY <1>3, <1>5, <1>7, Zenon DEF op

\* modnames() passes over an entry whose part it cannot lock.
LEMMA LoadsNot ==
  ASSUME IInv, LoadFails
  PROVE  IInv'
<1> DEFINE op == First(job.todo)
<1>1. /\ job # NoJob /\ Wanted /\ job.todo # {}
      /\ job' = [job EXCEPT !.pc = "next", !.todo = @ \ {First(@)}, !.missed = @ + 1]
      /\ risk' = risk \cup {First(job.todo).name} \cup job.moved
      /\ UNCHANGED <<dir, part, scan, names, crowded>>
  BY Zenon DEF LoadFails
<1>2. job.pc \in {"load", "next"} /\ (job.pc = "next" => ~job.changed)
  BY <1>1 DEF Wanted
<1>3. job \in Jobs /\ job.missed \in Nat /\ job.moved \subseteq Names /\ job.todo \subseteq Ops
      /\ job.loaded \in 0 .. MaxParts /\ job.buf \in Seq(Strs)
  BY <1>1, Fields DEF IInv
<1>4. /\ job'.pc = "next" /\ job'.todo = job.todo \ {op} /\ job'.missed = job.missed + 1
      /\ job'.loaded = job.loaded /\ job'.changed = job.changed /\ job'.buf = job.buf
      /\ job'.dir = job.dir /\ job'.num = job.num /\ job'.moved = job.moved
      /\ job'.add = job.add /\ job'.del = job.del
  BY <1>1, <1>3 DEF Jobs
<1>5. job' \in Jobs
  <2>1. job.todo \ {op} \in SUBSET Ops /\ job.missed + 1 \in Nat
    BY <1>3
  <2> HIDE DEF op
  <2> QED
    BY <1>1, <1>3, <2>1, Zenon DEF Jobs, op
<1>6. op.name \in Names /\ op \in job.todo
  BY <1>1, Chosen
<1>7. /\ Added' \subseteq Added \cup {op.name} /\ (op.remove => Added' = Added)
      /\ Cardinality(Pending) \in Nat /\ Cardinality(Pending)' \in Nat
      /\ Cardinality(Pending)' <= Cardinality(Pending)
  BY <1>1, <1>4, Taken
<1>8. job' # NoJob
  BY <1>4, Idle
<1> HIDE DEF op
<1>9. Types'
  <2>1. risk' \subseteq Names
    BY <1>1, <1>3, <1>6, Zenon DEF IInv, Types, op
  <2> QED
    BY <1>1, <1>5, <2>1, Zenon DEF IInv, Types
<1>10. Known' = Known /\ \A m : File(m)' = File(m)
  BY <1>1, <1>2, <1>4, <1>8, Zenon DEF Known, File
<1>11. Files'
  BY <1>1, <1>10, Zenon DEF IInv, Files
<1>12. InMemory'
  BY <1>1, <1>2, <1>4, Zenon DEF IInv, InMemory
<1>13. Buffer'
  <2>1. CASE job.pc = "next"
    BY <1>1, <1>4, <2>1, Zenon DEF IInv, Buffer
  <2>2. CASE job.pc = "load"
    <3>1. job.changed
      BY <1>1, <2>2, Zenon DEF IInv, InMemory
    <3> QED
      BY <1>1, <1>4, <2>2, <3>1, Zenon DEF IInv, Buffer
  <2> QED
    BY <1>2, <2>1, <2>2, Zenon
<1>14. RemovedFirst'
  <2>1. ASSUME NEW n \in Added', Removal(n) \in job.todo \ {op} PROVE FALSE
    <3>1. n \notin Added
      BY <1>1, <2>1, Zenon DEF IInv, RemovedFirst
    <3>2. n = op.name /\ ~op.remove
      BY <1>7, <2>1, <3>1, Zenon
    <3> QED
      BY <1>1, <2>1, <3>2, Chosen, Zenon DEF op
  <2> QED
    BY <1>4, <2>1 DEF RemovedFirst
<1>15. Present'
  <2>1. Claimed' \ risk' \subseteq Claimed \ risk
    BY <1>1, <1>4, <1>7, <1>8, Zenon DEF Claimed, op
  <2>2. \A m \in 1 .. Known - 1 : Content(m) \subseteq Content(m)'
    BY <1>1, <1>2, <1>4 DEF IInv, Content, File, Buffer
  <2> QED
    BY <1>10, <2>1, <2>2, Zenon DEF IInv, Present
<1>16. OnDisk'
  BY <1>1, <1>4, Zenon DEF IInv, OnDisk
<1>17. Ahead'
  BY <1>1, <1>4 DEF IInv, Ahead
<1>18. Room'
  <2>1. Len(job.buf) \in Nat
    BY <1>3
  <2>2. Cardinality(Pending) < Slack
        /\ (~crowded => Len(job.buf) + Cardinality(Pending) <= LMax + job.missed)
    <3>1. /\ Cardinality(Pending) < Slack
          /\ ~crowded => Len(job.buf) + Cardinality(Pending)
                            <= LMax + job.missed - (IF job.pc = "next" THEN 1 ELSE 0)
      BY <1>1, Zenon DEF IInv, Room
    <3>2. CASE job.pc = "next"
      BY <1>3, <1>7, <2>1, <3>1, <3>2, Bounds
    <3>3. CASE job.pc # "next"
      BY <1>3, <1>7, <2>1, <3>1, <3>3, Bounds
    <3> QED
      BY <3>2, <3>3
  <2>3. Cardinality(Pending)' < Slack
        /\ (~crowded => Len(job.buf) + Cardinality(Pending)' <= LMax + (job.missed + 1) - 1)
    BY <1>3, <1>7, <2>1, <2>2, Bounds
  <2> QED
    BY <1>1, <1>4, <2>3, Zenon DEF Room
<1> QED
  BY <1>9, <1>11, <1>12, <1>13, <1>14, <1>15, <1>16, <1>17, <1>18, Zenon DEF IInv

\* An entry is worked into the lines b of the part it belongs in.
Worked(b, ch) ==
  LET op == First(job.todo)
  IN  /\ job' \in Jobs /\ job'.pc = "next" /\ job'.todo = job.todo \ {op}
      /\ job'.loaded = Target /\ job'.buf = Edited(b, op)
      /\ job'.changed = (ch \/ Edited(b, op) # b)
      /\ job'.dir = job.dir /\ job'.num = job.num /\ job'.moved = job.moved
      /\ job'.missed = job.missed /\ job'.add = job.add /\ job'.del = job.del
      /\ UNCHANGED <<dir, part, scan, names, risk, crowded, faults>>

LEMMA Works ==
  ASSUME IInv, job # NoJob, job.todo # {}, job.pc # "upper", NEW b, NEW ch \in BOOLEAN,
         Worked(b, ch), Shaped(b),
         Range(part[Target]) \cap Names \subseteq Range(b) \cup job.del,
         ~ch => b = part[Target],
         \A m \in 1 .. job.num - 1 :
           Content(m) \subseteq Range(IF m = Target THEN b ELSE part[m]),
         ~crowded => Len(b) + Cardinality(Pending) <= LMax + job.missed - 1
  PROVE  IInv'
<1> DEFINE op == First(job.todo)
           e == Edited(b, op)
           t == Target
<1>1. /\ job' \in Jobs /\ job'.pc = "next" /\ job'.todo = job.todo \ {op}
      /\ job'.loaded = t /\ job'.buf = e /\ job'.changed = (ch \/ e # b)
      /\ job'.dir = job.dir /\ job'.num = job.num /\ job'.moved = job.moved
      /\ job'.missed = job.missed /\ job'.add = job.add /\ job'.del = job.del
  BY Zenon DEF Worked
<1>2. UNCHANGED <<dir, part, scan, names, risk, crowded, faults>>
  BY Zenon DEF Worked
<1>3. /\ op \in job.todo /\ op \in Ops /\ op.name \in Names
      /\ IF op.remove THEN op.name \in job.del /\ op = Removal(op.name)
         ELSE op.name \in job.add /\ op = Adding(op.name) /\ Removal(op.name) \notin job.todo
      /\ t \in 1 .. job.num - 1 /\ t \in 1 .. MaxParts
  BY Chosen, Zenon
<1>4. /\ Added' = IF op.remove THEN Added ELSE Added \cup {op.name}
      /\ Cardinality(Pending) \in Nat /\ Cardinality(Pending)' \in Nat
      /\ Cardinality(Pending)' + (IF op.remove THEN 0 ELSE 1) = Cardinality(Pending)
  BY <1>1, Taken, Zenon
<1>5. /\ Shaped(e) /\ Len(e) <= Len(b) + (IF op.remove THEN 0 ELSE 1)
      /\ ~op.remove => Range(e) = Range(b) \cup {op.name}
      /\ op.remove => Range(e) \subseteq Range(b) /\ Range(b) \subseteq Range(e) \cup {op.name}
  BY <1>3, Edits, Zenon
<1>6. job.num \in Nat /\ job.missed \in Nat /\ Len(b) \in Nat /\ Len(e) \in Nat
  <2>1. b \in Seq(Strs) /\ e \in Seq(Strs)
    BY <1>5, Zenon DEF Shaped
  <2> HIDE DEF e
  <2> QED
    BY <2>1, Fields DEF IInv
<1>7. job' # NoJob
  BY <1>1, Idle, Zenon
<1> HIDE DEF op, e, t
<1>8. Types'
  BY <1>1, <1>2, Zenon DEF IInv, Types
<1>9. Known' = Known /\ Known = job.num /\ \A m : File(m)' = File(m) /\ File(m) = part[m]
  BY <1>1, <1>2, <1>7, Zenon DEF Known, File
<1>10. \A m : Content(m)' = Range(IF m = t THEN e ELSE part[m])
  BY <1>1, <1>2, Zenon DEF Content, File
<1>11. Files'
  BY <1>2, <1>9, Zenon DEF IInv, Files
<1>12. InMemory'
  <2>1. t # 0 /\ t \in 0 .. job.num - 1
    BY <1>3, <1>6
  <2> QED
    BY <1>1, <1>2, <1>5, <2>1, Zenon DEF IInv, InMemory
<1>13. Buffer'
  <2>1. Range(part[t]) \cap Names \subseteq Range(e) \cup job.del
    BY <1>3, <1>5, Zenon DEF t
  <2>2. ~(ch \/ e # b) => e = part[t]
    BY Zenon DEF t
  <2> QED
    BY <1>1, <1>2, <2>1, <2>2, Zenon DEF Buffer
<1>14. RemovedFirst'
  <2>1. ASSUME NEW n \in Added', Removal(n) \in job.todo \ {op} PROVE FALSE
    <3>1. n \notin Added
      BY <2>1, Zenon DEF IInv, RemovedFirst
    <3>2. n = op.name /\ ~op.remove
      BY <1>4, <2>1, <3>1, Zenon
    <3> QED
      BY <1>3, <2>1, <3>2, Zenon
  <2> QED
    BY <1>1, <2>1, Zenon DEF RemovedFirst
<1>15. Present'
  <2> SUFFICES ASSUME NEW n \in Claimed' \ risk
               PROVE  \E m \in 1 .. job.num - 1 : n \in Range(IF m = t THEN e ELSE part[m])
    BY <1>2, <1>9, <1>10, Zenon DEF Present
  <2>1. CASE n = op.name /\ ~op.remove
    BY <1>3, <1>5, <2>1, Zenon
  <2>2. CASE ~(n = op.name /\ ~op.remove)
    <3>1. n \in Claimed
      BY <1>1, <1>2, <1>4, <1>7, <2>2, Zenon DEF Claimed
    <3>2. PICK m \in 1 .. job.num - 1 : n \in Content(m)
      BY <1>9, <3>1, Zenon DEF IInv, Present
    <3>3. n \in Range(IF m = t THEN b ELSE part[m])
      BY <3>2, Zenon DEF t
    <3>4. CASE m # t
      BY <3>3, <3>4, Zenon
    <3>5. CASE m = t
      <4>1. n # op.name \/ ~op.remove
        <5> SUFFICES ASSUME n = op.name, op.remove PROVE FALSE
          BY Zenon
        <5>1. n \in Added
          BY <1>3, <3>1, Zenon DEF Claimed
        <5> QED
          BY <1>3, <5>1, Zenon DEF IInv, RemovedFirst
      <4>2. n \in Range(e)
        BY <1>5, <3>3, <3>5, <4>1, Zenon
      <4> QED
        BY <3>5, <4>2, Zenon
    <3> QED
      BY <3>4, <3>5, Zenon
  <2> QED
    BY <2>1, <2>2, Zenon
<1>16. OnDisk'
  BY <1>1, <1>2, Zenon DEF IInv, OnDisk
<1>17. Ahead'
  BY <1>1, <1>2, Zenon DEF IInv, Ahead
<1>18. Room'
  <2>1. Cardinality(Pending)' < Slack
    BY <1>4, Bounds DEF IInv, Room
  <2>2. ~crowded => Len(e) + Cardinality(Pending)' <= LMax + job.missed - 1
    <3>1. Len(e) + Cardinality(Pending)' <= Len(b) + Cardinality(Pending)
      BY <1>4, <1>5, <1>6
    <3> QED
      BY <1>4, <1>6, <3>1, Bounds
  <2> QED
    BY <1>1, <1>2, <2>1, <2>2, Zenon DEF Room
<1> QED
  BY <1>8, <1>11, <1>12, <1>13, <1>14, <1>15, <1>16, <1>17, <1>18 DEF IInv

\* The next two: the entry belongs in the part that is loaded, or in another.
LEMMA Modifies ==
  ASSUME IInv, Modify
  PROVE  IInv'
<1> DEFINE op == First(job.todo)
<1>1. /\ job.pc = "next" /\ job.todo # {} /\ Target = job.loaded
      /\ job' = Modified(job, job.buf)
      /\ UNCHANGED <<dir, part, scan, names, risk, crowded, faults>>
  BY Zenon DEF Modify
<1>2. job # NoJob
  BY <1>1, Idle, Zenon
<1>3. /\ job \in Jobs /\ job.todo \subseteq Ops /\ job.changed \in BOOLEAN /\ job.loaded # 0
      /\ op \in Ops /\ job.missed \in Nat
  <2>1. Target # 0
    BY <1>1, <1>2, Chosen
  <2> QED
    BY <1>1, <1>2, <2>1, Chosen, Fields, Zenon DEF IInv
<1>4. Shaped(job.buf) /\ Edited(job.buf, op) \in Seq(Strs)
  BY <1>2, <1>3, Edits, Zenon DEF IInv, InMemory, Shaped
<1> HIDE DEF op
<1>5. Worked(job.buf, job.changed)
  <2>1. job' = [job EXCEPT !.pc = "next", !.todo = @ \ {op}, !.buf = Edited(job.buf, op),
                           !.changed = @ \/ Edited(job.buf, op) # job.buf]
    BY <1>1, Zenon DEF Modified, op
  <2>2. job.todo \ {op} \in SUBSET Ops /\ (job.changed \/ Edited(job.buf, op) # job.buf) \in BOOLEAN
    BY <1>3
  <2>3. job' \in Jobs
    BY <1>3, <1>4, <2>1, <2>2, Zenon DEF Jobs
  <2>4. /\ job'.pc = "next" /\ job'.todo = job.todo \ {op} /\ job'.loaded = job.loaded
        /\ job'.buf = Edited(job.buf, op)
        /\ job'.changed = (job.changed \/ Edited(job.buf, op) # job.buf)
        /\ job'.dir = job.dir /\ job'.num = job.num /\ job'.moved = job.moved
        /\ job'.missed = job.missed /\ job'.add = job.add /\ job'.del = job.del
    BY <1>3, <2>1 DEF Jobs
  <2> QED
    BY <1>1, <2>3, <2>4, Zenon DEF Worked, op
<1>6. /\ Range(part[Target]) \cap Names \subseteq Range(job.buf) \cup job.del
      /\ ~job.changed => job.buf = part[Target]
  BY <1>1, <1>2, <1>3, Zenon DEF IInv, Buffer
<1>7. \A m \in 1 .. job.num - 1 : Content(m) \subseteq Range(IF m = Target THEN job.buf ELSE part[m])
  BY <1>1, Zenon DEF Content, File
<1>8. ~crowded => Len(job.buf) + Cardinality(Pending) <= LMax + job.missed - 1
  BY <1>1, <1>2, Zenon DEF IInv, Room
<1> QED
  BY <1>1, <1>2, <1>3, <1>4, <1>5, <1>6, <1>7, <1>8, Works, Zenon

LEMMA Loads ==
  ASSUME IInv, Load
  PROVE  IInv'
<1> DEFINE op == First(job.todo)
           t == Target
           b == part[t]
<1>1. /\ job # NoJob /\ Wanted /\ job.todo # {} /\ t # job.loaded
      /\ job' = Modified([job EXCEPT !.loaded = t, !.changed = FALSE], b)
      /\ UNCHANGED <<dir, part, scan, names, risk, crowded, faults>>
  BY Zenon DEF Load
<1>2. job.pc \in {"load", "next"} /\ (job.pc = "next" => ~job.changed)
  BY <1>1, Zenon DEF Wanted
<1>3. /\ job \in Jobs /\ job.todo \subseteq Ops /\ op \in Ops /\ job.missed \in Nat
      /\ t \in 1 .. job.num - 1 /\ t \in 1 .. MaxParts
  BY <1>1, Chosen, Fields, Zenon DEF IInv
<1>4. Shaped(b) /\ (TooLong(b) => crowded)
  BY <1>1, <1>2, <1>3, Zenon DEF IInv, Files, Known, File
<1>5. Shaped(Edited(b, op)) /\ Edited(b, op) \in Seq(Strs)
  BY <1>3, <1>4, Edits, Zenon DEF Shaped
<1> HIDE DEF op, t, b
<1>6. Worked(b, FALSE)
  <2> DEFINE j == [job EXCEPT !.loaded = t, !.changed = FALSE]
  <2>1. j.todo = job.todo /\ j.changed = FALSE /\ j \in Jobs /\ j.loaded = t
        /\ j.dir = job.dir /\ j.num = job.num /\ j.moved = job.moved
        /\ j.missed = job.missed /\ j.add = job.add /\ j.del = job.del
    <3>1. t \in 0 .. MaxParts
      BY <1>3
    <3> QED
      BY <1>3, <3>1, Zenon DEF Jobs
  <2> HIDE DEF j
  <2>2. job' = [j EXCEPT !.pc = "next", !.todo = @ \ {op}, !.buf = Edited(b, op),
                         !.changed = @ \/ Edited(b, op) # b]
    BY <1>1, <2>1, Zenon DEF Modified, op, j
  <2>3. job.todo \ {op} \in SUBSET Ops /\ (FALSE \/ Edited(b, op) # b) \in BOOLEAN
    BY <1>3
  <2>4. job' \in Jobs
    BY <1>5, <2>1, <2>2, <2>3, Zenon DEF Jobs
  <2>5. /\ job'.pc = "next" /\ job'.todo = job.todo \ {op} /\ job'.loaded = t
        /\ job'.buf = Edited(b, op) /\ job'.changed = (FALSE \/ Edited(b, op) # b)
        /\ job'.dir = job.dir /\ job'.num = job.num /\ job'.moved = job.moved
        /\ job'.missed = job.missed /\ job'.add = job.add /\ job'.del = job.del
    BY <2>1, <2>2 DEF Jobs
  <2> QED
    BY <1>1, <2>4, <2>5 DEF Worked, op, t
<1>7. \A m \in 1 .. job.num - 1 : Content(m) \subseteq Range(IF m = t THEN b ELSE part[m])
  <2>1. \A m \in 1 .. job.num - 1 : Content(m) = Range(part[m])
    BY <1>1, <1>2 DEF IInv, Buffer, Content, File
  <2> QED
    BY <2>1 DEF b
<1>8. ~crowded => Len(b) + Cardinality(Pending) <= LMax + job.missed - 1
  <2>1. Cardinality(Pending) \in Nat /\ Cardinality(Pending) < Slack
    BY <1>1, Fields, Finite, Zenon DEF IInv, Pending, Room
  <2>2. Len(b) \in Nat /\ (~crowded => Len(b) <= LMax - Slack)
    BY <1>4, Bounds DEF Shaped, TooLong
  <2> QED
    BY <1>3, <2>1, <2>2, Bounds
<1> QED
  BY <1>1, <1>2, <1>4, <1>6, <1>7, <1>8, Works, Zenon DEF b, t

\* The parts that nextuser() is to read are parts that the directory lists.
LEMMA ToRead ==
  ASSUME IInv, scan.on, NEW k \in scan.pos .. Len(scan.dir) - 1
  PROVE  scan.dir[k].num \in 1 .. Len(dir) - 1
<1>1. /\ Directory(scan.dir) /\ Len(scan.dir) <= Len(dir) /\ scan.pos \in 1 .. Len(scan.dir)
      /\ Directory(dir)
  BY Zenon DEF IInv, Types, Ahead
<1>2. /\ Len(dir) \in Nat /\ Len(scan.dir) \in Nat
      /\ \A i \in 1 .. Len(scan.dir) - 1 : scan.dir[i].num \in 1 .. Len(scan.dir) - 1
  BY <1>1, Directories, Zenon
<1>3. k \in 1 .. Len(scan.dir) - 1
  BY <1>1, <1>2
<1>4. scan.dir[k].num \in 1 .. Len(scan.dir) - 1
  BY <1>2, <1>3
<1> QED
  BY <1>1, <1>2, <1>4

\* stornpart() writes the upper half of a part.
LEMMA StoresUpper ==
  ASSUME IInv, StoreUpper
  PROVE  IInv'
<1> DEFINE u == job.num - 1
           pc == IF job.todo = {} THEN "dir" ELSE "load"
<1>1. /\ job.pc = "upper" /\ part' = [part EXCEPT ![u] = job.upper]
      /\ job' = [job EXCEPT !.pc = pc, !.upper = <<>>]
      /\ UNCHANGED <<dir, scan, names, risk, crowded, faults>>
  BY Zenon DEF StoreUpper
<1>2. job # NoJob
  BY <1>1, Idle, Zenon
<1>3. /\ job \in Jobs /\ job.upper \in Seq(Strs) /\ part \in [1 .. MaxParts -> Seq(Strs)]
      /\ job.num \in Nat
  BY <1>2, Fields, Zenon DEF IInv, Types
<1>4. /\ Directory(dir) /\ Len(dir) \in Nat /\ 2 <= Len(dir)
      /\ Len(dir) < job.num /\ job.num <= MaxParts + 1
      /\ job.loaded # u /\ job.loaded \in 0 .. u
  <2>1. Directory(dir) /\ Len(dir) \in Nat /\ 2 <= Len(dir)
    BY Directories, Zenon DEF IInv, Types
  <2> QED
    BY <1>1, <1>2, <1>3, <2>1 DEF IInv, InMemory
<1>5. u \in 1 .. MaxParts /\ u \notin 1 .. Len(dir) - 1
  <2>1. /\ job.num \in Nat /\ Len(dir) \in Nat /\ 2 <= Len(dir) /\ Len(dir) < job.num
        /\ job.num <= MaxParts + 1
    BY <1>3, <1>4
  <2> QED
    BY <2>1, Bounds
<1> HIDE DEF u, pc
<1>6. pc \in {"dir", "load"} /\ (pc = "dir" => job.todo = {})
  BY DEF pc
<1>7. /\ job' \in Jobs /\ job'.pc = pc /\ job'.todo = job.todo /\ job'.loaded = job.loaded
      /\ job'.buf = job.buf /\ job'.changed = job.changed
      /\ job'.dir = job.dir /\ job'.num = job.num /\ job'.moved = job.moved
      /\ job'.missed = job.missed /\ job'.add = job.add /\ job'.del = job.del
  <2>1. pc \in {"next", "load", "upper", "dir"} /\ <<>> \in Seq(Strs)
    BY <1>6
  <2> QED
    BY <1>1, <1>3, <2>1, Zenon DEF Jobs
<1>8. job' # NoJob
  BY <1>6, <1>7, Idle
<1>9. /\ part' \in [1 .. MaxParts -> Seq(Strs)] /\ part'[u] = job.upper
      /\ \A m \in 1 .. MaxParts \ {u} : part'[m] = part[m]
  BY <1>1, <1>3, <1>5, Zenon
<1>10. Types'
  BY <1>1, <1>7, <1>9, Zenon DEF IInv, Types
<1>11. Known' = Known /\ Known = job.num
  BY <1>2, <1>7, <1>8 DEF Known
<1>12. \A m \in 1 .. u : File(m)' = File(m) /\ Content(m)' = Content(m)
  <2>1. ASSUME NEW m \in 1 .. u PROVE File(m)' = File(m)
    <3>1. m \in 1 .. MaxParts
      BY <1>5, Bounds
    <3> QED
      BY <1>1, <1>6, <1>7, <1>9, <3>1, Zenon DEF File, u
  <2> QED
    BY <1>1, <1>6, <1>7, <2>1, Zenon DEF Content
<1>13. Files'
  BY <1>1, <1>11, <1>12, Zenon DEF IInv, Files, u
<1>14. InMemory'
  BY <1>1, <1>2, <1>6, <1>7, Zenon DEF IInv, InMemory
<1>15. Buffer'
  <2>1. job.loaded # 0 => job.loaded \in 1 .. MaxParts \ {u}
    BY <1>4, <1>5, Bounds
  <2> QED
    BY <1>1, <1>2, <1>6, <1>7, <1>9, <2>1, Zenon DEF IInv, Buffer
<1>16. RemovedFirst' /\ Claimed' = Claimed /\ Pending' = Pending
  BY <1>1, <1>2, <1>7, <1>8, Zenon DEF IInv, RemovedFirst, Claimed, Added, Pending
<1>17. Present'
  BY <1>1, <1>11, <1>12, <1>16, Zenon DEF IInv, Present, u
<1>18. \A m \in 1 .. Len(dir) - 1 : part'[m] = part[m]
  <2>1. \A m \in 1 .. Len(dir) - 1 : m \in 1 .. MaxParts
    <3>1. Len(dir) \in Nat /\ job.num \in Nat /\ Len(dir) < job.num /\ job.num <= MaxParts + 1
      BY <1>3, <1>4
    <3> QED
      BY <3>1, Bounds
  <2> QED
    BY <1>5, <1>9, <2>1
<1>19. OnDisk'
  BY <1>1, <1>2, <1>7, <1>18 DEF IInv, OnDisk
<1>20. Ahead'
  <2>1. scan.on => \A k \in scan.pos .. Len(scan.dir) - 1 :
                     part'[scan.dir[k].num] = part[scan.dir[k].num]
    BY <1>18, ToRead, Zenon
  <2> QED
    BY <1>1, <1>2, <1>7, <2>1 DEF IInv, Ahead
<1>21. Room'
  <2>1. job.buf \in Seq(Strs) /\ Len(job.buf) \in Nat
    BY <1>2, Fields DEF IInv
  <2> QED
    BY <1>1, <1>2, <1>6, <1>7, <1>16 DEF IInv, Room
<1> QED
  BY <1>10, <1>13, <1>14, <1>15, <1>16, <1>17, <1>19, <1>20, <1>21, Zenon DEF IInv

\* stornpart(): what holds before it writes.
LEMMA Storing ==
  ASSUME IInv, Store
  PROVE  /\ job # NoJob /\ job.pc = "next" /\ job.changed /\ job \in Jobs /\ Shaped(job.buf)
         /\ job.num \in Nat /\ job.num <= MaxParts /\ Len(dir) \in Nat /\ Len(dir) <= job.num
         /\ job.loaded \in 1 .. job.num - 1 /\ job.loaded \in 1 .. MaxParts
         /\ Range(part[job.loaded]) \cap Names \subseteq Range(job.buf) \cup job.del
         /\ Known = job.num /\ \A m : File(m) = part[m]
         /\ \A m : Content(m) = Range(IF m = job.loaded THEN job.buf ELSE part[m])
         /\ part \in [1 .. MaxParts -> Seq(Strs)]
         /\ Cardinality(Pending) \in Nat /\ Cardinality(Pending) < Slack
         /\ job.missed \in Nat /\ Len(job.buf) \in Nat
         /\ ~crowded => Len(job.buf) + Cardinality(Pending) <= LMax + job.missed - 1
<1>1. job.pc = "next" /\ job.num <= MaxParts /\ job.changed
  BY Zenon DEF Store
<1>2. job # NoJob
  BY <1>1, Idle, Zenon
<1>3. job \in Jobs /\ job.num \in Nat /\ job.missed \in Nat /\ job.add \subseteq Names
  BY <1>2, Fields, Zenon DEF IInv
<1>4. Directory(dir) /\ Len(dir) \in Nat
  BY Directories, Zenon DEF IInv, Types
<1>5. /\ Len(dir) <= job.num /\ job.loaded \in 0 .. job.num - 1 /\ job.loaded # 0 /\ Shaped(job.buf)
  BY <1>1, <1>2, <1>3, <1>4 DEF IInv, InMemory
<1>6. job.loaded \in 1 .. job.num - 1 /\ job.loaded \in 1 .. MaxParts
  BY <1>1, <1>3, <1>5, Bounds
<1>7. Range(part[job.loaded]) \cap Names \subseteq Range(job.buf) \cup job.del
  BY <1>1, <1>2, <1>5, Zenon DEF IInv, Buffer
<1>8. /\ Known = job.num /\ \A m : File(m) = part[m]
      /\ \A m : Content(m) = Range(IF m = job.loaded THEN job.buf ELSE part[m])
  BY <1>1, <1>2, Zenon DEF Known, File, Content
<1>9. part \in [1 .. MaxParts -> Seq(Strs)]
  BY Zenon DEF IInv, Types
<1>10. /\ Cardinality(Pending) \in Nat /\ Cardinality(Pending) < Slack
       /\ ~crowded => Len(job.buf) + Cardinality(Pending) <= LMax + job.missed - 1
  BY <1>1, <1>2, <1>3, Finite, Zenon DEF IInv, Pending, Room
<1>11. Len(job.buf) \in Nat
  BY <1>5 DEF Shaped
<1> QED
  BY <1>1, <1>2, <1>3, <1>4, <1>5, <1>6, <1>7, <1>8, <1>9, <1>10, <1>11, Zenon

\* A part that is not too long.
LEMMA StoresWhole ==
  ASSUME IInv, Store, ~TooLong(job.buf)
  PROVE  IInv'
<1> DEFINE pc == IF job.todo = {} THEN "dir" ELSE "load"
           l == job.loaded
<1>1. /\ part' = [part EXCEPT ![l] = job.buf] /\ job' = [job EXCEPT !.pc = pc]
      /\ UNCHANGED <<dir, scan, names, risk, crowded, faults>>
  BY Zenon DEF Store
<1> HIDE DEF pc
<1>2. /\ job # NoJob /\ job.pc = "next" /\ job.changed /\ job \in Jobs /\ Shaped(job.buf)
      /\ job.num \in Nat /\ job.num <= MaxParts /\ Len(dir) \in Nat /\ Len(dir) <= job.num
      /\ l \in 1 .. job.num - 1 /\ l \in 1 .. MaxParts
      /\ Range(part[l]) \cap Names \subseteq Range(job.buf) \cup job.del
  BY Storing, Zenon
<1>3. /\ Known = job.num /\ \A m : File(m) = part[m]
      /\ \A m : Content(m) = Range(IF m = l THEN job.buf ELSE part[m])
      /\ part \in [1 .. MaxParts -> Seq(Strs)]
  BY Storing, Zenon
<1>4. pc \in {"dir", "load"} /\ (pc = "dir" => job.todo = {})
  BY DEF pc
<1>5. /\ job' \in Jobs /\ job'.pc = pc /\ job'.todo = job.todo /\ job'.loaded = l
      /\ job'.buf = job.buf /\ job'.changed = job.changed
      /\ job'.dir = job.dir /\ job'.num = job.num /\ job'.moved = job.moved
      /\ job'.missed = job.missed /\ job'.add = job.add /\ job'.del = job.del
  <2>1. pc \in {"next", "load", "upper", "dir"}
    BY <1>4
  <2> QED
    BY <1>1, <1>2, <2>1, Zenon DEF Jobs
<1>6. job' # NoJob
  BY <1>4, <1>5, Idle
<1>7. job.buf \in Seq(Strs)
  BY <1>2, Zenon DEF Shaped
<1> HIDE DEF l
<1>8. /\ part' \in [1 .. MaxParts -> Seq(Strs)]
      /\ \A m \in 1 .. MaxParts : part'[m] = IF m = l THEN job.buf ELSE part[m]
  BY <1>1, <1>2, <1>3, <1>7, Zenon
<1>9. \A m \in 1 .. job.num - 1 : m \in 1 .. MaxParts
  BY <1>2, Bounds
<1>10. /\ Known' = Known /\ Known = job.num
       /\ \A m \in 1 .. job.num - 1 : /\ File(m)' = IF m = l THEN job.buf ELSE part[m]
                                      /\ Content(m)' = Content(m)
  <2>1. Known' = Known /\ Known = job.num
    BY <1>3, <1>5, <1>6 DEF Known
  <2>2. ASSUME NEW m \in 1 .. job.num - 1
        PROVE  File(m)' = (IF m = l THEN job.buf ELSE part[m]) /\ Content(m)' = Range(File(m)')
    BY <1>4, <1>5, <1>8, <1>9 DEF File, Content
  <2> QED
    BY <1>3, <2>1, <2>2
<1>11. Types'
  BY <1>1, <1>5, <1>8, Zenon DEF IInv, Types
<1>12. Files'
  BY <1>1, <1>2, <1>3, <1>10, Zenon DEF IInv, Files
<1>13. InMemory'
  BY <1>1, <1>2, <1>4, <1>5, Zenon DEF IInv, InMemory, l
<1>14. Buffer'
  BY <1>2, <1>4, <1>5, <1>8, Zenon DEF Buffer
<1>15. RemovedFirst' /\ Claimed' = Claimed /\ Pending' = Pending
  BY <1>1, <1>2, <1>5, <1>6, Zenon DEF IInv, RemovedFirst, Claimed, Added, Pending
<1>16. Present'
  BY <1>1, <1>10, <1>15 DEF IInv, Present
<1>17. \A m \in 1 .. Len(dir) - 1 : /\ m \in 1 .. MaxParts
                                    /\ Range(part[m]) \cap Names \subseteq Range(part'[m]) \cup job.del
  <2>1. \A m \in 1 .. Len(dir) - 1 : m \in 1 .. MaxParts
    <3>1. Len(dir) \in Nat /\ job.num \in Nat /\ Len(dir) <= job.num /\ job.num <= MaxParts
      BY <1>2
    <3> QED
      BY <3>1, Bounds
  <2> QED
    BY <1>2, <1>8, <2>1, Zenon
<1>18. OnDisk'
  <2>1. names \subseteq Names
    BY Zenon DEF IInv, Types
  <2> QED
    BY <1>1, <1>2, <1>5, <1>17, <2>1 DEF IInv, OnDisk
<1>19. Ahead'
  <2>1. scan.on => scan.watch \in Names /\ (scan.watch \in job.del => scan.moved)
    BY <1>2, Idle, Zenon DEF IInv, Types, Scans, Ahead
  <2>2. ASSUME scan.on, ~scan.moved, NEW k \in scan.pos .. Len(scan.dir) - 1,
               scan.watch \in Range(part[scan.dir[k].num])
        PROVE  scan.watch \in Range(part'[scan.dir[k].num])
    BY <1>17, <2>1, <2>2, ToRead, Zenon
  <2> QED
    BY <1>1, <1>2, <1>5, <2>2, Zenon DEF IInv, Ahead
<1>20. Room'
  <2>1. /\ Cardinality(Pending) < Slack /\ Cardinality(Pending) \in Nat /\ job.missed \in Nat
        /\ ~crowded => Len(job.buf) + Cardinality(Pending) <= LMax + job.missed - 1
        /\ Len(job.buf) \in Nat
    BY Storing, Zenon
  <2>2. ~crowded => Len(job.buf) + Cardinality(Pending) <= LMax + job.missed - 0
    BY <2>1, Bounds
  <2> QED
    BY <1>1, <1>4, <1>5, <1>15, <2>1, <2>2, Zenon DEF Room
<1> QED
  BY <1>11, <1>12, <1>13, <1>14, <1>15, <1>16, <1>18, <1>19, <1>20, Zenon DEF IInv

\* A part that is split.
LEMMA StoresSplit ==
  ASSUME IInv, Store, TooLong(job.buf)
  PROVE  IInv'
<1> DEFINE l == job.loaded
           mid == Middle(job.buf)
           bound == Bang(Token(Line(job.buf, mid)))
           buf == nameinsert(job.buf, mid + 1, bound)
           lo == Lower(buf, mid)
           up == Upper(buf, mid)
           d == nladd(job.dir, bound, job.num)
<1>1. /\ part' = [part EXCEPT ![l] = lo]
      /\ job' = [job EXCEPT !.pc = "upper", !.buf = buf, !.upper = up,
                            !.dir = nladd(@, bound, job.num), !.num = @ + 1,
                            !.moved = @ \cup (Range(up) \cap Names)]
      /\ Moves(Range(up)) /\ crowded' = (crowded \/ TooLong(lo) \/ TooLong(up))
      /\ UNCHANGED <<dir, names, risk, faults>>
  BY Zenon DEF Store
<1>2. /\ job # NoJob /\ job.pc = "next" /\ job.changed /\ job \in Jobs /\ Shaped(job.buf)
      /\ job.num \in Nat /\ job.num <= MaxParts /\ Len(dir) \in Nat /\ Len(dir) <= job.num
      /\ l \in 1 .. job.num - 1 /\ l \in 1 .. MaxParts
      /\ Range(part[l]) \cap Names \subseteq Range(job.buf) \cup job.del
  BY Storing, Zenon
<1>3. /\ Known = job.num /\ \A m : File(m) = part[m]
      /\ \A m : Content(m) = Range(IF m = l THEN job.buf ELSE part[m])
      /\ part \in [1 .. MaxParts -> Seq(Strs)]
  BY Storing, Zenon
<1>4. /\ bound \in Strs /\ bound[1] <= Words /\ Shaped(buf) /\ Len(buf) = Len(job.buf) + 1
      /\ Shaped(lo) /\ Shaped(up) /\ Range(job.buf) \subseteq Range(buf)
      /\ Range(buf) = Range(lo) \cup Range(up)
  BY <1>2, Splits, Zenon
<1> HIDE DEF mid, bound, buf, lo, up
<1>5. Directory(d) /\ Len(d) = job.num + 1
  <2>1. Directory(job.dir) /\ Len(job.dir) = job.num
    BY <1>2, Zenon DEF IInv, InMemory
  <2> QED
    BY <1>4, <2>1, Adds, Zenon
<1>6. /\ buf \in Seq(Strs) /\ lo \in Seq(Strs) /\ up \in Seq(Strs) /\ d \in Seq(Entry)
  BY <1>4, <1>5, Directories, Zenon DEF Shaped
<1> HIDE DEF d, l
<1>7. /\ job' \in Jobs /\ job'.pc = "upper" /\ job'.todo = job.todo /\ job'.loaded = l
      /\ job'.buf = buf /\ job'.changed = job.changed /\ job'.upper = up
      /\ job'.dir = d /\ job'.num = job.num + 1 /\ job'.moved = job.moved \cup (Range(up) \cap Names)
      /\ job'.missed = job.missed /\ job'.add = job.add /\ job'.del = job.del
  <2>1. job.num + 1 \in Nat /\ job.moved \cup (Range(up) \cap Names) \in SUBSET Names
    BY <1>2 DEF Jobs
  <2>2. job' = [job EXCEPT !.pc = "upper", !.buf = buf, !.upper = up, !.dir = d,
                           !.num = job.num + 1, !.moved = job.moved \cup (Range(up) \cap Names)]
    BY <1>1, Zenon DEF d
  <2> QED
    BY <1>2, <1>6, <2>1, <2>2, Zenon DEF Jobs, l
<1>8. job' # NoJob
  BY <1>7, Idle
<1>9. /\ part' \in [1 .. MaxParts -> Seq(Strs)]
      /\ \A m \in 1 .. MaxParts : part'[m] = IF m = l THEN lo ELSE part[m]
  BY <1>1, <1>2, <1>3, <1>6, Zenon
<1>10. \A m \in 1 .. job.num : m \in 1 .. MaxParts
  BY <1>2, Bounds
<1>11. Known' = job.num + 1 /\ (job.num + 1) - 1 = job.num
       /\ \A m \in 1 .. job.num :
            /\ File(m)' = IF m = job.num THEN up ELSE IF m = l THEN lo ELSE part[m]
            /\ Content(m)' = Range(File(m)')
  <2>1. (job.num + 1) - 1 = job.num
    BY <1>2
  <2>2. Known' = job.num + 1
    BY <1>7, <1>8, Zenon DEF Known
  <2> QED
    BY <1>7, <1>9, <1>10, <2>1, <2>2, Zenon DEF File, Content
<1>12. Types'
  <2>1. scan' \in Scans \cup {NoScan}
    BY <1>1, Told DEF IInv
  <2>2. crowded' \in BOOLEAN
    BY <1>1 DEF TooLong
  <2> QED
    BY <1>1, <1>7, <1>9, <2>1, <2>2, Zenon DEF IInv, Types
<1>13. Files'
  <2> SUFFICES ASSUME NEW m \in 1 .. job.num
               PROVE  Shaped(File(m)') /\ (TooLong(File(m)') => crowded')
    BY <1>11 DEF Files, TooLong
  <2>1. CASE m = job.num \/ m = l
    BY <1>1, <1>4, <1>11, <2>1, Zenon
  <2>2. CASE ~(m = job.num \/ m = l)
    <3>1. m \in 1 .. Known - 1
      BY <1>2, <1>3, <2>2
    <3>2. File(m)' = File(m)
      BY <1>3, <1>11, <2>2, Zenon
    <3> QED
      BY <1>1, <3>1, <3>2, Zenon DEF IInv, Files
  <2> QED
    BY <2>1, <2>2, Zenon
<1>14. InMemory'
  <2>1. /\ job.num + 1 \in Len(dir) .. MaxParts + 1 /\ l \in 0 .. (job.num + 1) - 1 /\ l # 0
        /\ Len(dir) < job.num + 1 /\ l # (job.num + 1) - 1
    BY <1>2, Bounds
  <2>2. job.todo \subseteq Merged(job.add, job.del)
    BY <1>2, Zenon DEF IInv, InMemory
  <2> QED
    BY <1>1, <1>2, <1>4, <1>5, <1>7, <2>1, <2>2, Zenon DEF InMemory
<1>15. Buffer'
  BY <1>2, <1>4, <1>7, <1>9, Zenon DEF Buffer
<1>16. RemovedFirst' /\ Claimed' = Claimed /\ Pending' = Pending
  BY <1>1, <1>2, <1>7, <1>8, Zenon DEF IInv, RemovedFirst, Claimed, Added, Pending
<1>17. Present'
  <2> SUFFICES ASSUME NEW n \in Claimed \ risk
               PROVE  \E m \in 1 .. job.num : n \in Content(m)'
    BY <1>1, <1>11, <1>16, Zenon DEF Present
  <2>1. PICK m \in 1 .. job.num - 1 : n \in Content(m)
    BY <1>3, Zenon DEF IInv, Present
  <2>2. m \in 1 .. job.num /\ m # job.num /\ job.num \in 1 .. job.num
    BY <1>2, <2>1
  <2>3. CASE m # l
    <3>1. Content(m)' = Content(m)
      BY <1>3, <1>11, <2>2, <2>3, Zenon
    <3> QED
      BY <2>1, <2>2, <3>1, Zenon
  <2>4. CASE m = l
    <3>1. n \in Range(lo) \/ n \in Range(up)
      BY <1>3, <1>4, <2>1, <2>4, Zenon
    <3>2. PICK u \in 1 .. job.num : u = job.num
      BY <2>2, Zenon
    <3>3. Content(m)' = Range(lo) /\ Content(u)' = Range(up)
      BY <1>11, <2>2, <2>4, <3>2, Zenon
    <3> QED
      BY <2>2, <3>1, <3>2, <3>3, Zenon
  <2> QED
    BY <2>3, <2>4
<1>18. \A m \in 1 .. Len(dir) - 1 :
         Range(part[m]) \cap Names \subseteq Range(part'[m]) \cup job.del \cup Range(up)
  <2>1. \A m \in 1 .. Len(dir) - 1 : m \in 1 .. MaxParts
    <3>1. Len(dir) \in Nat /\ job.num \in Nat /\ Len(dir) <= job.num /\ job.num <= MaxParts
      BY <1>2
    <3> QED
      BY <3>1, Bounds
  <2>2. Range(part[l]) \cap Names \subseteq Range(lo) \cup Range(up) \cup job.del
    BY <1>2, <1>4, Zenon
  <2> QED
    BY <1>9, <2>1, <2>2, Zenon
<1>19. OnDisk'
  <2>1. names \subseteq Names
    BY DEF IInv, Types
  <2> SUFFICES ASSUME NEW n \in names \ (risk \cup job.add \cup job.del \cup job'.moved)
               PROVE  \E m \in 1 .. Len(dir) - 1 : n \in Range(part'[m])
    BY <1>1, <1>7, Zenon DEF OnDisk
  <2>2. n \in Names /\ n \notin Range(up) /\ n \notin job.del
    BY <1>7, <2>1, Zenon
  <2>3. PICK m \in 1 .. Len(dir) - 1 : n \in Range(part[m])
    BY <1>2, <1>7, Zenon DEF IInv, OnDisk
  <2> QED
    BY <1>18, <2>2, <2>3, Zenon
<1>20. Ahead'
  <2>1. /\ scan'.on = scan.on
        /\ scan.on => /\ scan'.dir = scan.dir /\ scan'.pos = scan.pos
                      /\ scan'.watch = scan.watch /\ scan'.got = scan.got /\ scan.watch \in Names
                      /\ scan'.moved = (scan.moved \/ scan.watch \in Range(up))
    BY <1>1, Told, Zenon DEF IInv
  <2>2. scan.on => (scan.watch \in job.del => scan.moved)
    BY <1>2, Zenon DEF IInv, Ahead
  <2>3. ASSUME scan.on, ~scan'.moved, NEW k \in scan.pos .. Len(scan.dir) - 1,
               scan.watch \in Range(part[scan.dir[k].num])
        PROVE  scan.watch \in Range(part'[scan.dir[k].num])
    <3>1. scan.dir[k].num \in 1 .. Len(dir) - 1
      BY <2>3, ToRead, Zenon
    <3>2. scan.watch \notin job.del /\ scan.watch \notin Range(up) /\ scan.watch \in Names
      BY <2>1, <2>2, <2>3, Zenon
    <3> QED
      BY <1>18, <2>3, <3>1, <3>2, Zenon
  <2> QED
    BY <1>1, <1>2, <1>7, <2>1, <2>3, Zenon DEF IInv, Ahead
<1>21. Room'
  <2>1. /\ Cardinality(Pending) < Slack /\ Cardinality(Pending) \in Nat /\ job.missed \in Nat
        /\ ~crowded => Len(job.buf) + Cardinality(Pending) <= LMax + job.missed - 1
        /\ Len(job.buf) \in Nat
    BY Storing, Zenon
  <2>2. ~crowded => Len(buf) + Cardinality(Pending) <= LMax + job.missed - 0
    BY <1>4, <2>1, Bounds
  <2> QED
    BY <1>1, <1>7, <1>16, <2>1, <2>2, Zenon DEF Room
<1> QED
  BY <1>12, <1>13, <1>14, <1>15, <1>16, <1>17, <1>19, <1>20, <1>21 DEF IInv

LEMMA Stutters ==
  ASSUME IInv, UNCHANGED vars
  PROVE  IInv'
<1>1. scan' \in Scans \cup {NoScan}
  BY DEF IInv, Types, vars
<1>2. Ahead'
  BY Zenon DEF IInv, Ahead, vars
<1> QED
  BY <1>1, <1>2, Scanning DEF vars

\* The invariant is inductive.
THEOREM Invariant == Spec => []IInv
<1>1. IInv /\ [Next]_vars => IInv'
  <2> SUFFICES ASSUME IInv, [Next]_vars PROVE IInv'
    OBVIOUS
  <2>1. CASE \E c \in Calls : Begin(c.add, c.del)
    BY <2>1, Begins, Zenon
  <2>2. CASE Modify
    BY <2>2, Modifies
  <2>3. CASE Load
    BY <2>3, Loads
  <2>4. CASE LoadFails
    BY <2>4, LoadsNot
  <2>5. CASE Store
    BY <2>5, StoresWhole, StoresSplit, Zenon
  <2>6. CASE StoreUpper
    BY <2>6, StoresUpper
  <2>7. CASE Finish
    BY <2>7, Finishes
  <2>8. CASE Die
    BY <2>8, Dies
  <2>9. CASE \E n \in names \cap Watched : ScanDir(n)
    BY <2>9, ScansDir, Zenon
  <2>10. CASE ScanPart
    BY <2>10, ScansPart
  <2>11. CASE ScanEnd
    BY <2>11, ScansEnd
  <2>12. CASE UNCHANGED vars
    BY <2>12, Stutters
  <2> QED
    BY <2>1, <2>2, <2>3, <2>4, <2>5, <2>6, <2>7, <2>8, <2>9, <2>10, <2>11, <2>12, Zenon DEF Next
<1> QED
  BY <1>1, Starts, PTL DEF Spec

\* The directory on disk is in order, lists parts that exist, and ends with
\* the sorthigh line, whatever modnames() was interrupted at; each part has
\* the two lines that initnmdir() and stornpart() put around the entries.
THEOREM TypeCorrect == Spec => []TypeOK
<1>1. IInv => TypeOK
  <2> SUFFICES ASSUME IInv PROVE TypeOK
    BY Zenon
  <2>1. Directory(dir) /\ Len(dir) \in Nat /\ names \subseteq Names /\ risk \subseteq Names
    BY Directories, Zenon DEF IInv, Types
  <2>2. dir[Len(dir)] = [str |-> sorthigh, num |-> 0]
    BY <2>1, Zenon DEF Directory
  <2>3. ASSUME NEW k \in 1 .. Len(dir) - 1
        PROVE  /\ ~Less(dir[k + 1].str, dir[k].str)
               /\ dir[k].num \in 1 .. Len(dir) - 1 /\ Len(Lines(k)) >= 2
    <3>1. ~Less(dir[k + 1].str, dir[k].str) /\ dir[k].num \in 1 .. Len(dir) - 1
      BY <2>1, Zenon DEF Directory
    <3>2. dir[k].num \in 1 .. Known - 1 /\ File(dir[k].num) = part[dir[k].num]
      <4>1. CASE job = NoJob
        BY <3>1, <4>1, Idle, Zenon DEF Known, File
      <4>2. CASE job # NoJob
        <5>0. job.num \in Nat
          BY <4>2, Fields DEF IInv
        <5>1. Len(dir) <= job.num /\ (job.pc = "upper" => Len(dir) < job.num)
          BY <2>1, <4>2, <5>0 DEF IInv, InMemory
        <5>2. dir[k].num \in 1 .. job.num - 1 /\ (job.pc = "upper" => dir[k].num # job.num - 1)
          BY <2>1, <3>1, <5>0, <5>1
        <5> QED
          BY <4>2, <5>2, Zenon DEF Known, File
      <4> QED
        BY <4>1, <4>2, Zenon
    <3>3. Shaped(part[dir[k].num])
      BY <3>2 DEF IInv, Files
    <3> QED
      BY <3>1, <3>3 DEF Shaped, Lines
  <2> QED
    BY <2>1, <2>2, <2>3, Zenon DEF TypeOK
<1> QED
  BY <1>1, Invariant, PTL

\* modnames() loses no entry: what was added and not removed since is in a part
\* that the directory on disk lists, through all splits and however the lists
\* of two calls are merged, unless a process died or passed it over.
THEOREM NothingLost == Spec => []Kept
<1>1. IInv => Kept
  <2> SUFFICES ASSUME IInv, job = NoJob, NEW n \in names \ risk PROVE n \in Held
    BY DEF Kept
  <2>1. PICK m \in 1 .. Len(dir) - 1 : n \in Range(part[m])
    BY Idle, Zenon DEF IInv, Present, Claimed, Known, Content, File
  <2>2. PICK k \in 1 .. Len(dir) - 1 : dir[k].num = m
    BY Directories, Zenon DEF IInv, Types
  <2>3. n \in Names
    BY DEF IInv, Types
  <2> QED
    <3>1. n \in Range(Lines(k))
      BY <2>1, <2>2 DEF Lines
    <3> QED
      BY <2>2, <2>3, <3>1, Zenon DEF Held
<1> QED
  BY <1>1, Invariant, PTL

\* A user who is on the list while nextuser() reads the parts is seen by it,
\* though modnames() rewrites and splits parts between the reads, unless it
\* moved the user's own entry or a death hid that.
THEOREM ReaderSees == Spec => []ScanSees
<1>1. IInv => ScanSees
  <2> SUFFICES ASSUME IInv, scan.on, AtEnd
               PROVE  scan.got \/ scan.moved \/ scan.watch \in risk
    BY Zenon DEF ScanSees
  <2>1. Directory(scan.dir) /\ scan.pos \in 1 .. Len(scan.dir)
    BY DEF IInv, Ahead
  <2>2. /\ Len(scan.dir) \in Nat
        /\ \A k \in 1 .. Len(scan.dir) - 1 : scan.dir[k].num \in 1 .. Len(scan.dir) - 1
    BY <2>1, Directories, Zenon
  <2>3. scan.pos = Len(scan.dir)
    <3>1. scan.pos \notin 1 .. Len(scan.dir) - 1
      BY <2>2 DEF AtEnd
    <3> QED
      BY <2>1, <2>2, <3>1
  <2>4. scan.pos .. Len(scan.dir) - 1 = {}
    BY <2>2, <2>3
  <2> QED
    BY <2>4 DEF IInv, Ahead
<1> QED
  BY <1>1, Invariant, PTL

\* As long as no split left a part longer than stornpart() allows, the buffer
\* of modnames() has room for all that nameinsert() puts into it, with a line
\* more for each part that could not be locked.
THEOREM BufferFits == Spec => []FitsBuffer
<1>1. IInv => FitsBuffer
  <2> SUFFICES ASSUME IInv, job # NoJob, ~crowded PROVE Len(job.buf) <= LMax + job.missed
    BY DEF FitsBuffer
  <2>1. job.missed \in Nat /\ Len(job.buf) \in Nat /\ Cardinality(Pending) \in Nat
    BY Fields, Finite DEF IInv, Pending
  <2>2. Len(job.buf) + Cardinality(Pending)
          <= LMax + job.missed - (IF job.pc = "next" THEN 1 ELSE 0)
    BY Zenon DEF IInv, Room
  <2>3. CASE job.pc = "next"
    BY <2>1, <2>2, <2>3, Bounds
  <2>4. CASE job.pc # "next"
    BY <2>1, <2>2, <2>4, Bounds
  <2> QED
    BY <2>3, <2>4
<1> QED
  BY <1>1, Invariant, PTL

=============================================================================
