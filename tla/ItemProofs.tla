----------------------------- MODULE ItemProofs -----------------------------
(***************************************************************************)
(* More proofs about Conference, for any number of subservers, operations, *)
(* items and responses: what becomes of full, of frozen and of deleted     *)
(* items, and of attachments.                                              *)
(*                                                                         *)
(* ConferenceProofs says who is where with which number.  To that are      *)
(* added the locks on partfiles, and the histories: an item is frozen      *)
(* unless it is in lapsed, and gone unless it is in stray.                 *)
(***************************************************************************)
EXTENDS ConferenceProofs

\* Who is about to write a partfile, or to alter its header, has it locked, and
\* has read what is in it unless it let go of it in between.
Header(p) ==
  /\ pc[p] \in {"store", "rewrite", "frzset"} => xcrf[job[p].item] = p
  /\ pc[p] = "store" => job[p].buf = part[job[p].item]

\* Without deaths an item that is not yet counted has no partfile, except
\* while createitem is at work.
Unborn ==
  ~Crashes => \A i \in Items : i > master.items /\ part[i] # Absent =>
    i = master.items + 1 /\ \E p \in Proc : pc[p] = "publish"

\* Item i is full and frozen, or about to be.  Those past the check in
\* a_add_resp are the ones that may still add to it.
Filling(i) ==
  {p \in Proc : job[p].op \in AddOps /\ job[p].item = i /\ pc[p] \in {"master", "counts"}}
Freezing(i) == \E p \in Proc : pc[p] = "full" /\ job[p].item = i
Frozen ==
  \A i \in Items : i <= master.items /\ ~Deleted(master, i) /\ i \notin lapsed =>
    /\ master.responses[i] + Cardinality(Filling(i)) < FreezeAt + Cardinality(Proc)
    /\ master.responses[i] >= FreezeAt =>
         part[i].froz = 2 \/ (master.responses[i] = FreezeAt /\ Freezing(i))

\* An item is gone, or being deleted.
Deleting(p, i) ==
  /\ job[p].op = "zap" /\ job[p].item = i
  /\ \/ pc[p] = "unlock"
     \/ pc[p] = "kill" /\ \A r \in Nums : <<i, r>> \in attach => r \in job[p].todo
Gone ==
  \A i \in Items : i <= master.items /\ Deleted(master, i) /\ i \notin stray =>
    \/ part[i] = Absent /\ \A r \in Nums : <<i, r>> \notin attach
    \/ \E p \in Proc : Deleting(p, i)

-----------------------------------------------------------------------------
(* The lock on a partfile.                                                 *)

Latches == xcrf \in [Items -> Proc \cup {Nobody}] /\ \A p \in Proc : Header(p)

\* Nobody takes the lock of another, or writes a partfile that another has
\* locked.
Latch(p) ==
  /\ xcrf' \in [Items -> Proc \cup {Nobody}]
  /\ \A i \in Items : xcrf'[i] = xcrf[i] \/ {xcrf[i], xcrf'[i]} \subseteq {p, Nobody}
  /\ \A i \in Items : part'[i] = part[i] \/ xcrf[i] \in {p, Nobody}

LEMMA Latching ==
  ASSUME IInv, Latches, NEW p \in Proc, Moves(p)
  PROVE  Latch(p)
<1> DEFINE i == job[p].item
<1>0. /\ i \in Items /\ part \in [Items -> Parts \cup {Absent}] /\ (pc[p] = "counts" => mem[p] = master)
      /\ xcrf \in [Items -> Proc \cup {Nobody}] /\ Header(p)
  BY Known DEF Facts, Own, Knowing, Latches
<1>1. /\ xcrf' \in [Items -> Proc \cup {Nobody}]
      /\ \A k \in Items : xcrf'[k] = xcrf[k] \/ {xcrf[k], xcrf'[k]} \subseteq {p, Nobody}
  <2>1. CASE Crash(p)
    BY <1>0, <2>1 DEF Crash
  <2>2. CASE \E o \in {p, Nobody} : xcrf[i] \in {p, Nobody} /\ xcrf' = [xcrf EXCEPT ![i] = o]
    <3>1. PICK o \in {p, Nobody} : xcrf[i] \in {p, Nobody} /\ xcrf' = [xcrf EXCEPT ![i] = o]
      BY <2>2, Zenon
    <3> QED
      BY <1>0, <3>1
  <2>3. CASE Load(p) \/ Relock(p) \/ FreezeLock(p)
    BY <2>2, <2>3, Zenon DEF Load, Relock, FreezeLock
  <2>4. CASE Split(p) \/ Store(p) \/ FreezeSet(p)
    <3>1. pc[p] \in {"store", "rewrite", "frzset"} /\ xcrf' = [xcrf EXCEPT ![i] = Nobody]
      BY <2>4, Zenon DEF Split, Store, FreezeSet
    <3> QED
      BY <1>0, <2>2, <3>1, Zenon DEF Header
  <2> QED
    BY <1>0, <2>1, <2>3, <2>4, Changes, Zenon
<1>2. ASSUME NEW k \in Items PROVE part'[k] = part[k] \/ xcrf[k] \in {p, Nobody}
  <2>2. CASE Full(p) \/ KillParts(p)
    BY <1>0, <2>2 DEF Full, KillParts
  <2>3. CASE CreatePart(p)
    BY <1>0, <2>3 DEF CreatePart
  <2>4. CASE Store(p)
    BY <1>0, <2>4, Zenon DEF Store, Header
  <2>5. CASE FreezeSet(p)
    BY <1>0, <2>5 DEF FreezeSet, Header
  <2> QED
    BY <1>0, <2>2, <2>3, <2>4, <2>5, Changes, Zenon
<1> QED
  BY <1>1, <1>2 DEF Latch

\* Who writes a partfile has it locked, and has read what is in it.
LEMMA LatchesKept ==
  ASSUME IInv, Latches, NEW p \in Proc, Moves(p)
  PROVE  Latches'
<1>0. Facts(p) /\ Frame(p) /\ Latch(p)
  BY Known, Framed, Latching
<1>1. ASSUME NEW q \in Proc \ {p} PROVE Header(q)'
  <2>1. pc'[q] = pc[q] /\ job'[q] = job[q] /\ job[q].item \in Items /\ Header(q) /\ Nobody \notin Proc
    BY <1>0 DEF Frame, Facts, Latches, Jobs
  <2> QED
    BY <1>0, <2>1 DEF Header, Latch
<1>2. Header(p)'
  <2>0. Arrival(p, pc'[p]) /\ xcrf \in [Items -> Proc \cup {Nobody}]
    BY <1>0, Arrivals DEF Facts, Latches
  <2>1. CASE Load(p)
    <3>1. pc'[p] = "store" /\ job'[p].item = job[p].item /\ job'[p].buf = part[job[p].item]
      BY <1>0, <2>1 DEF Facts, Load, Goto, Jobs
    <3>2. part' = part /\ xcrf'[job[p].item] = p
      BY <1>0, <2>0, <2>1 DEF Facts, Load, files
    <3> QED
      BY <3>1, <3>2 DEF Header
  <2>2. CASE Relock(p)
    BY <1>0, <2>0, <2>2 DEF Facts, Relock, Goto, Header
  <2>3. CASE FreezeLock(p)
    BY <1>0, <2>0, <2>3 DEF Facts, FreezeLock, Goto, Header
  <2>4. CASE pc'[p] \notin {"store", "rewrite", "frzset"}
    BY <2>4, Zenon DEF Header
  <2> QED
    BY <2>0, <2>1, <2>2, <2>3, <2>4, Zenon DEF Arrival
<1> QED
  BY <1>0, <1>1, <1>2, Zenon DEF Latches, Latch

-----------------------------------------------------------------------------
(* Types.                                                                  *)

\* What is used of the sizes of sets of subservers; it holds because there are
\* finitely many of them.
Sized ==
  \A S, T \in SUBSET Proc :
    /\ Cardinality(S) \in Nat /\ Cardinality(S) <= Cardinality(Proc)
    /\ T \subseteq S => Cardinality(T) <= Cardinality(S)
    /\ \A x : T \subseteq S \cup {x} => Cardinality(T) <= Cardinality(S) + 1
    /\ \A x \in S : T \subseteq S \ {x} => Cardinality(T) + 1 <= Cardinality(S)

LEMMA Sizes ==
  ASSUME Sized, NEW S \in SUBSET Proc, NEW T \in SUBSET Proc
  PROVE  /\ Cardinality(S) \in Nat /\ Cardinality(T) \in Nat /\ Cardinality(Proc) \in Nat
         /\ Cardinality(S) <= Cardinality(Proc)
         /\ T \subseteq S => Cardinality(T) <= Cardinality(S)
         /\ \A x : T \subseteq S \cup {x} => Cardinality(T) <= Cardinality(S) + 1
         /\ \A x \in S : T \subseteq S \ {x} => Cardinality(T) + 1 <= Cardinality(S)
<1>1. Proc \in SUBSET Proc
  OBVIOUS
<1> QED
  BY <1>1 DEF Sized

\* A change to one field keeps the type of job.
JobKept == job' \in [Proc -> JobType]
LEMMA JobTypes ==
  ASSUME job \in [Proc -> JobType], NEW p \in Proc
  PROVE  /\ \A b \in BOOLEAN : job' = [job EXCEPT ![p].note = b] => JobKept
         /\ \A t \in SUBSET Nums : job' = [job EXCEPT ![p].todo = t] => JobKept
         /\ \A o \in {"annotate", "backout"} : job' = [job EXCEPT ![p].op = o] => JobKept
         /\ \A h \in 0 .. 2 : job' = [job EXCEPT ![p].head = h] => JobKept
         /\ \A r \in Nums : job' = [job EXCEPT ![p].resp = r] => JobKept
         /\ \A i \in Items : job' = [job EXCEPT ![p].item = i] => JobKept
         /\ \A b \in PartType \cup {Absent} : job' = [job EXCEPT ![p].buf = b] => JobKept
         /\ \A j \in JobType : job' = [job EXCEPT ![p] = j] => JobKept
  BY DEF JobType, JobKept

\* Who asks for a number finds one that the model has room for.
LEMMA RoomToCount ==
  ASSUME Sized, IInv, TInv, NEW p \in Proc, Count(p)
  PROVE  master.responses[job[p].item] + 1 \in Nums
<1> DEFINE i == job[p].item
<1>1. /\ i \in Items /\ pc[p] = "counts" /\ job[p].op \in AddOps /\ mem[p] = master
      /\ ~Deleted(master, i) /\ master.responses[i] \in Int
  BY Known DEF Facts, Count, Own, Knowing, AddOps, Masters
<1>2. p \in Asking(i)
  BY <1>1 DEF Asking
<1>3. Asking(i) \in SUBSET Proc /\ {} \in SUBSET Proc /\ {} \subseteq Asking(i) \ {p}
  BY Zenon DEF Asking
<1>4. /\ Cardinality(Asking(i)) \in Nat /\ Cardinality({}) \in Nat
      /\ Cardinality({}) + 1 <= Cardinality(Asking(i))
  <2> HIDE DEF i
  <2>1. \A x \in Asking(i) : {} \subseteq Asking(i) \ {x} => Cardinality({}) + 1 <= Cardinality(Asking(i))
    BY <1>3, Sizes, Zenon
  <2>2. Cardinality(Asking(i)) \in Nat /\ Cardinality({}) \in Nat
    BY <1>3, Sizes, Zenon
  <2> QED
    BY <1>2, <1>3, <2>1, <2>2, Zenon
<1>5. master.responses[i] + Cardinality(Asking(i)) <= MaxResp
  BY <1>1 DEF TInv, Fits
<1> QED
  BY <1>1, <1>4, <1>5, Small, SMTT(30) DEF Nums, Deleted

\* Jobs.
LEMMA JobsKept ==
  ASSUME Sized, IInv, TInv, NEW p \in Proc, Moves(p)
  PROVE  JobKept
<1> DEFINE i == job[p].item
<1>0. /\ job \in [Proc -> JobType] /\ job[p] \in JobType /\ i \in Items /\ Knowing(p)
      /\ part \in [Items -> PartType \cup {Absent}] /\ NoJob \in JobType
  BY Known, Small DEF Facts, Own, TInv, Kinds, JobType
<1>a. CASE job' = job
  BY <1>0, <1>a DEF JobKept
<1>b. CASE Return(p)
  BY <1>0, <1>b, JobTypes, Zenon DEF Return
<1>1. CASE Asks(p)
  <2>1. PICK op \in Ops, k \in Items, r \in Nums :
          job' = [job EXCEPT ![p] = [NoJob EXCEPT !.op = op, !.item = k, !.resp = r]]
    BY <1>1, Zenon DEF Asks, Begin
  <2>2. op \in AllOps
    BY ConferenceAssumption
  <2>3. [NoJob EXCEPT !.op = op, !.item = k, !.resp = r] \in JobType
    BY <1>0, <2>2, Zenon DEF JobType
  <2> QED
    BY <1>0, <2>1, <2>3, JobTypes, Zenon
<1>2. CASE Forget(p) \/ Crash(p)
  BY <1>2, <1>a, <1>b, Zenon DEF Forget, Crash
<1>3. CASE Check(p)
  <2>1. CASE Look(p)
    <3>1. Return(p) \/ \E b \in BOOLEAN : job' = [job EXCEPT ![p].note = b]
      BY <2>1, Zenon DEF Look
    <3> QED
      BY <1>0, <1>b, <3>1, JobTypes, Zenon
  <2>2. CASE Read(p)
    <3>1. Return(p) \/ job' = job \/ (Has(i, job[p].resp) /\ job' = [job EXCEPT ![p].head = part[i].froz])
      BY <2>2, Zenon DEF Read
    <3>2. Has(i, job[p].resp) => part[i].froz \in 0 .. 2
      BY <1>0 DEF Has, PartType
    <3> QED
      BY <1>0, <1>a, <1>b, <3>1, <3>2, JobTypes, Zenon
  <2>3. CASE Room(p) \/ Peek(p)
    BY <2>3, <1>a, <1>b, Zenon DEF Room, Peek
  <2> QED
    BY <1>3, <2>1, <2>2, <2>3, Zenon DEF Check
<1>4. CASE Master(p)
  <2>1. CASE LockMaster(p) \/ Full(p) \/ Publish(p) \/ Mark(p) \/ SetAttr(p)
    BY <2>1, <1>a, Zenon DEF LockMaster, Full, Publish, Mark, SetAttr
  <2>2. CASE Count(p)
    <3>1. master.responses[i] + 1 \in Nums
      BY <2>2, RoomToCount
    <3>2. mem[p] = master /\ job' = [job EXCEPT ![p].resp = mem[p].responses[i] + 1]
      BY <1>0, <2>2 DEF Count, Knowing
    <3> QED
      BY <1>0, <3>1, <3>2, JobTypes, Zenon
  <2>3. CASE Refused(p)
    <3>1. Return(p) \/ \E r \in Nums : job' = [job EXCEPT ![p].resp = r]
      BY <2>3, Zenon DEF Refused
    <3> QED
      BY <1>0, <1>b, <3>1, JobTypes, Zenon
  <2>4. CASE CreatePart(p)
    <3>1. \E k \in Items : job' = [job EXCEPT ![p].item = k]
      BY <2>4, Zenon DEF CreatePart
    <3> QED
      BY <1>0, <3>1, JobTypes, Zenon
  <2>5. CASE UnlockMaster(p)
    <3>1. \/ Return(p) \/ job' = job
          \/ job' = [job EXCEPT ![p].todo = {r \in Nums : <<i, r>> \in attach}]
      BY <2>5, Zenon DEF UnlockMaster
    <3>2. {r \in Nums : <<i, r>> \in attach} \in SUBSET Nums
      BY Zenon
    <3> QED
      BY <1>0, <1>a, <1>b, <3>1, <3>2, JobTypes, Zenon
  <2> QED
    BY <1>4, <2>1, <2>2, <2>3, <2>4, <2>5, Zenon DEF Master
<1>5. CASE Directory(p)
  <2>1. CASE LockDir(p) \/ Split(p) \/ Relock(p) \/ KillParts(p)
    BY <2>1, <1>a, Zenon DEF LockDir, Split, Relock, KillParts
  <2>2. CASE Load(p) \/ Store(p)
    <3>1. job' = [job EXCEPT ![p].buf = part[i]] \/ job' = [job EXCEPT ![p].buf = Absent]
      BY <2>2, Zenon DEF Load, Store
    <3>2. part[i] \in PartType \cup {Absent}
      BY <1>0
    <3> QED
      BY <1>0, <3>1, <3>2, JobTypes, Zenon
  <2>3. CASE UnlockDir(p)
    BY <2>3, <1>a, <1>b, Zenon DEF UnlockDir
  <2>4. CASE KillAttach(p)
    <3>1. PICK r : job' = [job EXCEPT ![p].todo = @ \ {r}]
      BY <2>4, Zenon DEF KillAttach
    <3>2. job[p].todo \ {r} \in SUBSET Nums
      BY <1>0 DEF JobType
    <3> QED
      BY <1>0, <3>1, <3>2, JobTypes, Zenon
  <2> QED
    BY <1>5, <2>1, <2>2, <2>3, <2>4, Zenon DEF Directory
<1>6. CASE Attachment(p)
  <2>1. CASE LockAttach(p)
    BY <2>1, <1>a, Zenon DEF LockAttach
  <2>2. CASE Copy(p)
    BY <1>0, <2>2, JobTypes, Zenon DEF Copy
  <2>3. CASE Again(p)
    <3>1. PICK b \in BOOLEAN : job' = [job EXCEPT ![p].note = b]
      BY <2>3, Zenon DEF Again
    <3> QED
      BY <1>0, <3>1, JobTypes, Zenon
  <2>4. CASE KillAttachment(p) \/ UnlockAttach(p)
    BY <2>4, <1>b, Zenon DEF KillAttachment, UnlockAttach
  <2> QED
    BY <1>6, <2>1, <2>2, <2>3, <2>4, Zenon DEF Attachment
<1>7. CASE FreezeLock(p) \/ FreezeSet(p)
  BY <1>7, <1>a, <1>b, Zenon DEF FreezeLock, FreezeSet
<1> QED
  BY <1>1, <1>2, <1>3, <1>4, <1>5, <1>6, <1>7, Zenon DEF Moves, Step

\* The master file and the copies of it.
LEMMA MastersKept ==
  ASSUME Sized, IInv, TInv, NEW p \in Proc, Moves(p)
  PROVE  master' \in MasterType /\ mem' \in [Proc -> MasterType \cup {NoMaster}]
<1> DEFINE i == job[p].item
<1>0. /\ i \in Items /\ Slots \in Nat /\ MaxResp \in Nat /\ Nums = 0 .. MaxResp /\ Items = 1 .. Slots
      /\ master \in MasterType /\ mem \in [Proc -> MasterType \cup {NoMaster}]
  BY Known, Small, Zenon DEF Facts, TInv, Kinds, Nums, Items
<1>1. /\ master' \in Masters /\ mem' \in [Proc -> Masters \cup {NoMaster}]
      /\ master'.items \in 0 .. Slots
      /\ \A q \in Proc \ {p} : mem'[q] = mem[q]
  BY <1>0, Framed DEF Frame, Shared, Masters
<1>2. \A k \in Items : master'.responses[k] \in -1 .. MaxResp
  <2> DEFINE f == master.responses
             R == -1 .. MaxResp
  <2>1. f \in [Items -> R] /\ 0 \in R /\ -1 \in R
    BY <1>0 DEF MasterType
  <2>0. ASSUME NEW v \in R, master'.responses = [f EXCEPT ![i] = v], NEW k \in Items
        PROVE  master'.responses[k] \in R
    <3> HIDE DEF R
    <3> QED
      BY <1>0, <2>1, <2>0
  <2>2. CASE Count(p) /\ master'.responses = [f EXCEPT ![i] = @ + 1]
    <3>1. f[i] + 1 \in 0 .. MaxResp
      BY <1>0, <2>2, RoomToCount, Zenon
    <3>2. f[i] + 1 \in R
      BY <1>0, <3>1
    <3> QED
      BY <2>0, <2>2, <3>2, Zenon
  <2>3. CASE master'.responses \in {[f EXCEPT ![i] = 0], [f EXCEPT ![i] = -1], f}
    BY <2>0, <2>1, <2>3, Zenon
  <2> QED
    BY <2>2, <2>3, Rewriting, Zenon DEF Rewrite
<1>3. master' \in MasterType
  BY <1>1, <1>2 DEF Masters, MasterType
<1>4. mem'[p] \in MasterType \cup {NoMaster}
  <2>1. CASE mem'[p] \in {mem[p], NoMaster, master'}
    BY <1>0, <1>3, <2>1
  <2>2. CASE CreatePart(p) /\ mem'[p] = [master EXCEPT !.items = master.items + 1,
                                                       !.responses[master.items + 1] = 0]
    <3>1. master.items + 1 \in Items
      BY Known, <2>2 DEF CreatePart, Facts, Own, Knowing
    <3> DEFINE k == master.items + 1
    <3>2. k \in Items /\ k \in 0 .. Slots
      BY <1>0, <3>1
    <3> HIDE DEF k
    <3>3. [master EXCEPT !.items = k, !.responses[k] = 0] \in MasterType
      <4>1. [master.responses EXCEPT ![k] = 0] \in [Items -> -1 .. MaxResp]
        BY <1>0, <3>2 DEF MasterType
      <4> QED
        BY <1>0, <3>2, <4>1, Zenon DEF MasterType
    <3> QED
      BY <2>2, <3>3 DEF k
  <2> QED
    BY <2>1, <2>2, Remembers
<1>5. mem' \in [Proc -> MasterType \cup {NoMaster}]
  <2>1. \A q \in Proc : mem'[q] \in MasterType \cup {NoMaster}
    BY <1>0, <1>1, <1>4
  <2> QED
    BY <1>1, <2>1
<1> QED
  BY <1>3, <1>5

\* Partfiles, attachments, locks, the number of operations.
LEMMA FilesKept ==
  ASSUME IInv, TInv, NEW p \in Proc, Moves(p)
  PROVE  /\ part' \in [Items -> PartType \cup {Absent}]
         /\ attach' \subseteq Items \X Nums
         /\ xarf' \in [Items \X Nums -> Proc \cup {Nobody}]
         /\ jobs' \in 0 .. MaxJobs
<1> DEFINE i == job[p].item
           r == job[p].resp
<1>0. /\ i \in Items /\ r \in Nums /\ <<i, r>> \in Items \X Nums /\ job[p] \in JobType
      /\ part \in [Items -> PartType \cup {Absent}] /\ Absent \notin PartType
      /\ attach \subseteq Items \X Nums
      /\ xarf \in [Items \X Nums -> Proc \cup {Nobody}]
      /\ jobs \in 0 .. MaxJobs /\ MaxJobs \in Nat /\ NewItem \in PartType
      /\ (pc[p] = "counts" => mem[p] = master)
  BY Known, Small DEF Facts, Own, Knowing, TInv, Kinds, JobType
<1>1. part' \in [Items -> PartType \cup {Absent}]
  <2>0. ASSUME NEW v \in PartType \cup {Absent}, NEW k \in Items, part' = [part EXCEPT ![k] = v]
        PROVE  part' \in [Items -> PartType \cup {Absent}]
    BY <1>0, <2>0
  <2>a. ASSUME part[i] # Absent, NEW f \in 0 .. 2
        PROVE  [part[i] EXCEPT !.froz = f] \in PartType \cup {Absent}
    BY <1>0, <2>a, Zenon DEF PartType
  <2>1. CASE Full(p)
    <3>1. part[i] \in PartType \cup {Absent}
      BY <1>0
    <3>2. \/ part' = [part EXCEPT ![i] = part[i]]
          \/ part[i] # Absent /\ part' = [part EXCEPT ![i] = [part[i] EXCEPT !.froz = 2]]
      BY <2>1, Zenon DEF Full, Has
    <3>3. 2 \in 0 .. 2
      OBVIOUS
    <3> QED
      BY <1>0, <2>0, <2>a, <3>1, <3>2, <3>3, Zenon
  <2>2. CASE CreatePart(p)
    BY <1>0, <2>0, <2>2, Zenon DEF CreatePart
  <2>3. CASE Store(p)
    <3> DEFINE buf == IF job[p].buf = Absent THEN [NewItem EXCEPT !.texts = {}] ELSE job[p].buf
               new == [texts |-> buf.texts \cup {r},
                       froz |-> IF r = 0 THEN job[p].head ELSE buf.froz,
                       info |-> (buf.info \ {r}) \cup (IF job[p].note THEN {r} ELSE {})]
    <3>1. buf \in PartType
      BY <1>0 DEF PartType, JobType
    <3>2. part' = [part EXCEPT ![i] = new]
      BY <2>3, Zenon DEF Store
    <3> HIDE DEF buf
    <3>3. new \in PartType
      BY <1>0, <3>1 DEF PartType, JobType
    <3> QED
      BY <1>0, <2>0, <3>2, <3>3, Zenon
  <2>4. CASE KillParts(p)
    BY <1>0, <2>0, <2>4, Zenon DEF KillParts
  <2>5. CASE FreezeSet(p)
    <3>1. CASE part' = part
      BY <1>0, <3>1
    <3>2. CASE Has(i, 0)
      <4>1. part[i] \in PartType /\ part[i] # Absent /\ part[i].froz \in 0 .. 2
        BY <1>0, <3>2 DEF Has, PartType
      <4> DEFINE f == IF job[p].op = "freeze" /\ part[i].froz = 0 THEN 1
                      ELSE IF job[p].op = "thaw" /\ part[i].froz = 1 THEN 0
                      ELSE part[i].froz
      <4>2. f \in 0 .. 2
        BY <4>1, SMTT(30)
      <4>3. part' = [part EXCEPT ![i] = [part[i] EXCEPT !.froz = f]]
        BY <1>0, <2>5, <3>2, <4>1 DEF FreezeSet
      <4> QED
        BY <1>0, <2>0, <2>a, <4>1, <4>2, <4>3, Zenon
    <3> QED
      BY <2>5, <3>1, <3>2, Zenon DEF FreezeSet
  <2> QED
    BY <1>0, <2>1, <2>2, <2>3, <2>4, <2>5, Changes, Zenon
<1>2. attach' \subseteq Items \X Nums
  <2>1. CASE KillAttach(p) \/ KillAttachment(p)
    BY <1>0, <2>1, Zenon DEF KillAttach, KillAttachment
  <2>2. CASE Copy(p)
    BY <1>0, <2>2, Zenon DEF Copy
  <2> QED
    BY <1>0, <2>1, <2>2, Changes, Zenon
<1>3. xarf' \in [Items \X Nums -> Proc \cup {Nobody}]
  <2>1. CASE \E o \in {p, Nobody} : xarf' = [xarf EXCEPT ![<<i, r>>] = o]
    BY <1>0, <2>1
  <2>2. CASE LockAttach(p) \/ KillAttachment(p) \/ UnlockAttach(p)
    BY <2>1, <2>2, Zenon DEF LockAttach, KillAttachment, UnlockAttach
  <2>3. CASE Crash(p)
    BY <1>0, <2>3, Zenon DEF Crash
  <2> QED
    BY <1>0, <2>2, <2>3, Changes, Zenon
<1>4. jobs' \in 0 .. MaxJobs
  <2>1. CASE Asks(p)
    <3>1. jobs < MaxJobs /\ jobs' = jobs + 1
      BY <2>1, Zenon DEF Asks, Begin, Fitting
    <3> QED
      BY <1>0, <3>1
  <2> QED
    BY <1>0, <2>1, Changes
<1> QED
  BY <1>1, <1>2, <1>3, <1>4, Zenon

\* Only who starts an operation joins those who may ask for a number.
LEMMA Askers ==
  ASSUME IInv, NEW p \in Proc, Moves(p), NEW k \in Items
  PROVE  /\ Asking(k)' \subseteq Asking(k) \cup {p}
         /\ Asks(p) \/ Asking(k)' \subseteq Asking(k)
         /\ Count(p) => p \notin Asking(k)'
<1>0. Facts(p) /\ Frame(p) /\ Arrival(p, pc'[p])
  BY Known, Framed, Arrivals, Zenon DEF Facts
<1>1. Asking(k)' \subseteq Asking(k) \cup {p}
  BY <1>0 DEF Frame, Asking
<1>2. ASSUME p \in Asking(k)'
      PROVE  Asks(p) \/ p \in Asking(k)
  <2>0. job'[p].op \in AddOps /\ job'[p].item = k /\ pc'[p] \in {"look", "master", "counts"}
    BY <1>2 DEF Asking
  <2>1. CASE Look(p)
    <3>1. job'[p].op = job[p].op /\ job'[p].item = job[p].item /\ pc[p] = "look"
      BY <1>0, <2>0, <2>1 DEF Facts, Look, Return, Goto, Jobs
    <3> QED
      BY <2>0, <3>1 DEF Asking
  <2>2. CASE Room(p) \/ LockDir(p)
    <3>1. job[p].op \notin AddOps
      BY <1>0, <2>0, <2>2, Zenon DEF Facts, Own, Locking, Doing, Room, LockDir, Goto, Return, AddOps
    <3>2. job' = job
      BY <1>0, <2>0, <2>2 DEF Facts, Room, LockDir, Goto, Return
    <3> QED
      BY <2>0, <3>1, <3>2, Zenon
  <2>3. CASE LockMaster(p)
    <3>1. job' = job /\ pc[p] = "master"
      BY <2>3, Zenon DEF LockMaster
    <3> QED
      BY <2>0, <3>1 DEF Asking
  <2> QED
    BY <1>0, <2>0, <2>1, <2>2, <2>3, Zenon DEF Arrival
<1>3. Count(p) => pc'[p] \notin {"look", "master", "counts"}
  BY <1>0 DEF Facts, Count, Goto
<1> QED
  BY <1>1, <1>2, <1>3, Zenon DEF Asking

\* There stays room for all who may ask for a number.
LEMMA FitsKept ==
  ASSUME Sized, IInv, TInv, NEW p \in Proc, Moves(p)
  PROVE  Fits'
<1> SUFFICES ASSUME NEW k \in Items
             PROVE  master'.responses[k] + Cardinality(Asking(k)') <= MaxResp
  BY Zenon DEF Fits
<1> DEFINE A == Asking(k)
           B == Asking(k)'
           n == master.responses[k]
<1>0. /\ n \in -1 .. MaxResp /\ master.responses \in [Items -> -1 .. MaxResp]
      /\ n + Cardinality(A) <= MaxResp /\ MaxResp \in Nat /\ job[p].item \in Items
      /\ master'.responses[k] \in Int
  BY Small, Known, MastersKept DEF TInv, Kinds, Fits, MasterType, Facts
<1>1. A \in SUBSET Proc /\ B \in SUBSET Proc
  BY DEF Asking
<1>2. Cardinality(A) \in Nat /\ Cardinality(B) \in Nat
  BY <1>1, Sizes, Zenon
<1>3. CASE Asks(p) /\ ~(B \subseteq A)
  <2>1. PICK op \in Ops : \E i \in Items, r \in Nums : Begin(p, op, i, r)
    BY <1>3 DEF Asks
  <2>2. PICK i \in Items, r \in Nums : Begin(p, op, i, r)
    BY <2>1
  <2>3. p \in B
    BY <1>3, Askers
  <2>4. job'[p] = [NoJob EXCEPT !.op = op, !.item = i, !.resp = r]
    BY <2>2, Known DEF Begin, Facts
  <2>5. op \in {"new", "attach"} /\ i = k
    BY <2>3, <2>4, Zenon DEF Asking, NoJob, AddOps
  <2>6. master' = master /\ n + Cardinality({q \in Proc : job[q].op \in {"new", "attach"}}) < MaxResp
    BY <2>2, <2>5 DEF Begin, Fitting, files
  <2> DEFINE C == {q \in Proc : job[q].op \in {"new", "attach"}}
  <2>7. C \in SUBSET Proc /\ A \subseteq C
    BY DEF Asking, AddOps
  <2>8. Cardinality(C) \in Nat /\ Cardinality(A) <= Cardinality(C)
    BY <1>1, <2>7, Sizes
  <2>9. Cardinality(B) <= Cardinality(A) + 1
    BY <1>1, Askers, Sizes, Zenon
  <2> HIDE DEF C
  <2> QED
    BY <1>0, <1>2, <2>6, <2>8, <2>9, SMTT(30) DEF C
<1>4. CASE Count(p) /\ job[p].item = k /\ B \subseteq A
  <2>1. p \in A /\ B \subseteq A \ {p}
    <3>1. p \in A
      BY <1>4 DEF Count, Asking, AddOps
    <3>2. p \notin B
      BY <1>4, Askers, Zenon
    <3> HIDE DEF A, B
    <3> QED
      BY <1>4, <3>1, <3>2
  <2>2. Cardinality(B) + 1 <= Cardinality(A)
    BY <1>1, <2>1, Sizes
  <2>3. master'.responses = [master.responses EXCEPT ![job[p].item] = @ + 1] \/ master'.responses[k] <= n
    <3>1. ~(Publish(p) \/ Mark(p) \/ SetAttr(p))
      BY <1>4 DEF Count, Publish, Mark, SetAttr
    <3>2. \/ master'.responses = [master.responses EXCEPT ![job[p].item] = @ + 1]
          \/ master'.responses = master.responses
      BY <3>1, Rewriting, Zenon DEF Rewrite
    <3> QED
      BY <1>0, <3>2
  <2>4. master'.responses[k] <= n + 1
    BY <1>0, <1>4, <2>3
  <2> QED
    BY <1>0, <1>2, <2>2, <2>4
<1>5. CASE (Count(p) => job[p].item # k) /\ B \subseteq A
  <2>1. master'.responses[k] <= n
    <3>1. n < 0 => k <= master.items
      BY DEF TInv, Marked, Deleted
    <3>2. CASE Publish(p) /\ job[p].item = master.items + 1
               /\ master'.responses = [master.responses EXCEPT ![job[p].item] = 0]
      <4>1. master.items \in Nat
        BY Known DEF Facts, Masters
      <4>2. CASE k = job[p].item
        BY <1>0, <3>1, <3>2, <4>1, <4>2, SMTT(30)
      <4>3. CASE k # job[p].item
        BY <1>0, <3>2, <4>3
      <4> QED
        BY <4>2, <4>3
    <3>3. CASE Mark(p) /\ master'.responses = [master.responses EXCEPT ![job[p].item] = -1]
      BY <1>0, <3>3, SMTT(30)
    <3>4. CASE Count(p) /\ master'.responses = [master.responses EXCEPT ![job[p].item] = @ + 1]
      BY <1>0, <1>5, <3>4, SMTT(30)
    <3>5. CASE master'.responses = master.responses
      BY <1>0, <3>5
    <3> QED
      BY <3>2, <3>3, <3>4, <3>5, Rewriting, Zenon DEF Rewrite
  <2>2. Cardinality(B) <= Cardinality(A)
    BY <1>1, <1>5, Sizes
  <2> QED
    BY <1>0, <1>2, <2>1, <2>2
<1> QED
  BY <1>3, <1>4, <1>5, Askers, Zenon

\* Only itemdel deletes an item.
LEMMA Deletes ==
  ASSUME IInv, NEW p \in Proc, Moves(p), NEW k \in Items,
         Deleted(master', k), ~Deleted(master, k)
  PROVE  Mark(p) /\ k = job[p].item
<1> DEFINE f == master.responses
           i == job[p].item
<1>1. f \in [Items -> Int] /\ i \in Items /\ ~(f[k] < 0) /\ master'.responses[k] < 0
  BY Known, Zenon DEF Facts, Masters, Deleted
<1>2. /\ master'.responses # f /\ master'.responses # [f EXCEPT ![i] = 0]
      /\ f[i] < 0 \/ master'.responses # [f EXCEPT ![i] = @ + 1]
  BY <1>1
<1>3. Mark(p) /\ master'.responses = [f EXCEPT ![i] = -1]
  BY <1>2, Rewriting, Zenon DEF Rewrite, Deleted
<1> QED
  BY <1>1, <1>3

\* Only items that are counted get deleted.
LEMMA MarkedKept ==
  ASSUME IInv, TInv, NEW p \in Proc, Moves(p)
  PROVE  Marked'
<1> SUFFICES ASSUME NEW k \in Items, Deleted(master', k) PROVE k <= master'.items
  BY Zenon DEF Marked
<1>1. /\ k \in Nat /\ master.items \in Nat /\ master'.items \in Nat
      /\ master.items <= master'.items
  BY Known, Small, Framed DEF Facts, Masters, Frame, Shared
<1>2. k <= master.items
  <2>1. CASE Deleted(master, k)
    BY <2>1 DEF TInv, Marked
  <2>2. CASE ~Deleted(master, k)
    <3>1. Mark(p) /\ k = job[p].item
      BY <2>2, Deletes
    <3> QED
      BY <3>1, Known DEF Facts, Own, Numbered, Past, Mark
  <2> QED
    BY <2>1, <2>2
<1> QED
  BY <1>1, <1>2

-----------------------------------------------------------------------------
(* Headers.                                                                *)

LEMMA UnbornKept ==
  ASSUME IInv, TInv, Latches, Unborn, NEW p \in Proc, Moves(p)
  PROVE  Unborn'
<1> SUFFICES ASSUME ~Crashes, NEW i \in Items, i > master'.items, part'[i] # Absent
             PROVE  i = master'.items + 1 /\ \E q \in Proc : pc'[q] = "publish"
  BY DEF Unborn
<1>0. /\ Facts(p) /\ Frame(p) /\ master.items \in Nat /\ master'.items \in Nat /\ i \in Nat
      /\ master.items <= master'.items /\ ~Crash(p) /\ i > master.items
  <2>1. Facts(p) /\ Frame(p) /\ ~Crash(p)
    BY Known, Framed, Zenon DEF Crash
  <2>2. master.items \in Nat /\ master'.items \in Nat /\ i \in Nat /\ master.items <= master'.items
    BY <2>1, Small DEF Frame, Facts, Masters, Shared
  <2> QED
    BY <2>1, <2>2
<1>1. CASE part[i] = Absent
  <2>1. CASE CreatePart(p)
    <3>1. /\ pc'[p] = "publish" /\ master' = master
          /\ part' = [part EXCEPT ![master.items + 1] = NewItem]
      BY <1>0, <2>1, Zenon DEF Facts, Own, Knowing, CreatePart, Goto
    <3>2. i = master.items + 1
      BY <1>0, <1>1, <3>1, Zenon DEF Facts
    <3> QED
      BY <3>1, <3>2
  <2>2. CASE Store(p)
    <3>1. job[p].item <= master.items /\ job[p].item \in Nat
      BY <1>0, <2>2, Small, Zenon DEF Facts, Own, Numbered, Past, Store
    <3>2. i # job[p].item
      BY <1>0, <3>1, SMTT(30)
    <3>3. part'[i] = part[i]
      BY <1>0, <2>2, <3>2 DEF Store, Facts
    <3> QED
      BY <1>1, <3>3, Zenon
  <2>3. CASE Full(p) \/ KillParts(p) \/ FreezeSet(p)
    <3>1. part'[i] = Absent
      BY <1>0, <1>1, <2>3, SMTT(30) DEF Facts, Full, KillParts, FreezeSet, Has
    <3> QED
      BY <3>1, Zenon
  <2> QED
    BY <1>1, <2>1, <2>2, <2>3, Changes, Zenon
<1>2. CASE part[i] # Absent
  <2>1. PICK q \in Proc : i = master.items + 1 /\ pc[q] = "publish"
    BY <1>0, <1>2 DEF Unborn
  <2>2. CASE q = p
    <3>1. Publish(p)
      BY <1>0, <2>1, <2>2, Departures
    <3>2. master' = mem[p] /\ mem[p].items = i
      BY <1>0, <2>1, <3>1, Zenon DEF Facts, Own, Knowing, Publish, store_master, Masters
    <3> QED
      BY <1>0, <3>2, SMTT(30)
  <2>3. CASE q # p
    <3>1. pc'[q] = "publish"
      BY <1>0, <2>1, <2>3, Zenon DEF Frame
    <3>2. ~InMaster(p)
      BY <2>1, <2>3, Zenon DEF IInv, Own, Locking, InMaster
    <3>3. master' = master
      BY <1>0, <3>2 DEF Frame
    <3> QED
      BY <2>1, <3>1, <3>3, Zenon
  <2> QED
    BY <2>2, <2>3
<1> QED
  BY <1>1, <1>2

-----------------------------------------------------------------------------
(* Deleted items.                                                          *)

\* Nothing is written to a deleted item but what the history knows of.
LEMMA Untouched ==
  ASSUME IInv, TInv, NEW p \in Proc, Moves(p), NEW i \in Items, i <= master.items,
         Deleted(master, i), i \notin stray'
  PROVE  /\ i \notin stray
         /\ part[i] = Absent => part'[i] = Absent
         /\ \A r \in Nums : <<i, r>> \in attach' => <<i, r>> \in attach
<1>0. Facts(p) /\ i \in Nat /\ master.items \in Nat
  BY Known, Small DEF Facts, Masters
<1>1. i \notin stray
  BY Changes, Zenon DEF Store, Copy, Crash
<1>2. ASSUME part[i] = Absent PROVE part'[i] = Absent
  <2>1. CASE Full(p) \/ KillParts(p) \/ FreezeSet(p)
    BY <1>0, <1>2, <2>1, Zenon DEF Facts, Full, KillParts, FreezeSet, Has
  <2>2. CASE CreatePart(p)
    <3>1. part' = [part EXCEPT ![master.items + 1] = NewItem]
      BY <1>0, <2>2, Zenon DEF Facts, Own, Knowing, CreatePart
    <3> QED
      BY <1>0, <1>2, <3>1, SMTT(30) DEF Facts
  <2>3. CASE Store(p)
    <3>1. i # job[p].item
      BY <2>3, Zenon DEF Store
    <3> QED
      BY <1>0, <1>2, <2>3, <3>1 DEF Store, Facts
  <2> QED
    BY <1>2, <2>1, <2>2, <2>3, Changes, Zenon
<1>3. ASSUME NEW r \in Nums, <<i, r>> \in attach' PROVE <<i, r>> \in attach
  <2>1. CASE Copy(p)
    <3>1. i # job[p].item /\ attach' = attach \cup {<<job[p].item, job[p].resp>>}
      BY <2>1, Zenon DEF Copy
    <3> QED
      BY <1>3, <3>1
  <2>2. CASE KillAttach(p) \/ KillAttachment(p)
    BY <1>3, <2>2, Zenon DEF KillAttach, KillAttachment
  <2> QED
    BY <1>3, <2>1, <2>2, Changes, Zenon
<1> QED
  BY <1>1, <1>2, <1>3, Zenon

LEMMA GoneKept ==
  ASSUME IInv, TInv, Gone, NEW p \in Proc, Moves(p)
  PROVE  Gone'
<1> SUFFICES ASSUME NEW i \in Items, i <= master'.items, Deleted(master', i), i \notin stray'
             PROVE  \/ part'[i] = Absent /\ \A r \in Nums : <<i, r>> \notin attach'
                    \/ \E q \in Proc : Deleting(q, i)'
  BY DEF Gone
<1>0. Facts(p) /\ Frame(p)
  BY Known, Framed, Zenon
<1>1. CASE ~Deleted(master, i)
  <2>1. Mark(p) /\ i = job[p].item
    BY <1>1, Deletes
  <2>2. job' = job /\ pc'[p] = "unlock" /\ job[p].op = "zap"
    BY <1>0, <2>1 DEF Mark, Goto, Facts
  <2> QED
    BY <2>1, <2>2, Zenon DEF Deleting
<1>2. CASE Deleted(master, i)
  <2>0. /\ i <= master.items /\ i \notin stray /\ (part[i] = Absent => part'[i] = Absent)
        /\ \A r \in Nums : <<i, r>> \in attach' => <<i, r>> \in attach
    BY <1>2, Untouched, Zenon DEF TInv, Marked
  <2>1. CASE part[i] = Absent /\ \A r \in Nums : <<i, r>> \notin attach
    BY <2>0, <2>1, Zenon
  <2>2. ASSUME NEW q \in Proc \ {p}, Deleting(q, i)
        PROVE  Deleting(q, i)'
    BY <1>0, <2>0, <2>2 DEF Frame, Deleting
  <2>3. CASE Deleting(p, i)
    <3>0. ~Crash(p) /\ job[p].op = "zap" /\ job[p].item = i
      BY <2>3, Zenon DEF Crash, Deleting
    <3>1. CASE pc[p] = "unlock"
      <4>1. UnlockMaster(p)
        BY <3>0, <3>1, Departures
      <4>2. /\ job' = [job EXCEPT ![p].todo = {r \in Nums : <<i, r>> \in attach}]
            /\ pc' = [pc EXCEPT ![p] = "kill"] /\ attach' = attach
        BY <3>0, <4>1 DEF UnlockMaster, files, Goto
      <4>3. /\ job'[p].op = "zap" /\ job'[p].item = i /\ pc'[p] = "kill"
            /\ job'[p].todo = {r \in Nums : <<i, r>> \in attach}
        BY <1>0, <3>0, <4>2 DEF Facts, Jobs
      <4> QED
        BY <4>2, <4>3, Zenon DEF Deleting
    <3>2. CASE pc[p] = "kill" /\ KillAttach(p)
      <4>1. PICK n : attach' = attach \ {<<i, n>>} /\ job' = [job EXCEPT ![p].todo = @ \ {n}] /\ pc' = pc
        BY <3>0, <3>2, Zenon DEF KillAttach
      <4>2. /\ job'[p].op = "zap" /\ job'[p].item = i /\ pc'[p] = "kill"
            /\ job'[p].todo = job[p].todo \ {n}
        BY <1>0, <3>0, <3>2, <4>1, Zenon DEF Facts, Jobs
      <4>3. \A r \in Nums : <<i, r>> \in attach => r \in job[p].todo
        BY <2>3, <3>2, Zenon DEF Deleting
      <4> QED
        BY <4>1, <4>2, <4>3 DEF Deleting
    <3>3. CASE pc[p] = "kill" /\ KillParts(p)
      <4>1. part' = [part EXCEPT ![i] = Absent] /\ job[p].todo = {}
        BY <3>0, <3>3, Zenon DEF KillParts
      <4>2. part'[i] = Absent
        BY <1>0, <4>1 DEF Facts
      <4>3. \A r \in Nums : <<i, r>> \notin attach
        BY <2>3, <3>3, <4>1, Zenon DEF Deleting
      <4> QED
        BY <2>0, <4>2, <4>3
    <3> QED
      BY <2>3, <3>0, <3>1, <3>2, <3>3, Departures, Zenon DEF Deleting
  <2> QED
    BY <1>2, <2>0, <2>1, <2>2, <2>3, Zenon DEF Gone
<1> QED
  BY <1>1, <1>2

-----------------------------------------------------------------------------
(* Full items.                                                             *)

\* Only who finds the item not frozen goes on to add to it.
LEMMA Fillers ==
  ASSUME IInv, NEW p \in Proc, Moves(p), NEW k \in Items
  PROVE  /\ Filling(k)' \subseteq Filling(k) \cup {p}
         /\ \/ Look(p) /\ job[p].item = k /\ part[k].froz = 0
            \/ Filling(k)' \subseteq Filling(k)
         /\ Count(p) => p \notin Filling(k)'
<1>0. Facts(p) /\ Frame(p) /\ Arrival(p, pc'[p])
  BY Known, Framed, Arrivals, Zenon DEF Facts
<1>1. Filling(k)' \subseteq Filling(k) \cup {p}
  BY <1>0 DEF Frame, Filling
<1>2. ASSUME p \in Filling(k)'
      PROVE  (Look(p) /\ job[p].item = k /\ part[k].froz = 0) \/ p \in Filling(k)
  <2>0. job'[p].op \in AddOps /\ job'[p].item = k /\ pc'[p] \in {"master", "counts"}
    BY <1>2, Zenon DEF Filling
  <2>1. CASE Look(p)
    <3>1. /\ job'[p].op = job[p].op /\ job'[p].item = job[p].item
      BY <1>0, <2>0, <2>1, SMTT(30) DEF Facts, Look, Return, Goto, Jobs
    <3>2. part[job[p].item].froz = 0
      BY <1>0, <2>0, <2>1, <3>1 DEF Facts, Look, Return, Goto, AddOps
    <3> QED
      BY <2>0, <2>1, <3>1, <3>2, Zenon
  <2>2. CASE Room(p) \/ LockDir(p)
    <3>1. job[p].op \notin AddOps
      BY <1>0, <2>0, <2>2, Zenon DEF Facts, Own, Locking, Doing, Room, LockDir, Goto, Return, AddOps
    <3>2. job' = job
      BY <1>0, <2>0, <2>2, Zenon DEF Facts, Room, LockDir, Goto, Return
    <3> QED
      BY <2>0, <3>1, <3>2, Zenon
  <2>3. CASE LockMaster(p)
    <3>1. job' = job /\ pc[p] = "master"
      BY <2>3, Zenon DEF LockMaster
    <3> QED
      BY <2>0, <3>1 DEF Filling
  <2>4. CASE Asks(p)
    <3>1. PICK op \in Ops, i \in Items, r \in Nums : Begin(p, op, i, r)
      BY <2>4, Zenon DEF Asks
    <3>2. job'[p].op = op
      BY <1>0, <3>1 DEF Begin, Facts, NoJob
    <3>3. op \in {"new", "attach"} => pc'[p] = "look"
      BY <1>0, <3>1, Zenon DEF Begin, Facts, Goto
    <3> QED
      BY <2>0, <3>2, <3>3 DEF AddOps
  <2> QED
    BY <1>0, <2>0, <2>1, <2>2, <2>3, <2>4, Zenon DEF Arrival
<1>3. Count(p) => pc'[p] \notin {"master", "counts"}
  BY <1>0 DEF Facts, Count, Goto
<1> QED
  BY <1>1, <1>2, <1>3, Zenon DEF Filling

\* A count stays as it is unless a response is added.
LEMMA Counts ==
  ASSUME IInv, TInv, NEW p \in Proc, Moves(p), NEW i \in Items, i <= master.items,
         ~Deleted(master', i)
  PROVE  /\ ~Deleted(master, i)
         /\ \/ master'.responses[i] = master.responses[i] /\ ~(Count(p) /\ job[p].item = i)
            \/ master'.responses[i] = master.responses[i] + 1 /\ Count(p) /\ job[p].item = i
<1> DEFINE f == master.responses
           k == job[p].item
<1>0. /\ f \in [Items -> Int] /\ k \in Items /\ master.items \in Nat /\ i \in Nat
      /\ ~(master'.responses[i] < 0)
  BY Known, Small, Zenon DEF Facts, Masters, Deleted
<1>1. ~Deleted(master, i)
  BY Framed, Zenon DEF Frame
<1>2. CASE Count(p)
  <2>1. master'.responses = [f EXCEPT ![k] = @ + 1]
    <3>1. mem[p] = master /\ master \in Masters
      BY <1>2, Known, Zenon DEF Facts, Own, Knowing, Count
    <3>2. master' = [master EXCEPT !.responses[k] = master.responses[k] + 1]
      BY <1>2, <3>1 DEF Count, store_master
    <3> QED
      BY <3>1, <3>2, Zenon DEF Masters
  <2> QED
    BY <1>0, <1>1, <1>2, <2>1
<1>3. CASE ~Count(p)
  <2>1. CASE k = master.items + 1 /\ master'.responses = [f EXCEPT ![k] = 0]
    BY <1>0, <1>1, <1>3, <2>1, SMTT(30)
  <2>2. CASE master'.responses = [f EXCEPT ![k] = -1]
    BY <1>0, <1>1, <1>3, <2>2, SMTT(30)
  <2>3. CASE master'.responses = f
    BY <1>0, <1>1, <1>3, <2>3
  <2> QED
    BY <1>3, <2>1, <2>2, <2>3, Rewriting, Zenon DEF Rewrite
<1> QED
  BY <1>2, <1>3, Zenon

\* A frozen header stays, or the history knows of it.
LEMMA StaysFrozen ==
  ASSUME IInv, TInv, NEW p \in Proc, Moves(p), NEW i \in Items, i <= master.items,
         ~Deleted(master, i), i \notin lapsed', part[i].froz = 2
  PROVE  part'[i].froz = 2
<1>0. /\ Facts(p) /\ i \in Nat /\ master.items \in Nat /\ part[i] # Absent /\ part[i] \in Parts
      /\ job[p].item \in Items /\ part \in [Items -> Parts \cup {Absent}]
  BY Known, Small DEF Facts, Masters, Counted
<1>1. CASE Full(p)
  <2>1. part'[i] \in {part[i], [part[i] EXCEPT !.froz = 2]}
    BY <1>0, <1>1, Zenon DEF Full
  <2> QED
    BY <1>0, <2>1, Zenon DEF Parts
<1>2. CASE CreatePart(p)
  <2>1. part' = [part EXCEPT ![master.items + 1] = NewItem]
    BY <1>0, <1>2, Zenon DEF Facts, Own, Knowing, CreatePart
  <2> QED
    BY <1>0, <2>1
<1>3. CASE Store(p)
  <2>1. CASE i # job[p].item
    BY <1>0, <1>3, <2>1, Zenon DEF Store
  <2>2. CASE i = job[p].item
    <3> DEFINE r == job[p].resp
               buf == IF job[p].buf = Absent THEN [NewItem EXCEPT !.texts = {}] ELSE job[p].buf
               new == [texts |-> buf.texts \cup {r},
                       froz |-> IF r = 0 THEN job[p].head ELSE buf.froz,
                       info |-> (buf.info \ {r}) \cup (IF job[p].note THEN {r} ELSE {})]
    <3>1. /\ part' = [part EXCEPT ![i] = new]
          /\ lapsed' = lapsed \cup {k \in {i} : part[k] # Absent /\ part[k].froz = 2 /\ new.froz # 2}
      BY <1>3, <2>2, Zenon DEF Store
    <3> HIDE DEF new
    <3>2. new.froz = 2
      BY <1>0, <3>1, Zenon
    <3> QED
      BY <1>0, <3>1, <3>2
  <2> QED
    BY <2>1, <2>2, Zenon
<1>4. CASE KillParts(p)
  <2>1. Deleted(master, job[p].item)
    BY <1>0, <1>4, Zenon DEF Facts, Own, Locking, Doing, Numbered, KillParts
  <2>2. i # job[p].item
    BY <2>1
  <2> QED
    BY <1>0, <1>4, <2>2, Zenon DEF KillParts
<1>5. CASE FreezeSet(p)
  <2>1. part'[i] = part[i]
    BY <1>0, <1>5, SMTT(30) DEF FreezeSet, Parts
  <2> QED
    BY <2>1, Zenon
<1> QED
  BY <1>1, <1>2, <1>3, <1>4, <1>5, Changes, Zenon

\* One of those past the check has counted its response.
LEMMA OneMore ==
  ASSUME NEW n \in Int, NEW a \in Nat, NEW b \in Nat, NEW f \in Nat, NEW c \in Nat,
         n + a < f + c, b + 1 <= a
  PROVE  n + 1 + b < f + c
OBVIOUS

LEMMA NextToFull ==
  ASSUME NEW n \in Int, NEW f \in Nat, n + 1 >= f PROVE n >= f \/ n + 1 = f
OBVIOUS

LEMMA FrozenKept ==
  ASSUME Sized, IInv, TInv, Frozen, NEW p \in Proc, Moves(p)
  PROVE  Frozen'
<1> SUFFICES ASSUME NEW i \in Items, i <= master'.items, ~Deleted(master', i), i \notin lapsed'
             PROVE  /\ master'.responses[i] + Cardinality(Filling(i)') < FreezeAt + Cardinality(Proc)
                    /\ master'.responses[i] >= FreezeAt =>
                         part'[i].froz = 2 \/ (master'.responses[i] = FreezeAt /\ Freezing(i)')
  BY Zenon DEF Frozen
<1> DEFINE n == master.responses[i]
           A == Filling(i)
           B == Filling(i)'
<1>0. /\ Facts(p) /\ Frame(p) /\ n \in Int /\ master'.responses[i] \in Int /\ i \in Nat
      /\ master.items \in Nat /\ master'.items \in Nat /\ FreezeAt \in Nat /\ FreezeAt # 0
  BY Known, Framed, Small, Zenon DEF Facts, Frame, Shared, Masters
<1>1. A \in SUBSET Proc /\ B \in SUBSET Proc
  BY DEF Filling
<1>2. /\ Cardinality(A) \in Nat /\ Cardinality(B) \in Nat /\ Cardinality(Proc) \in Nat
      /\ Cardinality(B) <= Cardinality(Proc)
  BY <1>1, Sizes, Zenon
<1>3. CASE i > master.items
  <2>1. i = job[p].item /\ master'.responses = [master.responses EXCEPT ![i] = 0]
    <3>1. master'.items # master.items
      BY <1>0, <1>3
    <3>2. /\ job[p].item = master.items + 1 /\ master'.items = job[p].item
          /\ master'.responses = [master.responses EXCEPT ![job[p].item] = 0]
      BY <3>1, Rewriting, Zenon DEF Rewrite
    <3> QED
      BY <1>0, <1>3, <3>2, SMTT(30)
  <2>2. master'.responses[i] = 0
    BY <1>0, <2>1, Zenon DEF Facts, Masters
  <2> QED
    BY <1>0, <1>2, <2>2, SMTT(30)
<1>4. CASE i <= master.items
  <2>0. /\ ~Deleted(master, i) /\ i \notin lapsed
        /\ \/ master'.responses[i] = n /\ ~(Count(p) /\ job[p].item = i)
           \/ master'.responses[i] = n + 1 /\ Count(p) /\ job[p].item = i
    <3>1. i \notin lapsed
      BY Changes, Zenon DEF Store, Crash
    <3> QED
      BY <1>4, <3>1, Counts
  <2>1. /\ n + Cardinality(A) < FreezeAt + Cardinality(Proc)
        /\ n >= FreezeAt => part[i].froz = 2 \/ (n = FreezeAt /\ Freezing(i))
    BY <1>4, <2>0, Zenon DEF Frozen
  <2>2. part[i].froz = 2 => part'[i].froz = 2
    BY <1>4, <2>0, StaysFrozen
  <2>3. CASE Count(p) /\ job[p].item = i
    <3>0. pc[p] = "counts" /\ job[p].op \in AddOps /\ master'.responses[i] = n + 1
      BY <2>0, <2>3, Zenon DEF Count, AddOps
    <3>1. p \in A /\ p \notin B /\ B \subseteq A \cup {p}
      BY <2>3, <3>0, Fillers, SMTT(30) DEF Filling
    <3>2. Cardinality(B) + 1 <= Cardinality(A)
      <4> HIDE DEF A, B
      <4>1. B \subseteq A \ {p}
        BY <3>1, Zenon
      <4> QED
        BY <1>1, <3>1, <4>1, Sizes, Zenon
    <3>3. ~Freezing(i)
      BY <3>0 DEF Freezing, IInv, Own, Locking, InMaster
    <3>4. n + 1 = FreezeAt => Freezing(i)'
      <4>1. /\ job' = [job EXCEPT ![p].resp = n + 1]
            /\ pc' = [pc EXCEPT ![p] = IF n + 1 >= FreezeAt THEN "full" ELSE "unlock"]
        BY <1>0, <2>3, <3>0, Zenon DEF Facts, Own, Knowing, Count, Goto
      <4>2. job'[p].item = i
        BY <1>0, <2>3, <4>1, Zenon DEF Facts, Jobs
      <4>3. n + 1 = FreezeAt => pc'[p] = "full"
        BY <1>0, <4>1, SMTT(30) DEF Facts
      <4> QED
        BY <4>2, <4>3, Zenon DEF Freezing
    <3> HIDE DEF A, B, n
    <3>5. n + 1 + Cardinality(B) < FreezeAt + Cardinality(Proc)
      BY <1>0, <1>2, <2>1, <3>2, OneMore, Zenon
    <3>6. n + 1 >= FreezeAt => part[i].froz = 2 \/ n + 1 = FreezeAt
      BY <1>0, <2>1, <3>3, NextToFull, Zenon
    <3> QED
      BY <2>2, <3>0, <3>4, <3>5, <3>6, Zenon DEF B, n
  <2>4. CASE ~(Count(p) /\ job[p].item = i)
    <3>0. master'.responses[i] = n
      BY <2>0, <2>4, Zenon
    <3>1. n + Cardinality(B) < FreezeAt + Cardinality(Proc)
      <4>1. CASE B \subseteq A
        <5>1. Cardinality(B) <= Cardinality(A)
          BY <1>1, <4>1, Sizes, Zenon
        <5> HIDE DEF A, B, n
        <5> QED
          BY <1>0, <1>2, <2>1, <5>1, SMTT(30)
      <4>2. CASE Look(p) /\ part[i].froz = 0
        <5>1. CASE n < FreezeAt
          BY <1>0, <1>2, <5>1, SMTT(30)
        <5>2. CASE n = FreezeAt /\ Freezing(i)
          <6>1. PICK q \in Proc : pc[q] = "full" /\ q # p
            BY <4>2, <5>2 DEF Freezing, Look
          <6>2. B \subseteq Proc \ {q}
            <7>1. q \notin A
              BY <6>1, Zenon DEF Filling
            <7>2. q \notin B
              BY <6>1, <7>1, Fillers, Zenon
            <7> QED
              BY <1>1, <7>2, Zenon
          <6>3. Cardinality(B) + 1 <= Cardinality(Proc)
            BY <1>1, <6>1, <6>2, Sizes, Zenon
          <6> HIDE DEF A, B, n
          <6> QED
            BY <1>0, <1>2, <5>2, <6>3, SMTT(30)
        <5> QED
          BY <1>0, <2>1, <4>2, <5>1, <5>2, SMTT(30)
      <4> QED
        BY <4>1, <4>2, Fillers, Zenon
    <3>2. ASSUME n = FreezeAt, Freezing(i)
          PROVE  part'[i].froz = 2 \/ Freezing(i)'
      <4>1. PICK q \in Proc : pc[q] = "full" /\ job[q].item = i
        BY <3>2, Zenon DEF Freezing
      <4>2. CASE q # p
        BY <1>0, <4>1, <4>2, Zenon DEF Frame, Freezing
      <4>3. CASE q = p
        <5>1. ~Crash(p)
          BY <4>1, <4>3, Zenon DEF Crash
        <5>2. Full(p)
          BY <4>1, <4>3, <5>1, Departures, Zenon
        <5>3. Has(i, 0) /\ part[i] \in Parts
          BY <1>0, <1>4, <2>0, Zenon DEF Facts, Counted, Has
        <5>4. part'[i] = [part[i] EXCEPT !.froz = 2]
          BY <1>0, <4>1, <4>3, <5>2, <5>3, Zenon DEF Full, Facts
        <5> QED
          BY <5>3, <5>4 DEF Parts
      <4> QED
        BY <4>2, <4>3, Zenon
    <3>3. n >= FreezeAt => part'[i].froz = 2 \/ (n = FreezeAt /\ Freezing(i)')
      BY <2>1, <2>2, <3>2, Zenon
    <3> QED
      BY <3>0, <3>1, <3>3, Zenon
  <2> QED
    BY <2>3, <2>4, Zenon
<1> QED
  BY <1>0, <1>3, <1>4, SMTT(30)

-----------------------------------------------------------------------------
(* Types.                                                                  *)

\* Only what follows needs finite sets.
INSTANCE FiniteSetTheorems

\* There are finitely many subservers.
LEMMA Finite == Sized
<1> SUFFICES ASSUME NEW S \in SUBSET Proc, NEW T \in SUBSET Proc
             PROVE  /\ Cardinality(S) \in Nat /\ Cardinality(S) <= Cardinality(Proc)
                    /\ T \subseteq S => Cardinality(T) <= Cardinality(S)
                    /\ \A x : T \subseteq S \cup {x} => Cardinality(T) <= Cardinality(S) + 1
                    /\ \A x \in S : T \subseteq S \ {x} => Cardinality(T) + 1 <= Cardinality(S)
  BY DEF Sized
<1>1. IsFiniteSet(Proc) /\ IsFiniteSet(S) /\ IsFiniteSet(T) /\ Cardinality(S) <= Cardinality(Proc)
  BY Small, FS_Subset, Zenon
<1>2. Cardinality(S) \in Nat /\ Cardinality(T) \in Nat /\ Cardinality(Proc) \in Nat
  BY <1>1, FS_CardinalityType, Zenon
<1>3. T \subseteq S => Cardinality(T) <= Cardinality(S)
  BY <1>1, FS_Subset, Zenon
<1>4. ASSUME NEW x, T \subseteq S \cup {x}
      PROVE  Cardinality(T) <= Cardinality(S) + 1
  <2>1. /\ IsFiniteSet(S \cup {x})
        /\ Cardinality(S \cup {x}) \in {Cardinality(S), Cardinality(S) + 1}
    BY <1>1, FS_AddElement, Zenon
  <2>2. Cardinality(T) <= Cardinality(S \cup {x})
    BY <1>4, <2>1, FS_Subset, Zenon
  <2> QED
    BY <1>2, <2>1, <2>2, SMTT(30)
<1>5. ASSUME NEW x \in S, T \subseteq S \ {x}
      PROVE  Cardinality(T) + 1 <= Cardinality(S)
  <2>1. IsFiniteSet(S \ {x}) /\ Cardinality(S \ {x}) = Cardinality(S) - 1
    BY <1>1, FS_RemoveElement, Zenon
  <2>2. Cardinality(T) <= Cardinality(S \ {x})
    BY <1>5, <2>1, FS_Subset, Zenon
  <2> QED
    BY <1>2, <2>1, <2>2, SMTT(30)
<1> QED
  BY <1>1, <1>2, <1>3, <1>4, <1>5, Zenon

LEMMA KindsInit ==
  ASSUME Init PROVE TInv /\ Latches
<1>0. /\ Slots \in Nat /\ Slots # 0 /\ MaxResp \in Nat /\ MaxJobs \in Nat /\ 1 \in Items
      /\ NewItem \in PartType /\ NoJob \in JobType
  BY Small, ConferenceAssumption, Zenon
<1>1. Kinds
  <2>1. [i \in Items |-> 0] \in [Items -> -1 .. MaxResp] /\ 1 \in 0 .. Slots
    BY <1>0
  <2>2. master \in MasterType
    BY <2>1 DEF Init, MasterType
  <2>3. part \in [Items -> PartType \cup {Absent}] /\ job \in [Proc -> JobType]
    BY <1>0, Zenon DEF Init
  <2>4. /\ xcrf \in [Items -> Proc \cup {Nobody}] /\ xarf \in [Items \X Nums -> Proc \cup {Nobody}]
        /\ mem \in [Proc -> MasterType \cup {NoMaster}] /\ attach \subseteq Items \X Nums
    BY DEF Init
  <2>5. jobs \in 0 .. MaxJobs
    BY <1>0 DEF Init
  <2> QED
    BY <2>2, <2>3, <2>4, <2>5, Zenon DEF Kinds
<1>2. Fits
  <2>1. ASSUME NEW k \in Items PROVE master.responses[k] + Cardinality(Asking(k)) <= MaxResp
    <3>1. Asking(k) = {} /\ master.responses[k] = 0
      BY DEF Init, Asking, NoJob, AddOps
    <3> QED
      BY <1>0, <3>1, FS_EmptySet, SMTT(30)
  <2> QED
    BY <2>1 DEF Fits
<1>3. Marked
  BY DEF Init, Marked, Deleted
<1>4. Latches
  BY <1>1 DEF Init, Kinds, Latches, Header
<1> QED
  BY <1>1, <1>2, <1>3, <1>4, Zenon DEF TInv

LEMMA KindsNext ==
  ASSUME IInv, TInv, Latches, [Next]_vars
  PROVE  TInv' /\ Latches'
<1>1. CASE UNCHANGED vars
  <2>0. UNCHANGED <<master, part, attach, mem, xcrf, xarf, pc, job, jobs>>
    BY <1>1 DEF vars, files, locks
  <2>1. Kinds' /\ Marked'
    BY <2>0, Zenon DEF TInv, Kinds, Marked, Deleted
  <2>2. Fits'
    BY <2>0, Zenon DEF TInv, Fits, Asking
  <2>3. Latches'
    BY <2>0, Zenon DEF Latches, Header
  <2> QED
    BY <2>1, <2>2, <2>3, Zenon DEF TInv
<1>2. ASSUME NEW p \in Proc, Moves(p) PROVE TInv' /\ Latches'
  <2>1. Latches' /\ xcrf' \in [Items -> Proc \cup {Nobody}]
    BY <1>2, LatchesKept, Zenon DEF Latches
  <2>2. Kinds'
    BY <1>2, <2>1, Finite, JobsKept, MastersKept, FilesKept, Zenon DEF Kinds, JobKept
  <2> QED
    BY <1>2, <2>1, <2>2, Finite, FitsKept, MarkedKept, Zenon DEF TInv
<1> QED
  BY <1>1, <1>2, Zenon DEF Next, Moves, Asks

\* The types hold, for every number of subservers.
LEMMA Typed == Spec => [](IInv /\ TInv /\ Latches)
<1>1. Init => TInv /\ Latches
  BY KindsInit
<1>2. IInv /\ TInv /\ Latches /\ [Next]_vars => TInv' /\ Latches'
  BY KindsNext
<1> QED
  BY <1>1, <1>2, Invariance, PTL DEF Spec

\* For every number of subservers, items and responses, each variable has its
\* type: no response number leaves the range that Fitting allows for, and XCMA
\* is held in just the parts of chg_dresp, createitem, itemdel and cus_dattr
\* between srvldmas and the unlock.
THEOREM TypeCorrect == Spec => []TypeOK
<1>1. IInv /\ TInv /\ Latches => TypeOK
  <2> SUFFICES ASSUME IInv, TInv PROVE TypeOK
    OBVIOUS
  <2>1. \A p \in Proc : xcma = p <=> pc[p] \in {"counts", "publish", "full", "unlock"}
    BY DEF IInv, Own, Locking, InMaster
  <2>2. xcma \in Proc \cup {Nobody} /\ xcrd \in [Items -> Proc \cup {Nobody}]
    BY DEF IInv, Shared
  <2>3. \A p \in Proc : job[p].item \in Items /\ job[p].resp \in Nums
    BY DEF TInv, Kinds, JobType
  <2>4. \A p \in Proc : mem[p] = NoMaster \/ mem[p] \in MasterType
    BY DEF TInv, Kinds
  <2>5. \A i \in Items : part[i] = Absent \/ part[i] \in PartType
    BY DEF TInv, Kinds
  <2> QED
    BY <2>1, <2>2, <2>3, <2>4, <2>5, Zenon DEF TypeOK, TInv, Kinds
<1> QED
  BY <1>1, Typed, PTL

-----------------------------------------------------------------------------
(* Headers.                                                                *)

LEMMA Borning == Spec => []Unborn
<1>1. Init => Unborn
  <2> SUFFICES ASSUME Init, NEW i \in Items, i > master.items PROVE part[i] = Absent
    BY DEF Unborn
  <2> QED
    BY Small, SMTT(30) DEF Init
<1>2. IInv /\ TInv /\ Latches /\ Unborn /\ [Next]_vars => Unborn'
  <2> SUFFICES ASSUME IInv, TInv, Latches, Unborn, [Next]_vars PROVE Unborn'
    OBVIOUS
  <2>1. CASE UNCHANGED vars
    <3>1. UNCHANGED <<master, part, pc>>
      BY <2>1 DEF vars, files
    <3> QED
      BY <3>1, Zenon DEF Unborn
  <2>2. CASE Next
    BY <2>2, UnbornKept, Zenon DEF Next, Moves, Asks
  <2> QED
    BY <2>1, <2>2, Zenon
<1> QED
  BY <1>1, <1>2, Typed, PTL DEF Spec

\* The flag only goes down if it was up.
LEMMA Froz == \A f \in 0 .. 2 : f \in Int /\ ~(f < f) /\ ~(2 < f)
OBVIOUS

\* Without deaths, what thaws an item is frz_ditem, which leaves an item alone
\* that Caucus froze, or a writer of the partfile with an old header: chg_ditem,
\* or updatepart once it has let go of the partfile.
THEOREM Thaws ==
  ASSUME ~Crashes
  PROVE  Spec => OnlyStaleHeadersThaw
<1> DEFINE Thaw(i) ==
      \E p \in Proc : job[p].item = i /\
        \/ pc[p] = "frzset" /\ job[p].op = "thaw" /\ part[i].froz = 1
        \/ pc[p] = "store" /\ job[p].resp = 0
        \/ pc[p] = "rewrite"
<1>1. ASSUME IInv, TInv, Latches, Unborn, NEW p \in Proc, Moves(p), NEW i \in Items,
             Has(i, 0), part'[i] # Absent, part'[i].froz < part[i].froz
      PROVE  Thaw(i)
  <2>0. /\ Facts(p) /\ part \in [Items -> PartType \cup {Absent}] /\ part[i] \in PartType
        /\ part[i].froz \in 0 .. 2 /\ part[i] # Absent /\ job[p].item \in Items
        /\ part'[i] # part[i]
    <3>1. /\ Facts(p) /\ part \in [Items -> PartType \cup {Absent}] /\ job[p].item \in Items
          /\ part[i] # Absent
      BY <1>1, Known, Zenon DEF TInv, Kinds, Facts, Has
    <3>2. part[i] \in PartType
      BY <3>1, Zenon
    <3>3. part[i].froz \in 0 .. 2 /\ part[i].froz \in Int
      BY <3>2, Froz, Zenon DEF PartType
    <3>4. part'[i] # part[i]
      BY <1>1, <3>3, Froz, Zenon
    <3> QED
      BY <3>1, <3>2, <3>3, <3>4, Zenon
  <2>1. CASE Full(p)
    <3>1. part'[i] = [part[i] EXCEPT !.froz = 2]
      BY <2>0, <2>1, Zenon DEF Full
    <3>2. part'[i].froz = 2
      BY <2>0, <3>1, Zenon DEF PartType
    <3> QED
      BY <1>1, <2>0, <3>2, Froz, Zenon
  <2>2. CASE CreatePart(p)
    <3>1. i = master.items + 1 /\ pc[p] = "counts" /\ master.items \in Nat
      BY <2>0, <2>2, SMTT(30) DEF CreatePart, Facts, Own, Knowing, Masters
    <3>2. PICK q \in Proc : pc[q] = "publish"
      BY <1>1, <2>0, <3>1, SMTT(30) DEF Unborn
    <3> QED
      BY <1>1, <3>1, <3>2, Zenon DEF IInv, Own, Locking, InMaster
  <2>3. CASE Store(p)
    <3>1. i = job[p].item /\ pc[p] \in {"store", "rewrite"}
      BY <2>0, <2>3, Zenon DEF Store
    <3>2. CASE pc[p] = "store" /\ job[p].resp # 0
      <4>1. job[p].buf = part[i]
        BY <1>1, <3>1, <3>2, Zenon DEF Latches, Header
      <4>2. part'[i].froz = part[i].froz
        BY <2>0, <2>3, <3>1, <3>2, <4>1, Zenon DEF Store
      <4> QED
        BY <1>1, <2>0, <4>2, SMTT(30)
    <3> QED
      BY <3>1, <3>2, Zenon
  <2>4. CASE KillParts(p)
    BY <1>1, <2>0, <2>4, Zenon DEF KillParts
  <2>5. CASE FreezeSet(p)
    <3>1. i = job[p].item /\ pc[p] = "frzset"
      BY <2>0, <2>5, Zenon DEF FreezeSet
    <3>2. CASE ~(job[p].op = "thaw" /\ part[i].froz = 1)
      <4>1. part'[i] = [part[i] EXCEPT !.froz = IF job[p].op = "freeze" /\ @ = 0 THEN 1 ELSE @]
        BY <1>1, <2>0, <2>5, <3>1, <3>2, Zenon DEF FreezeSet
      <4>2. part'[i].froz \in {part[i].froz, 1} /\ (part'[i].froz = part[i].froz \/ part[i].froz = 0)
        BY <2>0, <4>1, Zenon DEF PartType
      <4> QED
        BY <1>1, <2>0, <4>2, SMTT(30)
    <3> QED
      BY <3>1, <3>2, Zenon
  <2> QED
    BY <1>1, <2>0, <2>1, <2>2, <2>3, <2>4, <2>5, Changes, Zenon
<1>2. ASSUME IInv, TInv, Latches, Unborn, [Next]_vars, part' # part, NEW i \in Items,
             Has(i, 0), part'[i] # Absent, part'[i].froz < part[i].froz
      PROVE  Thaw(i)
  <2>1. PICK p \in Proc : Moves(p)
    BY <1>2, Zenon DEF Next, Moves, Asks, vars, files
  <2> HIDE DEF Thaw
  <2> QED
    BY <1>1, <1>2, <2>1, Zenon
<1>3. IInv /\ TInv /\ Latches /\ Unborn /\ [Next]_vars =>
        [\A i \in Items : Has(i, 0) /\ part'[i] # Absent /\ part'[i].froz < part[i].froz => Thaw(i)]_part
  <2> HIDE DEF Thaw
  <2> QED
    BY <1>2, Zenon
<1> QED
  BY <1>3, Typed, Borning, PTL DEF Spec, OnlyStaleHeadersThaw

-----------------------------------------------------------------------------
(* Deleted items.                                                          *)

\* For every number of subservers, and however often they die: when all is
\* quiet, nothing is left of an item that itemdel deleted, unless the deletion
\* was cut short or something was written to the item after it.
THEOREM Vanishes == Spec => []DeletedGone
<1>1. Init => Gone
  BY DEF Init, Gone, Deleted
<1>2. IInv /\ TInv /\ Gone /\ [Next]_vars => Gone'
  <2> SUFFICES ASSUME IInv, TInv, Gone, [Next]_vars PROVE Gone'
    BY Zenon
  <2>1. CASE UNCHANGED vars
    <3>1. UNCHANGED <<master, part, attach, pc, job, stray>>
      BY <2>1, Zenon DEF vars, files, history
    <3>2. \A p \in Proc, i \in Items : Deleting(p, i)' <=> Deleting(p, i)
      BY <3>1, Zenon DEF Deleting
    <3> QED
      BY <3>1, <3>2, Zenon DEF Gone, Deleted
  <2>2. CASE Next
    BY <2>2, GoneKept, Zenon DEF Next, Moves, Asks
  <2> QED
    BY <2>1, <2>2, Zenon
<1>3. IInv /\ Gone => DeletedGone
  <2> SUFFICES ASSUME IInv, Gone, \A p \in Proc : pc[p] = "idle", NEW i \in 1 .. master.items,
                      Deleted(master, i), i \notin stray
               PROVE  part[i] = Absent /\ \A r \in Nums : <<i, r>> \notin attach
    BY DEF DeletedGone
  <2>1. i \in Items /\ i <= master.items
    BY Small, SMTT(30) DEF IInv, Shared, Masters, Items
  <2>2. \A p \in Proc : ~Deleting(p, i)
    BY DEF Deleting
  <2> QED
    BY <2>1, <2>2, Zenon DEF Gone
<1> QED
  BY <1>1, <1>2, <1>3, Typed, PTL DEF Spec

-----------------------------------------------------------------------------
(* Full items.                                                             *)

\* For every number of subservers, and however often they die: an item is
\* frozen for good when it is full, with at most one response per subserver
\* over the limit of chg_dresp, unless the one to freeze it died or an old
\* header was stored over it.
THEOREM Freezes == Spec => []FullIsFrozen
<1>1. Init => Frozen
  <2> SUFFICES ASSUME Init, NEW i \in Items
               PROVE  /\ master.responses[i] + Cardinality(Filling(i)) < FreezeAt + Cardinality(Proc)
                      /\ ~(master.responses[i] >= FreezeAt)
    BY DEF Frozen
  <2>1. Filling(i) = {} /\ master.responses[i] = 0
    BY DEF Init, Filling
  <2>2. Cardinality(Filling(i)) = 0 /\ Cardinality(Proc) \in Nat
    BY <2>1, FS_EmptySet, Small, FS_CardinalityType, Zenon
  <2> QED
    BY <2>1, <2>2, Small, SMTT(30)
<1>2. IInv /\ TInv /\ Frozen /\ [Next]_vars => Frozen'
  <2> SUFFICES ASSUME IInv, TInv, Frozen, [Next]_vars PROVE Frozen'
    OBVIOUS
  <2>1. CASE UNCHANGED vars
    <3>1. UNCHANGED <<master, part, pc, job, lapsed>>
      BY <2>1, Zenon DEF vars, files, history
    <3>2. \A i \in Items : Filling(i)' = Filling(i) /\ (Freezing(i)' <=> Freezing(i))
      BY <3>1, Zenon DEF Filling, Freezing
    <3> QED
      BY <3>1, <3>2, Zenon DEF Frozen, Deleted
  <2>2. CASE Next
    BY <2>2, Finite, FrozenKept, Zenon DEF Next, Moves, Asks
  <2> QED
    BY <2>1, <2>2, Zenon
<1>3. IInv /\ Frozen => FullIsFrozen
  <2> SUFFICES ASSUME IInv, Frozen, NEW i \in 1 .. master.items, ~Deleted(master, i), i \notin lapsed
               PROVE  /\ master.responses[i] < FreezeAt + Cardinality(Proc)
                      /\ \/ master.responses[i] < FreezeAt
                         \/ part[i].froz = 2
                         \/ \E p \in Proc : pc[p] = "full" /\ job[p].item = i
    BY DEF FullIsFrozen
  <2>1. i \in Items /\ i <= master.items /\ master.responses[i] \in Int
    BY Small, SMTT(30) DEF IInv, Shared, Masters, Items
  <2>2. Filling(i) \in SUBSET Proc
    BY DEF Filling
  <2>3. Cardinality(Filling(i)) \in Nat /\ Cardinality(Proc) \in Nat
    BY <2>2, Finite, Sizes, Zenon
  <2>4. /\ master.responses[i] + Cardinality(Filling(i)) < FreezeAt + Cardinality(Proc)
        /\ master.responses[i] >= FreezeAt => part[i].froz = 2 \/ Freezing(i)
    BY <2>1 DEF Frozen
  <2> QED
    BY <2>1, <2>3, <2>4, Small, SMTT(30) DEF Freezing
<1> QED
  BY <1>1, <1>2, <1>3, Typed, PTL DEF Spec

-----------------------------------------------------------------------------
(* Attachments.                                                            *)

\* For every number of subservers, and however often they die: unless someone
\* changes or deletes a response, no response has the info of an attachment
\* that does not exist (the order in add_resp_attach: the empty response, the
\* attachment, and then the info).
THEOREM AttachedFirst ==
  ASSUME Ops \cap {"edit", "detach"} = {}
  PROVE  Spec => []AttachmentsExist
<1>0. Adds
  BY DEF Adds
<1>1. Init => AInv
  <2> SUFFICES ASSUME Init PROVE AInv
    OBVIOUS
  <2>1. Infos
    <3>1. 1 \in Items /\ Items \subseteq Nat
      BY Small, Zenon
    <3>2. ASSUME NEW i \in Items, i <= master.items PROVE part[i].info = {}
      BY <3>1, <3>2, SMTT(30) DEF Init, NewItem, Items
    <3> QED
      BY <3>2, Zenon DEF Infos
  <2>2. ASSUME NEW p \in Proc PROVE Attached(p) /\ ~Numbering(p)
    <3>1. pc[p] = "idle" /\ job[p].op = "none" /\ job[p].note = FALSE
      BY DEF Init, NoJob
    <3> QED
      BY <3>1, Zenon DEF Attached, Attaching, Numbering, Numbers
  <2> QED
    BY <2>1, <2>2, Zenon DEF AInv, OwnNumber
<1>2. IInv /\ TInv /\ AInv /\ [Next]_vars => AInv'
  <2> SUFFICES ASSUME IInv, TInv, AInv, [Next]_vars PROVE AInv'
    OBVIOUS
  <2>1. CASE UNCHANGED vars
    <3>1. UNCHANGED <<master, part, attach, mem, xarf, pc, job>>
      BY <2>1, Zenon DEF vars, files, locks
    <3>2. Infos'
      BY <3>1, Zenon DEF AInv, Infos, Deleted
    <3>3. ASSUME NEW p \in Proc PROVE (Numbering(p)' <=> Numbering(p)) /\ (Attaching(p)' <=> Attaching(p))
      BY <3>1, Zenon DEF Numbering, Writing, Deleted, Attaching
    <3>4. ASSUME NEW p \in Proc PROVE Attached(p)'
      BY <3>1, <3>3, Zenon DEF AInv, Attached, Deleted
    <3> QED
      BY <3>1, <3>2, <3>3, <3>4, Zenon DEF AInv, OwnNumber
  <2>2. CASE Next
    BY <1>0, <2>2, AttachmentsKept, Zenon DEF Next, Moves, Asks
  <2> QED
    BY <2>1, <2>2, Zenon
<1>3. IInv /\ AInv => AttachmentsExist
  <2> SUFFICES ASSUME IInv, AInv, NEW i \in 1 .. master.items, ~Deleted(master, i),
                      NEW r \in part[i].info
               PROVE  <<i, r>> \in attach
    BY Zenon DEF AttachmentsExist
  <2>1. i \in Items /\ i <= master.items
    BY Small DEF IInv, Shared, Masters, Items
  <2> QED
    BY <2>1, Zenon DEF AInv, Infos
<1> QED
  BY <1>1, <1>2, <1>3, Typed, PTL DEF Spec

=============================================================================
