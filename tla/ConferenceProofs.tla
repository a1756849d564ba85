-------------------------- MODULE ConferenceProofs --------------------------
(***************************************************************************)
(* Proofs about Conference, for any number of subservers, operations,      *)
(* items and responses, with or without deaths: the master file never      *)
(* loses an update, response numbers are given out once, and texts and     *)
(* master file agree.                                                      *)
(*                                                                         *)
(* The argument is about who is where with which number.  A subserver is   *)
(* Past its checks when it goes on to write a text; from then on its item  *)
(* exists, and its number is one that the master file counts.              *)
(* The last part is about the steps that attachments take, for ItemProofs. *)
(***************************************************************************)
EXTENDS Conference, TLAPS

Masters == [items : Nat, attr : BOOLEAN, responses : [Items -> Int]]
Parts == [texts : SUBSET Nat, froz : Nat, info : SUBSET Nat]
Jobs == [op : AllOps \cup {"none", "annotate", "backout"}, item : Items, resp : Nat,
         head : Nat, note : BOOLEAN, buf : Parts \cup {Absent}, todo : SUBSET Nat]

\* The shared files and locks.
Shared ==
  /\ master \in Masters /\ master.items <= Slots
  /\ part \in [Items -> Parts \cup {Absent}]
  /\ xcma \in Proc \cup {Nobody}
  /\ xcrd \in [Items -> Proc \cup {Nobody}]
  /\ mem \in [Proc -> Masters \cup {NoMaster}]
  /\ job \in [Proc -> Jobs]
  /\ DOMAIN pc = Proc

\* Every item that the master file counts has its text, and no text has a
\* number above the count.
Counted ==
  \A i \in Items : i <= master.items /\ ~Deleted(master, i) =>
    /\ part[i] # Absent /\ 0 \in part[i].texts
    /\ \A r \in part[i].texts : r <= master.responses[i]

AddOps == {"new", "attach"}
TextOps == {"new", "attach", "item", "edit", "detach", "annotate", "backout"}

\* Which operation can be where.
Doing(p) ==
  /\ pc[p] \in {"master", "counts", "unlock"} =>
       job[p].op \in {"new", "attach", "item", "zap", "attr"}
  /\ pc[p] = "full" => job[p].op \in AddOps
  /\ pc[p] \in {"room", "publish"} => job[p].op = "item"
  /\ pc[p] \in {"dir", "undir"} => job[p].op \in TextOps \cup {"zap"}
  /\ pc[p] \in {"load", "store", "relock", "rewrite"} => job[p].op \in TextOps
  /\ pc[p] = "kill" => job[p].op = "zap"
  /\ pc[p] = "lockarf" => job[p].op \in {"attach", "detach"}
  /\ pc[p] = "copy" => job[p].op = "attach"
  /\ pc[p] = "again" => job[p].op \in {"annotate", "backout"}
  /\ pc[p] \in {"look", "read"} => job[p].op \in {"new", "attach", "edit", "detach", "zap"}
  /\ pc[p] = "read" => job[p].op \notin AddOps

InMaster(p) == pc[p] \in {"counts", "publish", "full", "unlock"}
InDir(p) ==
  \/ pc[p] \in {"load", "store", "relock", "rewrite", "undir", "kill"}
  \/ job[p].op = "zap" /\ pc[p] \in {"master", "counts", "unlock"}

\* Past the checks: p will write, or delete, without looking again.
Past(p) ==
  \/ pc[p] \in {"full", "dir", "load", "store", "relock", "rewrite", "undir", "kill",
                "copy", "again"}
  \/ pc[p] = "unlock" /\ job[p].op # "attr"
  \/ pc[p] = "lockarf" /\ job[p].op = "attach"
  \/ pc[p] \in {"master", "counts"} /\ job[p].op = "zap"

\* p may yet write a text under its number.
Writing(p) ==
  \/ pc[p] \in {"full", "unlock", "dir", "load", "store", "relock", "rewrite"}
       /\ job[p].op \in TextOps
  \/ pc[p] \in {"undir", "lockarf", "copy", "again"}
       /\ job[p].op \in {"attach", "annotate", "backout"}
       /\ ~Deleted(mem[p], job[p].item)

\* What p holds, and what it knows of the master file.
Locking(p) ==
  /\ Doing(p)
  /\ xcma = p <=> InMaster(p)
  /\ InDir(p) => xcrd[job[p].item] = p
Knowing(p) ==
  /\ pc[p] = "counts" => mem[p] = master
  /\ pc[p] = "publish" =>
       LET i == master.items + 1 IN
       /\ job[p].item = i /\ part[i] # Absent /\ part[i].texts = {0}
       /\ mem[p] = [master EXCEPT !.items = i, !.responses[i] = 0]
  /\ mem[p] # NoMaster /\ pc[p] # "publish" => mem[p].items <= master.items

\* What p knows of its item and its number.
Numbered(p) ==
  /\ job[p].op \in {"item", "zap"} => job[p].resp = 0
  /\ Past(p) =>
       /\ job[p].item <= master.items
       /\ Deleted(master, job[p].item) \/ job[p].resp <= master.responses[job[p].item]
  /\ job[p].op = "zap" /\ pc[p] \in {"unlock", "kill"} => Deleted(master, job[p].item)

\* What p knows of the texts of its item.
Buffered(p) ==
  /\ pc[p] \in {"store", "relock", "rewrite"} =>
       /\ job[p].buf = Absent <=> part[job[p].item] = Absent
       /\ job[p].buf # Absent => job[p].buf.texts = part[job[p].item].texts
  /\ Adding(p) => ~Has(job[p].item, job[p].resp)

Distinct(p, q) ==
  Adding(p) /\ Writing(q) /\ job[p].item = job[q].item => job[p].resp # job[q].resp

Own(p) == Locking(p) /\ Knowing(p) /\ Numbered(p) /\ Buffered(p)
Apart(p) == \A q \in Proc \ {p} : Distinct(p, q) /\ Distinct(q, p)

IInv == Shared /\ Counted /\ \A p \in Proc : Own(p) /\ Apart(p)

-----------------------------------------------------------------------------
(* A step of p leaves the state of the others alone, the locks that they   *)
(* hold, and the texts that they are working on.                           *)

SameTexts(i) ==
  /\ part'[i] = Absent <=> part[i] = Absent
  /\ part[i] # Absent => part'[i].texts = part[i].texts

Frame(p) ==
  /\ Shared'
  /\ \A q \in Proc \ {p} : pc'[q] = pc[q] /\ job'[q] = job[q] /\ mem'[q] = mem[q]
  /\ xcma' = xcma \/ {xcma, xcma'} \subseteq {p, Nobody}
  /\ \A i \in Items : xcrd'[i] = xcrd[i] \/ {xcrd[i], xcrd'[i]} \subseteq {p, Nobody}
  /\ master' = master \/ InMaster(p)
  /\ master.items <= master'.items
  /\ \A i \in Items : i <= master.items =>
       /\ Deleted(master, i) => Deleted(master', i)
       /\ Deleted(master', i) \/ master.responses[i] <= master'.responses[i]
  /\ \A i \in Items :
       \/ SameTexts(i)
       \/ InMaster(p) /\ i = master.items + 1
       \/ InDir(p) /\ i = job[p].item /\ i <= master.items /\
            \A r \in Nat : Has(i, r)' => Has(i, r) \/ (Writing(p) /\ r = job[p].resp)

\* The job of an idle process is none of the operations.
LEMMA Idle == NoJob.op = "none" /\ ~NoJob.note
BY DEF NoJob

\* What comes next is above all there was.
LEMMA Above ==
  0 <= 0 /\ (\A m \in Int : ~(m + 1 <= m)) /\ (\A k, m \in Nat : k <= m => k # m + 1)
OBVIOUS

\* What holds of another process is kept.
LEMMA FrameKeeps ==
  ASSUME IInv, NEW p \in Proc, NEW q \in Proc, q # p, Frame(p)
  PROVE  Own(q)' /\ \A r \in Proc \ {p, q} : Distinct(q, r)'
<1> USE DEF IInv, Own
<1>1. Nobody \notin Proc
  BY ConferenceAssumption
<1>2. Locking(q)'
  BY <1>1 DEF Frame, Locking, Doing, InMaster, InDir, Shared, Jobs
<1>3. Knowing(q)'
  <2>1. q \in Proc /\ Locking(q) /\ Knowing(q) /\ Locking(p) /\ ~(InMaster(p) /\ InMaster(q))
    BY DEF Locking
  <2>2. CASE pc[q] = "counts"
    BY <2>1, <2>2 DEF Frame, Knowing, InMaster, Shared, Masters
  <2>3. CASE pc[q] = "publish"
    <3>1. master' = master /\ ~InMaster(p) /\ master.items + 1 \in Items
      BY <2>1, <2>3 DEF Frame, InMaster, Knowing, Shared, Jobs
    <3>2. SameTexts(master.items + 1)
      BY <3>1 DEF Frame, Shared, Masters
    <3> QED
      BY <2>1, <2>3, <3>1, <3>2 DEF Frame, Knowing, SameTexts
  <2>4. CASE pc[q] \notin {"counts", "publish"}
    BY <2>1, <2>4 DEF Frame, Knowing, Shared, Masters
  <2> QED
    BY <2>2, <2>3, <2>4
<1>4. Numbered(q)'
  <2>1. job[q].item \in Items /\ job[q].resp \in Nat /\ master.responses \in [Items -> Int]
         /\ master'.responses \in [Items -> Int] /\ {master.items, master'.items} \subseteq Nat
    BY DEF Frame, Shared, Jobs, Masters
  <2>2. pc'[q] = pc[q] /\ job'[q] = job[q]
    BY DEF Frame
  <2>3. job[q].item \in Int
    BY <2>1, ConferenceAssumption DEF Items
  <2> DEFINE i == job[q].item
  <2>4. /\ i <= master.items => i <= master'.items
        /\ i <= master.items /\ Deleted(master, i) => Deleted(master', i)
        /\ i <= master.items => Deleted(master', i) \/ master.responses[i] <= master'.responses[i]
    BY <2>1, <2>3 DEF Frame
  <2>5. Past(q)' <=> Past(q)
    BY <2>2 DEF Past
  <2>6. Numbered(q)
    OBVIOUS
  <2>7. {master.responses[i], master'.responses[i]} \subseteq Int
    BY <2>1
  <2>8. /\ job[q].op \in {"item", "zap"} => job[q].resp = 0
        /\ Past(q) => /\ i <= master'.items
                      /\ Deleted(master', i) \/ job[q].resp <= master'.responses[i]
        /\ job[q].op = "zap" /\ pc[q] \in {"unlock", "kill"} => Deleted(master', i)
    <3>1. job[q].op = "zap" /\ pc[q] \in {"unlock", "kill"} => Past(q)
      BY DEF Past
    <3>2. Deleted(master, i) \/ Deleted(master', i) \/ master.responses[i] <= master'.responses[i]
          \/ ~(i <= master.items)
      BY <2>4
    <3> QED
      BY <2>1, <2>4, <2>6, <2>7, <3>1, <3>2 DEF Numbered
  <2> QED
    BY <2>2, <2>5, <2>8 DEF Numbered
<1>5. Buffered(q)'
  <2> DEFINE i == job[q].item
  <2>1. i \in Items /\ job[q].resp \in Nat /\ master.items \in Nat /\ Slots \in Nat
    BY ConferenceAssumption DEF Shared, Jobs, Masters
  <2>2. job'[q] = job[q] /\ pc'[q] = pc[q]
    BY DEF Frame
  <2>3. CASE SameTexts(i)
    BY <2>1, <2>2, <2>3 DEF Buffered, SameTexts, Adding, Has
  <2>4. CASE ~SameTexts(i)
    <3>1. ~Past(q) \/ i <= master.items
      BY DEF Numbered
    <3>2. CASE ~Past(q)
      BY <2>2, <3>2 DEF Buffered, Past, Adding
    <3>3. CASE Past(q)
      <4>1. InDir(p) /\ i = job[p].item
             /\ (Has(i, job[q].resp)' => Has(i, job[q].resp) \/ (Writing(p) /\ job[q].resp = job[p].resp))
        BY <2>1, <2>4, <3>1, <3>3 DEF Frame, Items
      <4>2. ~InDir(q)
        BY <4>1 DEF Locking
      <4>3. Adding(q)' => ~Has(i, job[q].resp)'
        BY <2>2, <4>1, Zenon DEF Apart, Distinct, Buffered, Adding
      <4> QED
        BY <2>2, <4>2, <4>3 DEF Buffered, InDir, Adding, Has
    <3> QED
      BY <3>2, <3>3
  <2> QED
    BY <2>3, <2>4
<1>6. \A r \in Proc \ {p, q} : Distinct(q, r)'
  BY SMTT(30) DEF Frame, Apart, Distinct, Adding, Writing, Deleted
<1> QED
  BY <1>2, <1>3, <1>4, <1>5, <1>6
-----------------------------------------------------------------------------
(* Most steps change neither the master file nor a text.                   *)

Private(p) ==
  /\ Shared'
  /\ \A q \in Proc \ {p} : pc'[q] = pc[q] /\ job'[q] = job[q] /\ mem'[q] = mem[q]
  /\ xcma' = xcma \/ {xcma, xcma'} \subseteq {p, Nobody}
  /\ \A i \in Items : xcrd'[i] = xcrd[i] \/ {xcrd[i], xcrd'[i]} \subseteq {p, Nobody}
  /\ master' = master
  /\ \A i \in Items : SameTexts(i)

JobMoves(p) == job' \in [Proc -> Jobs] /\ \A q \in Proc \ {p} : job'[q] = job[q]

\* Such a step is within the frame, and texts and counts stay as they are.
LEMMA PrivateKeeps ==
  ASSUME IInv, NEW p \in Proc, Private(p)
  PROVE  Frame(p) /\ Counted'
<1>1. Frame(p)
  BY DEF IInv, Shared, Masters, Private, Frame, Deleted
<1>2. Counted'
  BY DEF IInv, Private, Counted, Deleted, SameTexts
<1> QED
  BY <1>1, <1>2

\* A step that changes nothing shared but its place, its job and headers.
LEMMA PlaceMoves ==
  ASSUME IInv, NEW p \in Proc, UNCHANGED <<master, mem, xcma, xcrd>>,
         DOMAIN pc' = Proc, \A q \in Proc \ {p} : pc'[q] = pc[q],
         JobMoves(p),
         part' \in [Items -> Parts \cup {Absent}], \A i \in Items : SameTexts(i)
  PROVE  Private(p)
BY DEF IInv, Shared, Private, JobMoves

\* A step that gives p no new number, and no new reason to write under it.
Quiet(p) ==
  /\ Adding(p)' => Adding(p)
  /\ Writing(p)' => Writing(p)
  /\ Adding(p)' \/ Writing(p)' => job'[p].item = job[p].item /\ job'[p].resp = job[p].resp

\* ... and then the numbers stay apart.
LEMMA QuietKeeps ==
  ASSUME IInv, NEW p \in Proc, Frame(p), Quiet(p)
  PROVE  Apart(p)'
<1> SUFFICES ASSUME NEW q \in Proc \ {p}
             PROVE  Distinct(p, q)' /\ Distinct(q, p)'
  BY DEF Apart
<1>1. (Adding(q)' <=> Adding(q)) /\ (Writing(q)' <=> Writing(q)) /\ job'[q] = job[q]
  BY DEF Frame, Adding, Writing, Deleted
<1> QED
  BY <1>1 DEF IInv, Apart, Distinct, Quiet

\* What is known of p before a step.
Facts(p) ==
  /\ master \in Masters /\ master.items <= Slots
  /\ part \in [Items -> Parts \cup {Absent}] /\ Absent \notin Parts
  /\ xcma \in Proc \cup {Nobody} /\ xcrd \in [Items -> Proc \cup {Nobody}]
  /\ mem \in [Proc -> Masters \cup {NoMaster}] /\ DOMAIN pc = Proc
  /\ job \in [Proc -> Jobs] /\ job[p] \in Jobs /\ job[p].item \in Items
  /\ NoJob \in Jobs /\ Nums \subseteq Nat /\ Nobody \notin Proc
  /\ Own(p) /\ Counted

\* All of it follows from the invariant.
LEMMA Known == ASSUME IInv, NEW p \in Proc PROVE Facts(p)
<1>1. Nums \subseteq Nat /\ 1 \in Items /\ Nobody \notin Proc /\ Absent \notin Parts
  BY ConferenceAssumption DEF Nums, Items, Parts
<1>2. NoJob \in Jobs
  BY <1>1 DEF NoJob, Jobs
<1> QED
  BY <1>1, <1>2 DEF Facts, IInv, Shared, Jobs

\* A change to one field keeps the type of job.
LEMMA JobField ==
  ASSUME job \in [Proc -> Jobs], NoJob \in Jobs, NEW p \in Proc
  PROVE  /\ \A b \in BOOLEAN : job' = [job EXCEPT ![p].note = b] => JobMoves(p)
         /\ \A t \in SUBSET Nat : job' = [job EXCEPT ![p].todo = t] => JobMoves(p)
         /\ \A o \in {"annotate", "backout"} : job' = [job EXCEPT ![p].op = o] => JobMoves(p)
         /\ \A h \in Nat : job' = [job EXCEPT ![p].head = h] => JobMoves(p)
         /\ \A r \in Nat : job' = [job EXCEPT ![p].resp = r] => JobMoves(p)
         /\ \A i \in Items : job' = [job EXCEPT ![p].item = i] => JobMoves(p)
         /\ \A b \in Parts \cup {Absent} : job' = [job EXCEPT ![p].buf = b] => JobMoves(p)
         /\ job' \in {job, [job EXCEPT ![p] = NoJob]} => JobMoves(p)
  BY SMTT(30) DEF Jobs, JobMoves

\* The checks at the start of an operation read only.
LEMMA CheckStep ==
  ASSUME IInv, NEW p \in Proc,
         Look(p) \/ Room(p) \/ Peek(p) \/ Forget(p)
  PROVE  Private(p) /\ Quiet(p) /\ Own(p)'
<1>0. Facts(p)
  BY Known
<1> USE <1>0 DEF Facts, Goto, Return, files, locks, Own, Locking, InMaster, InDir
<1>1. CASE Look(p)
  <2> USE <1>1 DEF Look
  <2>1. JobMoves(p)
    <3>1. CASE job' = [job EXCEPT ![p] = NoJob]
      BY <3>1, JobField, Zenon
    <3>2. CASE \E b \in BOOLEAN : job' = [job EXCEPT ![p].note = b]
      BY <3>2, JobField, Zenon
    <3> QED
      BY <3>1, <3>2, Zenon
  <2>2. Private(p)
    BY <2>1 DEF JobMoves, Private, Shared, SameTexts
  <2>3. Quiet(p)
    BY DEF Quiet, Adding, Writing, Doing, Jobs
  <2>4. Own(p)'
    <3>1. Locking(p)'
      BY DEF Jobs, NoJob, Doing, AddOps, TextOps
    <3>2. Knowing(p)'
      BY DEF Knowing
    <3>3. Numbered(p)'
      BY DEF Jobs, NoJob, Numbered, Past
    <3>4. Buffered(p)'
      BY DEF Jobs, NoJob, Buffered, Adding, Has
    <3> QED
      BY <3>1, <3>2, <3>3, <3>4, Zenon
  <2> QED
    BY <2>2, <2>3, <2>4
<1>2. CASE Room(p)
  <2> USE <1>2 DEF Room
  <2>1. JobMoves(p)
    BY JobField, Zenon
  <2>2. Private(p)
    BY <2>1, Zenon DEF JobMoves, Private, Shared, SameTexts
  <2>3. Quiet(p)
    BY SMTT(30) DEF Quiet, Adding, Writing, Doing, Jobs
  <2>4. Own(p)'
    BY DEF Jobs, NoJob, Doing, AddOps, TextOps, Knowing, Masters, Numbered, Past, Deleted,
           Buffered, Adding, Has
  <2> QED
    BY <2>2, <2>3, <2>4
<1>3. CASE Peek(p)
  <2> USE <1>3 DEF Peek
  <2>1. JobMoves(p)
    BY JobField, Zenon
  <2>2. Private(p)
    BY <2>1, Zenon DEF JobMoves, Private, Shared, SameTexts
  <2>3. Quiet(p)
    BY SMTT(30) DEF Quiet, Adding, Writing, Doing, Jobs
  <2>4. Own(p)'
    BY DEF Jobs, NoJob, Doing, AddOps, TextOps, Knowing, Masters, Numbered, Past, Deleted,
           Buffered, Adding, Has
  <2> QED
    BY <2>2, <2>3, <2>4
<1>4. CASE Forget(p)
  <2> USE <1>4 DEF Forget
  <2>1. Private(p)
    BY DEF Private, Shared, SameTexts
  <2>2. Quiet(p)
    BY DEF Quiet, Adding, Writing, Doing, Jobs
  <2>3. Own(p)'
    BY Zenon DEF Jobs, NoJob, Doing, AddOps, TextOps, Knowing, Masters, Numbered, Past, Deleted,
           Buffered, Adding, Has
  <2> QED
    BY <2>1, <2>2, <2>3
<1> QED
  BY <1>1, <1>2, <1>3, <1>4

\* Taking, refusing and giving back the lock on the master file, and the
\* freezing of a full item, which leaves its texts alone.
LEMMA MasterStep ==
  ASSUME IInv, NEW p \in Proc,
         LockMaster(p) \/ Refused(p) \/ UnlockMaster(p) \/ Full(p)
  PROVE  Private(p) /\ Quiet(p) /\ Own(p)'
<1>0. Facts(p)
  BY Known
<1> USE <1>0 DEF Facts, Goto, Return, files, locks, Own, Locking, InMaster, InDir
<1>1. CASE LockMaster(p)
  <2> USE <1>1 DEF LockMaster, Loaded
  <2>1. Private(p)
    BY Zenon DEF Private, Shared, SameTexts
  <2>2. Quiet(p)
    BY DEF Quiet, Adding, Writing, Doing, Jobs
  <2>3. Own(p)'
    BY DEF Jobs, NoJob, Doing, AddOps, TextOps, Knowing, Masters, Numbered, Past, Deleted,
           Buffered, Adding, Has
  <2> QED
    BY <2>1, <2>2, <2>3, Zenon
<1>2. CASE Refused(p)
  <2> USE <1>2 DEF Refused
  <2>1. JobMoves(p)
    <3>1. CASE job' = [job EXCEPT ![p] = NoJob]
      BY <3>1, JobField, Zenon
    <3>2. CASE \E r \in Nat : job' = [job EXCEPT ![p].resp = r]
      BY <3>2, JobField, Zenon
    <3> QED
      BY <3>1, <3>2, Zenon
  <2>2. Private(p)
    BY <2>1 DEF JobMoves, Private, Shared, SameTexts
  <2>3. Quiet(p)
    BY DEF Quiet, Adding, Writing, Doing, Jobs
  <2>4. Own(p)'
    <3>1. Locking(p)'
      BY DEF Jobs, NoJob, Doing, AddOps, TextOps
    <3>2. Knowing(p)'
      BY DEF Knowing
    <3>3. Numbered(p)'
      <4>1. CASE job' = [job EXCEPT ![p] = NoJob]
        BY <4>1 DEF NoJob, Numbered, Past
      <4>2. CASE \E r \in Nums : job' = [job EXCEPT ![p].resp = r]
        BY <4>2 DEF Jobs, Numbered, Past, Knowing, Deleted
      <4> QED
        BY <4>1, <4>2
    <3>4. Buffered(p)'
      BY DEF Jobs, NoJob, Buffered, Adding, Has
    <3> QED
      BY <3>1, <3>2, <3>3, <3>4
  <2> QED
    BY <2>2, <2>3, <2>4
<1>3. CASE UnlockMaster(p)
  <2> USE <1>3 DEF UnlockMaster
  <2>1. JobMoves(p)
    <3>1. CASE job' \in {job, [job EXCEPT ![p] = NoJob]}
      BY <3>1, JobField, Zenon
    <3>2. CASE \E t \in SUBSET Nat : job' = [job EXCEPT ![p].todo = t]
      BY <3>2, JobField, Zenon
    <3> QED
      BY <3>1, <3>2, Zenon
  <2>2. Private(p)
    BY <2>1 DEF JobMoves, Private, Shared, SameTexts
  <2>3. Quiet(p)
    BY SMTT(30) DEF Quiet, Adding, Writing, Doing, Jobs
  <2>4. Own(p)'
    BY SMTT(30) DEF Jobs, NoJob, Doing, AddOps, TextOps, Knowing, Masters, Numbered, Past, Deleted,
           Buffered, Adding, Has
  <2> QED
    BY <2>2, <2>3, <2>4
<1>4. CASE Full(p)
  <2> USE <1>4 DEF Full
  <2>1. Private(p)
    BY DEF Private, Shared, SameTexts, Has, Parts
  <2>2. Quiet(p)
    BY Zenon DEF Quiet, Adding, Writing, Doing, Jobs
  <2>3. Own(p)'
    BY DEF Jobs, NoJob, Doing, AddOps, TextOps, Knowing, Masters, Numbered, Past, Deleted,
           Buffered, Adding, Has
  <2> QED
    BY <2>1, <2>2, <2>3
<1> QED
  BY <1>1, <1>2, <1>3, <1>4, Zenon

\* Locking, loading and unlocking in updatepart, and the deletion of
\* attachments: no partfile is written.
LEMMA DirectoryStep ==
  ASSUME IInv, NEW p \in Proc,
         LockDir(p) \/ Load(p) \/ Split(p) \/ Relock(p) \/ UnlockDir(p) \/ KillAttach(p)
  PROVE  Private(p) /\ Quiet(p) /\ Own(p)'
<1>0. Facts(p)
  BY Known, Zenon
<1> USE <1>0 DEF Facts, Goto, Return, files, locks, Own, Locking, InMaster, InDir
<1>1. CASE LockDir(p)
  <2> USE <1>1 DEF LockDir
  <2>1. Private(p)
    BY Zenon DEF Private, Shared, SameTexts
  <2>2. Quiet(p)
    BY DEF Quiet, Adding, Writing, Doing, Jobs
  <2>3. Own(p)'
    BY DEF Jobs, NoJob, Doing, AddOps, TextOps, Knowing, Masters, Numbered, Past, Deleted,
           Buffered, Adding, Has
  <2> QED
    BY <2>1, <2>2, <2>3, Zenon
<1>2. CASE Load(p)
  <2> USE <1>2 DEF Load
  <2>1. JobMoves(p)
    BY JobField, Zenon
  <2>2. Private(p)
    BY <2>1 DEF JobMoves, Private, Shared, SameTexts
  <2>3. Quiet(p)
    BY DEF Quiet, Adding, Writing, Doing, Jobs
  <2>4. Own(p)'
    BY SMTT(20) DEF Jobs, NoJob, Doing, AddOps, TextOps, Knowing, Masters, Numbered, Past,
                    Deleted, Buffered, Adding, Has
  <2> QED
    BY <2>2, <2>3, <2>4
<1>3. CASE Split(p)
  <2>0. /\ UNCHANGED <<master, part, mem, xcma, xcrd, job>>
        /\ DOMAIN pc' = Proc /\ \A q \in Proc \ {p} : pc'[q] = pc[q]
    BY <1>3, Zenon DEF Split
  <2>1. Private(p)
    BY <2>0, PlaceMoves, Zenon DEF SameTexts, JobMoves
  <2> USE <1>3 DEF Split
  <2>2. Quiet(p)
    BY Zenon DEF Quiet, Adding, Writing, Doing, Jobs
  <2>3. Own(p)'
    BY DEF Jobs, NoJob, Doing, AddOps, TextOps, Knowing, Masters, Numbered, Past, Deleted,
           Buffered, Adding, Has
  <2> QED
    BY <2>1, <2>2, <2>3, Zenon
<1>4. CASE Relock(p)
  <2> USE <1>4 DEF Relock
  <2>1. Private(p)
    BY Zenon DEF Private, Shared, SameTexts
  <2>2. Quiet(p)
    BY DEF Quiet, Adding, Writing, Doing, Jobs
  <2>3. Own(p)'
    BY DEF Jobs, NoJob, Doing, AddOps, TextOps, Knowing, Masters, Numbered, Past, Deleted,
           Buffered, Adding, Has
  <2> QED
    BY <2>1, <2>2, <2>3, Zenon
<1>5. CASE UnlockDir(p)
  <2> USE <1>5 DEF UnlockDir
  <2>1. JobMoves(p)
    BY JobField, Zenon
  <2>2. Private(p)
    BY <2>1 DEF JobMoves, Private, Shared, SameTexts
  <2>3. Quiet(p)
    BY SMTT(30) DEF Quiet, Adding, Writing, Doing, Jobs
  <2>4. Own(p)'
    BY DEF Jobs, NoJob, Doing, AddOps, TextOps, Knowing, Masters, Numbered, Past, Deleted,
           Buffered, Adding, Has
  <2> QED
    BY <2>2, <2>3, <2>4
<1>6. CASE KillAttach(p)
  <2> USE <1>6 DEF KillAttach
  <2>1. JobMoves(p)
    <3>1. PICK r : job' = [job EXCEPT ![p].todo = @ \ {r}]
      BY Zenon
    <3>2. job[p].todo \ {r} \in SUBSET Nat
      BY DEF Jobs
    <3> QED
      BY <3>1, <3>2, JobField, Zenon
  <2>2. Private(p)
    BY <2>1 DEF JobMoves, Private, Shared, SameTexts
  <2>3. Quiet(p)
    BY Zenon DEF Quiet, Adding, Writing, Doing, Jobs
  <2>4. Own(p)'
    BY DEF Jobs, NoJob, Doing, AddOps, TextOps, Knowing, Masters, Numbered, Past, Deleted,
           Buffered, Adding, Has
  <2> QED
    BY <2>2, <2>3, <2>4
<1> QED
  BY <1>1, <1>2, <1>3, <1>4, <1>5, <1>6, Zenon

\* Attachments are files of their own.
LEMMA AttachmentStep ==
  ASSUME IInv, NEW p \in Proc,
         LockAttach(p) \/ Copy(p) \/ Again(p) \/ KillAttachment(p) \/ UnlockAttach(p)
  PROVE  Private(p) /\ Quiet(p) /\ Own(p)'
<1>0. Facts(p)
  BY Known, Zenon
<1> USE <1>0 DEF Facts, Goto, Return, files, locks, Own, Locking, InMaster, InDir
<1>1. CASE LockAttach(p)
  <2> USE <1>1 DEF LockAttach
  <2>1. Private(p)
    BY Zenon DEF Private, Shared, SameTexts
  <2>2. Quiet(p)
    BY DEF Quiet, Adding, Writing, Doing, Jobs
  <2>3. Own(p)'
    BY DEF Jobs, NoJob, Doing, AddOps, TextOps, Knowing, Masters, Numbered, Past, Deleted,
           Buffered, Adding, Has
  <2> QED
    BY <2>1, <2>2, <2>3
<1>2. CASE Copy(p)
  <2> USE <1>2 DEF Copy
  <2>1. JobMoves(p)
    <3>1. PICK op \in {"annotate", "backout"} : job' = [job EXCEPT ![p].op = op]
      BY Zenon
    <3> QED
      BY <3>1, JobField, Zenon
  <2>2. Private(p)
    BY <2>1 DEF JobMoves, Private, Shared, SameTexts
  <2>3. Quiet(p)
    BY DEF Quiet, Adding, Writing, Doing, Jobs
  <2>4. Own(p)'
    BY DEF Jobs, NoJob, Doing, AddOps, TextOps, Knowing, Masters, Numbered, Past, Deleted,
           Buffered, Adding, Has
  <2> QED
    BY <2>2, <2>3, <2>4
<1>3. CASE Again(p)
  <2> USE <1>3 DEF Again
  <2>1. JobMoves(p)
    <3>1. PICK b \in BOOLEAN : job' = [job EXCEPT ![p].note = b]
      BY Zenon
    <3> QED
      BY <3>1, JobField, Zenon
  <2>2. Private(p)
    BY <2>1 DEF JobMoves, Private, Shared, SameTexts
  <2>3. Quiet(p)
    BY DEF Quiet, Adding, Writing, Doing, Jobs
  <2>4. Own(p)'
    <3>1. Locking(p)'
      BY DEF Jobs, NoJob, Doing, AddOps, TextOps
    <3>2. Knowing(p)'
      BY Zenon DEF Knowing
    <3>3. Numbered(p)'
      BY DEF Jobs, NoJob, Doing, Numbered, Past, Knowing, Deleted
    <3>4. Buffered(p)'
      BY Zenon DEF Jobs, Doing, Buffered, Adding
    <3> QED
      BY <3>1, <3>2, <3>3, <3>4, Zenon
  <2> QED
    BY <2>2, <2>3, <2>4
<1>4. CASE KillAttachment(p)
  <2> USE <1>4 DEF KillAttachment
  <2>1. JobMoves(p)
    BY JobField, Zenon
  <2>2. Private(p)
    BY <2>1, Zenon DEF JobMoves, Private, Shared, SameTexts
  <2>3. Quiet(p)
    BY DEF Quiet, Adding, Writing, Doing, Jobs
  <2>4. Own(p)'
    BY Zenon DEF Jobs, NoJob, Doing, AddOps, TextOps, Knowing, Masters, Numbered, Past, Deleted,
           Buffered, Adding, Has
  <2> QED
    BY <2>2, <2>3, <2>4
<1>5. CASE UnlockAttach(p)
  <2> USE <1>5 DEF UnlockAttach
  <2>1. JobMoves(p)
    BY JobField, Zenon
  <2>2. Private(p)
    BY <2>1, Zenon DEF JobMoves, Private, Shared, SameTexts
  <2>3. Quiet(p)
    BY DEF Quiet, Adding, Writing, Doing, Jobs
  <2>4. Own(p)'
    BY DEF Jobs, NoJob, Doing, AddOps, TextOps, Knowing, Masters, Numbered, Past, Deleted,
           Buffered, Adding, Has
  <2> QED
    BY <2>2, <2>3, <2>4
<1> QED
  BY <1>1, <1>2, <1>3, <1>4, <1>5, Zenon

\* frz_ditem writes a header and no text.
LEMMA FreezeStep ==
  ASSUME IInv, NEW p \in Proc,
         FreezeLock(p) \/ FreezeSet(p)
  PROVE  Private(p) /\ Quiet(p) /\ Own(p)'
<1>0. Facts(p)
  BY Known, Zenon
<1> USE <1>0 DEF Facts, Goto, Return, files, locks, Own, Locking, InMaster, InDir
<1>1. CASE FreezeLock(p)
  <2> USE <1>1 DEF FreezeLock
  <2>1. Private(p)
    BY Zenon DEF Private, Shared, SameTexts
  <2>2. Quiet(p)
    BY DEF Quiet, Adding, Writing, Doing, Jobs
  <2>3. Own(p)'
    BY Zenon DEF Jobs, NoJob, Doing, AddOps, TextOps, Knowing, Masters, Numbered, Past, Deleted,
           Buffered, Adding, Has
  <2> QED
    BY <2>1, <2>2, <2>3, Zenon
<1>2. CASE FreezeSet(p)
  <2>0. /\ UNCHANGED <<master, mem, xcma, xcrd>> /\ job' = [job EXCEPT ![p] = NoJob]
        /\ pc[p] = "frzset" /\ pc' = [pc EXCEPT ![p] = "idle"]
    BY <1>2 DEF FreezeSet
  <2>1. JobMoves(p) /\ job'[p] = NoJob
    BY <2>0, JobField, Zenon
  <2>2. DOMAIN pc' = Proc /\ pc'[p] = "idle" /\ \A q \in Proc \ {p} : pc'[q] = pc[q]
    BY <2>0
  <2>3. part' \in [Items -> Parts \cup {Absent}] /\ \A i \in Items : SameTexts(i)
    <3> DEFINE i == job[p].item
    <3>1. part' = part \/ (Has(i, 0) /\ \E n \in Nat : part' = [part EXCEPT ![i].froz = n])
      BY <1>2, Zenon DEF FreezeSet, Has, Parts
    <3>2. CASE part' = part
      BY <3>2 DEF SameTexts
    <3>3. ASSUME NEW n \in Nat, part' = [part EXCEPT ![i].froz = n], Has(i, 0)
          PROVE  part' \in [Items -> Parts \cup {Absent}] /\ \A k \in Items : SameTexts(k)
      <4> DEFINE new == [part[i] EXCEPT !.froz = n]
      <4>1. part[i] \in Parts /\ i \in Items /\ part' = [part EXCEPT ![i] = new]
        BY <3>3 DEF Has
      <4>2. new \in Parts /\ new.texts = part[i].texts
        BY <4>1 DEF Parts
      <4> HIDE DEF new
      <4> QED
        BY <4>1, <4>2 DEF SameTexts
    <3> QED
      BY <3>1, <3>2, <3>3, Zenon
  <2>4. Private(p)
    BY <2>0, <2>1, <2>2, <2>3, PlaceMoves, Zenon
  <2>5. Quiet(p)
    BY <2>0, <2>2 DEF Quiet, Adding, Writing
  <2>6. Own(p)'
    BY <2>0, <2>1, <2>2 DEF Jobs, NoJob, Doing, Knowing, Numbered, Past, Buffered, Adding
  <2> QED
    BY <2>4, <2>5, <2>6, Zenon
<1> QED
  BY <1>1, <1>2, Zenon

\* Death leaves the files as they are, and no lock behind.
LEMMA CrashStep ==
  ASSUME IInv, NEW p \in Proc, Crash(p)
  PROVE  Private(p) /\ Quiet(p) /\ Own(p)'
<1>1. Facts(p)
  BY Known
<1>2. /\ pc' = [pc EXCEPT ![p] = "idle"] /\ job' = [job EXCEPT ![p] = NoJob]
      /\ mem' = [mem EXCEPT ![p] = NoMaster] /\ UNCHANGED <<master, part>>
      /\ xcma' = IF xcma = p THEN Nobody ELSE xcma
      /\ xcrd' = [i \in DOMAIN xcrd |-> IF xcrd[i] = p THEN Nobody ELSE xcrd[i]]
  BY Zenon DEF Crash, Goto, Return, files
<1>3. /\ pc'[p] = "idle" /\ job'[p] = NoJob /\ mem'[p] = NoMaster
      /\ \A q \in Proc \ {p} : pc'[q] = pc[q] /\ job'[q] = job[q] /\ mem'[q] = mem[q]
  BY <1>1, <1>2, Zenon DEF Facts
<1>4. Private(p)
  <2>1. job' \in [Proc -> Jobs] /\ mem' \in [Proc -> Masters \cup {NoMaster}] /\ DOMAIN pc' = Proc
    BY <1>1, <1>2 DEF Facts
  <2>2. /\ xcma' \in Proc \cup {Nobody} /\ xcrd' \in [Items -> Proc \cup {Nobody}]
        /\ xcma' = xcma \/ {xcma, xcma'} \subseteq {p, Nobody}
        /\ \A i \in Items : xcrd'[i] = xcrd[i] \/ {xcrd[i], xcrd'[i]} \subseteq {p, Nobody}
    BY <1>1, <1>2 DEF Facts
  <2>3. Shared'
    BY <1>1, <1>2, <2>1, <2>2, Zenon DEF Facts, Shared
  <2> QED
    BY <1>2, <1>3, <2>2, <2>3 DEF Private, SameTexts
<1>5. Quiet(p)
  BY <1>3 DEF Quiet, Adding, Writing
<1>6. xcma' # p
  BY <1>1, <1>2 DEF Facts
<1>7. Own(p)'
  BY <1>3, <1>6 DEF Own, Locking, InMaster, InDir, Doing, Knowing, Numbered, Past, Buffered, Adding,
                    NoJob
<1> QED
  BY <1>4, <1>5, <1>7

\* An operation begins with a check.
LEMMA BeginStep ==
  ASSUME IInv, NEW p \in Proc, NEW op \in Ops, NEW i \in Items, NEW r \in Nums, Begin(p, op, i, r)
  PROVE  Private(p) /\ Quiet(p) /\ Own(p)'
<1>0. Facts(p)
  BY Known
<1> USE <1>0 DEF Facts, Begin, Goto, files, locks, Own, Locking, InMaster, InDir
<1>1. op \in AllOps
  BY ConferenceAssumption
<1>2. JobMoves(p) /\ job'[p].op = op /\ job'[p].item = i /\ job'[p].resp = r
  BY <1>1, Zenon DEF JobMoves, NoJob, Jobs
<1>3. pc'[p] \in {"look", "peek", "room", "master"}
  BY <1>1 DEF AllOps
<1>4. Private(p)
  BY <1>2 DEF JobMoves, Private, Shared, SameTexts
<1>5. Quiet(p)
  BY <1>3, Zenon DEF Quiet, Adding, Writing
<1>6. Own(p)'
  <2>1. Locking(p)'
    BY <1>1, <1>2 DEF Doing, AllOps, AddOps
  <2>2. Knowing(p)'
    BY <1>3, Zenon DEF Knowing
  <2>3. Numbered(p)'
    BY <1>1, <1>2 DEF Numbered, Past, AllOps
  <2>4. Buffered(p)'
    BY <1>3, Zenon DEF Buffered, Adding
  <2> QED
    BY <2>1, <2>2, <2>3, <2>4, Zenon
<1> QED
  BY <1>4, <1>5, <1>6, Zenon

\* chg_dresp goes on to write under an old number only if it has a text, and
\* then nobody is adding under that number.
LEMMA ReadStep ==
  ASSUME IInv, NEW p \in Proc, Read(p)
  PROVE  Private(p) /\ Own(p)' /\ Apart(p)'
<1>0. Facts(p)
  BY Known
<1> USE <1>0 DEF Facts, Read, Goto, Return, files, locks, Own, Locking, InMaster, InDir
<1> DEFINE i == job[p].item
           m == IF mem[p] = NoMaster THEN master ELSE mem[p]
<1>1. m \in Masters /\ m.items <= master.items
  BY DEF Knowing, Masters
<1>2. \/ job' = [job EXCEPT ![p].head = part[i].froz] /\ Has(i, job[p].resp) /\ pc'[p] = "dir"
          /\ i <= m.items
      \/ job' = job /\ pc'[p] = "lockarf" /\ job[p].op = "detach"
      \/ job' = [job EXCEPT ![p] = NoJob] /\ pc'[p] = "idle"
  OBVIOUS
<1>3. JobMoves(p)
  <2>1. Has(i, job[p].resp) => part[i].froz \in Nat
    BY DEF Has, Parts
  <2> QED
    BY <1>2, <2>1, JobField DEF JobMoves
<1>4. Private(p)
  BY <1>1, <1>3 DEF JobMoves, Private, Shared, SameTexts
<1>5. Own(p)'
  <2>1. Locking(p)'
    BY <1>2 DEF Jobs, NoJob, Doing, AddOps, TextOps
  <2>2. Knowing(p)'
    BY <1>1 DEF Knowing
  <2>3. Numbered(p)'
    <3>1. CASE pc'[p] = "dir"
      <4>1. job'[p].item = i /\ job'[p].resp = job[p].resp /\ job'[p].op = job[p].op
            /\ Has(i, job[p].resp) /\ i <= m.items
        BY <1>2, <3>1 DEF Jobs
      <4>2. i <= master.items
        BY <1>1, <4>1 DEF Masters, Items
      <4>3. Deleted(master, i) \/ job[p].resp <= master.responses[i]
        BY <4>1, <4>2 DEF Counted, Has
      <4> QED
        BY <3>1, <4>1, <4>2, <4>3 DEF Numbered, Past, Deleted
    <3>2. CASE pc'[p] # "dir"
      BY <1>2, <3>2, SMTT(30) DEF Numbered, Past, NoJob
    <3> QED
      BY <3>1, <3>2
  <2>4. Buffered(p)'
    BY <1>2 DEF Jobs, NoJob, Buffered, Adding, Doing, AddOps
  <2> QED
    BY <2>1, <2>2, <2>3, <2>4
<1>6. Apart(p)'
  <2> SUFFICES ASSUME NEW q \in Proc \ {p}
               PROVE  Distinct(p, q)' /\ Distinct(q, p)'
    BY DEF Apart
  <2>1. ~Adding(p)'
    BY <1>2 DEF Jobs, NoJob, Adding, Doing, AddOps
  <2>2. (Adding(q)' <=> Adding(q)) /\ job'[q] = job[q]
    BY <1>4 DEF Private, Adding
  <2>3. Writing(p)' => Has(i, job[p].resp) /\ job'[p].item = i /\ job'[p].resp = job[p].resp
    BY <1>2 DEF Writing, Jobs
  <2>4. Adding(q) => ~Has(job[q].item, job[q].resp)
    BY DEF IInv, Buffered
  <2> QED
    BY <2>1, <2>2, <2>3, <2>4 DEF Distinct
<1> QED
  BY <1>4, <1>5, <1>6

-----------------------------------------------------------------------------
(* The steps that write the master file hold its lock, and what they knew  *)
(* of it is what is there.                                                 *)

\* What createitem makes of the master file.
LEMMA OneItemMore ==
  ASSUME master \in Masters, master.items + 1 \in Items
  PROVE  LET i == master.items + 1
             m == [master EXCEPT !.items = i, !.responses[i] = 0] IN
         /\ m \in Masters /\ m.items = i /\ m.responses[i] = 0
         /\ \A k \in Items \ {i} : m.responses[k] = master.responses[k]
<1> DEFINE i == master.items + 1
<1>1. i \in Nat /\ i \in Items
  BY DEF Masters
<1> HIDE DEF i
<1> DEFINE m == [master EXCEPT !.items = i, !.responses[i] = 0]
<1>2. m \in Masters
  <2>1. [master.responses EXCEPT ![i] = 0] \in [Items -> Int]
    BY <1>1 DEF Masters
  <2> QED
    BY <1>1, <2>1, Zenon DEF Masters
<1>3. /\ m.items = i /\ m.responses[i] = 0
      /\ \A k \in Items \ {i} : m.responses[k] = master.responses[k]
  BY <1>1 DEF Masters
<1> QED
  BY <1>2, <1>3 DEF i

\* As many items as before.
LEMMA SameCount ==
  ASSUME master \in Masters, master'.items = master.items
  PROVE  master.items <= master'.items
BY SMTT(30) DEF Masters

\* The number from chg_dresp XT_NEW is above all that the master file counted,
\* and so above those of all who have got past their checks.
LEMMA CountStep ==
  ASSUME IInv, NEW p \in Proc, Count(p)
  PROVE  Frame(p) /\ Counted' /\ Own(p)' /\ Apart(p)'
<1>0. Facts(p)
  BY Known
<1> USE <1>0 DEF Facts, Count, store_master, Goto, locks, Own, Locking, InMaster, InDir
<1> DEFINE i == job[p].item
           r == master.responses[i] + 1
<1>1. /\ mem[p] = master /\ i <= master.items /\ ~Deleted(master, i) /\ r \in Nat
      /\ pc'[p] \in {"full", "unlock"} /\ pc[p] = "counts" /\ job[p].op \in AddOps
  BY DEF Knowing, Masters, Deleted, AddOps
<1>2. JobMoves(p) /\ job'[p].item = i /\ job'[p].resp = r /\ job'[p].op = job[p].op
  BY <1>1, JobField, Zenon DEF Jobs
<1>3. /\ master' \in Masters /\ master'.items = master.items /\ master'.responses[i] = r
      /\ \A k \in Items \ {i} : master'.responses[k] = master.responses[k]
  BY <1>1, SMTT(20) DEF Masters
<1>4. Frame(p)
  <2>1. Shared'
    BY <1>1, <1>2, <1>3, Zenon DEF Shared, JobMoves
  <2>2. \A k \in Items : /\ Deleted(master, k) => Deleted(master', k)
                         /\ Deleted(master', k) \/ master.responses[k] <= master'.responses[k]
    BY <1>1, <1>3 DEF Masters, Deleted
  <2>3. /\ part' = part /\ xcma' = xcma /\ xcrd' = xcrd /\ InMaster(p)
        /\ \A q \in Proc \ {p} : pc'[q] = pc[q] /\ job'[q] = job[q] /\ mem'[q] = mem[q]
    BY <1>1, <1>2 DEF JobMoves
  <2>4. \A k \in Items : SameTexts(k)
    BY <2>3 DEF SameTexts
  <2>5. master.items <= master'.items
    BY <1>3, SameCount, Zenon
  <2> QED
    BY <2>1, <2>2, <2>3, <2>4, <2>5, Zenon DEF Frame
<1>5. Counted'
  <2>1. ASSUME NEW k \in Items, k <= master'.items, ~Deleted(master', k)
        PROVE  /\ part'[k] # Absent /\ 0 \in part'[k].texts
               /\ \A t \in part'[k].texts : t <= master'.responses[k]
    <3>1. k <= master.items /\ ~Deleted(master, k) /\ part' = part
      BY <1>1, <1>3, <2>1 DEF Deleted
    <3>2. /\ part[k] # Absent /\ 0 \in part[k].texts /\ part[k].texts \subseteq Nat
          /\ \A t \in part[k].texts : t <= master.responses[k]
      BY <3>1, Zenon DEF Counted, Parts
    <3>3. master.responses[k] \in Int /\ master'.responses[k] \in {master.responses[k], master.responses[k] + 1}
      BY <1>3, Zenon DEF Masters
    <3> QED
      BY <3>1, <3>2, <3>3, SMTT(30)
  <2> QED
    BY <2>1, Zenon DEF Counted
<1>6. Own(p)'
  <2>1. Locking(p)'
    BY <1>1, <1>2, Zenon DEF Doing, AddOps, TextOps
  <2>2. Knowing(p)'
    BY <1>1, <1>3, SMTT(30) DEF Knowing, Masters
  <2>3. Numbered(p)'
    <3>1. i <= master'.items /\ r <= master'.responses[i] /\ job'[p].op \in AddOps
      BY <1>1, <1>2, <1>3
    <3> QED
      BY <1>1, <1>2, <3>1, Zenon DEF Numbered, AddOps
  <2>4. ~Has(i, r)
    BY <1>1 DEF Counted, Has, Masters
  <2>5. Buffered(p)'
    BY <1>1, <1>2, <2>4, Zenon DEF Buffered, Has
  <2> QED
    BY <2>1, <2>2, <2>3, <2>5, Zenon
<1>7. Apart(p)'
  <2> SUFFICES ASSUME NEW q \in Proc \ {p}
               PROVE  Distinct(p, q)' /\ Distinct(q, p)'
    BY Zenon DEF Apart
  <2>1. (Adding(q)' <=> Adding(q)) /\ (Writing(q)' <=> Writing(q)) /\ job'[q] = job[q]
    BY <1>4, Zenon DEF Frame, Adding, Writing, Deleted
  <2>2. (Adding(q) \/ Writing(q)) /\ job[q].item = i => job[q].resp <= master.responses[i]
    BY <1>1 DEF IInv, Numbered, Adding, Writing, Past, TextOps, Doing
  <2>3. job[q].resp \in Nat /\ master.responses[i] \in Int
    BY DEF Jobs, Masters
  <2> QED
    BY <1>2, <2>1, <2>2, <2>3 DEF Distinct
<1> QED
  BY <1>4, <1>5, <1>6, <1>7

\* The fake partfile is outside of what the master file counts.
LEMMA CreatePartStep ==
  ASSUME IInv, NEW p \in Proc, CreatePart(p)
  PROVE  Frame(p) /\ Counted' /\ Own(p)' /\ Apart(p)'
<1>0. Facts(p)
  BY Known
<1> USE <1>0 DEF Facts, CreatePart, Goto, locks, Own, Locking, InMaster, InDir
<1> DEFINE i == master.items + 1
           m == [master EXCEPT !.items = i, !.responses[i] = 0]
<1>1. /\ mem[p] = master /\ i \in Items /\ NewItem \in Parts /\ m \in Masters
      /\ pc'[p] = "publish" /\ pc[p] = "counts" /\ job[p].op = "item"
  <2>1. mem[p] = master /\ i \in Items
    BY DEF Knowing
  <2>2. NewItem \in Parts
    BY DEF NewItem, Parts
  <2>3. m \in Masters
    BY <2>1, OneItemMore
  <2> QED
    BY <2>1, <2>2, <2>3
<1>2. JobMoves(p) /\ job'[p].item = i /\ job'[p].op = job[p].op /\ job'[p].resp = job[p].resp
  BY <1>1, JobField, Zenon DEF Jobs
<1>3. /\ part' \in [Items -> Parts \cup {Absent}] /\ part'[i] # Absent /\ part'[i].texts = {0}
      /\ \A k \in Items \ {i} : part'[k] = part[k]
  BY <1>1, Zenon DEF NewItem
<1>4. mem' = [mem EXCEPT ![p] = m]
  BY <1>1, Zenon DEF Masters
<1>5. Frame(p)
  <2>1. Shared'
    BY <1>1, <1>2, <1>3, <1>4 DEF Shared, JobMoves
  <2> QED
    BY <2>1, <1>1, <1>2, <1>3, <1>4, SMTT(30) DEF Frame, JobMoves, Masters, Deleted, SameTexts
<1>6. Counted'
  BY <1>1, <1>3, SMTT(30) DEF Counted, Deleted, Masters
<1>7. Own(p)'
  BY <1>1, <1>2, <1>3, <1>4 DEF Doing, Knowing, Numbered, Past, Buffered, Adding
<1>8. Quiet(p)
  BY <1>1, Zenon DEF Quiet, Adding, Writing
<1> QED
  BY <1>5, <1>6, <1>7, <1>8, QuietKeeps

\* When the master file counts the new item, its text is there.
LEMMA PublishStep ==
  ASSUME IInv, NEW p \in Proc, Publish(p)
  PROVE  Frame(p) /\ Counted' /\ Own(p)' /\ Apart(p)'
<1>0. Facts(p)
  BY Known
<1> USE <1>0 DEF Facts, Publish, store_master, Goto, locks, Own, Locking, InMaster, InDir
<1> DEFINE i == master.items + 1
<1>1. /\ job[p].item = i /\ i \in Items /\ part[i] # Absent /\ part[i].texts = {0}
      /\ mem[p] = [master EXCEPT !.items = i, !.responses[i] = 0]
      /\ job[p].op = "item" /\ job[p].resp = 0 /\ pc[p] = "publish" /\ pc'[p] = "unlock"
  BY DEF Knowing, Numbered, Doing
<1>2. /\ master' \in Masters /\ master'.items = i /\ master'.responses[i] = 0
      /\ \A k \in Items \ {i} : master'.responses[k] = master.responses[k]
  BY <1>1, OneItemMore
<1>3. mem' = mem /\ i <= Slots
  BY <1>1, ConferenceAssumption DEF Items
<1>4. Frame(p)
  <2>1. Shared'
    BY <1>2, <1>3, Zenon DEF Shared
  <2> QED
    BY <2>1, <1>1, <1>2, <1>3 DEF Frame, Masters, Deleted, SameTexts
<1>5. Counted'
  <2> SUFFICES ASSUME NEW k \in Items, k <= i, ~Deleted(master', k)
               PROVE  /\ part[k] # Absent /\ 0 \in part[k].texts
                      /\ \A r \in part[k].texts : r <= master'.responses[k]
    BY <1>2 DEF Counted, Deleted
  <2>1. CASE k = i
    BY <1>1, <1>2, <2>1, SMTT(30)
  <2>2. CASE k # i
    <3>1. k <= master.items
      <4>1. k \in Nat /\ master.items \in Nat /\ k <= master.items + 1 /\ k # master.items + 1
        BY <2>2, SMTT(30) DEF Masters, Items
      <4> QED
        BY <4>1, SMTT(30)
    <3> QED
      BY <1>2, <2>2, <3>1, Zenon DEF Counted, Deleted
  <2> QED
    BY <2>1, <2>2, Zenon
<1>6. Own(p)'
  <2>1. Locking(p)' /\ Buffered(p)'
    BY <1>1 DEF Doing, Buffered, Adding
  <2>2. Knowing(p)'
    BY <1>2 DEF Knowing, Masters
  <2>3. Numbered(p)'
    BY <1>1, <1>2, SMTT(30) DEF Numbered, Masters
  <2> QED
    BY <2>1, <2>2, <2>3
<1>7. Apart(p)'
  <2> SUFFICES ASSUME NEW q \in Proc \ {p}
               PROVE  Distinct(p, q)' /\ Distinct(q, p)'
    BY DEF Apart
  <2>1. (Adding(q)' <=> Adding(q)) /\ job'[q] = job[q] /\ job'[p] = job[p] /\ ~Adding(p)'
    BY <1>1, <1>4, SMTT(20) DEF Frame, Adding
  <2>2. Adding(q) => job[q].item <= master.items
    BY Zenon DEF IInv, Numbered, Adding, Past
  <2>3. Adding(q) => job[q].item # job[p].item
    BY <1>1, <2>2 DEF Masters
  <2> QED
    BY <2>1, <2>3, Zenon DEF Distinct
<1> QED
  BY <1>4, <1>5, <1>6, <1>7

\* itemdel and cus_dattr take no number.
LEMMA MarkStep ==
  ASSUME IInv, NEW p \in Proc, Mark(p) \/ SetAttr(p)
  PROVE  Frame(p) /\ Counted' /\ Own(p)' /\ Apart(p)'
<1>0. Facts(p)
  BY Known
<1> USE <1>0 DEF Facts, Mark, SetAttr, store_master, Goto, locks, Own, Locking, InMaster, InDir
<1> DEFINE i == job[p].item
<1>1. /\ mem[p] = master /\ pc[p] = "counts" /\ pc'[p] = "unlock" /\ job[p].op \in {"zap", "attr"}
      /\ mem' = [mem EXCEPT ![p] = master']
  BY DEF Knowing
<1>2. /\ master' \in Masters /\ master'.items = master.items
      /\ \A k \in Items : Deleted(master', k) \/ master'.responses[k] = master.responses[k]
      /\ job[p].op = "zap" => Deleted(master', i)
      /\ \A k \in Items : Deleted(master, k) => Deleted(master', k)
  <2>1. CASE Mark(p)
    <3>1. master' = [master EXCEPT !.responses[i] = -1] /\ master.responses \in [Items -> Int]
      BY <1>1, <2>1 DEF Masters
    <3> QED
      BY <1>1, <3>1 DEF Masters, Deleted
  <2>2. CASE SetAttr(p)
    BY <1>1, <2>2, Zenon DEF Masters, Deleted
  <2> QED
    BY <2>1, <2>2
<1>3. Frame(p)
  <2>1. Shared'
    BY <1>1, <1>2 DEF Shared
  <2> QED
    BY <2>1, <1>1, <1>2 DEF Frame, Masters, SameTexts
<1>4. Counted'
  BY <1>2 DEF Counted
<1>5. Own(p)'
  <2>1. Locking(p)' /\ Buffered(p)'
    BY <1>1 DEF Doing, Buffered, Adding
  <2>2. Knowing(p)'
    BY <1>1, <1>2 DEF Knowing, Masters
  <2>3. Numbered(p)'
    BY <1>1, <1>2 DEF Numbered, Past
  <2> QED
    BY <2>1, <2>2, <2>3
<1>6. Quiet(p)
  BY <1>1 DEF Quiet, Adding, Writing, TextOps
<1> QED
  BY <1>3, <1>4, <1>5, <1>6, QuietKeeps

-----------------------------------------------------------------------------
(* The steps that write texts hold the item's directory.                   *)

\* One more text.
LEMMA OneTextMore ==
  ASSUME NEW i, NEW STATE r,
         part'[i].texts = (IF part[i] = Absent THEN {} ELSE part[i].texts) \cup {r}
  PROVE  \A k \in Nat : Has(i, k)' => Has(i, k) \/ k = r
BY DEF Has

\* updatepart stores the texts it loaded and its own, which is counted.
LEMMA StoreStep ==
  ASSUME IInv, NEW p \in Proc, Store(p)
  PROVE  Frame(p) /\ Counted' /\ Own(p)' /\ Apart(p)'
<1>0. Facts(p)
  BY Known
<1> USE <1>0 DEF Facts, Store, Goto, Own, Locking, InMaster, InDir
<1> DEFINE i == job[p].item
           r == job[p].resp
<1>1. /\ pc[p] \in {"store", "rewrite"} /\ pc'[p] = "undir" /\ job[p].op \in TextOps
      /\ i <= master.items /\ r \in Nat /\ Writing(p)
      /\ Deleted(master, i) \/ r <= master.responses[i]
  BY DEF Doing, Numbered, Past, Jobs, Writing
<1>2. JobMoves(p) /\ job'[p].item = i /\ job'[p].op = job[p].op /\ job'[p].resp = r
  BY JobField, Zenon DEF Jobs
<1>3. /\ part'[i] \in Parts
      /\ part'[i].texts = (IF part[i] = Absent THEN {} ELSE part[i].texts) \cup {r}
      /\ \A k \in Items \ {i} : part'[k] = part[k]
      /\ part' \in [Items -> Parts \cup {Absent}]
  <2> DEFINE buf == IF job[p].buf = Absent THEN [NewItem EXCEPT !.texts = {}] ELSE job[p].buf
  <2>1. buf \in Parts /\ buf.texts = IF part[i] = Absent THEN {} ELSE part[i].texts
    BY <1>1, Zenon DEF Buffered, NewItem, Jobs, Parts
  <2>2. part'[i] \in Parts /\ part'[i].texts = buf.texts \cup {r}
    BY <1>1, <2>1, SMTT(20) DEF Parts, Jobs
  <2> QED
    BY <2>1, <2>2
<1>4. Frame(p)
  <2>1. Shared'
    <3>1. DOMAIN pc' = Proc /\ UNCHANGED <<master, mem, xcma, xcrd>>
      OBVIOUS
    <3> QED
      BY <1>2, <1>3, <3>1, Zenon DEF Shared, JobMoves
  <2>2. \A j \in Items : j = i => \A k \in Nat : Has(j, k)' => Has(j, k) \/ k = r
    <3> HIDE <1>0 DEF i, r, Store, Facts
    <3> QED
      BY <1>3, OneTextMore, Zenon
  <2>3. \A k \in Items : SameTexts(k) \/ (InDir(p) /\ k = i /\ k <= master.items)
    <3>1. InDir(p) /\ i <= master.items
      BY <1>1, Zenon
    <3>2. \A k \in Items \ {i} : SameTexts(k)
      BY <1>3, Zenon DEF SameTexts
    <3> QED
      BY <3>1, <3>2
  <2>4. master' = master /\ xcma' = xcma /\ xcrd' = xcrd /\ mem' = mem
        /\ \A q \in Proc \ {p} : pc'[q] = pc[q] /\ job'[q] = job[q]
    BY <1>2, Zenon DEF JobMoves
  <2> QED
    BY <2>1, <2>2, <2>3, <2>4, <1>1 DEF Frame, Masters, Deleted
<1>5. Counted'
  <2> SUFFICES ASSUME NEW k \in Items, k <= master.items, ~Deleted(master, k)
               PROVE  /\ part'[k] # Absent /\ 0 \in part'[k].texts
                      /\ \A n \in part'[k].texts : n <= master.responses[k]
    BY DEF Counted, Deleted
  <2>1. /\ part[k] # Absent /\ 0 \in part[k].texts
        /\ \A n \in part[k].texts : n <= master.responses[k]
    BY DEF Counted
  <2>2. CASE k = i
    <3>1. part'[i].texts = part[i].texts \cup {r} /\ part'[i] # Absent
      BY <1>3, <2>1, <2>2, Zenon
    <3>2. r <= master.responses[i]
      BY <1>1, <2>2, Zenon
    <3> QED
      BY <2>1, <2>2, <3>1, <3>2, Zenon
  <2>3. CASE k # i
    BY <1>3, <2>1, <2>3, Zenon
  <2> QED
    BY <2>2, <2>3, Zenon
<1>6. Own(p)'
  BY <1>1, <1>2, Zenon DEF Doing, TextOps, Knowing, Numbered, Past, Deleted, Buffered, Adding
<1>7. Quiet(p)
  BY <1>1, <1>2 DEF Quiet, Adding
<1> QED
  BY <1>4, <1>5, <1>6, <1>7, QuietKeeps

\* itemdel removes the texts of an item that is marked as deleted.
LEMMA KillPartsStep ==
  ASSUME IInv, NEW p \in Proc, KillParts(p)
  PROVE  Frame(p) /\ Counted' /\ Own(p)' /\ Apart(p)'
<1> DEFINE i == job[p].item
<1>0. Facts(p)
  BY Known
<1>1. /\ pc[p] = "kill" /\ job[p].op = "zap" /\ i <= master.items /\ i \in Items
      /\ Deleted(master, i) /\ InDir(p)
  <2>1. pc[p] = "kill" /\ i \in Items /\ Doing(p) /\ Numbered(p)
    BY <1>0, Zenon DEF KillParts, Facts, Own, Locking
  <2> QED
    BY <2>1, Zenon DEF Doing, Numbered, Past, InDir
<1>2. /\ part' = [part EXCEPT ![i] = Absent] /\ pc' = [pc EXCEPT ![p] = "undir"]
      /\ UNCHANGED <<master, mem, xcma, xcrd, job>>
  BY DEF KillParts, Goto, locks
<1>3. /\ part' \in [Items -> Parts \cup {Absent}] /\ part'[i] = Absent
      /\ \A k \in Items \ {i} : part'[k] = part[k]
      /\ DOMAIN pc' = Proc /\ pc'[p] = "undir" /\ \A q \in Proc \ {p} : pc'[q] = pc[q]
  BY <1>0, <1>1, <1>2, SMTT(20) DEF Facts
<1>4. Frame(p)
  <2>1. Shared'
    BY <1>0, <1>2, <1>3, Zenon DEF Facts, Shared
  <2>2. \A k \in Items : SameTexts(k) \/ (k = i /\ \A n \in Nat : ~Has(k, n)')
    BY <1>3 DEF SameTexts, Has
  <2>3. master.items \in Nat /\ master.responses \in [Items -> Int]
    BY <1>0 DEF Facts, Masters
  <2>4. /\ master.items <= master'.items
        /\ \A k \in Items : /\ Deleted(master, k) => Deleted(master', k)
                            /\ master.responses[k] <= master'.responses[k]
    BY <1>2, <2>3, SMTT(30) DEF Deleted
  <2> QED
    BY <1>1, <1>2, <1>3, <2>1, <2>2, <2>4, Zenon DEF Frame
<1>5. Counted'
  BY <1>0, <1>1, <1>2, <1>3, Zenon DEF Facts, Counted, Deleted
<1>6. Own(p)'
  BY <1>0, <1>1, <1>2, <1>3, Zenon DEF Facts, Own, Locking, InMaster, InDir, Doing, TextOps, Knowing,
                                Numbered, Past, Deleted, Buffered, Adding
<1>7. Quiet(p)
  BY <1>1, <1>2, <1>3, Zenon DEF Quiet, Adding, Writing
<1> QED
  BY <1>4, <1>5, <1>6, <1>7, QuietKeeps, Zenon

-----------------------------------------------------------------------------
(* The theorems.                                                           *)

\* A conference begins with one item and no responses.
LEMMA InitInv == Init => IInv
<1> SUFFICES ASSUME Init PROVE IInv
  OBVIOUS
<1>0. 1 \in Items
  <2>1. Slots \in Nat /\ Slots # 0
    BY ConferenceAssumption
  <2> QED
    BY <2>1 DEF Items
<1>1. 1 \in Items /\ NewItem \in Parts /\ NoJob \in Jobs
  <2>1. NewItem \in Parts
    <3>1. {0} \in SUBSET Nat /\ 0 \in Nat /\ {} \in SUBSET Nat
      OBVIOUS
    <3> QED
      BY <3>1, Zenon DEF NewItem, Parts
  <2>2. NoJob \in Jobs
    BY <1>0 DEF NoJob, Jobs
  <2> QED
    BY <1>0, <2>1, <2>2, Zenon
<1> USE DEF Init
<1>2. Shared
  <2>1. Slots \in Nat /\ Slots # 0
    BY ConferenceAssumption
  <2> QED
    BY <1>1, <2>1, SMTT(30) DEF Shared, Masters
<1>3. Counted
  <2>1. Absent \notin Parts
    BY ConferenceAssumption DEF Parts
  <2>2. ASSUME NEW i \in Items, i <= master.items PROVE i = 1
    BY <2>2 DEF Items
  <2>3. part[1] = NewItem /\ master.responses[1] = 0
    BY <1>1, Zenon
  <2>4. NewItem # Absent /\ NewItem.texts = {0}
    BY <1>1, <2>1, Zenon DEF NewItem
  <2> HIDE DEF Init
  <2>5. part[1] # Absent /\ 0 \in part[1].texts /\ \A r \in part[1].texts : r <= master.responses[1]
    BY <2>3, <2>4, Above, Zenon
  <2> QED
    BY <2>2, <2>5, Zenon DEF Counted
<1>4. ASSUME NEW p \in Proc
      PROVE  Own(p) /\ Apart(p)
  BY ConferenceAssumption, Zenon DEF Own, Locking, Doing, InMaster, InDir, Knowing, Numbered, Past, Buffered, Adding,
         Apart, Distinct, NoJob
<1> QED
  BY <1>2, <1>3, <1>4 DEF IInv

\* Every step of p is one of the above.
LEMMA ProcStep ==
  ASSUME IInv, NEW p \in Proc,
         \/ \E op \in Ops, i \in Items, r \in Nums : Begin(p, op, i, r)
         \/ Forget(p) \/ Step(p) \/ Crash(p)
  PROVE  Frame(p) /\ Counted' /\ Own(p)' /\ Apart(p)'
<1>1. CASE Private(p) /\ Quiet(p) /\ Own(p)'
  BY <1>1, PrivateKeeps, QuietKeeps
<1>2. CASE \E op \in Ops, i \in Items, r \in Nums : Begin(p, op, i, r)
  BY <1>1, <1>2, BeginStep
<1>3. CASE Forget(p) \/ Look(p) \/ Room(p) \/ Peek(p)
  BY <1>1, <1>3, CheckStep
<1>4. CASE Read(p)
  BY <1>4, ReadStep, PrivateKeeps, Zenon
<1>5. CASE Master(p)
  BY <1>1, <1>5, MasterStep, CountStep, CreatePartStep, PublishStep, MarkStep, Zenon DEF Master
<1>6. CASE Directory(p)
  BY <1>1, <1>6, DirectoryStep, StoreStep, KillPartsStep DEF Directory
<1>7. CASE Attachment(p)
  BY <1>1, <1>7, AttachmentStep DEF Attachment
<1>8. CASE FreezeLock(p) \/ FreezeSet(p) \/ Crash(p)
  BY <1>1, <1>8, FreezeStep, CrashStep
<1> QED
  BY <1>2, <1>3, <1>4, <1>5, <1>6, <1>7, <1>8, Zenon DEF Step, Check

\* So the invariant is inductive.
LEMMA NextInv == IInv /\ [Next]_vars => IInv'
<1> SUFFICES ASSUME IInv, [Next]_vars PROVE IInv'
  OBVIOUS
<1>1. CASE UNCHANGED vars
  <2>0. UNCHANGED <<master, part, mem, xcma, xcrd, pc, job>>
    BY <1>1 DEF vars, files, locks
  <2>1. Shared' /\ Counted'
    BY <2>0, Zenon DEF IInv, Shared, Counted, Deleted
  <2>2. ASSUME NEW p \in Proc PROVE Own(p)'
    <3>1. Locking(p)' /\ Knowing(p)'
      BY <2>0, Zenon DEF IInv, Own, Locking, Doing, InMaster, InDir, Knowing
    <3>2. Numbered(p)' /\ Buffered(p)'
      BY <2>0, Zenon DEF IInv, Own, Numbered, Past, Deleted, Buffered, Adding, Has
    <3> QED
      BY <3>1, <3>2 DEF Own
  <2>3. ASSUME NEW p \in Proc PROVE Apart(p)'
    BY <2>0, Zenon DEF IInv, Apart, Distinct, Adding, Writing, Deleted
  <2> QED
    BY <2>1, <2>2, <2>3 DEF IInv
<1>2. CASE Next
  <2>1. PICK p \in Proc : Frame(p) /\ Counted' /\ Own(p)' /\ Apart(p)'
    BY <1>2, ProcStep DEF Next
  <2>2. ASSUME NEW q \in Proc, q # p
        PROVE  Own(q)' /\ Apart(q)'
    <3>1. Own(q)' /\ \A r \in Proc \ {p, q} : Distinct(q, r)'
      BY <2>1, <2>2, FrameKeeps
    <3>2. ASSUME NEW r \in Proc \ {q}
          PROVE  Distinct(q, r)' /\ Distinct(r, q)'
      <4>1. CASE r = p
        BY <2>1, <2>2, <4>1 DEF Apart
      <4>2. CASE r # p
        BY <2>1, <2>2, <3>1, <4>2, FrameKeeps
      <4> QED
        BY <4>1, <4>2
    <3> QED
      BY <3>1, <3>2 DEF Apart
  <2> QED
    BY <2>1, <2>2, Zenon DEF IInv, Frame
<1> QED
  BY <1>1, <1>2

\* The invariant holds, for every number of subservers, however often they die.
THEOREM Invariance == Spec => []IInv
  BY InitInv, NextInv, PTL DEF Spec

\* For every number of subservers, a response number from chg_dresp is one
\* subserver's alone, and no text has it yet.
THEOREM Unique == Spec => []NumbersUnique
<1>1. IInv => NumbersUnique
  <2> SUFFICES ASSUME IInv, NEW p \in Proc, Adding(p)
               PROVE  /\ \A q \in Proc \ {p} : Adding(q) =>
                           <<job[q].item, job[q].resp>> # <<job[p].item, job[p].resp>>
                      /\ ~Has(job[p].item, job[p].resp)
    BY Zenon DEF NumbersUnique
  <2>1. ASSUME NEW q \in Proc \ {p}, Adding(q)
        PROVE  job[q].item # job[p].item \/ job[q].resp # job[p].resp
    BY <2>1, Zenon DEF IInv, Apart, Distinct, Adding, Writing, TextOps
  <2> QED
    BY <2>1 DEF IInv, Own, Buffered
<1> QED
  BY Invariance, <1>1, PTL

\* What the invariant says of texts and counts.
LEMMA Agree == IInv => TextsCounted /\ ItemsExist
<1> SUFFICES ASSUME IInv, NEW i \in 1 .. master.items, ~Deleted(master, i)
             PROVE  part[i] # Absent /\ Has(i, 0) /\ part[i].texts \subseteq 0 .. master.responses[i]
  BY DEF TextsCounted, ItemsExist
<1>1. i \in Items /\ i <= master.items /\ master.responses[i] \in Int
  BY ConferenceAssumption DEF IInv, Shared, Masters, Items
<1>2. part[i] # Absent /\ 0 \in part[i].texts
      /\ \A r \in part[i].texts : r <= master.responses[i]
  BY <1>1, Zenon DEF IInv, Counted
<1>3. part[i].texts \subseteq Nat
  BY <1>1, <1>2 DEF IInv, Shared, Parts
<1> QED
  BY <1>1, <1>2, <1>3, SMTT(30) DEF Has

\* The master file counts every response that has a text: chg_dresp counts
\* before it writes.
THEOREM Consistent == Spec => []TextsCounted
<1>1. IInv => TextsCounted
  BY Agree
<1> QED
  BY Invariance, <1>1, PTL

\* Every item that the master file counts has its text: createitem counts an
\* item after it has made its partfile.
THEOREM Present == Spec => []ItemsExist
<1>1. IInv => ItemsExist
  BY Agree
<1> QED
  BY Invariance, <1>1, PTL

\* No update of the master file is lost, whatever the subservers remember of
\* it: each rewrite is one change to what is on disk.
THEOREM NoLostUpdate == Spec => MasterAtomic
<1> DEFINE Change ==
      \/ /\ master.items < Slots
         /\ master' = [master EXCEPT !.items = @ + 1, !.responses[master.items + 1] = 0]
      \/ \E i \in 1 .. master.items :
           /\ ~Deleted(master, i)
           /\ master' = [master EXCEPT !.responses[i] = @ + 1]
      \/ \E i \in 1 .. master.items : master' = [master EXCEPT !.responses[i] = -1]
      \/ master' = [master EXCEPT !.attr = ~@]
<1>1. ASSUME IInv, NEW p \in Proc, Step(p), master' # master
      PROVE  Change
  <2>a. Facts(p)
    BY <1>1, Known
  <2> USE <2>a DEF Facts, Own, Knowing, Numbered, Past
  <2>0. /\ {master.items, job[p].item} \subseteq Nat /\ job[p].item \in 1 .. Slots /\ Slots \in Nat
        /\ Items = 1 .. Slots
    BY <1>1, ConferenceAssumption DEF Masters, Items
  <2>1. Count(p) \/ Publish(p) \/ Mark(p) \/ SetAttr(p)
    BY <1>1, Zenon DEF Step, Check, Master, Directory, Attachment, files, Look, Read, Room,
                       Peek,
         LockMaster, Refused, Full, CreatePart, UnlockMaster, LockDir, Load, Split, Relock, Store,
         UnlockDir, KillAttach, KillParts, LockAttach, Copy, Again, KillAttachment, UnlockAttach,
         FreezeLock, FreezeSet
  <2>2. CASE Count(p)
    <3>1. mem[p] = master /\ job[p].item <= master.items /\ ~Deleted(master, job[p].item)
      BY <1>1, <2>2 DEF Count
    <3>2. master' = [master EXCEPT !.responses[job[p].item] = @ + 1]
      BY <2>2, <3>1 DEF Count, store_master
    <3>3. job[p].item \in 1 .. master.items
      BY <2>0, <3>1
    <3> QED
      BY <3>1, <3>2, <3>3, Zenon
  <2>3. CASE Publish(p)
    BY <1>1, <2>0, <2>3 DEF Publish, store_master
  <2>4. CASE Mark(p)
    <3>1. mem[p] = master /\ job[p].item <= master.items
      BY <1>1, <2>4 DEF Mark
    <3>2. master' = [master EXCEPT !.responses[job[p].item] = -1]
      BY <2>4, <3>1 DEF Mark, store_master
    <3>3. job[p].item \in 1 .. master.items
      BY <2>0, <3>1
    <3> QED
      BY <3>2, <3>3, Zenon
  <2>5. CASE SetAttr(p)
    BY <1>1, <2>0, <2>5 DEF SetAttr, store_master
  <2> QED
    BY <2>1, <2>2, <2>3, <2>4, <2>5
<1>2. IInv /\ [Next]_vars => [Change]_master
  <2> SUFFICES ASSUME IInv, [Next]_vars, master' # master
               PROVE  Change
    OBVIOUS
  <2>1. PICK p \in Proc : Step(p)
    BY Zenon DEF Next, vars, files, Begin, Forget, Crash
  <2> QED
    BY <1>1, <2>1
<1> QED
  BY Invariance, <1>2, PTL DEF Spec, MasterAtomic


-----------------------------------------------------------------------------
(* Who changes what, and who goes where.                                   *)

Asks(p) == \E op \in Ops, i \in Items, r \in Nums : Begin(p, op, i, r)
Moves(p) == Asks(p) \/ Forget(p) \/ Step(p) \/ Crash(p)

\* The steps that change a file, a lock or a history.
LEMMA Changes ==
  ASSUME NEW p \in Proc, Moves(p)
  PROVE  /\ master' # master => Count(p) \/ Publish(p) \/ Mark(p) \/ SetAttr(p)
         /\ part' # part => Full(p) \/ CreatePart(p) \/ Store(p) \/ KillParts(p) \/ FreezeSet(p)
         /\ attach' # attach => KillAttach(p) \/ Copy(p) \/ KillAttachment(p)
         /\ xcrf' # xcrf => \/ Load(p) \/ Split(p) \/ Relock(p) \/ Store(p)
                            \/ FreezeLock(p) \/ FreezeSet(p) \/ Crash(p)
         /\ xarf' # xarf => LockAttach(p) \/ KillAttachment(p) \/ UnlockAttach(p) \/ Crash(p)
         /\ stray' # stray => Store(p) \/ Copy(p) \/ Crash(p)
         /\ lapsed' # lapsed => Store(p) \/ Crash(p)
         /\ jobs' # jobs => Asks(p)
<1>1. CASE Asks(p)
  BY <1>1, Zenon DEF Asks, Begin, files, locks, history
<1>2. CASE Forget(p) \/ Crash(p)
  BY <1>2, Zenon DEF Forget, Crash, files, locks, history
<1>3. CASE Check(p)
  BY <1>3, Zenon DEF Check, Look, Read, Room, Peek, files, locks, history
<1>4. CASE Master(p)
  BY <1>4, Zenon DEF Master, LockMaster, Count, Refused, Full, CreatePart, Publish, Mark,
                     SetAttr, UnlockMaster, files, locks, history
<1>5. CASE Directory(p)
  BY <1>5, Zenon DEF Directory, LockDir, Load, Split, Relock, Store, UnlockDir, KillAttach,
                     KillParts, files, locks, history
<1>6. CASE Attachment(p)
  BY <1>6, Zenon DEF Attachment, LockAttach, Copy, Again, KillAttachment, UnlockAttach,
                     files, locks, history
<1>7. CASE FreezeLock(p) \/ FreezeSet(p)
  BY <1>7, Zenon DEF FreezeLock, FreezeSet, files, locks, history
<1> QED
  BY <1>1, <1>2, <1>3, <1>4, <1>5, <1>6, <1>7, Zenon DEF Moves, Step

\* How p gets where it is.
Arrival(p, l) ==
  /\ l = "look" => Asks(p)
  /\ l = "master" => Asks(p) \/ Look(p) \/ Room(p) \/ LockDir(p)
  /\ l = "counts" => LockMaster(p)
  /\ l = "full" => Count(p)
  /\ l = "publish" => CreatePart(p)
  /\ l = "unlock" => Count(p) \/ Full(p) \/ Publish(p) \/ Mark(p) \/ SetAttr(p)
  /\ l = "dir" => Read(p) \/ UnlockMaster(p) \/ Again(p)
  /\ l = "load" => LockDir(p)
  /\ l = "store" => Load(p)
  /\ l = "relock" => Split(p)
  /\ l = "rewrite" => Relock(p)
  /\ l = "undir" => Store(p) \/ KillParts(p)
  /\ l = "kill" => UnlockMaster(p) \/ KillAttach(p)
  /\ l = "lockarf" => Read(p) \/ Refused(p) \/ UnlockDir(p)
  /\ l = "copy" => LockAttach(p)
  /\ l = "again" => Copy(p)
  /\ l = "unarf" => UnlockDir(p) \/ Again(p)
  /\ l = "killarf" => LockAttach(p) \/ UnlockDir(p) \/ Again(p)
  /\ l = "frzset" => FreezeLock(p)

\* Each place in the code is reached by the step before it only.
LEMMA Arrivals ==
  ASSUME NEW p \in Proc, DOMAIN pc = Proc, Moves(p)
  PROVE  Arrival(p, pc'[p])
<1>0. \A l : Goto(p, l) => pc'[p] = l
  BY Zenon DEF Goto
<1> USE DEF Arrival
<1>1. CASE Asks(p)
  <2>1. PICK op \in Ops : \E i \in Items, r \in Nums : Begin(p, op, i, r)
    BY <1>1 DEF Asks
  <2>2. op \in AllOps
    BY ConferenceAssumption
  <2>3. pc'[p] \in {"look", "peek", "room", "master"}
    BY <2>1, <2>2, <1>0, Zenon DEF Begin, AllOps
  <2> QED
    BY <1>1, <2>3, Zenon
<1>2. CASE Forget(p) \/ Crash(p)
  <2>1. pc'[p] = "idle"
    BY <1>0, <1>2, Zenon DEF Forget, Crash, Return
  <2> QED
    BY <2>1, Zenon
<1>3. CASE Check(p)
  BY <1>0, <1>3, Zenon DEF Check, Look, Read, Room, Peek, Return
<1>4. CASE Master(p)
  BY <1>0, <1>4, Zenon DEF Master, LockMaster, Count, Refused, Full, CreatePart, Publish, Mark,
                     SetAttr, UnlockMaster, Return
<1>5. CASE Directory(p)
  BY <1>0, <1>5, Zenon DEF Directory, LockDir, Load, Split, Relock, Store, UnlockDir, KillAttach,
                     KillParts, Return
<1>6. CASE Attachment(p)
  BY <1>0, <1>6, Zenon DEF Attachment, LockAttach, Copy, Again, KillAttachment, UnlockAttach,
                     Return
<1>7. CASE FreezeLock(p) \/ FreezeSet(p)
  BY <1>0, <1>7 DEF FreezeLock, FreezeSet, Return
<1> QED
  BY <1>1, <1>2, <1>3, <1>4, <1>5, <1>6, <1>7, Zenon DEF Moves, Step

\* And what it does from there.
LEMMA Departures ==
  ASSUME NEW p \in Proc, Moves(p)
  PROVE  /\ pc[p] = "idle" => Asks(p) \/ Forget(p)
         /\ pc[p] = "look" => Look(p) \/ Crash(p)
         /\ pc[p] = "master" => LockMaster(p) \/ Crash(p)
         /\ pc[p] = "publish" => Publish(p) \/ Crash(p)
         /\ pc[p] = "full" => Full(p) \/ Crash(p)
         /\ pc[p] = "unlock" => UnlockMaster(p) \/ Crash(p)
         /\ pc[p] = "kill" => KillAttach(p) \/ KillParts(p) \/ Crash(p)
         /\ pc[p] = "killarf" => KillAttachment(p) \/ Crash(p)
         /\ pc[p] = "unarf" => UnlockAttach(p) \/ Crash(p)
<1>1. CASE Asks(p)
  BY <1>1, Zenon DEF Asks, Begin
<1>2. CASE Forget(p) \/ Crash(p)
  BY <1>2, Zenon DEF Forget, Crash
<1>3. CASE Check(p)
  BY <1>3, Zenon DEF Check, Look, Read, Room, Peek
<1>4. CASE Master(p)
  BY <1>4, Zenon DEF Master, LockMaster, Count, Refused, Full, CreatePart, Publish, Mark, SetAttr,
              UnlockMaster
<1>5. CASE Directory(p)
  BY <1>5, Zenon DEF Directory, LockDir, Load, Split, Relock, Store, UnlockDir, KillAttach, KillParts
<1>6. CASE Attachment(p)
  BY <1>6 DEF Attachment, LockAttach, Copy, Again, KillAttachment, UnlockAttach
<1>7. CASE FreezeLock(p) \/ FreezeSet(p)
  BY <1>7 DEF FreezeLock, FreezeSet
<1> QED
  BY <1>1, <1>2, <1>3, <1>4, <1>5, <1>6, <1>7, Zenon DEF Moves, Step

\* What a step of p leaves of the others.
LEMMA Framed ==
  ASSUME IInv, NEW p \in Proc, Moves(p)
  PROVE  Frame(p) /\ IInv'
<1>1. Frame(p)
  BY ProcStep DEF Moves, Asks
<1>2. IInv'
  <2>1. Next
    BY DEF Moves, Asks, Next
  <2> QED
    BY <2>1, NextInv
<1> QED
  BY <1>1, <1>2

\* The response count of one item, or of none, goes up by one, to zero or to
\* -1.
Rewrite(p) ==
  LET i == job[p].item IN
  \/ master' = master
  \/ /\ Count(p) /\ i <= master.items /\ ~Deleted(master, i)
     /\ master'.items = master.items /\ master'.attr = master.attr
     /\ master'.responses = [master.responses EXCEPT ![i] = @ + 1]
  \/ /\ Publish(p) /\ i = master.items + 1
     /\ master'.items = i /\ master'.attr = master.attr
     /\ master'.responses = [master.responses EXCEPT ![i] = 0]
  \/ /\ Mark(p) /\ i <= master.items
     /\ master'.items = master.items /\ master'.attr = master.attr
     /\ master'.responses = [master.responses EXCEPT ![i] = -1]
  \/ /\ SetAttr(p)
     /\ master'.items = master.items /\ master'.responses = master.responses

LEMMA Rewriting ==
  ASSUME IInv, NEW p \in Proc, Moves(p)
  PROVE  Rewrite(p)
<1> DEFINE i == job[p].item
<1>0. master \in Masters /\ i \in Items /\ Own(p)
  BY Known DEF Facts
<1>1. CASE Count(p)
  <2>1. /\ mem[p] = master /\ i <= master.items /\ ~Deleted(master, i)
        /\ master' = [master EXCEPT !.responses[i] = master.responses[i] + 1]
    BY <1>0, <1>1 DEF Count, store_master, Own, Knowing
  <2> QED
    BY <1>0, <1>1, <2>1, Zenon DEF Masters, Rewrite
<1>2. CASE Publish(p)
  <2>1. i = master.items + 1 /\ master' = [master EXCEPT !.items = i, !.responses[i] = 0]
    BY <1>0, <1>2, Zenon DEF Publish, store_master, Own, Knowing
  <2> QED
    BY <1>0, <1>2, <2>1 DEF Masters, Rewrite
<1>3. CASE Mark(p)
  <2>1. /\ mem[p] = master /\ i <= master.items
        /\ master' = [master EXCEPT !.responses[i] = -1]
    BY <1>0, <1>3 DEF Mark, store_master, Own, Knowing, Numbered, Past
  <2> QED
    BY <1>0, <1>3, <2>1 DEF Masters, Rewrite
<1>4. CASE SetAttr(p)
  <2>1. master' = [master EXCEPT !.attr = ~@]
    BY <1>0, <1>4 DEF SetAttr, store_master, Own, Knowing
  <2> QED
    BY <1>0, <1>4, <2>1 DEF Masters, Rewrite
<1> QED
  BY <1>1, <1>2, <1>3, <1>4, Changes, Zenon DEF Rewrite

\* What p remembers is what it remembered, or what is on disk now, except in
\* createitem.
LEMMA Remembers ==
  ASSUME IInv, NEW p \in Proc, Moves(p)
  PROVE  \/ mem'[p] \in {mem[p], master'}
         \/ (Forget(p) \/ Crash(p)) /\ mem'[p] = NoMaster
         \/ CreatePart(p) /\ mem'[p] = [master EXCEPT !.items = master.items + 1,
                                                      !.responses[master.items + 1] = 0]
<1>0. DOMAIN mem = Proc /\ Knowing(p)
  BY Known DEF Facts, Own
<1>a. \A v : mem' = [mem EXCEPT ![p] = v] => mem'[p] = v
  BY <1>0
<1>1. CASE CreatePart(p)
  BY <1>0, <1>1 DEF CreatePart, Knowing
<1>2. CASE mem' = mem
  BY <1>2
<1>3. CASE Forget(p) \/ Crash(p)
  BY <1>a, <1>3, Zenon DEF Forget, Crash
<1>4. CASE Read(p) \/ LockMaster(p)
  BY <1>a, <1>4, Zenon DEF Read, LockMaster, Loaded, files
<1>5. CASE Count(p) \/ Publish(p) \/ Mark(p) \/ SetAttr(p)
  <2>1. \E m : store_master(p, m)
    BY <1>5, Zenon DEF Count, Publish, Mark, SetAttr
  <2> QED
    BY <1>a, <2>1, Zenon DEF store_master
<1>6. mem' # mem => \/ CreatePart(p) \/ Forget(p) \/ Crash(p) \/ Read(p) \/ LockMaster(p)
                    \/ Count(p) \/ Publish(p) \/ Mark(p) \/ SetAttr(p)
  BY Zenon DEF Moves, Step, Asks, Begin, Check, Look, Room, Peek, Master, Refused, Full,
         UnlockMaster, Directory, LockDir, Load, Split, Relock, Store, UnlockDir, KillAttach,
         KillParts, Attachment, LockAttach, Copy, Again, KillAttachment, UnlockAttach,
         FreezeLock, FreezeSet
<1> QED
  BY <1>1, <1>2, <1>3, <1>4, <1>5, <1>6, Zenon

-----------------------------------------------------------------------------
(* The bounds of the model.                                                *)

JobType == [op : AllOps \cup {"none", "annotate", "backout"}, item : Items, resp : Nums,
            head : 0 .. 2, note : BOOLEAN, buf : PartType \cup {Absent}, todo : SUBSET Nums]

Kinds ==
  /\ master \in MasterType /\ mem \in [Proc -> MasterType \cup {NoMaster}]
  /\ part \in [Items -> PartType \cup {Absent}]
  /\ attach \subseteq Items \X Nums
  /\ xcrf \in [Items -> Proc \cup {Nobody}]
  /\ xarf \in [Items \X Nums -> Proc \cup {Nobody}]
  /\ job \in [Proc -> JobType] /\ jobs \in 0 .. MaxJobs

\* The bound on response numbers: there is room for all who may still ask for
\* one.
Asking(i) ==
  {p \in Proc : job[p].op \in AddOps /\ job[p].item = i /\ pc[p] \in {"look", "master", "counts"}}
Fits == \A i \in Items : master.responses[i] + Cardinality(Asking(i)) <= MaxResp

\* A deleted item was counted.
Marked == \A i \in Items : Deleted(master, i) => i <= master.items

TInv == Kinds /\ Fits /\ Marked

LEMMA Small ==
  /\ Nums \subseteq Nat /\ 0 \in Nums /\ 1 \in Items /\ Items \subseteq Nat
  /\ Nobody \notin Proc /\ Absent \notin PartType /\ NewItem \in PartType /\ NoJob \in JobType
  /\ IsFiniteSet(Proc) /\ Slots \in Nat /\ MaxResp \in Nat /\ MaxJobs \in Nat
  /\ FreezeAt \in Nat /\ FreezeAt # 0
<1>1. /\ Nobody \notin Proc /\ IsFiniteSet(Proc) /\ Slots \in Nat /\ MaxResp \in Nat
      /\ MaxJobs \in Nat /\ Slots # 0 /\ FreezeAt \in Nat /\ FreezeAt # 0
  BY ConferenceAssumption
<1>2. Nums \subseteq Nat /\ 0 \in Nums /\ 1 \in Items /\ Items \subseteq Nat
  BY <1>1 DEF Nums, Items
<1>3. Absent \notin PartType
  <2>1. Absent \notin [texts : SUBSET Nat, froz : Nat, info : SUBSET Nat]
    BY ConferenceAssumption
  <2>2. ASSUME NEW x \in PartType PROVE x \in [texts : SUBSET Nat, froz : Nat, info : SUBSET Nat]
    <3>1. x.texts \subseteq Nums /\ x.froz \in 0 .. 2 /\ x.info \subseteq Nums
      BY DEF PartType
    <3>2. x = [texts |-> x.texts, froz |-> x.froz, info |-> x.info]
      BY Zenon DEF PartType
    <3>3. x.texts \subseteq Nat /\ x.froz \in Nat /\ x.info \subseteq Nat
      <4>1. x.texts \subseteq Nat /\ x.info \subseteq Nat
        BY <1>2, <3>1, Zenon
      <4>2. x.froz \in Nat
        BY <3>1
      <4> QED
        BY <4>1, <4>2
    <3> QED
      BY <3>2, <3>3
  <2> QED
    BY <2>1, <2>2, Zenon
<1>4. NewItem \in PartType
  <2>1. {0} \in SUBSET Nums /\ {} \in SUBSET Nums
    BY <1>2, Zenon
  <2>2. 0 \in 0 .. 2
    BY SMTT(30)
  <2> QED
    BY <2>1, <2>2, Zenon DEF NewItem, PartType
<1>5. NoJob \in JobType
  <2>1. 0 \in 0 .. 2 /\ {} \in SUBSET Nums
    OBVIOUS
  <2> QED
    BY <1>2, <2>1, Zenon DEF NoJob, JobType
<1> QED
  BY <1>1, <1>2, <1>3, <1>4, <1>5, Zenon

-----------------------------------------------------------------------------
(* Attachments, and the info that responses have of them: who has the      *)
(* attachment locked, and that no two subservers write under one number.   *)

\* p has a number for its response, and may still write under it.
Numbers == {"new", "attach", "annotate", "backout"}
Numbering(p) == Writing(p) /\ job[p].op \in Numbers

\* Attachment info, if nobody changes or deletes a response.
Adds == Ops \cap {"edit", "detach"} = {}
Attaching(p) ==
  \/ pc[p] \in {"copy", "again", "killarf", "unarf"}
  \/ job[p].op \in {"annotate", "backout"}
Attached(p) ==
  /\ job[p].op \notin {"edit", "detach"}
  /\ job[p].op \in Numbers /\ pc[p] \notin {"idle", "look", "master"} =>
       (Deleted(mem[p], job[p].item) => Deleted(master, job[p].item))
  /\ job[p].note => job[p].op = "annotate"
  /\ Attaching(p) => xarf[<<job[p].item, job[p].resp>>] = p
  /\ pc[p] = "killarf" => job[p].op \in {"annotate", "backout"}
  /\ job[p].op = "annotate" /\ pc[p] \notin {"killarf", "unarf"} =>
       Deleted(master, job[p].item) \/ <<job[p].item, job[p].resp>> \in attach
  /\ pc[p] \in {"store", "relock", "rewrite"} /\ job[p].buf # Absent =>
       job[p].buf.info = part[job[p].item].info
  /\ pc[p] = "publish" => part[job[p].item].info = {}
  /\ \/ Numbering(p) /\ job[p].op # "annotate"
     \/ pc[p] = "killarf"
     => \/ Deleted(master, job[p].item)
        \/ part[job[p].item] = Absent
        \/ job[p].resp \notin part[job[p].item].info
Infos ==
  \A i \in Items : i <= master.items /\ ~Deleted(master, i) =>
    part[i].info \subseteq part[i].texts /\ \A r \in part[i].info : <<i, r>> \in attach
OwnNumber(p, q) ==
  Numbering(p) /\ Numbering(q) /\ job[p].item = job[q].item => job[p].resp # job[q].resp
AInv ==
  /\ Infos
  /\ \A p \in Proc : Attached(p)
  /\ \A p \in Proc : \A q \in Proc \ {p} : OwnNumber(p, q)

-----------------------------------------------------------------------------

Same(p) ==
  job'[p].op = job[p].op /\ job'[p].item = job[p].item /\ job'[p].resp = job[p].resp
SameNote(p) == job'[p].note = job[p].note
SameBuf(p) == job'[p].buf = job[p].buf

LEMMA Fields ==
  ASSUME job \in [Proc -> Jobs], NEW p \in Proc
  PROVE  /\ \A v : job' = [job EXCEPT ![p].note = v] => Same(p) /\ SameBuf(p) /\ job'[p].note = v
         /\ \A v : job' = [job EXCEPT ![p].todo = v] => Same(p) /\ SameBuf(p) /\ SameNote(p)
         /\ \A v : job' = [job EXCEPT ![p].head = v] => Same(p) /\ SameBuf(p) /\ SameNote(p)
         /\ \A v : job' = [job EXCEPT ![p].buf = v] => Same(p) /\ SameNote(p) /\ job'[p].buf = v
         /\ \A v : job' = [job EXCEPT ![p].op = v] =>
              /\ SameNote(p) /\ SameBuf(p) /\ job'[p].op = v
              /\ job'[p].item = job[p].item /\ job'[p].resp = job[p].resp
         /\ \A v : job' = [job EXCEPT ![p].resp = v] =>
              /\ SameNote(p) /\ SameBuf(p) /\ job'[p].resp = v
              /\ job'[p].item = job[p].item /\ job'[p].op = job[p].op
         /\ \A v : job' = [job EXCEPT ![p].item = v] => SameNote(p) /\ SameBuf(p) /\ job'[p].op = job[p].op
         /\ job' = job => Same(p) /\ SameBuf(p) /\ SameNote(p)
         /\ \A v : job' = [job EXCEPT ![p] = v] => job'[p] = v
  BY DEF Jobs, Same, SameNote, SameBuf

\* What a step does to the job of p.
JobStep(p) ==
  \/ Asks(p) \/ Count(p) \/ Refused(p) \/ CreatePart(p) \/ Copy(p)
  \/ job'[p] = NoJob
  \/ /\ Same(p)
     /\ SameNote(p) \/ Look(p) \/ Again(p)
     /\ SameBuf(p) \/ Load(p) \/ Store(p)

LEMMA JobSteps ==
  ASSUME IInv, NEW p \in Proc, Moves(p)
  PROVE  JobStep(p)
<1>0. job \in [Proc -> Jobs]
  BY Known DEF Facts
<1>a. job' = job => JobStep(p)
  BY <1>0, Fields, Zenon DEF JobStep
<1>b. Return(p) => JobStep(p)
  BY <1>0, Fields, Zenon DEF JobStep, Return
<1>2. CASE Forget(p) \/ Crash(p)
  BY <1>2, <1>a, <1>b, Zenon DEF Forget, Crash
<1>3. CASE Check(p)
  <2>1. CASE Look(p)
    <3>1. Return(p) \/ \E b : job' = [job EXCEPT ![p].note = b]
      BY <2>1, Zenon DEF Look
    <3> QED
      BY <1>0, <1>b, <2>1, <3>1, Fields, Zenon DEF JobStep
  <2>2. CASE Read(p)
    <3>1. Return(p) \/ job' = job \/ \E h : job' = [job EXCEPT ![p].head = h]
      BY <2>2, Zenon DEF Read
    <3> QED
      BY <1>0, <1>a, <1>b, <3>1, Fields, Zenon DEF JobStep
  <2>3. CASE Room(p) \/ Peek(p)
    BY <2>3, <1>a, <1>b, Zenon DEF Room, Peek
  <2> QED
    BY <1>3, <2>1, <2>2, <2>3, Zenon DEF Check
<1>4. CASE Master(p)
  <2>1. CASE LockMaster(p) \/ Full(p) \/ Publish(p) \/ Mark(p) \/ SetAttr(p)
    BY <2>1, <1>a, Zenon DEF LockMaster, Full, Publish, Mark, SetAttr
  <2>2. CASE UnlockMaster(p)
    <3>1. Return(p) \/ job' = job \/ \E t : job' = [job EXCEPT ![p].todo = t]
      BY <2>2, Zenon DEF UnlockMaster
    <3> QED
      BY <1>0, <1>a, <1>b, <3>1, Fields, Zenon DEF JobStep
  <2> QED
    BY <1>4, <2>1, <2>2, Zenon DEF Master, JobStep
<1>5. CASE Directory(p)
  <2>1. CASE LockDir(p) \/ Split(p) \/ Relock(p) \/ KillParts(p)
    BY <2>1, <1>a, Zenon DEF LockDir, Split, Relock, KillParts
  <2>2. CASE Load(p) \/ Store(p)
    <3>1. \E b : job' = [job EXCEPT ![p].buf = b]
      BY <2>2, Zenon DEF Load, Store
    <3> QED
      BY <1>0, <2>2, <3>1, Fields, Zenon DEF JobStep
  <2>3. CASE UnlockDir(p)
    BY <2>3, <1>a, <1>b, Zenon DEF UnlockDir
  <2>4. CASE KillAttach(p)
    <3>1. \E t : job' = [job EXCEPT ![p].todo = t]
      BY <2>4, Zenon DEF KillAttach
    <3> QED
      BY <1>0, <3>1, Fields, Zenon DEF JobStep
  <2> QED
    BY <1>5, <2>1, <2>2, <2>3, <2>4, Zenon DEF Directory
<1>6. CASE Attachment(p)
  <2>1. CASE LockAttach(p)
    BY <2>1, <1>a, Zenon DEF LockAttach
  <2>2. CASE Again(p)
    <3>1. \E b : job' = [job EXCEPT ![p].note = b]
      BY <2>2, Zenon DEF Again
    <3> QED
      BY <1>0, <2>2, <3>1, Fields, Zenon DEF JobStep
  <2>3. CASE KillAttachment(p) \/ UnlockAttach(p)
    BY <2>3, <1>b, Zenon DEF KillAttachment, UnlockAttach
  <2> QED
    BY <1>6, <2>1, <2>2, <2>3, Zenon DEF Attachment, JobStep
<1>7. CASE FreezeLock(p) \/ FreezeSet(p)
  BY <1>7, <1>a, <1>b, Zenon DEF FreezeLock, FreezeSet
<1> QED
  BY <1>2, <1>3, <1>4, <1>5, <1>6, <1>7, Zenon DEF Moves, Step, JobStep

\* A number comes from chg_dresp XT_NEW, and is kept from there to the end.
Keeps(p) ==
  /\ Numbering(p) /\ job'[p].item = job[p].item /\ job'[p].resp = job[p].resp
  /\ job'[p].op = job[p].op \/ (Copy(p) /\ job[p].op = "attach")

LEMMA NumberMoves ==
  ASSUME IInv, NEW p \in Proc, Moves(p), Numbering(p)'
  PROVE  Count(p) \/ Keeps(p)
<1>0. Facts(p) /\ Doing(p) /\ Arrival(p, pc'[p]) /\ job \in [Proc -> Jobs] /\ DOMAIN pc = Proc
  BY Known, Arrivals, Zenon DEF Facts, Own, Locking
<1>1. /\ job'[p].op \in {"new", "attach", "annotate", "backout"}
      /\ \/ pc'[p] \in {"full", "unlock", "dir", "load", "store", "relock", "rewrite"}
         \/ /\ pc'[p] \in {"undir", "lockarf", "copy", "again"}
            /\ ~Deleted(mem'[p], job'[p].item)
  BY Zenon DEF Numbering, Writing, Numbers
<1>2. CASE Copy(p)
  <2>1. /\ pc[p] = "copy" /\ mem' = mem /\ pc'[p] = "again" /\ job[p].op = "attach"
        /\ job'[p].item = job[p].item /\ job'[p].resp = job[p].resp
    <3>1. PICK o : job' = [job EXCEPT ![p].op = o]
      BY <1>2, Zenon DEF Copy
    <3> QED
      BY <1>0, <1>2, <3>1, Fields DEF Copy, Goto, Doing
  <2> QED
    BY <1>1, <1>2, <2>1, Zenon DEF Keeps, Numbering, Writing, Numbers
<1>3. ~Asks(p) /\ ~CreatePart(p) /\ job'[p] # NoJob
  <2>1. CASE Asks(p)
    <3>1. pc'[p] \in {"look", "peek", "room", "master"}
      BY <1>0, <2>1, ConferenceAssumption DEF Asks, Begin, AllOps, Goto
    <3> QED
      BY <1>1, <3>1
  <2>2. CASE CreatePart(p)
    BY <1>0, <1>1, <2>2 DEF CreatePart, Goto
  <2>3. job'[p] # NoJob
    BY <1>1, Idle, Zenon
  <2> QED
    BY <2>1, <2>2, <2>3, Zenon
<1>4. ~Refused(p)
  <2> SUFFICES ASSUME Refused(p) PROVE FALSE
    OBVIOUS
  <2>1. PICK r : job' = [job EXCEPT ![p].resp = r]
    BY <1>0, <1>3, Fields, Zenon DEF Refused, Return
  <2>2. pc'[p] = "lockarf" /\ mem' = mem /\ job'[p].item = job[p].item
    BY <1>0, <1>1, <2>1, Fields DEF Refused, Return, Goto
  <2>3. Deleted(mem[p], job[p].item)
    BY <1>0, <1>3, Fields, Zenon DEF Refused, Return
  <2> QED
    BY <1>1, <2>2, <2>3, Zenon
<1>5. CASE Same(p) /\ ~Count(p)
  <2>0. job[p].op \in {"new", "attach", "annotate", "backout"} /\ job'[p].item = job[p].item
    BY <1>1, <1>5, Zenon DEF Same
  <2>a. ASSUME pc[p] \in {"full", "unlock", "dir", "load", "store", "relock", "rewrite"}
        PROVE  Writing(p)
    BY <2>0, <2>a, Zenon DEF Writing, TextOps
  <2>b. ASSUME pc[p] \in {"undir", "lockarf", "copy", "again"}, pc'[p] \in {"undir", "lockarf", "copy", "again"},
               mem' = mem, job[p].op # "new"
        PROVE  Writing(p)
    BY <1>1, <2>0, <2>b, Zenon DEF Writing
  <2>1. ASSUME Full(p) \/ UnlockMaster(p) \/ LockDir(p) \/ Load(p) \/ Split(p) \/ Relock(p) \/ Store(p)
        PROVE  Writing(p)
    <3>1. pc[p] \in {"full", "unlock", "dir", "load", "store", "relock", "rewrite"}
      BY <2>1, Zenon DEF Full, UnlockMaster, LockDir, Load, Split, Relock, Store
    <3> QED
      BY <2>a, <3>1, Zenon
  <2>2. ASSUME Publish(p) \/ Mark(p) \/ SetAttr(p) \/ KillParts(p) \/ Read(p)
        PROVE  FALSE
    <3>1. job[p].op \in {"item", "zap", "attr", "edit", "detach"}
      BY <1>0, <2>2, Zenon DEF Doing, Publish, Mark, SetAttr, KillParts, Read, AddOps
    <3> QED
      BY <2>0, <3>1, Zenon
  <2>3. ASSUME Again(p)
        PROVE  Writing(p)
    <3>1. pc[p] = "again" /\ mem' = mem /\ pc'[p] = "dir" /\ job[p].op \in {"annotate", "backout"}
      BY <1>0, <1>1, <2>3, Zenon DEF Again, Goto, Doing
    <3>2. ~Deleted(mem[p], job[p].item)
      BY <1>0, <1>1, <2>3, <3>1, Zenon DEF Again, Goto
    <3> QED
      BY <3>1, <3>2 DEF Writing
  <2>4. ASSUME UnlockDir(p)
        PROVE  Writing(p)
    <3>1. pc[p] = "undir" /\ mem' = mem /\ pc'[p] = "lockarf" /\ job[p].op = "attach"
      BY <1>0, <1>1, <2>0, <2>4, Zenon DEF UnlockDir, Goto, Return
    <3> QED
      BY <2>b, <3>1
  <2>5. ASSUME LockAttach(p)
        PROVE  Writing(p)
    <3>1. pc[p] = "lockarf" /\ mem' = mem /\ pc'[p] = "copy" /\ job[p].op = "attach"
      BY <1>0, <1>1, <2>5 DEF LockAttach, Goto, Doing
    <3> QED
      BY <2>b, <3>1, Zenon
  <2>6. Writing(p) \/ Copy(p)
    BY <1>0, <1>1, <1>4, <1>5, <2>1, <2>2, <2>3, <2>4, <2>5, Zenon DEF Arrival
  <2> QED
    BY <1>2, <1>5, <2>0, <2>6, Zenon DEF Same, Keeps, Numbering, Numbers
<1> QED
  BY <1>2, <1>3, <1>4, <1>5, JobSteps, Zenon DEF JobStep

\* Two subservers never write under the same number of an item.
LEMMA OwnKept ==
  ASSUME IInv, NEW p \in Proc, Moves(p), NEW q \in Proc \ {p},
         OwnNumber(p, q), OwnNumber(q, p)
  PROVE  OwnNumber(p, q)' /\ OwnNumber(q, p)'
<1> SUFFICES ASSUME Numbering(p)', Numbering(q)', job'[p].item = job'[q].item
             PROVE  job'[p].resp # job'[q].resp
  BY Zenon DEF OwnNumber
<1>0. pc'[q] = pc[q] /\ job'[q] = job[q] /\ mem'[q] = mem[q]
  BY Framed, Zenon DEF Frame
<1>1. Numbering(q)
  BY <1>0, Zenon DEF Numbering, Writing, Deleted
<1>2. CASE Keeps(p)
  BY <1>0, <1>1, <1>2, Zenon DEF Keeps, OwnNumber
<1>3. CASE Count(p)
  <2>0. Facts(p) /\ Facts(q)
    BY Known, Zenon
  <2>1. /\ job' = [job EXCEPT ![p].resp = master.responses[job[p].item] + 1]
        /\ ~Deleted(master, job[p].item)
    BY <1>3, <2>0, Zenon DEF Facts, Own, Knowing, Count
  <2>2. job'[p].item = job[p].item /\ job'[p].resp = master.responses[job[p].item] + 1
    <3>1. job \in [Proc -> Jobs]
      BY <2>0, Zenon DEF Facts
    <3>2. PICK n : n = master.responses[job[p].item] + 1
      BY Zenon
    <3>3. job' = [job EXCEPT ![p].resp = n]
      BY <2>1, <3>2
    <3>4. job'[p].item = job[p].item /\ job'[p].resp = n
      BY <3>1, <3>3 DEF Jobs
    <3> QED
      BY <3>2, <3>4, Zenon
  <2>3. Past(q)
    <3>1. Doing(q)
      BY <2>0, Zenon DEF Facts, Own, Locking
    <3> QED
      BY <1>1, <3>1, Zenon DEF Numbering, Writing, Past, TextOps, Doing
  <2>4. job[q].resp <= master.responses[job[p].item] /\ job[q].resp \in Nat
        /\ master.responses[job[p].item] \in Int
    <3>1. job[q].resp \in Nat /\ master.responses[job[p].item] \in Int
      BY <1>0, <2>0, Zenon DEF Facts, Jobs, Masters
    <3>2. job[q].resp <= master.responses[job[p].item]
      BY <1>0, <2>0, <2>1, <2>2, <2>3, Zenon DEF Facts, Own, Numbered
    <3> QED
      BY <3>1, <3>2, Zenon
  <2> QED
    BY <1>0, <2>2, <2>4
<1> QED
  BY <1>2, <1>3, NumberMoves, Zenon

\* Attachment info comes from updatepart for the response it stores, and goes
\* with it.
LEMMA InfoMoves ==
  ASSUME IInv, TInv, NEW p \in Proc, Attached(p), Moves(p), NEW i \in Items, part'[i] # Absent,
         NEW r \in part'[i].info
  PROVE  \/ Store(p) /\ i = job[p].item /\ r = job[p].resp /\ job[p].note
         \/ /\ part[i] # Absent /\ r \in part[i].info
            /\ ~(Store(p) /\ i = job[p].item /\ r = job[p].resp)
<1>0. /\ Facts(p) /\ part \in [Items -> Parts \cup {Absent}] /\ Absent \notin Parts
      /\ job[p].item \in Items /\ part[i] \in Parts \cup {Absent} /\ job[p] \in Jobs
  BY Known, Zenon DEF Facts
<1>1. CASE Store(p)
  <2>1. CASE i # job[p].item
    BY <1>0, <1>1, <2>1 DEF Store
  <2>2. CASE i = job[p].item
    <3> DEFINE n == job[p].resp
               buf == IF job[p].buf = Absent THEN [NewItem EXCEPT !.texts = {}] ELSE job[p].buf
    <3>1. part'[i].info = (buf.info \ {n}) \cup (IF job[p].note THEN {n} ELSE {})
      BY <1>0, <1>1, <2>2 DEF Store
    <3>2. job[p].buf = Absent => buf.info = {}
      BY DEF NewItem
    <3>3. job[p].buf # Absent => part[i] # Absent /\ buf.info = part[i].info
      <4>1. pc[p] \in {"store", "relock", "rewrite"}
        BY <1>1 DEF Store
      <4> QED
        BY <1>0, <2>2, <4>1, Zenon DEF Facts, Own, Buffered, Attached
    <3> HIDE DEF buf
    <3> QED
      BY <1>1, <2>2, <3>1, <3>2, <3>3, Zenon
  <2> QED
    BY <2>1, <2>2, Zenon
<1>2. CASE Full(p) \/ FreezeSet(p)
  <2>1. part[i] # Absent /\ part'[i].info = part[i].info
    BY <1>0, <1>2, SMTT(30) DEF Full, FreezeSet, Has, Parts
  <2>2. ~Store(p)
    BY <1>2, Zenon DEF Full, FreezeSet, Store
  <2> QED
    BY <2>1, <2>2, Zenon
<1>3. CASE CreatePart(p)
  <2>1. part'[i] = NewItem \/ part'[i] = part[i]
    BY <1>0, <1>3 DEF CreatePart
  <2>2. ~Store(p)
    BY <1>3, Zenon DEF CreatePart, Store
  <2> QED
    BY <2>1, <2>2 DEF NewItem
<1>4. CASE KillParts(p)
  <2>1. part'[i] = part[i] /\ ~Store(p)
    BY <1>0, <1>4, Zenon DEF KillParts, Store
  <2> QED
    BY <2>1
<1>5. CASE part' = part /\ ~Store(p)
  BY <1>5
<1> QED
  BY <1>1, <1>2, <1>3, <1>4, <1>5, Changes, Zenon

\* Nobody takes the lock of another on an attachment.
LEMMA AttachLock ==
  ASSUME IInv, TInv, NEW p \in Proc, Attached(p), Moves(p), NEW a \in Items \X Nums
  PROVE  xarf'[a] = xarf[a] \/ {xarf[a], xarf'[a]} \subseteq {p, Nobody}
<1> DEFINE b == <<job[p].item, job[p].resp>>
<1>0. xarf \in [Items \X Nums -> Proc \cup {Nobody}] /\ b \in Items \X Nums
  BY Zenon DEF TInv, Kinds, JobType
<1> HIDE DEF b
<1>1. CASE Crash(p)
  BY <1>0, <1>1, Zenon DEF Crash
<1>2. CASE LockAttach(p)
  <2>1. xarf[b] = Nobody /\ xarf' = [xarf EXCEPT ![b] = p]
    BY <1>2, Zenon DEF LockAttach, b
  <2> QED
    BY <1>0, <2>1
<1>3. CASE KillAttachment(p) \/ UnlockAttach(p)
  <2>1. pc[p] \in {"killarf", "unarf"} /\ xarf' = [xarf EXCEPT ![b] = Nobody]
    BY <1>3, Zenon DEF KillAttachment, UnlockAttach, b
  <2>2. xarf[b] = p
    BY <2>1, Zenon DEF Attached, Attaching, b
  <2> QED
    BY <1>0, <2>1, <2>2
<1> QED
  BY <1>1, <1>2, <1>3, Changes, Zenon

\* What removes an attachment.
LEMMA Detaches ==
  ASSUME IInv, NEW p \in Proc, Moves(p), NEW i \in Items, NEW r, <<i, r>> \in attach,
         <<i, r>> \notin attach'
  PROVE  Deleted(master, i) \/ (KillAttachment(p) /\ i = job[p].item /\ r = job[p].resp)
<1>1. CASE KillAttach(p)
  <2>1. i = job[p].item
    BY <1>1, Zenon DEF KillAttach
  <2>2. Deleted(master, job[p].item)
    BY <1>1, Known, Zenon DEF Facts, Own, Locking, Doing, Numbered, KillAttach
  <2> QED
    BY <2>1, <2>2
<1>2. CASE KillAttachment(p)
  BY <1>2, Zenon DEF KillAttachment
<1>3. CASE Copy(p)
  BY <1>3, Zenon DEF Copy
<1> QED
  BY <1>1, <1>2, <1>3, Changes, Zenon

\* Attachment info is written when the attachment is there, and the attachment
\* goes only when there is none.
LEMMA InfosKept ==
  ASSUME IInv, TInv, AInv, NEW p \in Proc, Moves(p)
  PROVE  Infos'
<1> SUFFICES ASSUME NEW i \in Items, i <= master'.items, ~Deleted(master', i), NEW r \in part'[i].info
             PROVE  r \in part'[i].texts /\ <<i, r>> \in attach'
  BY Zenon DEF Infos
<1>0. Facts(p) /\ Frame(p) /\ IInv' /\ Attached(p) /\ i \in Nat /\ master.items \in Nat
      /\ master'.items \in Nat
  BY Known, Framed, Small, Zenon DEF Facts, AInv, Frame, Shared, Masters
<1>1. part'[i] # Absent
  BY <1>0, Zenon DEF IInv, Counted
<1>2. CASE i > master.items
  <2>1. i = job[p].item /\ Publish(p)
    <3>1. master'.items # master.items
      BY <1>0, <1>2
    <3>2. Publish(p) /\ job[p].item = master.items + 1 /\ master'.items = job[p].item
      BY <3>1, Rewriting, Zenon DEF Rewrite
    <3> QED
      BY <1>0, <1>2, <3>2, SMTT(30)
  <2>2. part[i].info = {} /\ part' = part
    BY <1>0, <2>1, Zenon DEF Attached, Publish
  <2> QED
    BY <2>2, Zenon
<1>3. CASE i <= master.items
  <2>0. /\ ~Deleted(master, i) /\ part[i] # Absent /\ part[i].info \subseteq part[i].texts
        /\ \A n \in part[i].info : <<i, n>> \in attach
    <3>1. ~Deleted(master, i)
      BY <1>0, <1>3, Zenon DEF Frame
    <3> QED
      BY <1>0, <1>3, <3>1, Zenon DEF Facts, Counted, AInv, Infos
  <2>1. CASE Store(p) /\ i = job[p].item /\ r = job[p].resp /\ job[p].note
    <3>1. pc[p] \in {"store", "rewrite"} /\ attach' = attach
      BY <2>1, Zenon DEF Store
    <3>2. <<i, r>> \in attach
      BY <1>0, <2>0, <2>1, <3>1, Zenon DEF Attached
    <3>3. part'[i].texts = (IF job[p].buf = Absent THEN [NewItem EXCEPT !.texts = {}] ELSE job[p].buf).texts \cup {r}
      BY <1>0, <2>1, Zenon DEF Facts, Store
    <3> QED
      BY <3>1, <3>2, <3>3
  <2>2. CASE part[i] # Absent /\ r \in part[i].info
    <3>1. r \in part[i].texts /\ <<i, r>> \in attach
      BY <2>0, <2>2
    <3>2. <<i, r>> \in attach'
      <4>1. CASE KillAttachment(p) /\ i = job[p].item /\ r = job[p].resp
        <5>1. pc[p] = "killarf"
          BY <4>1, Zenon DEF KillAttachment
        <5> QED
          BY <1>0, <2>0, <2>2, <4>1, <5>1, Zenon DEF Attached
      <4> QED
        BY <2>0, <3>1, <4>1, Detaches, Zenon
    <3>3. r \in part'[i].texts
      <4>1. CASE Store(p) /\ i = job[p].item
        <5>1. part'[i].texts = (IF job[p].buf = Absent THEN [NewItem EXCEPT !.texts = {}] ELSE job[p].buf).texts \cup {job[p].resp}
          BY <1>0, <4>1, Zenon DEF Facts, Store
        <5>2. job[p].buf # Absent /\ job[p].buf.texts = part[i].texts
          BY <1>0, <2>0, <4>1, Zenon DEF Facts, Own, Buffered, Store
        <5> QED
          BY <3>1, <5>1, <5>2, Zenon
      <4>2. CASE ~(Store(p) /\ i = job[p].item)
        <5>1. CASE SameTexts(i)
          BY <2>0, <3>1, <5>1, Zenon DEF SameTexts
        <5>2. CASE Store(p)
          BY <1>0, <3>1, <4>2, <5>2, Zenon DEF Facts, Store
        <5>3. CASE CreatePart(p)
          <6>1. part' = [part EXCEPT ![master.items + 1] = NewItem]
            BY <1>0, <5>3 DEF Facts, Own, Knowing, CreatePart
          <6>2. i # master.items + 1
            BY <1>0, <1>3, Above, Zenon
          <6> QED
            BY <1>0, <3>1, <6>1, <6>2, Zenon DEF Facts
        <5>4. CASE Full(p) \/ FreezeSet(p)
          <6>1. part[i] \in Parts
            BY <1>0, <2>0, Zenon DEF Facts
          <6>2. part'[i].texts = part[i].texts
            BY <1>0, <5>4, <6>1, SMTT(30) DEF Facts, Full, FreezeSet, Parts
          <6> QED
            BY <3>1, <6>2, Zenon
        <5>5. CASE KillParts(p)
          BY <1>0, <1>1, <3>1, <5>5, Zenon DEF Facts, KillParts
        <5> QED
          BY <3>1, <5>2, <5>3, <5>4, <5>5, Changes, Zenon
      <4> QED
        BY <4>1, <4>2
    <3> QED
      BY <3>2, <3>3, Zenon
  <2> QED
    BY <1>0, <1>1, <2>1, <2>2, InfoMoves, Zenon
<1> QED
  BY <1>0, <1>2, <1>3

\* What p knows of its attachment is kept by the steps of others.
LEMMA OthersAttached ==
  ASSUME IInv, TInv, AInv, NEW p \in Proc, Moves(p), NEW q \in Proc \ {p}
  PROVE  Attached(q)'
<1> DEFINE i == job[q].item
           r == job[q].resp
<1>0. /\ pc'[q] = pc[q] /\ job'[q] = job[q] /\ mem'[q] = mem[q] /\ Nobody \notin Proc
      /\ i \in Items /\ r \in Nums /\ <<i, r>> \in Items \X Nums
      /\ Frame(p) /\ Attached(p) /\ Attached(q) /\ Facts(p) /\ Facts(q)
      /\ part \in [Items -> Parts \cup {Absent}]
  BY Framed, Known, Small, Zenon DEF Frame, TInv, Kinds, JobType, AInv, Facts
<1>1. Deleted(master, i) => Deleted(master', i)
  BY <1>0, Zenon DEF TInv, Marked, Frame
<1>2. Attaching(q) => xarf'[<<i, r>>] = q
  BY <1>0, AttachLock, Zenon DEF Attached
<1>3. ASSUME <<i, r>> \in attach, Attaching(q), job[q].op = "annotate"
      PROVE  Deleted(master, i) \/ <<i, r>> \in attach'
  <2>1. CASE KillAttachment(p) /\ i = job[p].item /\ r = job[p].resp
    BY <1>0, <1>3, <2>1, Zenon DEF Attached, Attaching, KillAttachment
  <2> QED
    BY <1>0, <1>3, <2>1, Detaches, Zenon
<1>4. ASSUME pc[q] \in {"store", "relock", "rewrite"}, job[q].buf # Absent
      PROVE  job[q].buf.info = part'[i].info
  <2>1. /\ job[q].buf.info = part[i].info /\ part[i] # Absent /\ InDir(q) /\ i <= master.items
        /\ i \in Nat /\ master.items \in Nat
    BY <1>0, <1>4, Small, Zenon DEF Attached, Facts, Own, Buffered, InDir, Numbered, Past, Masters
  <2>2. ~(InDir(p) /\ job[p].item = i)
    BY <1>0, <2>1, Zenon DEF Facts, Own, Locking
  <2>3. CASE Store(p) \/ KillParts(p)
    <3>1. InDir(p) /\ job[p].item # i
      BY <2>2, <2>3, Zenon DEF InDir, Store, KillParts
    <3> QED
      BY <1>0, <2>1, <2>3, <3>1, Zenon DEF Store, KillParts
  <2>4. CASE CreatePart(p)
    <3>1. part' = [part EXCEPT ![master.items + 1] = NewItem]
      BY <1>0, <2>4, Zenon DEF Facts, Own, Knowing, CreatePart
    <3>2. i # master.items + 1
      BY <2>1
    <3>3. part'[i] = part[i]
      BY <1>0, <3>1, <3>2, Zenon
    <3> QED
      BY <2>1, <3>3, Zenon
  <2>5. CASE Full(p) \/ FreezeSet(p)
    BY <1>0, <2>1, <2>5, SMTT(30) DEF Full, FreezeSet, Parts
  <2> QED
    BY <2>1, <2>3, <2>4, <2>5, Changes, Zenon
<1>5. ASSUME NEW n \in part'[i].info, part'[i] # Absent
      PROVE  \/ Store(p) /\ i = job[p].item /\ n = job[p].resp /\ job[p].note
             \/ part[i] # Absent /\ n \in part[i].info
  BY <1>0, <1>5, InfoMoves, Zenon
<1>6. ASSUME pc[q] = "publish" PROVE part'[i].info = {}
  <2>1. /\ part[i].info = {} /\ i = master.items + 1 /\ part[i] # Absent /\ ~InMaster(p)
        /\ i \in Nat /\ master.items \in Nat
    BY <1>0, <1>6, Small, Zenon DEF Attached, Facts, Own, Knowing, Locking, InMaster, Masters
  <2>2. ~(Full(p) \/ CreatePart(p))
    BY <2>1, Zenon DEF InMaster, Full, CreatePart
  <2>3. CASE Store(p) \/ KillParts(p)
    <3>1. job[p].item <= master.items /\ job[p].item \in Nat
      BY <1>0, <2>3, Small, Zenon DEF Facts, Own, Numbered, Past, Store, KillParts
    <3>2. job[p].item # i
      BY <2>1, <3>1, Above, Zenon
    <3> QED
      BY <1>0, <2>1, <2>3, <3>2, Zenon DEF Store, KillParts
  <2>4. CASE FreezeSet(p)
    BY <1>0, <2>1, <2>4, Zenon DEF FreezeSet, Parts
  <2> QED
    BY <2>1, <2>2, <2>3, <2>4, Changes, Zenon
<1>7. ASSUME (Numbering(q) /\ job[q].op # "annotate") \/ pc[q] = "killarf",
             part'[i] # Absent, r \in part'[i].info
      PROVE  Deleted(master, i)
  <2>1. CASE Store(p) /\ i = job[p].item /\ r = job[p].resp /\ job[p].note
    <3>1. job[p].op = "annotate" /\ Attaching(p) /\ pc[p] \in {"store", "rewrite"}
      BY <1>0, <2>1, Zenon DEF Attached, Attaching, Store
    <3>2. Numbering(p)
      BY <3>1, Zenon DEF Numbering, Writing, Numbers, TextOps
    <3>3. ~Numbering(q)
      BY <2>1, <3>2 DEF AInv, OwnNumber
    <3>4. Attaching(q)
      BY <1>7, <3>3, Zenon DEF Attaching
    <3> QED
      BY <1>0, <2>1, <3>1, <3>4, Zenon DEF Attached
  <2>2. CASE part[i] # Absent /\ r \in part[i].info
    BY <1>0, <1>7, <2>2, Zenon DEF Attached
  <2> QED
    BY <1>5, <1>7, <2>1, <2>2, Zenon
<1>8. (Numbering(q)' <=> Numbering(q)) /\ (Attaching(q)' <=> Attaching(q))
  BY <1>0, Zenon DEF Numbering, Writing, Deleted, Attaching
<1>9. job[q].op = "annotate" => Attaching(q)
  BY DEF Attaching
<1> QED
  BY <1>0, <1>1, <1>2, <1>3, <1>4, <1>6, <1>7, <1>8, <1>9, Zenon DEF Attached

\* The operation that p is in, and what it notes down.
LEMMA OwnOperation ==
  ASSUME Adds, IInv, TInv, NEW p \in Proc, Attached(p), Moves(p)
  PROVE  /\ job'[p].op \notin {"edit", "detach"}
         /\ job'[p].note => job'[p].op = "annotate"
         /\ job'[p].op \in {"annotate", "backout"} => Copy(p) \/ Same(p)
<1>0. job \in [Proc -> Jobs] /\ Doing(p) /\ job[p] \in Jobs /\ Attached(p)
  BY Known, Zenon DEF Facts, Own, Locking
<1>1. CASE Asks(p)
  <2>1. PICK op \in Ops, k \in Items, r \in Nums :
          job' = [job EXCEPT ![p] = [NoJob EXCEPT !.op = op, !.item = k, !.resp = r]]
    BY <1>1, Zenon DEF Asks, Begin
  <2>2. job'[p].op = op /\ ~job'[p].note
    BY <1>0, <2>1 DEF NoJob
  <2>3. op \in AllOps /\ op \notin {"edit", "detach"}
    BY ConferenceAssumption, Zenon DEF Adds
  <2> QED
    BY <2>2, <2>3 DEF AllOps
<1>2. CASE job'[p] = NoJob
  BY <1>2, Idle, Zenon
<1>3. CASE Count(p) \/ Refused(p)
  <2>1. CASE Return(p)
    BY <1>0, <1>2, <2>1, Fields, Zenon DEF Return
  <2>2. CASE \E r : job' = [job EXCEPT ![p].resp = r]
    <3>1. job'[p].op = job[p].op /\ SameNote(p)
      BY <1>0, <2>2, Fields, Zenon
    <3>2. job[p].op \in {"new", "attach"}
      BY <1>3, Zenon DEF Count, Refused
    <3> QED
      BY <1>0, <3>1, <3>2, Zenon DEF Attached, SameNote
  <2> QED
    BY <1>3, <2>1, <2>2, Zenon DEF Count, Refused
<1>4. CASE CreatePart(p)
  <2>1. \E k : job' = [job EXCEPT ![p].item = k]
    BY <1>4, Zenon DEF CreatePart
  <2>2. job'[p].op = job[p].op /\ SameNote(p)
    BY <1>0, <2>1, Fields, Zenon
  <2>3. job[p].op = "item"
    BY <1>4, Zenon DEF CreatePart
  <2> QED
    BY <1>0, <2>2, <2>3, Zenon DEF Attached, SameNote
<1>5. CASE Copy(p)
  <2>1. PICK op \in {"annotate", "backout"} : job' = [job EXCEPT ![p].op = op]
    BY <1>5, Zenon DEF Copy
  <2>2. job'[p].op = op /\ SameNote(p)
    BY <1>0, <2>1, Fields, Zenon
  <2>3. job[p].op = "attach"
    BY <1>0, <1>5, Zenon DEF Copy, Doing
  <2> QED
    BY <1>0, <1>5, <2>2, <2>3, Zenon DEF Attached, SameNote
<1>6. CASE Same(p) /\ SameNote(p)
  BY <1>0, <1>6, Zenon DEF Same, SameNote, Attached
<1>7. CASE Same(p) /\ Look(p)
  <2>1. CASE Return(p)
    BY <1>0, <1>2, <2>1, Fields, Zenon DEF Return
  <2>2. CASE job' = [job EXCEPT ![p].note = job[p].op = "edit" /\ job[p].resp \in part[job[p].item].info]
    <3>1. ~job'[p].note
      BY <1>0, <2>2, Zenon DEF Attached, Jobs
    <3> QED
      BY <1>0, <1>7, <3>1, Zenon DEF Same, Attached
  <2> QED
    BY <1>7, <2>1, <2>2, Zenon DEF Look
<1>8. CASE Same(p) /\ Again(p)
  <2>1. job'[p].note => job[p].op = "annotate"
    BY <1>0, <1>8, Zenon DEF Again, Jobs
  <2> QED
    BY <1>0, <1>8, <2>1, Zenon DEF Same, Attached
<1> QED
  BY <1>1, <1>2, <1>3, <1>4, <1>5, <1>6, <1>7, <1>8, JobSteps, Zenon DEF JobStep

\* From the moment it has the lock on its attachment to the end of the
\* operation p keeps it.
LEMMA OwnLock ==
  ASSUME Adds, IInv, TInv, NEW p \in Proc, Attached(p), Moves(p)
  PROVE  /\ Attaching(p)' => xarf'[<<job'[p].item, job'[p].resp>>] = p
         /\ pc'[p] = "killarf" => job'[p].op \in {"annotate", "backout"}
<1> DEFINE a == <<job[p].item, job[p].resp>>
<1>0. /\ job \in [Proc -> Jobs] /\ Doing(p) /\ job[p] \in Jobs /\ Arrival(p, pc'[p])
      /\ DOMAIN pc = Proc /\ Nobody \notin Proc
      /\ xarf \in [Items \X Nums -> Proc \cup {Nobody}] /\ a \in Items \X Nums
  BY Known, Arrivals, Zenon DEF Facts, Own, Locking, TInv, Kinds, JobType
<1>1. CASE LockAttach(p)
  <2>1. job' = job /\ xarf' = [xarf EXCEPT ![a] = p]
        /\ pc' = [pc EXCEPT ![p] = IF job[p].op = "detach" THEN "killarf" ELSE "copy"]
    BY <1>1, Zenon DEF LockAttach, Goto
  <2>2. xarf'[a] = p /\ pc'[p] = "copy"
    BY <1>0, <2>1, Zenon DEF Attached
  <2> QED
    BY <2>1, <2>2, Zenon
<1>2. CASE ~LockAttach(p) /\ job'[p].op \in {"annotate", "backout"}
  <2>1. job'[p].item = job[p].item /\ job'[p].resp = job[p].resp /\ Attaching(p)
    <3>1. CASE Copy(p)
      <4>1. PICK op : job' = [job EXCEPT ![p].op = op]
        BY <3>1, Zenon DEF Copy
      <4>2. job'[p].item = job[p].item /\ job'[p].resp = job[p].resp
        BY <1>0, <4>1, Zenon DEF Jobs
      <4> QED
        BY <3>1, <4>2 DEF Copy, Attaching
    <3>2. CASE Same(p)
      BY <1>2, <3>2 DEF Same, Attaching
    <3> QED
      BY <1>2, <3>1, <3>2, OwnOperation, Zenon
  <2>2. ~(KillAttachment(p) \/ UnlockAttach(p) \/ Crash(p))
    <3>1. Return(p) => job'[p] = NoJob
      BY <1>0, Fields, Zenon DEF Return
    <3>2. ~Return(p)
      BY <1>2, <3>1, Idle, Zenon
    <3> QED
      BY <3>2, Zenon DEF KillAttachment, UnlockAttach, Crash
  <2>3. xarf' = xarf
    BY <1>2, <2>2, Changes, Zenon
  <2> QED
    BY <1>2, <2>1, <2>3, Zenon DEF Attached
<1>3. CASE ~LockAttach(p) /\ job'[p].op \notin {"annotate", "backout"}
  <2>1. ~Copy(p)
    <3> SUFFICES ASSUME Copy(p) PROVE FALSE
      OBVIOUS
    <3>1. PICK op \in {"annotate", "backout"} : job' = [job EXCEPT ![p].op = op]
      BY Zenon DEF Copy
    <3>2. job'[p].op = op
      BY <1>0, <3>1, Zenon DEF Jobs
    <3> QED
      BY <1>3, <3>2
  <2>2. ~Again(p)
    <3> SUFFICES ASSUME Again(p) PROVE FALSE
      OBVIOUS
    <3>1. PICK b : job' = [job EXCEPT ![p].note = b]
      BY Zenon DEF Again
    <3>2. job'[p].op = job[p].op
      BY <1>0, <3>1 DEF Jobs
    <3>3. job[p].op \in {"annotate", "backout"}
      BY <1>0 DEF Again, Doing
    <3> QED
      BY <1>3, <3>2, <3>3
  <2>3. UnlockDir(p) => pc'[p] \in {"lockarf", "idle"}
    BY <1>0, <1>3, Zenon DEF UnlockDir, Goto, Return, Attached
  <2>4. pc'[p] \notin {"copy", "again", "killarf", "unarf"}
    BY <1>0, <1>3, <2>1, <2>2, <2>3, Zenon DEF Arrival
  <2> QED
    BY <1>3, <2>4, Zenon DEF Attaching
<1> QED
  BY <1>1, <1>2, <1>3, Zenon

\* What p knows of its item when it has a number.
LEMMA OwnItem ==
  ASSUME Adds, IInv, TInv, NEW p \in Proc, Attached(p), Moves(p)
  PROVE  /\ job'[p].op \in Numbers /\ pc'[p] \notin {"idle", "look", "master"} =>
              (Deleted(mem'[p], job'[p].item) => Deleted(master', job'[p].item))
         /\ job'[p].op = "annotate" /\ pc'[p] \notin {"killarf", "unarf"} =>
              Deleted(master', job'[p].item) \/ <<job'[p].item, job'[p].resp>> \in attach'
<1> DEFINE i == job[p].item
           r == job[p].resp
<1>0. /\ job \in [Proc -> Jobs] /\ Doing(p) /\ job[p] \in Jobs /\ Arrival(p, pc'[p])
      /\ DOMAIN pc = Proc /\ Frame(p) /\ i \in Items
  BY Known, Framed, Arrivals, Zenon DEF Facts, Own, Locking
<1>1. Deleted(master, i) => Deleted(master', i)
  BY <1>0, Zenon DEF TInv, Marked, Frame
<1>2. ~Return(p) \/ (job'[p] = NoJob /\ pc'[p] = "idle")
  BY <1>0 DEF Return, Goto
<1>3. ASSUME job'[p].op \in Numbers, pc'[p] \notin {"idle", "look", "master"},
             Deleted(mem'[p], job'[p].item)
      PROVE  Deleted(master', job'[p].item)
  <2>0. job'[p].op \in {"new", "attach", "annotate", "backout"} /\ ~Return(p)
    BY <1>2, <1>3, Zenon DEF Numbers
  <2>1. ~Forget(p) /\ ~Crash(p)
    BY <1>3, <2>0, Zenon DEF Forget, Crash
  <2>2. ~CreatePart(p)
    <3> SUFFICES ASSUME CreatePart(p) PROVE FALSE
      OBVIOUS
    <3>1. PICK k : job' = [job EXCEPT ![p].item = k]
      BY Zenon DEF CreatePart
    <3>2. job'[p].op = job[p].op /\ job[p].op = "item"
      BY <1>0, <3>1 DEF Jobs, CreatePart
    <3> QED
      BY <2>0, <3>2, Zenon
  <2>3. CASE mem'[p] = master'
    BY <1>3, <2>3, Zenon
  <2>4. CASE mem'[p] = mem[p] /\ mem'[p] # master'
    <3>1. ~LockMaster(p) /\ ~Count(p)
      <4>1. CASE LockMaster(p)
        BY <2>4, <4>1, Known, Zenon DEF LockMaster, Loaded, files, Facts
      <4>2. CASE Count(p)
        BY <2>4, <4>2, Known, Zenon DEF Count, store_master, Facts
      <4> QED
        BY <4>1, <4>2, Zenon
    <3>2. ~Asks(p)
      <4> SUFFICES ASSUME Asks(p) PROVE FALSE
        OBVIOUS
      <4>1. PICK op \in Ops, k \in Items, n \in Nums : Begin(p, op, k, n)
        BY Zenon DEF Asks
      <4>2. job'[p].op = op
        BY <1>0, <4>1 DEF Begin, NoJob
      <4>3. pc'[p] = "look"
        BY <1>0, <2>0, <4>1, <4>2, ConferenceAssumption, Zenon DEF Begin, Goto, AllOps
      <4> QED
        BY <1>3, <4>3, Zenon
    <3>3. job'[p].item = i /\ job[p].op \in Numbers
      <4>1. CASE Refused(p) \/ Copy(p)
        <5>1. \/ \E n : job' = [job EXCEPT ![p].resp = n]
              \/ \E n : job' = [job EXCEPT ![p].op = n]
          BY <2>0, <4>1, Zenon DEF Refused, Copy
        <5>2. job'[p].item = i
          BY <1>0, <5>1 DEF Jobs
        <5>3. job[p].op \in {"new", "attach"}
          BY <1>0, <4>1, Zenon DEF Refused, Copy, Doing
        <5> QED
          BY <5>2, <5>3 DEF Numbers
      <4>2. CASE Same(p)
        BY <1>3, <4>2, Zenon DEF Same
      <4> QED
        <5>1. job'[p] # NoJob
          BY <2>0, Idle, Zenon
        <5> QED
          BY <2>2, <3>1, <3>2, <4>1, <4>2, <5>1, JobSteps, Zenon DEF JobStep
    <3>4. ~Look(p)
      <4>1. Look(p) => pc'[p] = "read" \/ pc'[p] = "master"
        BY <1>0, <2>0 DEF Look, Goto
      <4>2. Look(p) /\ pc'[p] = "read" => job[p].op \notin {"new", "attach"}
        BY <1>0, <2>0 DEF Look, Goto
      <4>3. Look(p) => job[p].op \notin {"annotate", "backout"}
        BY <1>0 DEF Look, Doing
      <4> QED
        BY <1>3, <3>3, <4>1, <4>2, <4>3, Zenon DEF Numbers
    <3>5. pc[p] \notin {"idle", "look", "master"}
      BY <2>1, <3>1, <3>2, <3>4, Departures, Zenon
    <3> QED
      BY <1>1, <1>3, <2>4, <3>3, <3>5, Zenon DEF Attached
  <2> QED
    BY <2>1, <2>2, <2>3, <2>4, Remembers, Zenon
<1>4. ASSUME job'[p].op = "annotate", pc'[p] \notin {"killarf", "unarf"}
      PROVE  Deleted(master', job'[p].item) \/ <<job'[p].item, job'[p].resp>> \in attach'
  <2>1. CASE Copy(p)
    <3>1. PICK op : job' = [job EXCEPT ![p].op = op] /\ attach' = attach \cup {<<i, r>>}
      BY <2>1, Zenon DEF Copy
    <3>2. job'[p].item = i /\ job'[p].resp = r
      BY <1>0, <3>1, Zenon DEF Jobs
    <3> QED
      BY <3>1, <3>2
  <2>2. CASE Same(p)
    <3>0. job[p].op = "annotate" /\ job'[p].item = i /\ job'[p].resp = r /\ ~Return(p)
      <4>1. ~Return(p)
        BY <1>2, <1>4, Idle, Zenon
      <4> QED
        BY <1>4, <2>2, <4>1, Zenon DEF Same
    <3>1. ~KillAttachment(p) /\ ~UnlockAttach(p) /\ ~Crash(p)
      BY <3>0, Zenon DEF KillAttachment, UnlockAttach, Crash
    <3>2. pc[p] \notin {"killarf", "unarf"}
      BY <3>1, Departures, Zenon
    <3>3. Deleted(master, i) \/ <<i, r>> \in attach
      BY <3>0, <3>2, Zenon DEF Attached
    <3>4. <<i, r>> \in attach => Deleted(master, i) \/ <<i, r>> \in attach'
      BY <1>0, <3>1, Detaches, Zenon
    <3> QED
      BY <1>1, <3>0, <3>3, <3>4, Zenon
  <2> QED
    BY <1>4, <2>1, <2>2, OwnOperation, Zenon
<1> QED
  BY <1>3, <1>4, Zenon

\* What p has in its buffer, and what createitem makes.
LEMMA OwnBuffer ==
  ASSUME IInv, TInv, NEW p \in Proc, Attached(p), Moves(p)
  PROVE  /\ pc'[p] \in {"store", "relock", "rewrite"} /\ job'[p].buf # Absent =>
              job'[p].buf.info = part'[job'[p].item].info
         /\ pc'[p] = "publish" => part'[job'[p].item].info = {}
<1> DEFINE i == job[p].item
<1>0. Facts(p) /\ Arrival(p, pc'[p]) /\ DOMAIN pc = Proc /\ job \in [Proc -> Jobs]
  BY Known, Arrivals, Zenon DEF Facts
<1>1. CASE Load(p)
  <2>1. job' = [job EXCEPT ![p].buf = part[i]] /\ part' = part /\ pc' = [pc EXCEPT ![p] = "store"]
    BY <1>1, Zenon DEF Load, files, Goto
  <2>2. job'[p].buf = part[i] /\ job'[p].item = i /\ pc'[p] = "store"
    BY <1>0, <2>1, Zenon DEF Jobs
  <2> QED
    BY <2>1, <2>2
<1>2. CASE Split(p) \/ Relock(p)
  <2>1. /\ job' = job /\ part' = part /\ pc[p] \in {"store", "relock"}
        /\ pc'[p] \in {"relock", "rewrite"}
    BY <1>0, <1>2, Zenon DEF Split, Relock, files, Goto
  <2> QED
    BY <2>1, Zenon DEF Attached
<1>3. CASE CreatePart(p)
  <2>1. /\ job' = [job EXCEPT ![p].item = master.items + 1] /\ pc'[p] = "publish"
        /\ part' = [part EXCEPT ![master.items + 1] = NewItem] /\ master.items + 1 \in Items
    BY <1>0, <1>3 DEF Facts, Own, Knowing, CreatePart, Goto
  <2>2. job'[p].item = master.items + 1
    BY <1>0, <2>1 DEF Jobs
  <2>3. part'[master.items + 1] = NewItem
    BY <1>0, <2>1 DEF Facts
  <2> QED
    BY <2>1, <2>2, <2>3 DEF NewItem
<1>4. CASE pc'[p] \notin {"store", "relock", "rewrite", "publish"}
  BY <1>4, Zenon
<1> QED
  BY <1>0, <1>1, <1>2, <1>3, <1>4, Zenon DEF Arrival

\* There is no attachment info yet under the number of p.
LEMMA OwnInfo ==
  ASSUME Adds, IInv, TInv, AInv, NEW p \in Proc, Moves(p),
         (Numbering(p)' /\ job'[p].op # "annotate") \/ pc'[p] = "killarf",
         part'[job'[p].item] # Absent, job'[p].resp \in part'[job'[p].item].info
  PROVE  Deleted(master', job'[p].item)
<1> DEFINE i == job[p].item
           r == job[p].resp
<1>0. /\ Facts(p) /\ Arrival(p, pc'[p]) /\ DOMAIN pc = Proc /\ job \in [Proc -> Jobs]
      /\ Attached(p) /\ Doing(p) /\ i \in Items /\ job[p] \in Jobs
  BY Known, Arrivals, Zenon DEF Facts, Own, Locking, AInv
<1>1. Deleted(master, i) => Deleted(master', i)
  BY <1>0, Framed, Zenon DEF TInv, Marked, Frame
<1>2. CASE Count(p)
  <2>1. /\ part' = part /\ ~Deleted(master, i) /\ i <= master.items
        /\ job' = [job EXCEPT ![p].resp = master.responses[i] + 1]
    BY <1>0, <1>2 DEF Facts, Own, Knowing, Count
  <2>2. job'[p].item = i /\ job'[p].resp = master.responses[i] + 1
    BY <1>0, <2>1 DEF Jobs
  <2>3. master.responses[i] + 1 \in part[i].texts
    BY <1>0, <2>1, <2>2, SMTT(30) DEF AInv, Infos
  <2>4. master.responses[i] + 1 <= master.responses[i] /\ master.responses[i] \in Int
    BY <1>0, <2>1, <2>3, Zenon DEF Facts, Counted, Masters
  <2> QED
    BY <2>4, Above, Zenon
<1>3. CASE Numbering(p)' /\ Keeps(p) /\ job'[p].op # "annotate"
  <2>1. /\ job'[p].item = i /\ job'[p].resp = r /\ Numbering(p) /\ job[p].op # "annotate"
    BY <1>3, Zenon DEF Keeps
  <2>2. ~job[p].note
    BY <1>0, <2>1, Zenon DEF Attached
  <2>3. part[i] # Absent /\ r \in part[i].info
    BY <1>0, <2>1, <2>2, InfoMoves, Zenon
  <2> QED
    BY <1>0, <1>1, <2>1, <2>3, Zenon DEF Attached
<1>4. CASE pc'[p] = "killarf"
  <2>1. ~LockAttach(p)
    BY <1>0, <1>4, Zenon DEF LockAttach, Goto, Attached
  <2>2. CASE UnlockDir(p)
    <3>1. job' = job /\ part' = part /\ job[p].op = "backout" /\ pc[p] = "undir"
      BY <1>0, <1>4, <2>2, Zenon DEF UnlockDir, Goto, Return, files
    <3>2. CASE Deleted(mem[p], i)
      BY <1>0, <1>1, <3>1, <3>2, Zenon DEF Attached, Numbers
    <3>3. CASE ~Deleted(mem[p], i)
      <4>1. Numbering(p)
        BY <3>1, <3>3, Zenon DEF Numbering, Writing, Numbers
      <4> QED
        BY <1>0, <1>1, <3>1, <4>1, Zenon DEF Attached
    <3> QED
      BY <3>2, <3>3
  <2>3. CASE Again(p)
    <3>1. PICK b : job' = [job EXCEPT ![p].note = b]
      BY <2>3, Zenon DEF Again
    <3>2. job'[p].item = i /\ job'[p].resp = r
      BY <1>0, <3>1 DEF Jobs
    <3>3. /\ pc[p] = "again" /\ part' = part /\ job[p].op \in {"annotate", "backout"}
          /\ Deleted(mem[p], i) \/ ~Has(i, r)
      BY <1>0, <1>4, <2>3, Zenon DEF Again, Goto, Doing, files
    <3>4. CASE Deleted(mem[p], i)
      BY <1>0, <1>1, <3>2, <3>3, <3>4, Zenon DEF Attached, Numbers
    <3>5. CASE ~Has(i, r)
      <4>1. r \notin part[i].texts /\ r \in part[i].info /\ i <= master.items
        BY <1>0, <3>2, <3>3, <3>5, Zenon DEF Has, Facts, Own, Numbered, Past
      <4> QED
        BY <1>0, <1>1, <3>2, <4>1, Zenon DEF AInv, Infos
    <3> QED
      BY <3>3, <3>4, <3>5, Zenon
  <2> QED
    BY <1>0, <1>4, <2>1, <2>2, <2>3, Zenon DEF Arrival
<1> QED
  BY <1>2, <1>3, <1>4, NumberMoves, Zenon

LEMMA AttachmentsKept ==
  ASSUME Adds, IInv, TInv, AInv, NEW p \in Proc, Moves(p)
  PROVE  AInv'
<1>0. Attached(p)
  BY DEF AInv
<1>1. Attached(p)'
  BY <1>0, OwnOperation, OwnLock, OwnItem, OwnBuffer, OwnInfo, Zenon DEF Attached
<1>2. \A q \in Proc : Attached(q)'
  BY <1>1, OthersAttached, Zenon
<1>3. ASSUME NEW q \in Proc, NEW s \in Proc \ {q} PROVE OwnNumber(q, s)'
  <2>1. OwnNumber(q, s) /\ OwnNumber(s, q)
    BY DEF AInv
  <2>2. CASE p \in {q, s}
    BY <2>1, <2>2, OwnKept, Zenon
  <2>3. CASE p \notin {q, s}
    <3>1. /\ pc'[q] = pc[q] /\ job'[q] = job[q] /\ mem'[q] = mem[q]
          /\ pc'[s] = pc[s] /\ job'[s] = job[s] /\ mem'[s] = mem[s]
      <4>1. q \in Proc \ {p} /\ s \in Proc \ {p} /\ Frame(p)
        BY <2>3, Framed, Zenon
      <4> QED
        BY <4>1, Zenon DEF Frame
    <3> QED
      BY <2>1, <3>1, Zenon DEF OwnNumber, Numbering, Writing, Deleted
  <2> QED
    BY <2>2, <2>3, Zenon
<1> QED
  BY <1>2, <1>3, InfosKept, Zenon DEF AInv

=============================================================================
