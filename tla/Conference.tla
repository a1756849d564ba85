----------------------------- MODULE Conference -----------------------------
(***************************************************************************)
(* One Caucus conference, shared by the subservers (swebs) of its users:   *)
(* adding, changing and deleting items, responses and attachments (db/,    *)
(* resp/itemdel.c, api/aaddresp.c, achgresp.c, adelresp.c).                *)
(*                                                                         *)
(* The subservers share nothing but files and the byte-range locks on the  *)
(* conference's lockmap:  XCMA (the master file, which counts items and    *)
(* responses), XCRD (an item's directory of partfiles), XCRF (here: its    *)
(* first partfile, whose header holds the "frozen" flag), XARF (one        *)
(* attachment).  Between two locks any other subserver may run, and a      *)
(* subserver may be killed anywhere; the kernel then drops its locks.      *)
(* Rewriting one file is atomic (UnitFile), a text is in its partfiles or  *)
(* not (PartFile), and reading under READ locks (getline2, srvldmas) is    *)
(* one step.                                                               *)
(***************************************************************************)
EXTENDS Integers, FiniteSets

CONSTANTS
  Proc,       \* subservers
  Nobody,     \* holder of a free lock
  Absent,     \* an item without partfiles
  NoMaster,   \* global MASTER holds another conference
  Ops,        \* operations that users ask for
  Slots,      \* bound: items that the model has room for
  MaxResp,    \* bound: response numbers that the model has room for
  MaxItems,   \* MAXITEMS
  FreezeAt,   \* MAXRESP - 5: an item that long is frozen
  MaxJobs,    \* bound: operations in a behaviour
  Crashes     \* may a subserver die?

AllOps == {"new", "attach", "edit", "detach", "item", "zap", "freeze", "thaw", "attr"}

ASSUME ConferenceAssumption ==
  /\ Ops \subseteq AllOps /\ Nobody \notin Proc /\ IsFiniteSet(Proc)
  /\ {Slots, FreezeAt} \subseteq Nat \ {0} /\ {MaxResp, MaxItems, MaxJobs} \subseteq Nat
  /\ Crashes \in BOOLEAN
  /\ Absent \notin [texts : SUBSET Nat, froz : Nat, info : SUBSET Nat]

VARIABLES
  master,     \* the master file on disk
  mem,        \* mem[p]: the global MASTER of p, a copy that may be old
  part,       \* part[i]: the partfiles of item i
  attach,     \* attachment files, as <<item, response>>
  xcma, xcrd, xcrf, xarf,   \* who holds each lock for writing
  pc, job,    \* where each subserver is, and in which operation
  jobs,       \* number of operations so far
  stray,      \* history: items written to after their deletion, or whose
              \* deletion was cut short
  lapsed      \* history: full items that lost their freeze, or never got it

files == <<master, part, attach>>
locks == <<xcma, xcrd, xcrf, xarf>>
history == <<stray, lapsed>>
vars == <<files, mem, locks, pc, job, jobs, history>>

Items == 1 .. Slots
Nums == 0 .. MaxResp
NoJob == [op |-> "none", item |-> 1, resp |-> 0, head |-> 0, note |-> FALSE,
          buf |-> Absent, todo |-> {}]
NewItem == [texts |-> {0}, froz |-> 0, info |-> {}]

Deleted(m, i) == m.responses[i] < 0
Has(i, r) == part[i] # Absent /\ r \in part[i].texts

Init ==
  /\ master = [items |-> 1, attr |-> FALSE, responses |-> [i \in Items |-> 0]]
  /\ mem = [p \in Proc |-> NoMaster]
  /\ part = [i \in Items |-> IF i = 1 THEN NewItem ELSE Absent]
  /\ attach = {}
  /\ xcma = Nobody
  /\ xcrd = [i \in Items |-> Nobody]
  /\ xcrf = [i \in Items |-> Nobody]
  /\ xarf = [a \in Items \X Nums |-> Nobody]
  /\ pc = [p \in Proc |-> "idle"]
  /\ job = [p \in Proc |-> NoJob]
  /\ jobs = 0
  /\ stray = {} /\ lapsed = {}

Goto(p, l) == pc' = [pc EXCEPT ![p] = l]
Return(p) == Goto(p, "idle") /\ job' = [job EXCEPT ![p] = NoJob]
\* getline2 gets its READ locks when nobody writes.
Readable(i) == xcrd[i] = Nobody /\ xcrf[i] = Nobody

-----------------------------------------------------------------------------
(* The checks at the start of an operation.                                *)

\* The bounds of the model: no operation starts that might need more room.
Fitting(op, i) ==
  LET Busy(ops) == Cardinality({q \in Proc : job[q].op \in ops}) IN
  /\ jobs < MaxJobs
  /\ op = "item" => master.items + Busy({"item"}) < Slots
  /\ op \in {"new", "attach"} => master.responses[i] + Busy({"new", "attach"}) < MaxResp

Begin(p, op, i, r) ==
  /\ pc[p] = "idle" /\ Fitting(op, i)
  /\ op \in {"item", "attr"} => i = 1
  /\ op \notin {"edit", "detach"} => r = 0
  /\ job' = [job EXCEPT ![p] = [NoJob EXCEPT !.op = op, !.item = i, !.resp = r]]
  /\ Goto(p, CASE op \in {"new", "attach", "edit", "detach", "zap"} -> "look"
               [] op \in {"freeze", "thaw"} -> "peek"
               [] op = "item" -> "room"
               [] op = "attr" -> "master")
  /\ jobs' = jobs + 1
  /\ UNCHANGED <<files, mem, locks, history>>

\* a_add_resp: the item must exist and must not be frozen.  a_chg_resp,
\* a_del_resp: the text must exist; the former keeps its attachment info.
Look(p) ==
  LET i == job[p].item
      r == job[p].resp
      adds == job[p].op \in {"new", "attach"}
  IN
  /\ pc[p] = "look" /\ Readable(i)
  /\ IF Has(i, r) /\ (adds => part[i].froz = 0)
     THEN /\ Goto(p, IF adds THEN "master" ELSE "read")
          /\ job' = [job EXCEPT ![p].note = job[p].op = "edit" /\ r \in part[i].info]
     ELSE Return(p)
  /\ UNCHANGED <<files, mem, locks, jobs, history>>

\* chg_dresp, chg_ditem XT_CHANGE and XT_DELETE: MASTER, loaded only if it is
\* another conference's, must know the item, and the text must exist.  The
\* header to write back later is read here.  a_del_resp kills the attachment
\* whatever chg_dresp says.
Read(p) ==
  LET i == job[p].item
      r == job[p].resp
      m == IF mem[p] = NoMaster THEN master ELSE mem[p]
  IN
  /\ pc[p] = "read" /\ Readable(i)
  /\ mem[p] = NoMaster => xcma = Nobody
  /\ mem' = [mem EXCEPT ![p] = m]
  /\ IF i <= m.items /\ ~Deleted(m, i) /\ Has(i, r)
     THEN Goto(p, "dir") /\ job' = [job EXCEPT ![p].head = part[i].froz]
     ELSE IF job[p].op = "detach" THEN Goto(p, "lockarf") /\ UNCHANGED job
     ELSE Return(p)
  /\ UNCHANGED <<files, locks, jobs, history>>

\* chg_ditem XT_NEW: is there room, as far as MASTER knows?  With another
\* conference's MASTER the answer means nothing.
Room(p) ==
  /\ pc[p] = "room"
  /\ \/ /\ mem[p] # NoMaster => mem[p].items < MaxItems - 1
        /\ Goto(p, "master") /\ UNCHANGED job
     \/ /\ mem[p] # NoMaster => mem[p].items >= MaxItems - 1
        /\ Return(p)
  /\ UNCHANGED <<files, mem, locks, jobs, history>>

\* The user visits another conference.
Forget(p) ==
  /\ pc[p] = "idle" /\ mem[p] # NoMaster
  /\ mem' = [mem EXCEPT ![p] = NoMaster]
  /\ UNCHANGED <<files, locks, pc, job, jobs, history>>

-----------------------------------------------------------------------------
(* Under the lock on the master file.                                      *)

\* Bug: MASTER is loaded only if it is another conference's, as elsewhere.
LoadedOnce(p) == mem' = [mem EXCEPT ![p] = IF @ = NoMaster THEN master ELSE @]

\* srvldmas (0, &master, cnum)
Loaded(p) == mem' = [mem EXCEPT ![p] = master]

LockMaster(p) ==
  /\ pc[p] = "master" /\ xcma = Nobody
  /\ xcma' = p
  /\ Loaded(p)
  /\ Goto(p, "counts")
  /\ UNCHANGED <<files, xcrd, xcrf, xarf, job, jobs, history>>

store_master(p, m) == master' = m /\ mem' = [mem EXCEPT ![p] = m]

\* Bug: the new count is not written out.
CountNotStored(p) ==
  LET i == job[p].item
      r == mem[p].responses[i] + 1
  IN
  /\ pc[p] = "counts" /\ job[p].op \in {"new", "attach"}
  /\ i <= mem[p].items /\ ~Deleted(mem[p], i)
  /\ mem' = [mem EXCEPT ![p].responses[i] = r]
  /\ job' = [job EXCEPT ![p].resp = r]
  /\ Goto(p, IF r >= FreezeAt THEN "full" ELSE "unlock")
  /\ UNCHANGED <<files, locks, jobs, history>>

\* chg_dresp XT_NEW: take the next response number.
Count(p) ==
  LET i == job[p].item
      r == mem[p].responses[i] + 1
  IN
  /\ pc[p] = "counts" /\ job[p].op \in {"new", "attach"}
  /\ i <= mem[p].items /\ ~Deleted(mem[p], i)
  /\ store_master(p, [mem[p] EXCEPT !.responses[i] = r])
  /\ job' = [job EXCEPT ![p].resp = r]
  /\ Goto(p, IF r >= FreezeAt THEN "full" ELSE "unlock")
  /\ UNCHANGED <<part, attach, locks, jobs, history>>

\* Bug: the early return forgets to unlock the master file.
RefusedLocked(p) ==
  /\ pc[p] = "counts" /\ job[p].op \in {"new", "attach"}
  /\ job[p].item <= mem[p].items => Deleted(mem[p], job[p].item)
  /\ Return(p)
  /\ UNCHANGED <<files, mem, locks, jobs, history>>

\* chg_dresp XT_NEW: no such item is an error, a deleted one is not, and
\* leaves the response number unset.
Refused(p) ==
  LET i == job[p].item
      gone == i <= mem[p].items
  IN
  /\ pc[p] = "counts" /\ job[p].op \in {"new", "attach"}
  /\ gone => Deleted(mem[p], i)
  /\ xcma' = Nobody
  /\ IF gone /\ job[p].op = "attach"
     THEN /\ \E r \in Nums : job' = [job EXCEPT ![p].resp = r]
          /\ Goto(p, "lockarf")
     ELSE Return(p)
  /\ UNCHANGED <<files, mem, xcrd, xcrf, xarf, jobs, history>>

\* Bug: the item is frozen as if by its author.
FullThawable(p) ==
  LET i == job[p].item IN
  /\ pc[p] = "full" /\ xcrf[i] = Nobody
  /\ part' = [part EXCEPT ![i] = IF Has(i, 0) THEN [@ EXCEPT !.froz = 1] ELSE @]
  /\ Goto(p, "unlock")
  /\ UNCHANGED <<master, attach, mem, locks, job, jobs, history>>

\* itemfreeze (cnum, item, 2) of a full item, still under XCMA.
Full(p) ==
  LET i == job[p].item IN
  /\ pc[p] = "full" /\ xcrf[i] = Nobody
  /\ part' = [part EXCEPT ![i] = IF Has(i, 0) THEN [@ EXCEPT !.froz = 2] ELSE @]
  /\ Goto(p, "unlock")
  /\ UNCHANGED <<master, attach, mem, locks, job, jobs, history>>

\* Bug: no fake partfile, since the item's text will be written soon.
CreateNoPart(p) ==
  LET i == mem[p].items + 1 IN
  /\ pc[p] = "counts" /\ job[p].op = "item" /\ i \in Items
  /\ mem' = [mem EXCEPT ![p].items = i, ![p].responses[i] = 0]
  /\ job' = [job EXCEPT ![p].item = i]
  /\ Goto(p, "publish")
  /\ UNCHANGED <<files, locks, jobs, history>>

\* createitem: first the fake partfile of the new item ...
CreatePart(p) ==
  LET i == mem[p].items + 1 IN
  /\ pc[p] = "counts" /\ job[p].op = "item" /\ i \in Items
  /\ xcrf[i] = Nobody
  /\ part' = [part EXCEPT ![i] = NewItem]
  /\ mem' = [mem EXCEPT ![p].items = i, ![p].responses[i] = 0]
  /\ job' = [job EXCEPT ![p].item = i]
  /\ Goto(p, "publish")
  /\ UNCHANGED <<master, attach, locks, jobs, history>>

\* ... and then and only then the master file.
Publish(p) ==
  /\ pc[p] = "publish"
  /\ store_master(p, mem[p])
  /\ Goto(p, "unlock")
  /\ UNCHANGED <<part, attach, locks, job, jobs, history>>

\* itemdel: mark the item as deleted.
Mark(p) ==
  /\ pc[p] = "counts" /\ job[p].op = "zap"
  /\ store_master(p, [mem[p] EXCEPT !.responses[job[p].item] = -1])
  /\ Goto(p, "unlock")
  /\ UNCHANGED <<part, attach, locks, job, jobs, history>>

\* cus_dattr
SetAttr(p) ==
  /\ pc[p] = "counts" /\ job[p].op = "attr"
  /\ store_master(p, [mem[p] EXCEPT !.attr = ~@])
  /\ Goto(p, "unlock")
  /\ UNCHANGED <<part, attach, locks, job, jobs, history>>

\* Bug: the attachments of a deleted item are left where they are.
UnlockMasterOnly(p) ==
  /\ pc[p] = "unlock"
  /\ xcma' = Nobody
  /\ CASE job[p].op = "attr" -> Return(p)
       [] job[p].op = "zap" -> Goto(p, "kill") /\ UNCHANGED job
       [] OTHER -> Goto(p, "dir") /\ UNCHANGED job
  /\ UNCHANGED <<files, mem, xcrd, xcrf, xarf, jobs, history>>

UnlockMaster(p) ==
  LET i == job[p].item IN
  /\ pc[p] = "unlock"
  /\ xcma' = Nobody
  /\ CASE job[p].op = "attr" -> Return(p)
       [] job[p].op = "zap" ->
            /\ job' = [job EXCEPT ![p].todo = {r \in Nums : <<i, r>> \in attach}]
            /\ Goto(p, "kill")
       [] OTHER -> Goto(p, "dir") /\ UNCHANGED job
  /\ UNCHANGED <<files, mem, xcrd, xcrf, xarf, jobs, history>>

-----------------------------------------------------------------------------
(* Under the lock on the item's directory.                                 *)

LockDir(p) ==
  LET i == job[p].item IN
  /\ pc[p] = "dir" /\ xcrd[i] = Nobody
  /\ xcrd' = [xcrd EXCEPT ![i] = p]
  /\ Goto(p, IF job[p].op = "zap" THEN "master" ELSE "load")
  /\ UNCHANGED <<files, mem, xcma, xcrf, xarf, job, jobs, history>>

\* updatepart: lock and load the first partfile ...
Load(p) ==
  LET i == job[p].item IN
  /\ pc[p] = "load" /\ xcrf[i] = Nobody
  /\ xcrf' = [xcrf EXCEPT ![i] = p]
  /\ job' = [job EXCEPT ![p].buf = part[i]]
  /\ Goto(p, "store")
  /\ UNCHANGED <<files, mem, xcma, xcrd, xarf, jobs, history>>

\* ... in case (b) let go of it to move the later responses out ...
Split(p) ==
  LET i == job[p].item IN
  /\ pc[p] = "store" /\ job[p].buf # Absent
  /\ \E r \in job[p].buf.texts : r > job[p].resp
  /\ xcrf' = [xcrf EXCEPT ![i] = Nobody]
  /\ Goto(p, "relock")
  /\ UNCHANGED <<files, mem, xcma, xcrd, xarf, job, jobs, history>>

\* ... and lock it again without loading it again ...
Relock(p) ==
  LET i == job[p].item IN
  /\ pc[p] = "relock" /\ xcrf[i] = Nobody
  /\ xcrf' = [xcrf EXCEPT ![i] = p]
  /\ Goto(p, "rewrite")
  /\ UNCHANGED <<files, mem, xcma, xcrd, xarf, job, jobs, history>>

\* Bug: the frozen flag is always the one that was read before the lock.
StoreOldFlag(p) ==
  LET i == job[p].item
      r == job[p].resp
      buf == IF job[p].buf = Absent THEN [NewItem EXCEPT !.texts = {}] ELSE job[p].buf
      new == [texts |-> buf.texts \cup {r}, froz |-> job[p].head,
              info |-> (buf.info \ {r}) \cup (IF job[p].note THEN {r} ELSE {})]
  IN
  /\ pc[p] \in {"store", "rewrite"}
  /\ part' = [part EXCEPT ![i] = new]
  /\ xcrf' = [xcrf EXCEPT ![i] = Nobody]
  /\ job' = [job EXCEPT ![p].buf = Absent]
  /\ Goto(p, "undir")
  /\ stray' = stray \cup {k \in {i} : Deleted(master, k)}
  /\ lapsed' = lapsed \cup {k \in {i} : part[k] # Absent /\ part[k].froz = 2 /\ new.froz # 2}
  /\ UNCHANGED <<master, attach, mem, xcma, xcrd, xarf, jobs>>

\* ... and store the buffer with the new text, header and attachment info.
Store(p) ==
  LET i == job[p].item
      r == job[p].resp
      buf == IF job[p].buf = Absent THEN [NewItem EXCEPT !.texts = {}] ELSE job[p].buf
      new == [texts |-> buf.texts \cup {r},
              froz |-> IF r = 0 THEN job[p].head ELSE buf.froz,
              info |-> (buf.info \ {r}) \cup (IF job[p].note THEN {r} ELSE {})]
  IN
  /\ pc[p] \in {"store", "rewrite"}
  /\ part' = [part EXCEPT ![i] = new]
  /\ xcrf' = [xcrf EXCEPT ![i] = Nobody]
  /\ job' = [job EXCEPT ![p].buf = Absent]
  /\ Goto(p, "undir")
  /\ stray' = stray \cup {k \in {i} : Deleted(master, k)}
  /\ lapsed' = lapsed \cup {k \in {i} : part[k] # Absent /\ part[k].froz = 2 /\ new.froz # 2}
  /\ UNCHANGED <<master, attach, mem, xcma, xcrd, xarf, jobs>>

UnlockDir(p) ==
  LET op == job[p].op IN
  /\ pc[p] = "undir"
  /\ xcrd' = [xcrd EXCEPT ![job[p].item] = Nobody]
  /\ CASE op \in {"attach", "detach"} -> Goto(p, "lockarf") /\ UNCHANGED job
       [] op = "annotate" -> Goto(p, "unarf") /\ UNCHANGED job
       [] op = "backout" -> Goto(p, "killarf") /\ UNCHANGED job
       [] OTHER -> Return(p)
  /\ UNCHANGED <<files, mem, xcma, xcrf, xarf, jobs, history>>

\* itemdel: delete the attachments it found one by one ...
KillAttach(p) ==
  LET i == job[p].item
      r == CHOOSE n \in job[p].todo : \A k \in job[p].todo : n <= k
  IN
  /\ pc[p] = "kill" /\ job[p].todo # {}
  /\ xarf[<<i, r>>] = Nobody
  /\ attach' = attach \ {<<i, r>>}
  /\ job' = [job EXCEPT ![p].todo = @ \ {r}]
  /\ UNCHANGED <<master, part, mem, locks, pc, jobs, history>>

\* ... and then the partfiles.
KillParts(p) ==
  LET i == job[p].item IN
  /\ pc[p] = "kill" /\ job[p].todo = {}
  /\ xcrf[i] = Nobody
  /\ part' = [part EXCEPT ![i] = Absent]
  /\ Goto(p, "undir")
  /\ UNCHANGED <<master, attach, mem, locks, job, jobs, history>>

-----------------------------------------------------------------------------
(* Attachments (add_resp_attach, a_del_resp).                              *)

LockAttach(p) ==
  LET a == <<job[p].item, job[p].resp>> IN
  /\ pc[p] = "lockarf" /\ xarf[a] = Nobody
  /\ xarf' = [xarf EXCEPT ![a] = p]
  /\ Goto(p, IF job[p].op = "detach" THEN "killarf" ELSE "copy")
  /\ UNCHANGED <<files, mem, xcma, xcrd, xcrf, job, jobs, history>>

\* Bug: the result of unit_b_copy is ignored.
CopyUnchecked(p) ==
  /\ pc[p] = "copy"
  /\ \E done \in SUBSET {<<job[p].item, job[p].resp>>} : attach' = attach \cup done
  /\ job' = [job EXCEPT ![p].op = "annotate"]
  /\ Goto(p, "again")
  /\ UNCHANGED <<master, part, mem, locks, jobs, history>>

\* unit_b_copy; when it fails a piece of the file may be there.
Copy(p) ==
  /\ pc[p] = "copy"
  /\ attach' = attach \cup {<<job[p].item, job[p].resp>>}
  /\ \E op \in {"annotate", "backout"} : job' = [job EXCEPT ![p].op = op]
  /\ Goto(p, "again")
  /\ stray' = stray \cup {i \in {job[p].item} : Deleted(master, i)}
  /\ UNCHANGED <<master, part, mem, locks, jobs, lapsed>>

\* chg_dresp XT_CHANGE puts text and attachment info into the empty response;
\* XT_DELETE backs out of it.  A deleted item counts as success.
Again(p) ==
  LET i == job[p].item
      op == job[p].op
  IN
  /\ pc[p] = "again"
  /\ op = "annotate" /\ ~Deleted(mem[p], i) => Readable(i)
  /\ job' = [job EXCEPT ![p].note = op = "annotate"]
  /\ Goto(p, CASE Deleted(mem[p], i) -> IF op = "annotate" THEN "unarf" ELSE "killarf"
               [] ~Deleted(mem[p], i) /\ op = "annotate" /\ ~Has(i, job[p].resp) -> "killarf"
               [] OTHER -> "dir")
  /\ UNCHANGED <<files, mem, locks, jobs, history>>

KillAttachment(p) ==
  LET a == <<job[p].item, job[p].resp>> IN
  /\ pc[p] = "killarf"
  /\ attach' = attach \ {a}
  /\ xarf' = [xarf EXCEPT ![a] = Nobody]
  /\ Return(p)
  /\ UNCHANGED <<master, part, mem, xcma, xcrd, xcrf, jobs, history>>

UnlockAttach(p) ==
  /\ pc[p] = "unarf"
  /\ xarf' = [xarf EXCEPT ![<<job[p].item, job[p].resp>>] = Nobody]
  /\ Return(p)
  /\ UNCHANGED <<files, mem, xcma, xcrd, xcrf, jobs, history>>

-----------------------------------------------------------------------------
(* frz_ditem: only the first partfile is locked.                           *)

Peek(p) ==
  /\ pc[p] = "peek" /\ Readable(job[p].item)
  /\ IF Has(job[p].item, 0) THEN Goto(p, "frz") /\ UNCHANGED job ELSE Return(p)
  /\ UNCHANGED <<files, mem, locks, jobs, history>>

FreezeLock(p) ==
  LET i == job[p].item IN
  /\ pc[p] = "frz" /\ xcrf[i] = Nobody
  /\ xcrf' = [xcrf EXCEPT ![i] = p]
  /\ Goto(p, "frzset")
  /\ UNCHANGED <<files, mem, xcma, xcrd, xarf, job, jobs, history>>

\* 0 becomes 1 or 1 becomes 0; an item that Caucus froze (2) stays frozen.
\* If the partfile is gone by now, getline2 finds no header to alter.
FreezeSet(p) ==
  LET i == job[p].item IN
  /\ pc[p] = "frzset"
  /\ part' = IF ~Has(i, 0) THEN part
             ELSE [part EXCEPT ![i].froz = IF job[p].op = "freeze" /\ @ = 0 THEN 1
                                           ELSE IF job[p].op = "thaw" /\ @ = 1 THEN 0
                                           ELSE @]
  /\ xcrf' = [xcrf EXCEPT ![i] = Nobody]
  /\ Return(p)
  /\ UNCHANGED <<master, attach, mem, xcma, xcrd, xarf, jobs, history>>

-----------------------------------------------------------------------------
\* A subserver dies; its locks go with it.
Crash(p) ==
  LET Free(lock) == [x \in DOMAIN lock |-> IF lock[x] = p THEN Nobody ELSE lock[x]] IN
  /\ Crashes /\ pc[p] # "idle"
  /\ Return(p)
  /\ mem' = [mem EXCEPT ![p] = NoMaster]
  /\ xcma' = IF xcma = p THEN Nobody ELSE xcma
  /\ xcrd' = Free(xcrd) /\ xcrf' = Free(xcrf) /\ xarf' = Free(xarf)
  /\ stray' = stray \cup {i \in {job[p].item} : job[p].op = "zap"}
  /\ lapsed' = lapsed \cup {i \in {job[p].item} : pc[p] = "full"}
  /\ UNCHANGED <<files, jobs>>

Check(p) == Look(p) \/ Read(p) \/ Room(p) \/ Peek(p)
Master(p) ==
  \/ LockMaster(p) \/ Count(p) \/ Refused(p) \/ Full(p) \/ CreatePart(p)
  \/ Publish(p) \/ Mark(p) \/ SetAttr(p) \/ UnlockMaster(p)
Directory(p) ==
  \/ LockDir(p) \/ Load(p) \/ Split(p) \/ Relock(p) \/ Store(p) \/ UnlockDir(p)
  \/ KillAttach(p) \/ KillParts(p)
Attachment(p) ==
  LockAttach(p) \/ Copy(p) \/ Again(p) \/ KillAttachment(p) \/ UnlockAttach(p)
Step(p) ==
  Check(p) \/ Master(p) \/ Directory(p) \/ Attachment(p) \/ FreezeLock(p) \/ FreezeSet(p)

Next ==
  \E p \in Proc :
    \/ \E op \in Ops, i \in Items, r \in Nums : Begin(p, op, i, r)
    \/ Forget(p) \/ Step(p) \/ Crash(p)

Spec == Init /\ [][Next]_vars
FairSpec == Spec /\ \A p \in Proc : WF_vars(Step(p))

-----------------------------------------------------------------------------
(* Properties.                                                             *)

PartType == [texts : SUBSET Nums, froz : 0 .. 2, info : SUBSET Nums]
MasterType == [items : 0 .. Slots, attr : BOOLEAN, responses : [Items -> -1 .. MaxResp]]
\* Every variable has its type, and XCMA is held just where the code holds it.
TypeOK ==
  /\ master \in MasterType
  /\ \A p \in Proc : mem[p] = NoMaster \/ mem[p] \in MasterType
  /\ \A i \in Items : part[i] = Absent \/ part[i] \in PartType
  /\ attach \subseteq Items \X Nums
  /\ xcma \in Proc \cup {Nobody}
  /\ {xcrd, xcrf} \subseteq [Items -> Proc \cup {Nobody}]
  /\ xarf \in [Items \X Nums -> Proc \cup {Nobody}]
  /\ \A p \in Proc : job[p].item \in Items /\ job[p].resp \in Nums
  /\ jobs \in 0 .. MaxJobs
  /\ \A p \in Proc : xcma = p <=> pc[p] \in {"counts", "publish", "full", "unlock"}

\* No update of the master file is lost: whatever copies of it the subservers
\* hold, each rewrite adds one item, counts one response, marks one deletion
\* or changes an attribute of what is on disk (srvldmas under XCMA before
\* every store_master).
MasterAtomic ==
  [][\/ /\ master.items < Slots
        /\ master' = [master EXCEPT !.items = @ + 1, !.responses[master.items + 1] = 0]
     \/ \E i \in 1 .. master.items :
          /\ ~Deleted(master, i)
          /\ master' = [master EXCEPT !.responses[i] = @ + 1]
     \/ \E i \in 1 .. master.items : master' = [master EXCEPT !.responses[i] = -1]
     \/ master' = [master EXCEPT !.attr = ~@]]_master

\* p has a number for its new response and has not stored its text.
Adding(p) ==
  job[p].op \in {"new", "attach"}
    /\ pc[p] \in {"full", "unlock", "dir", "load", "store", "relock", "rewrite"}

\* The response number from chg_dresp is p's alone: nobody else is writing
\* under it, and in an item that still exists nobody has.
NumbersUnique ==
  \A p \in Proc : Adding(p) =>
    /\ \A q \in Proc \ {p} : Adding(q) =>
         <<job[q].item, job[q].resp>> # <<job[p].item, job[p].resp>>
    /\ ~Has(job[p].item, job[p].resp)

\* The master file counts every response that has a text.
TextsCounted ==
  \A i \in 1 .. master.items : ~Deleted(master, i) /\ part[i] # Absent =>
    part[i].texts \subseteq 0 .. master.responses[i]

\* createitem: "in case of a crash during the item creation process, the master
\* file and the old items remain entirely consistent" (createit.c:9-11), that
\* is, each item the master file counts has its text.
ItemsExist ==
  \A i \in 1 .. master.items : Deleted(master, i) \/ Has(i, 0)

\* a_add_resp goes about attachments in an order that ensures "that file
\* attachment info doesn't exist for a non-existent attachment"
\* (aaddresp.c:26-27).
AttachmentsExist ==
  \A i \in 1 .. master.items : ~Deleted(master, i) /\ part[i] # Absent =>
    \A r \in part[i].info : <<i, r>> \in attach

\* An item that is full is frozen for good, and until then at most one
\* response per subserver gets past the check in a_add_resp; unless the one
\* who was to freeze it died, or a header that was read before was stored.
FullIsFrozen ==
  \A i \in 1 .. master.items : ~Deleted(master, i) /\ i \notin lapsed =>
    /\ master.responses[i] < FreezeAt + Cardinality(Proc)
    /\ \/ master.responses[i] < FreezeAt
       \/ part[i].froz = 2
       \/ \E p \in Proc : pc[p] = "full" /\ job[p].item = i

\* Every operation returns: nobody waits for ever for a lock.
AllReturn == \A p \in Proc : pc[p] # "idle" ~> pc[p] = "idle"

\* itemdel: "Delete the item and all of its responses and attachments"
\* (itemdel.c:15).  When all is quiet nothing is left of a deleted item,
\* unless its deletion was cut short or something was written after it: a
\* response that had its number already.
DeletedGone ==
  (\A p \in Proc : pc[p] = "idle") =>
    \A i \in 1 .. master.items : Deleted(master, i) /\ i \notin stray =>
      part[i] = Absent /\ \A r \in Nums : <<i, r>> \notin attach

\* What thaws an item is frz_ditem, and never one that Caucus froze, or else a
\* writer of the partfile that read the header before the item was frozen: one
\* that changes the item itself (chgditem.c:173) or one that let go of the
\* partfile in between (updatepa.c:265).  Adding to an item never does.
OnlyStaleHeadersThaw ==
  [][\A i \in Items :
       Has(i, 0) /\ part'[i] # Absent /\ part'[i].froz < part[i].froz =>
         \E p \in Proc : job[p].item = i /\
           \/ pc[p] = "frzset" /\ job[p].op = "thaw" /\ part[i].froz = 1
           \/ pc[p] = "store" /\ job[p].resp = 0
           \/ pc[p] = "rewrite"]_part

=============================================================================
