--------------------------- MODULE UnitFileProofs ---------------------------
(***************************************************************************)
(* Proofs about UnitFile, for any set of processes and contents, and about *)
(* LockMap, for every file that has a lock.                                *)
(*                                                                         *)
(* Discipline is what the library needs of its callers: either views take  *)
(* the lock exclusively, or nothing ever fails between two system calls.   *)
(***************************************************************************)
EXTENDS UnitFile, LockMap

ViewsExclude == ViewModes \subseteq {"WRITE"}
Discipline == ViewsExclude \/ ~Faults

\* fcntl: a write lock excludes every other lock.
WriteExcludes ==
  \A p, q \in Proc : p # q /\ lock[p] = "WRITE" => lock[q] = "none"

\* Where a process is in a call, what it has open and what it has locked.
Holding(p) ==
  /\ access[p] # "UNLKED" => lock[p] # "none"
  /\ pc[p] \in {"v_unlink", "v_rename", "v_open", "m_rename", "m_open"}
       => access[p] = "LOCKED"
  /\ pc[p] = "c_unlink" => access[p] = "WRITE"
  /\ pc[p] \in {"v_unlink", "v_rename", "v_open"} => lock[p] \in ViewModes
  /\ pc[p] \in {"m_rename", "m_open"} \/ access[p] = "WRITE" => lock[p] = "WRITE"

\* What a process in the middle of a call knows of the two entries.
Midway(p) ==
  /\ pc[p] = "v_open" => backup = Absent
  /\ pc[p] = "m_rename" => backup = Absent /\ file # Absent
  /\ pc[p] = "m_open" => backup # Absent \/ file = Absent
  /\ pc[p] = "c_unlink" => file \in Val
  /\ access[p] = "WRITE" => file # Absent

\* A viewer about to unlink the file still has the backup to put back.
FreshRestore == \A p \in Proc : pc[p] = "v_unlink" => backup # Absent

\* Without faults a backup only exists while its writer is at work.
Settled ==
  /\ \A p \in Proc : pc[p] \notin {"v_unlink", "v_rename"}
  /\ backup # Absent =>
       \E q \in Proc : lock[q] = "WRITE" /\ (pc[q] = "m_open" \/ access[q] = "WRITE")

Core ==
  /\ TypeOK
  /\ WriteExcludes
  /\ \A p \in Proc : Holding(p)
  /\ \A p \in Proc : Midway(p)

IInv ==
  /\ Core
  /\ ViewsExclude => FreshRestore
  /\ ~Faults => Settled
  /\ Discipline => Durable /\ ReadsCommitted

-----------------------------------------------------------------------------
\* Nobody holds or does anything at first.
LEMMA CoreInit == Init => Core
BY ContentAssumption DEF Init, Core, TypeOK, Entry, WriteExcludes, Holding, Midway

\* Every step of every unit_ call assigns values of the right type.
LEMMA TypeStep == Core /\ [Next]_vars => TypeOK'
<1>. SUFFICES ASSUME Core, [Next]_vars PROVE TypeOK'
  OBVIOUS
<1>. USE ContentAssumption DEF Core, TypeOK, Entry
<1>1. CASE UNCHANGED vars
  BY <1>1 DEF vars
<1>2. ASSUME NEW p \in Proc, NEW mode \in {"READ", "WRITE"}, unit_lock(p, mode)
      PROVE TypeOK'
  BY <1>2 DEF unit_lock
<1>3. ASSUME NEW p \in Proc, unit_view(p) PROVE TypeOK'
  BY <1>3 DEF unit_view, ViewCheck, ViewUnlink, ViewRename, ViewOpen
<1>4. ASSUME NEW p \in Proc, unit_make(p) PROVE TypeOK'
  BY <1>4 DEF unit_make, MakeCheck, MakeRename, MakeOpen, MakeOpenFails
<1>5. ASSUME NEW p \in Proc, unit_close(p) PROVE TypeOK'
  BY <1>5 DEF unit_close, CloseView, CloseFlush, CloseFails, CloseUnlink, Midway
<1>6. ASSUME NEW p \in Proc, unit_kill(p) \/ unit_unlk(p) \/ Crash(p) PROVE TypeOK'
  BY <1>6 DEF unit_kill, unit_unlk, Crash
<1>. QED
  BY <1>1, <1>2, <1>3, <1>4, <1>5, <1>6 DEF Next

\* A step keeps the locks exclusive and every process consistent.
LEMMA HoldingStep ==
  Core /\ [Next]_vars => WriteExcludes' /\ \A p \in Proc : Holding(p)'
<1>. SUFFICES ASSUME Core, [Next]_vars
     PROVE WriteExcludes' /\ \A q \in Proc : Holding(q)'
  OBVIOUS
<1>. USE ModeAssumption DEF Core, TypeOK, WriteExcludes, Holding
<1>1. CASE UNCHANGED vars
  BY <1>1 DEF vars
<1>2. ASSUME NEW p \in Proc, NEW mode \in {"READ", "WRITE"}, unit_lock(p, mode)
      PROVE WriteExcludes' /\ \A q \in Proc : Holding(q)'
  <2>1. WriteExcludes'
    BY <1>2 DEF unit_lock, Grantable
  <2>2. \A q \in Proc : Holding(q)'
    BY <1>2 DEF unit_lock
  <2>. QED
    BY <2>1, <2>2
<1>3. ASSUME NEW p \in Proc, unit_view(p)
      PROVE WriteExcludes' /\ \A q \in Proc : Holding(q)'
  BY <1>3 DEF unit_view, ViewCheck, ViewUnlink, ViewRename, ViewOpen
<1>4. ASSUME NEW p \in Proc, unit_make(p)
      PROVE WriteExcludes' /\ \A q \in Proc : Holding(q)'
  BY <1>4 DEF unit_make, MakeCheck, MakeRename, MakeOpen, MakeOpenFails
<1>5. ASSUME NEW p \in Proc, unit_close(p)
      PROVE WriteExcludes' /\ \A q \in Proc : Holding(q)'
  BY <1>5 DEF unit_close, CloseView, CloseFlush, CloseFails, CloseUnlink
<1>6. ASSUME NEW p \in Proc, unit_kill(p) \/ unit_unlk(p) \/ Crash(p)
      PROVE WriteExcludes' /\ \A q \in Proc : Holding(q)'
  BY <1>6 DEF unit_kill, unit_unlk, Crash
<1>. QED
  BY <1>1, <1>2, <1>3, <1>4, <1>5, <1>6 DEF Next

\* A step of one process leaves another's knowledge of the entries intact:
\* whoever changes an entry holds the write lock, or is putting back a backup.
LEMMA MidwayStep == Core /\ [Next]_vars => \A p \in Proc : Midway(p)'
<1>. SUFFICES ASSUME Core, [Next]_vars, NEW q \in Proc PROVE Midway(q)'
  OBVIOUS
<1>. USE ContentAssumption, ModeAssumption
     DEF Core, TypeOK, Entry, WriteExcludes, Holding, Midway
<1>1. CASE UNCHANGED vars
  BY <1>1 DEF vars
<1>2. ASSUME NEW p \in Proc, NEW mode \in {"READ", "WRITE"}, unit_lock(p, mode)
      PROVE Midway(q)'
  BY <1>2 DEF unit_lock
<1>3. ASSUME NEW p \in Proc, unit_view(p) PROVE Midway(q)'
  <2>1. CASE ViewCheck(p)
    BY <2>1 DEF ViewCheck
  <2>2. CASE ViewUnlink(p)
    BY <2>2 DEF ViewUnlink
  <2>3. CASE ViewRename(p)
    BY <2>3 DEF ViewRename
  <2>4. CASE ViewOpen(p)
    BY <2>4 DEF ViewOpen
  <2>. QED
    BY <1>3, <2>1, <2>2, <2>3, <2>4 DEF unit_view
<1>4. ASSUME NEW p \in Proc, unit_make(p) PROVE Midway(q)'
  BY <1>4 DEF unit_make, MakeCheck, MakeRename, MakeOpen, MakeOpenFails
<1>5. ASSUME NEW p \in Proc, unit_close(p) PROVE Midway(q)'
  BY <1>5 DEF unit_close, CloseView, CloseFlush, CloseFails, CloseUnlink
<1>6. ASSUME NEW p \in Proc, unit_kill(p) \/ unit_unlk(p) \/ Crash(p)
      PROVE Midway(q)'
  BY <1>6 DEF unit_kill, unit_unlk, Crash
<1>. QED
  BY <1>1, <1>2, <1>3, <1>4, <1>5, <1>6 DEF Next

\* So the part of the invariant that needs no discipline is inductive.
LEMMA CoreStep == Core /\ [Next]_vars => Core'
BY TypeStep, HoldingStep, MidwayStep DEF Core

-----------------------------------------------------------------------------
\* Every step keeps completed contents recoverable, except a viewer's unlink
\* of the file when the backup it found has gone.
LEMMA DurableStep ==
  Core /\ Durable /\ [Next]_vars =>
    Durable' \/ \E p \in Proc : ViewUnlink(p) /\ backup = Absent
<1>. SUFFICES ASSUME Core, Durable, [Next]_vars,
                     ~ \E p \in Proc : ViewUnlink(p) /\ backup = Absent
     PROVE Durable'
  OBVIOUS
<1>. USE ContentAssumption DEF Core, TypeOK, Entry, Holding, Midway, Durable, Recovered
<1>1. CASE UNCHANGED vars
  BY <1>1 DEF vars
<1>2. ASSUME NEW p \in Proc, NEW mode \in {"READ", "WRITE"}, unit_lock(p, mode)
      PROVE Durable'
  BY <1>2 DEF unit_lock
<1>3. ASSUME NEW p \in Proc, unit_view(p) PROVE Durable'
  <2>1. CASE ViewUnlink(p)
    BY <2>1 DEF ViewUnlink
  <2>2. CASE ViewCheck(p) \/ ViewRename(p) \/ ViewOpen(p)
    BY <2>2 DEF ViewCheck, ViewRename, ViewOpen
  <2>. QED
    BY <1>3, <2>1, <2>2 DEF unit_view
<1>4. ASSUME NEW p \in Proc, unit_make(p) PROVE Durable'
  BY <1>4 DEF unit_make, MakeCheck, MakeRename, MakeOpen, MakeOpenFails
<1>5. ASSUME NEW p \in Proc, unit_close(p) PROVE Durable'
  BY <1>5 DEF unit_close, CloseView, CloseFlush, CloseFails, CloseUnlink
<1>6. ASSUME NEW p \in Proc, unit_kill(p) \/ unit_unlk(p) \/ Crash(p) PROVE Durable'
  BY <1>6 DEF unit_kill, unit_unlk, Crash
<1>. QED
  BY <1>1, <1>2, <1>3, <1>4, <1>5, <1>6 DEF Next

\* Exclusive viewers never act on a stale check.
LEMMA FreshStep ==
  ASSUME ViewsExclude, Core, FreshRestore, [Next]_vars
  PROVE  FreshRestore'
<1>. SUFFICES ASSUME NEW q \in Proc, pc'[q] = "v_unlink" PROVE backup' # Absent
  BY DEF FreshRestore
<1>. USE ContentAssumption
     DEF ViewsExclude, Core, TypeOK, Entry, WriteExcludes, Holding, Midway, FreshRestore
<1>1. CASE UNCHANGED vars
  BY <1>1 DEF vars
<1>2. ASSUME NEW p \in Proc, NEW mode \in {"READ", "WRITE"}, unit_lock(p, mode)
      PROVE backup' # Absent
  BY <1>2 DEF unit_lock
<1>3. ASSUME NEW p \in Proc, unit_view(p) PROVE backup' # Absent
  <2>1. CASE ViewRename(p)
    BY <2>1 DEF ViewRename
  <2>2. CASE ViewCheck(p) \/ ViewUnlink(p) \/ ViewOpen(p)
    BY <2>2 DEF ViewCheck, ViewUnlink, ViewOpen
  <2>. QED
    BY <1>3, <2>1, <2>2 DEF unit_view
<1>4. ASSUME NEW p \in Proc, unit_make(p) PROVE backup' # Absent
  BY <1>4 DEF unit_make, MakeCheck, MakeRename, MakeOpen, MakeOpenFails
<1>5. ASSUME NEW p \in Proc, unit_close(p) PROVE backup' # Absent
  BY <1>5 DEF unit_close, CloseView, CloseFlush, CloseFails, CloseUnlink
<1>6. ASSUME NEW p \in Proc, unit_kill(p) \/ unit_unlk(p) \/ Crash(p)
      PROVE backup' # Absent
  BY <1>6 DEF unit_kill, unit_unlk, Crash
<1>. QED
  BY <1>1, <1>2, <1>3, <1>4, <1>5, <1>6 DEF Next

\* Without faults a viewer never finds a backup.
LEMMA SettledStep ==
  ASSUME ~Faults, Core, Settled, [Next]_vars
  PROVE  Settled'
<1>. USE ContentAssumption
     DEF Core, TypeOK, Entry, WriteExcludes, Holding, Midway, Settled
<1>1. CASE UNCHANGED vars
  BY <1>1 DEF vars
<1>2. ASSUME NEW p \in Proc, NEW mode \in {"READ", "WRITE"}, unit_lock(p, mode)
      PROVE Settled'
  BY <1>2 DEF unit_lock
<1>3. ASSUME NEW p \in Proc, unit_view(p) PROVE Settled'
  <2>1. CASE ViewCheck(p)
    <3>1. backup = Absent
      BY <2>1 DEF ViewCheck
    <3>. QED
      BY <2>1, <3>1 DEF ViewCheck
  <2>2. CASE ViewUnlink(p) \/ ViewRename(p) \/ ViewOpen(p)
    BY <2>2 DEF ViewUnlink, ViewRename, ViewOpen
  <2>. QED
    BY <1>3, <2>1, <2>2 DEF unit_view
<1>4. ASSUME NEW p \in Proc, unit_make(p) PROVE Settled'
  <2>1. lock[p] = "WRITE" /\ lock' = lock
    BY <1>4 DEF unit_make, MakeCheck, MakeRename, MakeOpen, MakeOpenFails
  <2>2. backup' # Absent => pc'[p] = "m_open" \/ access'[p] = "WRITE"
    BY <1>4 DEF unit_make, MakeCheck, MakeRename, MakeOpen, MakeOpenFails
  <2>3. \A q \in Proc : pc'[q] \notin {"v_unlink", "v_rename"}
    BY <1>4 DEF unit_make, MakeCheck, MakeRename, MakeOpen, MakeOpenFails
  <2>. QED
    BY <2>1, <2>2, <2>3
<1>5. ASSUME NEW p \in Proc, unit_close(p) PROVE Settled'
  <2>1. CASE CloseView(p)
    BY <2>1 DEF CloseView
  <2>2. CASE (\E v \in Val : CloseFlush(p, v)) \/ CloseUnlink(p)
    BY <2>2 DEF CloseFlush, CloseUnlink
  <2>. QED
    BY <1>5, <2>1, <2>2 DEF unit_close, CloseFails
<1>6. ASSUME NEW p \in Proc, unit_kill(p) \/ unit_unlk(p) PROVE Settled'
  BY <1>6 DEF unit_kill, unit_unlk
<1>. QED
  BY <1>1, <1>2, <1>3, <1>4, <1>5, <1>6 DEF Next, Crash

\* A reader keeps what it opened: nobody completes a rewrite under its lock.
LEMMA ReadsStep ==
  ASSUME Core, Durable, ReadsCommitted, [Next]_vars
  PROVE  ReadsCommitted'
<1>. SUFFICES ASSUME NEW q \in Proc, access'[q] = "READ", committed' \in Val
     PROVE seen'[q] = committed'
  BY DEF ReadsCommitted
<1>. USE ContentAssumption
     DEF Core, TypeOK, Entry, WriteExcludes, Holding, Midway, ReadsCommitted
<1>1. CASE UNCHANGED vars
  BY <1>1 DEF vars
<1>2. ASSUME NEW p \in Proc, NEW mode \in {"READ", "WRITE"}, unit_lock(p, mode)
      PROVE seen'[q] = committed'
  BY <1>2 DEF unit_lock
<1>3. ASSUME NEW p \in Proc, unit_view(p) PROVE seen'[q] = committed'
  BY <1>3 DEF unit_view, ViewCheck, ViewUnlink, ViewRename, ViewOpen, Durable, Recovered
<1>4. ASSUME NEW p \in Proc, unit_make(p) PROVE seen'[q] = committed'
  BY <1>4 DEF unit_make, MakeCheck, MakeRename, MakeOpen, MakeOpenFails
<1>5. ASSUME NEW p \in Proc, unit_close(p) PROVE seen'[q] = committed'
  BY <1>5 DEF unit_close, CloseView, CloseFlush, CloseFails, CloseUnlink
<1>6. ASSUME NEW p \in Proc, unit_kill(p) \/ unit_unlk(p) \/ Crash(p)
      PROVE seen'[q] = committed'
  BY <1>6 DEF unit_kill, unit_unlk, Crash
<1>. QED
  BY <1>1, <1>2, <1>3, <1>4, <1>5, <1>6 DEF Next

\* A file without a backup is what was committed.
LEMMA IInvInit == Init => IInv
<1>. SUFFICES ASSUME Init PROVE IInv
  OBVIOUS
<1>1. Core
  BY CoreInit
<1>2. FreshRestore /\ Settled /\ Durable /\ ReadsCommitted
  BY DEF Init, FreshRestore, Settled, Durable, Recovered, ReadsCommitted
<1>. QED
  BY <1>1, <1>2 DEF IInv

\* Under the discipline no viewer can make the stale unlink.
LEMMA NoStaleRestore ==
  IInv /\ Discipline => ~ \E p \in Proc : ViewUnlink(p) /\ backup = Absent
BY DEF IInv, Discipline, FreshRestore, Settled, ViewUnlink

\* The whole invariant is inductive: durability needs that no unlink is stale,
\* reading committed contents needs durability.
LEMMA IInvStep == IInv /\ [Next]_vars => IInv'
<1>. SUFFICES ASSUME IInv, [Next]_vars PROVE IInv'
  OBVIOUS
<1>1. Core'
  BY CoreStep DEF IInv
<1>2. ViewsExclude => FreshRestore'
  BY FreshStep DEF IInv
<1>3. ~Faults => Settled'
  BY SettledStep DEF IInv
<1>4. ASSUME Discipline PROVE Durable' /\ ReadsCommitted'
  <2>1. Durable'
    BY <1>4, DurableStep, NoStaleRestore DEF IInv
  <2>2. ReadsCommitted'
    BY <1>4, ReadsStep DEF IInv
  <2>. QED
    BY <2>1, <2>2
<1>. QED
  BY <1>1, <1>2, <1>3, <1>4 DEF IInv, Discipline, ViewsExclude

-----------------------------------------------------------------------------
\* The combined invariant holds in every state the library can reach.
THEOREM Invariance == Spec => []IInv
BY IInvInit, IInvStep, PTL DEF Spec

\* Type correctness.
THEOREM TypeCorrect == Spec => []TypeOK
<1>1. IInv => TypeOK
  BY DEF IInv, Core
<1>. QED
  BY <1>1, Invariance, PTL

\* Completed rewrites survive every interleaving and every crash of
\* unit_lock, unit_view, unit_make, unit_close and unit_kill, provided that
\* views take the lock exclusively; with shared views they survive as long as
\* no process dies and no write fails.
THEOREM Durability == Discipline => (Spec => []Durable)
<1>. SUFFICES ASSUME Discipline PROVE Spec => []Durable
  OBVIOUS
<1>1. IInv => Durable
  BY DEF IInv
<1>. QED
  BY <1>1, Invariance, PTL

\* Under the same discipline a view never delivers anything but the last
\* completed rewrite.
THEOREM CommittedReads == Discipline => (Spec => []ReadsCommitted)
<1>. SUFFICES ASSUME Discipline PROVE Spec => []ReadsCommitted
  OBVIOUS
<1>1. IInv => ReadsCommitted
  BY DEF IInv
<1>. QED
  BY <1>1, Invariance, PTL

\* With no discipline at all, the unlink in unit_view on the strength of a
\* stale check is the only step that can lose completed contents.
THEOREM SoleLoss == Spec => LostOnlyByStaleRestore
<1>1. IInv /\ [Next]_vars =>
        [Durable => Durable' \/ \E p \in Proc : ViewUnlink(p) /\ backup = Absent]_vars
  BY DurableStep DEF IInv
<1>. QED
  BY <1>1, Invariance, PTL DEF Spec, LostOnlyByStaleRestore

-----------------------------------------------------------------------------
\* Every step of the library is a step of the atomic register, or none.
LEMMA RegisterStep ==
  ASSUME Discipline, IInv, [Next]_vars
  PROVE  [Register!Next]_<<Recovered, seen>>
<1>. USE ContentAssumption DEF IInv, Core, TypeOK, Entry, Holding, Midway, Recovered
<1>1. CASE UNCHANGED vars
  BY <1>1 DEF vars
<1>2. ASSUME NEW p \in Proc, NEW mode \in {"READ", "WRITE"}, unit_lock(p, mode)
      PROVE UNCHANGED <<Recovered, seen>>
  BY <1>2 DEF unit_lock
<1>3. ASSUME NEW p \in Proc, unit_view(p)
      PROVE Register!View(p) \/ UNCHANGED <<Recovered, seen>>
  <2>1. CASE ViewUnlink(p)
    BY <2>1, NoStaleRestore DEF ViewUnlink
  <2>2. CASE ViewCheck(p) \/ ViewRename(p)
    BY <2>2 DEF ViewCheck, ViewRename
  <2>3. CASE ViewOpen(p)
    BY <2>3 DEF ViewOpen, Register!View
  <2>. QED
    BY <1>3, <2>1, <2>2, <2>3 DEF unit_view
<1>4. ASSUME NEW p \in Proc, unit_make(p)
      PROVE Register!Create \/ UNCHANGED <<Recovered, seen>>
  BY <1>4 DEF unit_make, MakeCheck, MakeRename, MakeOpen, MakeOpenFails, Register!Create
<1>5. ASSUME NEW p \in Proc, unit_close(p)
      PROVE Register!Rewrite \/ UNCHANGED <<Recovered, seen>>
  BY <1>5 DEF unit_close, CloseView, CloseFlush, CloseFails, CloseUnlink, Register!Rewrite
<1>6. ASSUME NEW p \in Proc, unit_kill(p) \/ unit_unlk(p)
      PROVE Register!Kill \/ UNCHANGED <<Recovered, seen>>
  BY <1>6 DEF unit_kill, unit_unlk, Register!Kill
<1>7. ASSUME NEW p \in Proc, Crash(p) PROVE Register!Restart(p)
  BY <1>7 DEF Crash, Register!Restart
<1>. QED
  BY <1>1, <1>2, <1>3, <1>4, <1>5, <1>6, <1>7 DEF Next, Register!Next

\* Under the discipline the system calls of unit_view, unit_make, unit_close
\* and unit_kill implement a register with atomic reads and writes.
THEOREM Refinement == Discipline => (Spec => ImplementsRegister)
<1>. SUFFICES ASSUME Discipline PROVE Spec => Register!Spec
  BY DEF ImplementsRegister
<1>1. Init => Register!Init
  BY DEF Init, Recovered, Register!Init
<1>2. IInv /\ [Next]_vars => [Register!Next]_<<Recovered, seen>>
  BY RegisterStep
<1>. QED
  BY <1>1, <1>2, Invariance, PTL DEF Spec, Register!Spec


-----------------------------------------------------------------------------
(* The lockmap.                                                            *)

\* The blocks, computed.
LEMMA Blocks ==
  /\ lmap.one.first = 0
  /\ lmap.XUNN.first = 1000
  /\ lmap.XUON.first = 2000
  /\ lmap.XUPA.first = 3000
  /\ lmap.XUSF.first = 4000
  /\ lmap.XUMF.first = 5000
  /\ lmap.XAMF.first = 6000
  /\ lmap.XCMN.first = 1000
  /\ lmap.XCTN.first = 2000
  /\ lmap.XCAN.first = 3000
  /\ lmap.XCNN.first = 4000
  /\ lmap.XCON.first = 5000
  /\ lmap.XCSF.first = 6000
  /\ lmap.XCEN.first = 7000
  /\ lmap.XCFD.first = 8000
  /\ lmap.XCVA.first = 17950
  /\ lmap.XCFN.first = 27900
  /\ lmap.XCRD.first = 9977900
  /\ lmap.XCRF.first = 9987850
  /\ lmap.XARF.first = 109487899
<1>0. Codes.first = 0 /\ Codes.range = 1000
  BY SMT DEF Codes
<1>1. XUNN.first = 1000 /\ XUNN.range = 1000
  BY <1>0, SMT DEF XUNN, Def
<1>2. XUON.first = 2000 /\ XUON.range = 1000
  BY <1>1, SMT DEF XUON, Def
<1>3. XUPA.first = 3000 /\ XUPA.range = 1000
  BY <1>2, SMT DEF XUPA, Def
<1>4. XUSF.first = 4000 /\ XUSF.range = 1000
  BY <1>3, SMT DEF XUSF, Def
<1>5. XUMF.first = 5000 /\ XUMF.range = 1000
  BY <1>4, SMT DEF XUMF, Def
<1>6. XAMF.first = 6000 /\ XAMF.range = 1000
  BY <1>5, SMT DEF XAMF, Def
<1>7. XCMN.first = 1000 /\ XCMN.range = 1000
  BY <1>0, SMT DEF XCMN, Def
<1>8. XCTN.first = 2000 /\ XCTN.range = 1000
  BY <1>7, SMT DEF XCTN, Def
<1>9. XCAN.first = 3000 /\ XCAN.range = 1000
  BY <1>8, SMT DEF XCAN, Def
<1>10. XCNN.first = 4000 /\ XCNN.range = 1000
  BY <1>9, SMT DEF XCNN, Def
<1>11. XCON.first = 5000 /\ XCON.range = 1000
  BY <1>10, SMT DEF XCON, Def
<1>12. XCSF.first = 6000 /\ XCSF.range = 1000
  BY <1>11, SMT DEF XCSF, Def
<1>13. XCEN.first = 7000 /\ XCEN.range = 1000
  BY <1>12, SMT DEF XCEN, Def
<1>14. XCFD.first = 8000 /\ XCFD.range = 9950
  BY <1>13, SMT DEF XCFD, Def, MAXITEMS, MAXRESP, MAXLNUM
<1>15. XCVA.first = 17950 /\ XCVA.range = 9950
  BY <1>14, SMT DEF XCVA, Def, MAXITEMS, MAXRESP, MAXLNUM
<1>16. XCFN.first = 27900 /\ XCFN.range = 9950000
  BY <1>15, SMT DEF XCFN, Def, MAXITEMS, MAXRESP, MAXLNUM
<1>17. XCRD.first = 9977900 /\ XCRD.range = 9950
  BY <1>16, SMT DEF XCRD, Def, MAXITEMS, MAXRESP, MAXLNUM
<1>18. XCRF.first = 9987850 /\ XCRF.range = 99500049
  BY <1>17, SMT DEF XCRF, Def, MAXITEMS, MAXRESP, MAXLNUM
<1>19. XARF.first = 109487899 /\ XARF.range = 99490050
  BY <1>18, SMT DEF XARF, Def, MAXITEMS, MAXRESP, MAXLNUM
<1> QED
  BY <1>0, <1>1, <1>2, <1>3, <1>4, <1>5, <1>6, <1>7, <1>8, <1>9, <1>10, <1>11, <1>12, <1>13, <1>14, <1>15, <1>16, <1>17, <1>18, <1>19, SMT DEF lmap

\* Where the files of a user are.
LEMMA UserPlace ==
  ASSUME NEW f \in UserFiles
  PROVE  \/ f.unit = "one" /\ f = File("one", f.item, 0, 0) /\ f.item \in Thousand /\ Lock(f) = f.item
         \/ f.unit = "XUNN" /\ f = File("XUNN", f.item, 0, 0) /\ f.item \in Thousand /\ Lock(f) = 1000 + f.item
         \/ f.unit = "XUON" /\ f = File("XUON", f.item, 0, 0) /\ f.item \in Thousand /\ Lock(f) = 2000 + f.item
         \/ f.unit = "XUPA" /\ f = File("XUPA", f.item, 0, 0) /\ f.item \in Thousand /\ Lock(f) = 3000 + f.item
         \/ f.unit = "XUSF" /\ f = File("XUSF", 0, f.resp, 0) /\ f.resp \in Thousand /\ Lock(f) = 4000 + f.resp
         \/ f.unit = "XUMF" /\ f = File("XUMF", 0, f.resp, 0) /\ f.resp \in Thousand /\ Lock(f) = 5000 + f.resp
         \/ f.unit = "XAMF" /\ f = File("XAMF", 0, f.resp, 0) /\ f.resp \in Thousand /\ Lock(f) = 6000 + f.resp
<1>1. ASSUME NEW n \in Thousand, f = File("one", n, 0, 0)
      PROVE  f.unit = "one" /\ f.item = n /\ Lock(f) = n
  BY <1>1, Blocks, SMT DEF File, Lock, Offset, Thousand
<1>2. ASSUME NEW n \in Thousand, f = File("XUNN", n, 0, 0)
      PROVE  f.unit = "XUNN" /\ f.item = n /\ Lock(f) = 1000 + n
  BY <1>2, Blocks, SMT DEF File, Lock, Offset, Thousand
<1>3. ASSUME NEW n \in Thousand, f = File("XUON", n, 0, 0)
      PROVE  f.unit = "XUON" /\ f.item = n /\ Lock(f) = 2000 + n
  BY <1>3, Blocks, SMT DEF File, Lock, Offset, Thousand
<1>4. ASSUME NEW n \in Thousand, f = File("XUPA", n, 0, 0)
      PROVE  f.unit = "XUPA" /\ f.item = n /\ Lock(f) = 3000 + n
  BY <1>4, Blocks, SMT DEF File, Lock, Offset, Thousand
<1>5. ASSUME NEW n \in Thousand, f = File("XUSF", 0, n, 0)
      PROVE  f.unit = "XUSF" /\ f.resp = n /\ Lock(f) = 4000 + n
  BY <1>5, Blocks, SMT DEF File, Lock, Offset, Thousand
<1>6. ASSUME NEW n \in Thousand, f = File("XUMF", 0, n, 0)
      PROVE  f.unit = "XUMF" /\ f.resp = n /\ Lock(f) = 5000 + n
  BY <1>6, Blocks, SMT DEF File, Lock, Offset, Thousand
<1>7. ASSUME NEW n \in Thousand, f = File("XAMF", 0, n, 0)
      PROVE  f.unit = "XAMF" /\ f.resp = n /\ Lock(f) = 6000 + n
  BY <1>7, Blocks, SMT DEF File, Lock, Offset, Thousand
<1>8. \E n \in Thousand :
        \/ \E u \in {"one", "XUNN", "XUON", "XUPA"} : f = File(u, n, 0, 0)
        \/ \E u \in {"XUSF", "XUMF", "XAMF"} : f = File(u, 0, n, 0)
  BY SMT DEF UserFiles, Listed
<1> QED
  BY <1>1, <1>2, <1>3, <1>4, <1>5, <1>6, <1>7, <1>8, SMT

\* Files of one user: user's directories, lists, participations, messages and
\* their attachments have locks of their own.
THEOREM UserLocks == LocksApart(UserFiles)
<1> SUFFICES ASSUME NEW f \in UserFiles, NEW g \in UserFiles
             PROVE  /\ Lock(f) \in Nat /\ Lock(f) <= MAXINT4
                    /\ Lock(f) = Lock(g) => f = g \/ (f.unit = "XCRF" /\ g.unit = "XCRF")
  BY SMT DEF LocksApart
<1>1. Lock(f) \in Nat /\ Lock(f) < 7000
  BY UserPlace, SMT DEF Thousand
<1>2. ASSUME Lock(f) = Lock(g)
      PROVE  f = g
  <2>1. f.unit = g.unit
    BY <1>2, UserPlace, SMT DEF Thousand
  <2> QED
    BY <1>2, <2>1, UserPlace, SMT DEF Thousand
<1> QED
  BY <1>1, <1>2, SMT DEF MAXINT4

\* Where the files of a conference are.
LEMMA ConfPlace ==
  ASSUME NEW f \in ConfFiles
  PROVE  \/ f.unit = "one" /\ f = File("one", f.item, 0, 0) /\ f.item \in Thousand /\ Lock(f) = f.item
         \/ f.unit = "XCMN" /\ f = File("XCMN", f.item, 0, 0) /\ f.item \in Thousand /\ Lock(f) = 1000 + f.item
         \/ f.unit = "XCTN" /\ f = File("XCTN", f.item, 0, 0) /\ f.item \in Thousand /\ Lock(f) = 2000 + f.item
         \/ f.unit = "XCAN" /\ f = File("XCAN", f.item, 0, 0) /\ f.item \in Thousand /\ Lock(f) = 3000 + f.item
         \/ f.unit = "XCNN" /\ f = File("XCNN", f.item, 0, 0) /\ f.item \in Thousand /\ Lock(f) = 4000 + f.item
         \/ f.unit = "XCON" /\ f = File("XCON", f.item, 0, 0) /\ f.item \in Thousand /\ Lock(f) = 5000 + f.item
         \/ f.unit = "XCEN" /\ f = File("XCEN", f.item, 0, 0) /\ f.item \in Thousand /\ Lock(f) = 7000 + f.item
         \/ f.unit = "XCSF" /\ f = File("XCSF", 0, f.resp, 0) /\ f.resp \in Thousand /\ Lock(f) = 6000 + f.resp
         \/ f.unit = "XCFD" /\ f = File("XCFD", f.item, 0, 0) /\ f.item \in Items /\ Lock(f) = 8000 + f.item
         \/ f.unit = "XCVA" /\ f = File("XCVA", f.item, 0, 0) /\ f.item \in Items /\ Lock(f) = 17950 + f.item
         \/ f.unit = "XCRD" /\ f = File("XCRD", f.item, 0, 0) /\ f.item \in Items /\ Lock(f) = 9977900 + f.item
         \/ /\ f.unit = "XCFN" /\ f = File("XCFN", f.item, f.resp, 0) /\ f.item \in Thousand
            /\ f.resp \in Items /\ Lock(f) = 27900 + f.resp * 1000 + f.item
         \/ /\ f.unit = "XCRF" /\ f.item \in Items /\ f.resp \in Resps /\ f.lnum \in Lnums
            /\ Lock(f) = 9987850 + f.item * 9999 + f.resp + f.lnum
         \/ /\ f.unit = "XARF" /\ f = File("XARF", f.item, f.resp, 0) /\ f.item \in Items
            /\ f.resp \in Resps /\ Lock(f) = 109487899 + f.item * 9999 + f.resp
<1>1. ASSUME NEW n \in Thousand, f = File("one", n, 0, 0)
      PROVE  f.unit = "one" /\ f.item = n /\ Lock(f) = n
  BY <1>1, Blocks, SMT DEF File, Lock, Offset, Thousand
<1>2. ASSUME NEW n \in Thousand, f = File("XCMN", n, 0, 0)
      PROVE  f.unit = "XCMN" /\ f.item = n /\ Lock(f) = 1000 + n
  BY <1>2, Blocks, SMT DEF File, Lock, Offset, Thousand
<1>3. ASSUME NEW n \in Thousand, f = File("XCTN", n, 0, 0)
      PROVE  f.unit = "XCTN" /\ f.item = n /\ Lock(f) = 2000 + n
  BY <1>3, Blocks, SMT DEF File, Lock, Offset, Thousand
<1>4. ASSUME NEW n \in Thousand, f = File("XCAN", n, 0, 0)
      PROVE  f.unit = "XCAN" /\ f.item = n /\ Lock(f) = 3000 + n
  BY <1>4, Blocks, SMT DEF File, Lock, Offset, Thousand
<1>5. ASSUME NEW n \in Thousand, f = File("XCNN", n, 0, 0)
      PROVE  f.unit = "XCNN" /\ f.item = n /\ Lock(f) = 4000 + n
  BY <1>5, Blocks, SMT DEF File, Lock, Offset, Thousand
<1>6. ASSUME NEW n \in Thousand, f = File("XCON", n, 0, 0)
      PROVE  f.unit = "XCON" /\ f.item = n /\ Lock(f) = 5000 + n
  BY <1>6, Blocks, SMT DEF File, Lock, Offset, Thousand
<1>7. ASSUME NEW n \in Thousand, f = File("XCEN", n, 0, 0)
      PROVE  f.unit = "XCEN" /\ f.item = n /\ Lock(f) = 7000 + n
  BY <1>7, Blocks, SMT DEF File, Lock, Offset, Thousand
<1>8. ASSUME NEW n \in Thousand, f = File("XCSF", 0, n, 0)
      PROVE  f.unit = "XCSF" /\ f.resp = n /\ Lock(f) = 6000 + n
  BY <1>8, Blocks, SMT DEF File, Lock, Offset, Thousand
<1>9. ASSUME NEW n \in Items, f = File("XCFD", n, 0, 0)
      PROVE  f.unit = "XCFD" /\ f.item = n /\ Lock(f) = 8000 + n
  BY <1>9, Blocks, SMT DEF File, Lock, Offset, Items, MAXITEMS
<1>10. ASSUME NEW n \in Items, f = File("XCVA", n, 0, 0)
      PROVE  f.unit = "XCVA" /\ f.item = n /\ Lock(f) = 17950 + n
  BY <1>10, Blocks, SMT DEF File, Lock, Offset, Items, MAXITEMS
<1>11. ASSUME NEW n \in Items, f = File("XCRD", n, 0, 0)
      PROVE  f.unit = "XCRD" /\ f.item = n /\ Lock(f) = 9977900 + n
  BY <1>11, Blocks, SMT DEF File, Lock, Offset, Items, MAXITEMS
<1>12. ASSUME NEW i \in Thousand, NEW r \in Items, f = File("XCFN", i, r, 0)
       PROVE  f.unit = "XCFN" /\ f.item = i /\ f.resp = r /\ Lock(f) = 27900 + r * 1000 + i
  BY <1>12, Blocks, SMT DEF File, Lock, Offset, Thousand, Items, MAXITEMS
<1>13. ASSUME NEW i \in Items, NEW r \in Resps, NEW n \in Lnums, f = File("XCRF", i, r, n)
       PROVE  /\ f.unit = "XCRF" /\ f.item = i /\ f.resp = r /\ f.lnum = n
              /\ Lock(f) = 9987850 + i * 9999 + r + n
  BY <1>13, Blocks, SMT DEF File, Lock, Offset, Items, Resps, Lnums, MAXITEMS, MAXRESP, MAXLNUM
<1>14. ASSUME NEW i \in Items, NEW r \in Resps, f = File("XARF", i, r, 0)
       PROVE  /\ f.unit = "XARF" /\ f.item = i /\ f.resp = r
              /\ Lock(f) = 109487899 + i * 9999 + r
  BY <1>14, Blocks, SMT DEF File, Lock, Offset, Items, Resps, MAXITEMS, MAXRESP
<1>15. \/ \E n \in Thousand :
             \/ \E u \in {"one", "XCMN", "XCTN", "XCAN", "XCNN", "XCON", "XCEN"} :
                   f = File(u, n, 0, 0)
             \/ f = File("XCSF", 0, n, 0)
       \/ \E n \in Items, u \in {"XCFD", "XCVA", "XCRD"} : f = File(u, n, 0, 0)
       \/ \E i \in Thousand, r \in Items : f = File("XCFN", i, r, 0)
       \/ \E i \in Items, r \in Resps, n \in Lnums : f = File("XCRF", i, r, n)
       \/ \E i \in Items, r \in Resps : f = File("XARF", i, r, 0)
  BY SMT DEF ConfFiles, Listed
<1> QED
  BY <1>1, <1>2, <1>3, <1>4, <1>5, <1>6, <1>7, <1>8, <1>9, <1>10, <1>11, <1>12, <1>13, <1>14,
     <1>15, SMT

\* Files of one conference: the master file, lists, the directories of the
\* items, responses and attachments have locks of their own.
THEOREM ConfLocks == LocksApart(ConfFiles)
<1> SUFFICES ASSUME NEW f \in ConfFiles, NEW g \in ConfFiles
             PROVE  /\ Lock(f) \in Nat /\ Lock(f) <= MAXINT4
                    /\ Lock(f) = Lock(g) => f = g \/ (f.unit = "XCRF" /\ g.unit = "XCRF")
  BY SMT DEF LocksApart
<1> USE DEF Thousand, Items, Resps, Lnums, MAXITEMS, MAXRESP, MAXLNUM, MAXINT4
<1>1. Lock(f) \in Nat /\ Lock(f) <= MAXINT4
  BY ConfPlace, SMT
<1>2. ASSUME Lock(f) = Lock(g)
      PROVE  f = g \/ (f.unit = "XCRF" /\ g.unit = "XCRF")
  <2>1. f.unit = g.unit
    BY <1>2, ConfPlace, SMT
  <2> QED
    BY <1>2, <2>1, ConfPlace, SMT
<1> QED
  BY <1>1, <1>2, SMT DEF MAXINT4

\* The limits are needed.  Item MAXITEMS, which two subservers that add items
\* at one time can reach (chgditem.c:198), has its name parts where the
\* directories of the first 999 items are, and conferences from 1000 on have
\* the participations where the parts of the user's subjects are.
THEOREM PastTheLimits ==
  ASSUME NEW n \in Thousand
  PROVE  /\ Lock(File("XCFN", n, MAXITEMS, 0)) = Lock(File("XCRD", n, 0, 0))
         /\ Lock(File("XUPA", 1000 + n, 0, 0)) = Lock(File("XUSF", 0, n, 0))
BY Blocks, SMT DEF File, Lock, Offset, Thousand, MAXITEMS

=============================================================================
