--------------------------- MODULE ObjectsProofs ---------------------------
(***************************************************************************)
(* Proofs about Objects, for any number of processes and members and any   *)
(* bounds: what the lock file of $ob_lock gives the scripts that use it,   *)
(* and what load_obj and store_obj can lose.                               *)
(***************************************************************************)
EXTENDS Objects, TLAPS

Records == [pc : {"run", "creat", "open", "unlink", "store", "kill"}, copy : Objs,
            wait : BOOLEAN, taint : SUBSET Members, fd : Inodes \cup {NoInode},
            held : BOOLEAN, new : Objs, dirty : SUBSET Members, next : {"run", "kill"}]

Types ==
  /\ disk \in Objs /\ link \in Inodes \cup {NoInode}
  /\ proc \in [Procs -> Records]
  /\ count \in [writes : Nat, deaths : Nat, kills : Nat]

\* Who is in sysoblock() does not hold the lock, and who does has the present
\* lock file open.  Nobody else is at it as one removes it.
Locked ==
  /\ \A p \in Procs :
       /\ proc[p].pc \in {"creat", "open", "unlink"} => ~proc[p].held
       /\ proc[p].held \/ proc[p].pc = "open" => proc[p].fd = link /\ link # NoInode
       /\ proc[p].pc = "unlink" =>
            \A q \in Procs \ {p} : proc[q].pc \notin {"creat", "open", "unlink"} /\ ~proc[q].held
  /\ \A p, q \in Procs : proc[p].held /\ proc[q].held => p = q

\* What p is about to store differs from what is there in what p changed.
Current(p) ==
  proc[p].pc = "store" =>
    /\ proc[p].new \in [Members -> Nat]
    /\ proc[p].dirty # Members =>
         disk # None /\ \A m \in Members \ proc[p].dirty : proc[p].new[m] = disk[m]

Alone ==
  /\ disk = written
  /\ \A p \in Procs : Current(p)
  /\ \A p, q \in Procs : proc[p].pc = "store" /\ proc[q].pc = "store" => p = q

IInv ==
  /\ Types
  /\ ~overlap => Locked
  /\ ~raced => Alone
  /\ ~bare /\ ~overlap => ~raced /\ \A p \in Procs : proc[p].pc = "store" => proc[p].held

-----------------------------------------------------------------------------
\* Nobody has or does anything at first.
LEMMA InitInv == Init => IInv
<1> SUFFICES ASSUME Init PROVE IInv
  OBVIOUS
<1>1. NoProc \in Records
  BY DEF NoProc, Records, Objs
<1>2. Types
  BY <1>1 DEF Init, Types, Objs
<1>3. Locked /\ Alone
  BY DEF Init, NoProc, Locked, Alone, Current
<1> QED
  BY <1>2, <1>3 DEF IInv, Init, NoProc

\* The changes to an entry of the table keep its type.
LEMMA EntryTypes ==
  ASSUME NEW r \in Records, NEW o \in Objs, NEW d \in SUBSET Members
  PROVE  /\ [r EXCEPT !.copy = o] \in Records
         /\ [r EXCEPT !.copy = o, !.wait = FALSE, !.taint = {}] \in Records
         /\ [r EXCEPT !.wait = TRUE] \in Records
         /\ [r EXCEPT !.copy = o, !.taint = d] \in Records
         /\ [r EXCEPT !.pc = "store", !.new = o, !.dirty = d] \in Records
         /\ [r EXCEPT !.pc = "run", !.copy = o, !.wait = FALSE, !.taint = {}, !.new = None, !.dirty = {}] \in Records
<1>1. None \in Objs
  BY DEF Objs
<1>2. [r EXCEPT !.copy = o] \in Records
  BY <1>1 DEF Records
<1>3. [r EXCEPT !.copy = o, !.wait = FALSE, !.taint = {}] \in Records
  BY <1>1, Zenon DEF Records
<1>4. [r EXCEPT !.wait = TRUE] \in Records
  BY <1>1, Zenon DEF Records
<1>5. [r EXCEPT !.copy = o, !.taint = d] \in Records
  BY <1>1, Zenon DEF Records
<1>6. [r EXCEPT !.pc = "store", !.new = o, !.dirty = d] \in Records
  BY <1>1, Zenon DEF Records
<1>7. [r EXCEPT !.pc = "run", !.copy = o, !.wait = FALSE, !.taint = {}, !.new = None, !.dirty = {}] \in Records
  BY <1>1, Zenon DEF Records
<1> QED
  BY <1>2, <1>3, <1>4, <1>5, <1>6, <1>7

\* Every step assigns values of the right type.
LEMMA TypesStep == Types /\ [Next]_vars => Types'
<1> SUFFICES ASSUME Types, [Next]_vars PROVE Types'
  OBVIOUS
<1> USE ObjectsAssumption DEF Types, Known, Running, history
<1>0. NoProc \in Records
  BY DEF NoProc, Records, Objs
<1>1. ASSUME NEW p \in Procs,
             LockOpen(p) \/ LockReopen(p) \/ LockByte(p) \/ Unlock(p) \/ Unlink(p) \/ Delete(p)
      PROVE  Types'
  BY <1>1 DEF LockOpen, LockReopen, LockByte, Unlock, Unlink, Delete, Release, Records
<1>2. ASSUME NEW p \in Procs, Fetch(p) \/ Reload(p) \/ Wait(p)
      PROVE  Types'
  <2>1. /\ [proc[p] EXCEPT !.copy = disk] \in Records
        /\ [proc[p] EXCEPT !.copy = disk, !.wait = FALSE, !.taint = {}] \in Records
        /\ [proc[p] EXCEPT !.wait = TRUE] \in Records
    BY EntryTypes, Zenon
  <2>2. CASE Fetch(p)
    BY <2>1, <2>2 DEF Fetch
  <2>3. CASE Reload(p)
    BY <2>1, <2>3 DEF Reload
  <2>4. CASE Wait(p)
    BY <2>1, <2>4 DEF Wait
  <2> QED
    BY <1>2, <2>2, <2>3, <2>4
<1>3. ASSUME NEW p \in Procs, Commit(p) \/ CopyAll(p) \/ New(p)
      PROVE  Types'
  <2>1. /\ Fresh \in Nat /\ Members \in SUBSET Members /\ [m \in Members |-> Fresh] \in Objs
        /\ proc[p].taint \in SUBSET Members /\ count' \in [writes : Nat, deaths : Nat, kills : Nat]
    BY <1>3 DEF Fresh, Objs, Records, Commit, CopyAll, New, Write
  <2>2. CASE Commit(p)
    <3>1. Merged(p) \in Objs
      <4>1. disk \in [Members -> Nat]
        BY <2>2, Zenon DEF Commit, Objs
      <4>2. proc[p].copy \in [Members -> Nat]
        BY <2>2, Zenon DEF Commit, Known, Objs, Records
      <4>3. \A m \in Members : (IF m \in proc[p].taint THEN proc[p].copy[m] ELSE disk[m]) \in Nat
        BY <4>1, <4>2, Zenon
      <4> QED
        BY <4>3, Zenon DEF Merged, Objs
    <3>2. [proc[p] EXCEPT !.pc = "store", !.new = Merged(p), !.dirty = proc[p].taint] \in Records
      BY <2>1, <3>1, EntryTypes, Zenon
    <3> QED
      BY <2>2, <3>2, <2>1 DEF Commit
  <2>3. CASE CopyAll(p) \/ New(p)
    <3>1. [proc[p] EXCEPT !.pc = "store", !.new = [m \in Members |-> Fresh], !.dirty = Members]
             \in Records
      BY <2>1, EntryTypes, Zenon
    <3>2. CASE CopyAll(p)
      BY <3>1, <3>2, <2>1 DEF CopyAll
    <3>3. CASE New(p)
      BY <3>1, <3>3, <2>1 DEF New
    <3> QED
      BY <2>3, <3>2, <3>3, Zenon
  <2> QED
    BY <1>3, <2>2, <2>3
<1>4. ASSUME NEW p \in Procs, NEW m \in Members, SetLoad(p, m) \/ CopyLoad(p, m) \/ SetWait(p, m)
      PROVE  Types'
  <2>1. /\ Fresh \in Nat /\ Members \in SUBSET Members /\ {m} \in SUBSET Members
        /\ proc[p].taint \cup {m} \in SUBSET Members
        /\ count' \in [writes : Nat, deaths : Nat, kills : Nat]
    BY <1>4 DEF Fresh, Objs, Records, SetLoad, CopyLoad, SetWait, Write
  <2>2. CASE SetLoad(p, m)
    <3>1. [disk EXCEPT ![m] = Fresh] \in Objs
      BY <2>1, <2>2, Zenon DEF SetLoad, Objs
    <3>2. [proc[p] EXCEPT !.pc = "store", !.new = [disk EXCEPT ![m] = Fresh], !.dirty = {m}] \in Records
      BY <2>1, <3>1, EntryTypes, Zenon
    <3> QED
      BY <2>2, <3>2, <2>1 DEF SetLoad
  <2>3. CASE CopyLoad(p, m) \/ SetWait(p, m)
    <3>1. [proc[p].copy EXCEPT ![m] = Fresh] \in Objs
      BY <2>1, <2>3, Zenon DEF CopyLoad, SetWait, Objs, Records
    <3>2. [proc[p] EXCEPT !.pc = "store", !.new = [proc[p].copy EXCEPT ![m] = Fresh], !.dirty = Members]
             \in Records
      BY <2>1, <3>1, EntryTypes, Zenon
    <3>3. [proc[p] EXCEPT !.copy = [proc[p].copy EXCEPT ![m] = Fresh], !.taint = proc[p].taint \cup {m}]
             \in Records
      BY <2>1, <3>1, EntryTypes, Zenon
    <3>4. CASE CopyLoad(p, m)
      BY <3>4, <3>2, <2>1 DEF CopyLoad
    <3>5. CASE SetWait(p, m)
      BY <3>5, <3>3, <2>1 DEF SetWait
    <3> QED
      BY <2>3, <3>4, <3>5
  <2> QED
    BY <1>4, <2>2, <2>3
<1>5. ASSUME NEW p \in Procs, Store(p)
      PROVE  Types'
  <2>1. proc[p].new \in Objs /\ disk' \in Objs
    BY <1>5, Zenon DEF Store, Records
  <2>2. [proc[p] EXCEPT !.pc = "run", !.copy = disk', !.wait = FALSE, !.taint = {}, !.new = None,
                        !.dirty = {}] \in Records
    BY <2>1, EntryTypes, Zenon
  <2> QED
    BY <1>5, <2>1, <2>2 DEF Store
<1>6. ASSUME NEW p \in Procs, Kill(p) \/ Die(p)
      PROVE  Types'
  BY <1>0, <1>6 DEF Kill, Die, Objs
<1>7. CASE UNCHANGED vars
  BY <1>7 DEF vars
<1> QED
  BY <1>1, <1>2, <1>3, <1>4, <1>5, <1>6, <1>7 DEF Next

\* Process p moves and the others do not.
Moves(p) == \A q \in Procs \ {p} : proc'[q] = proc[q]

\* Process p moves and has nothing to do with the lock file.
Aside(p) ==
  /\ Moves(p) /\ link' = link
  /\ proc'[p].pc \notin {"creat", "open", "unlink"}
  /\ proc'[p].held = proc[p].held /\ proc'[p].fd = proc[p].fd

\* Such a step leaves Locked as it is.
LEMMA AsideKeeps ==
  ASSUME NEW p \in Procs, Locked, Aside(p)
  PROVE  Locked'
BY DEF Locked, Aside, Moves

\* What the steps outside of sysoblock() do.
LEMMA TableSteps ==
  ASSUME Types, NEW p \in Procs,
         \/ Fetch(p) \/ Reload(p) \/ Wait(p) \/ Commit(p) \/ CopyAll(p) \/ New(p) \/ Store(p)
         \/ \E m \in Members : SetLoad(p, m) \/ CopyLoad(p, m) \/ SetWait(p, m)
  PROVE  Aside(p) /\ overlap' = overlap
<1> USE DEF Types, Records, Known, Running, history, Aside, Moves
<1>1. CASE Fetch(p) \/ Wait(p)
  BY <1>1 DEF Fetch, Wait
<1>2. CASE Reload(p)
  BY <1>2 DEF Reload
<1>3. CASE Commit(p)
  BY <1>3 DEF Commit
<1>4. CASE CopyAll(p)
  BY <1>4 DEF CopyAll
<1>5. CASE New(p)
  BY <1>5 DEF New
<1>6. CASE Store(p)
  BY <1>6, SMTT(30) DEF Store
<1>7. ASSUME NEW m \in Members, SetLoad(p, m)
      PROVE  Aside(p) /\ overlap' = overlap
  BY <1>7, ZenonT(30) DEF SetLoad
<1>8. ASSUME NEW m \in Members, CopyLoad(p, m)
      PROVE  Aside(p) /\ overlap' = overlap
  BY <1>8, ZenonT(30) DEF CopyLoad
<1>9. ASSUME NEW m \in Members, SetWait(p, m)
      PROVE  Aside(p) /\ overlap' = overlap
  <2> DEFINE c == [proc[p].copy EXCEPT ![m] = Fresh]
             t == proc[p].taint \cup {m}
  <2>1. proc' = [proc EXCEPT ![p] = [@ EXCEPT !.copy = c, !.taint = t]]
    BY <1>9, Zenon DEF SetWait
  <2>2. proc[p].pc = "run" /\ link' = link /\ overlap' = overlap
    BY <1>9, Zenon DEF SetWait
  <2> HIDE DEF c, t
  <2> QED
    BY <2>1, <2>2
<1> QED
  BY <1>1, <1>2, <1>3, <1>4, <1>5, <1>6, <1>7, <1>8, <1>9

\* The lock file changes hands in sysoblock() only, and there as Locked says.
LEMMA LockedStep ==
  ASSUME Types, Locked, ~overlap', [Next]_vars
  PROVE  Locked'
<1>1. ASSUME NEW p \in Procs, LockOpen(p)
      PROVE  Locked'
  <2>1. ~proc[p].held /\ \A q \in Procs \ {p} : proc[q].pc # "unlink"
    BY <1>1, Zenon DEF LockOpen, Others
  <2>2. CASE link # NoInode
    <3>1. /\ Moves(p) /\ proc'[p].held = proc[p].held
          /\ link' = link /\ proc'[p].fd = link /\ proc'[p].pc = "open"
      BY <1>1, <2>2 DEF LockOpen, Types, Records, Moves
    <3> QED
      BY <2>1, <2>2, <3>1 DEF Locked, Moves
  <2>3. CASE link = NoInode
    <3>1. Moves(p) /\ proc'[p].held = proc[p].held /\ proc'[p].pc = "creat"
      BY <1>1, <2>3 DEF LockOpen, Types, Records, Moves
    <3> QED
      BY <2>1, <2>3, <3>1 DEF Locked, Moves
  <2> QED
    BY <2>2, <2>3
<1>2. ASSUME NEW p \in Procs, LockReopen(p)
      PROVE  Locked'
  <2>1. /\ Moves(p) /\ proc'[p].held = proc[p].held /\ link' = link /\ proc'[p].fd = link
        /\ proc[p].pc = "creat" /\ proc'[p].pc = IF link # NoInode THEN "open" ELSE "run"
    BY <1>2 DEF LockReopen, Types, Records, Moves
  <2> QED
    BY <2>1 DEF Locked, Moves
<1>3. ASSUME NEW p \in Procs, LockByte(p)
      PROVE  Locked'
  <2>1. /\ Moves(p) /\ link' = link /\ proc[p].pc = "open" /\ proc'[p].pc = "run"
        /\ proc'[p].held = Granted(p)
        /\ Granted(p) => proc'[p].fd = proc[p].fd
    BY <1>3 DEF LockByte, Types, Records, Moves
  <2>2. proc'[p].held => \A q \in Procs \ {p} : ~proc[q].held
    BY <2>1, Zenon DEF Granted, Others, Locked
  <2> QED
    BY <2>1, <2>2 DEF Locked, Moves
<1>4. ASSUME NEW p \in Procs, Unlock(p) \/ Delete(p)
      PROVE  Locked'
  <2>1. CASE proc[p].held
    <3>1. /\ Moves(p) /\ link' = link /\ proc'[p].pc = "unlink" /\ ~proc'[p].held
          /\ \A q \in Procs \ {p} : proc[q].pc \notin {"creat", "open"}
      BY <1>4, <2>1 DEF Unlock, Delete, Release, Types, Records, Moves, Others
    <3> QED
      BY <2>1, <3>1 DEF Locked, Moves
  <2>2. CASE ~proc[p].held
    <3>1. Aside(p)
      BY <1>4, <2>2 DEF Unlock, Delete, Types, Records, Aside, Moves
    <3> QED
      BY <3>1, AsideKeeps
  <2> QED
    BY <2>1, <2>2
<1>5. ASSUME NEW p \in Procs, Unlink(p)
      PROVE  Locked'
  <2>1. /\ Moves(p) /\ link' = NoInode /\ proc[p].pc = "unlink"
        /\ proc'[p].pc \in {"run", "kill"} /\ proc'[p].held = proc[p].held
    BY <1>5 DEF Unlink, Types, Records, Moves
  <2> QED
    BY <2>1 DEF Locked, Moves
<1>6. ASSUME NEW p \in Procs, Kill(p) \/ Die(p)
      PROVE  Locked'
  <2>1. Moves(p) /\ link' = link /\ proc'[p].pc = "run" /\ ~proc'[p].held
    BY <1>6 DEF Kill, Die, NoProc, Types, Moves
  <2> QED
    BY <2>1 DEF Locked, Moves
<1>7. CASE UNCHANGED vars
  BY <1>7 DEF vars, Locked
<1> QED
  BY <1>1, <1>2, <1>3, <1>4, <1>5, <1>6, <1>7, TableSteps, AsideKeeps DEF Next

-----------------------------------------------------------------------------
(* What is stored.                                                         *)

\* Process p moves and is not about to store; the file stays.
Idle(p) ==
  /\ Moves(p) /\ disk' = disk /\ written' = written
  /\ proc'[p].pc # "store" /\ proc[p].pc # "store"
  /\ raced' = raced /\ bare' = bare

\* Process p has loaded the file, or needs not, and is about to store.
Loads(p) ==
  /\ Moves(p) /\ disk' = disk /\ written' = written
  /\ proc'[p].pc = "store" /\ Current(p)' /\ Entered(p)
  /\ proc'[p].held = proc[p].held

\* The steps that neither store, delete nor load in order to store.
LEMMA IdleSteps ==
  ASSUME Types, NEW p \in Procs,
         \/ LockOpen(p) \/ LockReopen(p) \/ LockByte(p) \/ Unlock(p) \/ Unlink(p) \/ Delete(p)
         \/ Fetch(p) \/ Reload(p) \/ Wait(p) \/ \E m \in Members : SetWait(p, m)
  PROVE  Idle(p)
<1>1. CASE LockOpen(p) \/ LockReopen(p) \/ LockByte(p)
  BY <1>1 DEF LockOpen, LockReopen, LockByte, Types, Records, Known, Running, history, Idle, Moves
<1>2. CASE Unlock(p) \/ Unlink(p) \/ Delete(p)
  BY <1>2 DEF Unlock, Unlink, Delete, Release, Types, Records, Known, Running, history, Idle, Moves
<1>3. ASSUME Fetch(p) \/ Reload(p) \/ Wait(p) \/ \E m \in Members : SetWait(p, m)
      PROVE  Idle(p)
  <2>1. Moves(p)
    BY <1>3, TableSteps DEF Aside
  <2>2. disk' = disk /\ written' = written /\ raced' = raced /\ bare' = bare /\ proc[p].pc = "run"
    BY <1>3, Zenon DEF Fetch, Reload, Wait, SetWait, Known, Running, history
  <2>3. proc'[p].pc = proc[p].pc
    <3>1. CASE Fetch(p) \/ Reload(p) \/ Wait(p)
      BY <3>1 DEF Fetch, Reload, Wait, Types, Records
    <3>2. ASSUME NEW m \in Members, SetWait(p, m)
          PROVE  proc'[p].pc = proc[p].pc
      <4> DEFINE c == [proc[p].copy EXCEPT ![m] = Fresh]
                 t == proc[p].taint \cup {m}
      <4>1. proc' = [proc EXCEPT ![p] = [@ EXCEPT !.copy = c, !.taint = t]]
        BY <3>2, Zenon DEF SetWait
      <4> HIDE DEF c, t
      <4> QED
        BY <4>1 DEF Types, Records
    <3> QED
      BY <1>3, <3>1, <3>2
  <2> QED
    BY <2>1, <2>2, <2>3 DEF Idle
<1> QED
  BY <1>1, <1>2, <1>3

\* The steps that load in order to store: what they did not change is as in
\* the file, unless they store all members.
LEMMA LoadSteps ==
  ASSUME Types, NEW p \in Procs,
         \/ Commit(p) \/ CopyAll(p) \/ New(p)
         \/ \E m \in Members : SetLoad(p, m) \/ CopyLoad(p, m)
  PROVE  Loads(p)
<1>0. Moves(p) /\ proc'[p].held = proc[p].held
  BY TableSteps DEF Aside
<1>1. Fresh \in Nat
  BY DEF Fresh, Types
<1>2. disk' = disk /\ written' = written /\ Entered(p)
  BY Zenon DEF Commit, CopyAll, New, SetLoad, CopyLoad
<1>3. ASSUME NEW n \in [Members -> Nat], NEW d \in SUBSET Members,
             proc' = [proc EXCEPT ![p].pc = "store", ![p].new = n, ![p].dirty = d],
             d # Members => disk # None /\ \A m \in Members \ d : n[m] = disk[m]
      PROVE  Loads(p)
  <2>1. proc'[p].pc = "store" /\ proc'[p].new = n /\ proc'[p].dirty = d
    BY <1>3 DEF Types, Records
  <2> QED
    BY <1>0, <1>2, <1>3, <2>1, Zenon DEF Loads, Current
<1>4. CASE Commit(p)
  <2>1. disk \in [Members -> Nat] /\ proc[p].copy \in [Members -> Nat] /\ proc[p].taint \in SUBSET Members
    BY <1>4 DEF Commit, Known, Types, Records, Objs
  <2>2. Merged(p) \in [Members -> Nat] /\ \A m \in Members \ proc[p].taint : Merged(p)[m] = disk[m]
    BY <2>1 DEF Merged
  <2>3. proc' = [proc EXCEPT ![p].pc = "store", ![p].new = Merged(p), ![p].dirty = proc[p].taint]
    BY <1>4 DEF Commit
  <2> QED
    BY <1>3, <2>1, <2>2, <2>3, <1>4 DEF Commit
<1>5. CASE CopyAll(p) \/ New(p)
  <2>1. proc' = [proc EXCEPT ![p].pc = "store", ![p].new = [m \in Members |-> Fresh],
                             ![p].dirty = Members]
    BY <1>5 DEF CopyAll, New
  <2>2. [m \in Members |-> Fresh] \in [Members -> Nat] /\ Members \in SUBSET Members
    BY <1>1
  <2> QED
    BY <1>3, <2>1, <2>2, Zenon
<1>6. ASSUME NEW m \in Members, SetLoad(p, m)
      PROVE  Loads(p)
  <2>1. disk \in [Members -> Nat] /\ disk # None
    BY <1>6, Zenon DEF SetLoad, Types, Objs
  <2> DEFINE n == [disk EXCEPT ![m] = Fresh]
  <2>2. n \in [Members -> Nat] /\ {m} \in SUBSET Members /\ \A k \in Members \ {m} : n[k] = disk[k]
    BY <1>1, <2>1
  <2>3. proc' = [proc EXCEPT ![p].pc = "store", ![p].new = n, ![p].dirty = {m}]
    BY <1>6 DEF SetLoad
  <2> HIDE DEF n
  <2> QED
    BY <1>3, <2>1, <2>2, <2>3
<1>7. ASSUME NEW m \in Members, CopyLoad(p, m)
      PROVE  Loads(p)
  <2>1. proc[p].copy \in [Members -> Nat]
    BY <1>7, Zenon DEF CopyLoad, Known, Types, Records, Objs
  <2> DEFINE n == [proc[p].copy EXCEPT ![m] = Fresh]
  <2>2. n \in [Members -> Nat] /\ Members \in SUBSET Members
    BY <1>1, <2>1
  <2>3. proc' = [proc EXCEPT ![p].pc = "store", ![p].new = n, ![p].dirty = Members]
    BY <1>7 DEF CopyLoad
  <2> HIDE DEF n
  <2> QED
    BY <1>3, <2>2, <2>3, Zenon
<1> QED
  BY <1>4, <1>5, <1>6, <1>7

\* store_obj(), kill_obj() and the end of a process: the file is what was
\* written as long as one process stores at a time.
LEMMA AloneStep ==
  ASSUME Types, Alone, ~raced', [Next]_vars
  PROVE  Alone'
<1>1. ASSUME NEW p \in Procs, Idle(p)
      PROVE  Alone'
  BY <1>1 DEF Alone, Current, Idle, Moves
<1>2. ASSUME NEW p \in Procs, Loads(p)
      PROVE  Alone'
  <2>1. \A q \in Procs \ {p} : proc[q].pc # "store"
    BY <1>2, Zenon DEF Loads, Entered, Others
  <2>2. \A q \in Procs \ {p} : proc'[q].pc # "store"
    BY <1>2, <2>1 DEF Loads, Moves
  <2> QED
    BY <1>2, <2>2 DEF Alone, Current, Loads
<1>3. ASSUME NEW p \in Procs, Store(p)
      PROVE  Alone'
  <2>1. Moves(p) /\ proc'[p].pc = "run"
    BY <1>3 DEF Store, Types, Records, Moves
  <2>2. \A q \in Procs : proc'[q].pc # "store"
    BY <1>3, <2>1, Zenon DEF Store, Alone, Moves
  <2>3. disk' = proc[p].new /\ proc[p].new \in [Members -> Nat] /\ disk = written /\ Current(p)
    BY <1>3 DEF Store, Alone, Current
  <2>4. disk' = written'
    <3>1. CASE proc[p].dirty = Members
      BY <1>3, <3>1 DEF Store
    <3>2. CASE proc[p].dirty # Members
      <4>1. /\ disk # None
            /\ \A m \in Members \ proc[p].dirty : proc[p].new[m] = disk[m]
        BY <1>3, <2>3, <3>2 DEF Store, Current
      <4>2. written' = [m \in Members |-> IF m \in proc[p].dirty THEN disk'[m] ELSE written[m]]
        BY <1>3, <2>3, <3>2, <4>1 DEF Store
      <4> QED
        BY <2>3, <4>1, <4>2
    <3> QED
      BY <3>1, <3>2
  <2> QED
    BY <2>2, <2>4 DEF Alone, Current
<1>4. ASSUME NEW p \in Procs, Kill(p)
      PROVE  Alone'
  <2>1. Moves(p) /\ proc'[p].pc = "run" /\ \A q \in Procs \ {p} : proc[q].pc # "store"
    BY <1>4, Zenon DEF Kill, NoProc, Types, Moves, Others
  <2>2. \A q \in Procs : proc'[q].pc # "store"
    BY <2>1 DEF Moves
  <2> QED
    BY <1>4, <2>2 DEF Kill, Alone, Current
<1>5. ASSUME NEW p \in Procs, Die(p)
      PROVE  Alone'
  <2>1. Moves(p) /\ proc'[p].pc = "run" /\ disk' = disk /\ written' = written
    BY <1>5 DEF Die, NoProc, Types, Moves, history
  <2> QED
    BY <2>1 DEF Alone, Current, Moves
<1>6. CASE UNCHANGED vars
  BY <1>6 DEF vars, Alone, Current
<1> QED
  BY <1>1, <1>2, <1>3, <1>4, <1>5, <1>6, IdleSteps, LoadSteps DEF Next

\* Who loads and stores under the lock only finds nobody else doing so.
Held == \A p \in Procs : proc[p].pc = "store" => proc[p].held

\* It stays so, and raced stays false, until someone does it without the lock.
LEMMA HeldStep ==
  ASSUME Types, Locked, Held, ~raced, ~bare', [Next]_vars
  PROVE  ~raced' /\ Held'
<1>1. ASSUME NEW p \in Procs, Idle(p)
      PROVE  ~raced' /\ Held'
  BY <1>1 DEF Held, Idle, Moves
<1>2. ASSUME NEW p \in Procs, Loads(p)
      PROVE  ~raced' /\ Held'
  <2>1. proc[p].held
    BY <1>2, Zenon DEF Loads, Entered
  <2>2. \A q \in Procs \ {p} : proc[q].pc # "store"
    BY <2>1 DEF Held, Locked
  <2> QED
    BY <1>2, <2>1, <2>2, Zenon DEF Held, Loads, Entered, Others, Moves
<1>3. ASSUME NEW p \in Procs, Store(p) \/ Die(p)
      PROVE  ~raced' /\ Held'
  <2>1. Moves(p) /\ proc'[p].pc = "run" /\ raced' = raced
    BY <1>3 DEF Store, Die, NoProc, Types, Records, Moves, history
  <2> QED
    BY <2>1 DEF Held, Moves
<1>4. ASSUME NEW p \in Procs, Kill(p)
      PROVE  ~raced' /\ Held'
  BY <1>4 DEF Kill
<1>5. CASE UNCHANGED vars
  BY <1>5 DEF vars, Held
<1> QED
  BY <1>1, <1>2, <1>3, <1>4, <1>5, IdleSteps, LoadSteps DEF Next

\* What is in the history stays there.
Kept == (raced => raced') /\ (bare => bare') /\ (overlap => overlap')

\* No step of the program takes back a mark of the history.
LEMMA HistoryStep ==
  ASSUME Types, [Next]_vars
  PROVE  Kept
<1>1. ASSUME NEW p \in Procs,
             LockOpen(p) \/ LockReopen(p) \/ LockByte(p) \/ Unlock(p) \/ Unlink(p) \/ Delete(p)
      PROVE  Kept
  <2>1. raced' = raced /\ bare' = bare
    BY <1>1, IdleSteps, Zenon DEF Idle
  <2>2. \/ overlap' = overlap
        \/ overlap' = (overlap \/ \E q \in Others(p) : proc[q].pc = "unlink")
        \/ overlap' = (overlap \/ \E q \in Others(p) : proc[q].pc \in {"creat", "open"})
    BY <1>1, Zenon DEF LockOpen, LockReopen, LockByte, Unlock, Unlink, Delete, Release, history
  <2>3. overlap => overlap'
    <3>1. CASE overlap' = overlap
      BY <3>1, Zenon
    <3>2. CASE overlap' = (overlap \/ \E q \in Others(p) : proc[q].pc = "unlink")
      BY <3>2, Zenon
    <3>3. CASE overlap' = (overlap \/ \E q \in Others(p) : proc[q].pc \in {"creat", "open"})
      BY <3>3, Zenon
    <3> QED
      BY <2>2, <3>1, <3>2, <3>3, Zenon
  <2> QED
    BY <2>1, <2>3 DEF Kept
<1>2. ASSUME NEW p \in Procs, Fetch(p) \/ Reload(p) \/ Wait(p) \/ \E m \in Members : SetWait(p, m)
      PROVE  Kept
  <2>1. raced' = raced /\ bare' = bare /\ overlap' = overlap
    BY <1>2, IdleSteps, TableSteps, Zenon DEF Idle
  <2> QED
    BY <2>1, Zenon DEF Kept
<1>3. ASSUME NEW p \in Procs, \/ Commit(p) \/ CopyAll(p) \/ New(p)
                              \/ \E m \in Members : SetLoad(p, m) \/ CopyLoad(p, m)
      PROVE  Kept
  <2>1. Entered(p) /\ overlap' = overlap
    BY <1>3, LoadSteps, TableSteps, Zenon DEF Loads
  <2> QED
    BY <2>1, Zenon DEF Kept, Entered
<1>4. ASSUME NEW p \in Procs, Store(p) \/ Die(p)
      PROVE  Kept
  <2>1. raced' = raced /\ bare' = bare /\ overlap' = overlap
    BY <1>4, Zenon DEF Store, Die, history
  <2> QED
    BY <2>1, Zenon DEF Kept
<1>5. ASSUME NEW p \in Procs, Kill(p)
      PROVE  Kept
  <2>1. /\ raced' = (raced \/ \E q \in Others(p) : proc[q].pc = "store")
        /\ bare' = TRUE /\ overlap' = overlap
    BY <1>5, Zenon DEF Kill
  <2> QED
    BY <2>1, Zenon DEF Kept
<1>6. CASE UNCHANGED vars
  BY <1>6, Zenon DEF vars, Kept
<1> QED
  BY <1>1, <1>2, <1>3, <1>4, <1>5, <1>6, Zenon DEF Next

\* The steps together.
LEMMA NextInv == IInv /\ [Next]_vars => IInv'
<1> SUFFICES ASSUME IInv, [Next]_vars PROVE IInv'
  OBVIOUS
<1>1. Types'
  BY TypesStep DEF IInv
<1>2. ~overlap' => Locked'
  BY LockedStep, HistoryStep DEF Kept, IInv
<1>3. ~raced' => Alone'
  BY AloneStep, HistoryStep DEF Kept, IInv
<1>4. ~bare' /\ ~overlap' => ~raced' /\ Held'
  BY HeldStep, HistoryStep DEF Kept, IInv, Held
<1> QED
  BY <1>1, <1>2, <1>3, <1>4 DEF IInv, Held

\* IInv is an inductive invariant of the program.
THEOREM Invariance == Spec => []IInv
<1> QED
  BY InitInv, NextInv, PTL DEF Spec

\* The lock of sysoblock() is held by one process at a time, for as long as
\* nobody was at the lock file between another's release and its removal.
THEOREM OneHolder == Spec => []Exclusive
<1>1. IInv => Exclusive
  BY DEF IInv, Locked, Exclusive
<1> QED
  BY <1>1, Invariance, PTL

\* As long as no two processes were between load_obj() and store_obj() at one
\* time the file has the last value written to each member.
THEOREM NothingLost == Spec => []LostOnlyByRace
<1>1. IInv => LostOnlyByRace
  BY DEF IInv, Alone, LostOnlyByRace
<1> QED
  BY <1>1, Invariance, PTL

\* Scripts that store under the lock of sysoblock() only do not race.
THEOREM LockWorks == Spec => []LockProtects
<1>1. IInv => LockProtects
  BY DEF IInv, LockProtects
<1> QED
  BY <1>1, Invariance, PTL

-----------------------------------------------------------------------------
(* The type invariant.                                                     *)

\* What TypeOK says of a process and of the history.
Entry(e) ==
  /\ (e.fd # NoInode) = (e.held \/ e.pc = "open")
  /\ (e.pc = "store") = (e.new # None)
  /\ e.taint # {} => e.wait /\ e.copy # None
Marks == raced \in BOOLEAN /\ bare \in BOOLEAN /\ overlap \in BOOLEAN
TInv == written \in Objs /\ Marks /\ \A p \in Procs : Entry(proc[p])

\* The marks of the history stay Boolean.
LEMMA MarksStep ==
  ASSUME Marks, [Next]_vars
  PROVE  Marks'
<1> DEFINE Fine ==
             /\ raced' = raced \/ raced' \in BOOLEAN
             /\ bare' = bare \/ bare' \in BOOLEAN
             /\ overlap' = overlap \/ overlap' \in BOOLEAN
<1>1. Fine
  <2> USE DEF history
  <2>1. ASSUME NEW p \in Procs, LockOpen(p) \/ LockReopen(p) \/ LockByte(p) \/ Unlock(p) \/ Unlink(p)
        PROVE  Fine
    BY <2>1, Zenon DEF LockOpen, LockReopen, LockByte, Unlock, Unlink, Release
  <2>2. ASSUME NEW p \in Procs, Fetch(p) \/ Reload(p) \/ Wait(p) \/ Store(p) \/ Die(p)
        PROVE  Fine
    BY <2>2, Zenon DEF Fetch, Reload, Wait, Store, Die
  <2>3. ASSUME NEW p \in Procs, Commit(p) \/ CopyAll(p) \/ New(p)
        PROVE  Fine
    BY <2>3, Zenon DEF Commit, CopyAll, New, Entered
  <2>4. ASSUME NEW p \in Procs, Delete(p) \/ Kill(p)
        PROVE  Fine
    BY <2>4, Zenon DEF Delete, Kill, Release
  <2>5. ASSUME NEW p \in Procs, NEW m \in Members, SetLoad(p, m) \/ CopyLoad(p, m) \/ SetWait(p, m)
        PROVE  Fine
    BY <2>5, Zenon DEF SetLoad, CopyLoad, SetWait, Entered
  <2>6. CASE UNCHANGED vars
    BY <2>6, Zenon DEF vars
  <2> QED
    BY <2>1, <2>2, <2>3, <2>4, <2>5, <2>6, Zenon DEF Next
<1> QED
  BY <1>1, Zenon DEF Marks

\* The history of what was written has the type of an object.
LEMMA WrittenStep ==
  ASSUME Types, TInv, [Next]_vars
  PROVE  written' \in Objs
<1> USE DEF TInv, history
<1>1. ASSUME NEW p \in Procs, Store(p) PROVE written' \in Objs
  <2>1. proc[p].new \in [Members -> Nat] /\ proc[p].pc = "store"
    BY <1>1 DEF Store, Entry, Types, Records, Objs
  <2>2. disk' \in [Members -> Nat]
    BY <1>1, <2>1 DEF Store
  <2>3. CASE proc[p].dirty = Members \/ written = None
    BY <1>1, <2>2, <2>3 DEF Store, Objs
  <2>4. CASE ~(proc[p].dirty = Members \/ written = None)
    <3>1. written \in [Members -> Nat]
      BY <2>4 DEF Objs
    <3>2. written' = [m \in Members |-> IF m \in proc[p].dirty THEN disk'[m] ELSE written[m]]
      BY <1>1, <2>4, Zenon DEF Store
    <3>3. written' \in [Members -> Nat]
      BY <2>2, <3>1, <3>2
    <3> QED
      BY <3>3 DEF Objs
  <2> QED
    BY <2>3, <2>4
<1>2. ASSUME NEW p \in Procs, Kill(p) PROVE written' \in Objs
  BY <1>2 DEF Kill, Objs
<1>3. ASSUME NEW p \in Procs,
             \/ LockOpen(p) \/ LockReopen(p) \/ LockByte(p) \/ Unlock(p) \/ Unlink(p)
             \/ Fetch(p) \/ Reload(p) \/ Wait(p) \/ Commit(p) \/ CopyAll(p) \/ New(p)
             \/ Delete(p) \/ Die(p)
             \/ \E m \in Members : SetLoad(p, m) \/ CopyLoad(p, m) \/ SetWait(p, m)
      PROVE  written' = written
  BY <1>3, Zenon DEF LockOpen, LockReopen, LockByte, Unlock, Unlink, Fetch, Reload, Wait, Commit,
     CopyAll, New, Delete, Die, SetLoad, CopyLoad, SetWait
<1>4. CASE UNCHANGED vars
  BY <1>4 DEF vars
<1> QED
  BY <1>1, <1>2, <1>3, <1>4, Zenon DEF Next

\* An entry of the table stays as TypeOK says.
LEMMA EntryStep ==
  ASSUME Types, TInv, [Next]_vars, NEW q \in Procs
  PROVE  Entry(proc'[q])
<1> USE DEF Known, Running
<1>0. Entry(proc[q]) /\ proc[q] \in Records /\ proc \in [Procs -> Records] /\ link \in Inodes \cup {NoInode}
  BY DEF TInv, Types
<1>1. ASSUME NEW p \in Procs, LockOpen(p) \/ LockReopen(p) \/ LockByte(p) \/ Unlock(p)
      PROVE  Entry(proc'[q])
  BY <1>0, <1>1 DEF Entry, LockOpen, LockReopen, LockByte, Unlock, Release, Records
<1>2. ASSUME NEW p \in Procs, Unlink(p) \/ Delete(p)
      PROVE  Entry(proc'[q])
  BY <1>0, <1>2 DEF Entry, Unlink, Delete, Release, Records
<1>3. ASSUME NEW p \in Procs, Fetch(p) \/ Reload(p) \/ Wait(p)
      PROVE  Entry(proc'[q])
  BY <1>0, <1>3 DEF Entry, Fetch, Reload, Wait, Records
<1>4. ASSUME NEW p \in Procs, Commit(p) PROVE Entry(proc'[q])
  <2>1. Merged(p) # None
    <3>1. Merged(p) \in [Members -> Nat]
      BY <1>0, <1>4, Zenon DEF Commit, Merged, Objs, Records, Types
    <3> QED
      BY <3>1, ObjectsAssumption, Zenon
  <2> HIDE DEF Merged
  <2> QED
    BY <1>0, <1>4, <2>1 DEF Entry, Commit, Records
<1>5. ASSUME NEW p \in Procs, CopyAll(p) \/ New(p) PROVE Entry(proc'[q])
  <2> DEFINE o == [m \in Members |-> Fresh]
  <2>1. o # None
    BY ObjectsAssumption DEF Fresh, Types
  <2>2. /\ proc[p].pc = "run"
        /\ proc' = [proc EXCEPT ![p].pc = "store", ![p].new = o, ![p].dirty = Members]
    BY <1>5 DEF CopyAll, New
  <2> HIDE DEF o
  <2> QED
    BY <1>0, <2>1, <2>2 DEF Entry, Records
<1>6. ASSUME NEW p \in Procs, NEW m \in Members, SetLoad(p, m) \/ CopyLoad(p, m) PROVE Entry(proc'[q])
  <2>0. Fresh \in Nat
    BY SMTT(30) DEF Fresh, Types
  <2>1. PICK o, d : /\ o \in [Members -> Nat] /\ proc[p].pc = "run"
                    /\ proc' = [proc EXCEPT ![p].pc = "store", ![p].new = o, ![p].dirty = d]
    <3>1. CASE SetLoad(p, m)
      <4>1. [disk EXCEPT ![m] = Fresh] \in [Members -> Nat]
        BY <2>0, <3>1 DEF SetLoad, Types, Objs
      <4> QED
        BY <3>1, <4>1, Zenon DEF SetLoad
    <3>2. CASE CopyLoad(p, m)
      <4>1. [proc[p].copy EXCEPT ![m] = Fresh] \in [Members -> Nat]
        BY <2>0, <3>2 DEF CopyLoad, Types, Objs, Records
      <4> QED
        BY <3>2, <4>1, Zenon DEF CopyLoad
    <3> QED
      BY <1>6, <3>1, <3>2, Zenon
  <2>2. o # None
    BY <2>1, ObjectsAssumption
  <2> QED
    BY <1>0, <2>1, <2>2 DEF Entry, Records
<1>7. ASSUME NEW p \in Procs, NEW m \in Members, SetWait(p, m) PROVE Entry(proc'[q])
  <2> DEFINE c == [proc[p].copy EXCEPT ![m] = Fresh]
             t == proc[p].taint \cup {m}
  <2>1. proc' = [proc EXCEPT ![p] = [@ EXCEPT !.copy = c, !.taint = t]]
    BY <1>7, Zenon DEF SetWait
  <2>2. proc[p].pc = "run" /\ proc[p].wait /\ c # None
    <3>1. proc[p].pc = "run" /\ proc[p].wait /\ proc[p].copy \in [Members -> Nat] /\ Fresh \in Nat
      BY <1>7 DEF SetWait, Types, Records, Objs, Fresh
    <3>2. c \in [Members -> Nat]
      BY <3>1
    <3> QED
      BY <3>1, <3>2, ObjectsAssumption
  <2> HIDE DEF c, t
  <2> QED
    BY <1>0, <2>1, <2>2 DEF Entry, Records
<1>8. ASSUME NEW p \in Procs, Store(p) PROVE Entry(proc'[q])
  <2>1. PICK o : proc' = [proc EXCEPT ![p].pc = "run", ![p].copy = o, ![p].wait = FALSE,
                            ![p].taint = {}, ![p].new = None, ![p].dirty = {}]
    BY <1>8, Zenon DEF Store
  <2>2. proc[p].pc = "store"
    BY <1>8 DEF Store
  <2> QED
    BY <1>0, <2>1, <2>2 DEF Entry, Records
<1>9. ASSUME NEW p \in Procs, Kill(p) \/ Die(p) PROVE Entry(proc'[q])
  BY <1>0, <1>9 DEF Entry, Kill, Die, NoProc
<1>10. CASE UNCHANGED vars
  BY <1>0, <1>10 DEF vars
<1> QED
  BY <1>1, <1>2, <1>3, <1>4, <1>5, <1>6, <1>7, <1>8, <1>9, <1>10, Zenon DEF Next

\* Every variable keeps its type: a process has the lock file open just while
\* it holds the lock or asks for it, has a copy to store just between
\* load_obj() and store_obj(), and members it has changed after $ob_wait only.
THEOREM TypeCorrect == Spec => []TypeOK
<1>1. Init => TInv
  <2> SUFFICES ASSUME Init PROVE TInv
    OBVIOUS
  <2>1. Marks
    BY Zenon DEF Init, Marks
  <2> QED
    BY <2>1 DEF Init, TInv, Entry, NoProc, Objs
<1>2. IInv /\ TInv /\ [Next]_vars => TInv'
  <2> SUFFICES ASSUME IInv, TInv, [Next]_vars PROVE TInv'
    OBVIOUS
  <2>1. Types /\ Marks
    BY DEF IInv, TInv
  <2> QED
    BY <2>1, MarksStep, WrittenStep, EntryStep, Zenon DEF TInv
<1>3. IInv /\ TInv => TypeOK
  <2> SUFFICES ASSUME IInv, TInv PROVE TypeOK
    OBVIOUS
  <2>1. \A p \in Procs : proc[p] \in Records /\ Entry(proc[p])
    BY DEF IInv, Types, TInv
  <2>2. disk \in Objs /\ written \in Objs /\ link \in Inodes \cup {NoInode}
    BY DEF IInv, Types, TInv
  <2>3. ASSUME NEW p \in Procs
        PROVE  /\ proc[p].pc \in {"run", "creat", "open", "unlink", "store", "kill"}
               /\ proc[p].copy \in Objs /\ proc[p].new \in Objs
    BY <2>1 DEF Records
  <2> QED
    BY <2>1, <2>2, <2>3, Zenon DEF TypeOK, TInv, Marks, Entry
<1> QED
  BY <1>1, <1>2, <1>3, Invariance, PTL DEF Spec

=============================================================================
