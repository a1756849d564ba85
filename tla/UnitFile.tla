------------------------------ MODULE UnitFile ------------------------------
(***************************************************************************)
(* One data file of the Caucus database, as the unit_ library (CV2/unit)   *)
(* reads and writes it from several subserver processes.                   *)
(*                                                                         *)
(* A process locks the file (a byte of a lockmap file, fcntl F_SETLK),     *)
(* views or rewrites it, and unlocks it.  A rewrite first renames the file *)
(* to its backup ("name_b"); the backup is unlinked once the new file has  *)
(* been closed.  A backup that a viewer finds is the trace of an aborted   *)
(* rewrite, and the viewer puts it back.  Every system call is one step,   *)
(* and a process may die between any two of them.                          *)
(***************************************************************************)
EXTENDS TLAPS

CONSTANTS
  Proc,       \* the processes (one swebs per user, plus utilities)
  Val,        \* the complete contents that callers write
  Absent,     \* no such directory entry
  Partial,    \* an entry whose contents are empty or cut short
  ViewModes,  \* the lock modes callers take before unit_view: READ, WRITE
  Kills,      \* do callers unit_kill this file (a partfile), or never (XCMA)?
  Faults      \* may processes die, and disk writes fail?

ASSUME ContentAssumption == Absent \notin Val /\ Partial \notin Val /\ Absent # Partial
ASSUME ModeAssumption == ViewModes \subseteq {"READ", "WRITE"}
ASSUME SwitchAssumption == Kills \in BOOLEAN /\ Faults \in BOOLEAN

VARIABLES
  file,       \* directory entry "name"
  backup,     \* directory entry "name_b"
  lock,       \* lock[p]: the fcntl lock p holds on the file's lockmap byte
  access,     \* access[p]: units[n].access in process p
  pc,         \* pc[p]: where p is inside a unit_ call, "out" between calls
  seen,       \* seen[p]: the contents behind p's last successful unit_view
  committed   \* history: contents of the last completed rewrite or kill

vars == <<file, backup, lock, access, pc, seen, committed>>

Entry == Val \cup {Absent, Partial}

\* What the next unit_view would deliver.
Recovered == IF backup # Absent THEN backup ELSE file

Init ==
  /\ file \in Val \cup {Absent}
  /\ backup = Absent
  /\ lock = [p \in Proc |-> "none"]
  /\ access = [p \in Proc |-> "UNLKED"]
  /\ pc = [p \in Proc |-> "out"]
  /\ seen = [p \in Proc |-> Absent]
  /\ committed = file

-----------------------------------------------------------------------------
(* unit_lock and unit_unlk.  F_SETLK is retried every two seconds until it *)
(* succeeds, so a process that cannot get the lock just does not step.     *)

Grantable(p, mode) ==
  \A q \in Proc \ {p} : lock[q] = "none" \/ (mode = "READ" /\ lock[q] = "READ")

\* An exclusive lock serves views and rewrites; views choose from ViewModes.
unit_lock(p, mode) ==
  /\ access[p] = "UNLKED"
  /\ mode \in ViewModes \cup {"WRITE"}
  /\ Grantable(p, mode)
  /\ lock' = [lock EXCEPT ![p] = mode]
  /\ access' = [access EXCEPT ![p] = "LOCKED"]
  /\ UNCHANGED <<file, backup, pc, seen, committed>>

unit_unlk(p) ==
  /\ access[p] = "LOCKED" /\ pc[p] = "out"
  /\ lock' = [lock EXCEPT ![p] = "none"]
  /\ access' = [access EXCEPT ![p] = "UNLKED"]
  /\ UNCHANGED <<file, backup, pc, seen, committed>>

-----------------------------------------------------------------------------
(* unit_view: check for a backup, put it back, open for reading.           *)

\* Mutant: unit_view opens the file without looking for a backup.
ViewCheckNoBackup(p) ==
  /\ access[p] = "LOCKED" /\ pc[p] = "out" /\ lock[p] \in ViewModes
  /\ pc' = [pc EXCEPT ![p] = "v_open"]
  /\ UNCHANGED <<file, backup, lock, access, seen, committed>>

ViewCheck(p) ==
  /\ access[p] = "LOCKED" /\ pc[p] = "out" /\ lock[p] \in ViewModes
  /\ pc' = [pc EXCEPT ![p] = IF backup # Absent THEN "v_unlink" ELSE "v_open"]
  /\ UNCHANGED <<file, backup, lock, access, seen, committed>>

ViewUnlink(p) ==
  /\ pc[p] = "v_unlink"
  /\ file' = Absent
  /\ pc' = [pc EXCEPT ![p] = "v_rename"]
  /\ UNCHANGED <<backup, lock, access, seen, committed>>

\* sysrename: when the backup is gone, the copy that sysrename falls back to
\* cannot open it either and nothing happens.
ViewRename(p) ==
  /\ pc[p] = "v_rename"
  /\ IF backup # Absent
     THEN file' = backup /\ backup' = Absent
     ELSE UNCHANGED <<file, backup>>
  /\ pc' = [pc EXCEPT ![p] = "v_open"]
  /\ UNCHANGED <<lock, access, seen, committed>>

ViewOpen(p) ==
  /\ pc[p] = "v_open"
  /\ IF file = Absent
     THEN UNCHANGED <<access, seen>>
     ELSE /\ access' = [access EXCEPT ![p] = "READ"]
          /\ seen' = [seen EXCEPT ![p] = file]
  /\ pc' = [pc EXCEPT ![p] = "out"]
  /\ UNCHANGED <<file, backup, lock, committed>>

CloseView(p) ==
  /\ access[p] = "READ"
  /\ access' = [access EXCEPT ![p] = "LOCKED"]
  /\ UNCHANGED <<file, backup, lock, pc, seen, committed>>

-----------------------------------------------------------------------------
(* unit_make: save the original as the backup, create the file anew.       *)

\* Mutant: unit_make renames the file over a backup it should have kept.
MakeCheckAlwaysRename(p) ==
  /\ access[p] = "LOCKED" /\ pc[p] = "out" /\ lock[p] = "WRITE"
  /\ pc' = [pc EXCEPT ![p] = IF file # Absent THEN "m_rename" ELSE "m_open"]
  /\ UNCHANGED <<file, backup, lock, access, seen, committed>>

MakeCheck(p) ==
  /\ access[p] = "LOCKED" /\ pc[p] = "out" /\ lock[p] = "WRITE"
  /\ pc' = [pc EXCEPT ![p] = IF backup = Absent /\ file # Absent
                             THEN "m_rename" ELSE "m_open"]
  /\ UNCHANGED <<file, backup, lock, access, seen, committed>>

MakeRename(p) ==
  /\ pc[p] = "m_rename"
  /\ backup' = file /\ file' = Absent
  /\ pc' = [pc EXCEPT ![p] = "m_open"]
  /\ UNCHANGED <<lock, access, seen, committed>>

\* unitmkseq: fopen "w" creates or truncates.
MakeOpen(p) ==
  /\ pc[p] = "m_open"
  /\ file' = Partial
  /\ access' = [access EXCEPT ![p] = "WRITE"]
  /\ pc' = [pc EXCEPT ![p] = "out"]
  /\ UNCHANGED <<backup, lock, seen, committed>>

MakeOpenFails(p) ==
  /\ Faults
  /\ pc[p] = "m_open"
  /\ pc' = [pc EXCEPT ![p] = "out"]
  /\ UNCHANGED <<file, backup, lock, access, seen, committed>>

-----------------------------------------------------------------------------
(* unit_close of a rewrite.                                                *)

\* fclose flushes all of the text that unit_write produced.  With no backup
\* behind it (a new file) this alone completes the rewrite.
CloseFlush(p, v) ==
  /\ access[p] = "WRITE" /\ pc[p] = "out"
  /\ file' = v
  /\ pc' = [pc EXCEPT ![p] = "c_unlink"]
  /\ committed' = IF backup = Absent THEN v ELSE committed
  /\ UNCHANGED <<backup, lock, access, seen>>

\* Mutant: the result of fclose is ignored and the backup is unlinked.
CloseFailsUnnoticed(p) ==
  /\ Faults
  /\ access[p] = "WRITE" /\ pc[p] = "out"
  /\ pc' = [pc EXCEPT ![p] = "c_unlink"]
  /\ UNCHANGED <<file, backup, lock, access, seen, committed>>

\* fclose reports an error, or nothing was ever written to a file for which
\* that is an error (XURG, XUPA, XCMA, XCRF): the backup is kept.
CloseFails(p) ==
  /\ Faults
  /\ access[p] = "WRITE" /\ pc[p] = "out"
  /\ access' = [access EXCEPT ![p] = "LOCKED"]
  /\ UNCHANGED <<file, backup, lock, pc, seen, committed>>

CloseUnlink(p) ==
  /\ pc[p] = "c_unlink"
  /\ backup' = Absent
  /\ access' = [access EXCEPT ![p] = "LOCKED"]
  /\ pc' = [pc EXCEPT ![p] = "out"]
  /\ committed' = file
  /\ UNCHANGED <<file, lock, seen>>

-----------------------------------------------------------------------------
(* unit_kill removes the file and only the file.                           *)

unit_kill(p) ==
  /\ Kills
  /\ access[p] = "LOCKED" /\ pc[p] = "out" /\ lock[p] = "WRITE"
  /\ file' = Absent
  /\ committed' = Absent
  /\ UNCHANGED <<backup, lock, access, pc, seen>>

\* The process dies.  The kernel drops its locks; what it had buffered but
\* not flushed is gone.  The same user's next process starts afresh.
Crash(p) ==
  /\ Faults
  /\ access[p] # "UNLKED"
  /\ lock' = [lock EXCEPT ![p] = "none"]
  /\ access' = [access EXCEPT ![p] = "UNLKED"]
  /\ pc' = [pc EXCEPT ![p] = "out"]
  /\ seen' = [seen EXCEPT ![p] = Absent]
  /\ UNCHANGED <<file, backup, committed>>

unit_view(p) ==
  ViewCheck(p) \/ ViewUnlink(p) \/ ViewRename(p) \/ ViewOpen(p)

unit_make(p) ==
  MakeCheck(p) \/ MakeRename(p) \/ MakeOpen(p) \/ MakeOpenFails(p)

unit_close(p) ==
  \/ CloseView(p)
  \/ \E v \in Val : CloseFlush(p, v)
  \/ CloseFails(p)
  \/ CloseUnlink(p)

Next == \E p \in Proc :
  \/ \E mode \in {"READ", "WRITE"} : unit_lock(p, mode)
  \/ unit_view(p)
  \/ unit_make(p)
  \/ unit_close(p)
  \/ unit_kill(p)
  \/ unit_unlk(p)
  \/ Crash(p)

Spec == Init /\ [][Next]_vars

-----------------------------------------------------------------------------
(* Properties.                                                             *)

\* Every variable has its type.
TypeOK ==
  /\ file \in Entry
  /\ backup \in Entry
  /\ lock \in [Proc -> {"none", "READ", "WRITE"}]
  /\ access \in [Proc -> {"UNLKED", "LOCKED", "READ", "WRITE"}]
  /\ pc \in [Proc -> {"out", "v_unlink", "v_rename", "v_open",
                      "m_rename", "m_open", "c_unlink"}]
  /\ seen \in [Proc -> Entry]
  /\ committed \in Val \cup {Absent}

\* Once a rewrite has completed, its contents are what the next viewer gets,
\* whoever dies wherever, until the next rewrite completes or the file is
\* killed (unit_make, unit_close and the restore in unit_view together).
Durable == committed \in Val => Recovered = committed

\* A process that has the file open for reading is reading the last
\* completed rewrite, never a torn or an abandoned one.
ReadsCommitted ==
  \A p \in Proc : access[p] = "READ" /\ committed \in Val => seen[p] = committed

\* Completed contents can be lost in one way only: a viewer, sharing the lock
\* with another, unlinks the file on the strength of a backup that the other
\* has meanwhile put back (unitview.c:59 against unitview.c:74).
LostOnlyByStaleRestore ==
  [][Durable => Durable' \/ \E p \in Proc : ViewUnlink(p) /\ backup = Absent]_vars

\* For the clients of the library the file is a register that is written and
\* read in one step each (module AtomicFile).
Register == INSTANCE AtomicFile WITH val <- Recovered, got <- seen
ImplementsRegister == Register!Spec
=============================================================================
