------------------------------ MODULE Objects ------------------------------
(***************************************************************************)
(* A persistent CML object, and the subservers that share it.              *)
(*                                                                         *)
(* Each process works on a copy in its object table.  $ob_set, $ob_copy    *)
(* and $ob_commit load the object's file anew, change members and store    *)
(* it; load_obj and store_obj lock the file (XSOB) each for itself.        *)
(*                                                                         *)
(* $ob_lock is a lock for scripts that ask for it: a lock on byte 0 of a   *)
(* file of its own, which the one who unlocks removes.  sysoblock() makes  *)
(* several system calls, and other processes may come in between any two.  *)
(***************************************************************************)
EXTENDS Integers

CONSTANTS
  Procs, Members,
  Inodes,     \* the lock files there can be at one time
  NoInode,    \* no lock file
  None,       \* no object
  MaxWrites,  \* bound on the values written
  MaxDeaths,  \* bound on the processes that die
  MaxKills    \* bound on the deletions

ASSUME ObjectsAssumption ==
  /\ None \notin [Members -> Nat] /\ NoInode \notin Inodes
  /\ MaxWrites \in Nat /\ MaxDeaths \in Nat /\ MaxKills \in Nat

VARIABLES
  disk,      \* the object's file: the values of the members, or None
  link,      \* the lock file: its inode, or NoInode
  proc,      \* the processes
  written,   \* history: the last value written to each member, or None
  count,     \* the values written, the deaths and the deletions so far
  raced,     \* history: two processes were between load and store at once
  bare,      \* history: someone loaded to store, or deleted, without the lock
  overlap    \* history: one process was getting the lock file as another one
             \* gave it back

vars == <<disk, link, proc, written, count, raced, bare, overlap>>
history == <<written, raced, bare, overlap>>

\* pc: run (the script), creat, open (in sysoblock, before the fcntl), unlink
\* (after the F_UNLCK), store (between load_obj and store_obj), kill.
\* copy, wait and taint are the object's entry in the table; fd is the inode
\* behind lockfd, held says that the lock was granted; new is the copy to be
\* stored, and dirty the members changed in it; next is where unlock leads.
NoProc == [pc |-> "run", copy |-> None, wait |-> FALSE, taint |-> {},
           fd |-> NoInode, held |-> FALSE, new |-> None, dirty |-> {}, next |-> "run"]

Init ==
  /\ disk = [m \in Members |-> 0] /\ written = disk
  /\ link = NoInode
  /\ proc = [p \in Procs |-> NoProc]
  /\ count = [writes |-> 0, deaths |-> 0, kills |-> 0]
  /\ raced = FALSE /\ bare = FALSE /\ overlap = FALSE

Others(p) == Procs \ {p}
Running(p) == proc[p].pc = "run"
Known(p) == Running(p) /\ proc[p].copy # None

-----------------------------------------------------------------------------
(* sysoblock().                                                            *)

\* Lock: open the lock file, or create it.
LockOpen(p) ==
  /\ Known(p) /\ ~proc[p].held
  /\ IF link # NoInode
     THEN /\ proc' = [proc EXCEPT ![p].pc = "open", ![p].fd = link]
          /\ UNCHANGED link
     ELSE /\ proc' = [proc EXCEPT ![p].pc = "creat"]
          /\ link' \in Inodes \ {proc[q].fd : q \in Procs}
  /\ overlap' = (overlap \/ \E q \in Others(p) : proc[q].pc = "unlink")
  /\ UNCHANGED <<disk, count, written, raced, bare>>

\* Open what was created, if it is still there.
LockReopen(p) ==
  /\ proc[p].pc = "creat"
  /\ proc' = [proc EXCEPT ![p].pc = IF link # NoInode THEN "open" ELSE "run", ![p].fd = link]
  /\ UNCHANGED <<disk, link, count, history>>

\* Bug: the result of fcntl is not looked at.
GrantedAlways(p) == TRUE

Granted(p) == \A q \in Others(p) : proc[q].held => proc[q].fd # proc[p].fd

\* Lock byte 0, or close the file.  ($ob_lock tries again or gives up.)
LockByte(p) ==
  /\ proc[p].pc = "open"
  /\ proc' = [proc EXCEPT ![p].pc = "run", ![p].held = Granted(p),
                          ![p].fd = IF Granted(p) THEN @ ELSE NoInode]
  /\ UNCHANGED <<disk, link, count, history>>

\* Unlock: release the byte and close the file ...
Release(p, next) ==
  /\ proc' = [proc EXCEPT ![p].pc = "unlink", ![p].held = FALSE, ![p].fd = NoInode,
                          ![p].next = next]
  /\ overlap' = (overlap \/ \E q \in Others(p) : proc[q].pc \in {"creat", "open"})

Unlock(p) ==
  /\ Known(p) /\ proc[p].held
  /\ Release(p, "run")
  /\ UNCHANGED <<disk, link, count, written, raced, bare>>

\* ... and remove it.
Unlink(p) ==
  /\ proc[p].pc = "unlink"
  /\ link' = NoInode
  /\ proc' = [proc EXCEPT ![p].pc = proc[p].next, ![p].next = "run"]
  /\ UNCHANGED <<disk, count, history>>

-----------------------------------------------------------------------------
(* The object table.                                                       *)

\* obtab_is(): an object that is not in the table is loaded.
Fetch(p) ==
  /\ Running(p) /\ proc[p].copy = None /\ disk # None
  /\ proc' = [proc EXCEPT ![p].copy = disk]
  /\ UNCHANGED <<disk, link, count, history>>

\* Bug: members changed before the reload are remembered.
ReloadKeepsTaint(p) ==
  /\ Known(p) /\ disk # None
  /\ proc' = [proc EXCEPT ![p].copy = disk, ![p].wait = FALSE]
  /\ UNCHANGED <<disk, link, count, history>>

\* $ob_reload.  The new copy does not wait.
Reload(p) ==
  /\ Known(p) /\ disk # None
  /\ proc' = [proc EXCEPT ![p].copy = disk, ![p].wait = FALSE, ![p].taint = {}]
  /\ UNCHANGED <<disk, link, count, history>>

\* $ob_wait.
Wait(p) ==
  /\ Known(p) /\ ~proc[p].wait
  /\ proc' = [proc EXCEPT ![p].wait = TRUE]
  /\ UNCHANGED <<disk, link, count, history>>

\* A value never written before.
Fresh == count.writes + 1
Write == count.writes < MaxWrites /\ count' = [count EXCEPT !.writes = @ + 1]

\* Process p goes on to store what it has loaded.
Entered(p) ==
  /\ raced' = (raced \/ \E q \in Others(p) : proc[q].pc = "store")
  /\ bare' = (bare \/ ~proc[p].held)

\* $ob_set, and no $ob_wait: load, change one member (and store).
SetLoad(p, m) ==
  /\ Known(p) /\ ~proc[p].wait /\ disk # None /\ Write
  /\ proc' = [proc EXCEPT ![p].pc = "store", ![p].new = [disk EXCEPT ![m] = Fresh],
                          ![p].dirty = {m}]
  /\ Entered(p)
  /\ UNCHANGED <<disk, link, written, overlap>>

\* $ob_copy from an object with other members: the same, except that a file
\* that is no more is made again from the copy.
CopyLoad(p, m) ==
  /\ Known(p) /\ ~proc[p].wait /\ disk = None /\ Write
  /\ proc' = [proc EXCEPT ![p].pc = "store", ![p].new = [proc[p].copy EXCEPT ![m] = Fresh],
                          ![p].dirty = Members]
  /\ Entered(p)
  /\ UNCHANGED <<disk, link, written, overlap>>

\* $ob_copy from an object of the same class: all members, and no load.
CopyAll(p) ==
  /\ Known(p) /\ ~proc[p].wait /\ Write
  /\ proc' = [proc EXCEPT ![p].pc = "store", ![p].new = [m \in Members |-> Fresh],
                          ![p].dirty = Members]
  /\ Entered(p)
  /\ UNCHANGED <<disk, link, written, overlap>>

\* $ob_set (or $ob_copy) after $ob_wait.
SetWait(p, m) ==
  /\ Known(p) /\ proc[p].wait /\ Write
  /\ proc' = [proc EXCEPT ![p].copy[m] = Fresh, ![p].taint = @ \cup {m}]
  /\ UNCHANGED <<disk, link, history>>

\* Bug: the copy in the table is stored as it is.
MergedNot(p) == proc[p].copy

\* The copy that $ob_commit stores.
Merged(p) == [m \in Members |-> IF m \in proc[p].taint THEN proc[p].copy[m] ELSE disk[m]]

\* $ob_commit: load, copy the changed members (and store).
Commit(p) ==
  /\ Known(p) /\ proc[p].wait /\ disk # None
  /\ proc' = [proc EXCEPT ![p].pc = "store", ![p].new = Merged(p), ![p].dirty = proc[p].taint]
  /\ Entered(p)
  /\ UNCHANGED <<disk, link, count, written, overlap>>

\* $ob_new, if there is no such object (and store).
New(p) ==
  /\ Running(p) /\ proc[p].copy = None /\ disk = None /\ Write
  /\ proc' = [proc EXCEPT ![p].pc = "store", ![p].new = [m \in Members |-> Fresh],
                          ![p].dirty = Members]
  /\ Entered(p)
  /\ UNCHANGED <<disk, link, written, overlap>>

\* store_obj().  The table's entry is the new copy, which does not wait.
Store(p) ==
  /\ proc[p].pc = "store"
  /\ disk' = proc[p].new
  /\ written' = IF proc[p].dirty = Members THEN disk'
                ELSE IF written = None THEN None
                ELSE [m \in Members |-> IF m \in proc[p].dirty THEN disk'[m] ELSE written[m]]
  /\ proc' = [proc EXCEPT ![p].pc = "run", ![p].copy = disk', ![p].wait = FALSE,
                          ![p].taint = {}, ![p].new = None, ![p].dirty = {}]
  /\ UNCHANGED <<link, count, raced, bare, overlap>>

\* $ob_delete: the lock goes first ...
Delete(p) ==
  /\ Known(p) /\ count.kills < MaxKills
  /\ count' = [count EXCEPT !.kills = @ + 1]
  /\ IF proc[p].held THEN Release(p, "kill")
     ELSE proc' = [proc EXCEPT ![p].pc = "kill"] /\ UNCHANGED overlap
  /\ UNCHANGED <<disk, link, written, raced, bare>>

\* ... then the file, and the table's entry.
Kill(p) ==
  /\ proc[p].pc = "kill"
  /\ disk' = None /\ written' = None
  /\ proc' = [proc EXCEPT ![p] = NoProc]
  /\ raced' = (raced \/ \E q \in Others(p) : proc[q].pc = "store")
  /\ bare' = TRUE
  /\ UNCHANGED <<link, count, overlap>>

\* The process ends.  The kernel closes its files, and the lock file stays.
Die(p) ==
  /\ proc[p] # NoProc /\ count.deaths < MaxDeaths
  /\ count' = [count EXCEPT !.deaths = @ + 1]
  /\ proc' = [proc EXCEPT ![p] = NoProc]
  /\ UNCHANGED <<disk, link, history>>

-----------------------------------------------------------------------------
Next ==
  \E p \in Procs :
    \/ LockOpen(p) \/ LockReopen(p) \/ LockByte(p) \/ Unlock(p) \/ Unlink(p)
    \/ Fetch(p) \/ Reload(p) \/ Wait(p) \/ Commit(p) \/ CopyAll(p) \/ New(p)
    \/ Store(p) \/ Delete(p) \/ Kill(p) \/ Die(p)
    \/ \E m \in Members : SetLoad(p, m) \/ CopyLoad(p, m) \/ SetWait(p, m)

Spec == Init /\ [][Next]_vars

-----------------------------------------------------------------------------
(* Properties.                                                             *)

Objs == [Members -> Nat] \cup {None}

\* Every variable has its type; a process holds a lock on a file it has open,
\* stores an object it has, and changed members are only kept while waiting.
TypeOK ==
  /\ disk \in Objs /\ written \in Objs /\ link \in Inodes \cup {NoInode}
  /\ raced \in BOOLEAN /\ bare \in BOOLEAN /\ overlap \in BOOLEAN
  /\ \A p \in Procs :
       /\ proc[p].pc \in {"run", "creat", "open", "unlink", "store", "kill"}
       /\ proc[p].copy \in Objs /\ proc[p].new \in Objs
       /\ (proc[p].fd # NoInode) = (proc[p].held \/ proc[p].pc = "open")
       /\ (proc[p].pc = "store") = (proc[p].new # None)
       /\ proc[p].taint # {} => proc[p].wait /\ proc[p].copy # None

\* sysoblock(): "advisory locking" for "cooperating processes".  Two processes
\* hold the lock only if once a process was opening the lock file while
\* another one was between releasing and removing it.
Exclusive == ~overlap => \A p, q \in Procs : proc[p].held /\ proc[q].held => p = q

\* A change to a member is lost, or a deleted object back, only if two
\* processes were between load_obj and store_obj (or kill_obj) at one time:
\* stale copies in the tables do no harm, waiting ones neither.
LostOnlyByRace == disk # written => raced

\* Scripts that store under the lock only, and do not delete, never race.
LockProtects == ~bare /\ ~overlap => ~raced

=============================================================================
