----------------------------- MODULE AtomicFile -----------------------------
(***************************************************************************)
(* What the unit_ library promises to its callers about one data file: a   *)
(* rewrite replaces the whole contents or none of them, a view delivers    *)
(* the contents of the last rewrite.  Only the first creation of a file is *)
(* not atomic: with no older contents to fall back on, a view may find the *)
(* new file cut short.                                                     *)
(***************************************************************************)
CONSTANTS Proc, Val, Absent, Partial, Kills

VARIABLES
  val,   \* the contents of the file
  got    \* got[p]: the contents p's last view delivered

Init ==
  /\ val \in Val \cup {Absent}
  /\ got = [p \in Proc |-> Absent]

Create ==
  /\ val = Absent
  /\ val' = Partial
  /\ UNCHANGED got

Rewrite ==
  /\ val # Absent
  /\ val' \in Val
  /\ UNCHANGED got

Kill ==
  /\ Kills
  /\ val' = Absent
  /\ UNCHANGED got

View(p) ==
  /\ val # Absent
  /\ got' = [got EXCEPT ![p] = val]
  /\ UNCHANGED val

\* p dies and forgets what it had read.
Restart(p) ==
  /\ got' = [got EXCEPT ![p] = Absent]
  /\ UNCHANGED val

Next ==
  \/ Create \/ Rewrite \/ Kill
  \/ \E p \in Proc : View(p) \/ Restart(p)

Spec == Init /\ [][Next]_<<val, got>>
=============================================================================
