----------------------------- MODULE MCUnitFile -----------------------------
(* Instances of UnitFile for TLC: three processes, two contents.           *)
EXTENDS UnitFile, TLC

CONSTANTS p1, p2, p3, v1, v2

MCProc == {p1, p2, p3}
MCVal == {v1, v2}
Exclusive == {"WRITE"}
Shared == {"READ", "WRITE"}
Symm == Permutations(MCProc) \cup Permutations(MCVal)
=============================================================================
