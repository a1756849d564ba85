---------------------------- MODULE MCConference ----------------------------
(* Instances of Conference for TLC.                                        *)
EXTENDS Conference, TLC

CONSTANTS p1, p2, p3
TwoProcs == {p1, p2}
ThreeProcs == {p1, p2, p3}
Symm2 == Permutations(TwoProcs)
Symm3 == Permutations(ThreeProcs)
=============================================================================
