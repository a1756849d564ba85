----------------------------- MODULE MCSession -----------------------------
(* An instance of Session for TLC.                                         *)
EXTENDS Session

\* The first user is "ann", if not Anon: it makes no difference which.
WhoFirst == [r \in Reqs |-> IF r = 1 THEN {"anon", "ann"} ELSE Ids]
=============================================================================
