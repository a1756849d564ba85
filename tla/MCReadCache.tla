---------------------------- MODULE MCReadCache ----------------------------
(* An instance of ReadCache for TLC.                                       *)
EXTENDS ReadCache

\* The second item is there to be read.
MCMaxResp == [i \in Items |-> IF i = 1 THEN 2 ELSE 0]
MCMaxVer == [i \in Items |-> IF i = 1 THEN 2 ELSE 1]
=============================================================================
