----------------------------- MODULE MCPartFile -----------------------------
(* Instances of PartFile for TLC.  A partfile is full at 15 lines.         *)
EXTENDS PartFile
=============================================================================
