------------------------------ MODULE LockMap ------------------------------
(***************************************************************************)
(* The lockmap: which byte of a lockmap file unit_lock() locks for which   *)
(* data file.  There is one lockmap file for each conference (LCNF) and    *)
(* one for each user (LUSR).                                               *)
(*                                                                         *)
(* The other modules lock data files by name.  That is sound if the bytes  *)
(* of two files differ, and two files that share a byte do worse than wait *)
(* for each other: a process that locks both gives up both as it unlocks   *)
(* one, because fcntl() locks do not nest.                                 *)
(***************************************************************************)
EXTENDS Integers

MAXITEMS == 9950
MAXRESP == 9999
MAXLNUM == 9999
MAXINT4 == 2147483647

\* The numbers that unit_lock() is given.  An item is counted as long as there
\* are less than MAXITEMS - 1 (chgditem.c:198).  The table has room for 1000
\* conferences and messages in a user's lockmap, and 1000 parts of a list.
Items == {n \in Nat : 0 < n /\ n < MAXITEMS}
Resps == {n \in Nat : n < MAXRESP}
Lnums == {n \in Nat : n <= MAXLNUM}
Thousand == {n \in Nat : n < 1000}

-----------------------------------------------------------------------------
\* The files, by unit code, with the arguments of unit_lock() that count.
\* "one" stands for the units of which there is one file in each lockmap, with
\* the unit code for an item; for XUPA the item is the conference.
File(unit, item, resp, lnum) == [unit |-> unit, item |-> item, resp |-> resp, lnum |-> lnum]

Listed(units, numbers) == {File(u, i, 0, 0) : u \in units, i \in numbers}

ConfFiles ==
  Listed({"one", "XCMN", "XCTN", "XCAN", "XCNN", "XCON", "XCEN"}, Thousand)
  \cup {File("XCSF", 0, r, 0) : r \in Thousand}
  \cup Listed({"XCFD", "XCVA", "XCRD"}, Items)
  \cup {File("XCFN", i, r, 0) : i \in Thousand, r \in Items}
  \cup {File("XCRF", i, r, n) : i \in Items, r \in Resps, n \in Lnums}
  \cup {File("XARF", i, r, 0) : i \in Items, r \in Resps}

UserFiles ==
  Listed({"one", "XUNN", "XUON", "XUPA"}, Thousand)
  \cup {File(u, 0, r, 0) : u \in {"XUSF", "XUMF", "XAMF"}, r \in Thousand}

-----------------------------------------------------------------------------
\* A block of bytes behind another one.
Def(prev, range) == [first |-> prev.first + prev.range, range |-> range]

\* The unit codes come first; each block lies behind the one before it.
Codes == [first |-> 0, range |-> 1000]

XUNN == Def(Codes, 1000)
XUON == Def(XUNN, 1000)
XUPA == Def(XUON, 1000)
XUSF == Def(XUPA, 1000)
XUMF == Def(XUSF, 1000)
XAMF == Def(XUMF, 1000)

XCMN == Def(Codes, 1000)
XCTN == Def(XCMN, 1000)
XCAN == Def(XCTN, 1000)
XCNN == Def(XCAN, 1000)
XCON == Def(XCNN, 1000)
XCSF == Def(XCON, 1000)
XCEN == Def(XCSF, 1000)
XCFD == Def(XCEN, MAXITEMS)
XCVA == Def(XCFD, MAXITEMS)
XCFN == Def(XCVA, MAXITEMS * 1000)
XCRD == Def(XCFN, MAXITEMS)
XCRF == Def(XCRD, MAXITEMS * MAXRESP + MAXLNUM)
XARF == Def(XCRF, MAXITEMS * MAXRESP)

\* The unit's block.
lmap ==
  [one |-> Codes,
   XUNN |-> XUNN, XUON |-> XUON, XUPA |-> XUPA, XUSF |-> XUSF, XUMF |-> XUMF, XAMF |-> XAMF,
   XCMN |-> XCMN, XCTN |-> XCTN, XCAN |-> XCAN, XCNN |-> XCNN, XCON |-> XCON, XCSF |-> XCSF,
   XCEN |-> XCEN, XCFD |-> XCFD, XCVA |-> XCVA, XCFN |-> XCFN, XCRD |-> XCRD, XCRF |-> XCRF,
   XARF |-> XARF]

\* Where in the block of its unit a file is.
Offset(f) ==
  IF f.unit \in {"XUSF", "XUMF", "XAMF", "XCSF"} THEN f.resp
  ELSE IF f.unit = "XCFN" THEN f.resp * 1000 + f.item
  ELSE IF f.unit = "XCRF" THEN f.item * MAXRESP + f.resp + f.lnum
  ELSE IF f.unit = "XARF" THEN f.item * MAXRESP + f.resp
  ELSE f.item

Lock(f) == lmap[f.unit].first + Offset(f)

-----------------------------------------------------------------------------
(* Properties.                                                             *)

\* Files of one lockmap have bytes of their own, which an int4 can hold.  The
\* exception are the text partfiles (XCRF), where the line is added to the
\* response; a process locks only one of them at a time, as units[XCRF] has
\* room for one lock number.
LocksApart(files) ==
  \A f, g \in files :
    /\ Lock(f) \in Nat /\ Lock(f) <= MAXINT4
    /\ Lock(f) = Lock(g) => f = g \/ (f.unit = "XCRF" /\ g.unit = "XCRF")

=============================================================================
