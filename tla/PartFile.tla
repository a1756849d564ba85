------------------------------ MODULE PartFile ------------------------------
(***************************************************************************)
(* The text partfiles of one item: how updatepart() (CV2/db/updatepa.c)    *)
(* puts the text of a response into them, and how getline2() and           *)
(* a_get_resp() find it again.                                             *)
(*                                                                         *)
(* An item is a directory of partfiles named by the (response, line) they  *)
(* begin with.  A partfile holds consecutive responses, or one stretch of  *)
(* a response too long for one file.  Nothing on disk says where a         *)
(* response ends: that is inferred from the names and from the "#" lines.  *)
(*                                                                         *)
(* A line is <<w, k>>: line k of the w-th text written to the item; k = 0  *)
(* is the "#" header.  One storetext() or unit_kill() is one step (UnitFile*)
(* shows that a rewrite of one file is atomic); the caller holds the write *)
(* lock on the directory throughout.                                       *)
(***************************************************************************)
EXTENDS Integers, Sequences, SequencesExt

CONSTANTS
  SuggestMax,  \* suggested lines per partfile: l_max / 2, 250 in Caucus
  Lens,        \* text lengths that users write
  MaxResp,     \* bound: highest response number
  MaxWrites,   \* bound: number of texts written after the item's creation
  GrowTo       \* length up to which a change may make a text longer

VARIABLES
  part,        \* part[<<resp, lnum>>]: the lines of that partfile
  plan,        \* file operations the update in progress still has to do
  cur,         \* the response being updated, NoResp between updates
  text,        \* history: text[n] is the length and number of n's last text
  writes,      \* number of texts written so far
  top          \* highest response number given out

vars == <<part, plan, cur, text, writes, top>>

NoResp == MaxResp + 1
Nums == 0 .. MaxResp
MaxLines == CHOOSE n \in {len + 2 : len \in Lens} : \A len \in Lens : len + 2 <= n
Never == [w |-> 0, len |-> 0, here |-> FALSE]

\* The item title is line 1 of response 0.
Titles(n) == IF n = 0 THEN 1 ELSE 0

-----------------------------------------------------------------------------
(* syspdir, partnum: the directory of partfiles.                           *)

Before(a, b) == a[1] < b[1] \/ (a[1] = b[1] /\ a[2] < b[2])

pdir == DOMAIN part

\* The last of a set of partfile names.
LastOf(keys) == CHOOSE q \in keys : \A k \in keys : ~Before(q, k)

\* The last partfile that begins at or before (resp, lnum), else the first.
partnum(resp, lnum) ==
  LET upto == {key \in pdir : ~Before(<<resp, lnum>>, key)}
  IN  IF pdir = {} THEN <<resp, lnum>>
      ELSE IF upto = {} THEN CHOOSE q \in pdir : \A k \in pdir : ~Before(k, q)
      ELSE LastOf(upto)

\* loadtext: cut a partfile into the blocks of its responses at the "#" lines.
\* Without one it continues a response and is a single block.
loadtext(key) ==
  LET lines == IF key \in DOMAIN part THEN part[key] ELSE <<>>
      heads == SelectSeq([i \in DOMAIN lines |-> i], LAMBDA i : lines[i][2] = 0)
      stop(h) == IF h = Len(heads) THEN Len(lines) ELSE heads[h + 1] - 1
      cut == [h \in DOMAIN heads |-> SubSeq(lines, heads[h], stop(h))]
      blocks == IF heads # <<>> THEN cut
                ELSE IF key \in DOMAIN part THEN <<lines>> ELSE <<>>
  IN  [blocks |-> blocks, l_used |-> Len(lines),
       r_first |-> key[1], r_last |-> key[1] + Len(blocks) - 1]

-----------------------------------------------------------------------------
(* updatepart: the file operations that put a text in its place.           *)

Store(key, blocks) == [op |-> "store", key |-> key, lines |-> FlattenSeq(blocks)]
Kill(key) == [op |-> "kill", key |-> key, lines |-> <<>>]

\* A new response after a multi-partfile one begins its own partfile.
PartOf(resp) ==
  LET p == partnum(resp, 0)
  IN  IF pdir # {} /\ p = LastOf(pdir) /\ p[2] > 0 THEN <<resp, 0>> ELSE p

\* Bug: the further partfiles of a long response are forgotten.
ContinuationsForgotten(p) == <<>>

\* The further partfiles of a response that covers several.
Continuations(p) ==
  LET later == [i \in 1 .. MaxLines |-> <<p[1], p[2] + i>>]
  IN  SelectSeq(later, LAMBDA q : q \in pdir)

\* Bug: the margin for header, title and rounding is forgotten.
FitsNoMargin(needslines, l_used, space) ==
  needslines + l_used < SuggestMax + space

\* Does a text fit into a partfile of l_used lines, SPACE of which it frees?
Fits(needslines, l_used, space) ==
  needslines + l_used + 10 < SuggestMax + space

\* The lines of text w: the header, and LEN lines.
NewText(w, len) == [k \in 1 .. len + 1 |-> <<w, k - 1>>]

\* Bug: the text is cut one partfile too often.
ChunksOneMore(resp, l_used, lines) ==
  LET full == SuggestMax - 5
      upto(i) == IF i * full < Len(lines) THEN i * full ELSE Len(lines)
  IN  [i \in 1 .. 1 + Len(lines) \div full + 1 |->
         SubSeq(lines, upto(i - 1) + 1, upto(i))]

\* Cut a text that goes into a partfile after l_used other lines wherever a
\* partfile is full.  Header and title are put in without looking.
Chunks(resp, l_used, lines) ==
  LET full == SuggestMax - 5
      must == 1 + Titles(resp)
      room == IF full > l_used + must THEN full - l_used ELSE must
      rest == IF Len(lines) > room THEN Len(lines) - room ELSE 0
      from(i) == IF i = 0 THEN 0 ELSE room + (i - 1) * full
      upto(i) == IF room + i * full < Len(lines) THEN room + i * full ELSE Len(lines)
  IN  [i \in 1 .. 1 + (rest + full - 1) \div full |->
         SubSeq(lines, from(i - 1) + 1, upto(i - 1))]

\* Case (d): RESP is the last response in the buffer, at line l_used.
LastInBuffer(p, resp, blocks, l_used, w, needslines) ==
  LET r == Len(blocks) - 1
      front == SubSeq(blocks, 1, r)
      space == Len(blocks[r + 1])
      fits == Fits(needslines, l_used, space)
      apart == ~fits /\ r > 0
      chunks == Chunks(resp, IF apart THEN 0 ELSE l_used,
                       NewText(w, needslines + Titles(resp)))
      lnum(i) == Len(FlattenSeq(SubSeq(chunks, 1, i - 1)))
  IN  (IF apart
       THEN <<Store(p, front), Store(<<resp, 0>>, <<chunks[1]>>)>>
       ELSE <<Store(p, Append(front, chunks[1]))>>)
        \o [i \in 1 .. Len(chunks) - 1 |->
              Store(<<resp, lnum(i + 1)>>, <<chunks[i + 1]>>)]

\* In a process whose buffer never held that many responses a slot that was
\* skipped still has its calloc'd zeroes: it spans line 0 of the buffer.
SkippedSlot(blocks) ==
  IF blocks = <<>> THEN <<>> ELSE <<blocks[1][1]>>

updatepart(resp, w, needslines) ==
  LET p == PartOf(resp)
      tbuf == loadtext(p)
      r == resp - tbuf.r_first
      space == Len(tbuf.blocks[r + 1])
      fits == Fits(needslines, tbuf.l_used, space)
      new == NewText(w, needslines + Titles(resp))
      kills == [i \in DOMAIN Continuations(p) |-> Kill(Continuations(p)[i])]
      skipped == [i \in 1 .. resp - tbuf.r_last - 1 |-> SkippedSlot(tbuf.blocks)]
      front == SubSeq(tbuf.blocks, 1, r)
  IN  kills \o
      CASE resp < tbuf.r_last /\ fits ->                     \* case (a)
             <<Store(p, [tbuf.blocks EXCEPT ![r + 1] = new])>>
        [] resp < tbuf.r_last /\ ~fits ->                    \* case (b)
             <<Store(<<resp + 1, 0>>, SubSeq(tbuf.blocks, r + 2, Len(tbuf.blocks)))>>
             \o LastInBuffer(p, resp, SubSeq(tbuf.blocks, 1, r + 1),
                             Len(FlattenSeq(front)), w, needslines)
        [] resp > tbuf.r_last ->                             \* case (c)
             LastInBuffer(p, resp, tbuf.blocks \o skipped \o <<<<>>>>,
                          tbuf.l_used, w, needslines)
        [] resp = tbuf.r_last ->                             \* case (d)
             LastInBuffer(p, resp, tbuf.blocks, Len(FlattenSeq(front)), w, needslines)

-----------------------------------------------------------------------------
(* a_get_resp: header, then line after line through getline2 until null.   *)

\* The lines of RESP from line l on, when partfile p is the one in the buffer.
RECURSIVE LinesFrom(_, _, _)
LinesFrom(p, resp, l) ==
  LET tbuf == loadtext(p)
      block == tbuf.blocks[resp - tbuf.r_first + 1]
      skip == IF resp = tbuf.r_first THEN l - p[2] ELSE l
      here == SubSeq(block, skip + 1, Len(block))
      next == partnum(resp, l + Len(here))
  IN  IF resp < tbuf.r_first \/ resp > tbuf.r_last \/ here = <<>> THEN <<>>
      ELSE here \o (IF resp < tbuf.r_last \/ next = p THEN <<>>
                    ELSE LinesFrom(next, resp, l + Len(here)))

a_get_resp(resp) ==
  IF pdir = {} THEN <<>> ELSE LinesFrom(partnum(resp, 0), resp, 0)

-----------------------------------------------------------------------------
\* createitem's fake partfile: "An Empty Item".
Init ==
  /\ part = [key \in {<<0, 0>>} |-> NewText(0, 1)]
  /\ plan = <<>>
  /\ cur = NoResp
  /\ text = [n \in Nums |-> IF n = 0 THEN [w |-> 0, len |-> 0, here |-> TRUE] ELSE Never]
  /\ writes = 0
  /\ top = 0

Begin(resp, len) ==
  /\ cur = NoResp /\ writes < MaxWrites
  /\ writes' = writes + 1
  /\ plan' = updatepart(resp, writes + 1, len)
  /\ cur' = resp
  /\ text' = [text EXCEPT ![resp] = [w |-> writes + 1, len |-> len, here |-> TRUE]]
  /\ UNCHANGED part

\* XT_NEW: chg_dresp gave out the next number.
Add(len) ==
  /\ top < MaxResp
  /\ top' = top + 1
  /\ Begin(top + 1, len)

\* chg_ditem XT_NEW: the text proper of an item that createitem has made.
AddItem(len) ==
  /\ text[0].w = 0
  /\ Begin(0, len)
  /\ UNCHANGED top

\* XT_CHANGE of a response that exists; XT_DELETE leaves a bare header.
Change(resp, len) ==
  /\ text[resp].w > 0 /\ a_get_resp(resp) # <<>>
  /\ len <= text[resp].len \/ len <= GrowTo
  /\ Begin(resp, len)
  /\ UNCHANGED top

FileStep ==
  /\ plan # <<>>
  /\ part' = IF Head(plan).op = "store"
             THEN [key \in DOMAIN part \cup {Head(plan).key} |->
                     IF key = Head(plan).key THEN Head(plan).lines ELSE part[key]]
             ELSE [key \in DOMAIN part \ {Head(plan).key} |-> part[key]]
  /\ plan' = Tail(plan)
  /\ cur' = IF Len(plan) = 1 THEN NoResp ELSE cur
  /\ UNCHANGED <<text, writes, top>>

Next ==
  \/ \E len \in Lens : AddItem(len) \/ Add(len)
  \/ \E resp \in Nums, len \in Lens : Change(resp, len)
  \/ FileStep

Spec == Init /\ [][Next]_vars

-----------------------------------------------------------------------------
(* What the locks do not rule out: numbers that are given out in one order *)
(* and written in another.                                                 *)

\* A number was given out to a process that has not written it yet.
Skip ==
  /\ cur = NoResp /\ top < MaxResp
  /\ top' = top + 1
  /\ UNCHANGED <<part, plan, cur, text, writes>>

\* The process that Skip left behind gets to write its response at last.
AddLate(resp, len) ==
  /\ resp \in 1 .. top /\ text[resp] = Never
  /\ Begin(resp, len)
  /\ UNCHANGED top

SpecOutOfOrder ==
  Init /\ [][Next \/ Skip \/ \E resp \in Nums, len \in Lens : AddLate(resp, len)]_vars

-----------------------------------------------------------------------------
(* Properties.                                                             *)

\* Every variable has its type.
TypeOK ==
  /\ DOMAIN part \subseteq Nums \X (0 .. MaxLines)
  /\ \A key \in DOMAIN part : part[key] # <<>>
  /\ (plan = <<>>) = (cur = NoResp)
  /\ cur \in Nums \cup {NoResp}
  /\ writes \in 0 .. MaxWrites
  /\ top \in Nums

\* updatepart "replaces that chunk with the contents of CTEXT, NEWHEADER, and
\* NEWTITLE" (updatepa.c:26-28), and that chunk only: every response reads
\* back as the text last written to it, also in the middle of an update of
\* another one, where a death may leave the files.
ReadsBack == \A n \in Nums \ {cur} : text[n].here =>
  a_get_resp(n) = NewText(text[n].w, text[n].len + Titles(n))

\* A response is only cut up if it has partfiles of its own: "fits" is stricter
\* than "too full" (updatepa.c:346-349).
SplitsAlone ==
  cur = NoResp => \A key \in DOMAIN part : key[2] > 0 => <<key[1], 0>> \in DOMAIN part
=============================================================================
