------------------------------ MODULE NameList ------------------------------
(***************************************************************************)
(* The sorted name lists: who is who, item titles, conferences.            *)
(*                                                                         *)
(* A list is a directory file (ud) of "number boundary" lines and numbered *)
(* part files (uf).  An entry is a word and a value, say "ann ar12".       *)
(* modnames() adds and removes entries; a part that gets too long is split *)
(* in two.  It holds the directory's lock all the time, and writes each    *)
(* part under the part's own lock.  matchnl() looks a prefix up, under the *)
(* directory's read lock.  nextuser() reads all parts, in the order of a   *)
(* directory it read once, with no lock between two parts.                 *)
(*                                                                         *)
(* Each file is replaced whole (AtomicFile), and deaths come in between.   *)
(***************************************************************************)
EXTENDS Integers, Sequences, FiniteSets, Functions

CONSTANTS
  Words, Values,  \* words are 1 .. Words, in alphabetical order
  Queries,       \* the <<lo, hi>>: prefixes of the words lo .. hi
  LMax, Slack,    \* lines in a text buffer, and how many a split keeps free
  Calls,          \* the [add, del] that modnames() may be called with
  Watched,        \* the entries that a nextuser() may look for
  MaxParts,       \* bound on the part files
  MaxFaults       \* bound on deaths and failed locks

\* The lines of a part: a word, its value, 0 in a marker, and the '!' behind
\* the word of a marker.
Names == (1 .. Words) \X (1 .. Values) \X {0}

ASSUME NameListAssumption ==
  /\ Words \in Nat \ {0} /\ Values \in Nat \ {0} /\ MaxFaults \in Nat
  /\ Queries \subseteq (1 .. Words) \X (1 .. Words)
  /\ MaxParts \in Nat \ {0} /\ LMax \in Nat /\ Slack \in Nat /\ 5 <= LMax - Slack
  /\ \A c \in Calls : /\ c.add \in SUBSET Names /\ c.del \in SUBSET Names
                      /\ c.add \cup c.del # {} /\ Cardinality(c.add) < Slack

VARIABLES
  dir,     \* the directory on disk: sequence of [str, num]
  part,    \* the part files on disk, <<>> where there is none
  job,     \* the modnames() in progress, which holds the directory's lock
  scan,    \* the nextuser() in progress
  names,   \* history: the entries added and not removed since
  risk,    \* history: entries that a death or a failed lock may have cost
  crowded, \* history: a split has left a part that is too long
  faults   \* how many of these there were

vars == <<dir, part, job, scan, names, risk, crowded, faults>>

\* '!' collates before every other character, the blank included: w sorts
\* before w!, that before w!!, and these before every entry of the word w.
Bare(w) == <<w, 0, 0>>
Bang(e) == <<e[1], 0, e[3] + 1>>
sortlow == Bang(Bare(0))
sorthigh == Bare(Words + 1)
Less(a, b) ==
  a[1] < b[1] \/ (a[1] = b[1] /\ (a[2] < b[2] \/ (a[2] = b[2] /\ a[3] < b[3])))

\* The first token of a line: an entry's word, or all of a marker.
Token(e) == IF e[2] > 0 THEN Bare(e[1]) ELSE e

Line(buf, i) == buf[i + 1]
InsertAt(s, i, e) == SubSeq(s, 1, i - 1) \o <<e>> \o SubSeq(s, i, Len(s))
RemoveAt(s, i) == SubSeq(s, 1, i - 1) \o SubSeq(s, i + 1, Len(s))
nameinsert(buf, slot, e) == InsertAt(buf, slot + 1, e)

\* Bug: new parts go to the end of the directory.
nladdLast(d, str, n) == Append(d, [str |-> str, num |-> n])

\* After the last boundary that is not greater.
nladd(d, str, n) ==
  LET k == CHOOSE k \in 0 .. Len(d) :
             /\ \A i \in 1 .. k : ~Less(str, d[i].str)
             /\ k = Len(d) \/ Less(str, d[k + 1].str)
  IN  InsertAt(d, k + 1, [str |-> str, num |-> n])

\* Which place of the directory a string belongs to: the first one whose
\* next boundary is greater.
whatnm(str, d) == CHOOSE k \in 1 .. Len(d) - 1 :
  Less(str, d[k + 1].str) /\ \A i \in 1 .. k - 1 : ~Less(str, d[i + 1].str)

-----------------------------------------------------------------------------
(* Binary search, as modnames() and matchnl() both do it.  cmp holds for   *)
(* each line how it compares to what is looked for: -1, 0 or 1.            *)

Search(cmp, first) ==
  LET Slots == 0 .. Len(cmp) - 1
      Halved[s \in [lo : Slots, hi : Slots, md : Slots, result : -1 .. 1]] ==
        LET m == (s.hi + s.lo) \div 2
            c == Line(cmp, m)
        IN  IF s.hi <= s.lo + 1 \/ s.result = 0 THEN s
            ELSE Halved[[lo |-> IF c < 0 THEN m ELSE s.lo,
                         hi |-> IF c > 0 THEN m ELSE s.hi, md |-> m, result |-> c]]
  IN  Halved[[lo |-> 0, hi |-> Len(cmp) - 1, md |-> first, result |-> 1]]

Compare(a, b) == IF Less(a, b) THEN -1 ELSE IF a = b THEN 0 ELSE 1
ComparePrefix(e, q) == IF e[1] < q[1] THEN -1 ELSE IF e[1] > q[2] THEN 1 ELSE 0

\* Bug: new entries go before the line found last, even if that is smaller.
EditedUnsorted(buf, op) ==
  LET cmp == [i \in DOMAIN buf |-> Compare(buf[i], op.name)]
      found == Search(cmp, 1)
  IN  IF op.remove
      THEN IF found.result = 0 THEN RemoveAt(buf, found.md + 1) ELSE buf
      ELSE nameinsert(buf, found.md, op.name)

\* One entry of the add or the delete list is worked into the buffer.
Edited(buf, op) ==
  LET cmp == [i \in DOMAIN buf |-> Compare(buf[i], op.name)]
      found == Search(cmp, 1)
  IN  IF op.remove
      THEN IF found.result = 0 THEN RemoveAt(buf, found.md + 1) ELSE buf
      ELSE nameinsert(buf, IF found.result < 0 THEN found.md + 1 ELSE found.md, op.name)

\* Bug: one line more is allowed for.
TooLongByOne(buf) == Len(buf) > LMax - Slack + 1

TooLong(buf) == Len(buf) > LMax - Slack

\* Where stornpart() splits: after the last line with the middle line's word,
\* or before the first, whichever is nearer; in the middle if that is too far.
Middle(buf) ==
  LET mid == Len(buf) \div 2
      Same(i) == Token(Line(buf, i)) = Token(Line(buf, mid))
      Stop(i) == \/ ~Same(mid + i) \/ ~Same(mid - i)
                 \/ mid - i < 3 \/ mid + i + 3 >= Len(buf)
      i == CHOOSE i \in 1 .. mid : Stop(i) /\ \A j \in 1 .. i - 1 : ~Stop(j)
  IN  CASE ~Same(mid + i) -> mid + i - 1
        [] Same(mid + i) /\ ~Same(mid - i) -> mid - i
        [] OTHER -> mid

-----------------------------------------------------------------------------
NoJob == [pc |-> "idle"]
NoScan == [on |-> FALSE]

\* initnmdir(): one empty part.
Init ==
  /\ dir = <<[str |-> sortlow, num |-> 1], [str |-> sorthigh, num |-> 0]>>
  /\ part = [n \in 1 .. MaxParts |-> IF n = 1 THEN <<sortlow, sorthigh>> ELSE <<>>]
  /\ job = NoJob /\ scan = NoScan
  /\ names = {} /\ risk = {} /\ crowded = FALSE /\ faults = 0

Fault == faults < MaxFaults /\ faults' = faults + 1

(* modnames().                                                             *)

\* The two lists, and which string of them is next: the smallest one, and of
\* two equal ones the one to remove.
Merged(add, del) == [remove : {TRUE}, name : del] \cup [remove : {FALSE}, name : add]
Before(x, y) == Less(x.name, y.name) \/ (x.name = y.name /\ x.remove /\ ~y.remove)
First(todo) == CHOOSE x \in todo : \A y \in todo \ {x} : Before(x, y)

\* Whoever is looked for by a nextuser() in progress.
Moves(ns) ==
  scan' = IF scan.on /\ scan.watch \in ns THEN [scan EXCEPT !.moved = TRUE] ELSE scan

\* Lock and load the directory.  Callers remove what is there, and what they
\* add is not there or removed in the same call.
Begin(add, del) ==
  /\ job = NoJob
  /\ del \subseteq names \cup risk /\ add \cap (names \cup risk) \subseteq del
  /\ job' = [pc |-> "next", todo |-> Merged(add, del), loaded |-> 0,
             changed |-> FALSE, buf |-> <<>>, dir |-> dir, num |-> Len(dir),
             upper |-> <<>>, moved |-> {}, missed |-> 0,
             add |-> add, del |-> del]
  /\ Moves(del)
  /\ UNCHANGED <<dir, part, names, risk, crowded, faults>>

Target == job.dir[whatnm(First(job.todo).name, job.dir)].num
Wanted == job.pc = "load" \/ (job.pc = "next" /\ ~job.changed)

\* j, with the next entry worked into buf.
Modified(j, buf) ==
  LET op == First(j.todo)
  IN  [j EXCEPT !.pc = "next", !.todo = @ \ {op}, !.buf = Edited(buf, op),
                !.changed = @ \/ Edited(buf, op) # buf]

\* The next entry belongs in the part that is loaded.
Modify ==
  /\ job.pc = "next" /\ job.todo # {} /\ Target = job.loaded
  /\ job' = Modified(job, job.buf)
  /\ UNCHANGED <<dir, part, scan, names, risk, crowded, faults>>

\* It belongs in another part.
Load ==
  /\ job # NoJob /\ Wanted /\ job.todo # {} /\ Target # job.loaded
  /\ job' = Modified([job EXCEPT !.loaded = Target, !.changed = FALSE], part[Target])
  /\ UNCHANGED <<dir, part, scan, names, risk, crowded, faults>>

\* That part cannot be locked: the entry is passed over, and the part that
\* was just stored counts as changed still.
LoadFails ==
  /\ job # NoJob /\ Wanted /\ job.todo # {} /\ Target # job.loaded /\ Fault
  /\ job' = [job EXCEPT !.pc = "next", !.todo = @ \ {First(@)}, !.missed = @ + 1]
  /\ risk' = risk \cup {First(job.todo).name} \cup job.moved
  /\ UNCHANGED <<dir, part, scan, names, crowded>>

\* The part a split leaves, and the new one; the marker is in both.
Lower(buf, mid) == SubSeq(buf, 1, mid + 2)
\* Bug: the new part lacks its first entry.
UpperShort(buf, mid) == <<Line(buf, mid + 1)>> \o SubSeq(buf, mid + 4, Len(buf))
Upper(buf, mid) == SubSeq(buf, mid + 2, Len(buf))

\* stornpart(): write the part, or the lower half of it.
Store ==
  /\ job.pc = "next" /\ job.num <= MaxParts /\ job.changed /\ (job.todo # {} => Target # job.loaded)
  /\ LET next == IF job.todo = {} THEN "dir" ELSE "load"
         mid == Middle(job.buf)
         bound == Bang(Token(Line(job.buf, mid)))
         buf == nameinsert(job.buf, mid + 1, bound)
         up == Upper(buf, mid)
     IN  IF TooLong(job.buf)
         THEN /\ part' = [part EXCEPT ![job.loaded] = Lower(buf, mid)]
              /\ job' = [job EXCEPT !.pc = "upper", !.buf = buf, !.upper = up,
                                    !.dir = nladd(@, bound, job.num), !.num = @ + 1,
                                    !.moved = @ \cup (Range(up) \cap Names)]
              /\ Moves(Range(up))
              /\ crowded' = (crowded \/ TooLong(Lower(buf, mid)) \/ TooLong(up))
         ELSE /\ part' = [part EXCEPT ![job.loaded] = job.buf]
              /\ job' = [job EXCEPT !.pc = next]
              /\ UNCHANGED <<scan, crowded>>
  /\ UNCHANGED <<dir, names, risk, faults>>

\* stornpart(): write the upper half.
StoreUpper ==
  /\ job.pc = "upper"
  /\ part' = [part EXCEPT ![job.num - 1] = job.upper]
  /\ job' = [job EXCEPT !.pc = IF job.todo = {} THEN "dir" ELSE "load", !.upper = <<>>]
  /\ UNCHANGED <<dir, scan, names, risk, crowded, faults>>

\* stornmdir(), if there was a split, and unlock.
Finish ==
  /\ job.pc = "dir" \/ (job.pc = "next" /\ ~job.changed /\ job.todo = {})
  /\ dir' = job.dir /\ job' = NoJob
  /\ names' = (names \ job.del) \cup job.add
  /\ UNCHANGED <<part, scan, risk, crowded, faults>>

\* The process dies.
Die ==
  /\ job # NoJob /\ Fault
  /\ job' = NoJob
  /\ risk' = risk \cup job.add \cup job.del \cup job.moved
  /\ UNCHANGED <<dir, part, scan, names, crowded>>

-----------------------------------------------------------------------------
(* nextuser().                                                             *)

\* Read the directory, under its lock.  watch is one of the users.
ScanDir(n) ==
  /\ ~scan.on /\ job = NoJob /\ n \notin risk
  /\ scan' = [on |-> TRUE, watch |-> n, dir |-> dir, pos |-> 1, got |-> FALSE, moved |-> FALSE]
  /\ UNCHANGED <<dir, part, job, names, risk, crowded, faults>>

\* Bug: every part but the last one is read.
AtEndEarly == scan.pos >= Len(scan.dir) - 1

AtEnd == scan.dir[scan.pos].num = 0

\* Load the next part.
ScanPart ==
  /\ scan.on /\ ~AtEnd
  /\ scan' = [scan EXCEPT !.pos = @ + 1,
                          !.got = @ \/ scan.watch \in Range(part[scan.dir[scan.pos].num])]
  /\ UNCHANGED <<dir, part, job, names, risk, crowded, faults>>

ScanEnd ==
  /\ scan.on /\ AtEnd
  /\ scan' = NoScan
  /\ UNCHANGED <<dir, part, job, names, risk, crowded, faults>>

-----------------------------------------------------------------------------
Next ==
  \/ \E c \in Calls : Begin(c.add, c.del)
  \/ Modify \/ Load \/ LoadFails \/ Store \/ StoreUpper \/ Finish \/ Die
  \/ \E n \in names \cap Watched : ScanDir(n)
  \/ ScanPart \/ ScanEnd

Spec == Init /\ [][Next]_vars

-----------------------------------------------------------------------------
(* matchnl(): what a search for a prefix finds, in a directory nobody is   *)
(* changing.                                                               *)

Lines(k) == part[dir[k].num]

\* Bug: the first line may be a match.
BackToZero(md) == 0

\* How far matchnl() goes back from the match it found.
BackTo(md) == IF md > 1 THEN 1 ELSE md

\* The lines of the k-th part that are reported: <<first, behind the last>>.
Run(q, k) ==
  LET buf == Lines(k)
      cmp == [i \in DOMAIN buf |-> ComparePrefix(buf[i], q)]
      Hit(i) == Line(cmp, i) = 0
      md == Search(cmp, 0).md
      from == CHOOSE i \in BackTo(md) .. md : /\ \A j \in i .. md - 1 : Hit(j)
                                              /\ i = BackTo(md) \/ ~Hit(i - 1)
      to == CHOOSE i \in from .. Len(buf) - 1 : /\ \A j \in from .. i - 1 : Hit(j)
                                                /\ i = Len(buf) - 1 \/ ~Hit(i)
  IN  <<from, to>>

\* Bug: one part is enough.
RanOutNever(q, k) == FALSE

\* The matches run to the end of the part: the next one is looked at too.
RanOut(q, k) == Run(q, k)[2] >= Len(Lines(k)) - 1

matchnl(q) ==
  LET first == whatnm(Bare(q[1]), dir)
      seen == {k \in first .. Len(dir) - 1 : \A j \in first .. k - 1 : RanOut(q, j)}
  IN  UNION {{Line(Lines(k), i) : i \in Run(q, k)[1] .. Run(q, k)[2] - 1} : k \in seen}

-----------------------------------------------------------------------------
(* Properties.                                                             *)

\* The entries in the files that the directory lists.
Held == (UNION {Range(Lines(k)) : k \in 1 .. Len(dir) - 1}) \cap Names

\* The words at which parts were split.
Boundaries == {dir[k].str[1] : k \in 2 .. Len(dir) - 1}

\* The directory is in order, and all its parts exist.
TypeOK ==
  /\ names \subseteq Names /\ risk \subseteq Names
  /\ \A k \in 1 .. Len(dir) - 1 :
       /\ ~Less(dir[k + 1].str, dir[k].str)
       /\ dir[k].num \in 1 .. Len(dir) - 1 /\ Len(Lines(k)) >= 2
  /\ dir[Len(dir)] = [str |-> sorthigh, num |-> 0]

\* An entry that was added and not removed stays on the list, through all
\* splits, unless a process died or passed it over while it was moved.
Kept == job = NoJob => names \ risk \subseteq Held

\* An entry that was removed is off the list, unless its word was a boundary.
Gone == job = NoJob =>
          \A n \in Held \ (names \cup risk) : n[1] \in Boundaries

\* modnames: an entry that was removed is off the list.
RemovedIsGone == job = NoJob => Held \subseteq names \cup risk

\* "Matchnl() searches the partfiles for STR, and puts all matches in LIST":
\* wherever the boundaries are, whatever was added and removed, as long as no
\* match was lost to a death.
SearchFinds == job = NoJob =>
  \A q \in Queries :
    LET Matches(S) == {n \in S : n[1] \in q[1] .. q[2]}
    IN  Matches(risk) = {} => Matches(Held) \subseteq matchnl(q)

\* What a search reports besides entries is the marker of an empty part.
OnlyEntries == job = NoJob =>
  \A q \in Queries : \A e \in matchnl(q) \ Names :
    \E k \in 1 .. Len(dir) - 1 : dir[k].str = e /\ Len(Lines(k)) = 2

\* nameinsert() runs past the end of the buffer only after a split that left
\* one of the parts too long: a part that is stored leaves room for the next
\* add list and a marker, and each failed lock costs the line of one more.
FitsBuffer == job # NoJob /\ ~crowded => Len(job.buf) <= LMax + job.missed

\* A user who is there all the time is seen by nextuser(), unless a split
\* moves the entry or a death hides it.
ScanSees == scan.on /\ AtEnd => scan.got \/ scan.moved \/ scan.watch \in risk

=============================================================================
