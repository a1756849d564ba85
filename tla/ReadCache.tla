----------------------------- MODULE ReadCache -----------------------------
(***************************************************************************)
(* How a subserver reads responses: through a cache of text buffers.       *)
(*                                                                         *)
(* a_cch_tbuf() keeps a few buffers, each with the part file it was loaded *)
(* with, and nothing tells a process that another one has changed the      *)
(* file.  getline2() also trusts the part directory (pdir) that was read   *)
(* last, which is a global variable: it may be old, of another item, or of *)
(* something else altogether.                                              *)
(*                                                                         *)
(* This is one such process; of the others only what they write is seen.   *)
(* An operation is one step: the locks inside of it are in Conference, the *)
(* crashes in UnitFile.  A response is its version; a part file holds the  *)
(* responses from its start to the next start.                             *)
(***************************************************************************)
EXTENDS Integers, Sequences, FiniteSets

CONSTANTS
  Items,
  NBuf,         \* text buffers in a cache
  MaxResp,      \* bound on the responses to each item
  MaxVer,       \* bound on the versions of a response, for each item
  Other         \* what pdir holds when it is not an item's directory

ASSUME ReadCacheAssumption ==
  /\ NBuf \in Nat \ {0} /\ Items \subseteq Nat \ {0}
  /\ MaxResp \in [Items -> Nat] /\ MaxVer \in [Items -> Nat \ {0}]

VARIABLES
  text,     \* text[i][r + 1]: the version of response r of item i on disk
  starts,   \* starts[i]: the first responses of its part files
  cache,    \* the text buffers
  pdir,     \* the part directory read last: [item, starts], or Other
  shared,   \* history: the items that another process has written to
  known,    \* history: known[i][r + 1]: the latest version read or written
  twin,     \* history: a response was in two buffers
  asked     \* history: a response was asked for that is not there

vars == <<text, starts, cache, pdir, shared, known, twin, asked>>

Buffers == 1 .. NBuf
Resps(i) == 0 .. MaxResp[i]
Exists(i, r) == r < Len(text[i])

\* A buffer that is cleared, and one that was never used.  used is the order
\* of last use; 0 is the oldest.
NoBuf == [item |-> 0, first |-> 0, vers |-> <<>>, used |-> 0]
Unused == [NoBuf EXCEPT !.item = -1]

Init ==
  /\ text = [i \in Items |-> <<1>>] /\ starts = [i \in Items |-> {0}]
  /\ cache = [b \in Buffers |-> Unused] /\ pdir = Other
  /\ shared = {} /\ known = [i \in Items |-> [k \in 1 .. MaxResp[i] + 1 |-> 0]]
  /\ twin = FALSE /\ asked = FALSE

-----------------------------------------------------------------------------
(* Part files.                                                             *)

\* partnum(): the last start that is not after r.
partnum(dir, r) == CHOOSE s \in dir : s <= r /\ \A t \in dir : t <= s \/ r < t

\* The part file of item i that starts with response s.
Part(i, s) ==
  LET Later == {t \in starts[i] : t > s}
      end == IF Later = {} THEN Len(text[i]) ELSE CHOOSE t \in Later : \A u \in Later : t <= u
  IN  SubSeq(text[i], s + 1, end)

-----------------------------------------------------------------------------
(* a_cch_tbuf() and getline2().                                            *)

last(buf) == buf.first + Len(buf.vers) - 1
Holds(buf, i, r) == buf.item = i /\ buf.first <= r /\ r <= last(buf)

Matching(c, i, r) == {b \in Buffers : Holds(c[b], i, r)}
Least(S) == CHOOSE b \in S : \A d \in S : b <= d

\* Bug: the oldest buffer is taken, whatever the others hold.
HitOldest(c, i, r) ==
  Least({b \in Buffers : \A d \in Buffers : c[b].used <= c[d].used})

\* V_GET: the first buffer that holds the response, else the oldest one.
Hit(c, i, r) ==
  LET m == Matching(c, i, r) IN
  IF m # {} THEN Least(m)
  ELSE Least({b \in Buffers : \A d \in Buffers : c[b].used <= c[d].used})

\* Bug: the directory is not asked whether the response should be here.
BeyondAlways(dir, buf, i, r) == buf.item = i /\ buf.first <= r /\ r > last(buf)

\* getline2(): "If the response/linenum appears to be beyond this partfile,
\* and yet is not in the next one, then it doesn't exist."
Beyond(dir, buf, i, r) ==
  /\ buf.item = i /\ buf.first <= r /\ r > last(buf)
  /\ dir # Other /\ partnum(dir.starts, r) = buf.first

Dir(i) == [item |-> i, starts |-> starts[i]]

\* Whether getline2() leaves the buffer as it is.
Kept(old, i, r) == Holds(old, i, r) \/ Beyond(pdir, old, i, r)

\* Bug: the buffer is said to begin with the response that was asked for.
BufFirst(i, r) ==
  LET old == cache[Hit(cache, i, r)]
      s == partnum(starts[i], r)
  IN  IF Kept(old, i, r) THEN old ELSE [old EXCEPT !.item = i, !.first = r, !.vers = Part(i, s)]

\* The buffer that V_GET returns, after getline2().
Buf(i, r) ==
  LET old == cache[Hit(cache, i, r)]
      s == partnum(starts[i], r)
  IN  IF Kept(old, i, r) THEN old ELSE [old EXCEPT !.item = i, !.first = s, !.vers = Part(i, s)]

\* What a read shows: a version, or 0 for "no such response".
Shown(i, r) ==
  LET buf == Buf(i, r) IN IF Holds(buf, i, r) THEN buf.vers[r - buf.first + 1] ELSE 0

\* The cache after V_GET: the buffer has the latest stamp.  Only the order of
\* the stamps is kept.  (The first stamp of all is 0, so that the next buffer
\* to be filled is the same one.)
Loaded(i, r) ==
  LET b == Hit(cache, i, r)
      virgin == \A d \in Buffers : cache[d] = Unused
      stamp == [d \in Buffers |-> IF d # b THEN cache[d].used ELSE IF virgin THEN 0 ELSE NBuf + 1]
      rank(d) == Cardinality({stamp[e] : e \in {e \in Buffers : stamp[e] <= stamp[d]}} \ {0})
  IN  [d \in Buffers |-> [(IF d = b THEN Buf(i, r) ELSE cache[d]) EXCEPT !.used = rank(d)]]

\* The part directory after V_GET.
NewDir(i, r) == IF Kept(cache[Hit(cache, i, r)], i, r) THEN pdir ELSE Dir(i)

\* V_CLR: the first buffer that holds the response.
Cleared(c, i, r) ==
  LET m == Matching(c, i, r) IN IF m = {} THEN c ELSE [c EXCEPT ![Least(m)] = NoBuf]

-----------------------------------------------------------------------------
(* The operations of a process.                                            *)

\* Two buffers hold the same response.
Twins(c) == \E i \in Items : \E r \in Resps(i) : Cardinality(Matching(c, i, r)) > 1

\* The process is left with this cache and this pdir.
Left(c, dir) == cache' = c /\ pdir' = dir /\ twin' = (twin \/ Twins(c))

\* a_get_resp().
Get(i, r) ==
  /\ Left(Loaded(i, r), NewDir(i, r))
  /\ known' = [known EXCEPT ![i][r + 1] = IF Shown(i, r) > @ THEN Shown(i, r) ELSE @]
  /\ asked' = (asked \/ ~Exists(i, r))
  /\ UNCHANGED <<text, starts, shared>>

\* Response r of item i is written; news are the part files added for it.
Wrote(i, r, ver, news) ==
  /\ text' = [text EXCEPT ![i] = IF r = Len(@) THEN Append(@, ver) ELSE [@ EXCEPT ![r + 1] = ver]]
  /\ starts' = [starts EXCEPT ![i] = @ \cup news]

Mine(i, r, ver) ==
  /\ known' = [known EXCEPT ![i][r + 1] = ver]
  /\ UNCHANGED <<shared, asked>>

\* Where a response of this item may be added: the last part, or a new one.
Added(i) == \E news \in SUBSET {Len(text[i])} : Wrote(i, Len(text[i]), 1, news)

\* A response is changed; if it does not fit, what follows it in the part
\* file, or itself, goes to a new one.
Changed(i, r) ==
  \E news \in SUBSET ({r} \cup {s \in {r + 1} : Exists(i, s)}) :
    Wrote(i, r, text[i][r + 1] + 1, news)

MayAdd(i) == Len(text[i]) <= MaxResp[i]
MayChange(i, r) == Exists(i, r) /\ text[i][r + 1] < MaxVer[i]

\* Bug: only the buffer of the new response is cleared, and there is none.
AddClearsNew(i) ==
  LET r == Len(text[i]) IN
  /\ MayAdd(i) /\ Shown(i, 0) # 0
  /\ Added(i) /\ Left(Cleared(Loaded(i, 0), i, r), Dir(i)) /\ Mine(i, r, 1)

\* a_add_resp(): look at the item's header, clear the buffer with the last
\* response, add the new one.
Add(i) ==
  LET r == Len(text[i])
      c == Cleared(Cleared(Cleared(Loaded(i, 0), i, r - 1), i, r), i, 0)
  IN
  /\ MayAdd(i) /\ Shown(i, 0) # 0
  /\ Added(i) /\ Left(c, Dir(i)) /\ Mine(i, r, 1)

\* Bug: the buffer that was read to be changed stays in the cache.
ChangeClearsNot(i, r) ==
  /\ MayChange(i, r) /\ Shown(i, r) # 0
  /\ Changed(i, r) /\ Left(Loaded(i, r), Dir(i))
  /\ Mine(i, r, text[i][r + 1] + 1)

\* a_chg_resp(): read it, and write it.
Change(i, r) ==
  /\ MayChange(i, r) /\ Shown(i, r) # 0
  /\ Changed(i, r) /\ Left(Cleared(Loaded(i, r), i, r), Dir(i))
  /\ Mine(i, r, text[i][r + 1] + 1)

\* a_del_resp(): the response is empty from now on.
Delete(i, r) ==
  LET gone == [Loaded(i, r) EXCEPT ![Hit(cache, i, r)].item = 0] IN
  /\ r > 0 /\ MayChange(i, r) /\ Shown(i, r) # 0
  /\ Wrote(i, r, text[i][r + 1] + 1, {})
  /\ Left(Cleared(Cleared(gone, i, r), i, 0), Dir(i))
  /\ Mine(i, r, text[i][r + 1] + 1)

\* Something else is read or written, and pdir is used for it.
Elsewhere ==
  /\ pdir # Other /\ pdir' = Other
  /\ UNCHANGED <<text, starts, cache, shared, known, twin, asked>>

\* Another process adds or changes a response.
Others(i) ==
  /\ \/ MayAdd(i) /\ Added(i)
     \/ \E r \in Resps(i) : MayChange(i, r) /\ Changed(i, r)
  /\ shared' = shared \cup {i}
  /\ UNCHANGED <<cache, pdir, known, twin, asked>>

Next ==
  \/ Elsewhere
  \/ \E i \in Items : \/ Add(i)
                       \/ Others(i)
                       \/ \E r \in Resps(i) : Get(i, r) \/ Change(i, r) \/ Delete(i, r)

Spec == Init /\ [][Next]_vars

-----------------------------------------------------------------------------
(* Properties, of what a read would show now.                              *)

\* Every variable has its type; a buffer holds no response that never was.
TypeOK ==
  /\ \A i \in Items : Len(text[i]) <= MaxResp[i] + 1 /\ starts[i] \subseteq Resps(i)
  /\ \A b \in Buffers :
       LET buf == cache[b] IN
       /\ buf.used \in 0 .. NBuf
       /\ buf.item > 0 => /\ buf.item \in Items /\ last(buf) < Len(text[buf.item])
                          /\ \A k \in DOMAIN buf.vers :
                               buf.vers[k] \in 1 .. text[buf.item][buf.first + k]

\* The responses to item i that are there.
Present(i) == 0 .. Len(text[i]) - 1

\* An item that no other process writes to is read as it is, by a process
\* that asks for responses that are there.  Only the pdir of another item may
\* hide a response of it.
FreshIfAlone ==
  ~asked => \A i \in Items \ shared : \A r \in Present(i) :
    \/ Shown(i, r) = text[i][r + 1]
    \/ Shown(i, r) = 0 /\ pdir # Other /\ pdir.item # i

\* "Clear any api textbuf that might have had a copy of this response before
\* it was changed": what a process has written or been shown is never shown
\* in an older version, unless a response was in two buffers, of which only
\* one is cleared.
NeverBack ==
  ~twin => \A i \in Items : \A r \in Present(i) :
    Shown(i, r) \in {0} \cup known[i][r + 1] .. MaxVer[i]

\* After anything else that reads a part directory, no response is missed.
NotMissed == pdir = Other => \A i \in Items : \A r \in Present(i) : Shown(i, r) # 0

\* A response gets into two buffers when another process has changed its item,
\* or one was asked for that is not there, and in no other way.
TwinsByOthers == twin => asked \/ shared # {}

=============================================================================
