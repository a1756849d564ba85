--------------------------- MODULE SessionProofs ---------------------------
(***************************************************************************)
(* Proofs about Session, for any pids, users, requests and bounds: a       *)
(* subserver is one user's, and no retry runs a request twice.             *)
(*                                                                         *)
(* The argument is about connections.  A request is in one place at most:  *)
(* in the backlog of one subserver, or served by it.  While it is there    *)
(* the connection is up at that end, and swebsock cannot be anywhere but   *)
(* between its greeting and its end.                                       *)
(***************************************************************************)
EXTENDS Session, TLAPS

Links == (Pids \cup {0}) \X BOOLEAN
Subs == [st : States, first : BOOLEAN, user : Ids, cd : Reqs \cup {NoReq},
         queue : Seq(Reqs), seen : SUBSET Ids, last : Reqs \cup {NoReq}]
Socks == [pc : Places, user : Ids, link : Links, fresh : BOOLEAN, tries : Nat,
          up : BOOLEAN, sent : BOOLEAN, asked : BOOLEAN,
          reply : {"none", "OK", "NO", "page"}, runs : Nat,
          end : {"none", "page", "message", "nothing", "killed"}]

Types ==
  /\ sub \in [Pids -> Subs] /\ req \in [Reqs -> Socks]
  /\ line \in Seq(Reqs) /\ urls \subseteq Links

\* A sequence in which nothing is twice, and what is in it.
Once(s) == \A i, j \in 1 .. Len(s) : s[i] = s[j] => i = j
In(r, s) == \E i \in 1 .. Len(s) : s[i] = r

\* What a swebsock has done where.
Good(s) ==
  /\ s.pc \in {"unborn", "open", "greet", "new", "fork"} => s.reply = "none" /\ ~s.sent
  /\ s.pc \in {"unborn", "open", "new", "fork"} => ~s.up
  /\ s.pc = "wait" => s.reply # "page"
  /\ s.reply = "NO" => ~s.up
  /\ s.asked => s.pc \in {"page", "done"}
  /\ s.pc = "page" => s.asked
  /\ s.runs > 0 => s.asked
  /\ s.end = "killed" => s.pc = "done"

\* A swebsock that is connected at the other end.
Open(s) ==
  /\ s.up /\ s.pc \in {"greet", "wait", "ask", "page", "done"}
  /\ s.pc = "done" /\ ~s.asked => s.end = "killed"

\* swebd's line.
Lined ==
  /\ Once(line)
  /\ \A r \in Reqs : In(r, line) => req[r].pc \in {"fork", "done"}

Linked(p, r) == sub[p].cd = r \/ In(r, sub[p].queue)

\* What subserver p knows of its user and of the request it serves.
Own(p) ==
  /\ sub[p].seen \subseteq {Anon, sub[p].user}
  /\ sub[p].first => sub[p].seen = {}
  /\ sub[p].st \in {"hand", "page", "send", "ack"} => sub[p].cd \in Reqs
  /\ sub[p].st \in {"page", "send", "ack"} =>
       ~sub[p].first /\ req[sub[p].cd].user = sub[p].user
  /\ sub[p].st = "send" => req[sub[p].cd].pc \in {"page", "done"}
  /\ sub[p].last \in Reqs => req[sub[p].last].asked

\* A request is in one place.
Apart ==
  /\ \A p \in Pids : Once(sub[p].queue) /\ ~In(sub[p].cd, sub[p].queue)
  /\ \A p, q \in Pids : \A r \in Reqs : Linked(p, r) /\ Linked(q, r) => p = q

Connected == \A p \in Pids : \A r \in Reqs : Linked(p, r) => Open(req[r])

\* Someone else was killed before asking.
Dead(r) == req[r].end = "killed" /\ ~req[r].asked
Excused(r) == \E q \in Reqs : q # r /\ Dead(q)

\* p has not run r yet.
Ahead(p, r) == In(r, sub[p].queue) \/ (sub[p].cd = r /\ sub[p].st \in {"hand", "page"})

Counted ==
  \A r \in Reqs :
    /\ req[r].runs <= 1 \/ Excused(r)
    /\ \A p \in Pids : Ahead(p, r) => req[r].runs = 0 \/ Excused(r)

IInv ==
  /\ Types /\ Lined /\ Apart /\ Connected /\ Counted
  /\ \A r \in Reqs : Good(req[r])
  /\ \A p \in Pids : Own(p)

-----------------------------------------------------------------------------
(* Sequences.                                                              *)

\* A new element at the end.
LEMMA AtTheEnd ==
  ASSUME NEW S, NEW s \in Seq(S), NEW r \in S
  PROVE  /\ Append(s, r) \in Seq(S)
         /\ \A x : In(x, Append(s, r)) <=> In(x, s) \/ x = r
         /\ Once(s) /\ ~In(r, s) => Once(Append(s, r))
<1>1. /\ Append(s, r) \in Seq(S) /\ Len(Append(s, r)) = Len(s) + 1
      /\ Append(s, r)[Len(s) + 1] = r
      /\ \A i \in 1 .. Len(s) : Append(s, r)[i] = s[i]
  OBVIOUS
<1>2. \A x : In(x, Append(s, r)) <=> In(x, s) \/ x = r
  BY <1>1 DEF In
<1>3. ASSUME Once(s), ~In(r, s) PROVE Once(Append(s, r))
  BY <1>1, <1>3 DEF In, Once
<1> QED
  BY <1>1, <1>2, <1>3

\* The first element is taken away.
LEMMA FromTheHead ==
  ASSUME NEW S, NEW s \in Seq(S), s # <<>>
  PROVE  /\ Head(s) \in S /\ Tail(s) \in Seq(S) /\ In(Head(s), s)
         /\ \A x : In(x, Tail(s)) => In(x, s)
         /\ Once(s) => Once(Tail(s)) /\ ~In(Head(s), Tail(s))
<1>1. /\ Len(s) \in Nat /\ Len(s) > 0 /\ Head(s) = s[1] /\ s[1] \in S
      /\ Tail(s) \in Seq(S) /\ Len(Tail(s)) = Len(s) - 1
      /\ \A i \in 1 .. Len(s) - 1 : Tail(s)[i] = s[i + 1]
  OBVIOUS
<1>2. In(Head(s), s) /\ \A x : In(x, Tail(s)) => In(x, s)
  BY <1>1 DEF In
<1>3. ASSUME Once(s) PROVE Once(Tail(s)) /\ ~In(Head(s), Tail(s))
  BY <1>1, <1>3 DEF In, Once
<1> QED
  BY <1>1, <1>2, <1>3

-----------------------------------------------------------------------------
\* Nothing has happened, and nobody is there.
LEMMA InitInv == Init => IInv
<1> SUFFICES ASSUME Init PROVE IInv
  OBVIOUS
<1>0. ~In(NoReq, <<>>) /\ (\A r : ~In(r, <<>>)) /\ Once(<<>>)
  BY DEF In, Once
<1>1. NoSub \in Subs
  BY DEF NoSub, Subs, States, Ids
<1>2. NoSock \in Socks
  BY Zenon DEF NoSock, Socks, Places, Ids, Links, Entry
<1>3. Types
  <2>1. urls \subseteq Links
    BY Zenon DEF Init, Links
  <2>2. sub \in [Pids -> Subs] /\ req \in [Reqs -> Socks] /\ line \in Seq(Reqs)
    BY <1>1, <1>2 DEF Init
  <2> QED
    BY <2>1, <2>2 DEF Types
<1>4. Lined /\ \A r \in Reqs : Good(req[r])
  BY <1>0 DEF Init, Lined, Good, NoSock
<1>5. Apart /\ Connected
  BY <1>0, SessionAssumption DEF Init, Apart, Connected, Linked, NoSub
<1>6. Counted /\ \A p \in Pids : Own(p)
  BY SessionAssumption DEF Init, Counted, Own, NoSub, NoSock
<1> QED
  BY <1>3, <1>4, <1>5, <1>6 DEF IInv

-----------------------------------------------------------------------------
(* The steps of one swebsock, as changes of its record.                    *)

\* What no step undoes.
Goes(s, t) ==
  /\ t \in Socks /\ Good(t)
  /\ s.asked => t.asked
  /\ s.pc = "done" => t.pc = "done" /\ t.end = s.end /\ t.asked = s.asked
  /\ s.pc = "page" => t.pc \in {"page", "done"}

\* What no step of swebsock or swebd undoes.
Opens(s, t) == Open(s) => Open(t) /\ t.user = s.user
Keeps(s, t) == Opens(s, t) /\ t.runs = s.runs

\* A swebsock in line stays there, unless it is its turn.
Stays(s, t) == s.pc \in {"fork", "done"} => t.pc \in {"fork", "done"}

\* Tidy forgets no more than what a dead and closed swebsock knew.
LEMMA TidyKeeps ==
  ASSUME NEW s \in Socks
  PROVE  LET t == Tidy(s) IN
         /\ t \in Socks
         /\ t.pc = s.pc /\ t.end = s.end /\ t.runs = s.runs /\ t.asked = s.asked /\ t.up = s.up
         /\ s.up \/ s.pc # "done" => t = s
         /\ ~s.up /\ s.pc = "done" => t.reply = "none"
<1>1. NoSock \in Socks
  BY Zenon DEF NoSock, Socks, Places, Ids, Links, Entry
<1>2. CASE s.pc = "done" /\ ~s.up
  <2> DEFINE t == [NoSock EXCEPT !.pc = "done", !.end = s.end, !.runs = s.runs, !.asked = s.asked]
  <2>1. t \in Socks
    BY <1>1, Zenon DEF Socks, Places
  <2>2. /\ t.pc = "done" /\ t.end = s.end /\ t.runs = s.runs /\ t.asked = s.asked
        /\ t.up = FALSE /\ t.reply = "none"
    BY DEF NoSock
  <2>3. Tidy(s) = t
    BY <1>2 DEF Tidy
  <2>4. s.up = FALSE
    BY <1>2 DEF Socks
  <2> HIDE DEF t
  <2> QED
    BY <1>2, <2>1, <2>2, <2>3, <2>4, Zenon
<1>3. CASE ~(s.pc = "done" /\ ~s.up)
  BY <1>3 DEF Tidy
<1> QED
  BY <1>2, <1>3

\* A step that does nothing.
LEMMA NoStep ==
  ASSUME NEW s \in Socks, Good(s)
  PROVE  Goes(s, s) /\ Keeps(s, s) /\ Stays(s, s)
BY DEF Goes, Keeps, Opens, Stays

\* swebsock ends.
LEMMA EndStep ==
  ASSUME NEW s \in Socks, Good(s), s.pc \notin {"unborn", "done"},
         NEW e \in {"page", "message", "nothing", "killed"},
         e = "killed" \/ ~Open(s) \/ s.pc = "page"
  PROVE  LET t == Tidy([s EXCEPT !.pc = "done", !.end = e]) IN
         Goes(s, t) /\ Keeps(s, t) /\ Stays(s, t)
<1> DEFINE u == [s EXCEPT !.pc = "done", !.end = e]
           t == Tidy(u)
<1>1. u \in Socks
  BY Zenon DEF Socks, Places
<1>2. /\ u.pc = "done" /\ u.end = e /\ u.runs = s.runs /\ u.asked = s.asked /\ u.up = s.up
      /\ u.reply = s.reply /\ u.user = s.user
  BY DEF Socks
<1> HIDE DEF u
<1>3. /\ t \in Socks
      /\ t.pc = "done" /\ t.end = e /\ t.runs = s.runs /\ t.asked = s.asked /\ t.up = s.up
      /\ s.up => t.reply = s.reply /\ t.user = s.user
  BY <1>1, <1>2, TidyKeeps
<1> HIDE DEF t
<1>4. Good(t)
  BY <1>3 DEF Good
<1>5. Goes(s, t) /\ Stays(s, t)
  BY <1>3, <1>4 DEF Goes, Stays
<1>6. Keeps(s, t)
  BY <1>3 DEF Keeps, Opens, Open, Good
<1> QED
  BY <1>5, <1>6 DEF t, u

\* The handshake fails.
LEMMA ShakeStep ==
  ASSUME NEW s \in Socks, Good(s), s.pc \in {"open", "wait"}, ~s.up,
         NEW x \in {"new", "done"}, NEW e \in {"none", "message"}, NEW n \in Nat
  PROVE  LET t == Tidy([s EXCEPT !.pc = x, !.end = e, !.tries = n, !.link = Entry,
                                 !.up = FALSE, !.sent = FALSE, !.reply = "none"]) IN
         Goes(s, t) /\ Keeps(s, t) /\ Stays(s, t)
<1> DEFINE u == [s EXCEPT !.pc = x, !.end = e, !.tries = n, !.link = Entry,
                          !.up = FALSE, !.sent = FALSE, !.reply = "none"]
           t == Tidy(u)
<1>1. u \in Socks
  BY ZenonT(30) DEF Socks, Places, Entry, Links
<1>2. /\ u.pc = x /\ u.end = e /\ u.runs = s.runs /\ u.asked = s.asked /\ u.up = FALSE
      /\ u.reply = "none" /\ u.sent = FALSE
  BY DEF Socks
<1> HIDE DEF u
<1>3. /\ t \in Socks
      /\ t.pc = x /\ t.end = e /\ t.runs = s.runs /\ t.asked = s.asked /\ t.up = FALSE
      /\ t.reply = "none" /\ (x = "new" => t.sent = FALSE)
  BY <1>1, <1>2, TidyKeeps
<1> HIDE DEF t
<1>4. Good(t)
  BY <1>3 DEF Good
<1>5. Goes(s, t) /\ Stays(s, t)
  BY <1>3, <1>4 DEF Goes, Stays, Good
<1>6. Keeps(s, t)
  BY <1>3 DEF Keeps, Opens, Open
<1> QED
  BY <1>5, <1>6 DEF t, u

\* Every other step of swebsock, and what swebd's answer makes of it.
LEMMA PlainStep ==
  ASSUME NEW s \in Socks, Good(s)
  PROVE  /\ s.pc = "open" =>
              LET t == [s EXCEPT !.pc = "greet", !.up = TRUE] IN
              Goes(s, t) /\ Keeps(s, t) /\ Stays(s, t) /\ Open(t)
         /\ s.pc = "greet" =>
              LET t == [s EXCEPT !.pc = "wait", !.sent = TRUE] IN
              Goes(s, t) /\ Keeps(s, t) /\ Stays(s, t)
         /\ s.pc = "wait" =>
              LET t == [s EXCEPT !.pc = "ask"] IN
              Goes(s, t) /\ Keeps(s, t) /\ Stays(s, t)
         /\ s.pc = "ask" =>
              LET t == [s EXCEPT !.pc = "page", !.asked = TRUE] IN
              Goes(s, t) /\ Keeps(s, t) /\ Stays(s, t)
         /\ s.pc = "new" =>
              LET t == [s EXCEPT !.pc = "fork"] IN
              Goes(s, t) /\ Keeps(s, t) /\ Stays(s, t)
         /\ \A p \in Pids : s.pc = "fork" =>
              LET t == Tidy([s EXCEPT !.pc = "open", !.fresh = TRUE, !.link = <<p, TRUE>>]) IN
              Goes(s, t) /\ Keeps(s, t)
         /\ \A u \in Ids, link \in Links, x \in {"new", "open"} : s.pc = "unborn" =>
              LET t == [NoSock EXCEPT !.pc = x, !.user = u, !.link = link] IN
              Goes(s, t) /\ Keeps(s, t) /\ Stays(s, t)
<1>1. ASSUME s.pc = "open" PROVE
        LET t == [s EXCEPT !.pc = "greet", !.up = TRUE] IN
        Goes(s, t) /\ Keeps(s, t) /\ Stays(s, t) /\ Open(t)
  <2> DEFINE t == [s EXCEPT !.pc = "greet", !.up = TRUE]
  <2>1. t \in Socks
    BY Zenon DEF Socks, Places
  <2>2. /\ t.pc = "greet" /\ t.up = TRUE /\ t.reply = s.reply /\ t.sent = s.sent
        /\ t.asked = s.asked /\ t.runs = s.runs /\ t.end = s.end
    BY DEF Socks
  <2> HIDE DEF t
  <2>3. Good(t)
    BY <1>1, <2>2 DEF Good
  <2>4. Goes(s, t) /\ Keeps(s, t) /\ Stays(s, t) /\ Open(t)
    BY <1>1, <2>1, <2>2, <2>3 DEF Goes, Keeps, Opens, Stays, Open
  <2> QED
    BY <2>4 DEF t
<1>2. ASSUME s.pc = "greet" PROVE
        LET t == [s EXCEPT !.pc = "wait", !.sent = TRUE] IN
        Goes(s, t) /\ Keeps(s, t) /\ Stays(s, t)
  <2> DEFINE t == [s EXCEPT !.pc = "wait", !.sent = TRUE]
  <2>1. t \in Socks
    BY Zenon DEF Socks, Places
  <2>2. /\ t.pc = "wait" /\ t.up = s.up /\ t.reply = s.reply /\ t.user = s.user
        /\ t.asked = s.asked /\ t.runs = s.runs /\ t.end = s.end
    BY DEF Socks
  <2> HIDE DEF t
  <2>3. Good(t)
    BY <1>2, <2>2 DEF Good
  <2>4. Goes(s, t) /\ Keeps(s, t) /\ Stays(s, t)
    BY <1>2, <2>1, <2>2, <2>3 DEF Goes, Keeps, Opens, Stays, Open
  <2> QED
    BY <2>4 DEF t
<1>3. ASSUME s.pc = "wait" PROVE
        LET t == [s EXCEPT !.pc = "ask"] IN Goes(s, t) /\ Keeps(s, t) /\ Stays(s, t)
  <2> DEFINE t == [s EXCEPT !.pc = "ask"]
  <2>1. t \in Socks
    BY DEF Socks, Places
  <2>2. /\ t.pc = "ask" /\ t.up = s.up /\ t.reply = s.reply /\ t.user = s.user
        /\ t.asked = s.asked /\ t.runs = s.runs /\ t.end = s.end
    BY DEF Socks
  <2> HIDE DEF t
  <2>3. Good(t)
    BY <1>3, <2>2 DEF Good
  <2>4. Goes(s, t) /\ Keeps(s, t) /\ Stays(s, t)
    BY <1>3, <2>1, <2>2, <2>3 DEF Goes, Keeps, Opens, Stays, Open
  <2> QED
    BY <2>4 DEF t
<1>4. ASSUME s.pc = "ask" PROVE
        LET t == [s EXCEPT !.pc = "page", !.asked = TRUE] IN
        Goes(s, t) /\ Keeps(s, t) /\ Stays(s, t)
  <2> DEFINE t == [s EXCEPT !.pc = "page", !.asked = TRUE]
  <2>1. t \in Socks
    BY Zenon DEF Socks, Places
  <2>2. /\ t.pc = "page" /\ t.up = s.up /\ t.reply = s.reply /\ t.user = s.user
        /\ t.asked = TRUE /\ t.runs = s.runs /\ t.end = s.end
    BY DEF Socks
  <2> HIDE DEF t
  <2>3. Good(t)
    BY <1>4, <2>2 DEF Good
  <2>4. Goes(s, t) /\ Keeps(s, t) /\ Stays(s, t)
    BY <1>4, <2>1, <2>2, <2>3 DEF Goes, Keeps, Opens, Stays, Open
  <2> QED
    BY <2>4 DEF t
<1>5. ASSUME s.pc = "new" PROVE
        LET t == [s EXCEPT !.pc = "fork"] IN Goes(s, t) /\ Keeps(s, t) /\ Stays(s, t)
  <2> DEFINE t == [s EXCEPT !.pc = "fork"]
  <2>1. t \in Socks
    BY DEF Socks, Places
  <2>2. /\ t.pc = "fork" /\ t.up = s.up /\ t.reply = s.reply /\ t.user = s.user
        /\ t.sent = s.sent /\ t.asked = s.asked /\ t.runs = s.runs /\ t.end = s.end
    BY DEF Socks
  <2> HIDE DEF t
  <2>3. Good(t)
    BY <1>5, <2>2 DEF Good
  <2>4. Goes(s, t) /\ Keeps(s, t) /\ Stays(s, t)
    BY <1>5, <2>1, <2>2, <2>3 DEF Goes, Keeps, Opens, Stays, Open
  <2> QED
    BY <2>4 DEF t
<1>6. ASSUME NEW p \in Pids, s.pc = "fork" PROVE
        LET t == Tidy([s EXCEPT !.pc = "open", !.fresh = TRUE, !.link = <<p, TRUE>>]) IN
        Goes(s, t) /\ Keeps(s, t)
  <2> DEFINE u == [s EXCEPT !.pc = "open", !.fresh = TRUE, !.link = <<p, TRUE>>]
             t == Tidy(u)
  <2>1. u \in Socks
    BY Zenon DEF Socks, Places, Links
  <2>2. /\ u.pc = "open" /\ u.up = s.up /\ u.reply = s.reply /\ u.sent = s.sent
        /\ u.asked = s.asked /\ u.runs = s.runs /\ u.end = s.end
    BY DEF Socks
  <2> HIDE DEF u
  <2>3. t = u
    BY <2>1, <2>2, TidyKeeps
  <2> HIDE DEF t
  <2>4. Good(t)
    BY <1>6, <2>2, <2>3 DEF Good
  <2>5. Goes(s, t) /\ Keeps(s, t)
    BY <1>6, <2>1, <2>2, <2>3, <2>4 DEF Goes, Keeps, Opens, Open
  <2> QED
    BY <2>5 DEF t, u
<1>7. ASSUME NEW u \in Ids, NEW link \in Links, NEW x \in {"new", "open"}, s.pc = "unborn" PROVE
        LET t == [NoSock EXCEPT !.pc = x, !.user = u, !.link = link] IN
        Goes(s, t) /\ Keeps(s, t) /\ Stays(s, t)
  <2> DEFINE t == [NoSock EXCEPT !.pc = x, !.user = u, !.link = link]
  <2>1. t \in Socks
    BY ZenonT(30) DEF Socks, NoSock, Places
  <2>2. /\ t.pc = x /\ t.up = FALSE /\ t.reply = "none" /\ t.sent = FALSE
        /\ t.asked = FALSE /\ t.runs = 0 /\ t.end = "none"
    BY DEF NoSock
  <2>3. s.runs = 0 /\ ~s.asked
    BY <1>7 DEF Good, Socks
  <2> HIDE DEF t
  <2>4. Good(t)
    BY <1>7, <2>2 DEF Good
  <2>5. Goes(s, t) /\ Keeps(s, t) /\ Stays(s, t)
    BY <1>7, <2>1, <2>2, <2>3, <2>4 DEF Goes, Keeps, Opens, Stays, Open
  <2> QED
    BY <2>5 DEF t
<1> QED
  BY <1>1, <1>2, <1>3, <1>4, <1>5, <1>6, <1>7, Zenon

Stepped ==
  /\ req' \in [Reqs -> Socks]
  /\ \A q \in Reqs : Goes(req[q], req'[q]) /\ Keeps(req[q], req'[q])
Standing == \A q \in Reqs : Stays(req[q], req'[q])

\* One swebsock's record changes.
LEMMA OneSock ==
  ASSUME req \in [Reqs -> Socks], \A q \in Reqs : Good(req[q]), NEW r \in Reqs, NEW t,
         req' = [req EXCEPT ![r] = t], Goes(req[r], t), Keeps(req[r], t)
  PROVE  Stepped /\ (Stays(req[r], t) => Standing)
<1>1. t \in Socks
  BY DEF Goes
<1>2. req' \in [Reqs -> Socks] /\ req'[r] = t /\ \A q \in Reqs \ {r} : req'[q] = req[q]
  BY <1>1
<1>3. \A q \in Reqs : req[q] \in Socks
  OBVIOUS
<1>4. \A q \in Reqs : Goes(req[q], req[q]) /\ Keeps(req[q], req[q]) /\ Stays(req[q], req[q])
  BY <1>3, NoStep
<1> QED
  BY <1>2, <1>4 DEF Stepped, Standing

\* The steps of swebsock.
LEMMA SockSteps ==
  ASSUME Types, \A q \in Reqs : Good(req[q]), NEW r \in Reqs,
         \/ \E u \in Who[r], link \in urls \cup {Entry} : Start(r, u, link)
         \/ Swebsock(r)
         \/ SockDies(r)
  PROVE  Stepped /\ Standing /\ urls' \subseteq Links
<1>0. req \in [Reqs -> Socks] /\ req[r] \in Socks /\ Good(req[r]) /\ urls \subseteq Links
  BY DEF Types
<1>1. ASSUME NEW u \in Who[r], NEW link \in urls \cup {Entry}, Start(r, u, link)
      PROVE  Stepped /\ Standing /\ urls' \subseteq Links
  <2> DEFINE x == IF link[1] = 0 THEN "new" ELSE "open"
             t == [NoSock EXCEPT !.pc = x, !.user = u, !.link = link]
  <2>0. Entry \in Links /\ Who[r] \subseteq Ids
    BY SessionAssumption, Zenon DEF Ids, Entry, Links
  <2>1. u \in Ids /\ link \in Links /\ x \in {"new", "open"}
    BY <1>0, <2>0
  <2>2. req[r].pc = "unborn" /\ req' = [req EXCEPT ![r] = t] /\ urls' = urls
    BY <1>1, Zenon DEF Start
  <2> HIDE DEF x
  <2>3. Goes(req[r], t) /\ Keeps(req[r], t) /\ Stays(req[r], t)
    BY <1>0, <2>1, <2>2, PlainStep, Zenon
  <2> HIDE DEF t
  <2> QED
    BY <1>0, <2>2, <2>3, OneSock, Zenon
<1>2. ASSUME NEW e \in {"page", "message", "nothing", "killed"}, Finish(r, e),
             req[r].pc \notin {"unborn", "done"}, e = "killed" \/ ~Open(req[r]) \/ req[r].pc = "page"
      PROVE  Stepped /\ Standing
  <2> DEFINE t == Tidy([req[r] EXCEPT !.pc = "done", !.end = e])
  <2>1. req' = [req EXCEPT ![r] = t]
    BY <1>0, <1>2 DEF Finish
  <2>2. Goes(req[r], t) /\ Keeps(req[r], t) /\ Stays(req[r], t)
    BY <1>0, <1>2, EndStep, Zenon
  <2> HIDE DEF t
  <2> QED
    BY <1>0, <2>1, <2>2, OneSock, Zenon
<1>3. ASSUME NEW rc, Shaken(r, rc), req[r].pc \in {"open", "wait"}, ~req[r].up
      PROVE  Stepped /\ Standing
  <2> DEFINE again == ~req[r].fresh \/ (rc = -1 /\ req[r].tries + 1 < MaxTries)
             x == IF again THEN "new" ELSE "done"
             e == IF again THEN "none" ELSE "message"
             n == IF req[r].fresh THEN req[r].tries + 1 ELSE 0
             t == Tidy([req[r] EXCEPT !.pc = x, !.end = e, !.tries = n, !.link = Entry,
                                      !.up = FALSE, !.sent = FALSE, !.reply = "none"])
  <2>1. req' = [req EXCEPT ![r] = t]
    BY <1>3, Zenon DEF Shaken
  <2>2. x \in {"new", "done"} /\ e \in {"none", "message"} /\ n \in Nat
    BY <1>0 DEF Socks
  <2> HIDE DEF x, e, n
  <2>3. Goes(req[r], t) /\ Keeps(req[r], t) /\ Stays(req[r], t)
    BY <1>0, <1>3, <2>2, ShakeStep, ZenonT(30)
  <2> HIDE DEF t
  <2> QED
    BY <1>0, <2>1, <2>3, OneSock, Zenon
<1>4. ASSUME Connect(r) PROVE Stepped /\ Standing /\ urls' \subseteq Links
  <2> DEFINE t == [req[r] EXCEPT !.pc = "greet", !.up = TRUE]
  <2>1. req[r].pc = "open" /\ req' = [req EXCEPT ![r] = t] /\ urls' = urls
    BY <1>0, <1>4, Zenon DEF Connect
  <2>2. Goes(req[r], t) /\ Keeps(req[r], t) /\ Stays(req[r], t)
    BY <1>0, <2>1, PlainStep, Zenon
  <2> HIDE DEF t
  <2> QED
    BY <1>0, <2>1, <2>2, OneSock, Zenon
<1>5. ASSUME NotThere(r) PROVE Stepped /\ Standing /\ urls' \subseteq Links
  BY <1>0, <1>3, <1>5 DEF NotThere, Good
<1>6. ASSUME Greet(r) PROVE Stepped /\ Standing /\ urls' \subseteq Links
  <2>1. CASE req[r].up
    <3> DEFINE t == [req[r] EXCEPT !.pc = "wait", !.sent = TRUE]
    <3>1. req[r].pc = "greet" /\ req' = [req EXCEPT ![r] = t] /\ urls' = urls
      BY <1>0, <1>6, <2>1, Zenon DEF Greet
    <3>2. Goes(req[r], t) /\ Keeps(req[r], t) /\ Stays(req[r], t)
      BY <1>0, <3>1, PlainStep, Zenon
    <3> HIDE DEF t
    <3> QED
      BY <1>0, <3>1, <3>2, OneSock, Zenon
  <2>2. CASE ~req[r].up
    BY <1>0, <1>2, <1>6, <2>2 DEF Greet, Open
  <2> QED
    BY <2>1, <2>2
<1>7. ASSUME Answer(r) PROVE Stepped /\ Standing /\ urls' \subseteq Links
  <2>1. CASE req[r].reply = "OK"
    <3> DEFINE t == [req[r] EXCEPT !.pc = "ask"]
    <3>1. req[r].pc = "wait" /\ req' = [req EXCEPT ![r] = t] /\ urls' = urls
      BY <1>0, <1>7, <2>1 DEF Answer
    <3>2. Goes(req[r], t) /\ Keeps(req[r], t) /\ Stays(req[r], t)
      BY <1>0, <3>1, PlainStep, Zenon
    <3> HIDE DEF t
    <3> QED
      BY <1>0, <3>1, <3>2, OneSock, Zenon
  <2>2. CASE req[r].reply # "OK"
    <3>1. PICK rc : Shaken(r, rc)
      BY <1>7, <2>2 DEF Answer
    <3>2. req[r].pc = "wait" /\ urls' = urls /\ (req[r].reply # "none" \/ ~req[r].up)
      BY <1>7 DEF Answer
    <3>3. ~req[r].up
      BY <1>0, <2>2, <3>2 DEF Good, Socks
    <3> QED
      BY <1>0, <1>3, <3>1, <3>2, <3>3
  <2> QED
    BY <2>1, <2>2
<1>8. ASSUME Ask(r) PROVE Stepped /\ Standing /\ urls' \subseteq Links
  <2>1. CASE req[r].up
    <3> DEFINE t == [req[r] EXCEPT !.pc = "page", !.asked = TRUE]
    <3>1. req[r].pc = "ask" /\ req' = [req EXCEPT ![r] = t] /\ urls' = urls
      BY <1>0, <1>8, <2>1, Zenon DEF Ask
    <3>2. Goes(req[r], t) /\ Keeps(req[r], t) /\ Stays(req[r], t)
      BY <1>0, <3>1, PlainStep, Zenon
    <3> HIDE DEF t
    <3> QED
      BY <1>0, <3>1, <3>2, OneSock, Zenon
  <2>2. CASE ~req[r].up
    BY <1>0, <1>2, <1>8, <2>2 DEF Ask, Open
  <2> QED
    BY <2>1, <2>2
<1>9. ASSUME TakePage(r) PROVE Stepped /\ Standing /\ urls' \subseteq Links
  <2>1. req[r].link \in Links
    BY <1>0 DEF Socks
  <2> QED
    BY <1>0, <1>2, <1>9, <2>1 DEF TakePage
<1>10. ASSUME CutPage(r) PROVE Stepped /\ Standing /\ urls' \subseteq Links
  BY <1>0, <1>2, <1>10 DEF CutPage
<1>11. ASSUME AskDaemon(r) PROVE Stepped /\ Standing /\ urls' \subseteq Links
  <2>1. CASE daemon
    <3> DEFINE t == [req[r] EXCEPT !.pc = "fork"]
    <3>1. req[r].pc = "new" /\ req' = [req EXCEPT ![r] = t] /\ urls' = urls
      BY <1>0, <1>11, <2>1 DEF AskDaemon
    <3>2. Goes(req[r], t) /\ Keeps(req[r], t) /\ Stays(req[r], t)
      BY <1>0, <3>1, PlainStep, Zenon
    <3> HIDE DEF t
    <3> QED
      BY <1>0, <3>1, <3>2, OneSock, Zenon
  <2>2. CASE ~daemon
    BY <1>0, <1>2, <1>11, <2>2 DEF AskDaemon, Open
  <2> QED
    BY <2>1, <2>2
<1>12. ASSUME DaemonGone(r) PROVE Stepped /\ Standing /\ urls' \subseteq Links
  BY <1>0, <1>2, <1>12 DEF DaemonGone, Open
<1>13. ASSUME SockDies(r) PROVE Stepped /\ Standing /\ urls' \subseteq Links
  BY <1>0, <1>2, <1>13 DEF SockDies
<1> QED
  BY <1>1, <1>4, <1>5, <1>6, <1>7, <1>8, <1>9, <1>10, <1>11, <1>12, <1>13 DEF Swebsock

-----------------------------------------------------------------------------
(* What a step of swebsock or swebd means to the subservers.               *)

\* Who is dead stays dead.
LEMMA StaysDead ==
  ASSUME \A q \in Reqs : Good(req[q]) /\ Goes(req[q], req'[q])
  PROVE  \A r \in Reqs : Excused(r) => Excused(r)'
<1>1. \A q \in Reqs : Dead(q) => Dead(q)'
  BY DEF Dead, Good, Goes
<1> QED
  BY <1>1 DEF Excused

\* What a subserver knows stays true while its request stays open.
LEMMA OwnKept ==
  ASSUME IInv, \A q \in Reqs : Goes(req[q], req'[q]), NEW p \in Pids,
         sub'[p].st = sub[p].st, sub'[p].cd = sub[p].cd, sub'[p].user = sub[p].user,
         sub'[p].seen = sub[p].seen, sub'[p].first = sub[p].first, sub'[p].last = sub[p].last,
         \A r \in Reqs : sub[p].cd = r => Opens(req[r], req'[r])
  PROVE  Own(p)'
<1>1. Own(p)
  BY DEF IInv
<1>2. sub[p].last \in Reqs => req'[sub[p].last].asked
  BY <1>1 DEF Own, Goes
<1>3. ASSUME sub[p].st \in {"page", "send", "ack"}
      PROVE  sub[p].cd \in Reqs /\ req'[sub[p].cd].user = sub[p].user
  <2>1. sub[p].cd \in Reqs /\ Open(req[sub[p].cd]) /\ req[sub[p].cd].user = sub[p].user
    BY <1>1, <1>3 DEF IInv, Own, Connected, Linked
  <2> QED
    BY <2>1 DEF Opens
<1>4. ASSUME sub[p].st = "send" PROVE req'[sub[p].cd].pc \in {"page", "done"}
  <2>1. sub[p].cd \in Reqs /\ req[sub[p].cd].pc \in {"page", "done"}
    BY <1>1, <1>4 DEF Own
  <2> QED
    BY <2>1 DEF Goes
<1> QED
  BY <1>1, <1>2, <1>3, <1>4 DEF Own

Born == [NoSub EXCEPT !.st = "init"]

\* A new subserver.
LEMMA Newborn ==
  /\ Born \in Subs /\ Born.cd = NoReq /\ Born.queue = <<>> /\ Born.seen = {}
  /\ Born.st = "init" /\ Born.last = NoReq
  /\ Once(<<>>) /\ \A r : ~In(r, <<>>)
<1>1. NoSub \in Subs
  BY DEF NoSub, Subs, States, Ids
<1>2. Born \in Subs
  BY <1>1 DEF Subs, States, Born
<1>3. /\ Born.cd = NoReq /\ Born.queue = <<>> /\ Born.seen = {}
      /\ Born.st = "init" /\ Born.last = NoReq
  BY DEF Born, NoSub
<1>4. Once(<<>>) /\ \A r : ~In(r, <<>>)
  BY DEF Once, In
<1> QED
  BY <1>2, <1>3, <1>4

\* Nothing, if subservers stay as they are or are new.
LEMMA OutsideSteps ==
  ASSUME IInv, Stepped,
         \A p \in Pids : sub'[p] = sub[p] \/ sub'[p] = Born
  PROVE  /\ Apart' /\ Connected' /\ Counted'
         /\ \A r \in Reqs : Good(req[r])'
         /\ \A p \in Pids : Own(p)'
<1> USE Newborn, SessionAssumption
<1> HIDE DEF Born
<1>1. \A q \in Reqs : Good(req[q]) /\ Goes(req[q], req'[q]) /\ Keeps(req[q], req'[q])
  BY DEF IInv, Stepped
<1>2. \A r \in Reqs : Good(req[r])'
  BY <1>1 DEF Goes
<1>3. \A p \in Pids, r \in Reqs : Linked(p, r)' => Linked(p, r)
  BY DEF Linked
<1>4. Apart'
  <2>1. Apart
    BY DEF IInv
  <2>2. \A p \in Pids : Once(sub'[p].queue) /\ ~In(sub'[p].cd, sub'[p].queue)
    BY <2>1 DEF Apart
  <2> QED
    BY <1>3, <2>1, <2>2 DEF Apart
<1>5. Connected'
  BY <1>1, <1>3 DEF IInv, Connected, Keeps, Opens
<1>6. Counted'
  <2>1. \A r \in Reqs : req'[r].runs = req[r].runs /\ (Excused(r) => Excused(r)')
    BY <1>1, StaysDead DEF Keeps
  <2>2. \A p \in Pids, r \in Reqs : Ahead(p, r)' => Ahead(p, r)
    BY DEF Ahead
  <2> QED
    BY <2>1, <2>2, Zenon DEF IInv, Counted
<1>7. ASSUME NEW p \in Pids PROVE Own(p)'
  <2>1. CASE sub'[p] = sub[p]
    BY <1>1, <2>1, OwnKept DEF Keeps
  <2>2. CASE sub'[p] = Born
    BY <2>2, Zenon DEF Own
  <2> QED
    BY <2>1, <2>2
<1> QED
  BY <1>2, <1>4, <1>5, <1>6, <1>7

\* swebsock, but for the connection.
LEMMA SockInv ==
  ASSUME IInv, NEW r \in Reqs, ~Connect(r),
         \/ \E u \in Who[r], link \in urls \cup {Entry} : Start(r, u, link)
         \/ Swebsock(r)
         \/ SockDies(r)
  PROVE  IInv'
<1>1. Stepped /\ Standing /\ urls' \subseteq Links
  BY SockSteps, Zenon DEF IInv
<1>2. sub' = sub
  BY Zenon DEF Start, Swebsock, SockDies, NotThere, Greet, Answer, Ask, TakePage, CutPage,
         AskDaemon, DaemonGone
<1>3. /\ Apart' /\ Connected' /\ Counted'
      /\ \A q \in Reqs : Good(req[q])'
      /\ \A p \in Pids : Own(p)'
  BY <1>1, <1>2, OutsideSteps
<1>4. line' = line \/ (req[r].pc = "new" /\ req'[r].pc = "fork" /\ line' = Append(line, r))
  <2>1. CASE AskDaemon(r)
    BY <2>1, Zenon DEF AskDaemon, IInv, Types, Socks
  <2>2. CASE ~AskDaemon(r)
    BY <2>2, Zenon DEF Start, Swebsock, SockDies, NotThere, Greet, Answer, Ask, TakePage, CutPage,
                DaemonGone
  <2> QED
    BY <2>1, <2>2
<1>5. line \in Seq(Reqs) /\ Lined
  BY DEF IInv, Types
<1>6. line' \in Seq(Reqs) /\ Lined'
  <2>1. CASE line' = line
    BY <1>1, <1>5, <2>1 DEF Lined, Standing, Stays
  <2>2. CASE req[r].pc = "new" /\ req'[r].pc = "fork" /\ line' = Append(line, r)
    <3>1. ~In(r, line)
      BY <1>5, <2>2 DEF Lined
    <3>2. /\ line' \in Seq(Reqs) /\ Once(line')
          /\ \A x : In(x, line') => In(x, line) \/ x = r
      BY <1>5, <2>2, <3>1, AtTheEnd DEF Lined
    <3> QED
      BY <1>1, <1>5, <2>2, <3>2 DEF Lined, Standing, Stays
  <2> QED
    BY <1>4, <2>1, <2>2
<1> QED
  BY <1>1, <1>2, <1>3, <1>6, Zenon DEF IInv, Types, Stepped

\* The connection: the request is in the backlog.
LEMMA ConnectInv ==
  ASSUME IInv, NEW r \in Reqs, Connect(r)
  PROVE  IInv'
<1> DEFINE p == req[r].link[1]
<1>0. Types /\ sub \in [Pids -> Subs] /\ req \in [Reqs -> Socks] /\ \A q \in Reqs : Good(req[q])
  BY DEF IInv, Types
<1>1. /\ p \in Pids /\ req[r].pc = "open"
      /\ sub' = [sub EXCEPT ![p].queue = Append(sub[p].queue, r)]
      /\ line' = line /\ urls' = urls
  BY DEF Connect, Listening
<1>2. Stepped /\ Standing
  BY <1>0, SockSteps DEF Swebsock
<1>3. Open(req'[r])
  <2> DEFINE t == [req[r] EXCEPT !.pc = "greet", !.up = TRUE]
  <2>1. req' = [req EXCEPT ![r] = t]
    BY <1>0, Zenon DEF Connect
  <2>2. req[r] \in Socks /\ Good(req[r])
    BY <1>0
  <2>3. Open(t)
    BY <1>1, <2>2, PlainStep, Zenon
  <2> HIDE DEF t
  <2> QED
    BY <1>0, <2>1, <2>3
<1> HIDE DEF p
<1>4. \A q \in Reqs : Goes(req[q], req'[q]) /\ Keeps(req[q], req'[q])
  BY <1>2 DEF Stepped
<1>5. \A q \in Reqs : Good(req[q])'
  BY <1>4 DEF Goes
<1>6. sub[p] \in Subs /\ sub[p].queue \in Seq(Reqs)
  BY <1>0, <1>1 DEF Subs
<1>7. \A q \in Pids : ~Linked(q, r)
  BY <1>1 DEF IInv, Connected, Open
<1>8. /\ Append(sub[p].queue, r) \in Seq(Reqs) /\ Once(Append(sub[p].queue, r))
      /\ \A x : In(x, Append(sub[p].queue, r)) <=> In(x, sub[p].queue) \/ x = r
  BY <1>1, <1>6, <1>7, AtTheEnd DEF IInv, Apart, Linked
<1>9. /\ sub' \in [Pids -> Subs]
      /\ \A q \in Pids \ {p} : sub'[q] = sub[q]
      /\ sub'[p].queue = Append(sub[p].queue, r)
      /\ sub'[p].st = sub[p].st /\ sub'[p].cd = sub[p].cd /\ sub'[p].user = sub[p].user
      /\ sub'[p].seen = sub[p].seen /\ sub'[p].first = sub[p].first /\ sub'[p].last = sub[p].last
  BY <1>0, <1>1, <1>6, <1>8, Zenon DEF Subs
<1>10. \A q \in Pids, x \in Reqs : Linked(q, x)' => Linked(q, x) \/ (q = p /\ x = r)
  BY <1>8, <1>9, Zenon DEF Linked
<1>11. Apart'
  <2>0. \A q \in Pids : /\ Once(sub[q].queue) /\ ~In(sub[q].cd, sub[q].queue)
                        /\ sub[q].cd # r
    BY <1>7 DEF IInv, Apart, Linked
  <2>1. \A q \in Pids : Once(sub'[q].queue) /\ ~In(sub'[q].cd, sub'[q].queue)
    BY <1>8, <1>9, <2>0, Zenon
  <2> QED
    BY <1>7, <1>10, <2>1 DEF IInv, Apart
<1>12. Connected'
  BY <1>3, <1>4, <1>10 DEF IInv, Connected, Keeps, Opens
<1>13. Counted'
  <2>1. \A x \in Reqs : req'[x].runs = req[x].runs /\ (Excused(x) => Excused(x)')
    BY <1>0, <1>4, StaysDead DEF Keeps
  <2>2. req[r].runs = 0
    <3>1. req[r].runs \in Nat /\ Good(req[r])
      BY <1>0 DEF Socks
    <3> QED
      BY <1>1, <3>1 DEF Good
  <2>3. \A q \in Pids, x \in Reqs : Ahead(q, x)' => Ahead(q, x) \/ x = r
    BY <1>8, <1>9, Zenon DEF Ahead
  <2> QED
    BY <2>1, <2>2, <2>3 DEF IInv, Counted
<1>14. ASSUME NEW q \in Pids PROVE Own(q)'
  <2>0. /\ sub'[q].st = sub[q].st /\ sub'[q].cd = sub[q].cd /\ sub'[q].user = sub[q].user
        /\ sub'[q].seen = sub[q].seen /\ sub'[q].first = sub[q].first /\ sub'[q].last = sub[q].last
    BY <1>9
  <2> QED
    BY <1>4, <2>0, OwnKept DEF Keeps
<1>15. Types' /\ Lined'
  BY <1>0, <1>1, <1>2, <1>9 DEF IInv, Types, Stepped, Lined, Standing, Stays
<1> QED
  BY <1>5, <1>11, <1>12, <1>13, <1>14, <1>15 DEF IInv

\* swebd answers the first in its line.
LEMMA ReportStep ==
  ASSUME IInv, line # <<>>, NEW r, r = Head(line), NEW rec, Reported(r, rec),
         r \in Reqs /\ req[r].pc = "fork" =>
           Goes(req[r], Tidy(rec)) /\ Keeps(req[r], Tidy(rec))
  PROVE  Stepped /\ line' \in Seq(Reqs) /\ Lined'
<1>1. line \in Seq(Reqs) /\ req \in [Reqs -> Socks] /\ Lined /\ \A q \in Reqs : Good(req[q])
  BY DEF IInv, Types
<1>2. /\ r \in Reqs /\ In(r, line) /\ Tail(line) \in Seq(Reqs)
      /\ \A x : In(x, Tail(line)) => In(x, line)
      /\ Once(Tail(line)) /\ ~In(r, Tail(line))
  BY <1>1, FromTheHead DEF Lined
<1>3. CASE req[r].pc = "done"
  <2>1. req' = req /\ line' = <<>>
    BY <1>3 DEF Reported
  <2>2. \A q \in Reqs : req[q] \in Socks /\ Good(req[q])
    BY <1>1
  <2>3. Stepped
    BY <1>1, <2>1, <2>2, NoStep DEF Stepped
  <2> QED
    BY <2>1, <2>3, Newborn DEF Lined
<1>4. CASE req[r].pc # "done"
  <2>1. req[r].pc = "fork"
    BY <1>1, <1>2, <1>4 DEF Lined
  <2> DEFINE t == Tidy(rec)
  <2>2. req' = [req EXCEPT ![r] = t] /\ line' = Tail(line)
    BY <1>4 DEF Reported
  <2>3. Goes(req[r], t) /\ Keeps(req[r], t)
    BY <1>2, <2>1
  <2> HIDE DEF t
  <2>4. Stepped
    BY <1>1, <1>2, <2>2, <2>3, OneSock, Zenon
  <2>5. \A q \in Reqs : In(q, line') => req'[q] = req[q] /\ In(q, line)
    BY <1>1, <1>2, <2>2
  <2> QED
    BY <1>1, <1>2, <2>2, <2>4, <2>5 DEF Lined
<1> QED
  BY <1>3, <1>4

\* swebd.
LEMMA DaemonInv ==
  ASSUME IInv, Swebd
  PROVE  IInv'
<1>0. sub \in [Pids -> Subs] /\ req \in [Reqs -> Socks] /\ urls \subseteq Links
      /\ \A q \in Reqs : req[q] \in Socks /\ Good(req[q])
  BY DEF IInv, Types
<1>1. SUFFICES /\ Stepped /\ line' \in Seq(Reqs) /\ Lined' /\ urls' = urls
               /\ sub' \in [Pids -> Subs]
               /\ \A p \in Pids : sub'[p] = sub[p] \/ sub'[p] = Born
  BY <1>0, OutsideSteps DEF IInv, Types, Stepped
<1> DEFINE r == Head(line)
<1>2. ASSUME r \in Reqs, req[r].pc = "fork"
      PROVE  LET t == Tidy([req[r] EXCEPT !.pc = "done", !.end = "message"]) IN
             Goes(req[r], t) /\ Keeps(req[r], t)
  <2>1. ~Open(req[r])
    BY <1>2 DEF Open
  <2>2. "message" \in {"page", "message", "nothing", "killed"}
    OBVIOUS
  <2>3. req[r] \in Socks /\ Good(req[r]) /\ req[r].pc \notin {"unborn", "done"}
    BY <1>0, <1>2
  <2> QED
    BY <2>1, <2>2, <2>3, EndStep, Zenon
<1>3. CASE RobotRefused
  <2>1. /\ line # <<>> /\ sub' = sub /\ urls' = urls
        /\ Reported(r, [req[r] EXCEPT !.pc = "done", !.end = "message"])
    BY <1>3 DEF RobotRefused
  <2> QED
    BY <1>0, <1>2, <2>1, ReportStep
<1>4. CASE ForkFails
  <2>1. /\ line # <<>> /\ sub' = sub /\ urls' = urls
        /\ Reported(r, [req[r] EXCEPT !.pc = "done", !.end = "message"])
    BY <1>4 DEF ForkFails
  <2> QED
    BY <1>0, <1>2, <2>1, ReportStep
<1>5. ASSUME NEW p \in Pids, Fork(p)
      PROVE  /\ Stepped /\ line' \in Seq(Reqs) /\ Lined' /\ urls' = urls
             /\ sub' \in [Pids -> Subs]
             /\ \A q \in Pids : sub'[q] = sub[q] \/ sub'[q] = Born
  <2> DEFINE rec == [req[r] EXCEPT !.pc = "open", !.fresh = TRUE, !.link = <<p, TRUE>>]
  <2>1. /\ line # <<>> /\ sub' = [sub EXCEPT ![p] = Born] /\ urls' = urls
        /\ Reported(r, rec)
    BY <1>5, Zenon DEF Fork, Born
  <2>2. ASSUME r \in Reqs, req[r].pc = "fork"
        PROVE  Goes(req[r], Tidy(rec)) /\ Keeps(req[r], Tidy(rec))
    BY <1>0, <2>2, PlainStep, Zenon
  <2> HIDE DEF rec
  <2>3. Stepped /\ line' \in Seq(Reqs) /\ Lined'
    BY <2>1, <2>2, ReportStep
  <2>4. sub' \in [Pids -> Subs] /\ \A q \in Pids : sub'[q] = sub[q] \/ sub'[q] = Born
    BY <1>0, <2>1, Newborn
  <2> QED
    BY <2>1, <2>3, <2>4
<1> QED
  BY <1>3, <1>4, <1>5 DEF Swebd

-----------------------------------------------------------------------------
(* The steps of a subserver.                                               *)

\* Subserver p changes, has no new connection, and touches only its own.
LEMMA InsideStep ==
  ASSUME IInv, NEW p \in Pids,
         sub' \in [Pids -> Subs], \A q \in Pids \ {p} : sub'[q] = sub[q],
         req' \in [Reqs -> Socks], line' = line, urls' \subseteq Links,
         \A r \in Reqs : Goes(req[r], req'[r]) /\ Stays(req[r], req'[r]),
         \A r \in Reqs : ~Linked(p, r) => Opens(req[r], req'[r]),
         \A r \in Reqs : Linked(p, r)' => Linked(p, r) /\ Open(req'[r]),
         Once(sub'[p].queue), ~In(sub'[p].cd, sub'[p].queue),
         Own(p)', Counted'
  PROVE  IInv'
<1>1. Types' /\ Lined' /\ \A r \in Reqs : Good(req[r])'
  BY Zenon DEF IInv, Types, Lined, Stays, Goes
<1>2. \A q \in Pids, r \in Reqs : Linked(q, r)' => Linked(q, r)
  BY DEF Linked
<1>3. Apart'
  BY <1>2 DEF IInv, Apart
<1>4. ASSUME NEW q \in Pids, q # p, NEW r \in Reqs, Linked(q, r)
      PROVE  Open(req[r]) /\ Opens(req[r], req'[r])
  <2>1. ~Linked(p, r)
    BY <1>4 DEF IInv, Apart
  <2> QED
    BY <1>4, <2>1 DEF IInv, Connected
<1>5. Connected'
  BY <1>2, <1>4 DEF Connected, Opens
<1>6. ASSUME NEW q \in Pids PROVE Own(q)'
  <2>1. CASE q # p
    <3>1. \A r \in Reqs : sub[q].cd = r => Opens(req[r], req'[r])
      BY <1>4, <2>1 DEF Linked
    <3> QED
      BY <2>1, <3>1, OwnKept
  <2> QED
    BY <2>1
<1> QED
  BY <1>1, <1>3, <1>5, <1>6 DEF IInv

\* Nothing is run.
LEMMA NoRun ==
  ASSUME IInv, \A r \in Reqs : Goes(req[r], req'[r]) /\ req'[r].runs = req[r].runs,
         \A p \in Pids, r \in Reqs : Ahead(p, r)' => Ahead(p, r)
  PROVE  Counted'
<1>1. \A r \in Reqs : Excused(r) => Excused(r)'
  BY StaysDead DEF IInv
<1> QED
  BY <1>1 DEF IInv, Counted

\* The subserver is idle, or shuts down.
LEMMA QuietInv ==
  ASSUME IInv, NEW p \in Pids, NEW x \in {"idle", "down"},
         sub' = [sub EXCEPT ![p].st = x], UNCHANGED <<req, line, urls>>
  PROVE  IInv'
<1>0. /\ sub \in [Pids -> Subs] /\ sub[p] \in Subs /\ req \in [Reqs -> Socks] /\ urls \subseteq Links
      /\ \A r \in Reqs : req[r] \in Socks /\ Good(req[r])
  BY DEF IInv, Types
<1>1. /\ sub' \in [Pids -> Subs]
      /\ \A q \in Pids \ {p} : sub'[q] = sub[q]
      /\ sub'[p].st = x /\ sub'[p].queue = sub[p].queue /\ sub'[p].cd = sub[p].cd
      /\ sub'[p].user = sub[p].user /\ sub'[p].seen = sub[p].seen
      /\ sub'[p].first = sub[p].first /\ sub'[p].last = sub[p].last
  BY <1>0, Zenon DEF Subs, States
<1>2. \A r \in Reqs : Goes(req[r], req'[r]) /\ Stays(req[r], req'[r]) /\ Keeps(req[r], req'[r])
  BY <1>0, NoStep
<1>3. Counted'
  BY <1>1, <1>2, NoRun DEF Ahead, Keeps
<1>4. Own(p)'
  BY <1>1 DEF IInv, Own
<1>5. \A r \in Reqs : Linked(p, r)' => Linked(p, r) /\ Open(req'[r])
  BY <1>1 DEF IInv, Connected, Linked
<1> QED
  BY <1>0, <1>1, <1>2, <1>3, <1>4, <1>5, InsideStep DEF IInv, Apart, Keeps

\* The first of the backlog is accepted.
LEMMA AcceptInv ==
  ASSUME IInv, NEW p \in Pids, Accept(p)
  PROVE  IInv'
<1> DEFINE r == Head(sub[p].queue)
<1>0. /\ sub \in [Pids -> Subs] /\ sub[p] \in Subs /\ req \in [Reqs -> Socks] /\ urls \subseteq Links
      /\ \A q \in Reqs : req[q] \in Socks /\ Good(req[q])
      /\ sub[p].queue \in Seq(Reqs) /\ Once(sub[p].queue)
  BY Zenon DEF IInv, Types, Apart, Subs
<1>1. /\ sub[p].queue # <<>>
      /\ sub' = [sub EXCEPT ![p].st = "hand", ![p].cd = r, ![p].queue = Tail(sub[p].queue)]
      /\ UNCHANGED <<req, line, urls>>
  BY DEF Accept
<1>2. /\ r \in Reqs /\ Tail(sub[p].queue) \in Seq(Reqs) /\ In(r, sub[p].queue)
      /\ \A y : In(y, Tail(sub[p].queue)) => In(y, sub[p].queue)
      /\ Once(Tail(sub[p].queue)) /\ ~In(r, Tail(sub[p].queue))
  BY <1>0, <1>1, FromTheHead
<1> HIDE DEF r
<1>3. /\ sub' \in [Pids -> Subs]
      /\ \A q \in Pids \ {p} : sub'[q] = sub[q]
      /\ sub'[p].st = "hand" /\ sub'[p].queue = Tail(sub[p].queue) /\ sub'[p].cd = r
      /\ sub'[p].user = sub[p].user /\ sub'[p].seen = sub[p].seen
      /\ sub'[p].first = sub[p].first /\ sub'[p].last = sub[p].last
  <2> DEFINE u == [sub[p] EXCEPT !.st = "hand", !.cd = r, !.queue = Tail(sub[p].queue)]
  <2>1. u \in Subs
    BY <1>0, <1>2, Zenon DEF Subs, States
  <2>2. sub' = [sub EXCEPT ![p] = u]
    BY <1>0, <1>1, Zenon
  <2>3. /\ u.st = "hand" /\ u.queue = Tail(sub[p].queue) /\ u.cd = r
        /\ u.user = sub[p].user /\ u.seen = sub[p].seen
        /\ u.first = sub[p].first /\ u.last = sub[p].last
    BY <1>0 DEF Subs
  <2> HIDE DEF u
  <2> QED
    BY <1>0, <2>1, <2>2, <2>3
<1>4. \A q \in Reqs : Goes(req[q], req'[q]) /\ Stays(req[q], req'[q]) /\ Keeps(req[q], req'[q])
  BY <1>0, <1>1, NoStep
<1>5. Counted'
  BY <1>2, <1>3, <1>4, NoRun DEF Ahead, Keeps
<1>6. Own(p)'
  BY <1>1, <1>2, <1>3 DEF IInv, Own
<1>7. \A q \in Reqs : Linked(p, q)' => Linked(p, q) /\ Open(req'[q])
  BY <1>1, <1>2, <1>3 DEF IInv, Connected, Linked
<1> QED
  BY <1>0, <1>1, <1>2, <1>3, <1>4, <1>5, <1>6, <1>7, InsideStep DEF Keeps

\* The greeting is answered.
LEMMA JudgedStep ==
  ASSUME NEW s \in Socks, Good(s), NEW ok \in BOOLEAN, NEW a \in {"OK", "NO"}, Open(s), s.sent \/ s.pc = "done",
         a = "NO" <=> ~ok
  PROVE  LET t == Tidy([s EXCEPT !.reply = a, !.up = ok]) IN
         /\ Goes(s, t) /\ Stays(s, t) /\ t.runs = s.runs
         /\ ok => Open(t) /\ t.user = s.user
<1> DEFINE u == [s EXCEPT !.reply = a, !.up = ok]
           t == Tidy(u)
<1>1. u \in Socks
  BY Zenon DEF Socks
<1>2. /\ u.pc = s.pc /\ u.end = s.end /\ u.runs = s.runs /\ u.asked = s.asked /\ u.up = ok
      /\ u.reply = a /\ u.user = s.user
  BY DEF Socks
<1> HIDE DEF u
<1>3. /\ t \in Socks
      /\ t.pc = s.pc /\ t.end = s.end /\ t.runs = s.runs /\ t.asked = s.asked /\ t.up = ok
      /\ t.reply \in {"none", a} /\ (ok => t.user = s.user)
  BY <1>1, <1>2, TidyKeeps
<1> HIDE DEF t
<1>4. s.pc \in {"wait", "ask", "page", "done"}
  BY DEF Open, Good
<1>5. Good(t)
  BY <1>3, <1>4 DEF Good
<1>6. Goes(s, t) /\ Stays(s, t) /\ t.runs = s.runs /\ (ok => Open(t) /\ t.user = s.user)
  BY <1>3, <1>5 DEF Goes, Stays, Open
<1> QED
  BY <1>6 DEF t, u

\* The page goes out.
LEMMA PagedStep ==
  ASSUME NEW s \in Socks, Good(s), s.pc \in {"page", "done"}
  PROVE  LET t == [s EXCEPT !.reply = "page"] IN
         Goes(s, t) /\ Stays(s, t) /\ Keeps(s, t)
<1> DEFINE t == [s EXCEPT !.reply = "page"]
<1>1. t \in Socks
  BY DEF Socks
<1>2. /\ t.pc = s.pc /\ t.end = s.end /\ t.runs = s.runs /\ t.asked = s.asked /\ t.up = s.up
      /\ t.reply = "page" /\ t.user = s.user
  BY DEF Socks
<1> HIDE DEF t
<1>3. Good(t)
  BY <1>2 DEF Good
<1>4. Goes(s, t) /\ Stays(s, t) /\ Keeps(s, t)
  BY <1>1, <1>2, <1>3 DEF Goes, Stays, Keeps, Opens, Open
<1> QED
  BY <1>4 DEF t

\* The connection is closed.
LEMMA ClosedStep ==
  ASSUME NEW s \in Socks, Good(s), s.pc = "done"
  PROVE  LET t == Tidy([s EXCEPT !.up = FALSE]) IN
         Goes(s, t) /\ Stays(s, t) /\ t.runs = s.runs
<1> DEFINE u == [s EXCEPT !.up = FALSE]
           t == Tidy(u)
<1>1. u \in Socks
  BY Zenon DEF Socks
<1>2. /\ u.pc = s.pc /\ u.end = s.end /\ u.runs = s.runs /\ u.asked = s.asked /\ u.up = FALSE
  BY DEF Socks
<1> HIDE DEF u
<1>3. /\ t \in Socks
      /\ t.pc = "done" /\ t.end = s.end /\ t.runs = s.runs /\ t.asked = s.asked
      /\ t.up = FALSE
  BY <1>1, <1>2, TidyKeeps
<1> HIDE DEF t
<1>4. Good(t)
  BY <1>3 DEF Good
<1>5. Goes(s, t) /\ Stays(s, t) /\ t.runs = s.runs
  BY <1>3, <1>4 DEF Goes, Stays
<1> QED
  BY <1>5 DEF t, u

\* The subserver is no more.
LEMMA GoneStep ==
  ASSUME NEW s \in Socks, Good(s), NEW b \in BOOLEAN, NEW l \in Links
  PROVE  LET t == Tidy([s EXCEPT !.up = s.up /\ b, !.link = l]) IN
         Goes(s, t) /\ Stays(s, t) /\ t.runs = s.runs /\ (b => Opens(s, t))
<1> DEFINE u == [s EXCEPT !.up = s.up /\ b, !.link = l]
           t == Tidy(u)
<1>0. (s.up /\ b) \in BOOLEAN
  OBVIOUS
<1>1. u \in Socks
  BY <1>0, Zenon DEF Socks
<1>2. /\ u.pc = s.pc /\ u.end = s.end /\ u.runs = s.runs /\ u.asked = s.asked
      /\ u.up = (s.up /\ b) /\ u.reply = s.reply /\ u.user = s.user /\ u.sent = s.sent
  BY DEF Socks
<1> HIDE DEF u
<1>3. /\ t \in Socks
      /\ t.pc = s.pc /\ t.end = s.end /\ t.runs = s.runs /\ t.asked = s.asked
      /\ t.up = (s.up /\ b)
      /\ t.up => t = u
      /\ t = u \/ (s.pc = "done" /\ t.reply = "none")
  BY <1>1, <1>2, TidyKeeps
<1> HIDE DEF t
<1>4. Good(t)
  BY <1>2, <1>3, Zenon DEF Good
<1>5. Goes(s, t) /\ Stays(s, t)
  BY <1>3, <1>4 DEF Goes, Stays
<1>6. b => Opens(s, t)
  BY <1>2, <1>3, Zenon DEF Opens, Open
<1> QED
  BY <1>3, <1>5, <1>6 DEF t, u

\* The request is run.
LEMMA RunStep ==
  ASSUME NEW s \in Socks, Good(s), NEW n \in Nat, n > 0 => s.asked
  PROVE  LET t == [s EXCEPT !.runs = n] IN
         Goes(s, t) /\ Stays(s, t) /\ Opens(s, t) /\ t.runs = n /\ t.asked = s.asked
           /\ t.end = s.end /\ t.pc = s.pc
<1> DEFINE t == [s EXCEPT !.runs = n]
<1>1. t \in Socks
  BY DEF Socks
<1>2. /\ t.pc = s.pc /\ t.end = s.end /\ t.runs = n /\ t.asked = s.asked /\ t.up = s.up
      /\ t.reply = s.reply /\ t.user = s.user /\ t.sent = s.sent
  BY DEF Socks
<1> HIDE DEF t
<1>3. Good(t)
  BY <1>2 DEF Good
<1>4. Goes(s, t) /\ Stays(s, t) /\ Opens(s, t)
  BY <1>1, <1>2, <1>3 DEF Goes, Stays, Opens, Open
<1> QED
  BY <1>2, <1>4 DEF t

\* The subserver's own request, while it is busy.
LEMMA Busy ==
  ASSUME IInv, NEW p \in Pids, sub[p].st \in {"hand", "page", "send", "ack"}
  PROVE  /\ sub \in [Pids -> Subs] /\ sub[p] \in Subs
         /\ req \in [Reqs -> Socks] /\ urls \subseteq Links
         /\ \A q \in Reqs : req[q] \in Socks /\ Good(req[q])
         /\ sub[p].cd \in Reqs /\ Open(req[sub[p].cd])
         /\ Once(sub[p].queue) /\ ~In(sub[p].cd, sub[p].queue)
         /\ sub[p].queue \in Seq(Reqs)
         /\ Own(p)
<1>1. Own(p) /\ sub \in [Pids -> Subs] /\ sub[p] \in Subs /\ req \in [Reqs -> Socks]
      /\ urls \subseteq Links /\ \A q \in Reqs : Good(req[q])
  BY DEF IInv, Types
<1>2. sub[p].cd \in Reqs
  BY <1>1 DEF Own
<1>3. Open(req[sub[p].cd])
  BY <1>2 DEF IInv, Connected, Linked
<1>4. Once(sub[p].queue) /\ ~In(sub[p].cd, sub[p].queue)
  BY DEF IInv, Apart
<1>5. sub[p].queue \in Seq(Reqs)
  BY <1>1, Zenon DEF Subs
<1> QED
  BY <1>1, <1>2, <1>3, <1>4, <1>5

\* The greeting is judged.
LEMMA JudgeInv ==
  ASSUME IInv, NEW p \in Pids, Judge(p)
  PROVE  IInv'
<1> DEFINE r == sub[p].cd
           s == req[r]
           u == Adopt(p, s.user)
<1>0. sub[p].st = "hand" /\ (s.sent \/ s.pc = "done") /\ line' = line /\ urls' = urls
  BY Zenon DEF Judge
<1>1. /\ sub \in [Pids -> Subs] /\ sub[p] \in Subs
      /\ req \in [Reqs -> Socks] /\ urls \subseteq Links
      /\ \A q \in Reqs : req[q] \in Socks /\ Good(req[q])
      /\ r \in Reqs /\ s \in Socks /\ Good(s) /\ Open(s)
      /\ Once(sub[p].queue) /\ ~In(r, sub[p].queue)
      /\ Own(p)
  BY <1>0, Busy, Zenon
<1>2. PICK ok \in BOOLEAN :
        /\ ok => s.sent /\ s.user = u
        /\ sub' = [sub EXCEPT ![p].user = IF s.sent THEN u ELSE sub[p].user,
                              ![p].first = sub[p].first /\ ~ok,
                              ![p].st = IF ok THEN "page" ELSE "down",
                              ![p].cd = IF ok THEN r ELSE NoReq]
        /\ req' = [req EXCEPT ![r] = Tidy([s EXCEPT !.reply = IF ok THEN "OK" ELSE "NO",
                                                    !.up = ok])]
  <2> DEFINE right == s.sent /\ s.link[2] /\ s.user = u
  <2>1. PICK ok \in {right} \cup (IF sub[p].first \/ u = Anon THEN {} ELSE {FALSE}) :
        /\ sub' = [sub EXCEPT ![p].user = IF s.sent THEN u ELSE sub[p].user,
                              ![p].first = sub[p].first /\ ~ok,
                              ![p].st = IF ok THEN "page" ELSE "down",
                              ![p].cd = IF ok THEN r ELSE NoReq]
        /\ req' = [req EXCEPT ![r] = Tidy([s EXCEPT !.reply = IF ok THEN "OK" ELSE "NO",
                                                    !.up = ok])]
    BY <1>1, Zenon DEF Judge
  <2>2. ok \in BOOLEAN /\ (ok => right)
    BY <2>1, Zenon
  <2> QED
    BY <2>1, <2>2, Zenon
<1> DEFINE v == IF s.sent THEN u ELSE sub[p].user
           x == IF ok THEN "page" ELSE "down"
           c == IF ok THEN r ELSE NoReq
           f == sub[p].first /\ ~ok
           a == IF ok THEN "OK" ELSE "NO"
           t == Tidy([s EXCEPT !.reply = a, !.up = ok])
<1>3. u \in Ids /\ (sub[p].first \/ sub[p].user = Anon \/ u = sub[p].user)
  BY <1>1, Zenon DEF Adopt, Socks, Subs
<1>4. /\ v \in Ids /\ x \in States /\ c \in Reqs \cup {NoReq} /\ f \in BOOLEAN
      /\ sub[p].seen \subseteq {Anon, v}
  BY <1>1, <1>3, Zenon DEF Subs, States, Own
<1>5. /\ Goes(s, t) /\ Stays(s, t) /\ t.runs = s.runs
      /\ ok => Open(t) /\ t.user = s.user
  <2>1. a \in {"OK", "NO"} /\ (a = "NO" <=> ~ok)
    BY Zenon
  <2> HIDE DEF a, s
  <2> QED
    BY <1>0, <1>1, <2>1, JudgedStep, Zenon
<1>6. req' = [req EXCEPT ![r] = t] /\ t \in Socks
  BY <1>2, <1>5, Zenon DEF Goes
<1>7. sub' = [sub EXCEPT ![p].user = v, ![p].first = f, ![p].st = x, ![p].cd = c]
  BY <1>2
<1>8. /\ ok => v = s.user /\ x = "page" /\ c = r /\ ~f
      /\ ~ok => x = "down" /\ c = NoReq
      /\ f => sub[p].first
  BY <1>2
<1> HIDE DEF t, u, v, x, c, f, a
<1>9. /\ sub' \in [Pids -> Subs] /\ \A q \in Pids \ {p} : sub'[q] = sub[q]
      /\ sub'[p].user = v /\ sub'[p].first = f /\ sub'[p].st = x /\ sub'[p].cd = c
      /\ sub'[p].queue = sub[p].queue /\ sub'[p].seen = sub[p].seen /\ sub'[p].last = sub[p].last
  <2> DEFINE w == [sub[p] EXCEPT !.user = v, !.first = f, !.st = x, !.cd = c]
  <2>1. w \in Subs
    BY <1>1, <1>4, Zenon DEF Subs
  <2>2. sub' = [sub EXCEPT ![p] = w]
    BY <1>1, <1>7, Zenon
  <2>3. /\ w.user = v /\ w.first = f /\ w.st = x /\ w.cd = c
        /\ w.queue = sub[p].queue /\ w.seen = sub[p].seen /\ w.last = sub[p].last
    BY <1>1 DEF Subs
  <2> HIDE DEF w
  <2> QED
    BY <1>1, <2>1, <2>2, <2>3
<1>10. req' \in [Reqs -> Socks] /\ req'[r] = t /\ \A q \in Reqs \ {r} : req'[q] = req[q]
  BY <1>1, <1>6
<1>11. \A q \in Reqs : /\ Goes(req[q], req'[q]) /\ Stays(req[q], req'[q])
                       /\ req'[q].runs = req[q].runs
                       /\ q # r => Opens(req[q], req'[q])
  BY <1>1, <1>5, <1>10, NoStep DEF Keeps
<1> HIDE DEF r, s
<1>12. ~In(c, sub[p].queue) /\ NoReq \notin Reqs
  <2>0. sub[p].queue \in Seq(Reqs)
    BY <1>1 DEF Subs
  <2>1. \A y : In(y, sub[p].queue) => y \in Reqs
    BY <2>0 DEF In
  <2> QED
    BY <1>1, <1>8, <2>1, SessionAssumption, Zenon
<1>13. \A q \in Reqs : Linked(p, q)' => Linked(p, q) /\ Open(req'[q])
  <2>1. ASSUME NEW q \in Reqs, Linked(p, q)' PROVE Linked(p, q) /\ (q = r => ok)
    BY <1>1, <1>8, <1>9, <1>12, <2>1, Zenon DEF Linked, r
  <2>2. ASSUME NEW q \in Reqs, Linked(p, q) PROVE Open(req[q])
    BY <2>2, Zenon DEF IInv, Connected
  <2> QED
    BY <1>5, <1>10, <1>11, <2>1, <2>2, Zenon DEF Opens
<1>14. Own(p)'
  BY <1>0, <1>1, <1>4, <1>5, <1>8, <1>9, <1>10, <1>11, Zenon DEF Own, Goes
<1>15. Counted'
  <2>1. \A q \in Pids, y \in Reqs : Ahead(q, y)' => Ahead(q, y)
    BY <1>0, <1>8, <1>9, <1>12, Zenon DEF Ahead, r
  <2> QED
    BY <1>11, <2>1, NoRun, Zenon
<1>16. \A q \in Reqs : ~Linked(p, q) => Opens(req[q], req'[q])
  BY <1>11, Zenon DEF Linked, r
<1> QED
  BY <1>0, <1>1, <1>9, <1>10, <1>11, <1>12, <1>13, <1>14, <1>15, <1>16, InsideStep, Zenon

\* A request is run.
LEMMA RunInv ==
  ASSUME IInv, NEW p \in Pids, RunPage(p)
  PROVE  IInv'
<1> DEFINE r == sub[p].cd
<1>0. /\ sub[p].st = "page" /\ (req[r].asked \/ req[r].pc = "done")
      /\ line' = line /\ urls' = urls
  BY Zenon DEF RunPage
<1>1. /\ sub \in [Pids -> Subs] /\ sub[p] \in Subs
      /\ req \in [Reqs -> Socks] /\ urls \subseteq Links
      /\ \A q \in Reqs : req[q] \in Socks /\ Good(req[q])
      /\ r \in Reqs /\ Open(req[r])
      /\ Once(sub[p].queue) /\ ~In(r, sub[p].queue)
      /\ Own(p)
  BY <1>0, Busy, Zenon
<1>2. PICK w \in (IF req[r].asked THEN {r} ELSE {sub[p].last, NoReq}) :
        /\ sub' = [sub EXCEPT ![p].st = "send", ![p].last = IF w = NoReq THEN sub[p].last ELSE w,
                              ![p].seen = sub[p].seen \cup {req[r].user}]
        /\ req' = [q \in Reqs |-> [req[q] EXCEPT !.runs = IF q = w THEN req[q].runs + 1
                                                          ELSE req[q].runs]]
  BY <1>1, Zenon DEF RunPage
<1>3. req[r].user = sub[p].user /\ ~sub[p].first /\ sub[p].seen \subseteq {Anon, sub[p].user}
  BY <1>0, <1>1 DEF Own
<1>4. w \in Reqs \cup {NoReq} /\ (w \in Reqs => req[w].asked)
  <2>1. /\ sub[p].last \in Reqs \cup {NoReq} /\ NoReq \notin Reqs
        /\ sub[p].last \in Reqs => req[sub[p].last].asked
    BY <1>1, SessionAssumption, Zenon DEF Own, Subs
  <2>2. CASE req[r].asked
    BY <1>1, <1>2, <2>2
  <2>3. CASE ~req[r].asked
    BY <1>2, <2>1, <2>3
  <2> QED
    BY <2>2, <2>3, Zenon
<1>5. w \in Reqs /\ w # r => ~req[r].asked /\ Dead(r)
  BY <1>0, <1>1, <1>2 DEF Open, Dead
<1> DEFINE l == IF w = NoReq THEN sub[p].last ELSE w
           e == sub[p].seen \cup {req[r].user}
           N(q) == IF q = w THEN req[q].runs + 1 ELSE req[q].runs
<1>6. /\ l \in Reqs \cup {NoReq} /\ (l \in Reqs => req[l].asked)
      /\ e \in SUBSET Ids /\ e \subseteq {Anon, sub[p].user}
  <2>1. /\ sub[p].last \in Reqs \cup {NoReq} /\ sub[p].seen \in SUBSET Ids
        /\ sub[p].last \in Reqs => req[sub[p].last].asked
    BY <1>1, Zenon DEF Own, Subs
  <2>2. req[r].user \in Ids
    BY <1>1 DEF Socks
  <2> QED
    BY <1>3, <1>4, <2>1, <2>2, Zenon
<1>7. sub' = [sub EXCEPT ![p].st = "send", ![p].last = l, ![p].seen = e]
  BY <1>2
<1>8. ASSUME NEW q \in Reqs
      PROVE  /\ req'[q] \in Socks /\ Goes(req[q], req'[q]) /\ Stays(req[q], req'[q])
             /\ Opens(req[q], req'[q]) /\ req'[q].runs = N(q)
             /\ req'[q].asked = req[q].asked /\ req'[q].end = req[q].end /\ req'[q].pc = req[q].pc
  <2>1. req'[q] = [req[q] EXCEPT !.runs = N(q)]
    BY <1>2
  <2>2. N(q) \in Nat /\ (N(q) > 0 => req[q].asked)
    <3>1. req[q].runs \in Nat /\ (req[q].runs > 0 => req[q].asked)
      BY <1>1, Zenon DEF Good, Socks
    <3> QED
      BY <1>4, <3>1, SMTT(30)
  <2> HIDE DEF N
  <2>3. LET t == [req[q] EXCEPT !.runs = N(q)] IN
        Goes(req[q], t) /\ Stays(req[q], t) /\ Opens(req[q], t) /\ t.runs = N(q)
          /\ t.asked = req[q].asked /\ t.end = req[q].end /\ t.pc = req[q].pc
    BY <1>1, <2>2, RunStep
  <2> QED
    BY <2>1, <2>3 DEF Goes
<1>9. req' \in [Reqs -> Socks]
  BY <1>2, <1>8, Zenon
<1> HIDE DEF l, e
<1>10. /\ sub' \in [Pids -> Subs] /\ \A q \in Pids \ {p} : sub'[q] = sub[q]
       /\ sub'[p].st = "send" /\ sub'[p].last = l /\ sub'[p].seen = e
       /\ sub'[p].queue = sub[p].queue /\ sub'[p].cd = r /\ sub'[p].user = sub[p].user
       /\ sub'[p].first = sub[p].first
  <2> DEFINE u == [sub[p] EXCEPT !.st = "send", !.last = l, !.seen = e]
  <2>1. u \in Subs
    BY <1>1, <1>6, Zenon DEF Subs, States
  <2>2. sub' = [sub EXCEPT ![p] = u]
    BY <1>1, <1>7, Zenon
  <2>3. /\ u.st = "send" /\ u.last = l /\ u.seen = e
        /\ u.queue = sub[p].queue /\ u.cd = sub[p].cd /\ u.user = sub[p].user
        /\ u.first = sub[p].first
    BY <1>1, Zenon DEF Subs
  <2> HIDE DEF u
  <2> QED
    BY <1>1, <2>1, <2>2, <2>3, Zenon
<1>11. Own(p)'
  <2>1. req'[r].pc \in {"page", "done"}
    BY <1>0, <1>1, <1>8, Zenon DEF Good
  <2>2. req'[r].user = sub[p].user
    BY <1>1, <1>3, <1>8, Zenon DEF Opens
  <2>3. l \in Reqs => req'[l].asked
    BY <1>6, <1>8, Zenon
  <2> HIDE DEF r
  <2> QED
    BY <1>1, <1>3, <1>6, <1>10, <2>1, <2>2, <2>3, Zenon DEF Own
<1>12. \A q \in Reqs : Linked(p, q)' => Linked(p, q) /\ Open(req'[q])
  <2>1. \A q \in Reqs : Linked(p, q)' => Linked(p, q)
    BY <1>10 DEF Linked
  <2>2. \A q \in Reqs : Linked(p, q) => Open(req[q])
    BY DEF IInv, Connected
  <2> QED
    BY <1>8, <2>1, <2>2, Zenon DEF Opens
<1> HIDE DEF r
<1>13. Counted'
  <2>0. PICK c \in Reqs : c = r
    BY <1>1, Zenon
  <2>1. \A y \in Reqs : Excused(y) => Excused(y)'
    BY <1>1, <1>8, StaysDead, Zenon
  <2>2. \A q \in Pids, y \in Reqs : Ahead(q, y)' => Ahead(q, y) /\ y # c
    <3>1. \A y \in Reqs : Ahead(p, y)' => Ahead(p, y) /\ y # c
      BY <1>1, <1>10, <2>0, Zenon DEF Ahead
    <3>2. ASSUME NEW q \in Pids, q # p, NEW y \in Reqs, Ahead(q, y)'
          PROVE  Ahead(q, y) /\ y # c
      <4>1. Ahead(q, y) /\ Linked(q, y) /\ Linked(p, c)
        BY <1>10, <2>0, <3>2 DEF Ahead, Linked, r
      <4> QED
        BY <2>0, <3>2, <4>1, Zenon DEF IInv, Apart
    <3> QED
      BY <3>1, <3>2, Zenon
  <2>3. Ahead(p, c)
    BY <1>0, <2>0 DEF Ahead, r
  <2>4. ASSUME NEW y \in Reqs, y = w, y # c PROVE Excused(y)'
    <3>1. Dead(c)'
      BY <1>5, <1>8, <2>0, <2>4 DEF Dead
    <3> QED
      BY <2>0, <2>4, <3>1 DEF Excused
  <2>5. ASSUME NEW y \in Reqs, y # w PROVE req'[y].runs = req[y].runs
    BY <1>8, <2>5
  <2>6. req'[c].runs <= 1 \/ Excused(c)'
    <3>1. req[c].runs = 0 \/ Excused(c)
      BY <2>0, <2>3, Zenon DEF IInv, Counted
    <3>2. req'[c].runs = N(c)
      BY <1>8, <2>0, Zenon
    <3> QED
      BY <2>1, <3>1, <3>2
  <2>7. ASSUME NEW y \in Reqs
        PROVE  /\ req'[y].runs <= 1 \/ Excused(y)'
               /\ \A q \in Pids : Ahead(q, y)' => req'[y].runs = 0 \/ Excused(y)'
    <3>1. CASE y = c
      BY <2>2, <2>6, <3>1
    <3>2. CASE y # c /\ y = w
      BY <2>4, <3>2
    <3>3. CASE y # w
      BY <2>1, <2>2, <2>5, <3>3 DEF IInv, Counted
    <3> QED
      BY <3>1, <3>2, <3>3
  <2> QED
    BY <2>7 DEF Counted
<1> HIDE DEF N
<1> QED
  BY <1>0, <1>1, <1>8, <1>9, <1>10, <1>11, <1>12, <1>13, InsideStep, Zenon

\* The page goes out.
LEMMA SendInv ==
  ASSUME IInv, NEW p \in Pids, SendPage(p)
  PROVE  IInv'
<1> DEFINE r == sub[p].cd
           s == req[r]
           t == [s EXCEPT !.reply = "page"]
<1>0. /\ sub[p].st = "send" /\ line' = line /\ urls' = urls
      /\ sub' = [sub EXCEPT ![p].st = "ack"]
  BY DEF SendPage
<1>1. /\ sub \in [Pids -> Subs] /\ sub[p] \in Subs
      /\ req \in [Reqs -> Socks] /\ urls \subseteq Links
      /\ \A q \in Reqs : req[q] \in Socks /\ Good(req[q])
      /\ r \in Reqs /\ s \in Socks /\ Good(s) /\ Open(s)
      /\ Once(sub[p].queue) /\ ~In(r, sub[p].queue)
      /\ Own(p)
  BY <1>0, Busy
<1>2. Goes(s, t) /\ Stays(s, t) /\ Keeps(s, t)
  <2>1. s.pc \in {"page", "done"}
    BY <1>0, <1>1 DEF Own
  <2> HIDE DEF s
  <2> QED
    BY <1>1, <2>1, PagedStep
<1>3. req' = [req EXCEPT ![r] = t] /\ t \in Socks
  BY <1>1, <1>2 DEF SendPage, Goes
<1> HIDE DEF t
<1>4. req' \in [Reqs -> Socks] /\ req'[r] = t /\ \A q \in Reqs \ {r} : req'[q] = req[q]
  BY <1>1, <1>3
<1>5. \A q \in Reqs : Goes(req[q], req'[q]) /\ Stays(req[q], req'[q]) /\ Keeps(req[q], req'[q])
  BY <1>1, <1>2, <1>4, NoStep
<1>6. /\ sub' \in [Pids -> Subs] /\ \A q \in Pids \ {p} : sub'[q] = sub[q]
      /\ sub'[p].st = "ack" /\ sub'[p].queue = sub[p].queue /\ sub'[p].cd = sub[p].cd
      /\ sub'[p].user = sub[p].user /\ sub'[p].seen = sub[p].seen
      /\ sub'[p].first = sub[p].first /\ sub'[p].last = sub[p].last
  BY <1>0, <1>1, Zenon DEF Subs, States
<1>7. \A q \in Reqs : Linked(p, q)' => Linked(p, q) /\ Open(req'[q])
  <2>1. \A q \in Reqs : Linked(p, q)' => Linked(p, q)
    BY <1>6 DEF Linked
  <2> QED
    BY <1>5, <2>1 DEF IInv, Connected, Keeps, Opens
<1>8. Own(p)'
  <2>1. req'[r].user = sub[p].user
    BY <1>0, <1>1, <1>5, Zenon DEF Own, Keeps, Opens
  <2>2. sub[p].last \in Reqs => req'[sub[p].last].asked
    BY <1>1, <1>5, Zenon DEF Own, Goes
  <2> QED
    BY <1>0, <1>1, <1>6, <2>1, <2>2 DEF Own
<1>9. Counted'
  BY <1>5, <1>6, NoRun, Zenon DEF Ahead, Keeps
<1> QED
  BY <1>0, <1>1, <1>4, <1>5, <1>6, <1>7, <1>8, <1>9, InsideStep DEF Keeps

\* The connection is closed.
LEMMA ServedInv ==
  ASSUME IInv, NEW p \in Pids, Served(p)
  PROVE  IInv'
<1> DEFINE r == sub[p].cd
           s == req[r]
           t == Tidy([s EXCEPT !.up = FALSE])
<1>0. /\ sub[p].st = "ack" /\ s.pc = "done" /\ line' = line /\ urls' = urls
      /\ sub' = [sub EXCEPT ![p].st = "idle", ![p].cd = NoReq]
  BY DEF Served
<1>1. /\ sub \in [Pids -> Subs] /\ sub[p] \in Subs
      /\ req \in [Reqs -> Socks] /\ urls \subseteq Links
      /\ \A q \in Reqs : req[q] \in Socks /\ Good(req[q])
      /\ r \in Reqs /\ s \in Socks /\ Good(s) /\ Open(s)
      /\ Once(sub[p].queue) /\ ~In(r, sub[p].queue) /\ sub[p].queue \in Seq(Reqs)
      /\ Own(p)
  BY <1>0, Busy
<1>2. Goes(s, t) /\ Stays(s, t) /\ t.runs = s.runs
  <2> HIDE DEF s
  <2> QED
    BY <1>0, <1>1, ClosedStep, Zenon
<1>3. req' = [req EXCEPT ![r] = t] /\ t \in Socks
  BY <1>1, <1>2 DEF Served, Goes
<1> HIDE DEF t
<1>4. req' \in [Reqs -> Socks] /\ req'[r] = t /\ \A q \in Reqs \ {r} : req'[q] = req[q]
  BY <1>1, <1>3
<1>5. \A q \in Reqs : /\ Goes(req[q], req'[q]) /\ Stays(req[q], req'[q])
                      /\ req'[q].runs = req[q].runs
                      /\ q # r => Opens(req[q], req'[q])
  BY <1>1, <1>2, <1>4, NoStep DEF Keeps
<1>6. /\ sub' \in [Pids -> Subs] /\ \A q \in Pids \ {p} : sub'[q] = sub[q]
      /\ sub'[p].st = "idle" /\ sub'[p].queue = sub[p].queue /\ sub'[p].cd = NoReq
      /\ sub'[p].user = sub[p].user /\ sub'[p].seen = sub[p].seen
      /\ sub'[p].first = sub[p].first /\ sub'[p].last = sub[p].last
  <2> DEFINE u == [sub[p] EXCEPT !.st = "idle", !.cd = NoReq]
  <2>1. u \in Subs
    BY <1>1, Zenon DEF Subs, States
  <2>2. sub' = [sub EXCEPT ![p] = u]
    BY <1>0, <1>1, Zenon
  <2>3. /\ u.st = "idle" /\ u.queue = sub[p].queue /\ u.cd = NoReq
        /\ u.user = sub[p].user /\ u.seen = sub[p].seen
        /\ u.first = sub[p].first /\ u.last = sub[p].last
    BY <1>1 DEF Subs
  <2> HIDE DEF u
  <2> QED
    BY <1>1, <2>1, <2>2, <2>3
<1>7. NoReq \notin Reqs /\ ~In(NoReq, sub[p].queue)
  BY <1>1, SessionAssumption, SMTT(30) DEF In
<1>8. \A q \in Reqs : Linked(p, q)' => Linked(p, q) /\ Open(req'[q])
  <2>1. \A q \in Reqs : Linked(p, q)' => Linked(p, q) /\ q # r
    BY <1>1, <1>6, <1>7, Zenon DEF Linked
  <2> QED
    BY <1>5, <2>1, Zenon DEF IInv, Connected, Opens
<1>9. Own(p)'
  <2>1. sub[p].last \in Reqs => req'[sub[p].last].asked
    BY <1>1, <1>5, Zenon DEF Own, Goes
  <2> QED
    BY <1>1, <1>6, <2>1, Zenon DEF Own
<1>10. Counted'
  <2>1. \A q \in Pids, y \in Reqs : Ahead(q, y)' => Ahead(q, y)
    BY <1>6, <1>7, Zenon DEF Ahead
  <2> QED
    BY <1>5, <2>1, NoRun, Zenon
<1>11. \A q \in Reqs : ~Linked(p, q) => Opens(req[q], req'[q])
  BY <1>5, Zenon DEF Linked
<1> QED
  BY <1>0, <1>1, <1>4, <1>5, <1>6, <1>7, <1>8, <1>9, <1>10, <1>11, InsideStep

\* The process is no more.
LEMMA GoneInv ==
  ASSUME IInv, NEW p \in Pids, Gone(p), line' = line
  PROVE  IInv'
<1> DEFINE Stale(k) == IF k[1] = p THEN <<p, FALSE>> ELSE k
<1>0. /\ sub \in [Pids -> Subs] /\ sub[p] \in Subs /\ sub[p].queue \in Seq(Reqs)
      /\ req \in [Reqs -> Socks] /\ urls \subseteq Links
      /\ \A q \in Reqs : req[q] \in Socks /\ Good(req[q])
  BY Zenon DEF IInv, Types, Subs
<1>1. /\ sub' = [sub EXCEPT ![p] = NoSub]
      /\ req' = [r \in Reqs |-> Tidy([req[r] EXCEPT !.up = req[r].up /\ ~Closed(p, r),
                                                    !.link = Stale(req[r].link)])]
      /\ urls' = {Stale(k) : k \in urls}
  BY Zenon DEF Gone
<1>2. \A k \in Links : Stale(k) \in Links
  BY Zenon DEF Links
<1>3. urls' \subseteq Links
  BY <1>0, <1>1, <1>2, Zenon
<1>4. ASSUME NEW r \in Reqs PROVE Closed(p, r) <=> Linked(p, r)
  BY <1>0 DEF Closed, Linked, In
<1>5. ASSUME NEW r \in Reqs
      PROVE  /\ req'[r] \in Socks /\ Goes(req[r], req'[r]) /\ Stays(req[r], req'[r])
             /\ req'[r].runs = req[r].runs
             /\ ~Linked(p, r) => Opens(req[r], req'[r])
  <2> DEFINE b == ~Closed(p, r)
             k == Stale(req[r].link)
             t == Tidy([req[r] EXCEPT !.up = req[r].up /\ b, !.link = k])
  <2>1. req'[r] = t
    BY <1>1, Zenon
  <2>2. b \in BOOLEAN /\ k \in Links
    BY <1>0, <1>2, Zenon DEF Socks
  <2> HIDE DEF b, k
  <2>3. Goes(req[r], t) /\ Stays(req[r], t) /\ t.runs = req[r].runs /\ (b => Opens(req[r], t))
    BY <1>0, <2>2, GoneStep, Zenon
  <2> HIDE DEF t
  <2> QED
    BY <1>4, <2>1, <2>3, Zenon DEF Goes, b
<1>6. req' \in [Reqs -> Socks]
  BY <1>1, <1>5, Zenon
<1>7. /\ NoSub \in Subs /\ NoSub.cd = NoReq /\ NoSub.queue = <<>> /\ NoSub.seen = {}
      /\ NoSub.st = "free" /\ NoSub.last = NoReq
  <2>1. NoSub \in Subs
    BY SMTT(30) DEF NoSub, Subs, States, Ids
  <2> QED
    BY <2>1, Zenon DEF NoSub
<1>8. sub' \in [Pids -> Subs] /\ sub'[p] = NoSub /\ \A q \in Pids \ {p} : sub'[q] = sub[q]
  BY <1>0, <1>1, <1>7, Zenon
<1>9. NoReq \notin Reqs /\ Once(<<>>) /\ \A r : ~In(r, <<>>)
  BY SessionAssumption, Newborn
<1>10. \A r \in Reqs : ~Linked(p, r)'
  BY <1>7, <1>8, <1>9, Zenon DEF Linked
<1>11. Own(p)'
  BY <1>7, <1>8, <1>9, Zenon DEF Own
<1>12. Counted'
  <2>1. \A q \in Pids, r \in Reqs : Ahead(q, r)' => Ahead(q, r)
    BY <1>7, <1>8, <1>9, Zenon DEF Ahead
  <2> QED
    BY <1>5, <2>1, NoRun, Zenon
<1> QED
  BY <1>3, <1>5, <1>6, <1>7, <1>8, <1>9, <1>10, <1>11, <1>12, InsideStep, Zenon

-----------------------------------------------------------------------------
(* Theorems.                                                               *)

\* Every step keeps the invariant.
LEMMA NextInv == IInv /\ [Next]_vars => IInv'
<1> SUFFICES ASSUME IInv, [Next]_vars PROVE IInv'
  BY Zenon
<1>1. CASE UNCHANGED vars
  <2>0. UNCHANGED <<sub, req, line, urls>>
    BY <1>1 DEF vars
  <2>1. Types' /\ Lined' /\ Apart' /\ Connected'
    BY <2>0, Zenon DEF IInv, Types, Lined, Apart, Connected, Linked
  <2>2. Counted' /\ (\A r \in Reqs : Good(req[r])') /\ \A p \in Pids : Own(p)'
    BY <2>0, Zenon DEF IInv, Counted, Own, Ahead, Excused, Dead
  <2> QED
    BY <2>1, <2>2, Zenon DEF IInv
<1>2. ASSUME NEW r \in Reqs, \/ \E u \in Who[r], link \in urls \cup {Entry} : Start(r, u, link)
                             \/ Swebsock(r) \/ SockDies(r)
      PROVE  IInv'
  BY <1>2, SockInv, ConnectInv
<1>3. ASSUME NEW p \in Pids, Swebs(p) \/ Hangup(p) \/ SubDies(p) PROVE IInv'
  <2>1. CASE Ready(p)
    BY <2>1, QuietInv, Zenon DEF Ready
  <2>2. CASE Timeout(p)
    BY <2>2, QuietInv, Zenon DEF Timeout
  <2>3. CASE Hangup(p)
    BY <2>3, QuietInv, Zenon DEF Hangup
  <2>4. CASE Exit(p)
    BY <2>4, GoneInv DEF Exit
  <2>5. CASE SubDies(p)
    BY <2>5, GoneInv DEF SubDies
  <2> QED
    BY <1>3, <2>1, <2>2, <2>3, <2>4, <2>5, AcceptInv, JudgeInv, RunInv, SendInv, ServedInv DEF Swebs
<1> QED
  BY <1>1, <1>2, <1>3, DaemonInv, Zenon DEF Next

\* The invariant holds in every reachable state.
THEOREM Invariance == Spec => []IInv
<1>1. Init => IInv
  BY InitInv
<1>2. IInv /\ [Next]_vars => IInv'
  BY NextInv
<1> QED
  BY <1>1, <1>2, PTL DEF Spec

\* Whatever stale links, reused pids, late logins and deaths there are, a
\* subserver never has the data of two users, and runs a request as the user
\* who made it (swebs.c, process.c).
THEOREM OneUser == Spec => []OneUserEach
<1>1. IInv => OneUserEach
  BY DEF IInv, Own, OneUserEach
<1> QED
  BY <1>1, Invariance, PTL

\* swebsock's retries never run a request twice: a second run means that
\* another swebsock was killed between greeting and request.
THEOREM NoSecondRun == Spec => []RunOnce
<1>1. IInv => RunOnce
  BY DEF IInv, Types, Socks, Counted, Excused, Dead, RunOnce
<1> QED
  BY <1>1, Invariance, PTL

-----------------------------------------------------------------------------
(* The type invariant.                                                     *)

Real == Pids \X BOOLEAN

\* How often a swebsock has tried, when it has ended, and whom it talks to.
Tried(s) == s.tries \in 0 .. MaxTries - 1
Ended(s) ==
  /\ (s.pc = "done") = (s.end # "none")
  /\ s.pc \in {"open", "greet", "wait", "ask", "page"} => s.link \in Real
Tame == \A r \in Reqs : Tried(req[r]) /\ Ended(req[r])

TInv ==
  /\ Tame /\ urls \subseteq Real
  /\ \A p \in Pids : Len(sub[p].queue) <= Backlog + 1

\* Tidy forgets the number of tries.
LEMMA TidyTame ==
  ASSUME NEW s \in Socks, Ended(s), Tried(s) \/ (s.pc = "done" /\ ~s.up)
  PROVE  Tried(Tidy(s)) /\ Ended(Tidy(s))
<1>1. CASE s.pc = "done" /\ ~s.up
  <2> DEFINE t == [NoSock EXCEPT !.pc = "done", !.end = s.end, !.runs = s.runs, !.asked = s.asked]
  <2>1. t.pc = "done" /\ t.end = s.end /\ t.tries = 0
    BY DEF NoSock
  <2>2. Tidy(s) = t
    BY <1>1 DEF Tidy
  <2> HIDE DEF t
  <2> QED
    BY <1>1, <2>1, <2>2, SessionAssumption DEF Tried, Ended
<1>2. CASE ~(s.pc = "done" /\ ~s.up)
  BY <1>2 DEF Tidy
<1> QED
  BY <1>1, <1>2

\* One swebsock's record changes.
LEMMA OneTame ==
  ASSUME req \in [Reqs -> Socks], Tame, NEW r, NEW t, req' = [req EXCEPT ![r] = t],
         r \in Reqs => Tried(t) /\ Ended(t)
  PROVE  Tame'
<1>1. \A q \in Reqs : req'[q] = req[q] \/ (q = r /\ req'[q] = t)
  OBVIOUS
<1> QED
  BY <1>1 DEF Tame

\* A swebsock that ends, however it does.
LEMMA EndTame ==
  ASSUME req \in [Reqs -> Socks], Tame, NEW r \in Reqs,
         NEW e \in {"page", "message", "nothing", "killed"}, Finish(r, e)
  PROVE  Tame'
<1> DEFINE u == [req[r] EXCEPT !.pc = "done", !.end = e]
<1>1. req' = [req EXCEPT ![r] = Tidy(u)]
  BY DEF Finish
<1>2. u \in Socks /\ Tried(u) /\ Ended(u)
  <2>1. req[r] \in Socks /\ Tried(req[r])
    BY DEF Tame
  <2>2. u \in Socks
    BY <2>1, Zenon DEF Socks, Places
  <2>3. u.pc = "done" /\ u.end = e /\ u.tries = req[r].tries
    BY <2>1 DEF Socks
  <2> HIDE DEF u
  <2> QED
    BY <2>1, <2>2, <2>3 DEF Tried, Ended
<1> HIDE DEF u
<1>3. Tried(Tidy(u)) /\ Ended(Tidy(u))
  BY <1>2, TidyTame
<1> QED
  BY <1>1, <1>3, OneTame, Zenon

\* A swebsock whose handshake has failed: the tries it counts are those it
\* goes on to make.
LEMMA ShakeTame ==
  ASSUME req \in [Reqs -> Socks], Tame, NEW r \in Reqs, NEW rc, Shaken(r, rc)
  PROVE  Tame'
<1> DEFINE again == ~req[r].fresh \/ (rc = -1 /\ req[r].tries + 1 < MaxTries)
           x == IF again THEN "new" ELSE "done"
           e == IF again THEN "none" ELSE "message"
           n == IF req[r].fresh THEN req[r].tries + 1 ELSE 0
           u == [req[r] EXCEPT !.pc = x, !.end = e, !.tries = n, !.link = Entry,
                               !.up = FALSE, !.sent = FALSE, !.reply = "none"]
<1>1. req' = [req EXCEPT ![r] = Tidy(u)]
  BY Zenon DEF Shaken
<1>2. req[r] \in Socks /\ req[r].tries \in 0 .. MaxTries - 1 /\ n \in Nat /\ MaxTries \in Nat \ {0}
  BY SessionAssumption DEF Tame, Tried, Socks
<1>3. \/ x = "new" /\ e = "none" /\ n \in 0 .. MaxTries - 1
      \/ x = "done" /\ e = "message"
  <2>1. CASE again
    <3>1. n < MaxTries
      BY <1>2, <2>1 DEF Socks
    <3> QED
      BY <1>2, <2>1, <3>1
  <2>2. CASE ~again
    BY <2>2
  <2> QED
    BY <2>1, <2>2, Zenon
<1> HIDE DEF x, e, n
<1>4. u \in Socks /\ u.pc = x /\ u.end = e /\ u.tries = n /\ u.up = FALSE
  <2>0. x \in {"new", "done"} /\ e \in {"none", "message"} /\ n \in Nat /\ Entry \in Links
    BY <1>2, <1>3, Zenon DEF Entry, Links
  <2>1. u \in Socks
    BY <1>2, <2>0, Zenon DEF Socks, Places
  <2> QED
    BY <1>2, <2>1 DEF Socks
<1> HIDE DEF u
<1>5. Ended(u) /\ (Tried(u) \/ (u.pc = "done" /\ ~u.up))
  BY <1>3, <1>4 DEF Ended, Tried
<1>6. Tried(Tidy(u)) /\ Ended(Tidy(u))
  BY <1>4, <1>5, TidyTame
<1> QED
  BY <1>1, <1>6, OneTame, Zenon

\* swebsock.
LEMMA SockTame ==
  ASSUME IInv, TInv, NEW r \in Reqs,
         \/ \E u \in Who[r], link \in urls \cup {Entry} : Start(r, u, link)
         \/ Swebsock(r)
         \/ SockDies(r)
  PROVE  Tame' /\ urls' \subseteq Real
<1>0. /\ req \in [Reqs -> Socks] /\ req[r] \in Socks /\ Tame /\ urls \subseteq Real
      /\ Tried(req[r]) /\ Ended(req[r])
  BY Zenon DEF IInv, Types, TInv, Tame
<1>1. ASSUME NEW u \in Who[r], NEW link \in urls \cup {Entry}, Start(r, u, link)
      PROVE  Tame' /\ urls' \subseteq Real
  <2> DEFINE x == IF link[1] = 0 THEN "new" ELSE "open"
             t == [NoSock EXCEPT !.pc = x, !.user = u, !.link = link]
  <2>1. req' = [req EXCEPT ![r] = t] /\ urls' = urls
    BY <1>1, Zenon DEF Start
  <2>2. x = "new" \/ (x = "open" /\ link \in Real)
    <3>1. Entry[1] = 0
      BY DEF Entry
    <3>2. CASE link = Entry
      BY <3>1, <3>2
    <3>3. CASE link \in urls
      BY <1>0, <3>3
    <3> QED
      BY <3>2, <3>3
  <2> HIDE DEF x
  <2>3. t.pc = x /\ t.end = "none" /\ t.tries = 0 /\ t.link = link
    BY DEF NoSock
  <2> HIDE DEF t
  <2>4. Tried(t) /\ Ended(t)
    BY <2>2, <2>3, SessionAssumption, SMTT(30) DEF Tried, Ended
  <2> QED
    BY <1>0, <2>1, <2>4, OneTame, Zenon
<1>2. ASSUME Connect(r) \/ (Greet(r) /\ req[r].up) \/ (Ask(r) /\ req[r].up)
             \/ (Answer(r) /\ req[r].reply = "OK") \/ (AskDaemon(r) /\ daemon)
      PROVE  Tame' /\ urls' \subseteq Real
  <2>1. PICK t : /\ req' = [req EXCEPT ![r] = t] /\ urls' = urls
                 /\ t.tries = req[r].tries /\ t.end = req[r].end /\ t.link = req[r].link
                 /\ \/ req[r].pc \in {"open", "greet", "wait", "ask"} /\ t.pc \in {"greet", "wait", "ask", "page"}
                    \/ req[r].pc = "new" /\ t.pc = "fork"
    <3>1. CASE Connect(r)
      <4>1. WITNESS [req[r] EXCEPT !.pc = "greet", !.up = TRUE]
      <4> QED
        BY <1>0, <3>1, Zenon DEF Connect, Socks
    <3>2. CASE Greet(r) /\ req[r].up
      <4>1. WITNESS [req[r] EXCEPT !.pc = "wait", !.sent = TRUE]
      <4> QED
        BY <1>0, <3>2, Zenon DEF Greet, Socks
    <3>3. CASE Ask(r) /\ req[r].up
      <4>1. WITNESS [req[r] EXCEPT !.pc = "page", !.asked = TRUE]
      <4> QED
        BY <1>0, <3>3, Zenon DEF Ask, Socks
    <3>4. CASE Answer(r) /\ req[r].reply = "OK"
      <4>1. WITNESS [req[r] EXCEPT !.pc = "ask"]
      <4> QED
        BY <1>0, <3>4, Zenon DEF Answer, Socks
    <3>5. CASE AskDaemon(r) /\ daemon
      <4>1. WITNESS [req[r] EXCEPT !.pc = "fork"]
      <4> QED
        BY <1>0, <3>5 DEF AskDaemon, Socks
    <3> QED
      BY <1>2, <3>1, <3>2, <3>3, <3>4, <3>5, Zenon
  <2>2. Tried(t) /\ Ended(t)
    BY <1>0, <2>1 DEF Tried, Ended
  <2> QED
    BY <1>0, <2>1, <2>2, OneTame, Zenon
<1>3. ASSUME NEW rc, Shaken(r, rc) PROVE Tame'
  BY <1>0, <1>3, ShakeTame, Zenon
<1>4. ASSUME NEW e \in {"page", "message", "nothing", "killed"}, Finish(r, e) PROVE Tame'
  BY <1>0, <1>4, EndTame, Zenon
<1>5. CASE TakePage(r)
  <2>1. Finish(r, "page") /\ urls' = urls \cup {req[r].link} /\ req[r].pc = "page"
    BY <1>5 DEF TakePage
  <2>2. req[r].link \in Real
    BY <1>0, <2>1, Zenon DEF Ended
  <2> QED
    BY <1>0, <1>4, <2>1, <2>2, Zenon
<1>6. CASE NotThere(r) \/ (Answer(r) /\ req[r].reply # "OK")
  <2>1. urls' = urls /\ \E rc : Shaken(r, rc)
    BY <1>6, Zenon DEF NotThere, Answer
  <2> QED
    BY <1>0, <1>3, <2>1
<1>7. CASE \/ (Greet(r) \/ Ask(r)) /\ ~req[r].up
           \/ CutPage(r) \/ DaemonGone(r) \/ SockDies(r) \/ (AskDaemon(r) /\ ~daemon)
  <2>1. urls' = urls /\ \E e \in {"page", "message", "nothing", "killed"} : Finish(r, e)
    BY <1>7, Zenon DEF Greet, Ask, CutPage, DaemonGone, SockDies, AskDaemon
  <2> QED
    BY <1>0, <1>4, <2>1
<1> QED
  BY <1>1, <1>2, <1>5, <1>6, <1>7, Zenon DEF Swebsock


\* swebd.
LEMMA DaemonTame ==
  ASSUME IInv, TInv, Swebd
  PROVE  Tame' /\ urls' = urls
<1> DEFINE r == Head(line)
<1>0. /\ req \in [Reqs -> Socks] /\ Tame /\ line \in Seq(Reqs)
  BY DEF IInv, Types, TInv
<1>1. ASSUME NEW rec, Reported(r, rec), line # <<>>,
             r \in Reqs /\ req[r].pc # "done" => rec \in Socks /\ Tried(rec) /\ Ended(rec)
      PROVE  Tame'
  <2>1. r \in Reqs
    BY <1>0, <1>1, FromTheHead
  <2>2. CASE req[r].pc = "done"
    BY <1>0, <1>1, <2>2 DEF Reported, Tame
  <2>3. CASE req[r].pc # "done"
    <3>1. req' = [req EXCEPT ![r] = Tidy(rec)]
      BY <1>1, <2>3 DEF Reported
    <3>2. Tried(Tidy(rec)) /\ Ended(Tidy(rec))
      BY <1>1, <2>1, <2>3, TidyTame
    <3> QED
      BY <1>0, <3>1, <3>2, OneTame, Zenon
  <2> QED
    BY <2>2, <2>3
<1>2. CASE RobotRefused \/ ForkFails
  <2> DEFINE u == [req[r] EXCEPT !.pc = "done", !.end = "message"]
  <2>1. Reported(r, u) /\ line # <<>> /\ urls' = urls
    BY <1>2, Zenon DEF RobotRefused, ForkFails
  <2>2. ASSUME r \in Reqs PROVE u \in Socks /\ Tried(u) /\ Ended(u)
    <3>1. req[r] \in Socks /\ Tried(req[r])
      BY <1>0, <2>2 DEF Tame
    <3>2. u \in Socks
      BY <3>1, Zenon DEF Socks, Places
    <3>3. u.pc = "done" /\ u.end = "message" /\ u.tries = req[r].tries
      BY <3>1 DEF Socks
    <3> HIDE DEF u
    <3> QED
      BY <3>1, <3>2, <3>3 DEF Tried, Ended
  <2> HIDE DEF u
  <2> QED
    BY <1>1, <2>1, <2>2
<1>3. ASSUME NEW p \in Pids, Fork(p) PROVE Tame' /\ urls' = urls
  <2> DEFINE u == [req[r] EXCEPT !.pc = "open", !.fresh = TRUE, !.link = <<p, TRUE>>]
  <2>1. Reported(r, u) /\ line # <<>> /\ urls' = urls
    BY <1>3, Zenon DEF Fork
  <2>2. ASSUME r \in Reqs, req[r].pc # "done" PROVE u \in Socks /\ Tried(u) /\ Ended(u)
    <3>1. req[r] \in Socks /\ Tried(req[r]) /\ Ended(req[r])
      BY <1>0, <2>2 DEF Tame
    <3>2. u \in Socks
      BY <3>1, Zenon DEF Socks, Places, Links
    <3>3. u.pc = "open" /\ u.end = req[r].end /\ u.tries = req[r].tries /\ u.link = <<p, TRUE>>
      BY <3>1, Zenon DEF Socks
    <3> HIDE DEF u
    <3>4. req[r].end = "none"
      BY <2>2, <3>1 DEF Ended
    <3>5. u.link \in Real
      <4>1. <<p, TRUE>> \in Real
        BY Zenon DEF Real
      <4> QED
        BY <3>3, <4>1
    <3> QED
      BY <3>1, <3>2, <3>3, <3>4, <3>5 DEF Tried, Ended
  <2> HIDE DEF u
  <2> QED
    BY <1>1, <2>1, <2>2
<1> QED
  BY <1>2, <1>3 DEF Swebd

\* What a subserver does to a swebsock.
LEMMA SameTame ==
  ASSUME NEW s \in Socks, Tried(s), Ended(s), NEW t \in Socks,
         t.pc = s.pc /\ t.end = s.end /\ t.tries = s.tries,
         t.link = s.link \/ t.link \in Real
  PROVE  Tried(t) /\ Ended(t) /\ Tried(Tidy(t)) /\ Ended(Tidy(t))
<1>1. Tried(t) /\ Ended(t)
  BY DEF Tried, Ended
<1> QED
  BY <1>1, TidyTame

\* A subserver goes, and with it what its pid meant.
LEMMA GoneTame ==
  ASSUME IInv, TInv, NEW p \in Pids, Gone(p)
  PROVE  Tame' /\ urls' \subseteq Real
<1> DEFINE Stale(k) == IF k[1] = p THEN <<p, FALSE>> ELSE k
<1>0. req \in [Reqs -> Socks] /\ Tame /\ urls \subseteq Real
  BY DEF IInv, Types, TInv
<1>1. /\ req' = [r \in Reqs |-> Tidy([req[r] EXCEPT !.up = req[r].up /\ ~Closed(p, r),
                                                    !.link = Stale(req[r].link)])]
      /\ urls' = {Stale(k) : k \in urls}
  BY Zenon DEF Gone
<1>2. /\ \A k : Stale(k) = k \/ Stale(k) \in Real
      /\ \A k \in Links : Stale(k) \in Links
      /\ \A k \in Real : Stale(k) \in Real
  BY Zenon DEF Real, Links
<1>3. urls' \subseteq Real
  BY <1>0, <1>1, <1>2, Zenon
<1>4. ASSUME NEW r \in Reqs PROVE Tried(req'[r]) /\ Ended(req'[r])
  <2> DEFINE b == req[r].up /\ ~Closed(p, r)
             k == Stale(req[r].link)
             t == [req[r] EXCEPT !.up = b, !.link = k]
  <2>1. req'[r] = Tidy(t)
    BY <1>1, Zenon
  <2>2. req[r] \in Socks /\ Tried(req[r]) /\ Ended(req[r])
    BY <1>0, Zenon DEF Tame
  <2>3. b \in BOOLEAN /\ k \in Links /\ (k = req[r].link \/ k \in Real)
    BY <1>2, <2>2, Zenon DEF Socks
  <2> HIDE DEF b, k
  <2>4. t \in Socks
    BY <2>2, <2>3, Zenon DEF Socks
  <2>5. t.pc = req[r].pc /\ t.end = req[r].end /\ t.tries = req[r].tries /\ t.link = k
    BY <2>2 DEF Socks
  <2> HIDE DEF t
  <2> QED
    BY <2>1, <2>2, <2>3, <2>4, <2>5, SameTame
<1> QED
  BY <1>3, <1>4 DEF Tame

\* swebs.
LEMMA SubTame ==
  ASSUME IInv, TInv, NEW p \in Pids, Swebs(p) \/ Hangup(p) \/ SubDies(p)
  PROVE  Tame' /\ urls' \subseteq Real
<1> DEFINE c == sub[p].cd
<1>0. /\ req \in [Reqs -> Socks] /\ Tame /\ urls \subseteq Real
      /\ \A q \in Reqs : req[q] \in Socks /\ Tried(req[q]) /\ Ended(req[q])
  BY DEF IInv, Types, TInv, Tame
<1>1. CASE Ready(p) \/ Accept(p) \/ Timeout(p) \/ Hangup(p)
  <2>1. req' = req /\ urls' = urls
    BY <1>1, Zenon DEF Ready, Accept, Timeout, Hangup
  <2> QED
    BY <1>0, <2>1 DEF Tame
<1>2. CASE Exit(p) \/ SubDies(p)
  BY <1>2, GoneTame DEF Exit, SubDies
<1>3. CASE Judge(p)
  <2>1. PICK ok \in BOOLEAN :
          /\ req' = [req EXCEPT ![c] = Tidy([@ EXCEPT !.reply = IF ok THEN "OK" ELSE "NO", !.up = ok])]
          /\ urls' = urls
    <3>1. \A q \in Reqs : (req[q].sent /\ req[q].link[2] /\ req[q].user = Adopt(p, req[q].user)) \in BOOLEAN
      OBVIOUS
    <3> QED
      BY <1>3, Zenon DEF Judge
  <2> DEFINE y == IF ok THEN "OK" ELSE "NO"
             t == [req[c] EXCEPT !.reply = y, !.up = ok]
  <2>2. ASSUME c \in Reqs PROVE Tried(Tidy(t)) /\ Ended(Tidy(t))
    <3>0. y \in {"OK", "NO"} /\ req[c] \in Socks
      BY <1>0, <2>2
    <3> HIDE DEF y
    <3>1. t \in Socks
      BY <3>0, Zenon DEF Socks
    <3>2. t.pc = req[c].pc /\ t.end = req[c].end /\ t.tries = req[c].tries /\ t.link = req[c].link
      BY <3>0 DEF Socks
    <3> HIDE DEF t
    <3> QED
      BY <1>0, <2>2, <3>1, <3>2, SameTame
  <2>3. req' = [req EXCEPT ![c] = Tidy(t)]
    BY <2>1, Zenon
  <2> HIDE DEF t
  <2> QED
    BY <1>0, <2>1, <2>2, <2>3, OneTame, Zenon
<1>4. CASE RunPage(p)
  <2>1. PICK w \in (IF req[c].asked THEN {c} ELSE {sub[p].last, NoReq}) :
          req' = [q \in Reqs |-> [req[q] EXCEPT !.runs = IF q = w THEN req[q].runs + 1
                                                         ELSE req[q].runs]]
    BY <1>0, <1>4, Zenon DEF RunPage
  <2>2. ASSUME NEW q \in Reqs PROVE Tried(req'[q]) /\ Ended(req'[q])
    <3> DEFINE n == IF q = w THEN req[q].runs + 1 ELSE req[q].runs
               t == [req[q] EXCEPT !.runs = n]
    <3>0. req[q] \in Socks /\ n \in Nat
      <4>1. req[q] \in Socks
        BY <1>0
      <4>2. req[q].runs \in Nat
        BY <4>1 DEF Socks
      <4> QED
        BY <4>1, <4>2
    <3>1. req'[q] = t
      BY <2>1
    <3> HIDE DEF n
    <3>2. t \in Socks
      BY <3>0 DEF Socks
    <3>3. t.pc = req[q].pc /\ t.end = req[q].end /\ t.tries = req[q].tries /\ t.link = req[q].link
      BY <3>0 DEF Socks
    <3> HIDE DEF t
    <3> QED
      BY <1>0, <3>1, <3>2, <3>3, SameTame, Zenon
  <2> QED
    BY <1>0, <1>4, <2>2 DEF Tame, RunPage
<1>5. CASE SendPage(p)
  <2> DEFINE t == [req[c] EXCEPT !.reply = "page"]
  <2>1. req' = [req EXCEPT ![c] = t] /\ urls' = urls
    BY <1>5 DEF SendPage
  <2>2. ASSUME c \in Reqs PROVE Tried(t) /\ Ended(t)
    <3>1. t \in Socks
      BY <1>0, <2>2 DEF Socks
    <3>2. t.pc = req[c].pc /\ t.end = req[c].end /\ t.tries = req[c].tries /\ t.link = req[c].link
      BY <1>0, <2>2 DEF Socks
    <3> HIDE DEF t
    <3> QED
      BY <1>0, <2>2, <3>1, <3>2, SameTame
  <2> HIDE DEF t
  <2> QED
    BY <1>0, <2>1, <2>2, OneTame, Zenon
<1>6. CASE Served(p)
  <2> DEFINE t == [req[c] EXCEPT !.up = FALSE]
  <2>1. req' = [req EXCEPT ![c] = Tidy(t)] /\ urls' = urls
    BY <1>6 DEF Served
  <2>2. ASSUME c \in Reqs PROVE Tried(Tidy(t)) /\ Ended(Tidy(t))
    <3>1. t \in Socks
      BY <1>0, <2>2, ZenonT(30) DEF Socks
    <3>2. t.pc = req[c].pc /\ t.end = req[c].end /\ t.tries = req[c].tries /\ t.link = req[c].link
      BY <1>0, <2>2 DEF Socks
    <3> HIDE DEF t
    <3> QED
      BY <1>0, <2>2, <3>1, <3>2, SameTame
  <2> HIDE DEF t
  <2> QED
    BY <1>0, <2>1, <2>2, OneTame, Zenon
<1> QED
  BY <1>1, <1>2, <1>3, <1>4, <1>5, <1>6, Zenon DEF Swebs


\* No backlog grows beyond what listen() asked for.
LEMMA QueueStep ==
  ASSUME IInv, TInv, Next, NEW p \in Pids
  PROVE  Len(sub'[p].queue) <= Backlog + 1
<1>0. /\ sub \in [Pids -> Subs] /\ sub[p] \in Subs /\ sub[p].queue \in Seq(Reqs) /\ Backlog \in Nat
      /\ Len(sub[p].queue) <= Backlog + 1 /\ Len(sub[p].queue) \in Nat
  BY SessionAssumption DEF IInv, Types, TInv, Subs
<1>1. ASSUME NEW r \in Reqs, Connect(r) PROVE Len(sub'[p].queue) <= Backlog + 1
  <2> DEFINE k == req[r].link[1]
  <2>1. Len(sub[k].queue) <= Backlog /\ sub' = [sub EXCEPT ![k].queue = Append(sub[k].queue, r)]
    BY <1>1 DEF Connect
  <2>2. CASE p = k
    <3>1. sub'[p].queue = Append(sub[p].queue, r)
      BY <1>0, <2>1, <2>2, Zenon DEF Subs
    <3>2. Len(Append(sub[p].queue, r)) = Len(sub[p].queue) + 1
      BY <1>0
    <3>3. Len(sub[p].queue) <= Backlog
      BY <2>1, <2>2
    <3> QED
      BY <1>0, <3>1, <3>2, <3>3, SMTT(30)
  <2>3. CASE p # k
    BY <1>0, <2>1, <2>3
  <2> QED
    BY <2>2, <2>3
<1>2. ASSUME NEW q \in Pids, Accept(q) PROVE Len(sub'[p].queue) <= Backlog + 1
  <2>1. /\ sub[q].queue # <<>>
        /\ sub' = [sub EXCEPT ![q].st = "hand", ![q].cd = Head(sub[q].queue), ![q].queue = Tail(sub[q].queue)]
    BY <1>2 DEF Accept
  <2>2. CASE p = q
    <3>1. sub'[p].queue = Tail(sub[p].queue)
      BY <1>0, <2>1, <2>2 DEF Subs
    <3>2. Len(Tail(sub[p].queue)) = Len(sub[p].queue) - 1
      BY <1>0, <2>1, <2>2
    <3> QED
      BY <1>0, <3>1, <3>2
  <2>3. CASE p # q
    BY <1>0, <2>1, <2>3
  <2> QED
    BY <2>2, <2>3
<1>3. NoSub.queue = <<>> /\ Born.queue = <<>> /\ Len(<<>>) = 0
  BY Newborn DEF NoSub
<1>4. ASSUME NEW q \in Pids, Exit(q) \/ SubDies(q) \/ Fork(q) PROVE Len(sub'[p].queue) <= Backlog + 1
  <2>1. \E s \in {NoSub, Born} : sub' = [sub EXCEPT ![q] = s]
    BY <1>4, Zenon DEF Exit, SubDies, Gone, Fork, Born
  <2>2. sub'[p] = sub[p] \/ sub'[p] = NoSub \/ sub'[p] = Born
    BY <1>0, <2>1
  <2> QED
    BY <1>0, <1>3, <2>2
<1>5. ASSUME NEW q \in Pids, Ready(q) \/ Timeout(q) \/ Hangup(q) \/ SendPage(q) \/ Served(q)
      PROVE  Len(sub'[p].queue) <= Backlog + 1
  <2>1. \/ \E a : sub' = [sub EXCEPT ![q].st = a]
        \/ \E a, b : sub' = [sub EXCEPT ![q].st = a, ![q].cd = b]
    BY <1>5, Zenon DEF Ready, Timeout, Hangup, SendPage, Served
  <2>2. sub'[p].queue = sub[p].queue
    <3>1. ASSUME NEW a, sub' = [sub EXCEPT ![q].st = a] PROVE sub'[p].queue = sub[p].queue
      BY <1>0, <3>1 DEF Subs
    <3>2. ASSUME NEW a, NEW b, sub' = [sub EXCEPT ![q].st = a, ![q].cd = b]
          PROVE  sub'[p].queue = sub[p].queue
      BY <1>0, <3>2 DEF Subs
    <3> QED
      BY <2>1, <3>1, <3>2, Zenon
  <2> QED
    BY <1>0, <2>2
<1>6. ASSUME NEW q \in Pids, Judge(q) \/ RunPage(q) PROVE Len(sub'[p].queue) <= Backlog + 1
  <2>1. CASE Judge(q)
    <3> DEFINE s == req[sub[q].cd]
               u == Adopt(q, s.user)
               right == s.sent /\ s.link[2] /\ s.user = u
    <3>1. PICK ok \in {right} \cup (IF sub[q].first \/ u = Anon THEN {} ELSE {FALSE}) :
            sub' = [sub EXCEPT ![q].user = IF s.sent THEN u ELSE sub[q].user,
                               ![q].first = sub[q].first /\ ~ok,
                               ![q].st = IF ok THEN "page" ELSE "down",
                               ![q].cd = IF ok THEN sub[q].cd ELSE NoReq]
      BY <1>0, <2>1, Zenon DEF Judge
    <3>2. PICK a, b, c, d : sub' = [sub EXCEPT ![q].user = a, ![q].first = b, ![q].st = c, ![q].cd = d]
      BY <3>1, Zenon
    <3>3. sub'[p].queue = sub[p].queue
      BY <1>0, <3>2 DEF Subs
    <3> QED
      BY <1>0, <3>3
  <2>2. CASE RunPage(q)
    <3> DEFINE s == req[sub[q].cd]
    <3>1. PICK w \in (IF s.asked THEN {sub[q].cd} ELSE {sub[q].last, NoReq}) :
            sub' = [sub EXCEPT ![q].st = "send", ![q].last = IF w = NoReq THEN sub[q].last ELSE w,
                               ![q].seen = sub[q].seen \cup {s.user}]
      BY <1>0, <2>2, Zenon DEF RunPage
    <3>2. PICK a, b : sub' = [sub EXCEPT ![q].st = "send", ![q].last = a, ![q].seen = b]
      BY <3>1, Zenon
    <3>3. sub'[p].queue = sub[p].queue
      BY <1>0, <3>2 DEF Subs
    <3> QED
      BY <1>0, <3>3, Zenon
  <2> QED
    BY <1>6, <2>1, <2>2
<1>7. ASSUME sub' = sub PROVE Len(sub'[p].queue) <= Backlog + 1
  BY <1>0, <1>7
<1>8. ASSUME NEW r \in Reqs,
             \/ \E u \in Who[r], link \in urls \cup {Entry} : Start(r, u, link)
             \/ NotThere(r) \/ Greet(r) \/ Answer(r) \/ Ask(r) \/ TakePage(r) \/ CutPage(r)
             \/ AskDaemon(r) \/ DaemonGone(r) \/ SockDies(r)
      PROVE  sub' = sub
  BY <1>8, Zenon DEF Start, NotThere, Greet, Answer, Ask, TakePage, CutPage, AskDaemon, DaemonGone, SockDies
<1>9. ASSUME RobotRefused \/ ForkFails PROVE sub' = sub
  BY <1>9, Zenon DEF RobotRefused, ForkFails
<1>10. CASE Swebd
  BY <1>4, <1>7, <1>9, <1>10, Zenon DEF Swebd
<1>11. ASSUME NEW r \in Reqs, \/ \E u \in Who[r], link \in urls \cup {Entry} : Start(r, u, link)
                              \/ Swebsock(r) \/ SockDies(r)
       PROVE  Len(sub'[p].queue) <= Backlog + 1
  BY <1>1, <1>7, <1>8, <1>11, Zenon DEF Swebsock
<1>12. ASSUME NEW q \in Pids, Swebs(q) \/ Hangup(q) \/ SubDies(q) PROVE Len(sub'[p].queue) <= Backlog + 1
  BY <1>2, <1>4, <1>5, <1>6, <1>12, Zenon DEF Swebs
<1> QED
  BY <1>10, <1>11, <1>12, Zenon DEF Next

\* Every variable keeps its type.  A subserver is connected when it is busy,
\* its backlog never exceeds what it asked listen() for, and swebsock asks
\* for no more than MaxTries subservers (the loop in swebsock.c).
THEOREM TypeCorrect == Spec => []TypeOK
<1>1. Init => TInv
  <2> SUFFICES ASSUME Init PROVE TInv
    BY Zenon
  <2>1. Tried(NoSock) /\ Ended(NoSock)
    BY SessionAssumption, SMTT(30) DEF Tried, Ended, NoSock
  <2>2. Tame
    BY <2>1 DEF Init, Tame
  <2>3. urls \subseteq Real
    BY Zenon DEF Init, Real
  <2>4. \A p \in Pids : Len(sub[p].queue) <= Backlog + 1
    BY SessionAssumption DEF Init, NoSub
  <2> QED
    BY <2>2, <2>3, <2>4 DEF TInv
<1>2. IInv /\ TInv /\ [Next]_vars => TInv'
  <2> SUFFICES ASSUME IInv, TInv, [Next]_vars PROVE TInv'
    OBVIOUS
  <2>1. CASE UNCHANGED vars
    BY <2>1, Zenon DEF vars, TInv, Tame
  <2>2. CASE Next
    <3>1. urls \subseteq Real
      BY Zenon DEF TInv
    <3>2. Tame' /\ urls' \subseteq Real
      BY <2>2, <3>1, SockTame, DaemonTame, SubTame, Zenon DEF Next
    <3> QED
      BY <2>2, <3>2, QueueStep DEF TInv
  <2> QED
    BY <2>1, <2>2
<1>3. IInv /\ TInv => TypeOK
  <2> SUFFICES ASSUME IInv, TInv PROVE TypeOK
    OBVIOUS
  <2>1. ASSUME NEW p \in Pids
        PROVE  /\ sub[p].st \in States /\ sub[p].user \in Ids /\ sub[p].seen \subseteq Ids
               /\ sub[p].cd \in Reqs \cup {NoReq} /\ sub[p].last \in Reqs \cup {NoReq}
               /\ Len(sub[p].queue) <= Backlog + 1
               /\ sub[p].st \in {"hand", "page", "send", "ack"} => sub[p].cd # NoReq
    <3>1. sub[p] \in Subs /\ Own(p)
      BY Zenon DEF IInv, Types
    <3>2. sub[p].st \in {"hand", "page", "send", "ack"} => sub[p].cd # NoReq
      BY <3>1, SessionAssumption DEF Own
    <3>3. Len(sub[p].queue) <= Backlog + 1
      BY DEF TInv
    <3> QED
      BY <3>1, <3>2, <3>3 DEF Subs
  <2>2. ASSUME NEW r \in Reqs
        PROVE  /\ req[r].pc \in Places /\ req[r].user \in Ids
               /\ req[r].tries \in 0 .. MaxTries - 1 /\ (req[r].pc = "done") = (req[r].end # "none")
    <3>1. req[r] \in Socks /\ Tried(req[r]) /\ Ended(req[r])
      BY DEF IInv, Types, TInv, Tame
    <3> QED
      BY <3>1 DEF Socks, Tried, Ended
  <2> QED
    BY <2>1, <2>2, Zenon DEF TypeOK, TInv, Real
<1> QED
  BY <1>1, <1>2, <1>3, Invariance, PTL DEF Spec

=============================================================================
