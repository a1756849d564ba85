------------------------------ MODULE Session ------------------------------
(***************************************************************************)
(* How a browser's request reaches the user's subserver (CV2/sweb).        *)
(*                                                                         *)
(* The web server starts one swebsock per request.  A page's URLs hold the *)
(* pid and the security code of the subserver (swebs) that made the page;  *)
(* swebsock shakes hands with that subserver, or asks the daemon (swebd)   *)
(* to fork a new one.  A subserver serves one connection at a time, keeps  *)
(* the user's variables between requests, and exits when nothing comes for *)
(* a while, when it is hung up, or when a handshake is wrong.  Pids are    *)
(* used again, and every connection can break at either end.               *)
(***************************************************************************)
EXTENDS Integers, Sequences, FiniteSets

CONSTANTS
  Pids,        \* process ids of subservers
  Users,       \* userids
  Anon,        \* the empty userid of a browser that has not logged in
  Reqs,        \* requests, numbered in the order in which they are made
  Who,         \* Who[r]: the users who may make request r
  NoReq,       \* no connection
  MaxTries,    \* subservers that swebsock asks for, one after the other: 4
  Backlog,     \* connections that wait besides the one that listen() asks for
  RobotReject, \* is the robot_reject parameter set?
  Parallel,    \* bound: number of swebsocks at any one time
  MaxFaults    \* bound: number of deaths, hangups and failures

ASSUME SessionAssumption ==
  /\ Reqs \subseteq Nat /\ NoReq \notin Reqs /\ Anon \notin Users
  /\ Who \in [Reqs -> SUBSET (Users \cup {Anon})] /\ MaxTries \in Nat \ {0} /\ {Backlog, Parallel, MaxFaults} \subseteq Nat
  /\ RobotReject \in BOOLEAN

VARIABLES
  sub,         \* sub[p]: the subserver with pid p, if any
  req,         \* req[r]: the swebsock of request r
  daemon,      \* is swebd running?
  line,        \* swebsocks connected to swebd, in order
  prev,        \* swebd's prev_userid
  urls,        \* <<pid, right>> in pages that browsers have received
  faults       \* number of faults so far

vars == <<sub, req, daemon, line, prev, urls, faults>>

Ids == Users \cup {Anon}

\* A URL is <<pid, right>>: does it hold the code of the present process with
\* that pid?  (Two processes with one pid and one code are left out.)
Entry == <<0, FALSE>>

\* st: init, idle (in accept), hand (reading the greeting), page, send, ack
\* (the client has not taken the page), down (shutting down), free (no process).
\* user is conf.remote; seen is history: whose requests have left their data
\* in the process; last is the request that process_request ran last.
NoSub == [st |-> "free", first |-> TRUE, user |-> Anon,
          cd |-> NoReq, queue |-> <<>>, seen |-> {}, last |-> NoReq]

\* pc: unborn, open, greet, wait, ask, page, new, fork, done.  up: is the
\* connection to the subserver open at its end?  sent: the greeting or the
\* request went out.  reply is what the subserver has written.  runs is
\* history: how often a subserver ran the request.
NoSock == [pc |-> "unborn", user |-> Anon, link |-> Entry, fresh |-> FALSE,
           tries |-> 0, up |-> FALSE, sent |-> FALSE, asked |-> FALSE,
           reply |-> "none", runs |-> 0, end |-> "none"]

\* Browsers still hold pages of subservers that are no more.
Init ==
  /\ sub = [p \in Pids |-> NoSub]
  /\ req = [r \in Reqs |-> NoSock]
  /\ daemon = TRUE
  /\ line = <<>>
  /\ prev = Anon
  /\ urls = Pids \X {FALSE}
  /\ faults = 0

\* Of a swebsock that has ended, and whose connection is closed at the other
\* end too, only the history is kept.
Tidy(rec) ==
  IF rec.pc = "done" /\ ~rec.up
  THEN [NoSock EXCEPT !.pc = "done", !.end = rec.end, !.runs = rec.runs, !.asked = rec.asked]
  ELSE rec

Finish(r, end) ==
  req' = [req EXCEPT ![r] = Tidy([@ EXCEPT !.pc = "done", !.end = end])]
Fault == faults < MaxFaults /\ faults' = faults + 1

\* sub_shutdown has not unlinked the socket yet.
Listening(p) == p \in Pids /\ sub[p].st \notin {"free", "init"}

-----------------------------------------------------------------------------
(* swebsock: connect to the subserver.                                     *)

\* A browser follows a link of some page, or goes to the entry page (pid 0).
Start(r, u, link) ==
  /\ req[r].pc = "unborn" /\ \A q \in Reqs : q < r => req[q].pc # "unborn"
  /\ Cardinality({q \in Reqs : req[q].pc \notin {"unborn", "done"}}) < Parallel
  /\ req' = [req EXCEPT ![r] =
               [NoSock EXCEPT !.pc = IF link[1] = 0 THEN "new" ELSE "open",
                              !.user = u, !.link = link]]
  /\ UNCHANGED <<sub, daemon, line, prev, urls, faults>>

\* Bug: the last try is followed by another one.
ShakenOnceMore(r, rc) ==
  LET again == ~req[r].fresh \/ (rc = -1 /\ req[r].tries < MaxTries) IN
  req' = [req EXCEPT ![r] =
            Tidy([@ EXCEPT !.pc = IF again THEN "new" ELSE "done",
                           !.end = IF again THEN "none" ELSE "message",
                           !.tries = IF req[r].fresh THEN req[r].tries + 1 ELSE 0, !.link = Entry,
                           !.up = FALSE, !.sent = FALSE, !.reply = "none"])]

\* What swebsock does when shake_subserver returns rc, -1 or 0: a new
\* subserver for an old link; another one if the new one did not answer.
Shaken(r, rc) ==
  LET again == ~req[r].fresh \/ (rc = -1 /\ req[r].tries + 1 < MaxTries) IN
  req' = [req EXCEPT ![r] =
            Tidy([@ EXCEPT !.pc = IF again THEN "new" ELSE "done",
                           !.end = IF again THEN "none" ELSE "message",
                           !.tries = IF req[r].fresh THEN req[r].tries + 1 ELSE 0, !.link = Entry,
                           !.up = FALSE, !.sent = FALSE, !.reply = "none"])]

\* hose_open: connect.  A full backlog makes connect wait.
Connect(r) ==
  LET p == req[r].link[1] IN
  /\ req[r].pc = "open" /\ Listening(p)
  /\ Len(sub[p].queue) <= Backlog
  /\ sub' = [sub EXCEPT ![p].queue = Append(@, r)]
  /\ req' = [req EXCEPT ![r].pc = "greet", ![r].up = TRUE]
  /\ UNCHANGED <<daemon, line, prev, urls, faults>>

\* hose_open: nobody listens, or not yet, after all attempts.
NotThere(r) ==
  /\ req[r].pc = "open" /\ ~Listening(req[r].link[1])
  /\ Shaken(r, -1)
  /\ UNCHANGED <<sub, daemon, line, prev, urls, faults>>

\* shake_subserver: code, userid and the rest.  If the subserver exited since
\* the connect, SIGPIPE ends swebsock, which does not ignore it.
Greet(r) ==
  /\ req[r].pc = "greet"
  /\ IF req[r].up THEN req' = [req EXCEPT ![r].pc = "wait", ![r].sent = TRUE]
                  ELSE Finish(r, "nothing")
  /\ UNCHANGED <<sub, daemon, line, prev, urls, faults>>

\* shake_subserver: the answer, or the end of file.
Answer(r) ==
  /\ req[r].pc = "wait"
  /\ req[r].reply # "none" \/ ~req[r].up
  /\ IF req[r].reply = "OK" THEN req' = [req EXCEPT ![r].pc = "ask"]
     ELSE Shaken(r, IF req[r].reply = "NO" THEN 0 ELSE -1)
  /\ UNCHANGED <<sub, daemon, line, prev, urls, faults>>

\* Section C: send the name of the page, the variables and the form.
Ask(r) ==
  /\ req[r].pc = "ask"
  /\ IF req[r].up THEN req' = [req EXCEPT ![r].pc = "page", ![r].asked = TRUE]
                  ELSE Finish(r, "nothing")
  /\ UNCHANGED <<sub, daemon, line, prev, urls, faults>>

\* The page arrives, with the subserver's pid and code in its URLs, and is
\* acknowledged; or pagetime runs out; or the subserver is gone.
TakePage(r) ==
  /\ req[r].pc = "page" /\ req[r].reply = "page"
  /\ Finish(r, "page")
  /\ urls' = urls \cup {req[r].link}
  /\ UNCHANGED <<sub, daemon, line, prev, faults>>

\* Bug: a page that does not arrive is asked for again.
CutPageRetries(r) ==
  /\ req[r].pc = "page" /\ req[r].reply # "page"
  /\ IF req[r].up THEN Finish(r, "nothing")
     ELSE req' = [req EXCEPT ![r] = [NoSock EXCEPT !.pc = "new", !.user = req[r].user,
                                                   !.runs = req[r].runs]]
  /\ UNCHANGED <<sub, daemon, line, prev, urls, faults>>

CutPage(r) ==
  /\ req[r].pc = "page" /\ req[r].reply # "page"
  /\ Finish(r, "nothing")
  /\ UNCHANGED <<sub, daemon, line, prev, urls, faults>>

-----------------------------------------------------------------------------
(* swebsock and swebd: get a new subserver.                                *)

\* new_subserver: connect to swebd, which may be dead.
AskDaemon(r) ==
  /\ req[r].pc = "new"
  /\ IF daemon
     THEN line' = Append(line, r) /\ req' = [req EXCEPT ![r].pc = "fork"]
     ELSE UNCHANGED line /\ Finish(r, "nothing")
  /\ UNCHANGED <<sub, daemon, prev, urls, faults>>

Free == {p \in Pids : sub[p].st = "free"}

\* swebd writes pid and code; if swebsock has died, SIGPIPE ends swebd too.
Reported(r, rec) ==
  IF req[r].pc = "done" THEN daemon' = FALSE /\ line' = <<>> /\ UNCHANGED req
  ELSE /\ req' = [req EXCEPT ![r] = Tidy(rec)]
       /\ line' = Tail(line) /\ UNCHANGED daemon

\* The same user again within robot_reject seconds.
RobotRefused ==
  LET r == Head(line) IN
  /\ daemon /\ line # <<>> /\ RobotReject
  /\ req[r].user # Anon /\ req[r].user = prev
  /\ Reported(r, [req[r] EXCEPT !.pc = "done", !.end = "message"])
  /\ UNCHANGED <<sub, prev, urls, faults>>

\* sys_subserver forks, and the child becomes swebs.  (For the same user:
\* robot_reject seconds have passed.)
Fork(p) ==
  LET r == Head(line) IN
  /\ daemon /\ line # <<>> /\ p \in Free
  /\ sub' = [sub EXCEPT ![p] = [NoSub EXCEPT !.st = "init"]]
  /\ prev' = req[r].user
  /\ Reported(r, [req[r] EXCEPT !.pc = "open", !.fresh = TRUE,
                                !.link = <<p, TRUE>>])
  /\ UNCHANGED <<urls, faults>>

\* The fork fails; swebd remembers the user all the same.
ForkFails ==
  LET r == Head(line) IN
  /\ daemon /\ line # <<>>
  /\ IF Free = {} THEN UNCHANGED faults ELSE Fault
  /\ prev' = req[r].user
  /\ Reported(r, [req[r] EXCEPT !.pc = "done", !.end = "message"])
  /\ UNCHANGED <<sub, urls>>

\* swebd has died on a swebsock in line: pid and code are never written, and
\* what is in their place decides how the others end.
DaemonGone(r) ==
  /\ req[r].pc = "fork" /\ ~daemon
  /\ \E end \in {"message", "nothing"} : Finish(r, end)
  /\ UNCHANGED <<sub, daemon, line, prev, urls, faults>>

-----------------------------------------------------------------------------
(* swebs.                                                                  *)

\* The database is there, and hose_accept binds the socket and listens.
Ready(p) ==
  /\ sub[p].st = "init"
  /\ sub' = [sub EXCEPT ![p].st = "idle"]
  /\ UNCHANGED <<req, daemon, line, prev, urls, faults>>

Accept(p) ==
  /\ sub[p].st = "idle" /\ sub[p].queue # <<>>
  /\ sub' = [sub EXCEPT ![p].st = "hand", ![p].cd = Head(sub[p].queue),
                        ![p].queue = Tail(@)]
  /\ UNCHANGED <<req, daemon, line, prev, urls, faults>>

\* Bug: the alarm is set for the first connection only.
TimeoutFirst(p) ==
  /\ sub[p].st = "idle" /\ sub[p].first
  /\ sub' = [sub EXCEPT ![p].st = "down"]
  /\ UNCHANGED <<req, daemon, line, prev, urls, faults>>

\* hose_accept: conf.timeout seconds without a connection, or with one that
\* arrives as the alarm goes off.
Timeout(p) ==
  /\ sub[p].st = "idle"
  /\ sub' = [sub EXCEPT ![p].st = "down"]
  /\ UNCHANGED <<req, daemon, line, prev, urls, faults>>

\* Bug: whoever comes is the user from now on.
AdoptAlways(p, u) == u

\* conf.remote after a greeting from u: the first one says whose subserver
\* this is, and a browser that had not logged in may do so later.
Adopt(p, u) == IF sub[p].first \/ sub[p].user = Anon THEN u ELSE sub[p].user

\* Read the greeting.  A wrong code, userid or version, or no greeting at all,
\* is answered with NO and ends the subserver.
Judge(p) ==
  LET r == sub[p].cd
      u == Adopt(p, req[r].user)
      right == req[r].sent /\ req[r].link[2] /\ req[r].user = u
  IN
  /\ sub[p].st = "hand" /\ (req[r].sent \/ req[r].pc = "done")
  /\ \E ok \in {right} \cup (IF sub[p].first \/ u = Anon THEN {} ELSE {FALSE}) :
       /\ sub' = [sub EXCEPT ![p].user = IF req[r].sent THEN u ELSE @,
                             ![p].first = @ /\ ~ok,
                             ![p].st = IF ok THEN "page" ELSE "down",
                             ![p].cd = IF ok THEN @ ELSE NoReq]
       /\ req' = [req EXCEPT ![r] = Tidy([@ EXCEPT !.reply = IF ok THEN "OK" ELSE "NO",
                                                   !.up = ok])]
  /\ UNCHANGED <<daemon, line, prev, urls, faults>>

\* process_request, once the request has been read.  If swebsock died before
\* sending it, cmlname is not set: it is garbage or the page run before.
RunPage(p) ==
  LET r == sub[p].cd
      what == IF req[r].asked THEN {r} ELSE {sub[p].last, NoReq}
  IN
  /\ sub[p].st = "page" /\ (req[r].asked \/ req[r].pc = "done")
  /\ \E w \in what :
       /\ sub' = [sub EXCEPT ![p].st = "send", ![p].last = IF w = NoReq THEN @ ELSE w,
                             ![p].seen = @ \cup {req[r].user}]
       /\ req' = [q \in Reqs |-> [req[q] EXCEPT !.runs = IF q = w THEN @ + 1 ELSE @]]
  /\ UNCHANGED <<daemon, line, prev, urls, faults>>

\* buf_close: the rest of the page goes out.
SendPage(p) ==
  /\ sub[p].st = "send"
  /\ sub' = [sub EXCEPT ![p].st = "ack"]
  /\ req' = [req EXCEPT ![sub[p].cd].reply = "page"]
  /\ UNCHANGED <<daemon, line, prev, urls, faults>>

\* buf_close: the client has acknowledged the end of the page, or is gone.
Served(p) ==
  /\ sub[p].st = "ack" /\ req[sub[p].cd].pc = "done"
  /\ sub' = [sub EXCEPT ![p].st = "idle", ![p].cd = NoReq]
  /\ req' = [req EXCEPT ![sub[p].cd] = Tidy([@ EXCEPT !.up = FALSE])]
  /\ UNCHANGED <<daemon, line, prev, urls, faults>>

\* Bug: connections in the backlog are left open.
ClosedButBacklog(p, r) == r = sub[p].cd

\* The kernel closes the connections of a process that is no more.
Closed(p, r) == r = sub[p].cd \/ \E i \in DOMAIN sub[p].queue : sub[p].queue[i] = r

\* The process is gone, and what it was called means nothing any more.
Gone(p) ==
  LET Stale(link) == IF link[1] = p THEN <<p, FALSE>> ELSE link IN
  /\ sub' = [sub EXCEPT ![p] = NoSub]
  /\ req' = [r \in Reqs |->
               Tidy([req[r] EXCEPT !.up = @ /\ ~Closed(p, r), !.link = Stale(@)])]
  /\ urls' = {Stale(link) : link \in urls}

\* sub_shutdown, after timeout.cml.
Exit(p) ==
  /\ sub[p].st = "down"
  /\ Gone(p)
  /\ UNCHANGED <<daemon, line, prev, faults>>

-----------------------------------------------------------------------------
(* Faults.                                                                 *)

\* SIGHUP: jumper() leads to the shutdown from wherever swebs is (from accept
\* so does Timeout).
Hangup(p) ==
  /\ sub[p].st \in {"hand", "page", "send", "ack"} /\ Fault
  /\ sub' = [sub EXCEPT ![p].st = "down"]
  /\ UNCHANGED <<req, daemon, line, prev, urls>>

\* swebs dies, or finds no database.
SubDies(p) ==
  /\ sub[p].st # "free" /\ Fault
  /\ Gone(p)
  /\ UNCHANGED <<daemon, line, prev>>

\* The web server ends swebsock.
SockDies(r) ==
  /\ req[r].pc \notin {"unborn", "done"} /\ Fault
  /\ Finish(r, "killed")
  /\ UNCHANGED <<sub, daemon, line, prev, urls>>

-----------------------------------------------------------------------------
Swebsock(r) ==
  \/ Connect(r) \/ NotThere(r) \/ Greet(r) \/ Answer(r) \/ Ask(r)
  \/ TakePage(r) \/ CutPage(r) \/ AskDaemon(r) \/ DaemonGone(r)
Swebd == RobotRefused \/ ForkFails \/ \E p \in Pids : Fork(p)
Swebs(p) ==
  \/ Ready(p) \/ Accept(p) \/ Timeout(p) \/ Judge(p) \/ RunPage(p)
  \/ SendPage(p) \/ Served(p) \/ Exit(p)

Next ==
  \/ \E r \in Reqs : \E u \in Who[r], link \in urls \cup {Entry} : Start(r, u, link)
  \/ \E r \in Reqs : Swebsock(r) \/ SockDies(r)
  \/ \E p \in Pids : Swebs(p) \/ Hangup(p) \/ SubDies(p)
  \/ Swebd

Spec == Init /\ [][Next]_vars

\* Processes run; pages end (CutPage is only a time limit); alarms go off.
FairSpec ==
  /\ Spec
  /\ \A r \in Reqs : WF_vars(Swebsock(r))
  /\ WF_vars(Swebd)
  /\ \A p \in Pids : WF_vars(Swebs(p))

-----------------------------------------------------------------------------
(* Properties.                                                             *)

States == {"free", "init", "idle", "hand", "page", "send", "ack", "down"}
Places == {"unborn", "open", "greet", "wait", "ask", "page", "new", "fork", "done"}

\* Every variable has its type, and a subserver is connected when it is busy.
TypeOK ==
  /\ \A p \in Pids :
       /\ sub[p].st \in States /\ sub[p].user \in Ids /\ sub[p].seen \subseteq Ids
       /\ sub[p].cd \in Reqs \cup {NoReq} /\ sub[p].last \in Reqs \cup {NoReq}
       /\ Len(sub[p].queue) <= Backlog + 1
       /\ sub[p].st \in {"hand", "page", "send", "ack"} => sub[p].cd # NoReq
  /\ \A r \in Reqs :
       /\ req[r].pc \in Places /\ req[r].user \in Ids
       /\ req[r].tries \in 0 .. MaxTries - 1 /\ (req[r].pc = "done") = (req[r].end # "none")
  /\ urls \subseteq Pids \X BOOLEAN

\* "The subserver is now 'dedicated' to this userid": whatever stale URLs,
\* reused pids and late logins come, the variables of a process never hold
\* the data of two users, and a request runs as the user who made it.
OneUserEach ==
  \A p \in Pids :
    /\ sub[p].seen \subseteq {Anon, sub[p].user}
    /\ sub[p].st \in {"page", "send", "ack"} => req[sub[p].cd].user = sub[p].user

\* Retries never run a request twice.  The one way to a second run is a later
\* swebsock on the same subserver that died between greeting and request
\* (process.c:104).
RunOnce ==
  \A r \in Reqs : req[r].runs > 1 =>
    \E q \in Reqs : q # r /\ req[q].end = "killed" /\ ~req[q].asked

\* Every swebsock ends, with a page or with a message.
Answered == \A r \in Reqs : req[r].pc # "unborn" ~> req[r].pc = "done"

\* "After a certain period with no requests, it exits.  Otherwise the system
\* might fill up with inactive subservers" (arch.html).
Reaped == \A p \in Pids : sub[p].st # "free" ~> sub[p].st = "free"

=============================================================================
