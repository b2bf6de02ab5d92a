-------------------------------- MODULE Calld -------------------------------
(***************************************************************************)
(* The modem dialer: the server calld (loop, client table, table of device *)
(* locks, requests, SIGCHLD handler), the child it forks for each attempt  *)
(* to dial, and the program call on the other side of each connection.     *)
(***************************************************************************)
EXTENDS Conn, FiniteSets, FiniteSetsExt

CONSTANTS
    Systems,     \* the Systems file: a sequence of [name, type, class]
    Devices,     \* the Devices file: a sequence of [type, class, line, dialer]
    Want,        \* Want[c]: the arguments c may call with, [sysname, speed]
    Impatient,   \* clients that may be killed before they have their answer
    NoFd,        \* the fd of a free entry of client[] (-1)
    AnySpeed     \* the speed of a client that gave none

VARIABLES
    spc,         \* where the server is
    at,          \* the client[] entry it has come to in a walk
    walk,        \* the walk that called request: of loop or of child_done
    back,        \* where child_done returns to
    rset,        \* entries whose fd select reported
    client,      \* client[]
    lock,        \* lock[l]: the pid that has line l, 0 if none
    chld_flag,   \* set by the SIGCHLD handler
    sigchld,     \* a SIGCHLD is pending
    child,       \* child[p]: the forked process p
    user         \* user[c]: the program call of client c

server == <<spc, at, walk, back, rset, client, lock, chld_flag>>
vars   == <<server, sigchld, child, user, streams>>

Lines  == {Devices[d].line : d \in DOMAIN Devices}
Slots  == 1 .. Cardinality(Clients)

ASSUME ParamAssumption ==
    /\ IsFiniteSet(Clients) /\ NoFd \notin Clients /\ Impatient \subseteq Clients
    /\ Systems \in Seq([name : STRING, type : STRING, class : STRING])
    /\ Devices \in Seq([type : STRING, class : STRING, line : STRING, dialer : STRING])
    /\ \A c \in Clients : \A w \in Want[c] : {"sysname", "speed"} \subseteq DOMAIN w

NoWant    == [sysname |-> "", speed |-> AnySpeed]
FreeEntry == [fd |-> NoFd, pid |-> 0, childdone |-> 0, sysftell |-> 0, foundone |-> FALSE,
              want |-> NoWant]
NewUser   == [st |-> "start", want |-> NoWant, got |-> 0, err |-> ""]

\* Exit states of a child: exit(0), exit(1) or exit(2), killed by a signal.
Exit0  == 0
Exit1  == 1
Killed == 2

-----------------------------------------------------------------------------
(* The files and the two tables. *)

\* dev_find: the first device of the type and class of system entry k, or 0.
DevFind(k) ==
    LET d == {i \in DOMAIN Devices : /\ Devices[i].type = Systems[k].type
                                     /\ Devices[i].class = Systems[k].class}
    IN  IF d = {} THEN 0 ELSE Min(d)

LineOf(k) == Devices[DevFind(k)].line
IsDirect(k) == Devices[DevFind(k)].dialer = "direct"

\* The entries that sys_next finds for w behind position n.
SysNext(w, n) ==
    {k \in (n + 1) .. Len(Systems) :
        Systems[k].name = w.sysname /\ w.speed \in {AnySpeed, Systems[k].class}}

\* Where the loop of request ends: no device, or one that is not locked.
Stops(w, n, lk) == {k \in SysNext(w, n) : DevFind(k) = 0 \/ lk[LineOf(k)] = 0}

LockRel(lk, pid) == [l \in Lines |-> IF lk[l] = pid THEN 0 ELSE lk[l]]

\* client_add takes the first free entry; all but fd and uid stays as it was.
ClientAdd(c) ==
    client' = [client EXCEPT ![Min({s \in Slots : client[s].fd = NoFd})].fd = c]

\* log_quit, log_sys, or SIGPIPE on a connection that nobody reads any more.
Die(k) ==
    /\ spc' = "dead"
    /\ conn' = [c \in Clients |-> IF k[c].srv = "open" THEN SrvClose(k, c)[c] ELSE k[c]]
    /\ backlog' = <<>>

-----------------------------------------------------------------------------
(* request, for entry s of the table (which now is r), with locks lk and     *)
(* connections k: fork a child that dials, or tell the client that there is  *)
(* no way, and forget it.                                                    *)

Why(r, stops, tries) ==
    IF ~r.foundone /\ tries = {} THEN "notfound"
    ELSE IF stops # {} THEN "nodevice" ELSE IF tries # {} THEN "locked" ELSE "unable"

MutLastFd(s, r, lk, stop, w) ==
    /\ child' = Append(child, [st |-> "waiting", sys |-> stop, status |-> Exit0,
                               fd |-> client[Max({x \in Slots : client[x].fd # NoFd})].fd])
    /\ client' = [client EXCEPT ![s] = [r EXCEPT !.pid = Len(child) + 1, !.sysftell = stop,
                                                 !.foundone = TRUE]]
    /\ spc' = "setlock" /\ walk' = w
    /\ UNCHANGED <<at, backlog>>

Forks(s, r, lk, stop, w) ==
    /\ child' = Append(child, [st |-> "waiting", fd |-> r.fd, sys |-> stop, status |-> Exit0])
    /\ client' = [client EXCEPT ![s] = [r EXCEPT !.pid = Len(child) + 1, !.sysftell = stop,
                                                 !.foundone = TRUE]]
    /\ spc' = "setlock" /\ walk' = w
    /\ UNCHANGED <<at, backlog>>

\* The entry keeps everything but its fd.
CliDone(s, r, k) ==
    /\ client' = [client EXCEPT ![s] = [r EXCEPT !.fd = NoFd]]
    /\ conn' = SrvClose(k, r.fd)
    /\ at' = at + 1
    /\ UNCHANGED backlog

Request(s, r, lk, k, w) ==
    LET tries == SysNext(r.want, r.sysftell)
        stops == Stops(r.want, r.sysftell, lk)
        dials == stops # {} /\ DevFind(Min(stops)) # 0
    IN  /\ lock' = lk
        /\ \/ dials /\ Forks(s, r, lk, Min(stops), w) /\ conn' = k
           \/ /\ ~dials /\ ~HungUp(r.fd)
              /\ CliDone(s, r, SendErr(k, r.fd, Why(r, stops, tries)))
              /\ UNCHANGED <<child, spc, walk>>
           \/ /\ ~dials /\ HungUp(r.fd)
              /\ Die(k)
              /\ UNCHANGED <<child, client, at, walk>>

-----------------------------------------------------------------------------
(* loop. *)

\* The test of chld_flag, then select.
Top ==
    /\ spc = "top"
    /\ IF chld_flag THEN spc' = "cd" /\ at' = 1 /\ back' = "tested" /\ chld_flag' = FALSE
                    ELSE spc' = "tested" /\ UNCHANGED <<at, back, chld_flag>>
    /\ UNCHANGED <<walk, rset, client, lock, sigchld, child, user, streams>>

Select ==
    /\ spc = "tested"
    /\ spc' = "select"
    /\ UNCHANGED <<at, walk, back, rset, client, lock, chld_flag, sigchld, child, user, streams>>

\* A signal has interrupted select.
Eintr ==
    /\ spc = "eintr"
    /\ spc' = "cd" /\ at' = 1 /\ back' = "top" /\ chld_flag' = FALSE
    /\ UNCHANGED <<walk, rset, client, lock, sigchld, child, user, streams>>

Accept ==
    /\ spc = "select"
    /\ \E c \in Clients : ServAccept(c) /\ ClientAdd(c)
    /\ spc' = "top"
    /\ UNCHANGED <<at, walk, back, rset, lock, chld_flag, sigchld, child, user>>

MutNoEof == {s \in Slots : client[s].fd # NoFd /\ HasData(client[s].fd)}

ReadySlots == {s \in Slots : client[s].fd # NoFd /\ Readable(client[s].fd)}

Ready ==
    /\ spc = "select" /\ backlog = <<>> /\ ReadySlots # {}
    /\ spc' = "scan" /\ at' = 1 /\ rset' = ReadySlots
    /\ UNCHANGED <<walk, back, client, lock, chld_flag, sigchld, child, user, streams>>

\* A request: its options are copied into the table.
ReadRequest ==
    LET s == at  IN
    /\ spc = "scan" /\ s \in rset /\ client[s].fd # NoFd /\ HasData(client[s].fd)
    /\ LET r == [client[s] EXCEPT !.want = Head(conn[client[s].fd].req), !.childdone = 0,
                                  !.sysftell = 0, !.foundone = FALSE]
       IN  Request(s, r, lock, Taken(conn, r.fd), "scan")
    /\ UNCHANGED <<back, rset, chld_flag, sigchld, user>>

\* End of file: the client's device lock is released.
ReadEof ==
    LET s == at  IN
    /\ spc = "scan" /\ s \in rset /\ client[s].fd # NoFd /\ ~HasData(client[s].fd)
    /\ lock' = LockRel(lock, client[s].pid)
    /\ CliDone(s, client[s], conn)
    /\ UNCHANGED <<spc, walk, back, rset, chld_flag, sigchld, child, user>>

ScanNext ==
    /\ spc = "scan" /\ at \notin {s \in rset : client[s].fd # NoFd}
    /\ IF at < Cardinality(Clients) THEN at' = at + 1 /\ UNCHANGED spc ELSE spc' = "top" /\ UNCHANGED at
    /\ UNCHANGED <<walk, back, rset, client, lock, chld_flag, sigchld, child, user, streams>>

MutNoLock ==
    /\ spc = "setlock"
    /\ spc' = "tell"
    /\ UNCHANGED <<at, walk, back, rset, client, lock, chld_flag, sigchld, child, user, streams>>

\* The parent's side of the fork: lock_set, then TELL_CHILD.
SetLock ==
    /\ spc = "setlock"
    /\ lock' = [lock EXCEPT ![LineOf(child[Len(child)].sys)] = Len(child)]
    /\ spc' = "tell"
    /\ UNCHANGED <<at, walk, back, rset, client, chld_flag, sigchld, child, user, streams>>

TellChild ==
    /\ spc = "tell"
    /\ child' = [child EXCEPT ![Len(child)].st = "open"]
    /\ spc' = walk /\ at' = at + 1
    /\ UNCHANGED <<walk, back, rset, client, lock, chld_flag, sigchld, user, streams>>

-----------------------------------------------------------------------------
(* child_done, for one entry at a time, and the SIGCHLD handler. *)

\* The child could not connect: release its device, go on in the Systems file.
CdFailed ==
    LET s == at  r == [client[at] EXCEPT !.childdone = 0]  IN
    /\ spc = "cd" /\ s \in Slots /\ r.fd # NoFd /\ client[s].childdone = 2
    /\ Request(s, r, LockRel(lock, r.pid), conn, "cd")
    /\ UNCHANGED <<back, rset, chld_flag, sigchld, user>>

\* The child was successful, or there is no news.
CdNext ==
    /\ spc = "cd" /\ at \in Slots
    /\ client[at].fd = NoFd \/ client[at].childdone # 2
    /\ client' = IF client[at].fd = NoFd THEN client ELSE [client EXCEPT ![at].childdone = 0]
    /\ at' = at + 1
    /\ UNCHANGED <<spc, walk, back, rset, lock, chld_flag, sigchld, child, user, streams>>

CdEnd ==
    /\ spc = "cd" /\ at \notin Slots
    /\ IF chld_flag THEN at' = 1 /\ UNCHANGED spc ELSE spc' = back /\ UNCHANGED at
    /\ chld_flag' = FALSE
    /\ UNCHANGED <<walk, back, rset, client, lock, sigchld, child, user, streams>>

\* client_sigchld: the first entry with this pid gets the status; the server ends
\* if there is none.
ClientSigchld(p) ==
    LET mine == {s \in Slots : client[s].pid = p}
    IN  \/ /\ mine # {}
           /\ client' = [client EXCEPT ![Min(mine)].childdone = child[p].status + 1]
           /\ spc' = (IF spc = "select" THEN "eintr" ELSE spc) /\ UNCHANGED streams
        \/ mine = {} /\ Die(conn) /\ UNCHANGED client

\* sig_chld takes one child with waitpid; one that was killed is only logged.
SigChld ==
    /\ sigchld /\ spc # "dead"
    /\ sigchld' = FALSE /\ chld_flag' = TRUE
    /\ \E p \in DOMAIN child :
          /\ child[p].st = "zombie"
          /\ child' = [child EXCEPT ![p].st = "reaped"]
          /\ \/ child[p].status # Killed /\ ClientSigchld(p)
             \/ /\ child[p].status = Killed /\ spc' = (IF spc = "select" THEN "eintr" ELSE spc)
                /\ UNCHANGED <<client, streams>>
    /\ UNCHANGED <<at, walk, back, rset, lock, user>>

-----------------------------------------------------------------------------
(* child_dial. *)

IsAt(p, l) == p \in DOMAIN child /\ child[p].st = l
Move(p, l) == child' = [child EXCEPT ![p].st = l]
Exits(p, x) ==
    /\ child' = [child EXCEPT ![p].st = "zombie", ![p].status = x]
    /\ sigchld' = TRUE

\* An error message goes to the client, and kills the child if it is gone.
Dies(p, message) == Exits(p, IF message /\ HungUp(child[p].fd) THEN Killed ELSE Exit1)

TtyOpen(p) ==
    /\ IsAt(p, "open")
    /\ \/ Move(p, IF IsDirect(child[p].sys) THEN "send" ELSE "dial") /\ UNCHANGED sigchld
       \/ Dies(p, TRUE)
    /\ UNCHANGED <<server, user, streams>>

\* tty_dial succeeds, or fails with a message of expect_str or send_str, or
\* ends in log_sys.  A timeout of expect_str never ends, or leaves its buffer
\* (module Expect): the child is killed by SIGSEGV, or believes in a match.
TtyDial(p) ==
    /\ IsAt(p, "dial")
    /\ \/ \E l \in {"send", "spin"} : Move(p, l) /\ UNCHANGED sigchld
       \/ \E message \in BOOLEAN : Dies(p, message)
       \/ Exits(p, Killed)
    /\ UNCHANGED <<server, user, streams>>

SendLine(p) ==
    /\ IsAt(p, "send")
    /\ IF HungUp(child[p].fd)
       THEN Exits(p, Killed) /\ UNCHANGED conn
       ELSE Move(p, "sent") /\ conn' = SendFd(conn, child[p].fd, child[p].sys) /\ UNCHANGED sigchld
    /\ UNCHANGED <<server, user, backlog>>

ExitOK(p) == IsAt(p, "sent") /\ Exits(p, Exit0) /\ UNCHANGED <<server, user, streams>>

Alive(p) == p \in DOMAIN child /\ child[p].st \notin {"zombie", "reaped"}

-----------------------------------------------------------------------------
(* call. *)

UserIs(c, l) == user[c].st = l
Ends(c, l)   == user' = [user EXCEPT ![c].st = l] /\ conn' = CliClose(conn, c)

Connect(c) ==
    /\ UserIs(c, "start")
    /\ IF spc # "dead" THEN CliConn(c) /\ user' = [user EXCEPT ![c].st = "connected"]
                       ELSE user' = [user EXCEPT ![c].st = "failed"] /\ UNCHANGED streams
    /\ UNCHANGED <<server, sigchld, child>>

SendArgs(c) ==
    /\ UserIs(c, "connected")
    /\ \/ /\ spc # "dead"
          /\ \E w \in Want[c] : /\ conn' = Sent(conn, c, w)
                                /\ user' = [user EXCEPT ![c].st = "waiting", ![c].want = w]
       \/ spc = "dead" /\ Ends(c, "failed")
    /\ UNCHANGED <<server, sigchld, child, backlog>>

\* recv_fd: the line, and the user talks to the remote system, or an error.
Answer(c) ==
    /\ UserIs(c, "waiting") /\ conn[c].back # <<>>
    /\ LET m == Head(conn[c].back)
       IN  IF m.ok
           THEN /\ user' = [user EXCEPT ![c].st = "talking", ![c].got = m.is]
                /\ conn' = RecvFd(conn, c)
           ELSE /\ user' = [user EXCEPT ![c].st = "refused", ![c].err = m.is]
                /\ conn' = CliClose(conn, c)
    /\ UNCHANGED <<server, sigchld, child, backlog>>

\* "connection closed by server": nobody has the other end any more.
Closed(c) ==
    /\ UserIs(c, "waiting") /\ conn[c].back = <<>>
    /\ spc = "dead" /\ \A p \in DOMAIN child : ~Alive(p)
    /\ Ends(c, "failed")
    /\ UNCHANGED <<server, sigchld, child, backlog>>

\* The end of call's loop: the user or the remote system hangs up.
HangUp(c) ==
    /\ UserIs(c, "talking")
    /\ Ends(c, "over")
    /\ UNCHANGED <<server, sigchld, child, backlog>>

Quit(c) ==
    /\ c \in Impatient /\ user[c].st \in {"connected", "waiting"}
    /\ Ends(c, "quit")
    /\ UNCHANGED <<server, sigchld, child, backlog>>

-----------------------------------------------------------------------------
Init ==
    /\ ServListen
    /\ spc = "top" /\ at = 1 /\ walk = "scan" /\ back = "top" /\ rset = {}
    /\ client = [s \in Slots |-> FreeEntry]
    /\ lock = [l \in Lines |-> 0]
    /\ chld_flag = FALSE /\ sigchld = FALSE
    /\ child = <<>>
    /\ user = [c \in Clients |-> NewUser]

Server   == \/ Top \/ Select \/ Eintr \/ Accept \/ Ready \/ ReadRequest \/ ReadEof \/ ScanNext
            \/ SetLock \/ TellChild \/ CdFailed \/ CdNext \/ CdEnd
Child(p) == TtyOpen(p) \/ TtyDial(p) \/ SendLine(p) \/ ExitOK(p)
Call(c)  == Connect(c) \/ SendArgs(c) \/ Answer(c) \/ Closed(c)

\* The server sleeps in select and nobody else will do anything.
Idle == /\ spc \in {"select", "dead"} /\ ~(spc = "select" /\ sigchld)
        /\ \A p \in DOMAIN child : child[p].st \in {"zombie", "reaped", "waiting", "spin"}
        /\ \A c \in Clients : user[c].st \in {"failed", "refused", "over", "quit", "waiting"}

Next ==
    \/ Server \/ SigChld
    \/ \E p \in DOMAIN child : Child(p)
    \/ \E c \in Clients : Call(c) \/ HangUp(c) \/ Quit(c)
    \/ (Idle /\ UNCHANGED vars)

\* The server and its children run, its signals are delivered, and call goes on
\* until it has its line; the user may talk for ever.
Fairness == /\ WF_vars(Server) /\ WF_vars(SigChld)
            /\ \A p \in 1 .. Cardinality(Clients) * Len(Systems) : WF_vars(Child(p))
            /\ \A c \in Clients : WF_vars(Call(c))

Spec == Init /\ [][Next]_vars /\ Fairness

-----------------------------------------------------------------------------
(* Properties. *)

Present(c) == user[c].st \in {"waiting", "talking"}

\* The clients that have a use for line l: one of their children is dialing on
\* it, or they have it.
UsersOf(l) ==
    {c \in Clients : Present(c) /\
        \/ user[c].got # 0 /\ LineOf(user[c].got) = l
        \/ \E p \in DOMAIN child : /\ child[p].fd = c /\ LineOf(child[p].sys) = l
                                   /\ child[p].st \in {"open", "dial", "spin", "send", "sent"}}

\* Nobody was killed who had a child dialing: the entry of such a client is used
\* again with its pid, its request and its child's status, and then the server
\* may dial for the next client by the old request, and release a line in use.
\* Clients may be killed before they are served, and hang up after.
NoneLeftDialing == \A p \in DOMAIN child : ~UserIs(child[p].fd, "quit")

\* No two clients that are still there use one device, whatever children fail,
\* are retried, or end while their entry is already another client's.
LineExclusive == NoneLeftDialing => \A l \in Lines : \A c, d \in UsersOf(l) : c = d

Suits(k, w) == Systems[k].name = w.sysname /\ (w.speed = AnySpeed \/ w.speed = Systems[k].class)

\* The answer that a client gets is its own: a line to a system it asked for at
\* a speed it asked for, although its child was forked from a table that other
\* clients share; and it hears that there is no such system only if the
\* Systems file has none.
OwnAnswer ==
    NoneLeftDialing => \A c \in Clients :
        /\ user[c].got # 0 => Suits(user[c].got, user[c].want)
        /\ user[c].err = "notfound" => \A k \in DOMAIN Systems : ~Suits(k, user[c].want)

\* Every device lock belongs to a client that is connected, whose child has the
\* device: no lock is left behind by retries and hangups.
LocksOwned ==
    NoneLeftDialing /\ spc # "dead" =>
        \A l \in Lines : lock[l] # 0 =>
            \E s \in Slots : client[s].fd # NoFd /\ client[s].pid = lock[l]

\* A device is used by one client, and locked for one that is there.
LinesSafe == LineExclusive /\ LocksOwned

\* When a client has hung up, its device becomes free, in the end, even if the
\* news of its child's end never reaches the server.
LinesFreed ==
    \A c \in Clients :
        UserIs(c, "over") ~>
            (\/ spc = "dead" \/ ~NoneLeftDialing
             \/ \A l \in Lines : lock[l] = 0 \/ child[lock[l]].fd # c)

=============================================================================
