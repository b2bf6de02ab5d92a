-------------------------------- MODULE Opend -------------------------------
(***************************************************************************)
(* The open server in its three forms and its clients: the daemon with     *)
(* the poll loop, the daemon with the select loop, and the private server  *)
(* that csopen forks and executes.  A client opens files by name, one      *)
(* after another, and keeps its connection.                                *)
(***************************************************************************)
EXTENDS Conn, FiniteSets, FiniteSetsExt

CONSTANTS
    Forms,       \* the forms of the server to consider
    Files,       \* names that can be opened
    Missing,     \* names that cannot
    Odd,         \* lines that are not one word: the server sees too few or too many arguments
    Long,        \* names of which the request is longer than MAXLINE
    Asks,        \* Asks[c]: the names that client c may read from its input
    MaxOpens,    \* MaxOpens[c]: how many names client c has
    Killable,    \* clients that may be killed
    NoFd         \* the fd of a free entry (-1)

VARIABLES
    form,        \* "poll", "select" or "private"
    spc,         \* where the daemon's loop is
    at,          \* the entry it has come to
    client,      \* client[]: the fd of each entry
    maxi,        \* the highest entry ever used
    watched,     \* pollfd[].fd, or the fds of allset
    revents,     \* pollfd[].revents, or the entries of rset
    user         \* user[c]: the program openclient

vars == <<form, spc, at, client, maxi, watched, revents, user, streams>>

Names  == Files \cup Missing \cup Odd \cup Long
Slots  == 1 .. Cardinality(Clients)
Events == {"in", "hup"}

ASSUME ParamAssumption ==
    /\ IsFiniteSet(Clients) /\ NoFd \notin Clients /\ Killable \subseteq Clients
    /\ Forms \subseteq {"poll", "select", "private"} /\ MaxOpens \in [Clients -> Nat]
    /\ Missing \cap Files = {} /\ (Odd \cup Long) \cap (Files \cup Missing) = {}
    /\ Odd \cap Long = {} /\ \A c \in Clients : Asks[c] \subseteq Names

\* What a client writes, as the server's reads of MAXLINE bytes can split it.
Parts(n) == IF n \in Long THEN <<[name |-> n, is |-> "head"], [name |-> n, is |-> "tail"]>>
                          ELSE <<[name |-> n, is |-> "all"]>>

-----------------------------------------------------------------------------
(* request.  One read takes all that is there, up to MAXLINE, and what       *)
(* follows the first null byte is not looked at.                             *)

\* What the read leaves in the connection.
AfterRead(q) == IF Head(q).is = "head" THEN Tail(q) ELSE <<>>

\* buf_args and cli_args: three words, of which the first is "open".
CliArgs(r) == r.is = "all" /\ r.name \notin Odd

Answer(r) ==
    IF r.is = "head" THEN AnErr("not terminated")
    ELSE IF ~CliArgs(r) THEN AnErr("usage")
    ELSE IF r.name \in Files THEN AnFd(r.name) ELSE AnErr("cannot open")

\* Into errmsg[MAXLINE] go the MAXLINE bytes that came and the text in front of
\* them: what lies behind errmsg is overwritten, which the server survives or not.
Overflows(c) == Head(conn[c].req).is = "head"

MutWrongFd(c) ==
    LET d == IF maxi = 0 \/ client[maxi] = NoFd THEN c ELSE client[maxi]
        r == Head(conn[c].req)
        k == [conn EXCEPT ![c].req = AfterRead(@)]
    IN  [k EXCEPT ![d].back = Append(@, Answer(r))]

\* The connections after request has served client c.
Request(c) ==
    [conn EXCEPT ![c].req = AfterRead(@), ![c].back = Append(@, Answer(Head(conn[c].req)))]

\* The server is no more: SIGPIPE when it answers a client that has gone, or the
\* fault of a write behind errmsg.
Die ==
    /\ spc' = "dead"
    /\ conn' = [c \in Clients |-> IF SrvOpen(c) THEN SrvClose(conn, c)[c] ELSE conn[c]]
    /\ backlog' = <<>>

-----------------------------------------------------------------------------
(* loop of the daemon. *)

EventsOf(c) == (IF Readable(c) THEN {"in"} ELSE {}) \cup (IF HungUp(c) THEN {"hup"} ELSE {})

Reported ==
    [s \in Slots |->
        IF s > maxi THEN revents[s]
        ELSE IF watched[s] = NoFd THEN {}
        ELSE IF form = "poll" THEN EventsOf(watched[s]) ELSE EventsOf(watched[s]) \cap {"in"}]

\* The walk goes on behind entry n, in the tables cl and rv, to the next entry
\* with something to do, or is over.
GoOn(n, cl, rv, mx) ==
    LET busy == {s \in n + 1 .. mx : cl[s] # NoFd /\ rv[s] # {}}
    IN  IF busy # {} THEN spc' = "scan" /\ at' = Min(busy) /\ revents' = rv
                     ELSE spc' = "wait" /\ at' = 0 /\ revents' = [s \in Slots |-> {}]

\* poll or select returns.  The select loop accepts or looks at its clients;
\* the poll loop does both.
Wait ==
    /\ spc = "wait"
    /\ backlog # <<>> \/ \E s \in Slots : s <= maxi /\ Reported[s] # {}
    /\ IF backlog # <<>> THEN spc' = "accept" /\ at' = 0 /\ revents' = Reported
                         ELSE GoOn(0, client, Reported, maxi)
    /\ UNCHANGED <<form, client, maxi, watched, user, streams>>

\* client_add: the first free entry.
ClientAdd == Min({s \in Slots : client[s] = NoFd})

MutMaxiLow(s) == maxi

NewMaxi(s) == IF s > maxi THEN s ELSE maxi

\* The revents of a pollfd that poll has never seen are what malloc left there.
Accept ==
    LET s == ClientAdd
    IN  /\ spc = "accept"
        /\ \E c \in Clients :
              /\ ServAccept(c)
              /\ client' = [client EXCEPT ![s] = c]
              /\ watched' = [watched EXCEPT ![s] = c]
        /\ maxi' = NewMaxi(s)
        /\ \/ form = "select" /\ GoOn(maxi', client', revents, maxi')
           \/ form = "poll" /\ s <= maxi /\ GoOn(0, client', revents, maxi')
           \/ /\ form = "poll" /\ s > maxi
              /\ \E junk \in SUBSET Events :
                    GoOn(0, client', [revents EXCEPT ![s] = junk], maxi')
        /\ UNCHANGED <<form, user>>

AtClient(c) == spc = "scan" /\ client[at] = c

\* read blocks until there is something to read or the client has closed.
ReadRequest(c) ==
    /\ AtClient(c) /\ revents[at] = {"in"} /\ HasData(c)
    /\ \/ /\ HungUp(c) \/ Overflows(c)
          /\ Die /\ UNCHANGED <<at, revents>>
       \/ /\ ~HungUp(c) /\ conn' = Request(c)
          /\ GoOn(at, client, revents, maxi) /\ UNCHANGED backlog
    /\ UNCHANGED <<form, client, maxi, watched, user>>

MutStillWatched(c) ==
    /\ AtClient(c)
    /\ "hup" \in revents[at] \/ (HungUp(c) /\ ~HasData(c))
    /\ client' = [client EXCEPT ![at] = NoFd]
    /\ conn' = SrvClose(conn, c)
    /\ GoOn(at, client, revents, maxi)
    /\ UNCHANGED <<form, maxi, watched, user, backlog>>

\* POLLHUP, or the end of file: client_del.
HangUp(c) ==
    /\ AtClient(c)
    /\ "hup" \in revents[at] \/ (HungUp(c) /\ ~HasData(c))
    /\ client' = [client EXCEPT ![at] = NoFd]
    /\ watched' = [watched EXCEPT ![at] = NoFd]
    /\ conn' = SrvClose(conn, c)
    /\ GoOn(at, client, revents, maxi)
    /\ UNCHANGED <<form, maxi, user, backlog>>

-----------------------------------------------------------------------------
(* The private server, opend of opend.fe, on its standard input and output. *)

Private(c) == form = "private" /\ SrvOpen(c)

PrivateRequest(c) ==
    /\ Private(c) /\ HasData(c)
    /\ \/ (HungUp(c) \/ Overflows(c)) /\ conn' = SrvClose(conn, c)
       \/ ~HungUp(c) /\ conn' = Request(c)
    /\ UNCHANGED <<form, spc, at, client, maxi, watched, revents, user, backlog>>

PrivateExit(c) ==
    /\ Private(c) /\ HungUp(c) /\ ~HasData(c)
    /\ conn' = SrvClose(conn, c)
    /\ UNCHANGED <<form, spc, at, client, maxi, watched, revents, user, backlog>>

-----------------------------------------------------------------------------
(* openclient: main and csopen. *)

Set(c, v) == user' = [user EXCEPT ![c].st = v]

\* The first csopen connects, or makes a stream pipe and forks the server.
Connect(c) ==
    /\ user[c].st = "start"
    /\ \/ form = "private" /\ UNCHANGED backlog /\ Set(c, "ready")
          /\ conn' = [conn EXCEPT ![c] = [NewConn EXCEPT !.cli = "open", !.srv = "open"]]
       \/ form # "private" /\ spc # "dead" /\ CliConn(c) /\ Set(c, "ready")
       \/ form # "private" /\ spc = "dead" /\ Set(c, "broken") /\ UNCHANGED streams
    /\ UNCHANGED <<form, spc, at, client, maxi, watched, revents>>

AskedLong(c) == \E j \in DOMAIN user[c].log : user[c].log[j].name \in Long

\* writev: SIGPIPE if the server has closed the connection.  (A client has one
\* name that is too long: a bound.)
Writev(c) ==
    /\ user[c].st = "ready" /\ Len(user[c].log) < MaxOpens[c]
    /\ \/ /\ conn[c].srv # "closed" /\ ~(spc = "dead" /\ form # "private")
          /\ \E n \in Asks[c] : /\ n \in Long => ~AskedLong(c)
                                /\ user' = [user EXCEPT ![c].st = "waiting", ![c].name = n]
                                /\ conn' = [conn EXCEPT ![c].req = @ \o Parts(n)]
       \/ /\ conn[c].srv = "closed" \/ (spc = "dead" /\ form # "private")
          /\ Set(c, "broken") /\ conn' = CliClose(conn, c)
    /\ UNCHANGED <<form, spc, at, client, maxi, watched, revents, backlog>>

\* recv_fd: the descriptor of a file, which main copies, or an error.
GetFd(c) ==
    /\ user[c].st = "waiting" /\ Len(conn[c].back) = 1
    /\ user' = [user EXCEPT ![c].st = "ready",
                            ![c].log = Append(@, [name |-> user[c].name, got |-> Head(conn[c].back)])]
    /\ conn' = RecvFd(conn, c)
    /\ UNCHANGED <<form, spc, at, client, maxi, watched, revents, backlog>>

\* recv_fd: "message format error", when one recvmsg takes two answers.
FormatError(c) ==
    /\ user[c].st = "waiting" /\ Len(conn[c].back) > 1
    /\ Set(c, "broken") /\ conn' = CliClose(conn, c)
    /\ UNCHANGED <<form, spc, at, client, maxi, watched, revents, backlog>>

\* recv_fd: "connection closed by server".
Closed(c) ==
    /\ user[c].st = "waiting" /\ conn[c].back = <<>>
    /\ conn[c].srv = "closed" \/ (spc = "dead" /\ form # "private")
    /\ Set(c, "broken") /\ conn' = CliClose(conn, c)
    /\ UNCHANGED <<form, spc, at, client, maxi, watched, revents, backlog>>

\* The end of main's input.
Exit(c) ==
    /\ user[c].st = "ready" /\ user[c].log # <<>>
    /\ Set(c, "done") /\ conn' = CliClose(conn, c)
    /\ UNCHANGED <<form, spc, at, client, maxi, watched, revents, backlog>>

Killed(c) ==
    /\ c \in Killable /\ user[c].st \in {"ready", "waiting"}
    /\ Set(c, "killed") /\ conn' = CliClose(conn, c)
    /\ UNCHANGED <<form, spc, at, client, maxi, watched, revents, backlog>>

-----------------------------------------------------------------------------
Init ==
    /\ ServListen
    /\ form \in Forms
    /\ spc = "wait" /\ at = 0 /\ maxi = 0
    /\ client = [s \in Slots |-> NoFd] /\ watched = [s \in Slots |-> NoFd]
    /\ revents = [s \in Slots |-> {}]
    /\ user = [c \in Clients |-> [st |-> "start", name |-> CHOOSE n \in Names : TRUE, log |-> <<>>]]

Server ==
    form # "private" /\ (\/ Wait \/ Accept
                         \/ \E c \in Clients : ReadRequest(c) \/ HangUp(c))
Serve(c) == PrivateRequest(c) \/ PrivateExit(c)
CsOpen(c) == Connect(c) \/ Writev(c) \/ GetFd(c) \/ FormatError(c) \/ Closed(c)

\* Everyone has finished and the server waits for the next client.
Idle == /\ \A c \in Clients : user[c].st \in {"done", "killed", "broken", "waiting"} /\ ~Private(c)
        /\ spc \in {"wait", "dead"}

Next ==
    \/ Server
    \/ \E c \in Clients : Serve(c) \/ CsOpen(c) \/ Exit(c) \/ Killed(c)
    \/ (Idle /\ UNCHANGED vars)

\* A client between two names may wait for its user.
InOpen(c) == user[c].st = "ready" => user[c].log = <<>>

\* The servers run, and a client that has begun an open goes on with it.
Fairness == /\ WF_vars(Server)
            /\ \A c \in Clients : WF_vars(Serve(c)) /\ WF_vars(InOpen(c) /\ CsOpen(c))

Spec == Init /\ [][Next]_vars /\ Fairness

-----------------------------------------------------------------------------
(* Properties. *)

\* What an open of n returns.
Promised(n) ==
    CASE n \in Files   -> AnFd(n)
      [] n \in Missing -> AnErr("cannot open")
      [] n \in Odd     -> AnErr("usage")
      [] n \in Long    -> AnErr("not terminated")

\* csopen returns what its own request asks for, however the requests of other
\* clients, in the same loop and table, come between.  A name that is longer
\* than the server's buffer ends the server, or it brings two answers and spoils
\* the opens after it.
OwnFile ==
    \A c \in Clients : \A i \in DOMAIN user[c].log :
        (\A j \in 1 .. i - 1 : user[c].log[j].name \notin Long) =>
            user[c].log[i].got = Promised(user[c].log[i].name)

\* Whenever the daemon waits, it waits for every connection it has accepted,
\* once, at an entry its walk reaches, and for nothing else, however
\* entries are freed and used again.
WatchesAll ==
    form # "private" /\ spc = "wait" =>
        /\ watched = client
        /\ \A c \in Clients :
              Cardinality({s \in 1 .. maxi : client[s] = c}) = IF SrvOpen(c) THEN 1 ELSE 0

\* Every open ends, with an answer or with a lost connection, although the poll
\* loop may block in the read of one client while others wait.  A request that
\* follows a name that is too long can be lost.
EveryOpenEnds ==
    \A c \in Clients :
        (user[c].st = "waiting" /\ ~AskedLong(c)) ~> (user[c].st # "waiting")

=============================================================================
