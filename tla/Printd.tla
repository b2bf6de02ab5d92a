------------------------------- MODULE Printd -------------------------------
(***************************************************************************)
(* The print spooler of apue.2e/ipp/printd.c: the main thread, one thread   *)
(* for each client, and the printer thread, which share a queue of jobs and *)
(* a directory of data and control files that outlives the daemon.          *)
(*                                                                         *)
(* One step is one system call on the spool, one critical section, or one   *)
(* exchange with the client or the printer.  Job numbers do not wrap: the   *)
(* code's wrap needs a long to overflow.                                    *)
(***************************************************************************)
EXTENDS Integers, Sequences, FiniteSets

CONSTANTS
    Clients,    \* runs of the print command, each with one file to print
    MaxStarts,  \* bound: how often the daemon is started
    MaxFails    \* bound: failures of the printer thread's calls

ASSUME ParamAssumption == MaxStarts \in Nat /\ MaxFails \in Nat

VARIABLES
    data,       \* the data files, by job number: whose document, how much of it
    req,        \* the control files, by job number: whose request, complete or not
    jobno,      \* contents of the job ID file, 0 when empty
    main,       \* the main thread: where it is, and the job it works on
    todo,       \* entries of the request directory that readdir has yet to return
    nextjob, queue, reread,
    adds,       \* number of jobs queued since the start
    at,         \* where the printer thread is
    hand,       \* the job it has taken from the queue: <<>> or <<job>>
    doc,        \* what its open descriptor had when opened: <<>> or <<document>>
    took,       \* the printer has printed the job just sent to it
    thread,     \* thread[c]: where c's thread is, its job number, files to unlink
    told,       \* told[c]: the response c has had
    out,        \* what the printer has printed
    done,       \* clients whose job the printer has acknowledged
    lost,       \* jobs that a failed open has dropped since the start
    fails, starts

files   == <<data, req, jobno>>
daemon  == <<main, todo, nextjob, queue, reread, adds>>
printer == <<at, hand, doc, took>>
clients == <<thread, told>>
history == <<out, done, lost>>
bounds  == <<fails, starts>>
vars    == <<files, daemon, printer, clients, history, bounds>>

Create(dir, j, x) == [i \in DOMAIN dir \cup {j} |-> IF i = j THEN x ELSE dir[i]]
Unlink(dir, j)    == [i \in DOMAIN dir \ {j} |-> dir[i]]

Running == main.at # "down"
Fails   == fails < MaxFails /\ fails' = fails + 1 /\ UNCHANGED starts

\* add_job and what it stores.
Queued(j, c) ==
    /\ queue' = Append(queue, [id |-> j, req |-> c, turn |-> adds + 1])
    /\ adds' = adds + 1

\* pthread_cond_signal of jobwait.
Signalled == at' = IF at = "waiting" THEN "idle" ELSE at

-----------------------------------------------------------------------------
(* The main thread: init_request, build_qonstart, then accept.  SIGTERM, a  *)
(* crash or a fatal error in any thread ends them all.                      *)

Start ==
    /\ ~Running /\ starts < MaxStarts
    /\ starts' = starts + 1
    /\ nextjob' = IF jobno = 0 THEN 1 ELSE jobno
    /\ main' = [at |-> "build", id |-> 0]
    /\ todo' = DOMAIN req
    /\ at' = "idle"
    /\ UNCHANGED <<files, queue, reread, adds, hand, doc, took, clients, history, fails>>

MutShortQueued(j) ==
    /\ main.at = "build" /\ j \in todo
    /\ Queued(j, req[j].of)
    /\ main' = [main EXCEPT !.at = "signal"]
    /\ todo' = todo \ {j}
    /\ UNCHANGED <<files, nextjob, reread, printer, clients, history, bounds>>

BuildQueue(j) ==
    /\ main.at = "build" /\ j \in todo /\ req[j].whole
    /\ Queued(j, req[j].of)
    /\ main' = [main EXCEPT !.at = "signal"]
    /\ todo' = todo \ {j}
    /\ UNCHANGED <<files, nextjob, reread, printer, clients, history, bounds>>

BuildSignal ==
    /\ main.at = "signal"
    /\ Signalled
    /\ main' = [main EXCEPT !.at = "build"]
    /\ UNCHANGED <<files, todo, nextjob, queue, reread, adds, hand, doc, took, clients, history, bounds>>

\* A control file of the wrong size is unlinked, and its data file with it.
BuildShort(j) ==
    /\ main.at = "build" /\ j \in todo /\ ~req[j].whole
    /\ req' = Unlink(req, j)
    /\ main' = [at |-> "junk", id |-> j]
    /\ todo' = todo \ {j}
    /\ UNCHANGED <<data, jobno, nextjob, queue, reread, adds, printer, clients, history, bounds>>

BuildUnlink ==
    /\ main.at = "junk"
    /\ data' = Unlink(data, main.id)
    /\ main' = [at |-> "build", id |-> 0]
    /\ UNCHANGED <<req, jobno, todo, nextjob, queue, reread, adds, printer, clients, history, bounds>>

\* A control file that cannot be opened is passed over.
BuildSkip(j) ==
    /\ main.at = "build" /\ j \in todo
    /\ Fails
    /\ todo' = todo \ {j}
    /\ lost' = lost \cup {j}
    /\ UNCHANGED <<files, main, nextjob, queue, reread, adds, printer, clients, out, done>>

BuildEnd ==
    /\ main.at = "build" /\ todo = {}
    /\ main' = [main EXCEPT !.at = "serve"]
    /\ UNCHANGED <<files, todo, nextjob, queue, reread, adds, printer, clients, history, bounds>>

\* main creates c's thread.
Accept(c) ==
    /\ main.at = "serve" /\ thread[c].at = "new"
    /\ thread' = [thread EXCEPT ![c].at = "header"]
    /\ UNCHANGED <<files, daemon, printer, told, history, bounds>>

\* The end of every thread.  A job that was acknowledged but still has both
\* its files is not done: the next daemon will print it.
Ended ==
    /\ main' = [at |-> "down", id |-> 0]
    /\ todo' = {} /\ nextjob' = 0 /\ queue' = <<>> /\ reread' = FALSE /\ adds' = 0
    /\ at' = "idle" /\ hand' = <<>> /\ doc' = <<>> /\ took' = FALSE
    /\ thread' = [c \in Clients |->
                    IF thread[c].at = "new" THEN thread[c]
                    ELSE [thread[c] EXCEPT !.at = "ended", !.undo = <<>>]]
    /\ done' = {c \in done : thread[c].id \notin DOMAIN req \cap DOMAIN data}
    /\ lost' = {}
    /\ UNCHANGED <<files, told, out, bounds>>

Stop == Running /\ Ended

\* SIGHUP.
Hangup ==
    /\ Running /\ ~reread
    /\ reread' = TRUE
    /\ UNCHANGED <<files, main, todo, nextjob, queue, adds, printer, clients, history, bounds>>

-----------------------------------------------------------------------------
(* client_thread *)

ThreadAt(c, l)   == Running /\ thread[c].at = l
ThreadGoto(c, l) == thread' = [thread EXCEPT ![c].at = l]

\* The response that the request is refused, and then the files to unlink.
Refuse(c, undo) == thread' = [thread EXCEPT ![c].at = "refuse", ![c].undo = undo]

ReadHeader(c) ==
    /\ ThreadAt(c, "header")
    /\ ThreadGoto(c, "number") \/ Refuse(c, <<>>)
    /\ UNCHANGED <<files, daemon, printer, told, history, bounds>>

GetNewJobno(c) ==
    /\ ThreadAt(c, "number")
    /\ thread' = [thread EXCEPT ![c].at = "creat", ![c].id = nextjob]
    /\ nextjob' = nextjob + 1
    /\ UNCHANGED <<files, main, todo, queue, reread, adds, printer, told, history, bounds>>

CreateData(c) ==
    /\ ThreadAt(c, "creat")
    /\ \/ /\ data' = Create(data, thread[c].id, [of |-> c, got |-> "part"])
          /\ ThreadGoto(c, "spool")
       \/ Refuse(c, <<>>) /\ UNCHANGED data
    /\ UNCHANGED <<req, jobno, daemon, printer, told, history, bounds>>

\* The loop ends when nothing has come for 20 seconds, when the connection is
\* lost, at the end of file: with the whole document or only its beginning.
SpoolData(c) ==
    /\ ThreadAt(c, "spool")
    /\ \/ /\ \E got \in {"whole", "cut"} :
                data' = IF thread[c].id \in DOMAIN data
                        THEN Create(data, thread[c].id, [of |-> c, got |-> got]) ELSE data
          /\ ThreadGoto(c, "request")
       \/ Refuse(c, <<"data">>) /\ UNCHANGED data
    /\ UNCHANGED <<req, jobno, daemon, printer, told, history, bounds>>

CreateRequest(c) ==
    /\ ThreadAt(c, "request")
    /\ \/ /\ req' = Create(req, thread[c].id, [of |-> c, whole |-> FALSE])
          /\ ThreadGoto(c, "write")
       \/ Refuse(c, <<"data">>) /\ UNCHANGED req
    /\ UNCHANGED <<data, jobno, daemon, printer, told, history, bounds>>

WriteRequest(c) ==
    /\ ThreadAt(c, "write")
    /\ \/ /\ req' = IF thread[c].id \in DOMAIN req
                    THEN Create(req, thread[c].id, [of |-> c, whole |-> TRUE]) ELSE req
          /\ ThreadGoto(c, "respond")
       \/ Refuse(c, <<"request", "data">>) /\ UNCHANGED req
    /\ UNCHANGED <<data, jobno, daemon, printer, told, history, bounds>>

Respond(c) ==
    /\ ThreadAt(c, "respond")
    /\ told' = [told EXCEPT ![c] = "accepted"]
    /\ ThreadGoto(c, "add")
    /\ UNCHANGED <<files, daemon, printer, history, bounds>>

AddJob(c) ==
    /\ ThreadAt(c, "add")
    /\ Queued(thread[c].id, c)
    /\ ThreadGoto(c, "signal")
    /\ UNCHANGED <<files, main, todo, nextjob, reread, printer, told, history, bounds>>

MutNoSignal(c) ==
    /\ ThreadAt(c, "signal")
    /\ ThreadGoto(c, "ended")
    /\ UNCHANGED <<files, daemon, printer, told, history, bounds>>

Signal(c) ==
    /\ ThreadAt(c, "signal")
    /\ Signalled
    /\ ThreadGoto(c, "ended")
    /\ UNCHANGED <<files, daemon, hand, doc, took, told, history, bounds>>

RespondRefused(c) ==
    /\ ThreadAt(c, "refuse")
    /\ told' = [told EXCEPT ![c] = "refused"]
    /\ ThreadGoto(c, "undo")
    /\ UNCHANGED <<files, daemon, printer, history, bounds>>

Undo(c) ==
    /\ ThreadAt(c, "undo")
    /\ LET undo == thread[c].undo
       IN  /\ data' = IF undo # <<>> /\ Head(undo) = "data" THEN Unlink(data, thread[c].id) ELSE data
           /\ req' = IF undo # <<>> /\ Head(undo) = "request" THEN Unlink(req, thread[c].id) ELSE req
           /\ IF undo = <<>> THEN ThreadGoto(c, "ended")
              ELSE thread' = [thread EXCEPT ![c].undo = Tail(undo)]
    /\ UNCHANGED <<jobno, daemon, printer, told, history, bounds>>

-----------------------------------------------------------------------------
(* printer_thread *)

PrinterAt(l) == Running /\ at = l

CondWait ==
    /\ PrinterAt("idle") /\ queue = <<>>
    /\ at' = "waiting"
    /\ UNCHANGED <<files, daemon, hand, doc, took, clients, history, bounds>>

Pick ==
    /\ PrinterAt("idle") /\ queue # <<>>
    /\ hand' = <<Head(queue)>> /\ queue' = Tail(queue)
    /\ at' = "update"
    /\ UNCHANGED <<files, main, todo, nextjob, reread, adds, doc, took, clients, history, bounds>>

UpdateJobno ==
    /\ PrinterAt("update")
    /\ jobno' = nextjob
    /\ at' = "config"
    /\ UNCHANGED <<data, req, daemon, hand, doc, took, clients, history, bounds>>

Reconfigure ==
    /\ PrinterAt("config")
    /\ reread' = FALSE
    /\ at' = "open"
    /\ UNCHANGED <<files, main, todo, nextjob, queue, adds, hand, doc, took, clients, history, bounds>>

\* init_printer finds no printer in the changed configuration and exits.
NoPrinter == PrinterAt("config") /\ reread /\ Ended

OpenData ==
    /\ PrinterAt("open") /\ hand[1].id \in DOMAIN data
    /\ doc' = <<data[hand[1].id]>>
    /\ at' = "send"
    /\ UNCHANGED <<files, daemon, hand, took, clients, history, bounds>>

\* The job is cancelled; its control file stays.
OpenFails ==
    /\ PrinterAt("open")
    /\ IF hand[1].id \in DOMAIN data THEN Fails ELSE UNCHANGED bounds
    /\ lost' = lost \cup {hand[1].id}
    /\ hand' = <<>>
    /\ at' = "idle"
    /\ UNCHANGED <<files, daemon, doc, took, clients, out, done>>

\* The printer gets the document as it was opened or as it is now, and prints
\* it or not.
SendJob ==
    /\ PrinterAt("send")
    /\ \/ \E d \in {doc[1]} \cup {data[j] : j \in DOMAIN data \cap {hand[1].id}} :
             /\ out' = out \cup {[req |-> hand[1].req, of |-> d.of, got |-> d.got]}
             /\ took' = TRUE
          /\ UNCHANGED bounds
       \/ Fails /\ UNCHANGED out /\ took' = FALSE
    /\ at' = "status"
    /\ UNCHANGED <<files, daemon, hand, doc, clients, done, lost>>

SendFails ==
    /\ PrinterAt("send")
    /\ Fails
    /\ at' = "defer"
    /\ UNCHANGED <<files, daemon, hand, doc, took, clients, history>>

MutSuccessDeferred ==
    /\ PrinterAt("status") /\ took
    /\ done' = done \cup {hand[1].req}
    /\ at' = "defer"
    /\ UNCHANGED <<files, daemon, hand, doc, took, clients, out, lost, bounds>>

StatusOK ==
    /\ PrinterAt("status") /\ took
    /\ done' = done \cup {hand[1].req}
    /\ at' = "unlinkdata"
    /\ UNCHANGED <<files, daemon, hand, doc, took, clients, out, lost, bounds>>

MutUnlinkAlways ==
    /\ PrinterAt("status")
    /\ IF took THEN Fails ELSE UNCHANGED bounds
    /\ at' = "unlinkdata"
    /\ UNCHANGED <<files, daemon, hand, doc, took, clients, history>>

\* The printer has refused the job, or its answer does not come.
StatusFails ==
    /\ PrinterAt("status")
    /\ IF took THEN Fails ELSE UNCHANGED bounds
    /\ at' = "defer"
    /\ UNCHANGED <<files, daemon, hand, doc, took, clients, history>>

\* The end of the header is not among the bytes that came first: the search for it
\* stops two bytes before their end, where i >= nr is never true, asks for no
\* more, and goes round for ever.
StatusSpins ==
    /\ PrinterAt("status")
    /\ at' = "spinning"
    /\ UNCHANGED <<files, daemon, hand, doc, took, clients, history, bounds>>

UnlinkData ==
    /\ PrinterAt("unlinkdata")
    /\ data' = Unlink(data, hand[1].id)
    /\ at' = "unlinkrequest"
    /\ UNCHANGED <<req, jobno, daemon, hand, doc, took, clients, history, bounds>>

UnlinkRequest ==
    /\ PrinterAt("unlinkrequest")
    /\ req' = Unlink(req, hand[1].id)
    /\ hand' = <<>> /\ doc' = <<>> /\ took' = FALSE
    /\ at' = "idle"
    /\ UNCHANGED <<data, jobno, daemon, clients, history, bounds>>

MutToTail ==
    /\ PrinterAt("defer")
    /\ queue' = queue \o hand
    /\ hand' = <<>> /\ doc' = <<>> /\ took' = FALSE
    /\ at' = "asleep"
    /\ UNCHANGED <<files, main, todo, nextjob, reread, adds, clients, history, bounds>>

\* replace_job
Defer ==
    /\ PrinterAt("defer")
    /\ queue' = hand \o queue
    /\ hand' = <<>> /\ doc' = <<>> /\ took' = FALSE
    /\ at' = "asleep"
    /\ UNCHANGED <<files, main, todo, nextjob, reread, adds, clients, history, bounds>>

Wake ==
    /\ PrinterAt("asleep")
    /\ at' = "idle"
    /\ UNCHANGED <<files, daemon, hand, doc, took, clients, history, bounds>>

-----------------------------------------------------------------------------
Build == (\E j \in todo : BuildQueue(j) \/ BuildShort(j) \/ BuildSkip(j))
         \/ BuildSignal \/ BuildUnlink \/ BuildEnd
Thread(c) == \/ ReadHeader(c) \/ GetNewJobno(c) \/ CreateData(c) \/ SpoolData(c) \/ CreateRequest(c)
             \/ WriteRequest(c) \/ Respond(c) \/ AddJob(c) \/ Signal(c) \/ RespondRefused(c) \/ Undo(c)
Printing == \/ CondWait \/ Pick \/ UpdateJobno \/ Reconfigure \/ OpenData \/ OpenFails \/ SendJob \/ SendFails
         \/ StatusOK \/ StatusFails \/ StatusSpins \/ UnlinkData \/ UnlinkRequest \/ Defer \/ Wake

Init ==
    /\ data = <<>> /\ req = <<>> /\ jobno = 0
    /\ main = [at |-> "down", id |-> 0] /\ todo = {}
    /\ nextjob = 0 /\ queue = <<>> /\ reread = FALSE /\ adds = 0
    /\ at = "idle" /\ hand = <<>> /\ doc = <<>> /\ took = FALSE
    /\ thread = [c \in Clients |-> [at |-> "new", id |-> 0, undo |-> <<>>]]
    /\ told = [c \in Clients |-> "nothing"]
    /\ out = {} /\ done = {} /\ lost = {}
    /\ fails = 0 /\ starts = 0

\* The daemon is down for good.
Over == ~Running /\ starts = MaxStarts /\ UNCHANGED vars

Next == \/ Start \/ Stop \/ NoPrinter \/ Hangup \/ Build \/ Printing \/ Over
        \/ \E c \in Clients : Accept(c) \/ Thread(c)

\* Each thread is scheduled; reads from a client and from the printer time out.
Fairness == WF_vars(Build) /\ WF_vars(Printing) /\ \A c \in Clients : WF_vars(Thread(c))

Spec == Init /\ [][Next]_vars /\ Fairness

-----------------------------------------------------------------------------
(* Properties. *)

\* c's job number is nobody else's.
OwnNumber(c) ==
    thread[c].id # 0 /\ \A d \in Clients \ {c} : thread[d].id # thread[c].id

\* "Update the job ID file with the next job number" (printd.c:236): the next
\* daemon starts with a number that no job has.  But the number is saved only
\* when a job is picked up; when the daemon stops, jobs that arrived later have
\* gone past it, and a new job is spooled into the files of one accepted before.
NumbersUnique ==
    \A c, d \in Clients :
        c # d /\ told[c] = "accepted" /\ told[d] = "accepted" /\ c \notin done =>
            thread[c].id # thread[d].id

\* Once a client has been told that its job is accepted, the spool has its
\* request and its document until the printer has acknowledged the job, whatever
\* stops the daemon and however often the printer fails.
AcceptedKept ==
    \A c \in Clients : told[c] = "accepted" /\ OwnNumber(c) /\ c \notin done =>
        LET j == thread[c].id
        IN  /\ j \in DOMAIN req /\ req[j].of = c /\ req[j].whole
            /\ j \in DOMAIN data /\ data[j].of = c /\ data[j].got # "part"

\* The places where c's job is in memory: its thread, the printer thread's hand,
\* the queue, and what build_qonstart has still to read.
Places(c) ==
    (IF thread[c].at = "add" THEN 1 ELSE 0)
    + Cardinality({i \in DOMAIN (hand \o queue) : (hand \o queue)[i].req = c})
    + (IF thread[c].id \in todo THEN 1 ELSE 0)

\* In a running daemon an accepted job is in exactly one place, so that it will
\* be printed and only once, after any deferral and any restart.
HeldOnce ==
    \A c \in Clients :
        Running /\ told[c] = "accepted" /\ OwnNumber(c) /\ thread[c].id \notin lost =>
            Places(c) \in IF c \in done THEN {0, 1} ELSE {1}

\* A deferred job keeps its turn: jobs leave in the order they were queued.
KeepsOrder ==
    LET q == hand \o queue
    IN  \A i, j \in DOMAIN q : i < j => q[i].turn < q[j].turn

\* Nothing is lost or doubled in memory, and nothing overtakes.
QueueSound == HeldOnce /\ KeepsOrder

\* What is printed under c's name is c's document, and not while it is still
\* being received.
PrintedRight == \A p \in out : OwnNumber(p.req) => p.of = p.req /\ p.got # "part"

\* A client that was told that its job is refused does not get it printed, by
\* this daemon or by the next.
RefusedNotPrinted ==
    \A c \in Clients : told[c] = "refused" /\ OwnNumber(c) => \A p \in out : p.req # c

\* The paper: what was accepted, as it was sent, and nothing that was refused.
PrintsAccepted == PrintedRight /\ RefusedNotPrinted

\* An acknowledged job is not printed again; only if the daemon stopped before
\* it had unlinked the data file may the next one do so.
PrintedOnce ==
    [][\A c \in done : OwnNumber(c) => ~(took' /\ ~took /\ hand[1].req = c)]_vars

\* An accepted job is acknowledged in the end, unless the daemon stops, the job's
\* data file cannot be opened, the printer fails again and again, or the printer
\* thread is caught in printer_status: no wakeup is lost between add_job and the
\* printer thread, no job is forgotten when it is put back.
AllPrinted ==
    \A c \in Clients : told[c] = "accepted" ~>
        (c \in done \/ ~Running \/ thread[c].id \in lost \/ at = "spinning")

=============================================================================
