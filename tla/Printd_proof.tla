---------------------------- MODULE Printd_proof ----------------------------
(***************************************************************************)
(* The print spooler for any number of clients, starts and failures: an    *)
(* accepted job stays in the spool until it is printed, it is in memory    *)
(* once, and what is printed is what was accepted.                         *)
(***************************************************************************)
EXTENDS Printd, FiniteSetTheorems, SequenceTheorems, TLAPS

Phases == {"new", "header", "number", "creat", "spool", "request", "write", "respond", "add",
           "signal", "refuse", "undo", "ended"}
Jobs   == [id : Nat, req : Clients, turn : Nat]
Busy   == {"update", "config", "open", "send", "status", "spinning", "unlinkdata", "unlinkrequest",
           "defer"}

Types ==
    /\ main \in [at : {"down", "build", "signal", "junk", "serve"}, id : Nat]
    /\ nextjob \in Nat /\ jobno \in Nat /\ adds \in Nat /\ (Running => nextjob # 0)
    /\ at \in Busy \cup {"idle", "waiting", "asleep"}
    /\ queue \in Seq(Jobs)
    /\ hand \in Seq(Jobs) /\ Len(hand) = IF at \in Busy THEN 1 ELSE 0
    /\ thread \in [Clients -> [at : Phases, id : Nat, undo : Seq({"data", "request"})]]
    /\ told \in [Clients -> {"nothing", "accepted", "refused"}]
    /\ took \in BOOLEAN /\ done \subseteq Clients

\* d has job number k.
Has(d, k) == d \in Clients /\ thread[d].id = k /\ k # 0

\* Whatever is kept under a number, on disk, in memory or on paper, names a
\* client that has this number.
Numbered ==
    /\ \A k \in DOMAIN data : Has(data[k].of, k)
    /\ \A k \in DOMAIN req : Has(req[k].of, k) /\ req[k].whole \in BOOLEAN
    /\ \A i \in DOMAIN queue : Has(queue[i].req, queue[i].id)
    /\ hand # <<>> => Has(hand[1].req, hand[1].id)
    /\ at = "send" => Has(doc[1].of, hand[1].id)
    /\ \A p \in out : p.req \in Clients /\ Has(p.of, thread[p.req].id)

\* Where the threads are while the main thread is elsewhere.
Stages ==
    /\ main.at # "serve" => \A c \in Clients : thread[c].at \in {"new", "ended"}
    /\ main.at \in {"down", "serve"} => todo = {}
    /\ ~Running => queue = <<>> /\ at = "idle"
    /\ todo \subseteq DOMAIN req
    /\ \A i \in DOMAIN queue : queue[i].id \notin todo
    /\ hand # <<>> => hand[1].id \notin todo
    /\ \A c \in Clients :
          /\ thread[c].at \in {"new", "header", "number"} => thread[c].id = 0
          /\ thread[c].at \in {"creat", "spool", "request", "write", "respond", "add"} => thread[c].id # 0
          /\ told[c] = "accepted" => thread[c].at \in {"add", "signal", "ended"}
          /\ told[c] = "refused" => thread[c].at \in {"undo", "ended"}
          /\ thread[c].at = "undo" => told[c] = "refused"
          /\ c \in done => thread[c].id # 0

\* Jobs are queued in the order of their turns.
Turns ==
    /\ \A i, j \in DOMAIN queue : i < j => queue[i].turn < queue[j].turn
    /\ \A i \in DOMAIN queue : queue[i].turn <= adds
    /\ hand # <<>> => hand[1].turn <= adds /\ \A i \in DOMAIN queue : hand[1].turn < queue[i].turn

InHand(c)  == hand # <<>> /\ hand[1].req = c
InQueue(c) == \E i \in DOMAIN queue : queue[i].req = c

\* The thread of c has handed its job over, and has not refused it.
Past(c) == thread[c].at \in {"signal", "ended"} /\ told[c] # "refused"

\* What the spool has of c's job, by the state of its thread.
Spooled(c) ==
    LET j == thread[c].id  l == thread[c].at  IN
    /\ l \in {"creat", "spool", "request"} => j \notin DOMAIN req
    /\ l \in {"spool", "request", "write", "respond", "add"} => j \in DOMAIN data
    /\ l \in {"request", "write", "respond", "add"} => data[j].got # "part"
    /\ l \in {"write", "respond", "add"} => j \in DOMAIN req
    /\ l \in {"respond", "add"} => req[j].whole = TRUE
    /\ j \in DOMAIN req /\ j \in DOMAIN data => data[j].got # "part"
    /\ j \in DOMAIN req /\ req[j].whole = TRUE => l \in {"respond", "add"} \/ Past(c)
    /\ told[c] = "accepted" /\ j \in DOMAIN req => req[j].whole = TRUE
    /\ told[c] = "accepted" /\ c \notin done => j \in DOMAIN req /\ j \in DOMAIN data
    /\ main.at = "junk" /\ main.id = j => told[c] # "accepted"

\* What memory and paper have of it.
Held(c) ==
    LET j == thread[c].id  IN
    /\ InHand(c) \/ InQueue(c) =>
          Past(c) /\ (j \in DOMAIN data => data[j].got # "part" /\ j \in DOMAIN req)
    /\ at = "send" /\ InHand(c) => doc[1].got # "part"
    /\ \A p \in out : p.req = c => p.got # "part" /\ Past(c)
    /\ c \in done => thread[c].at \in {"signal", "ended"}
    /\ c \in done /\ j \in DOMAIN data => at = "unlinkdata" /\ InHand(c)
    /\ at \in {"send", "status", "spinning", "defer"} /\ InHand(c) => c \notin done
    /\ at \in {"unlinkdata", "unlinkrequest"} /\ InHand(c) => c \in done
    /\ InHand(c) => ~InQueue(c)
    /\ \A i, k \in DOMAIN queue : queue[i].req = c /\ queue[k].req = c => i = k
    /\ Running /\ told[c] = "accepted" /\ j \notin lost /\ c \notin done =>
          thread[c].at = "add" \/ InHand(c) \/ InQueue(c) \/ j \in todo

PrintInv ==
    /\ Types /\ Numbered /\ Stages /\ Turns
    /\ \A c \in Clients : OwnNumber(c) => Spooled(c) /\ Held(c)

-----------------------------------------------------------------------------

\* A number that is a client's own stays its own only while it was.
LEMMA OwnBefore ==
    ASSUME NEW c \in Clients, \A d \in Clients : thread'[d].id = thread[d].id, OwnNumber(c)'
    PROVE  OwnNumber(c)
BY DEF OwnNumber

\* The printer thread has a job exactly while it is busy.
LEMMA HandIs ==
    ASSUME Types, Numbered
    PROVE  /\ at \in Busy => /\ hand # <<>> /\ hand[1] \in Jobs
                              /\ Has(hand[1].req, hand[1].id)
           /\ at \notin Busy => hand = <<>>
<1>1. ASSUME at \in Busy PROVE hand # <<>> /\ hand[1] \in Jobs
    <2>1. hand \in Seq(Jobs) /\ Len(hand) = 1
        BY <1>1 DEF Types
    <2>2. hand # <<>>
        BY <2>1
    <2>3. hand[1] \in Jobs
        BY <2>1
    <2> QED
        BY <2>2, <2>3
<1>2. ASSUME at \notin Busy PROVE hand = <<>>
    <2>1. hand \in Seq(Jobs) /\ Len(hand) = 0
        BY <1>2 DEF Types
    <2> QED
        BY <2>1
<1> QED
    BY <1>1, <1>2 DEF Numbered

\* What has the number of a client that is its only owner is this client's.
LEMMA Owned ==
    ASSUME Numbered, NEW c \in Clients, OwnNumber(c)
    PROVE  LET j == thread[c].id IN
           /\ hand # <<>> => (hand[1].id = j <=> InHand(c))
           /\ \A i \in DOMAIN queue : queue[i].id = j <=> queue[i].req = c
           /\ j \in DOMAIN data => data[j].of = c
           /\ j \in DOMAIN req => req[j].of = c
BY DEF Numbered, Has, OwnNumber, InHand

-----------------------------------------------------------------------------
(* What a step does to the queue and to the threads, entry by entry. *)

\* add_job: the job is behind all others.
LEMMA QueuedStep ==
    ASSUME Types, NEW k \in Nat, NEW c \in Clients, Queued(k, c)
    PROVE  LET n == Len(queue) + 1 IN
           /\ queue' \in Seq(Jobs) /\ adds' = adds + 1
           /\ DOMAIN queue' = DOMAIN queue \cup {n} /\ n \in Nat
           /\ \A i \in DOMAIN queue : i \in Nat /\ i < n /\ queue'[i] = queue[i]
           /\ queue'[n].id = k /\ queue'[n].req = c /\ queue'[n].turn = adds + 1
<1> DEFINE job == [id |-> k, req |-> c, turn |-> adds + 1]
<1>1. queue \in Seq(Jobs) /\ job \in Jobs
    BY DEF Types, Jobs
<1>2. queue' = Append(queue, job) /\ adds' = adds + 1
    BY DEF Queued
<1>3. job.id = k /\ job.req = c /\ job.turn = adds + 1
    OBVIOUS
<1> HIDE DEF job
<1>4. /\ queue' \in Seq(Jobs) /\ queue'[Len(queue) + 1] = job /\ Len(queue) \in Nat
      /\ DOMAIN queue = 1 .. Len(queue) /\ DOMAIN queue' = 1 .. Len(queue) + 1
      /\ \A i \in 1 .. Len(queue) : queue'[i] = queue[i]
    BY <1>1, <1>2
<1> QED
    BY <1>2, <1>3, <1>4

\* The printer thread takes the first job.
LEMMA PickStep ==
    ASSUME Types, queue # <<>>, hand' = <<Head(queue)>>, queue' = Tail(queue)
    PROVE  /\ queue' \in Seq(Jobs) /\ hand' \in Seq(Jobs) /\ Len(hand') = 1
           /\ hand' # <<>> /\ 1 \in DOMAIN queue /\ hand'[1] = queue[1]
           /\ \A i \in DOMAIN queue' : i \in Nat /\ i + 1 \in DOMAIN queue
                                        /\ queue'[i] = queue[i + 1] /\ 1 < i + 1
           /\ \A i \in DOMAIN queue : i = 1 \/ (i - 1 \in DOMAIN queue' /\ queue'[i - 1] = queue[i])
<1>1. queue \in Seq(Jobs)
    BY DEF Types
<1>2. Head(queue) \in Jobs /\ Head(queue) = queue[1] /\ 1 \in DOMAIN queue
    BY <1>1
<1>3. hand' \in Seq(Jobs) /\ Len(hand') = 1 /\ hand'[1] = queue[1]
    BY <1>2
<1>4. hand' # <<>>
    BY <1>3
<1>5. /\ queue' \in Seq(Jobs)
      /\ \A i \in DOMAIN queue' : i \in Nat /\ i + 1 \in DOMAIN queue
                                   /\ queue'[i] = queue[i + 1] /\ 1 < i + 1
      /\ \A i \in DOMAIN queue : i = 1 \/ (i - 1 \in DOMAIN queue' /\ queue'[i - 1] = queue[i])
    <2> DEFINE n == Len(queue)
    <2>1. /\ n \in Nat /\ n # 0 /\ DOMAIN queue = 1 .. n
          /\ queue' \in Seq(Jobs) /\ DOMAIN queue' = 1 .. n - 1
        BY <1>1
    <2>2. \A i \in 1 .. n - 1 : queue'[i] = queue[i + 1]
        BY <1>1
    <2> HIDE DEF n
    <2>3. /\ \A i \in 1 .. n : i = 1 \/ (i - 1 \in 1 .. n - 1 /\ (i - 1) + 1 = i)
          /\ \A i \in 1 .. n - 1 : i \in Nat /\ i + 1 \in 1 .. n /\ 1 < i + 1
        BY <2>1
    <2>4. \A i \in 1 .. n : i = 1 \/ queue'[i - 1] = queue[i]
        BY <2>2, <2>3
    <2>5. \A i \in DOMAIN queue : i = 1 \/ (i - 1 \in DOMAIN queue' /\ queue'[i - 1] = queue[i])
        BY <2>1, <2>3, <2>4
    <2>6. \A i \in DOMAIN queue' : i \in Nat /\ i + 1 \in DOMAIN queue
                                   /\ queue'[i] = queue[i + 1] /\ 1 < i + 1
        BY <2>1, <2>2, <2>3
    <2> QED
        BY <2>1, <2>5, <2>6
<1> QED
    BY <1>2, <1>3, <1>4, <1>5

\* The job in the printer thread's hand before the queue: what replace_job makes.
LEMMA ReplaceStep ==
    ASSUME Types, at \in Busy, NEW q, q = hand \o queue
    PROVE  /\ q \in Seq(Jobs) /\ 1 \in DOMAIN q /\ q[1] = hand[1]
           /\ \A i \in DOMAIN queue : i \in Nat /\ 1 < i + 1 /\ i + 1 \in DOMAIN q
                                       /\ q[i + 1] = queue[i]
           /\ \A i \in DOMAIN q : i \in Nat /\
                  (i = 1 \/ (1 < i /\ i - 1 \in DOMAIN queue /\ q[i] = queue[i - 1]))
<1>1. queue \in Seq(Jobs) /\ hand \in Seq(Jobs) /\ Len(hand) = 1
    BY DEF Types
<1> DEFINE n == Len(queue)
<1>2. /\ n \in Nat /\ DOMAIN queue = 1 .. n /\ q \in Seq(Jobs) /\ Len(q) = 1 + n
      /\ \A i \in 1 .. 1 + n : q[i] = IF i <= 1 THEN hand[i] ELSE queue[i - 1]
    BY <1>1, ConcatProperties
<1> HIDE DEF n
<1>3. DOMAIN q = 1 .. n + 1
    BY <1>2
<1>4. /\ \A i \in 1 .. n + 1 : i = 1 \/ (1 < i /\ i - 1 \in 1 .. n)
      /\ \A i \in 1 .. n : i \in Nat /\ 1 < i + 1 /\ i + 1 \in 1 .. n + 1 /\ (i + 1) - 1 = i
    BY <1>2
<1>5. q[1] = hand[1] /\ \A i \in 1 .. n : q[i + 1] = queue[i]
    BY <1>2, <1>4
<1>6. \A i \in 1 .. n + 1 : i = 1 \/ q[i] = queue[i - 1]
    BY <1>2, <1>4
<1>7. 1 \in DOMAIN q /\ \A i \in DOMAIN queue : i \in Nat /\ 1 < i + 1 /\ i + 1 \in DOMAIN q
                                                /\ q[i + 1] = queue[i]
    BY <1>2, <1>3, <1>4, <1>5
<1>8. \A i \in DOMAIN q : i \in Nat /\
          (i = 1 \/ (1 < i /\ i - 1 \in DOMAIN queue /\ q[i] = queue[i - 1]))
    BY <1>2, <1>3, <1>4, <1>6
<1> QED
    BY <1>2, <1>5, <1>7, <1>8

Threads == [at : Phases, id : Nat, undo : Seq({"data", "request"})]

\* A thread goes on to another step.
LEMMA GotoStep ==
    ASSUME Types, NEW c \in Clients, NEW l \in Phases, ThreadGoto(c, l)
    PROVE  /\ thread' \in [Clients -> Threads]
           /\ \A d \in Clients : d # c => thread'[d] = thread[d]
           /\ thread'[c].at = l /\ thread'[c].id = thread[c].id
<1>1. thread \in [Clients -> Threads] /\ thread[c] \in Threads
    BY DEF Types, Threads
<1>2. thread' = [thread EXCEPT ![c] = [thread[c] EXCEPT !.at = l]]
    BY DEF ThreadGoto
<1>3. [thread[c] EXCEPT !.at = l] \in Threads
    BY <1>1 DEF Threads
<1> QED
    BY <1>1, <1>2, <1>3 DEF Threads

\* A thread gives up.
LEMMA RefuseStep ==
    ASSUME Types, NEW c \in Clients, NEW u \in Seq({"data", "request"}), Refuse(c, u)
    PROVE  /\ thread' \in [Clients -> Threads]
           /\ \A d \in Clients : d # c => thread'[d] = thread[d]
           /\ thread'[c].at = "refuse" /\ thread'[c].id = thread[c].id
<1>1. thread \in [Clients -> Threads] /\ thread[c] \in Threads
    BY DEF Types, Threads
<1>2. thread' = [thread EXCEPT ![c] = [thread[c] EXCEPT !.at = "refuse", !.undo = u]]
    BY DEF Refuse
<1>3. "refuse" \in Phases
    BY DEF Phases
<1>4. [thread[c] EXCEPT !.at = "refuse", !.undo = u] \in Threads
    BY <1>1, <1>3 DEF Threads
<1> QED
    BY <1>1, <1>2, <1>4 DEF Threads

\* A job that is added is the last in turn.
LEMMA TurnsAdd ==
    ASSUME Types, Numbered, Turns, NEW n \in Nat,
           DOMAIN queue' = DOMAIN queue \cup {n}, adds' = adds + 1, UNCHANGED hand,
           \A i \in DOMAIN queue : i \in Nat /\ i < n /\ queue'[i] = queue[i],
           queue'[n].turn = adds + 1
    PROVE  Turns'
<1>1. adds \in Nat /\ \A i \in DOMAIN queue : queue[i].turn \in Nat
    <2>1. queue \in Seq(Jobs) /\ adds \in Nat
        BY DEF Types
    <2>2. \A i \in DOMAIN queue : queue[i] \in Jobs
        BY <2>1
    <2> QED
        BY <2>1, <2>2 DEF Jobs
<1>2. hand # <<>> => hand[1].turn \in Nat
    BY HandIs DEF Jobs
<1>3. \A i \in DOMAIN queue' : queue'[i].turn <= adds'
    BY <1>1 DEF Turns
<1>4. ASSUME NEW i \in DOMAIN queue', NEW j \in DOMAIN queue', i < j
      PROVE  queue'[i].turn < queue'[j].turn
    <2>1. i # n
        BY <1>4
    <2>2. CASE j = n
        BY <1>1, <2>1, <2>2 DEF Turns
    <2>3. CASE j # n
        BY <1>4, <2>1, <2>3 DEF Turns
    <2> QED
        BY <2>2, <2>3
<1>5. ASSUME hand # <<>>
      PROVE  hand[1].turn <= adds + 1 /\ \A i \in DOMAIN queue' : hand[1].turn < queue'[i].turn
    BY <1>1, <1>2, <1>5 DEF Turns
<1> QED
    BY <1>3, <1>4, <1>5 DEF Turns

-----------------------------------------------------------------------------
(* Each action keeps the invariant. *)

\* pthread_cond_wait: the queue is empty and the printer thread sleeps.
LEMMA CondWaitKeeps ==
    ASSUME PrintInv, CondWait
    PROVE  PrintInv'
<1> USE DEF PrinterAt, ThreadAt, files, daemon, printer, clients, history, bounds
<1>1. Types'
    BY DEF PrintInv, CondWait, Types, Running, Busy
<1>2. Numbered'
    BY DEF PrintInv, CondWait, Numbered, Has
<1>3. Stages'
    BY DEF PrintInv, CondWait, Stages, Running
<1>4. Turns'
    BY DEF PrintInv, CondWait, Turns
<1>5. ASSUME NEW c \in Clients, OwnNumber(c)' PROVE Spooled(c)' /\ Held(c)'
    <2>1. OwnNumber(c)
        BY <1>5, OwnBefore DEF CondWait
    <2>2. Spooled(c)'
        BY <2>1 DEF PrintInv, CondWait, Spooled, Past
    <2>3. Held(c)'
        BY <2>1 DEF PrintInv, CondWait, Held, Past, InHand, InQueue, Running
    <2> QED
        BY <2>2, <2>3
<1> QED
    BY <1>1, <1>2, <1>3, <1>4, <1>5 DEF PrintInv

\* update_jobno, from the counter that the client threads share.
LEMMA UpdateJobnoKeeps ==
    ASSUME PrintInv, UpdateJobno
    PROVE  PrintInv'
<1> USE DEF PrinterAt, ThreadAt, files, daemon, printer, clients, history, bounds
<1>1. Types'
    BY DEF PrintInv, UpdateJobno, Types, Running, Busy
<1>2. Numbered'
    BY DEF PrintInv, UpdateJobno, Numbered, Has
<1>3. Stages'
    BY DEF PrintInv, UpdateJobno, Stages, Running
<1>4. Turns'
    BY DEF PrintInv, UpdateJobno, Turns
<1>5. ASSUME NEW c \in Clients, OwnNumber(c)' PROVE Spooled(c)' /\ Held(c)'
    <2>1. OwnNumber(c)
        BY <1>5, OwnBefore DEF UpdateJobno
    <2>2. Spooled(c)'
        BY <2>1 DEF PrintInv, UpdateJobno, Spooled, Past
    <2>3. Held(c)'
        BY <2>1 DEF PrintInv, UpdateJobno, Held, Past, InHand, InQueue, Running
    <2> QED
        BY <2>2, <2>3
<1> QED
    BY <1>1, <1>2, <1>3, <1>4, <1>5 DEF PrintInv

\* The configuration is read again.
LEMMA ReconfigureKeeps ==
    ASSUME PrintInv, Reconfigure
    PROVE  PrintInv'
<1> USE DEF PrinterAt, ThreadAt, files, daemon, printer, clients, history, bounds
<1>1. Types'
    BY DEF PrintInv, Reconfigure, Types, Running, Busy
<1>2. Numbered'
    BY DEF PrintInv, Reconfigure, Numbered, Has
<1>3. Stages'
    BY DEF PrintInv, Reconfigure, Stages, Running
<1>4. Turns'
    BY DEF PrintInv, Reconfigure, Turns
<1>5. ASSUME NEW c \in Clients, OwnNumber(c)' PROVE Spooled(c)' /\ Held(c)'
    <2>1. OwnNumber(c)
        BY <1>5, OwnBefore DEF Reconfigure
    <2>2. Spooled(c)'
        BY <2>1 DEF PrintInv, Reconfigure, Spooled, Past
    <2>3. Held(c)'
        BY <2>1 DEF PrintInv, Reconfigure, Held, Past, InHand, InQueue, Running
    <2> QED
        BY <2>2, <2>3
<1> QED
    BY <1>1, <1>2, <1>3, <1>4, <1>5 DEF PrintInv

\* The data file is opened: it has the whole document of its client.
LEMMA OpenDataKeeps ==
    ASSUME PrintInv, OpenData
    PROVE  PrintInv'
<1> USE DEF PrinterAt, ThreadAt, files, daemon, printer, clients, history, bounds
<1>1. Types'
    BY DEF PrintInv, OpenData, Types, Running, Busy
<1>2. Numbered'
    BY DEF PrintInv, OpenData, Numbered, Has
<1>3. Stages'
    BY DEF PrintInv, OpenData, Stages, Running
<1>4. Turns'
    BY DEF PrintInv, OpenData, Turns
<1>5. ASSUME NEW c \in Clients, OwnNumber(c)' PROVE Spooled(c)' /\ Held(c)'
    <2>1. OwnNumber(c)
        BY <1>5, OwnBefore DEF OpenData
    <2>2. InHand(c) => hand[1].id = thread[c].id
        BY DEF PrintInv, Numbered, Has, InHand
    <2>3. Spooled(c)'
        BY <2>1 DEF PrintInv, OpenData, Spooled, Past
    <2>4. Held(c)'
        BY <2>1, <2>2 DEF PrintInv, OpenData, Held, Past, InHand, InQueue, Running
    <2> QED
        BY <2>3, <2>4
<1> QED
    BY <1>1, <1>2, <1>3, <1>4, <1>5 DEF PrintInv

\* The data file cannot be opened, and the job is dropped.
LEMMA OpenFailsKeeps ==
    ASSUME PrintInv, OpenFails
    PROVE  PrintInv'
<1> USE DEF PrinterAt, ThreadAt, files, daemon, printer, clients, history, bounds
<1>1. hand # <<>> /\ hand[1] \in Jobs /\ Has(hand[1].req, hand[1].id)
    BY HandIs DEF PrintInv, OpenFails, Busy
<1>2. Types'
    BY DEF PrintInv, OpenFails, Types, Running, Busy
<1>3. Numbered'
    BY DEF PrintInv, OpenFails, Numbered, Has
<1>4. Stages'
    BY DEF PrintInv, OpenFails, Stages, Running
<1>5. Turns'
    BY DEF PrintInv, OpenFails, Turns
<1>6. ASSUME NEW c \in Clients, OwnNumber(c)' PROVE Spooled(c)' /\ Held(c)'
    <2>1. OwnNumber(c)
        BY <1>6, OwnBefore DEF OpenFails
    <2>2. LET j == thread[c].id IN
          /\ hand # <<>> => (hand[1].id = j <=> InHand(c))
          /\ \A i \in DOMAIN queue : queue[i].id = j <=> queue[i].req = c
          /\ j \in DOMAIN data => data[j].of = c
          /\ j \in DOMAIN req => req[j].of = c
        BY <2>1, Owned DEF PrintInv
    <2>3. Spooled(c)'
        BY <2>1 DEF PrintInv, OpenFails, Spooled, Past
    <2>4. Held(c)'
        BY <1>1, <2>1, <2>2 DEF PrintInv, OpenFails, Held, Past, InHand, InQueue, Running
    <2> QED
        BY <2>3, <2>4
<1> QED
    BY <1>2, <1>3, <1>4, <1>5, <1>6 DEF PrintInv

\* The job goes to the printer.
LEMMA SendJobKeeps ==
    ASSUME PrintInv, SendJob
    PROVE  PrintInv'
<1> USE DEF PrinterAt, ThreadAt, files, daemon, printer, clients, history, bounds
<1>1. hand # <<>> /\ hand[1] \in Jobs /\ Has(hand[1].req, hand[1].id)
    BY HandIs DEF PrintInv, SendJob, Busy
<1>2. Types'
    BY DEF PrintInv, SendJob, Types, Running, Busy
<1>3. Numbered'
    BY <1>1 DEF PrintInv, SendJob, Numbered, Has
<1>4. Stages'
    BY DEF PrintInv, SendJob, Stages, Running
<1>5. Turns'
    BY DEF PrintInv, SendJob, Turns
<1>6. ASSUME NEW c \in Clients, OwnNumber(c)' PROVE Spooled(c)' /\ Held(c)'
    <2>1. OwnNumber(c)
        BY <1>6, OwnBefore DEF SendJob
    <2>2. LET j == thread[c].id IN
          /\ hand # <<>> => (hand[1].id = j <=> InHand(c))
          /\ \A i \in DOMAIN queue : queue[i].id = j <=> queue[i].req = c
          /\ j \in DOMAIN data => data[j].of = c
          /\ j \in DOMAIN req => req[j].of = c
        BY <2>1, Owned DEF PrintInv
    <2>3. Spooled(c)'
        BY <2>1 DEF PrintInv, SendJob, Spooled, Past
    <2>4. Held(c)'
        BY <1>1, <2>1, <2>2 DEF PrintInv, SendJob, Held, Past, InHand, InQueue, Running
    <2> QED
        BY <2>3, <2>4
<1> QED
    BY <1>2, <1>3, <1>4, <1>5, <1>6 DEF PrintInv

\* The printer cannot be reached.
LEMMA SendFailsKeeps ==
    ASSUME PrintInv, SendFails
    PROVE  PrintInv'
<1> USE DEF PrinterAt, ThreadAt, files, daemon, printer, clients, history, bounds
<1>1. Types'
    BY DEF PrintInv, SendFails, Fails, Types, Running, Busy
<1>2. Numbered'
    BY DEF PrintInv, SendFails, Fails, Numbered, Has
<1>3. Stages'
    BY DEF PrintInv, SendFails, Fails, Stages, Running
<1>4. Turns'
    BY DEF PrintInv, SendFails, Fails, Turns
<1>5. ASSUME NEW c \in Clients, OwnNumber(c)' PROVE Spooled(c)' /\ Held(c)'
    <2>1. OwnNumber(c)
        BY <1>5, OwnBefore DEF SendFails, Fails
    <2>2. Spooled(c)'
        BY <2>1 DEF PrintInv, SendFails, Fails, Spooled, Past
    <2>3. Held(c)'
        BY <2>1 DEF PrintInv, SendFails, Fails, Held, Past, InHand, InQueue, Running
    <2> QED
        BY <2>2, <2>3
<1> QED
    BY <1>1, <1>2, <1>3, <1>4, <1>5 DEF PrintInv

\* printer_status: the printer has acknowledged the job.
LEMMA StatusOKKeeps ==
    ASSUME PrintInv, StatusOK
    PROVE  PrintInv'
<1> USE DEF PrinterAt, ThreadAt, files, daemon, printer, clients, history, bounds
<1>1. hand # <<>> /\ hand[1] \in Jobs /\ Has(hand[1].req, hand[1].id)
    BY HandIs DEF PrintInv, StatusOK, Busy
<1>2. Types'
    BY <1>1 DEF PrintInv, StatusOK, Types, Running, Busy, Has
<1>3. Numbered'
    BY DEF PrintInv, StatusOK, Numbered, Has
<1>4. Stages'
    BY <1>1 DEF PrintInv, StatusOK, Stages, Running, Has
<1>5. Turns'
    BY DEF PrintInv, StatusOK, Turns
<1>6. ASSUME NEW c \in Clients, OwnNumber(c)' PROVE Spooled(c)' /\ Held(c)'
    <2>1. OwnNumber(c)
        BY <1>6, OwnBefore DEF StatusOK
    <2>2. LET j == thread[c].id IN
          /\ hand # <<>> => (hand[1].id = j <=> InHand(c))
          /\ \A i \in DOMAIN queue : queue[i].id = j <=> queue[i].req = c
          /\ j \in DOMAIN data => data[j].of = c
          /\ j \in DOMAIN req => req[j].of = c
        BY <2>1, Owned DEF PrintInv
    <2>3. Spooled(c)'
        BY <2>1 DEF PrintInv, StatusOK, Spooled, Past
    <2>4. Held(c)'
        BY <1>1, <2>1, <2>2 DEF PrintInv, StatusOK, Held, Past, InHand, InQueue, Running
    <2> QED
        BY <2>3, <2>4
<1> QED
    BY <1>2, <1>3, <1>4, <1>5, <1>6 DEF PrintInv

\* printer_status: the printer has refused it, or has not answered.
LEMMA StatusFailsKeeps ==
    ASSUME PrintInv, StatusFails
    PROVE  PrintInv'
<1> USE DEF PrinterAt, ThreadAt, files, daemon, printer, clients, history, bounds
<1>1. Types'
    BY DEF PrintInv, StatusFails, Types, Running, Busy
<1>2. Numbered'
    BY DEF PrintInv, StatusFails, Numbered, Has
<1>3. Stages'
    BY DEF PrintInv, StatusFails, Stages, Running
<1>4. Turns'
    BY DEF PrintInv, StatusFails, Turns
<1>5. ASSUME NEW c \in Clients, OwnNumber(c)' PROVE Spooled(c)' /\ Held(c)'
    <2>1. OwnNumber(c)
        BY <1>5, OwnBefore DEF StatusFails
    <2>2. Spooled(c)'
        BY <2>1 DEF PrintInv, StatusFails, Spooled, Past
    <2>3. Held(c)'
        BY <2>1 DEF PrintInv, StatusFails, Held, Past, InHand, InQueue, Running
    <2> QED
        BY <2>2, <2>3
<1> QED
    BY <1>1, <1>2, <1>3, <1>4, <1>5 DEF PrintInv

\* printer_status looks for the end of the header for ever.
LEMMA StatusSpinsKeeps ==
    ASSUME PrintInv, StatusSpins
    PROVE  PrintInv'
<1> USE DEF PrinterAt, ThreadAt, files, daemon, printer, clients, history, bounds
<1>1. Types'
    BY DEF PrintInv, StatusSpins, Types, Running, Busy
<1>2. Numbered'
    BY DEF PrintInv, StatusSpins, Numbered, Has
<1>3. Stages'
    BY DEF PrintInv, StatusSpins, Stages, Running
<1>4. Turns'
    BY DEF PrintInv, StatusSpins, Turns
<1>5. ASSUME NEW c \in Clients, OwnNumber(c)' PROVE Spooled(c)' /\ Held(c)'
    <2>1. OwnNumber(c)
        BY <1>5, OwnBefore DEF StatusSpins
    <2>2. Spooled(c)'
        BY <2>1 DEF PrintInv, StatusSpins, Spooled, Past
    <2>3. Held(c)'
        BY <2>1 DEF PrintInv, StatusSpins, Held, Past, InHand, InQueue, Running
    <2> QED
        BY <2>2, <2>3
<1> QED
    BY <1>1, <1>2, <1>3, <1>4, <1>5 DEF PrintInv

\* The data file of an acknowledged job is unlinked,
LEMMA UnlinkDataKeeps ==
    ASSUME PrintInv, UnlinkData
    PROVE  PrintInv'
<1> USE DEF PrinterAt, ThreadAt, files, daemon, printer, clients, history, bounds
<1>1. hand # <<>> /\ hand[1] \in Jobs /\ Has(hand[1].req, hand[1].id)
    BY HandIs DEF PrintInv, UnlinkData, Busy
<1>2. Types'
    BY DEF PrintInv, UnlinkData, Unlink, Types, Running, Busy
<1>3. Numbered'
    BY DEF PrintInv, UnlinkData, Unlink, Numbered, Has
<1>4. Stages'
    BY DEF PrintInv, UnlinkData, Unlink, Stages, Running
<1>5. Turns'
    BY DEF PrintInv, UnlinkData, Unlink, Turns
<1>6. ASSUME NEW c \in Clients, OwnNumber(c)' PROVE Spooled(c)' /\ Held(c)'
    <2>1. OwnNumber(c)
        BY <1>6, OwnBefore DEF UnlinkData, Unlink
    <2>2. LET j == thread[c].id IN
          /\ hand # <<>> => (hand[1].id = j <=> InHand(c))
          /\ \A i \in DOMAIN queue : queue[i].id = j <=> queue[i].req = c
          /\ j \in DOMAIN data => data[j].of = c
          /\ j \in DOMAIN req => req[j].of = c
        BY <2>1, Owned DEF PrintInv
    <2>3. Spooled(c)'
        BY <1>1, <2>1, <2>2 DEF PrintInv, UnlinkData, Unlink, Spooled, Held, Past, InHand
    <2>4. Held(c)'
        BY <1>1, <2>1, <2>2 DEF PrintInv, UnlinkData, Unlink, Held, Past, InHand, InQueue, Running
    <2> QED
        BY <2>3, <2>4
<1> QED
    BY <1>2, <1>3, <1>4, <1>5, <1>6 DEF PrintInv

\* and then its control file.
LEMMA UnlinkRequestKeeps ==
    ASSUME PrintInv, UnlinkRequest
    PROVE  PrintInv'
<1> USE DEF PrinterAt, ThreadAt, files, daemon, printer, clients, history, bounds
<1>1. hand # <<>> /\ hand[1] \in Jobs /\ Has(hand[1].req, hand[1].id)
    BY HandIs DEF PrintInv, UnlinkRequest, Busy
<1>2. Types'
    <2>1. hand' \in Seq(Jobs) /\ Len(hand') = 0
        BY DEF UnlinkRequest
    <2>2. at' = "idle" /\ took' = FALSE /\ UNCHANGED <<jobno, daemon, clients, done>>
        BY DEF UnlinkRequest
    <2> QED
        BY <2>1, <2>2 DEF PrintInv, Types, Running, Busy
<1>3. Numbered'
    BY DEF PrintInv, UnlinkRequest, Unlink, Numbered, Has
<1>4. Stages'
    BY <1>1 DEF PrintInv, UnlinkRequest, Unlink, Stages, Running
<1>5. Turns'
    BY DEF PrintInv, UnlinkRequest, Unlink, Turns
<1>6. ASSUME NEW c \in Clients, OwnNumber(c)' PROVE Spooled(c)' /\ Held(c)'
    <2>1. OwnNumber(c)
        BY <1>6, OwnBefore DEF UnlinkRequest, Unlink
    <2>2. LET j == thread[c].id IN
          /\ hand # <<>> => (hand[1].id = j <=> InHand(c))
          /\ \A i \in DOMAIN queue : queue[i].id = j <=> queue[i].req = c
          /\ j \in DOMAIN data => data[j].of = c
          /\ j \in DOMAIN req => req[j].of = c
        BY <2>1, Owned DEF PrintInv
    <2>3. Spooled(c)'
        BY <1>1, <2>1, <2>2 DEF PrintInv, UnlinkRequest, Unlink, Spooled, Held, Past, InHand
    <2>4. Held(c)'
        BY <1>1, <2>1, <2>2 DEF PrintInv, UnlinkRequest, Unlink, Held, Past, InHand, InQueue, Running
    <2> QED
        BY <2>3, <2>4
<1> QED
    BY <1>2, <1>3, <1>4, <1>5, <1>6 DEF PrintInv

\* The printer thread has slept after a failure.
LEMMA WakeKeeps ==
    ASSUME PrintInv, Wake
    PROVE  PrintInv'
<1> USE DEF PrinterAt, ThreadAt, files, daemon, printer, clients, history, bounds
<1>1. Types'
    BY DEF PrintInv, Wake, Types, Running, Busy
<1>2. Numbered'
    BY DEF PrintInv, Wake, Numbered, Has
<1>3. Stages'
    BY DEF PrintInv, Wake, Stages, Running
<1>4. Turns'
    BY DEF PrintInv, Wake, Turns
<1>5. ASSUME NEW c \in Clients, OwnNumber(c)' PROVE Spooled(c)' /\ Held(c)'
    <2>1. OwnNumber(c)
        BY <1>5, OwnBefore DEF Wake
    <2>2. Spooled(c)'
        BY <2>1 DEF PrintInv, Wake, Spooled, Past
    <2>3. Held(c)'
        BY <2>1 DEF PrintInv, Wake, Held, Past, InHand, InQueue, Running
    <2> QED
        BY <2>2, <2>3
<1> QED
    BY <1>1, <1>2, <1>3, <1>4, <1>5 DEF PrintInv

\* SIGHUP.
LEMMA HangupKeeps ==
    ASSUME PrintInv, Hangup
    PROVE  PrintInv'
<1> USE DEF PrinterAt, ThreadAt, files, daemon, printer, clients, history, bounds
<1>1. Types'
    BY DEF PrintInv, Hangup, Types, Running, Busy
<1>2. Numbered'
    BY DEF PrintInv, Hangup, Numbered, Has
<1>3. Stages'
    BY DEF PrintInv, Hangup, Stages, Running
<1>4. Turns'
    BY DEF PrintInv, Hangup, Turns
<1>5. ASSUME NEW c \in Clients, OwnNumber(c)' PROVE Spooled(c)' /\ Held(c)'
    <2>1. OwnNumber(c)
        BY <1>5, OwnBefore DEF Hangup
    <2>2. Spooled(c)'
        BY <2>1 DEF PrintInv, Hangup, Spooled, Past
    <2>3. Held(c)'
        BY <2>1 DEF PrintInv, Hangup, Held, Past, InHand, InQueue, Running
    <2> QED
        BY <2>2, <2>3
<1> QED
    BY <1>1, <1>2, <1>3, <1>4, <1>5 DEF PrintInv

\* build_qonstart wakes the printer thread.
LEMMA BuildSignalKeeps ==
    ASSUME PrintInv, BuildSignal
    PROVE  PrintInv'
<1> USE DEF PrinterAt, ThreadAt, files, daemon, printer, clients, history, bounds
<1>1. Types'
    BY DEF PrintInv, BuildSignal, Signalled, Types, Running, Busy
<1>2. Numbered'
    BY DEF PrintInv, BuildSignal, Signalled, Numbered, Has
<1>3. Stages'
    BY DEF PrintInv, BuildSignal, Signalled, Stages, Running
<1>4. Turns'
    BY DEF PrintInv, BuildSignal, Signalled, Turns
<1>5. ASSUME NEW c \in Clients, OwnNumber(c)' PROVE Spooled(c)' /\ Held(c)'
    <2>1. OwnNumber(c)
        BY <1>5, OwnBefore DEF BuildSignal, Signalled
    <2>2. Spooled(c)'
        BY <2>1 DEF PrintInv, BuildSignal, Signalled, Spooled, Past
    <2>3. Held(c)'
        BY <2>1 DEF PrintInv, BuildSignal, Signalled, Held, Past, InHand, InQueue, Running
    <2> QED
        BY <2>2, <2>3
<1> QED
    BY <1>1, <1>2, <1>3, <1>4, <1>5 DEF PrintInv

\* build_qonstart unlinks a control file that is too short: nobody was told of it.
LEMMA BuildShortKeeps ==
    ASSUME PrintInv, NEW j \in todo, BuildShort(j)
    PROVE  PrintInv'
<1> USE DEF PrinterAt, ThreadAt, files, daemon, printer, clients, history, bounds
<1>1. Types'
    <2>1. j \in Nat
        BY DEF PrintInv, Types, Stages, Numbered, Has
    <2> QED
        BY <2>1 DEF PrintInv, BuildShort, Types, Running, Busy
<1>2. Numbered'
    BY DEF PrintInv, BuildShort, Unlink, Numbered, Has
<1>3. Stages'
    BY DEF PrintInv, BuildShort, Unlink, Stages, Running
<1>4. Turns'
    BY DEF PrintInv, BuildShort, Unlink, Turns
<1>5. ASSUME NEW c \in Clients, OwnNumber(c)' PROVE Spooled(c)' /\ Held(c)'
    <2>1. OwnNumber(c)
        BY <1>5, OwnBefore DEF BuildShort, Unlink
    <2>2. LET m == thread[c].id IN
          /\ hand # <<>> => (hand[1].id = m <=> InHand(c))
          /\ \A i \in DOMAIN queue : queue[i].id = m <=> queue[i].req = c
          /\ m \in DOMAIN data => data[m].of = c
          /\ m \in DOMAIN req => req[m].of = c
        BY <2>1, Owned DEF PrintInv
    <2>3. Spooled(c)'
        BY <2>1, <2>2 DEF PrintInv, BuildShort, Unlink, Spooled, Past, Stages
    <2>4. Held(c)'
        BY <2>1, <2>2 DEF PrintInv, BuildShort, Unlink, Held, Spooled, Stages, Past, InHand, InQueue, Running
    <2> QED
        BY <2>3, <2>4
<1> QED
    BY <1>1, <1>2, <1>3, <1>4, <1>5 DEF PrintInv

\* and its data file.
LEMMA BuildUnlinkKeeps ==
    ASSUME PrintInv, BuildUnlink
    PROVE  PrintInv'
<1> USE DEF PrinterAt, ThreadAt, files, daemon, printer, clients, history, bounds
<1>1. Types'
    BY DEF PrintInv, BuildUnlink, Unlink, Types, Running, Busy
<1>2. Numbered'
    BY DEF PrintInv, BuildUnlink, Unlink, Numbered, Has
<1>3. Stages'
    BY DEF PrintInv, BuildUnlink, Unlink, Stages, Running
<1>4. Turns'
    BY DEF PrintInv, BuildUnlink, Unlink, Turns
<1>5. ASSUME NEW c \in Clients, OwnNumber(c)' PROVE Spooled(c)' /\ Held(c)'
    <2>1. OwnNumber(c)
        BY <1>5, OwnBefore DEF BuildUnlink, Unlink
    <2>2. LET j == thread[c].id IN
          /\ hand # <<>> => (hand[1].id = j <=> InHand(c))
          /\ \A i \in DOMAIN queue : queue[i].id = j <=> queue[i].req = c
          /\ j \in DOMAIN data => data[j].of = c
          /\ j \in DOMAIN req => req[j].of = c
        BY <2>1, Owned DEF PrintInv
    <2>3. Spooled(c)'
        BY <2>1, <2>2 DEF PrintInv, BuildUnlink, Unlink, Spooled, Past, Stages
    <2>4. Held(c)'
        BY <2>1 DEF PrintInv, BuildUnlink, Unlink, Held, Past, InHand, InQueue, Running
    <2> QED
        BY <2>3, <2>4
<1> QED
    BY <1>1, <1>2, <1>3, <1>4, <1>5 DEF PrintInv

\* build_qonstart passes over a control file.
LEMMA BuildSkipKeeps ==
    ASSUME PrintInv, NEW j \in todo, BuildSkip(j)
    PROVE  PrintInv'
<1> USE DEF PrinterAt, ThreadAt, files, daemon, printer, clients, history, bounds
<1>1. Types'
    BY DEF PrintInv, BuildSkip, Types, Running, Busy
<1>2. Numbered'
    BY DEF PrintInv, BuildSkip, Numbered, Has
<1>3. Stages'
    BY DEF PrintInv, BuildSkip, Stages, Running
<1>4. Turns'
    BY DEF PrintInv, BuildSkip, Turns
<1>5. ASSUME NEW c \in Clients, OwnNumber(c)' PROVE Spooled(c)' /\ Held(c)'
    <2>1. OwnNumber(c)
        BY <1>5, OwnBefore DEF BuildSkip
    <2>2. Spooled(c)'
        BY <2>1 DEF PrintInv, BuildSkip, Spooled, Past
    <2>3. Held(c)'
        BY <2>1 DEF PrintInv, BuildSkip, Held, Past, InHand, InQueue, Running
    <2> QED
        BY <2>2, <2>3
<1> QED
    BY <1>1, <1>2, <1>3, <1>4, <1>5 DEF PrintInv

\* build_qonstart has read the directory.
LEMMA BuildEndKeeps ==
    ASSUME PrintInv, BuildEnd
    PROVE  PrintInv'
<1> USE DEF PrinterAt, ThreadAt, files, daemon, printer, clients, history, bounds
<1>1. Types'
    BY DEF PrintInv, BuildEnd, Types, Running, Busy
<1>2. Numbered'
    BY DEF PrintInv, BuildEnd, Numbered, Has
<1>3. Stages'
    BY DEF PrintInv, BuildEnd, Stages, Running
<1>4. Turns'
    BY DEF PrintInv, BuildEnd, Turns
<1>5. ASSUME NEW c \in Clients, OwnNumber(c)' PROVE Spooled(c)' /\ Held(c)'
    <2>1. OwnNumber(c)
        BY <1>5, OwnBefore DEF BuildEnd
    <2>2. Spooled(c)'
        BY <2>1 DEF PrintInv, BuildEnd, Spooled, Past
    <2>3. Held(c)'
        BY <2>1 DEF PrintInv, BuildEnd, Held, Past, InHand, InQueue, Running
    <2> QED
        BY <2>2, <2>3
<1> QED
    BY <1>1, <1>2, <1>3, <1>4, <1>5 DEF PrintInv

\* The daemon starts: all it knows is in the directory.
LEMMA StartKeeps ==
    ASSUME PrintInv, Start
    PROVE  PrintInv'
<1> USE DEF PrinterAt, ThreadAt, files, daemon, printer, clients, history, bounds
<1>1. hand = <<>>
    BY HandIs DEF PrintInv, Stages, Start, Running, Busy
<1>2. Types'
    BY <1>1 DEF PrintInv, Start, Types, Running, Busy, Stages
<1>3. Numbered'
    BY DEF PrintInv, Start, Numbered, Has
<1>4. Stages'
    BY <1>1 DEF PrintInv, Start, Stages, Running
<1>5. Turns'
    BY DEF PrintInv, Start, Turns
<1>6. ASSUME NEW c \in Clients, OwnNumber(c)' PROVE Spooled(c)' /\ Held(c)'
    <2>1. OwnNumber(c)
        BY <1>6, OwnBefore DEF Start
    <2>2. Spooled(c)'
        BY <2>1 DEF PrintInv, Start, Spooled, Past
    <2>3. Held(c)'
        BY <1>1, <2>1 DEF PrintInv, Start, Held, Spooled, Stages, Past, InHand, InQueue, Running
    <2> QED
        BY <2>2, <2>3
<1> QED
    BY <1>2, <1>3, <1>4, <1>5, <1>6 DEF PrintInv

\* The printer thread takes the first job.
LEMMA PickKeeps ==
    ASSUME PrintInv, Pick
    PROVE  PrintInv'
<1> USE DEF PrinterAt, ThreadAt, files, daemon, printer, clients, history, bounds
<1>1. hand = <<>>
    BY HandIs DEF PrintInv, Pick, Busy
<1>2. /\ queue' \in Seq(Jobs) /\ hand' \in Seq(Jobs) /\ Len(hand') = 1
      /\ hand' # <<>> /\ 1 \in DOMAIN queue /\ hand'[1] = queue[1]
      /\ \A i \in DOMAIN queue' : i \in Nat /\ i + 1 \in DOMAIN queue
                                   /\ queue'[i] = queue[i + 1] /\ 1 < i + 1
      /\ \A i \in DOMAIN queue : i = 1 \/ (i - 1 \in DOMAIN queue' /\ queue'[i - 1] = queue[i])
    BY PickStep DEF PrintInv, Pick
<1>3. /\ PrinterAt("idle") /\ at' = "update"
      /\ UNCHANGED <<files, main, todo, nextjob, reread, adds, doc, took, clients, history, bounds>>
    BY DEF Pick
<1>4. Types'
    BY <1>1, <1>2, <1>3 DEF PrintInv, Types, Running, Busy
<1>5. Numbered'
    BY <1>1, <1>2, <1>3 DEF PrintInv, Numbered, Has
<1>6. Stages'
    BY <1>1, <1>2, <1>3 DEF PrintInv, Stages, Running
<1>7. Turns'
    BY <1>1, <1>2, <1>3 DEF PrintInv, Turns
<1>8. ASSUME NEW c \in Clients, OwnNumber(c)' PROVE Spooled(c)' /\ Held(c)'
    <2>1. OwnNumber(c)
        BY <1>1, <1>2, <1>3, <1>8, OwnBefore DEF Pick
    <2>2. Spooled(c)'
        BY <1>1, <1>2, <1>3, <2>1 DEF PrintInv, Spooled, Past
    <2>3. Held(c)'
        BY <1>1, <1>2, <1>3, <2>1 DEF PrintInv, Held, Past, InHand, InQueue, Running
    <2> QED
        BY <2>2, <2>3
<1> QED
    BY <1>4, <1>5, <1>6, <1>7, <1>8 DEF PrintInv

\* replace_job: it puts the job back.
LEMMA DeferKeeps ==
    ASSUME PrintInv, Defer
    PROVE  PrintInv'
<1> USE DEF PrinterAt, ThreadAt, files, daemon, printer, clients, history, bounds
<1>1. hand # <<>> /\ at = "defer"
    BY HandIs DEF PrintInv, Defer, Busy
<1>2. /\ queue' \in Seq(Jobs) /\ 1 \in DOMAIN queue' /\ queue'[1] = hand[1]
      /\ \A i \in DOMAIN queue : i \in Nat /\ 1 < i + 1 /\ i + 1 \in DOMAIN queue'
                                  /\ queue'[i + 1] = queue[i]
      /\ \A i \in DOMAIN queue' : i \in Nat /\
             (i = 1 \/ (1 < i /\ i - 1 \in DOMAIN queue /\ queue'[i] = queue[i - 1]))
    BY ReplaceStep DEF PrintInv, Defer, Busy
<1>3. /\ hand' = <<>> /\ at' = "asleep" /\ took' = FALSE
      /\ UNCHANGED <<files, main, todo, nextjob, reread, adds, clients, history, bounds>>
    BY DEF Defer
<1>4. \A i \in DOMAIN queue' : queue'[i] = hand[1] \/ \E k \in DOMAIN queue : queue'[i] = queue[k]
    BY <1>2
<1>5. hand' \in Seq(Jobs) /\ Len(hand') = 0
    BY <1>3
<1>6. Types'
    <2>1. at' = "asleep" /\ took' = FALSE /\ UNCHANGED <<main, nextjob, jobno, adds, clients, done>>
        BY <1>3
    <2> QED
        BY <1>2, <1>5, <2>1 DEF PrintInv, Types, Running, Busy
<1>7. Numbered'
    BY <1>1, <1>3, <1>4 DEF PrintInv, Numbered, Has
<1>8. Stages'
    BY <1>1, <1>3, <1>4 DEF PrintInv, Defer, Stages, Running
<1>9. Turns'
    <2>1. ASSUME NEW i \in DOMAIN queue', NEW j \in DOMAIN queue', i < j
          PROVE  queue'[i].turn < queue'[j].turn
        <3>1. j # 1 /\ j - 1 \in DOMAIN queue /\ queue'[j] = queue[j - 1]
            BY <1>2, <2>1
        <3>2. CASE i = 1
            BY <1>1, <1>2, <3>1, <3>2 DEF PrintInv, Turns
        <3>3. CASE i # 1
            <4>1. i - 1 \in DOMAIN queue /\ queue'[i] = queue[i - 1] /\ i - 1 < j - 1
                BY <1>2, <2>1, <3>3
            <4> QED
                BY <3>1, <4>1 DEF PrintInv, Turns
        <3> QED
            BY <3>2, <3>3
    <2> QED
        BY <1>1, <1>3, <1>4, <2>1 DEF PrintInv, Turns
<1>10. ASSUME NEW c \in Clients, OwnNumber(c)' PROVE Spooled(c)' /\ Held(c)'
    <2>1. OwnNumber(c)
        BY <1>1, <1>2, <1>3, <1>10, OwnBefore DEF Defer
    <2>2. InQueue(c)' <=> InHand(c) \/ InQueue(c)
        BY <1>1, <1>2, <1>4 DEF InQueue, InHand
    <2>3. ~InHand(c)'
        BY <1>3 DEF InHand
    <2>4. \A i, k \in DOMAIN queue' : queue'[i].req = c /\ queue'[k].req = c => i = k
        <3> SUFFICES ASSUME NEW i \in DOMAIN queue', NEW k \in DOMAIN queue',
                            queue'[i].req = c, queue'[k].req = c, i # k
                     PROVE  FALSE
            OBVIOUS
        <3>1. CASE InHand(c)
            <4>1. ~InQueue(c)
                BY <2>1, <3>1 DEF PrintInv, Held
            <4> QED
                BY <1>2, <4>1 DEF InQueue
        <3>2. CASE ~InHand(c)
            <4>1. i # 1 /\ k # 1
                BY <1>1, <1>2, <3>2 DEF InHand
            <4>2. /\ i \in Nat /\ k \in Nat /\ i - 1 \in DOMAIN queue /\ k - 1 \in DOMAIN queue
                  /\ queue[i - 1].req = c /\ queue[k - 1].req = c
                BY <1>2, <4>1
            <4>3. i - 1 = k - 1
                BY <2>1, <4>2 DEF PrintInv, Held
            <4> QED
                BY <4>2, <4>3
        <3> QED
            BY <3>1, <3>2
    <2>5. Spooled(c)'
        BY <1>1, <1>2, <1>3, <2>1 DEF PrintInv, Spooled, Past
    <2>6. Held(c)'
        BY <1>1, <1>3, <2>1, <2>2, <2>3, <2>4 DEF PrintInv, Held, Past, Running
    <2> QED
        BY <2>5, <2>6
<1> QED
    BY <1>6, <1>7, <1>8, <1>9, <1>10 DEF PrintInv

\* build_qonstart queues a job: it is complete, and nowhere in memory.
LEMMA BuildQueueKeeps ==
    ASSUME PrintInv, NEW j \in todo, BuildQueue(j)
    PROVE  PrintInv'
<1> USE DEF PrinterAt, ThreadAt, files, daemon, printer, clients, history, bounds
<1>1. j \in DOMAIN req /\ Has(req[j].of, j) /\ j \in Nat /\ req[j].of \in Clients
    BY DEF PrintInv, Types, Stages, Numbered, Has
<1> DEFINE n == Len(queue) + 1
<1>2. /\ queue' \in Seq(Jobs) /\ adds' = adds + 1
      /\ DOMAIN queue' = DOMAIN queue \cup {n} /\ n \in Nat
      /\ \A i \in DOMAIN queue : i \in Nat /\ i < n /\ queue'[i] = queue[i]
      /\ queue'[n].id = j /\ queue'[n].req = req[j].of /\ queue'[n].turn = adds + 1
    BY <1>1, QueuedStep DEF PrintInv, BuildQueue
<1> HIDE DEF n
<1>3. /\ main.at = "build" /\ req[j].whole /\ todo' = todo \ {j}
      /\ main' = [main EXCEPT !.at = "signal"]
      /\ UNCHANGED <<files, nextjob, reread, printer, clients, history, bounds>>
    BY DEF BuildQueue
<1>4. main'.at = "signal" /\ main'.id = main.id /\ main' \in [at : {"down", "build", "signal", "junk", "serve"}, id : Nat]
    BY <1>3 DEF PrintInv, Types
<1>5. Types'
    <2>1. Types
        BY DEF PrintInv
    <2>2. /\ nextjob' = nextjob /\ jobno' = jobno /\ at' = at /\ hand' = hand
          /\ thread' = thread /\ told' = told /\ took' = took /\ done' = done
        BY <1>3 DEF BuildQueue, Queued
    <2>3. Running' => nextjob' # 0
        BY <1>3, <1>4, <2>1, <2>2 DEF Types, Running
    <2>4. adds' \in Nat
        BY <1>2, <2>1 DEF Types
    <2> QED
        BY <1>2, <1>4, <2>1, <2>2, <2>3, <2>4 DEF Types
<1>6. Numbered'
    BY <1>1, <1>2, <1>3, <1>4 DEF PrintInv, Numbered, Has
<1>7. Stages'
    BY <1>1, <1>2, <1>3, <1>4 DEF PrintInv, Stages, Running
<1>8. Turns'
    BY <1>2, <1>3, TurnsAdd DEF PrintInv
<1>9. ASSUME NEW c \in Clients, OwnNumber(c)' PROVE Spooled(c)' /\ Held(c)'
    <2>1. OwnNumber(c)
        BY <1>1, <1>2, <1>3, <1>4, <1>9, OwnBefore DEF BuildQueue
    <2>2. LET m == thread[c].id IN
          /\ hand # <<>> => (hand[1].id = m <=> InHand(c))
          /\ \A i \in DOMAIN queue : queue[i].id = m <=> queue[i].req = c
          /\ m \in DOMAIN data => data[m].of = c
          /\ m \in DOMAIN req => req[m].of = c
        BY <2>1, Owned DEF PrintInv
    <2>3. Spooled(c)'
        BY <1>1, <1>2, <1>3, <1>4, <2>1 DEF PrintInv, Spooled, Past
    <2>4. Held(c)'
        <3>1. InQueue(c)' <=> InQueue(c) \/ c = req[j].of
            BY <1>2 DEF InQueue
        <3>2. c = req[j].of => ~InQueue(c) /\ ~InHand(c) /\ thread[c].id = j
            BY <1>1, <1>3, <2>1, <2>2 DEF PrintInv, Stages, Held, Past, InQueue, InHand, Has
        <3>3. \A i, k \in DOMAIN queue' : queue'[i].req = c /\ queue'[k].req = c => i = k
            BY <1>2, <2>1, <3>2 DEF PrintInv, Held, InQueue
        <3>4. InHand(c)' <=> InHand(c)
            BY <1>3 DEF InHand
        <3>5. c = req[j].of => (Past(c) /\ (thread[c].id \in DOMAIN data => data[thread[c].id].got # "part" /\ thread[c].id \in DOMAIN req))'
            <4> SUFFICES ASSUME c = req[j].of
                         PROVE  Past(c)' /\ (j \in DOMAIN data => data[j].got # "part" /\ j \in DOMAIN req)
                BY <1>1, <1>3 DEF Has
            <4>1. thread[c].id = j /\ thread[c].at = "ended"
                BY <1>1, <1>3 DEF PrintInv, Stages, Has
            <4>2. req[j].whole = TRUE
                BY <1>1, <1>3 DEF PrintInv, Numbered
            <4>3. Spooled(c)
                BY <2>1 DEF PrintInv
            <4>4. Past(c)
                BY <1>1, <4>1, <4>2, <4>3 DEF Spooled
            <4> QED
                BY <1>1, <1>3, <4>1, <4>3, <4>4 DEF Spooled, Past
        <3>6. Past(c) => Past(c)'
            BY <1>1, <1>3, <1>4, <2>1, <2>2 DEF PrintInv, Stages, Past
        <3> QED
            BY <1>1, <1>3, <1>4, <2>1, <2>2, <3>1, <3>2, <3>3, <3>4, <3>5, <3>6 DEF PrintInv, Held, Running
    <2> QED
        BY <2>3, <2>4
<1> QED
    BY <1>5, <1>6, <1>7, <1>8, <1>9 DEF PrintInv

\* add_job by the thread of c: nobody else has this job.
LEMMA AddJobKeeps ==
    ASSUME PrintInv, NEW c \in Clients, AddJob(c)
    PROVE  PrintInv'
<1> USE DEF PrinterAt, ThreadAt, files, daemon, printer, clients, history, bounds
<1>1. thread[c].at = "add" /\ main.at = "serve" /\ todo = {} /\ thread[c].id \in Nat
      /\ thread[c].id # 0
    BY DEF PrintInv, AddJob, Types, Stages
<1> DEFINE n == Len(queue) + 1
<1>2. /\ queue' \in Seq(Jobs) /\ adds' = adds + 1
      /\ DOMAIN queue' = DOMAIN queue \cup {n} /\ n \in Nat
      /\ \A i \in DOMAIN queue : i \in Nat /\ i < n /\ queue'[i] = queue[i]
      /\ queue'[n].id = thread[c].id /\ queue'[n].req = c /\ queue'[n].turn = adds + 1
    BY <1>1, QueuedStep DEF PrintInv, AddJob
<1> HIDE DEF n
<1>3. UNCHANGED <<files, main, todo, nextjob, reread, printer, told, history, bounds>>
    BY DEF AddJob
<1>4. /\ thread' \in [Clients -> Threads]
      /\ \A d \in Clients : d # c => thread'[d] = thread[d]
      /\ thread'[c].at = "signal" /\ thread'[c].id = thread[c].id
    BY GotoStep DEF PrintInv, AddJob, Phases
<1>5. Types'
    BY <1>1, <1>2, <1>3, <1>4 DEF PrintInv, Types, Threads, Running, Busy
<1>6. Numbered'
    BY <1>1, <1>2, <1>3, <1>4 DEF PrintInv, Numbered, Has
<1>7. Stages'
    BY <1>1, <1>2, <1>3, <1>4 DEF PrintInv, Stages, Running
<1>8. Turns'
    BY <1>2, <1>3, TurnsAdd DEF PrintInv
<1>9. ASSUME NEW d \in Clients, OwnNumber(d)' PROVE Spooled(d)' /\ Held(d)'
    <2>1. OwnNumber(d)
        BY <1>1, <1>2, <1>3, <1>4, <1>9, OwnBefore DEF AddJob
    <2>2. LET j == thread[d].id IN
          /\ hand # <<>> => (hand[1].id = j <=> InHand(d))
          /\ \A i \in DOMAIN queue : queue[i].id = j <=> queue[i].req = d
          /\ j \in DOMAIN data => data[j].of = d
          /\ j \in DOMAIN req => req[j].of = d
        BY <2>1, Owned DEF PrintInv
    <2>3. Spooled(d)'
        BY <1>1, <1>3, <1>4, <2>1 DEF PrintInv, Spooled, Past, Stages
    <2>4. Held(d)'
        <3>1. InQueue(d)' <=> InQueue(d) \/ d = c
            BY <1>2 DEF InQueue
        <3>2. d = c => ~InQueue(d) /\ ~InHand(d) /\ thread[d].id = thread[c].id
            BY <1>1, <1>3, <2>1, <2>2 DEF PrintInv, Stages, Held, Past, InQueue, InHand, Has
        <3>3. \A i, k \in DOMAIN queue' : queue'[i].req = d /\ queue'[k].req = d => i = k
            BY <1>2, <2>1, <3>2 DEF PrintInv, Held, InQueue
        <3>4. InHand(d)' <=> InHand(d)
            BY <1>3 DEF InHand
        <3>5. d = c => (Past(d) /\ (thread[d].id \in DOMAIN data => data[thread[d].id].got # "part" /\ thread[d].id \in DOMAIN req))'
            BY <1>1, <1>3, <1>4, <2>1, <2>2 DEF PrintInv, Spooled, Stages, Past
        <3>6. Past(d) => Past(d)'
            BY <1>1, <1>3, <1>4, <2>1, <2>2 DEF PrintInv, Stages, Past
        <3> QED
            BY <1>1, <1>3, <1>4, <2>1, <2>2, <3>1, <3>2, <3>3, <3>4, <3>5, <3>6 DEF PrintInv, Held, Running
    <2> QED
        BY <2>3, <2>4
<1> QED
    BY <1>5, <1>6, <1>7, <1>8, <1>9 DEF PrintInv

\* accept and pthread_create.
LEMMA AcceptKeeps ==
    ASSUME PrintInv, NEW c \in Clients, Accept(c)
    PROVE  PrintInv'
<1> USE DEF PrinterAt, ThreadAt, files, daemon, printer, clients, history, bounds
<1>1. thread[c].at = "new" /\ main.at = "serve" /\ todo = {}
    BY DEF PrintInv, Accept, Types, Stages
<1>2. /\ thread' \in [Clients -> Threads]
      /\ \A d \in Clients : d # c => thread'[d] = thread[d]
      /\ thread'[c].id = thread[c].id
      /\ thread'[c].at = "header"
    BY GotoStep DEF PrintInv, Accept, Types, ThreadGoto, Signalled, Phases
<1>3. UNCHANGED <<files, daemon, printer, told, history, bounds>>
    BY DEF Accept
<1>4. Types'
    BY <1>1, <1>2, <1>3 DEF PrintInv, Types, Threads, Running, Busy
<1>5. Numbered'
    BY <1>1, <1>2, <1>3 DEF PrintInv, Numbered, Has
<1>6. Stages'
    BY <1>1, <1>2, <1>3 DEF PrintInv, Stages, Running
<1>7. Turns'
    BY <1>1, <1>2, <1>3 DEF PrintInv, Turns
<1>8. ASSUME NEW d \in Clients, OwnNumber(d)' PROVE Spooled(d)' /\ Held(d)'
    <2>1. OwnNumber(d)
        BY <1>2, <1>8, OwnBefore
    <2>2. LET j == thread[d].id IN
          /\ hand # <<>> => (hand[1].id = j <=> InHand(d))
          /\ \A i \in DOMAIN queue : queue[i].id = j <=> queue[i].req = d
          /\ j \in DOMAIN data => data[j].of = d
          /\ j \in DOMAIN req => req[j].of = d
        BY <2>1, Owned DEF PrintInv
    <2>3. Spooled(d)'
        <3>1. d # c => thread[d].id # thread[c].id
            BY <2>1 DEF OwnNumber
        <3> QED
            BY <1>1, <1>2, <1>3, <2>1, <2>2, <3>1 DEF PrintInv, Spooled, Past, Stages
    <2>4. Held(d)'
        <3>1. d # c => thread[d].id # thread[c].id
            BY <2>1 DEF OwnNumber
        <3>2. Past(d) => Past(d)'
            BY <1>1, <1>2, <1>3 DEF PrintInv, Past, Stages
        <3>3. (InHand(d)' <=> InHand(d)) /\ (InQueue(d)' <=> InQueue(d))
            BY <1>3 DEF InHand, InQueue
        <3>4. d = c => ~InHand(d) /\ ~InQueue(d) /\ d \notin done /\ \A p \in out : p.req # d
            BY <1>1, <2>1 DEF PrintInv, Held, Past
        <3> QED
            BY <1>1, <1>2, <1>3, <2>1, <3>1, <3>2, <3>3, <3>4 DEF PrintInv, Held, Running, Stages
    <2> QED
        BY <2>3, <2>4
<1> QED
    BY <1>4, <1>5, <1>6, <1>7, <1>8 DEF PrintInv

\* The request header is read, or refused.
LEMMA ReadHeaderKeeps ==
    ASSUME PrintInv, NEW c \in Clients, ReadHeader(c)
    PROVE  PrintInv'
<1> USE DEF PrinterAt, ThreadAt, files, daemon, printer, clients, history, bounds
<1>1. thread[c].at = "header" /\ main.at = "serve" /\ todo = {}
    BY DEF PrintInv, ReadHeader, Types, Stages
<1>2. /\ thread' \in [Clients -> Threads]
      /\ \A d \in Clients : d # c => thread'[d] = thread[d]
      /\ thread'[c].id = thread[c].id
      /\ \/ thread'[c].at = "number"
         \/ thread'[c].at = "refuse"
    <2>1. CASE ThreadGoto(c, "number")
        BY <2>1, GotoStep DEF PrintInv, Phases
    <2>2. CASE Refuse(c, <<>>)
        <3>1. <<>> \in Seq({"data", "request"})
            OBVIOUS
        <3> QED
            BY <2>2, <3>1, RefuseStep DEF PrintInv
    <2> QED
        BY <2>1, <2>2 DEF ReadHeader
<1>3. UNCHANGED <<files, daemon, printer, told, history, bounds>>
    BY DEF ReadHeader
<1>4. Types'
    BY <1>1, <1>2, <1>3 DEF PrintInv, Types, Threads, Running, Busy
<1>5. Numbered'
    BY <1>1, <1>2, <1>3 DEF PrintInv, Numbered, Has
<1>6. Stages'
    BY <1>1, <1>2, <1>3 DEF PrintInv, Stages, Running
<1>7. Turns'
    BY <1>1, <1>2, <1>3 DEF PrintInv, Turns
<1>8. ASSUME NEW d \in Clients, OwnNumber(d)' PROVE Spooled(d)' /\ Held(d)'
    <2>1. OwnNumber(d)
        BY <1>2, <1>8, OwnBefore
    <2>2. LET j == thread[d].id IN
          /\ hand # <<>> => (hand[1].id = j <=> InHand(d))
          /\ \A i \in DOMAIN queue : queue[i].id = j <=> queue[i].req = d
          /\ j \in DOMAIN data => data[j].of = d
          /\ j \in DOMAIN req => req[j].of = d
        BY <2>1, Owned DEF PrintInv
    <2>3. Spooled(d)'
        <3>1. d # c => thread[d].id # thread[c].id
            BY <2>1 DEF OwnNumber
        <3> QED
            BY <1>1, <1>2, <1>3, <2>1, <2>2, <3>1 DEF PrintInv, Spooled, Past, Stages
    <2>4. Held(d)'
        <3>1. d # c => thread[d].id # thread[c].id
            BY <2>1 DEF OwnNumber
        <3>2. Past(d) => Past(d)'
            BY <1>1, <1>2, <1>3 DEF PrintInv, Past, Stages
        <3>3. (InHand(d)' <=> InHand(d)) /\ (InQueue(d)' <=> InQueue(d))
            BY <1>3 DEF InHand, InQueue
        <3>4. d = c => ~InHand(d) /\ ~InQueue(d) /\ d \notin done /\ \A p \in out : p.req # d
            BY <1>1, <2>1 DEF PrintInv, Held, Past
        <3> QED
            BY <1>1, <1>2, <1>3, <2>1, <3>1, <3>2, <3>3, <3>4 DEF PrintInv, Held, Running, Stages
    <2> QED
        BY <2>3, <2>4
<1> QED
    BY <1>4, <1>5, <1>6, <1>7, <1>8 DEF PrintInv

\* The data file is created.
LEMMA CreateDataKeeps ==
    ASSUME PrintInv, NEW c \in Clients, CreateData(c)
    PROVE  PrintInv'
<1> USE DEF PrinterAt, ThreadAt, files, daemon, printer, clients, history, bounds
<1>1. thread[c].at = "creat" /\ main.at = "serve" /\ todo = {} /\ thread[c].id # 0
    BY DEF PrintInv, CreateData, Types, Stages
<1>2. /\ thread' \in [Clients -> Threads]
      /\ \A d \in Clients : d # c => thread'[d] = thread[d]
      /\ thread'[c].id = thread[c].id
      /\ \/ thread'[c].at = "spool" /\ data' = Create(data, thread[c].id, [of |-> c, got |-> "part"])
         \/ thread'[c].at = "refuse" /\ UNCHANGED data
    <2>1. CASE ThreadGoto(c, "spool") /\ data' = Create(data, thread[c].id, [of |-> c, got |-> "part"])
        BY <2>1, GotoStep DEF PrintInv, Phases
    <2>2. CASE Refuse(c, <<>>) /\ UNCHANGED data
        <3>1. <<>> \in Seq({"data", "request"})
            OBVIOUS
        <3> QED
            BY <2>2, <3>1, RefuseStep DEF PrintInv
    <2> QED
        BY <2>1, <2>2 DEF CreateData
<1>3. UNCHANGED <<req, jobno, daemon, printer, told, history, bounds>>
    BY DEF CreateData
<1>4. Types'
    BY <1>1, <1>2, <1>3 DEF PrintInv, Types, Threads, Running, Busy
<1>5. Numbered'
    BY <1>1, <1>2, <1>3 DEF PrintInv, Numbered, Has, Create
<1>6. Stages'
    BY <1>1, <1>2, <1>3 DEF PrintInv, Stages, Running, Create
<1>7. Turns'
    BY <1>1, <1>2, <1>3 DEF PrintInv, Turns
<1>8. ASSUME NEW d \in Clients, OwnNumber(d)' PROVE Spooled(d)' /\ Held(d)'
    <2>1. OwnNumber(d)
        BY <1>2, <1>8, OwnBefore
    <2>2. LET j == thread[d].id IN
          /\ hand # <<>> => (hand[1].id = j <=> InHand(d))
          /\ \A i \in DOMAIN queue : queue[i].id = j <=> queue[i].req = d
          /\ j \in DOMAIN data => data[j].of = d
          /\ j \in DOMAIN req => req[j].of = d
        BY <2>1, Owned DEF PrintInv
    <2>3. Spooled(d)'
        <3>1. d # c => thread[d].id # thread[c].id
            BY <2>1 DEF OwnNumber
        <3> QED
            BY <1>1, <1>2, <1>3, <2>1, <2>2, <3>1 DEF PrintInv, Spooled, Past, Stages, Create
    <2>4. Held(d)'
        <3>1. d # c => thread[d].id # thread[c].id
            BY <2>1 DEF OwnNumber
        <3>2. Past(d) => Past(d)'
            BY <1>1, <1>2, <1>3 DEF PrintInv, Past, Stages
        <3>3. (InHand(d)' <=> InHand(d)) /\ (InQueue(d)' <=> InQueue(d))
            BY <1>3 DEF InHand, InQueue
        <3>4. d = c => ~InHand(d) /\ ~InQueue(d) /\ d \notin done /\ \A p \in out : p.req # d
            BY <1>1, <2>1 DEF PrintInv, Held, Past
        <3> QED
            BY <1>1, <1>2, <1>3, <2>1, <3>1, <3>2, <3>3, <3>4 DEF PrintInv, Held, Running, Stages, Create
    <2> QED
        BY <2>3, <2>4
<1> QED
    BY <1>4, <1>5, <1>6, <1>7, <1>8 DEF PrintInv

\* The document is received.
LEMMA SpoolDataKeeps ==
    ASSUME PrintInv, NEW c \in Clients, SpoolData(c)
    PROVE  PrintInv'
<1> USE DEF PrinterAt, ThreadAt, files, daemon, printer, clients, history, bounds
<1>1. thread[c].at = "spool" /\ main.at = "serve" /\ todo = {} /\ thread[c].id # 0
    BY DEF PrintInv, SpoolData, Types, Stages
<1>2. /\ thread' \in [Clients -> Threads]
      /\ \A d \in Clients : d # c => thread'[d] = thread[d]
      /\ thread'[c].id = thread[c].id
      /\ \/ thread'[c].at = "request" /\ \E got \in {"whole", "cut"} : data' = IF thread[c].id \in DOMAIN data THEN Create(data, thread[c].id, [of |-> c, got |-> got]) ELSE data
         \/ thread'[c].at = "refuse" /\ UNCHANGED data
    <2>1. CASE ThreadGoto(c, "request") /\ \E got \in {"whole", "cut"} : data' = IF thread[c].id \in DOMAIN data THEN Create(data, thread[c].id, [of |-> c, got |-> got]) ELSE data
        BY <2>1, GotoStep DEF PrintInv, Phases
    <2>2. CASE Refuse(c, <<"data">>) /\ UNCHANGED data
        <3>1. <<"data">> \in Seq({"data", "request"})
            OBVIOUS
        <3> QED
            BY <2>2, <3>1, RefuseStep DEF PrintInv
    <2> QED
        BY <2>1, <2>2 DEF SpoolData
<1>3. UNCHANGED <<req, jobno, daemon, printer, told, history, bounds>>
    BY DEF SpoolData
<1>4. Types'
    BY <1>1, <1>2, <1>3 DEF PrintInv, Types, Threads, Running, Busy
<1>5. Numbered'
    BY <1>1, <1>2, <1>3 DEF PrintInv, Numbered, Has, Create
<1>6. Stages'
    BY <1>1, <1>2, <1>3 DEF PrintInv, Stages, Running, Create
<1>7. Turns'
    BY <1>1, <1>2, <1>3 DEF PrintInv, Turns
<1>8. ASSUME NEW d \in Clients, OwnNumber(d)' PROVE Spooled(d)' /\ Held(d)'
    <2>1. OwnNumber(d)
        BY <1>2, <1>8, OwnBefore
    <2>2. LET j == thread[d].id IN
          /\ hand # <<>> => (hand[1].id = j <=> InHand(d))
          /\ \A i \in DOMAIN queue : queue[i].id = j <=> queue[i].req = d
          /\ j \in DOMAIN data => data[j].of = d
          /\ j \in DOMAIN req => req[j].of = d
        BY <2>1, Owned DEF PrintInv
    <2>3. Spooled(d)'
        <3>1. d # c => thread[d].id # thread[c].id
            BY <2>1 DEF OwnNumber
        <3> QED
            BY <1>1, <1>2, <1>3, <2>1, <2>2, <3>1 DEF PrintInv, Spooled, Past, Stages, Create
    <2>4. Held(d)'
        <3>1. d # c => thread[d].id # thread[c].id
            BY <2>1 DEF OwnNumber
        <3>2. Past(d) => Past(d)'
            BY <1>1, <1>2, <1>3 DEF PrintInv, Past, Stages
        <3>3. (InHand(d)' <=> InHand(d)) /\ (InQueue(d)' <=> InQueue(d))
            BY <1>3 DEF InHand, InQueue
        <3>4. d = c => ~InHand(d) /\ ~InQueue(d) /\ d \notin done /\ \A p \in out : p.req # d
            BY <1>1, <2>1 DEF PrintInv, Held, Past
        <3> QED
            BY <1>1, <1>2, <1>3, <2>1, <3>1, <3>2, <3>3, <3>4 DEF PrintInv, Held, Running, Stages, Create
    <2> QED
        BY <2>3, <2>4
<1> QED
    BY <1>4, <1>5, <1>6, <1>7, <1>8 DEF PrintInv

\* The control file is created,
LEMMA CreateRequestKeeps ==
    ASSUME PrintInv, NEW c \in Clients, CreateRequest(c)
    PROVE  PrintInv'
<1> USE DEF PrinterAt, ThreadAt, files, daemon, printer, clients, history, bounds
<1>1. thread[c].at = "request" /\ main.at = "serve" /\ todo = {} /\ thread[c].id # 0
    BY DEF PrintInv, CreateRequest, Types, Stages
<1>2. /\ thread' \in [Clients -> Threads]
      /\ \A d \in Clients : d # c => thread'[d] = thread[d]
      /\ thread'[c].id = thread[c].id
      /\ \/ thread'[c].at = "write" /\ req' = Create(req, thread[c].id, [of |-> c, whole |-> FALSE])
         \/ thread'[c].at = "refuse" /\ UNCHANGED req
    <2>1. CASE ThreadGoto(c, "write") /\ req' = Create(req, thread[c].id, [of |-> c, whole |-> FALSE])
        BY <2>1, GotoStep DEF PrintInv, Phases
    <2>2. CASE Refuse(c, <<"data">>) /\ UNCHANGED req
        <3>1. <<"data">> \in Seq({"data", "request"})
            OBVIOUS
        <3> QED
            BY <2>2, <3>1, RefuseStep DEF PrintInv
    <2> QED
        BY <2>1, <2>2 DEF CreateRequest
<1>3. UNCHANGED <<data, jobno, daemon, printer, told, history, bounds>>
    BY DEF CreateRequest
<1>4. Types'
    BY <1>1, <1>2, <1>3 DEF PrintInv, Types, Threads, Running, Busy
<1>5. Numbered'
    <2>1. \A k \in DOMAIN req' : \/ k = thread[c].id /\ req'[k].of = c /\ req'[k].whole \in BOOLEAN
                                 \/ k \in DOMAIN req /\ req'[k] = req[k]
        <3> DEFINE x == [of |-> c, whole |-> FALSE]
        <3>1. x.of = c /\ x.whole \in BOOLEAN
            OBVIOUS
        <3> HIDE DEF x
        <3>2. CASE req' = req
            BY <3>2
        <3>3. CASE req' = Create(req, thread[c].id, x)
            BY <3>1, <3>3 DEF Create
        <3> QED
            BY <1>2, <3>2, <3>3 DEF x
    <2> QED
        BY <1>1, <1>2, <1>3, <2>1 DEF PrintInv, Numbered, Has
<1>6. Stages'
    BY <1>1, <1>2, <1>3 DEF PrintInv, Stages, Running, Create
<1>7. Turns'
    BY <1>1, <1>2, <1>3 DEF PrintInv, Turns
<1>8. ASSUME NEW d \in Clients, OwnNumber(d)' PROVE Spooled(d)' /\ Held(d)'
    <2>1. OwnNumber(d)
        BY <1>2, <1>8, OwnBefore
    <2>2. LET j == thread[d].id IN
          /\ hand # <<>> => (hand[1].id = j <=> InHand(d))
          /\ \A i \in DOMAIN queue : queue[i].id = j <=> queue[i].req = d
          /\ j \in DOMAIN data => data[j].of = d
          /\ j \in DOMAIN req => req[j].of = d
        BY <2>1, Owned DEF PrintInv
    <2>3. Spooled(d)'
        <3>1. d # c => thread[d].id # thread[c].id
            BY <2>1 DEF OwnNumber
        <3> QED
            BY <1>1, <1>2, <1>3, <2>1, <2>2, <3>1 DEF PrintInv, Spooled, Past, Stages, Create
    <2>4. Held(d)'
        <3>1. d # c => thread[d].id # thread[c].id
            BY <2>1 DEF OwnNumber
        <3>2. Past(d) => Past(d)'
            BY <1>1, <1>2, <1>3 DEF PrintInv, Past, Stages
        <3>3. (InHand(d)' <=> InHand(d)) /\ (InQueue(d)' <=> InQueue(d))
            BY <1>3 DEF InHand, InQueue
        <3>4. d = c => ~InHand(d) /\ ~InQueue(d) /\ d \notin done /\ \A p \in out : p.req # d
            BY <1>1, <2>1 DEF PrintInv, Held, Past
        <3> QED
            BY <1>1, <1>2, <1>3, <2>1, <3>1, <3>2, <3>3, <3>4 DEF PrintInv, Held, Running, Stages, Create
    <2> QED
        BY <2>3, <2>4
<1> QED
    BY <1>4, <1>5, <1>6, <1>7, <1>8 DEF PrintInv

\* and written.
LEMMA WriteRequestKeeps ==
    ASSUME PrintInv, NEW c \in Clients, WriteRequest(c)
    PROVE  PrintInv'
<1> USE DEF PrinterAt, ThreadAt, files, daemon, printer, clients, history, bounds
<1>1. thread[c].at = "write" /\ main.at = "serve" /\ todo = {} /\ thread[c].id # 0
    BY DEF PrintInv, WriteRequest, Types, Stages
<1>2. /\ thread' \in [Clients -> Threads]
      /\ \A d \in Clients : d # c => thread'[d] = thread[d]
      /\ thread'[c].id = thread[c].id
      /\ \/ thread'[c].at = "respond" /\ req' = IF thread[c].id \in DOMAIN req THEN Create(req, thread[c].id, [of |-> c, whole |-> TRUE]) ELSE req
         \/ thread'[c].at = "refuse" /\ UNCHANGED req
    <2>1. CASE ThreadGoto(c, "respond") /\ req' = IF thread[c].id \in DOMAIN req THEN Create(req, thread[c].id, [of |-> c, whole |-> TRUE]) ELSE req
        BY <2>1, GotoStep DEF PrintInv, Phases
    <2>2. CASE Refuse(c, <<"request", "data">>) /\ UNCHANGED req
        <3>1. <<"request", "data">> \in Seq({"data", "request"})
            OBVIOUS
        <3> QED
            BY <2>2, <3>1, RefuseStep DEF PrintInv
    <2> QED
        BY <2>1, <2>2 DEF WriteRequest
<1>3. UNCHANGED <<data, jobno, daemon, printer, told, history, bounds>>
    BY DEF WriteRequest
<1>4. Types'
    BY <1>1, <1>2, <1>3 DEF PrintInv, Types, Threads, Running, Busy
<1>5. Numbered'
    <2>1. \A k \in DOMAIN req' : \/ k = thread[c].id /\ req'[k].of = c /\ req'[k].whole \in BOOLEAN
                                 \/ k \in DOMAIN req /\ req'[k] = req[k]
        <3> DEFINE x == [of |-> c, whole |-> TRUE]
        <3>1. x.of = c /\ x.whole \in BOOLEAN
            OBVIOUS
        <3> HIDE DEF x
        <3>2. CASE req' = req
            BY <3>2
        <3>3. CASE req' = Create(req, thread[c].id, x)
            BY <3>1, <3>3 DEF Create
        <3> QED
            BY <1>2, <3>2, <3>3 DEF x
    <2> QED
        BY <1>1, <1>2, <1>3, <2>1 DEF PrintInv, Numbered, Has
<1>6. Stages'
    BY <1>1, <1>2, <1>3 DEF PrintInv, Stages, Running, Create
<1>7. Turns'
    BY <1>1, <1>2, <1>3 DEF PrintInv, Turns
<1>8. ASSUME NEW d \in Clients, OwnNumber(d)' PROVE Spooled(d)' /\ Held(d)'
    <2>1. OwnNumber(d)
        BY <1>2, <1>8, OwnBefore
    <2>2. LET j == thread[d].id IN
          /\ hand # <<>> => (hand[1].id = j <=> InHand(d))
          /\ \A i \in DOMAIN queue : queue[i].id = j <=> queue[i].req = d
          /\ j \in DOMAIN data => data[j].of = d
          /\ j \in DOMAIN req => req[j].of = d
        BY <2>1, Owned DEF PrintInv
    <2>3. Spooled(d)'
        <3>1. d # c => thread[d].id # thread[c].id
            BY <2>1 DEF OwnNumber
        <3> QED
            BY <1>1, <1>2, <1>3, <2>1, <2>2, <3>1 DEF PrintInv, Spooled, Past, Stages, Create
    <2>4. Held(d)'
        <3>1. d # c => thread[d].id # thread[c].id
            BY <2>1 DEF OwnNumber
        <3>2. Past(d) => Past(d)'
            BY <1>1, <1>2, <1>3 DEF PrintInv, Past, Stages
        <3>3. (InHand(d)' <=> InHand(d)) /\ (InQueue(d)' <=> InQueue(d))
            BY <1>3 DEF InHand, InQueue
        <3>4. d = c => ~InHand(d) /\ ~InQueue(d) /\ d \notin done /\ \A p \in out : p.req # d
            BY <1>1, <2>1 DEF PrintInv, Held, Past
        <3> QED
            BY <1>1, <1>2, <1>3, <2>1, <3>1, <3>2, <3>3, <3>4 DEF PrintInv, Held, Running, Stages, Create
    <2> QED
        BY <2>3, <2>4
<1> QED
    BY <1>4, <1>5, <1>6, <1>7, <1>8 DEF PrintInv

\* The client is told that its job is accepted: both files are complete.
LEMMA RespondKeeps ==
    ASSUME PrintInv, NEW c \in Clients, Respond(c)
    PROVE  PrintInv'
<1> USE DEF PrinterAt, ThreadAt, files, daemon, printer, clients, history, bounds
<1>1. thread[c].at = "respond" /\ main.at = "serve" /\ todo = {} /\ thread[c].id # 0
    BY DEF PrintInv, Respond, Types, Stages
<1>2. /\ thread' \in [Clients -> Threads]
      /\ \A d \in Clients : d # c => thread'[d] = thread[d]
      /\ thread'[c].id = thread[c].id
      /\ thread'[c].at = "add" /\ told' = [told EXCEPT ![c] = "accepted"]
    BY GotoStep DEF PrintInv, Respond, Types, ThreadGoto, Signalled, Phases
<1>3. UNCHANGED <<files, daemon, printer, history, bounds>>
    BY DEF Respond
<1>4. Types'
    BY <1>1, <1>2, <1>3 DEF PrintInv, Types, Threads, Running, Busy
<1>5. Numbered'
    BY <1>1, <1>2, <1>3 DEF PrintInv, Numbered, Has
<1>6. Stages'
    BY <1>1, <1>2, <1>3 DEF PrintInv, Stages, Running
<1>7. Turns'
    BY <1>1, <1>2, <1>3 DEF PrintInv, Turns
<1>8. ASSUME NEW d \in Clients, OwnNumber(d)' PROVE Spooled(d)' /\ Held(d)'
    <2>1. OwnNumber(d)
        BY <1>2, <1>8, OwnBefore
    <2>2. LET j == thread[d].id IN
          /\ hand # <<>> => (hand[1].id = j <=> InHand(d))
          /\ \A i \in DOMAIN queue : queue[i].id = j <=> queue[i].req = d
          /\ j \in DOMAIN data => data[j].of = d
          /\ j \in DOMAIN req => req[j].of = d
        BY <2>1, Owned DEF PrintInv
    <2>3. Spooled(d)'
        <3>1. d # c => thread[d].id # thread[c].id
            BY <2>1 DEF OwnNumber
        <3> QED
            BY <1>1, <1>2, <1>3, <2>1, <2>2, <3>1 DEF PrintInv, Spooled, Past, Stages
    <2>4. Held(d)'
        <3>1. d # c => thread[d].id # thread[c].id
            BY <2>1 DEF OwnNumber
        <3>2. Past(d) => Past(d)'
            BY <1>1, <1>2, <1>3 DEF PrintInv, Past, Stages
        <3>3. (InHand(d)' <=> InHand(d)) /\ (InQueue(d)' <=> InQueue(d))
            BY <1>3 DEF InHand, InQueue
        <3>4. d = c => ~InHand(d) /\ ~InQueue(d) /\ d \notin done /\ \A p \in out : p.req # d
            BY <1>1, <2>1 DEF PrintInv, Held, Past
        <3> QED
            BY <1>1, <1>2, <1>3, <2>1, <3>1, <3>2, <3>3, <3>4 DEF PrintInv, Held, Running, Stages
    <2> QED
        BY <2>3, <2>4
<1> QED
    BY <1>4, <1>5, <1>6, <1>7, <1>8 DEF PrintInv

\* The client is told that its job is refused.
LEMMA RespondRefusedKeeps ==
    ASSUME PrintInv, NEW c \in Clients, RespondRefused(c)
    PROVE  PrintInv'
<1> USE DEF PrinterAt, ThreadAt, files, daemon, printer, clients, history, bounds
<1>1. thread[c].at = "refuse" /\ main.at = "serve" /\ todo = {}
    BY DEF PrintInv, RespondRefused, Types, Stages
<1>2. /\ thread' \in [Clients -> Threads]
      /\ \A d \in Clients : d # c => thread'[d] = thread[d]
      /\ thread'[c].id = thread[c].id
      /\ thread'[c].at = "undo" /\ told' = [told EXCEPT ![c] = "refused"]
    BY GotoStep DEF PrintInv, RespondRefused, Types, ThreadGoto, Signalled, Phases
<1>3. UNCHANGED <<files, daemon, printer, history, bounds>>
    BY DEF RespondRefused
<1>4. Types'
    BY <1>1, <1>2, <1>3 DEF PrintInv, Types, Threads, Running, Busy
<1>5. Numbered'
    BY <1>1, <1>2, <1>3 DEF PrintInv, Numbered, Has
<1>6. Stages'
    BY <1>1, <1>2, <1>3 DEF PrintInv, Stages, Running, Types
<1>7. Turns'
    BY <1>1, <1>2, <1>3 DEF PrintInv, Turns
<1>8. ASSUME NEW d \in Clients, OwnNumber(d)' PROVE Spooled(d)' /\ Held(d)'
    <2>1. OwnNumber(d)
        BY <1>2, <1>8, OwnBefore
    <2>2. LET j == thread[d].id IN
          /\ hand # <<>> => (hand[1].id = j <=> InHand(d))
          /\ \A i \in DOMAIN queue : queue[i].id = j <=> queue[i].req = d
          /\ j \in DOMAIN data => data[j].of = d
          /\ j \in DOMAIN req => req[j].of = d
        BY <2>1, Owned DEF PrintInv
    <2>3. Spooled(d)'
        <3>1. d # c => thread[d].id # thread[c].id
            BY <2>1 DEF OwnNumber
        <3> QED
            BY <1>1, <1>2, <1>3, <2>1, <2>2, <3>1 DEF PrintInv, Spooled, Past, Stages
    <2>4. Held(d)'
        <3>1. d # c => thread[d].id # thread[c].id
            BY <2>1 DEF OwnNumber
        <3>2. Past(d) => Past(d)'
            BY <1>1, <1>2, <1>3 DEF PrintInv, Past, Stages
        <3>3. (InHand(d)' <=> InHand(d)) /\ (InQueue(d)' <=> InQueue(d))
            BY <1>3 DEF InHand, InQueue
        <3>4. d = c => ~InHand(d) /\ ~InQueue(d) /\ d \notin done /\ \A p \in out : p.req # d
            BY <1>1, <2>1 DEF PrintInv, Held, Past
        <3> QED
            BY <1>1, <1>2, <1>3, <2>1, <3>1, <3>2, <3>3, <3>4 DEF PrintInv, Held, Running, Stages
    <2> QED
        BY <2>3, <2>4
<1> QED
    BY <1>4, <1>5, <1>6, <1>7, <1>8 DEF PrintInv

\* The client thread wakes the printer thread.
LEMMA SignalKeeps ==
    ASSUME PrintInv, NEW c \in Clients, Signal(c)
    PROVE  PrintInv'
<1> USE DEF PrinterAt, ThreadAt, files, daemon, printer, clients, history, bounds
<1>1. thread[c].at = "signal" /\ main.at = "serve" /\ todo = {}
    BY DEF PrintInv, Signal, Types, Stages
<1>2. /\ thread' \in [Clients -> Threads]
      /\ \A d \in Clients : d # c => thread'[d] = thread[d]
      /\ thread'[c].id = thread[c].id
      /\ thread'[c].at = "ended" /\ at' = (IF at = "waiting" THEN "idle" ELSE at)
    BY GotoStep DEF PrintInv, Signal, Types, ThreadGoto, Signalled, Phases
<1>3. UNCHANGED <<files, daemon, hand, doc, took, told, history, bounds>>
    BY DEF Signal
<1>4. Types'
    BY <1>1, <1>2, <1>3 DEF PrintInv, Types, Threads, Running, Busy
<1>5. Numbered'
    BY <1>1, <1>2, <1>3 DEF PrintInv, Numbered, Has
<1>6. Stages'
    BY <1>1, <1>2, <1>3 DEF PrintInv, Stages, Running
<1>7. Turns'
    BY <1>1, <1>2, <1>3 DEF PrintInv, Turns
<1>8. ASSUME NEW d \in Clients, OwnNumber(d)' PROVE Spooled(d)' /\ Held(d)'
    <2>1. OwnNumber(d)
        BY <1>2, <1>8, OwnBefore
    <2>2. LET j == thread[d].id IN
          /\ hand # <<>> => (hand[1].id = j <=> InHand(d))
          /\ \A i \in DOMAIN queue : queue[i].id = j <=> queue[i].req = d
          /\ j \in DOMAIN data => data[j].of = d
          /\ j \in DOMAIN req => req[j].of = d
        BY <2>1, Owned DEF PrintInv
    <2>3. Spooled(d)'
        <3>1. d # c => thread[d].id # thread[c].id
            BY <2>1 DEF OwnNumber
        <3> QED
            BY <1>1, <1>2, <1>3, <2>1, <2>2, <3>1 DEF PrintInv, Spooled, Past, Stages
    <2>4. Held(d)'
        <3>1. Past(d) => Past(d)'
            BY <1>1, <1>2, <1>3 DEF PrintInv, Past, Stages
        <3>2. (InHand(d)' <=> InHand(d)) /\ (InQueue(d)' <=> InQueue(d))
            BY <1>3 DEF InHand, InQueue
        <3> QED
            BY <1>1, <1>2, <1>3, <2>1, <3>1, <3>2 DEF PrintInv, Held, Running
    <2> QED
        BY <2>3, <2>4
<1> QED
    BY <1>4, <1>5, <1>6, <1>7, <1>8 DEF PrintInv

\* The files of a refused job are unlinked, one by one.
LEMMA UndoKeeps ==
    ASSUME PrintInv, NEW c \in Clients, Undo(c)
    PROVE  PrintInv'
<1> USE DEF PrinterAt, ThreadAt, files, daemon, printer, clients, history, bounds
<1>1. thread[c].at = "undo" /\ main.at = "serve" /\ todo = {} /\ told[c] = "refused"
    BY DEF PrintInv, Undo, Types, Stages
<1>2. /\ thread' \in [Clients -> Threads]
      /\ \A d \in Clients : d # c => thread'[d] = thread[d]
      /\ thread'[c].id = thread[c].id /\ thread'[c].at \in {"undo", "ended"}
    <2>1. CASE ThreadGoto(c, "ended")
        BY <2>1, GotoStep DEF PrintInv, Phases
    <2>2. CASE thread[c].undo # <<>> /\ thread' = [thread EXCEPT ![c].undo = Tail(thread[c].undo)]
        <3>1. thread \in [Clients -> Threads] /\ thread[c] \in Threads
            BY DEF PrintInv, Types, Threads
        <3>2. thread' = [thread EXCEPT ![c] = [thread[c] EXCEPT !.undo = Tail(thread[c].undo)]]
            BY <2>2
        <3>3. thread[c].undo \in Seq({"data", "request"})
            BY <3>1 DEF Threads
        <3>4. Tail(thread[c].undo) \in Seq({"data", "request"})
            BY <2>2, <3>3
        <3>5. [thread[c] EXCEPT !.undo = Tail(thread[c].undo)] \in Threads
            BY <3>1, <3>4 DEF Threads
        <3> QED
            BY <1>1, <3>1, <3>2, <3>5 DEF Threads
    <2> QED
        BY <2>1, <2>2 DEF Undo
<1>3. UNCHANGED <<jobno, daemon, printer, told, history, bounds>>
    BY DEF Undo
<1>4. /\ \A k \in DOMAIN data' : k \in DOMAIN data /\ data'[k] = data[k]
      /\ \A k \in DOMAIN data : k # thread[c].id => k \in DOMAIN data'
      /\ \A k \in DOMAIN req' : k \in DOMAIN req /\ req'[k] = req[k]
      /\ \A k \in DOMAIN req : k # thread[c].id => k \in DOMAIN req'
    BY DEF Undo, Unlink
<1>5. Types'
    BY <1>1, <1>2, <1>3 DEF PrintInv, Types, Threads, Running, Busy
<1>6. Numbered'
    BY <1>1, <1>2, <1>3, <1>4 DEF PrintInv, Numbered, Has
<1>7. Stages'
    BY <1>1, <1>2, <1>3, <1>4 DEF PrintInv, Stages, Running
<1>8. Turns'
    BY <1>1, <1>2, <1>3, <1>4 DEF PrintInv, Turns
<1>9. ASSUME NEW d \in Clients, OwnNumber(d)' PROVE Spooled(d)' /\ Held(d)'
    <2>1. OwnNumber(d)
        BY <1>2, <1>9, OwnBefore
    <2>2. Spooled(d)'
        <3>1. d # c => thread[d].id # thread[c].id
            BY <2>1 DEF OwnNumber
        <3> QED
            BY <1>1, <1>2, <1>3, <1>4, <2>1, <3>1 DEF PrintInv, Spooled, Past
    <2>3. Held(d)'
        <3>1. d # c => thread[d].id # thread[c].id
            BY <2>1 DEF OwnNumber
        <3>2. d # c => (Past(d) <=> Past(d)')
            BY <1>2, <1>3 DEF Past
        <3>3. (InHand(d)' <=> InHand(d)) /\ (InQueue(d)' <=> InQueue(d))
            BY <1>3 DEF InHand, InQueue
        <3>4. d = c => ~InHand(d) /\ ~InQueue(d) /\ d \notin done /\ \A p \in out : p.req # d
            BY <1>1, <2>1 DEF PrintInv, Held, Past
        <3> QED
            BY <1>1, <1>2, <1>3, <1>4, <2>1, <3>1, <3>2, <3>3, <3>4 DEF PrintInv, Held, Running
    <2> QED
        BY <2>2, <2>3
<1> QED
    BY <1>5, <1>6, <1>7, <1>8, <1>9 DEF PrintInv

\* get_newjobno: a number that is nobody else's names nothing yet.
LEMMA GetNewJobnoKeeps ==
    ASSUME PrintInv, NEW c \in Clients, GetNewJobno(c)
    PROVE  PrintInv'
<1> USE DEF PrinterAt, ThreadAt, files, daemon, printer, clients, history, bounds
<1>1. /\ thread[c].at = "number" /\ main.at = "serve" /\ todo = {} /\ thread[c].id = 0
      /\ told[c] = "nothing" /\ c \notin done /\ nextjob \in Nat /\ nextjob # 0
    BY DEF PrintInv, GetNewJobno, Types, Stages, Running
<1>2. /\ thread' \in [Clients -> Threads]
      /\ \A d \in Clients : d # c => thread'[d] = thread[d]
      /\ thread'[c].id = nextjob /\ thread'[c].at = "creat"
    <2>1. thread \in [Clients -> Threads] /\ thread[c] \in Threads
        BY DEF PrintInv, Types, Threads
    <2>2. thread' = [thread EXCEPT ![c] = [thread[c] EXCEPT !.at = "creat", !.id = nextjob]]
        BY DEF GetNewJobno
    <2>3. "creat" \in Phases
        BY DEF Phases
    <2>4. [thread[c] EXCEPT !.at = "creat", !.id = nextjob] \in Threads
        BY <1>1, <2>1, <2>3 DEF Threads
    <2> QED
        BY <2>1, <2>2, <2>4 DEF Threads
<1>3. /\ nextjob' = nextjob + 1
      /\ UNCHANGED <<files, main, todo, queue, reread, adds, printer, told, history, bounds>>
    BY DEF GetNewJobno
<1>4. \A d \in Clients : thread[d].id # 0 => thread'[d].id = thread[d].id
    BY <1>1, <1>2
<1>5. Types'
    BY <1>1, <1>2, <1>3 DEF PrintInv, Types, Threads, Running, Busy
<1>6. Numbered'
    BY <1>1, <1>2, <1>3, <1>4 DEF PrintInv, Numbered, Has
<1>7. Stages'
    BY <1>1, <1>2, <1>3, <1>4 DEF PrintInv, Stages, Running
<1>8. Turns'
    BY <1>1, <1>2, <1>3, <1>4 DEF PrintInv, Turns
<1>9. ASSUME NEW d \in Clients, OwnNumber(d)' PROVE Spooled(d)' /\ Held(d)'
    <2>1. CASE d # c
        <3>1. OwnNumber(d)
            BY <1>1, <1>2, <1>9, <2>1 DEF OwnNumber
        <3>2. Spooled(d)'
            BY <1>2, <1>3, <2>1, <3>1 DEF PrintInv, Spooled, Past
        <3>3. Held(d)'
            BY <1>2, <1>3, <2>1, <3>1 DEF PrintInv, Held, Past, InHand, InQueue, Running
        <3> QED
            BY <3>2, <3>3
    <2>2. CASE d = c
        <3>1. \A x, k : Has(x, k) => x # c /\ k # nextjob
            BY <1>1, <1>2, <1>9, <2>2 DEF Has, OwnNumber
        <3>2. /\ nextjob \notin DOMAIN req /\ nextjob \notin DOMAIN data
              /\ ~InHand(c) /\ ~InQueue(c) /\ \A p \in out : p.req # c
            BY <1>1, <3>1 DEF PrintInv, Numbered, InHand, InQueue, Has
        <3>3. Spooled(c)'
            BY <1>1, <1>2, <1>3, <3>2 DEF Spooled
        <3>4. \A i \in DOMAIN queue : queue[i].req # c
            BY <3>2 DEF InQueue
        <3>5. Held(c)'
            BY <1>1, <1>2, <1>3, <3>2, <3>4 DEF Held, InHand, InQueue
        <3> QED
            BY <2>2, <3>3, <3>5
    <2> QED
        BY <2>1, <2>2
<1> QED
    BY <1>5, <1>6, <1>7, <1>8, <1>9 DEF PrintInv

\* The end of all threads, at any point: what counts is in the directory.
LEMMA EndedKeeps ==
    ASSUME PrintInv, Ended
    PROVE  PrintInv'
<1> USE DEF PrinterAt, ThreadAt, files, daemon, printer, clients, history, bounds
<1>1. /\ main' = [at |-> "down", id |-> 0] /\ nextjob' = 0 /\ adds' = 0 /\ todo' = {}
      /\ at' = "idle" /\ took' = FALSE /\ lost' = {} /\ queue' = <<>> /\ hand' = <<>>
      /\ done' = {c \in done : thread[c].id \notin DOMAIN req \cap DOMAIN data}
      /\ UNCHANGED <<files, told, out>>
    BY DEF Ended
<1>2. /\ thread' \in [Clients -> Threads]
      /\ \A c \in Clients : /\ thread'[c].id = thread[c].id
                             /\ thread'[c].at = IF thread[c].at = "new" THEN "new" ELSE "ended"
    <2>1. thread \in [Clients -> Threads]
        BY DEF PrintInv, Types, Threads
    <2>2. "ended" \in Phases /\ <<>> \in Seq({"data", "request"})
        BY DEF Phases
    <2>3. \A t \in Threads : /\ [t EXCEPT !.at = "ended", !.undo = <<>>] \in Threads
                             /\ [t EXCEPT !.at = "ended", !.undo = <<>>].id = t.id
                             /\ [t EXCEPT !.at = "ended", !.undo = <<>>].at = "ended"
        BY <2>2 DEF Threads
    <2>4. thread' = [c \in Clients |->
                        IF thread[c].at = "new" THEN thread[c]
                        ELSE [thread[c] EXCEPT !.at = "ended", !.undo = <<>>]]
        BY DEF Ended
    <2> QED
        BY <2>1, <2>3, <2>4
<1>3. DOMAIN queue' = {} /\ queue' \in Seq(Jobs) /\ hand' \in Seq(Jobs) /\ Len(hand') = 0
      /\ main'.at = "down"
    BY <1>1
<1>4. Types'
    <2>1. main' \in [at : {"down", "build", "signal", "junk", "serve"}, id : Nat]
        BY <1>1
    <2>2. at' = "idle" /\ took' = FALSE /\ done' \subseteq done /\ UNCHANGED <<jobno, told>>
          /\ nextjob' = 0 /\ adds' = 0
        BY <1>1
    <2> QED
        BY <1>2, <1>3, <2>1, <2>2 DEF PrintInv, Types, Threads, Running, Busy
<1>5. Numbered'
    BY <1>1, <1>2, <1>3 DEF PrintInv, Numbered, Has
<1>6. Stages'
    BY <1>1, <1>2, <1>3 DEF PrintInv, Stages, Running
<1>7. Turns'
    BY <1>1, <1>2, <1>3 DEF PrintInv, Turns
<1>8. ASSUME NEW c \in Clients, OwnNumber(c)' PROVE Spooled(c)' /\ Held(c)'
    <2>1. OwnNumber(c)
        BY <1>2, <1>8, OwnBefore
    <2>2. Spooled(c)'
        BY <1>1, <1>2, <1>3, <2>1 DEF PrintInv, Spooled, Past, Stages
    <2>3. Held(c)'
        <3>1. ~InHand(c)' /\ ~InQueue(c)'
            BY <1>1, <1>3 DEF InHand, InQueue
        <3>2. \A p \in out : p.req = c => p.got # "part" /\ Past(c)'
            BY <1>1, <1>2, <2>1 DEF PrintInv, Held, Past
        <3>3. c \in done' => thread'[c].at = "ended" /\ thread[c].id \notin DOMAIN data
            BY <1>1, <1>2, <2>1 DEF PrintInv, Held
        <3> QED
            BY <1>1, <1>2, <1>3, <3>1, <3>2, <3>3 DEF Held, Running
    <2> QED
        BY <2>2, <2>3
<1> QED
    BY <1>4, <1>5, <1>6, <1>7, <1>8 DEF PrintInv

-----------------------------------------------------------------------------

\* Nothing is submitted, and the daemon is down.
LEMMA PrintInvInit == Init => PrintInv
<1> SUFFICES ASSUME Init PROVE PrintInv
    OBVIOUS
<1>1. <<>> \in Seq(Jobs) /\ <<>> \in Seq({"data", "request"}) /\ Len(<<>>) = 0 /\ DOMAIN <<>> = {}
    OBVIOUS
<1>2. [at |-> "new", id |-> 0, undo |-> <<>>] \in Threads
    BY <1>1 DEF Threads, Phases
<1>3. [at |-> "down", id |-> 0] \in [at : {"down", "build", "signal", "junk", "serve"}, id : Nat]
    OBVIOUS
<1>4. Types
    <2>1. thread \in [Clients -> Threads] /\ told \in [Clients -> {"nothing", "accepted", "refused"}]
        BY <1>2 DEF Init
    <2>2. queue \in Seq(Jobs) /\ hand \in Seq(Jobs) /\ Len(hand) = 0
        BY <1>1 DEF Init
    <2>3. /\ main.at = "down" /\ nextjob = 0 /\ jobno = 0 /\ adds = 0 /\ at = "idle" /\ took = FALSE
          /\ done = {} /\ main \in [at : {"down", "build", "signal", "junk", "serve"}, id : Nat]
        BY <1>3 DEF Init
    <2> QED
        BY <2>1, <2>2, <2>3 DEF Types, Threads, Running, Busy
<1>5. Numbered /\ Turns
    BY <1>1 DEF Init, Numbered, Turns
<1>6. Stages
    BY <1>1 DEF Init, Stages, Running
<1>7. \A c \in Clients : ~OwnNumber(c)
    BY DEF Init, OwnNumber
<1> QED
    BY <1>4, <1>5, <1>6, <1>7 DEF PrintInv

\* Every step of every thread keeps the invariant.
LEMMA PrintInvNext == PrintInv /\ [Next]_vars => PrintInv'
<1> SUFFICES ASSUME PrintInv, [Next]_vars PROVE PrintInv'
    OBVIOUS
<1>1. CASE Start \/ Stop \/ NoPrinter \/ Hangup
    BY <1>1, StartKeeps, EndedKeeps, HangupKeeps DEF Stop, NoPrinter
<1>2. CASE Build
    BY <1>2, BuildQueueKeeps, BuildShortKeeps, BuildSkipKeeps, BuildSignalKeeps, BuildUnlinkKeeps,
       BuildEndKeeps DEF Build
<1>3. CASE Printing
    BY <1>3, CondWaitKeeps, PickKeeps, UpdateJobnoKeeps, ReconfigureKeeps, OpenDataKeeps,
       OpenFailsKeeps, SendJobKeeps, SendFailsKeeps, StatusOKKeeps, StatusFailsKeeps,
       StatusSpinsKeeps, UnlinkDataKeeps, UnlinkRequestKeeps, DeferKeeps, WakeKeeps DEF Printing
<1>4. ASSUME NEW c \in Clients, Accept(c) \/ Thread(c) PROVE PrintInv'
    BY <1>4, AcceptKeeps, ReadHeaderKeeps, GetNewJobnoKeeps, CreateDataKeeps, SpoolDataKeeps,
       CreateRequestKeeps, WriteRequestKeeps, RespondKeeps, AddJobKeeps, SignalKeeps,
       RespondRefusedKeeps, UndoKeeps DEF Thread
<1>5. CASE UNCHANGED vars
    <2> USE <1>5 DEF vars, files, daemon, printer, clients, history, bounds
    <2>1. Types'
        BY DEF PrintInv, Types, Running
    <2>2. Numbered' /\ Turns'
        BY DEF PrintInv, Numbered, Turns, Has
    <2>3. Stages'
        BY DEF PrintInv, Stages, Running
    <2>4. ASSUME NEW c \in Clients, OwnNumber(c)' PROVE Spooled(c)' /\ Held(c)'
        BY <2>4 DEF PrintInv, OwnNumber, Spooled, Held, Past, InHand, InQueue, Running
    <2> QED
        BY <2>1, <2>2, <2>3, <2>4 DEF PrintInv
<1> QED
    BY <1>1, <1>2, <1>3, <1>4, <1>5 DEF Next, Over

\* The invariant holds in every behaviour.
LEMMA PrintInvHolds == Spec => []PrintInv
BY PrintInvInit, PrintInvNext, PTL DEF Spec

-----------------------------------------------------------------------------
(* What the invariant says. *)

\* An accepted job is in the spool, with its control file and its document,
\* until the printer has acknowledged it: through every stop of the daemon, at
\* every point, every failure of the printer, and with any number of clients.
\* As long as its number is nobody else's, as in all of these theorems.
THEOREM SpoolKeeps == Spec => []AcceptedKept
<1>1. PrintInv => AcceptedKept
    <2> SUFFICES ASSUME PrintInv, NEW c \in Clients, told[c] = "accepted", OwnNumber(c), c \notin done
                 PROVE  LET j == thread[c].id
                        IN  /\ j \in DOMAIN req /\ req[j].of = c /\ req[j].whole
                            /\ j \in DOMAIN data /\ data[j].of = c /\ data[j].got # "part"
        BY DEF AcceptedKept
    <2>1. Spooled(c) /\ Numbered
        BY DEF PrintInv
    <2>2. thread[c].id \in DOMAIN req /\ thread[c].id \in DOMAIN data
        BY <2>1 DEF Spooled
    <2>3. req[thread[c].id].of = c /\ data[thread[c].id].of = c
        BY <2>1, <2>2, Owned
    <2>4. req[thread[c].id].whole = TRUE /\ data[thread[c].id].got # "part"
        BY <2>1, <2>2 DEF Spooled
    <2> QED
        BY <2>2, <2>3, <2>4
<1> QED
    BY <1>1, PrintInvHolds, PTL

\* What is printed under the name of a client is its document, not a part of
\* what is still being received, and nothing of a client that was refused.
THEOREM PaperSound == Spec => []PrintsAccepted
<1>1. PrintInv => PrintsAccepted
    <2> SUFFICES ASSUME PrintInv PROVE PrintedRight /\ RefusedNotPrinted
        BY DEF PrintsAccepted
    <2>1. ASSUME NEW p \in out, OwnNumber(p.req) PROVE p.of = p.req /\ p.got # "part"
        <3>1. p.req \in Clients /\ Has(p.of, thread[p.req].id)
            BY DEF PrintInv, Numbered
        <3>2. p.of = p.req
            BY <2>1, <3>1 DEF Has, OwnNumber
        <3> QED
            BY <2>1, <3>1, <3>2 DEF PrintInv, Held
    <2>2. ASSUME NEW c \in Clients, told[c] = "refused", OwnNumber(c), NEW p \in out
          PROVE  p.req # c
        BY <2>2 DEF PrintInv, Held, Past
    <2> QED
        BY <2>1, <2>2 DEF PrintedRight, RefusedNotPrinted
<1> QED
    BY <1>1, PrintInvHolds, PTL

\* The jobs in memory, as one sequence.
LEMMA MemoryView ==
    ASSUME PrintInv, NEW q, q = hand \o queue
    PROVE  \/ hand = <<>> /\ q = queue
           \/ /\ hand # <<>> /\ 1 \in DOMAIN q /\ q[1] = hand[1]
              /\ \A i \in DOMAIN queue : i + 1 \in DOMAIN q /\ q[i + 1] = queue[i] /\ i \in Nat
              /\ \A i \in DOMAIN q : i \in Nat /\
                     (i = 1 \/ (1 < i /\ i - 1 \in DOMAIN queue /\ q[i] = queue[i - 1]))
<1>1. CASE at \in Busy
    BY <1>1, HandIs, ReplaceStep DEF PrintInv
<1>2. CASE at \notin Busy
    <2>1. hand = <<>> /\ queue \in Seq(Jobs)
        BY <1>2, HandIs DEF PrintInv, Types
    <2> QED
        BY <2>1, ConcatEmptySeq
<1> QED
    BY <1>1, <1>2

\* Memory has a client's job at most once, and if nothing else tells, once.
LEMMA MemoryOnce ==
    ASSUME PrintInv, NEW c \in Clients, OwnNumber(c)
    PROVE  Cardinality({i \in DOMAIN (hand \o queue) : (hand \o queue)[i].req = c})
             = IF InHand(c) \/ InQueue(c) THEN 1 ELSE 0
<1> DEFINE q == hand \o queue
           S == {i \in DOMAIN q : q[i].req = c}
<1>1. \/ hand = <<>> /\ q = queue
      \/ /\ hand # <<>> /\ 1 \in DOMAIN q /\ q[1] = hand[1]
         /\ \A i \in DOMAIN queue : i + 1 \in DOMAIN q /\ q[i + 1] = queue[i] /\ i \in Nat
         /\ \A i \in DOMAIN q : i \in Nat /\
                (i = 1 \/ (1 < i /\ i - 1 \in DOMAIN queue /\ q[i] = queue[i - 1]))
    BY MemoryView
<1> HIDE DEF q
<1>2. /\ InHand(c) => ~InQueue(c)
      /\ \A i, k \in DOMAIN queue : queue[i].req = c /\ queue[k].req = c => i = k
    BY DEF PrintInv, Held
<1>3. CASE InHand(c)
    <2>1. S = {1}
        BY <1>1, <1>2, <1>3 DEF InHand, InQueue
    <2> QED
        BY <1>3, <2>1, FS_Singleton DEF q
<1>4. CASE ~InHand(c) /\ InQueue(c)
    <2>1. PICK k \in DOMAIN queue : queue[k].req = c
        BY <1>4 DEF InQueue
    <2>2. CASE hand = <<>>
        <3>1. q = queue
            BY <1>1, <2>2
        <3>2. S = {k}
            BY <1>2, <2>1, <3>1
        <3> QED
            BY <1>4, <3>2, FS_Singleton DEF q
    <2>3. CASE hand # <<>>
        <3>1. \A i \in DOMAIN q : q[i].req = c => i = k + 1
            <4> SUFFICES ASSUME NEW i \in DOMAIN q, q[i].req = c PROVE i = k + 1
                OBVIOUS
            <4>1. i # 1
                BY <1>1, <1>4, <2>3 DEF InHand
            <4>2. i - 1 = k
                BY <1>1, <1>2, <2>1, <2>3, <4>1
            <4> QED
                BY <1>1, <2>3, <4>2
        <3>2. S = {k + 1}
            BY <1>1, <2>1, <2>3, <3>1
        <3> QED
            BY <1>4, <3>2, FS_Singleton DEF q
    <2> QED
        BY <2>2, <2>3
<1>5. CASE ~InHand(c) /\ ~InQueue(c)
    <2>1. S = {}
        BY <1>1, <1>5 DEF InHand, InQueue
    <2> QED
        BY <1>5, <2>1, FS_EmptySet DEF q
<1> QED
    BY <1>3, <1>4, <1>5

\* In a running daemon an accepted job is in one place, its thread, the queue,
\* the printer thread's hand or the directory still to be read, and jobs
\* leave in the order in which they were queued: add_job, remove_job and
\* replace_job lose, double and reorder nothing.
THEOREM QueueKept == Spec => []QueueSound
<1>1. PrintInv => HeldOnce
    <2> SUFFICES ASSUME PrintInv, NEW c \in Clients, Running, told[c] = "accepted", OwnNumber(c),
                        thread[c].id \notin lost
                 PROVE  Places(c) \in IF c \in done THEN {0, 1} ELSE {1}
        BY DEF HeldOnce
    <2> DEFINE mem == Cardinality({i \in DOMAIN (hand \o queue) : (hand \o queue)[i].req = c})
    <2>1. mem = IF InHand(c) \/ InQueue(c) THEN 1 ELSE 0
        BY MemoryOnce
    <2>2. InHand(c) \/ InQueue(c) => thread[c].at # "add" /\ thread[c].id \notin todo
        <3>1. InHand(c) \/ InQueue(c) => Past(c)
            BY DEF PrintInv, Held
        <3>2. InHand(c) \/ InQueue(c) => thread[c].id \notin todo
            BY DEF PrintInv, Numbered, Stages, InHand, InQueue, Has
        <3> QED
            BY <3>1, <3>2 DEF Past
    <2>3. thread[c].at = "add" => thread[c].id \notin todo
        BY DEF PrintInv, Stages, Types
    <2>4. c \notin done => thread[c].at = "add" \/ InHand(c) \/ InQueue(c) \/ thread[c].id \in todo
        BY DEF PrintInv, Held
    <2>5. Places(c) = (IF thread[c].at = "add" THEN 1 ELSE 0) + mem
                      + (IF thread[c].id \in todo THEN 1 ELSE 0)
        BY DEF Places
    <2> HIDE DEF mem
    <2> QED
        BY <2>1, <2>2, <2>3, <2>4, <2>5
<1>2. PrintInv => KeepsOrder
    <2> SUFFICES ASSUME PrintInv PROVE KeepsOrder
        OBVIOUS
    <2> DEFINE q == hand \o queue
    <2>1. \/ hand = <<>> /\ q = queue
          \/ /\ hand # <<>> /\ 1 \in DOMAIN q /\ q[1] = hand[1]
             /\ \A i \in DOMAIN queue : i + 1 \in DOMAIN q /\ q[i + 1] = queue[i] /\ i \in Nat
             /\ \A i \in DOMAIN q : i \in Nat /\
                    (i = 1 \/ (1 < i /\ i - 1 \in DOMAIN queue /\ q[i] = queue[i - 1]))
        BY MemoryView
    <2> HIDE DEF q
    <2>2. ASSUME NEW i \in DOMAIN q, NEW j \in DOMAIN q, i < j PROVE q[i].turn < q[j].turn
        <3>1. CASE hand = <<>> /\ q = queue
            BY <2>2, <3>1 DEF PrintInv, Turns
        <3>2. CASE hand # <<>> /\ i = 1
            <4>1. j - 1 \in DOMAIN queue /\ q[j] = queue[j - 1]
                BY <2>1, <2>2, <3>2
            <4> QED
                BY <2>1, <3>2, <4>1 DEF PrintInv, Turns
        <3>3. CASE hand # <<>> /\ i # 1
            <4>1. /\ i - 1 \in DOMAIN queue /\ q[i] = queue[i - 1] /\ j - 1 \in DOMAIN queue
                  /\ q[j] = queue[j - 1] /\ i - 1 < j - 1
                BY <2>1, <2>2, <3>3
            <4> QED
                BY <4>1 DEF PrintInv, Turns
        <3> QED
            BY <2>1, <3>1, <3>2, <3>3
    <2> QED
        BY <2>2 DEF KeepsOrder, q
<1> QED
    BY <1>1, <1>2, PrintInvHolds, PTL DEF QueueSound

\* Only a job that has been sent makes the printer print.
LEMMA TookStep == PrintInv /\ [Next]_vars => ((took' /\ ~took) => SendJob)
<1> SUFFICES ASSUME PrintInv, [Next]_vars, took', ~took PROVE SendJob
    OBVIOUS
<1> USE DEF files, daemon, printer, clients, history, bounds
<1>1. CASE Start \/ Stop \/ NoPrinter \/ Hangup
    BY <1>1 DEF Start, Stop, NoPrinter, Hangup, Ended
<1>2. CASE Build
    BY <1>2 DEF Build, BuildQueue, BuildShort, BuildSkip, BuildSignal, BuildUnlink, BuildEnd
<1>3. CASE Printing
    BY <1>3 DEF Printing, CondWait, Pick, UpdateJobno, Reconfigure, OpenData, OpenFails, SendFails,
       StatusOK, StatusFails, StatusSpins, UnlinkData, UnlinkRequest, Defer, Wake
<1>4. ASSUME NEW c \in Clients, Accept(c) \/ Thread(c) PROVE FALSE
    BY <1>4 DEF Accept, Thread, ReadHeader, GetNewJobno, CreateData, SpoolData, CreateRequest,
       WriteRequest, Respond, AddJob, Signal, RespondRefused, Undo
<1>5. CASE UNCHANGED vars
    BY <1>5 DEF vars
<1> QED
    BY <1>1, <1>2, <1>3, <1>4, <1>5 DEF Next, Over

\* A job that the printer has acknowledged is not printed again, by the same
\* daemon or by one that is started after a stop at any point, unless the stop
\* came before the data file was unlinked: such a job counts as not acknowledged.
THEOREM NeverTwice == Spec => PrintedOnce
<1>1. PrintInv /\ [Next]_vars =>
          [\A c \in done : OwnNumber(c) => ~(took' /\ ~took /\ hand[1].req = c)]_vars
    <2> SUFFICES ASSUME PrintInv, [Next]_vars, NEW c \in done, OwnNumber(c), took', ~took,
                        hand[1].req = c
                 PROVE  FALSE
        OBVIOUS
    <2>1. at = "send"
        BY TookStep DEF SendJob, PrinterAt
    <2>2. hand # <<>> /\ c \in Clients
        BY <2>1, HandIs DEF PrintInv, Types, Busy
    <2> QED
        BY <2>1, <2>2 DEF PrintInv, Held, InHand
<1> QED
    BY <1>1, PrintInvHolds, PTL DEF Spec, PrintedOnce

=============================================================================
