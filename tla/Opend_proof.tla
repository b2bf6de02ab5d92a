----------------------------- MODULE Opend_proof ----------------------------
(***************************************************************************)
(* The open server for any number of clients, names and opens: it watches  *)
(* every connection it has accepted, and every client gets the file that   *)
(* it has asked for.                                                       *)
(***************************************************************************)
EXTENDS Opend, NatSets, FiniteSetTheorems, TLAPS

Ends    == {"none", "open", "closed"}
Pieces  == [name : Names, is : {"all", "head", "tail"}]
Replies == [ok : BOOLEAN, is : Names \cup {"not terminated", "usage", "cannot open"}]
Conns   == [cli : Ends, srv : Ends, req : Seq(Pieces), back : Seq(Replies)]
AnyName == CHOOSE n \in Names : TRUE
States  == {"start", "ready", "waiting", "broken", "done", "killed"}
Users   == [st : States, name : Names \cup {AnyName}, log : Seq([name : Names, got : Replies])]

OpenTypes ==
    /\ spc \in {"wait", "accept", "scan", "dead"}
    /\ maxi \in 0 .. Cardinality(Clients)
    /\ spc = "scan" => at \in Slots
    /\ client \in [Slots -> Clients \cup {NoFd}] /\ watched \in [Slots -> Clients \cup {NoFd}]
    /\ conn \in [Clients -> Conns] /\ backlog \in Seq(Clients)
    /\ user \in [Clients -> Users]

\* The daemon's table: each connection that it has is at one entry, at or below
\* maxi, and each entry in use is one.
Table ==
    form # "private" /\ spc # "dead" =>
        /\ watched = client
        /\ \A s \in Slots : client[s] # NoFd => s <= maxi
        /\ \A s, t \in Slots : client[s] = client[t] /\ client[s] # NoFd => s = t
        /\ \A c \in Clients : SrvOpen(c) <=> \E s \in Slots : client[s] = c

\* A client is in the queue once, between its connect and the server's accept.
Backlog ==
    /\ \A i \in DOMAIN backlog : conn[backlog[i]].srv = "none"
    /\ \A i, j \in DOMAIN backlog : backlog[i] = backlog[j] => i = j
    /\ \A c \in Clients : user[c].st = "start" =>
          conn[c] = NewConn /\ user[c].log = <<>> /\ \A i \in DOMAIN backlog : backlog[i] # c

\* Until a name that is too long has spoilt it, a connection has what belongs to
\* the one request of its client, and nothing between two requests.
Clean(c) == conn[c].req = <<>> /\ conn[c].back = <<>>

Outstanding(c) ==
    LET n == user[c].name
        all  == [name |-> n, is |-> "all"]
        head == [name |-> n, is |-> "head"]
        tail == [name |-> n, is |-> "tail"]
    IN  /\ n \notin Long => \/ conn[c].req = <<all>> /\ conn[c].back = <<>>
                            \/ conn[c].req = <<>> /\ conn[c].back = <<Answer(all)>>
        /\ n \in Long => \/ conn[c].req = <<head, tail>> /\ conn[c].back = <<>>
                         \/ conn[c].req = <<tail>> /\ conn[c].back = <<Answer(head)>>
                         \/ conn[c].req = <<>> /\ Len(conn[c].back) = 2

Fine(c) ==
    /\ user[c].st = "waiting" => user[c].name \in Names
    /\ ~AskedLong(c) => /\ user[c].st \in {"start", "ready"} => Clean(c)
                        /\ user[c].st = "waiting" => Outstanding(c)

OneRequest == \A c \in Clients : Fine(c)

OpenInv == OpenTypes /\ Table /\ Backlog /\ OneRequest /\ OwnFile

-----------------------------------------------------------------------------
(* What one call does to the connections. *)

\* Only connection c differs in k, and it is well formed.
Only(k, c) ==
    /\ k \in [Clients -> Conns]
    /\ \A d \in Clients : d # c => k[d] = conn[d]

\* The two sides keep what they have of each other.
Calm(k, c) == k[c].req = conn[c].req /\ k[c].back = conn[c].back

\* request answers with a descriptor or an error.
LEMMA AnswerType ==
    ASSUME NEW r \in Pieces
    PROVE  Answer(r) \in Replies
BY DEF Answer, AnErr, AnFd, Pieces, Replies, CliArgs, Names

\* A request that is read takes no more than there is.
LEMMA AfterReadType ==
    ASSUME NEW q \in Seq(Pieces), q # <<>>
    PROVE  AfterRead(q) \in Seq(Pieces) /\ Head(q) \in Pieces
BY DEF AfterRead

\* request, on the connection of c.
LEMMA RequestStep ==
    ASSUME conn \in [Clients -> Conns], NEW c \in Clients, HasData(c)
    PROVE  /\ Only(Request(c), c)
           /\ Request(c)[c].cli = conn[c].cli /\ Request(c)[c].srv = conn[c].srv
           /\ Request(c)[c].req = AfterRead(conn[c].req)
           /\ Request(c)[c].back = Append(conn[c].back, Answer(Head(conn[c].req)))
<1> DEFINE q == conn[c].req
           a == Answer(Head(q))
<1>1. q \in Seq(Pieces) /\ q # <<>> /\ conn[c].back \in Seq(Replies) /\ conn[c] \in Conns
    BY DEF HasData, Conns
<1>2. AfterRead(q) \in Seq(Pieces) /\ a \in Replies
    BY <1>1, AfterReadType, AnswerType
<1>3. Append(conn[c].back, a) \in Seq(Replies)
    BY <1>1, <1>2
<1>4. Request(c) = [conn EXCEPT ![c] = [conn[c] EXCEPT !.req = AfterRead(q),
                                                       !.back = Append(conn[c].back, a)]]
    BY DEF Request, Conns
<1> HIDE DEF q, a
<1>5. [conn[c] EXCEPT !.req = AfterRead(q), !.back = Append(conn[c].back, a)] \in Conns
    BY <1>1, <1>2, <1>3 DEF Conns
<1> QED
    BY <1>1, <1>4, <1>5 DEF Only, Conns, q, a

\* A server that closes its end, and one that accepts.
LEMMA SrvStep ==
    ASSUME conn \in [Clients -> Conns], NEW c \in Clients, NEW e \in Ends
    PROVE  LET k == [conn EXCEPT ![c].srv = e]
           IN  Only(k, c) /\ Calm(k, c) /\ k[c].cli = conn[c].cli /\ k[c].srv = e
<1>1. conn[c] \in Conns
    OBVIOUS
<1>2. [conn EXCEPT ![c].srv = e] = [conn EXCEPT ![c] = [conn[c] EXCEPT !.srv = e]]
    OBVIOUS
<1>3. [conn[c] EXCEPT !.srv = e] \in Conns
    BY <1>1 DEF Conns
<1> QED
    BY <1>1, <1>2, <1>3 DEF Only, Calm, Conns

\* A client that closes its end.
LEMMA CliStep ==
    ASSUME conn \in [Clients -> Conns], NEW c \in Clients
    PROVE  /\ Only(CliClose(conn, c), c)
           /\ CliClose(conn, c)[c].srv = conn[c].srv
<1>1. conn[c] \in Conns
    OBVIOUS
<1>2. CliClose(conn, c) = [conn EXCEPT ![c] = [conn[c] EXCEPT !.cli = "closed", !.back = <<>>]]
    BY DEF CliClose
<1>3. "closed" \in Ends /\ <<>> \in Seq(Replies)
    BY DEF Ends
<1>4. [conn[c] EXCEPT !.cli = "closed", !.back = <<>>] \in Conns
    BY <1>1, <1>3 DEF Conns
<1> QED
    BY <1>1, <1>2, <1>4 DEF Only, Conns

\* The walk of the daemon over its table.
LEMMA GoOnTypes ==
    ASSUME NEW n \in Nat, NEW mx \in 0 .. Cardinality(Clients), NEW cl, NEW rv,
           GoOn(n, cl, rv, mx)
    PROVE  spc' \in {"scan", "wait"} /\ (spc' = "scan" => at' \in Slots)
<1> DEFINE busy == {s \in n + 1 .. mx : cl[s] # NoFd /\ rv[s] # {}}
<1>1. Cardinality(Clients) \in Nat
    BY ParamAssumption, FS_CardinalityType
<1>2. CASE busy # {}
    <2>1. busy \in SUBSET Nat
        BY <1>1
    <2>2. Min(busy) \in busy
        BY <1>2, <2>1, MinOf
    <2> QED
        BY <1>1, <1>2, <2>2 DEF GoOn, Slots
<1>3. CASE busy = {}
    BY <1>3 DEF GoOn
<1> QED
    BY <1>2, <1>3

-----------------------------------------------------------------------------
(* What a step has to keep for each part of the invariant. *)

\* Steps that leave the table and the queue, and who is connected.
LEMMA TableKeeps ==
    ASSUME Table, Backlog,
           UNCHANGED <<form, client, maxi, watched, backlog>>,
           backlog \in Seq(Clients),
           spc' # "dead" => spc # "dead",
           \A d \in Clients : conn'[d].srv = conn[d].srv,
           \A d \in Clients : user'[d].st = "start" => user'[d] = user[d] /\ conn'[d] = conn[d]
    PROVE  Table' /\ Backlog'
<1>1. Table'
    BY DEF Table, SrvOpen
<1>2. \A i \in DOMAIN backlog : backlog[i] \in Clients
    OBVIOUS
<1>3. Backlog'
    BY <1>2 DEF Backlog
<1> QED
    BY <1>1, <1>3

\* Steps that a client takes no part in.
LEMMA FineKeeps ==
    ASSUME NEW d \in Clients, Fine(d),
           user'[d] = user[d],
           conn'[d].req = conn[d].req, conn'[d].back = conn[d].back
    PROVE  Fine(d)'
BY DEF Fine, Clean, Outstanding, AskedLong

\* A step on connection c for which the user does nothing.
LEMMA OthersFine ==
    ASSUME OneRequest, NEW c \in Clients, Only(conn', c),
           \A d \in Clients : d # c => user'[d] = user[d],
           Fine(c)'
    PROVE  OneRequest'
<1>1. ASSUME NEW d \in Clients PROVE Fine(d)'
    <2>1. CASE d = c
        BY <2>1
    <2>2. CASE d # c
        <3>1. user'[d] = user[d] /\ conn'[d] = conn[d]
            BY <2>2 DEF Only
        <3> QED
            BY <3>1, FineKeeps DEF OneRequest
    <2> QED
        BY <2>1, <2>2
<1> QED
    BY <1>1 DEF OneRequest

\* A request that the server answers is the one its client waits for.
LEMMA RequestFine ==
    ASSUME OpenTypes, NEW c \in Clients, Fine(c), HasData(c),
           conn' = Request(c), user' = user
    PROVE  Fine(c)'
<1>1. /\ conn'[c].req = AfterRead(conn[c].req)
      /\ conn'[c].back = Append(conn[c].back, Answer(Head(conn[c].req)))
    BY RequestStep DEF OpenTypes
<1>2. SUFFICES ASSUME ~AskedLong(c)
               PROVE  /\ user[c].st \in {"start", "ready"} => Clean(c)'
                      /\ user[c].st = "waiting" => Outstanding(c)'
    BY DEF Fine, AskedLong
<1>3. ~(user[c].st \in {"start", "ready"})
    BY <1>2 DEF Fine, Clean, HasData
<1>4. ASSUME user[c].st = "waiting" PROVE Outstanding(c)'
    <2> DEFINE n == user[c].name
               all  == [name |-> n, is |-> "all"]
               head == [name |-> n, is |-> "head"]
               tail == [name |-> n, is |-> "tail"]
    <2>1. Outstanding(c)
        BY <1>2, <1>4 DEF Fine
    <2>2. CASE n \notin Long
        <3>1. conn[c].req = <<all>> /\ conn[c].back = <<>>
            BY <2>1, <2>2 DEF Outstanding, HasData
        <3>2. Head(<<all>>) = all /\ AfterRead(<<all>>) = <<>>
            BY DEF AfterRead
        <3>3. conn'[c].req = <<>> /\ conn'[c].back = <<Answer(all)>>
            BY <1>1, <3>1, <3>2
        <3> QED
            BY <2>1, <2>2, <3>3 DEF Outstanding
    <2>3. CASE n \in Long /\ conn[c].req = <<head, tail>> /\ conn[c].back = <<>>
        <3>1. Head(<<head, tail>>) = head /\ AfterRead(<<head, tail>>) = <<tail>>
            BY DEF AfterRead
        <3>2. conn'[c].req = <<tail>> /\ conn'[c].back = <<Answer(head)>>
            BY <1>1, <2>3, <3>1
        <3> QED
            BY <2>1, <2>3, <3>2 DEF Outstanding
    <2>4. CASE n \in Long /\ conn[c].req = <<tail>> /\ conn[c].back = <<Answer(head)>>
        <3>1. Head(<<tail>>) = tail /\ AfterRead(<<tail>>) = <<>>
            BY DEF AfterRead
        <3>2. conn'[c].req = <<>> /\ Len(conn'[c].back) = 2
            <4>1. head \in Pieces
                BY <1>4 DEF Pieces, Fine
            <4>2. Answer(head) \in Replies
                BY <4>1, AnswerType
            <4>3. Len(Append(<<Answer(head)>>, Answer(tail))) = 2
                BY <4>2
            <4> QED
                BY <1>1, <2>4, <3>1, <4>3
        <3> QED
            BY <2>1, <2>4, <3>2 DEF Outstanding
    <2> QED
        BY <2>1, <2>2, <2>3, <2>4 DEF Outstanding, HasData
<1> QED
    BY <1>3, <1>4

-----------------------------------------------------------------------------
(* One lemma for each kind of step. *)

\* The table has as many entries as there are clients.
LEMMA SlotsCount == Cardinality(Clients) \in Nat /\ Slots \in SUBSET Nat
<1>1. Cardinality(Clients) \in Nat
    BY ParamAssumption, FS_CardinalityType
<1> QED
    BY <1>1 DEF Slots

\* The daemon answers, or the private server does.
LEMMA AnswerKeeps ==
    ASSUME OpenInv, NEW c \in Clients, HasData(c), conn' = Request(c),
           UNCHANGED <<form, client, maxi, watched, user, backlog>>,
           spc' \in {"wait", "accept", "scan", "dead"},
           spc' = "scan" => at' \in Slots, spc' # "dead" => spc # "dead"
    PROVE  OpenInv'
<1>1. Only(conn', c) /\ conn'[c].srv = conn[c].srv
    BY RequestStep DEF OpenInv, OpenTypes
<1>2. \A d \in Clients : conn'[d].srv = conn[d].srv
    BY <1>1 DEF Only
<1>3. \A d \in Clients : user'[d].st = "start" => conn'[d] = conn[d]
    <2>1. user[c].st # "start"
        BY DEF OpenInv, Backlog, NewConn, HasData
    <2> QED
        BY <1>1, <2>1 DEF Only
<1>4. OpenTypes'
    BY <1>1 DEF OpenInv, OpenTypes, Only
<1>5. Table' /\ Backlog'
    BY <1>2, <1>3, TableKeeps DEF OpenInv, OpenTypes
<1>6. OneRequest'
    BY <1>1, RequestFine, OthersFine DEF OpenInv, OneRequest
<1>7. OwnFile'
    BY DEF OpenInv, OwnFile
<1> QED
    BY <1>4, <1>5, <1>6, <1>7 DEF OpenInv

\* Ends of connections change, and nothing that is in them.
LEMMA CalmKeeps ==
    ASSUME OpenInv, conn' \in [Clients -> Conns],
           \A d \in Clients : Calm(conn', d), UNCHANGED user
    PROVE  OneRequest' /\ OwnFile'
<1>1. \A d \in Clients : Fine(d)'
    BY FineKeeps DEF OpenInv, OneRequest, Calm
<1> QED
    BY <1>1 DEF OpenInv, OneRequest, OwnFile

\* SIGPIPE ends the daemon.
LEMMA DieKeeps ==
    ASSUME OpenInv, Die, UNCHANGED <<form, client, maxi, watched, user>>
    PROVE  OpenInv'
<1>1. ASSUME NEW d \in Clients
      PROVE  conn'[d] \in Conns /\ Calm(conn', d)
             /\ (user'[d].st = "start" => conn'[d] = conn[d])
    <2>1. conn'[d] = IF SrvOpen(d) THEN SrvClose(conn, d)[d] ELSE conn[d]
        BY DEF Die
    <2>2. SrvClose(conn, d) \in [Clients -> Conns] /\ Calm(SrvClose(conn, d), d)
        BY SrvStep DEF OpenInv, OpenTypes, SrvClose, Only, Ends
    <2>3. user[d].st = "start" => ~SrvOpen(d)
        BY DEF OpenInv, Backlog, NewConn, SrvOpen
    <2> QED
        BY <2>1, <2>2, <2>3 DEF Calm, OpenInv, OpenTypes
<1>2. conn' \in [Clients -> Conns]
    BY <1>1 DEF Die
<1>3. OpenTypes' /\ Table'
    BY <1>2 DEF OpenInv, OpenTypes, Table, Die
<1>4. DOMAIN backlog' = {}
    BY DEF Die
<1>5. Backlog'
    BY <1>1, <1>4 DEF OpenInv, Backlog
<1> QED
    BY <1>1, <1>2, <1>3, <1>5, CalmKeeps DEF OpenInv

\* The private server of c closes.
LEMMA PrivateCloseKeeps ==
    ASSUME OpenInv, NEW c \in Clients, Private(c), conn' = SrvClose(conn, c),
           UNCHANGED <<form, spc, at, client, maxi, watched, user, backlog>>
    PROVE  OpenInv'
<1>1. Only(conn', c) /\ Calm(conn', c)
    BY SrvStep DEF OpenInv, OpenTypes, SrvClose, Ends
<1>2. conn' \in [Clients -> Conns] /\ \A d \in Clients : Calm(conn', d)
    BY <1>1 DEF Only, Calm
<1>3. OpenTypes' /\ Table'
    BY <1>2 DEF OpenInv, OpenTypes, Table, Private
<1>4. \A i \in DOMAIN backlog : backlog[i] \in Clients /\ backlog[i] # c
    BY DEF OpenInv, OpenTypes, Backlog, Private, SrvOpen
<1>5. user[c].st # "start"
    BY DEF OpenInv, Backlog, Private, SrvOpen, NewConn
<1>6. Backlog'
    BY <1>1, <1>4, <1>5 DEF OpenInv, Backlog, Only
<1> QED
    BY <1>2, <1>3, <1>6, CalmKeeps DEF OpenInv

\* client_add finds a free entry for a client in the queue: a table that is full
\* has every client.
LEMMA FreeEntry ==
    ASSUME OpenInv, form # "private", spc = "accept", backlog # <<>>
    PROVE  /\ ClientAdd \in Slots /\ client[ClientAdd] = NoFd
           /\ NewMaxi(ClientAdd) \in 0 .. Cardinality(Clients)
<1> DEFINE c == Head(backlog)
           free == {s \in Slots : client[s] = NoFd}
<1>1. c \in Clients /\ conn[c].srv = "none"
    <2>1. backlog \in Seq(Clients) /\ 1 \in DOMAIN backlog /\ c = backlog[1]
        BY DEF OpenInv, OpenTypes
    <2> QED
        BY <2>1 DEF OpenInv, Backlog
<1>2. Cardinality(Clients) \in Nat /\ IsFiniteSet(Slots) /\ Cardinality(Slots) = Cardinality(Clients)
    BY SlotsCount, FS_Interval DEF Slots
<1>3. ASSUME free = {} PROVE FALSE
    <2>1. \A s \in Slots : client[s] # NoFd
        BY <1>3
    <2>2. client \in Injection(Slots, Clients)
        BY <2>1 DEF OpenInv, OpenTypes, Table, Injection, IsInjective
    <2>3. client \in Surjection(Slots, Clients)
        BY <1>2, <2>2, FS_Injection, ParamAssumption
    <2>4. PICK s \in Slots : client[s] = c
        BY <1>1, <2>3 DEF Surjection
    <2> QED
        BY <1>1, <2>4 DEF OpenInv, Table, SrvOpen
<1>4. free \in SUBSET Nat
    BY SlotsCount
<1>5. ClientAdd \in free
    BY <1>3, <1>4, MinOf DEF ClientAdd
<1>6. NewMaxi(ClientAdd) \in 0 .. Cardinality(Clients)
    BY <1>2, <1>5 DEF NewMaxi, OpenInv, OpenTypes, Slots
<1> QED
    BY <1>5, <1>6

\* accept: the first of the queue gets the first free entry.
LEMMA AcceptKeeps ==
    ASSUME OpenInv, form # "private", Accept
    PROVE  OpenInv'
<1> DEFINE s == ClientAdd
<1>1. PICK c \in Clients :
          /\ ServAccept(c)
          /\ client' = [client EXCEPT ![s] = c] /\ watched' = [watched EXCEPT ![s] = c]
    BY DEF Accept
<1>2. /\ spc = "accept" /\ maxi' = NewMaxi(s) /\ UNCHANGED <<form, user>>
    BY DEF Accept
<1>3. s \in Slots /\ client[s] = NoFd /\ maxi' \in 0 .. Cardinality(Clients)
    BY <1>1, <1>2, FreeEntry DEF ServAccept
<1>4. maxi' \in Nat /\ Cardinality(Clients) \in Nat /\ Slots \in SUBSET Nat
      /\ maxi \in Nat
    BY <1>3, SlotsCount DEF OpenInv, OpenTypes
<1>5. s <= maxi' /\ maxi <= maxi'
    BY <1>2, <1>3, <1>4 DEF NewMaxi
<1>6. spc' \in {"scan", "wait"} /\ (spc' = "scan" => at' \in Slots)
    <2>1. CASE GoOn(maxi', client', revents, maxi')
        BY <1>3, <1>4, <2>1, GoOnTypes
    <2>2. CASE GoOn(0, client', revents, maxi')
        BY <1>3, <2>2, GoOnTypes
    <2>3. CASE \E junk \in SUBSET Events : GoOn(0, client', [revents EXCEPT ![s] = junk], maxi')
        BY <1>3, <2>3, GoOnTypes
    <2> QED
        BY <2>1, <2>2, <2>3 DEF Accept
<1>7. Only(conn', c) /\ Calm(conn', c) /\ conn'[c].srv = "open"
    BY <1>1, SrvStep DEF OpenInv, OpenTypes, ServAccept, Ends
<1>8. backlog \in Seq(Clients) /\ backlog # <<>> /\ backlog[1] = c /\ backlog' = Tail(backlog)
    BY <1>1 DEF OpenInv, OpenTypes, ServAccept
<1>9. /\ backlog' \in Seq(Clients)
      /\ \A i \in DOMAIN backlog' : i + 1 \in DOMAIN backlog /\ backlog'[i] = backlog[i + 1]
                                    /\ i \in Nat /\ i + 1 # 1
    BY <1>8
<1>10. conn[c].srv = "none" /\ user[c].st # "start"
    BY <1>8 DEF OpenInv, Backlog
<1>11. client \in [Slots -> Clients \cup {NoFd}] /\ client = watched /\ c # NoFd
    BY <1>2, ParamAssumption DEF OpenInv, OpenTypes, Table
<1>12. OpenTypes'
    BY <1>1, <1>2, <1>3, <1>6, <1>7, <1>9, <1>11 DEF OpenInv, OpenTypes, Only
<1>13. Table'
    <2>1. \A t \in Slots : client[t] # c
        BY <1>2, <1>10 DEF OpenInv, Table, SrvOpen
    <2>2. watched' = client' /\ \A t \in Slots : client'[t] = IF t = s THEN c ELSE client[t]
        BY <1>1, <1>11
    <2>3. \A t \in Slots : client'[t] # NoFd => t <= maxi'
        BY <1>2, <1>4, <1>5, <2>2 DEF OpenInv, Table
    <2>4. \A t, u \in Slots : client'[t] = client'[u] /\ client'[t] # NoFd => t = u
        BY <1>2, <2>1, <2>2 DEF OpenInv, Table
    <2>5. \A d \in Clients : SrvOpen(d)' <=> \E t \in Slots : client'[t] = d
        <3> SUFFICES ASSUME NEW d \in Clients
                     PROVE  SrvOpen(d)' <=> \E t \in Slots : client'[t] = d
            OBVIOUS
        <3>1. CASE d = c
            BY <1>3, <1>7, <2>2, <3>1 DEF SrvOpen
        <3>2. CASE d # c
            <4>1. SrvOpen(d)' <=> SrvOpen(d)
                BY <1>7, <3>2 DEF SrvOpen, Only
            <4>2. d # NoFd
                BY ParamAssumption
            <4> QED
                BY <1>2, <1>3, <2>2, <3>2, <4>1, <4>2 DEF OpenInv, Table
        <3> QED
            BY <3>1, <3>2
    <2> QED
        BY <2>2, <2>3, <2>4, <2>5 DEF Table
<1>14. Backlog'
    <2>1. \A i \in DOMAIN backlog' : backlog'[i] \in Clients /\ backlog'[i] # c
        BY <1>8, <1>9 DEF OpenInv, Backlog
    <2>2. \A i \in DOMAIN backlog' : conn'[backlog'[i]].srv = "none"
        BY <1>7, <1>9, <2>1 DEF OpenInv, Backlog, Only
    <2>3. \A i, j \in DOMAIN backlog' : backlog'[i] = backlog'[j] => i = j
        <3> SUFFICES ASSUME NEW i \in DOMAIN backlog', NEW j \in DOMAIN backlog',
                            backlog'[i] = backlog'[j]
                     PROVE  i = j
            OBVIOUS
        <3>1. i + 1 = j + 1
            BY <1>9 DEF OpenInv, Backlog
        <3> QED
            BY <1>9, <3>1
    <2>4. \A d \in Clients : user'[d].st = "start" =>
              /\ conn'[d] = NewConn /\ user'[d].log = <<>>
              /\ \A i \in DOMAIN backlog' : backlog'[i] # d
        BY <1>2, <1>7, <1>9, <1>10 DEF OpenInv, Backlog, Only
    <2> QED
        BY <2>2, <2>3, <2>4 DEF Backlog
<1>15. conn' \in [Clients -> Conns] /\ \A d \in Clients : Calm(conn', d)
    BY <1>7 DEF Only, Calm
<1> QED
    BY <1>2, <1>12, <1>13, <1>14, <1>15, CalmKeeps DEF OpenInv

\* client_del: the entry is free, and the connection is closed with it.
LEMMA HangUpKeeps ==
    ASSUME OpenInv, form # "private", NEW c \in Clients, HangUp(c)
    PROVE  OpenInv'
<1>1. spc = "scan" /\ at \in Slots /\ client[at] = c
    BY DEF HangUp, AtClient, OpenInv, OpenTypes
<1>2. UNCHANGED <<form, maxi, user, backlog>>
    BY DEF HangUp
<1>3. /\ client' = [client EXCEPT ![at] = NoFd] /\ watched' = [watched EXCEPT ![at] = NoFd]
      /\ conn' = SrvClose(conn, c) /\ GoOn(at, client, revents, maxi)
    BY DEF HangUp
<1>4. spc' \in {"scan", "wait"} /\ (spc' = "scan" => at' \in Slots)
    <2>1. at \in Nat /\ maxi \in 0 .. Cardinality(Clients)
        BY <1>1, SlotsCount DEF OpenInv, OpenTypes
    <2> QED
        BY <1>3, <2>1, GoOnTypes
<1>5. Only(conn', c) /\ Calm(conn', c) /\ conn'[c].srv = "closed"
    BY <1>3, SrvStep DEF OpenInv, OpenTypes, SrvClose, Ends
<1>6. client \in [Slots -> Clients \cup {NoFd}] /\ client = watched /\ c # NoFd /\ SrvOpen(c)
    BY <1>1, ParamAssumption DEF OpenInv, OpenTypes, Table
<1>7. OpenTypes'
    BY <1>2, <1>3, <1>4, <1>5, <1>6 DEF OpenInv, OpenTypes, Only
<1>8. Table'
    <2>1. watched' = client' /\ \A t \in Slots : client'[t] = IF t = at THEN NoFd ELSE client[t]
        BY <1>3, <1>6
    <2>2. \A t \in Slots : client[t] = c => t = at
        BY <1>1, <1>6 DEF OpenInv, Table
    <2>3. /\ \A t \in Slots : client'[t] # NoFd => t <= maxi'
          /\ \A t, u \in Slots : client'[t] = client'[u] /\ client'[t] # NoFd => t = u
        BY <1>1, <1>2, <2>1 DEF OpenInv, Table
    <2>4. \A d \in Clients : SrvOpen(d)' <=> \E t \in Slots : client'[t] = d
        <3> SUFFICES ASSUME NEW d \in Clients
                     PROVE  SrvOpen(d)' <=> \E t \in Slots : client'[t] = d
            OBVIOUS
        <3>1. CASE d = c
            BY <1>5, <1>6, <2>1, <2>2, <3>1 DEF SrvOpen
        <3>2. CASE d # c
            <4>1. SrvOpen(d)' <=> SrvOpen(d)
                BY <1>5, <3>2 DEF SrvOpen, Only
            <4>2. d # NoFd
                BY ParamAssumption
            <4> QED
                BY <1>1, <2>1, <3>2, <4>1, <4>2 DEF OpenInv, Table
        <3> QED
            BY <3>1, <3>2
    <2> QED
        BY <2>1, <2>3, <2>4 DEF Table
<1>9. \A i \in DOMAIN backlog : backlog[i] \in Clients /\ backlog[i] # c
    BY <1>6 DEF OpenInv, OpenTypes, Backlog, SrvOpen
<1>10. user[c].st # "start"
    BY <1>6 DEF OpenInv, Backlog, SrvOpen, NewConn
<1>11. Backlog'
    BY <1>2, <1>5, <1>9, <1>10 DEF OpenInv, Backlog, Only
<1>12. conn' \in [Clients -> Conns] /\ \A d \in Clients : Calm(conn', d)
    BY <1>5 DEF Only, Calm
<1> QED
    BY <1>2, <1>7, <1>8, <1>11, <1>12, CalmKeeps DEF OpenInv

\* The other steps of the daemon.
LEMMA ServerKeeps ==
    ASSUME OpenInv, Server
    PROVE  OpenInv'
<1>1. form # "private"
    BY DEF Server
<1>2. CASE Wait
    <2>1. UNCHANGED <<form, client, maxi, watched, user, conn, backlog>> /\ spc = "wait"
        BY <1>2 DEF Wait, streams
    <2>2. spc' \in {"accept", "scan", "wait"} /\ (spc' = "scan" => at' \in Slots)
        <3>1. CASE GoOn(0, client, Reported, maxi)
            <4>1. maxi \in 0 .. Cardinality(Clients)
                BY DEF OpenInv, OpenTypes
            <4> QED
                BY <3>1, <4>1, GoOnTypes
        <3>2. CASE spc' = "accept"
            BY <3>2
        <3> QED
            BY <1>2, <3>1, <3>2 DEF Wait
    <2>3. OpenTypes'
        BY <2>1, <2>2 DEF OpenInv, OpenTypes
    <2>4. Table' /\ Backlog'
        BY <2>1, TableKeeps DEF OpenInv, OpenTypes
    <2>5. \A d \in Clients : Calm(conn', d)
        BY <2>1 DEF Calm
    <2> QED
        BY <2>1, <2>3, <2>4, <2>5, CalmKeeps DEF OpenInv, OpenTypes
<1>3. CASE Accept
    BY <1>1, <1>3, AcceptKeeps
<1>4. ASSUME NEW c \in Clients, ReadRequest(c) PROVE OpenInv'
    <2>1. CASE Die
        BY <1>4, <2>1, DieKeeps DEF ReadRequest
    <2>2. CASE ~Die
        <3>1. /\ spc = "scan" /\ HasData(c) /\ conn' = Request(c)
              /\ GoOn(at, client, revents, maxi)
              /\ UNCHANGED <<form, client, maxi, watched, user, backlog>>
            BY <1>4, <2>2 DEF ReadRequest, AtClient
        <3>2. at \in Nat /\ maxi \in 0 .. Cardinality(Clients)
            BY <3>1, SlotsCount DEF OpenInv, OpenTypes
        <3>3. spc' \in {"scan", "wait"} /\ (spc' = "scan" => at' \in Slots)
            BY <3>1, <3>2, GoOnTypes
        <3> QED
            BY <3>1, <3>3, AnswerKeeps
    <2> QED
        BY <2>1, <2>2
<1>5. ASSUME NEW c \in Clients, HangUp(c) PROVE OpenInv'
    BY <1>1, <1>5, HangUpKeeps
<1> QED
    BY <1>2, <1>3, <1>4, <1>5 DEF Server

\* The private server.
LEMMA ServeKeeps ==
    ASSUME OpenInv, NEW c \in Clients, Serve(c)
    PROVE  OpenInv'
<1>1. CASE PrivateRequest(c) /\ conn' = Request(c)
    <2>1. /\ HasData(c) /\ conn' = Request(c)
          /\ UNCHANGED <<form, spc, at, client, maxi, watched, user, backlog>>
        BY <1>1 DEF PrivateRequest
    <2> QED
        BY <2>1, AnswerKeeps DEF OpenInv, OpenTypes
<1>2. CASE PrivateExit(c) \/ (PrivateRequest(c) /\ conn' = SrvClose(conn, c))
    BY <1>2, PrivateCloseKeeps DEF PrivateExit, PrivateRequest
<1> QED
    BY <1>1, <1>2 DEF Serve, PrivateRequest

-----------------------------------------------------------------------------
(* The steps of the clients. *)

\* A client goes on to another state.
LEMMA SetStep ==
    ASSUME user \in [Clients -> Users], NEW c \in Clients, NEW v \in States, Set(c, v)
    PROVE  /\ user' \in [Clients -> Users]
           /\ \A d \in Clients : d # c => user'[d] = user[d]
           /\ user'[c].st = v /\ user'[c].name = user[c].name /\ user'[c].log = user[c].log
<1>1. user[c] \in Users /\ user' = [user EXCEPT ![c] = [user[c] EXCEPT !.st = v]]
    BY DEF Set
<1>2. [user[c] EXCEPT !.st = v] \in Users
    BY <1>1 DEF Users
<1> QED
    BY <1>1, <1>2 DEF Users

\* A client leaves: it closes its end and the kernel drops what it has not read.
LEMMA LeaveKeeps ==
    ASSUME OpenInv, NEW c \in Clients, user[c].st # "start",
           NEW v \in {"broken", "done", "killed"}, Set(c, v), conn' = CliClose(conn, c),
           UNCHANGED <<form, spc, at, client, maxi, watched, revents, backlog>>
    PROVE  OpenInv'
<1>1. Only(conn', c) /\ conn'[c].srv = conn[c].srv
    BY CliStep DEF OpenInv, OpenTypes
<1>2. /\ user' \in [Clients -> Users]
      /\ \A d \in Clients : d # c => user'[d] = user[d]
      /\ user'[c].st = v /\ \A d \in Clients : user'[d].log = user[d].log
    BY SetStep DEF OpenInv, OpenTypes, States
<1>3. OpenTypes'
    BY <1>1, <1>2 DEF OpenInv, OpenTypes, Only
<1>4. Table' /\ Backlog'
    BY <1>1, <1>2, TableKeeps DEF OpenInv, OpenTypes, Only
<1>5. Fine(c)'
    BY <1>2 DEF Fine
<1>6. OneRequest'
    BY <1>1, <1>2, <1>5, OthersFine DEF OpenInv
<1>7. OwnFile'
    BY <1>2 DEF OpenInv, OwnFile
<1> QED
    BY <1>3, <1>4, <1>6, <1>7 DEF OpenInv

\* cli_conn, or spipe and fork.
LEMMA ConnectKeeps ==
    ASSUME OpenInv, NEW c \in Clients, Connect(c)
    PROVE  OpenInv'
<1>1. /\ user[c].st = "start" /\ conn[c] = NewConn /\ user[c].log = <<>>
      /\ backlog \in Seq(Clients) /\ \A i \in DOMAIN backlog : backlog[i] # c
      /\ UNCHANGED <<form, spc, at, client, maxi, watched>>
    BY DEF Connect, OpenInv, OpenTypes, Backlog
<1>2. PICK v \in {"ready", "broken"} : Set(c, v)
    BY DEF Connect
<1>3. /\ user' \in [Clients -> Users]
      /\ \A d \in Clients : d # c => user'[d] = user[d]
      /\ user'[c].st = v /\ \A d \in Clients : user'[d].log = user[d].log
    BY <1>2, SetStep DEF OpenInv, OpenTypes, States
<1>4. /\ Only(conn', c) /\ conn'[c].req = <<>> /\ conn'[c].back = <<>>
      /\ backlog' \in Seq(Clients)
    <2>1. \A a \in Ends, b \in Ends : [NewConn EXCEPT !.cli = a, !.srv = b] \in Conns
        <3>1. <<>> \in Seq(Pieces) /\ <<>> \in Seq(Replies)
            OBVIOUS
        <3> QED
            BY <3>1 DEF NewConn, Conns
    <2>2. CASE conn' = [conn EXCEPT ![c] = [NewConn EXCEPT !.cli = "open", !.srv = "open"]]
               /\ UNCHANGED backlog
        BY <1>1, <2>1, <2>2 DEF Only, OpenInv, OpenTypes, NewConn, Ends
    <2>3. CASE CliConn(c)
        <3>1. [NewConn EXCEPT !.cli = "open"] \in Conns
            <4>1. NewConn \in Conns /\ "open" \in Ends
                BY <1>1 DEF OpenInv, OpenTypes, Ends
            <4> QED
                BY <4>1 DEF Conns
        <3> QED
            BY <1>1, <2>3, <3>1 DEF Only, OpenInv, OpenTypes, NewConn, CliConn
    <2>4. CASE UNCHANGED streams
        BY <1>1, <2>4 DEF Only, OpenInv, OpenTypes, NewConn, streams
    <2> QED
        BY <2>2, <2>3, <2>4 DEF Connect
<1>5. OpenTypes'
    BY <1>1, <1>3, <1>4 DEF OpenInv, OpenTypes, Only
<1>6. Table'
    <2>1. CASE form = "private" \/ spc = "dead"
        BY <1>1, <2>1 DEF Table
    <2>2. CASE form # "private" /\ spc # "dead"
        <3>1. conn'[c].srv = "none" /\ conn[c].srv = "none"
            BY <1>1, <2>2 DEF Connect, CliConn, NewConn, OpenInv, OpenTypes
        <3>2. \A d \in Clients : conn'[d].srv = conn[d].srv
            BY <1>4, <3>1 DEF Only
        <3> QED
            BY <1>1, <2>2, <3>2 DEF OpenInv, Table, SrvOpen
    <2> QED
        BY <2>1, <2>2
<1>7. Backlog'
    <2>1. \A d \in Clients : user'[d].st = "start" =>
              d # c /\ conn'[d] = NewConn /\ user'[d].log = <<>>
        BY <1>3, <1>4 DEF OpenInv, Backlog, Only
    <2>2. CASE UNCHANGED backlog
        <3>1. \A i \in DOMAIN backlog : backlog[i] \in Clients /\ conn'[backlog[i]] = conn[backlog[i]]
            BY <1>1, <1>4 DEF Only
        <3> QED
            BY <1>3, <2>1, <2>2, <3>1 DEF OpenInv, Backlog
    <2>3. CASE CliConn(c)
        <3>1. conn'[c].srv = "none" /\ backlog' = Append(backlog, c)
            BY <2>3 DEF CliConn, NewConn, OpenInv, OpenTypes
        <3>2. /\ DOMAIN backlog' = 1 .. Len(backlog) + 1 /\ DOMAIN backlog = 1 .. Len(backlog)
              /\ \A i \in 1 .. Len(backlog) : backlog'[i] = backlog[i] /\ backlog[i] \in Clients
              /\ backlog'[Len(backlog) + 1] = c /\ Len(backlog) \in Nat
            BY <1>1, <3>1
        <3>3. \A i \in DOMAIN backlog' :
                  (i \in DOMAIN backlog /\ backlog'[i] = backlog[i]) \/ (i = Len(backlog) + 1 /\ backlog'[i] = c)
            BY <3>2
        <3>4. \A i \in DOMAIN backlog' : conn'[backlog'[i]].srv = "none"
            BY <1>1, <1>4, <3>1, <3>2, <3>3 DEF OpenInv, Backlog, Only
        <3>5. \A i, j \in DOMAIN backlog' : backlog'[i] = backlog'[j] => i = j
            BY <1>1, <3>3 DEF OpenInv, Backlog
        <3>6. \A d \in Clients : user'[d].st = "start" => \A i \in DOMAIN backlog' : backlog'[i] # d
            BY <1>3, <2>1, <3>3 DEF OpenInv, Backlog
        <3> QED
            BY <2>1, <3>4, <3>5, <3>6 DEF Backlog
    <2> QED
        BY <2>2, <2>3 DEF Connect, streams
<1>8. Fine(c)'
    BY <1>3, <1>4 DEF Fine, Clean
<1>9. OneRequest'
    BY <1>3, <1>4, <1>8, OthersFine DEF OpenInv
<1>10. OwnFile'
    BY <1>3 DEF OpenInv, OwnFile
<1> QED
    BY <1>5, <1>6, <1>7, <1>9, <1>10 DEF OpenInv

\* writev: the request is all that is in a connection that is not spoilt.
LEMMA WritevKeeps ==
    ASSUME OpenInv, NEW c \in Clients, Writev(c)
    PROVE  OpenInv'
<1>1. user[c].st = "ready" /\ UNCHANGED <<form, spc, at, client, maxi, watched, revents, backlog>>
    BY DEF Writev
<1>2. CASE Set(c, "broken") /\ conn' = CliClose(conn, c)
    BY <1>1, <1>2, LeaveKeeps
<1>3. ASSUME NEW n \in Asks[c],
             user' = [user EXCEPT ![c].st = "waiting", ![c].name = n],
             conn' = [conn EXCEPT ![c].req = @ \o Parts(n)]
      PROVE  OpenInv'
    <2>1. n \in Names /\ user[c] \in Users /\ conn[c] \in Conns
        BY ParamAssumption DEF OpenInv, OpenTypes
    <2>2. /\ user' \in [Clients -> Users]
          /\ \A d \in Clients : d # c => user'[d] = user[d]
          /\ user'[c].st = "waiting" /\ user'[c].name = n
          /\ \A d \in Clients : user'[d].log = user[d].log
        <3>1. user' = [user EXCEPT ![c] = [user[c] EXCEPT !.st = "waiting", !.name = n]]
            BY <1>3
        <3>2. "waiting" \in States /\ n \in Names \cup {AnyName}
            BY <2>1 DEF States
        <3>3. [user[c] EXCEPT !.st = "waiting", !.name = n] \in Users
            BY <2>1, <3>2 DEF Users
        <3> QED
            BY <2>1, <3>1, <3>3 DEF OpenInv, OpenTypes, Users
    <2>3. Parts(n) \in Seq(Pieces)
        <3>1. \A k \in {"all", "head", "tail"} : [name |-> n, is |-> k] \in Pieces
            BY <2>1 DEF Pieces
        <3>2. CASE n \in Long
            BY <3>1, <3>2 DEF Parts
        <3>3. CASE n \notin Long
            BY <3>1, <3>3 DEF Parts
        <3> QED
            BY <3>2, <3>3
    <2>4. /\ Only(conn', c) /\ conn'[c].srv = conn[c].srv
          /\ conn'[c].req = conn[c].req \o Parts(n) /\ conn'[c].back = conn[c].back
        <3>1. conn' = [conn EXCEPT ![c] = [conn[c] EXCEPT !.req = conn[c].req \o Parts(n)]]
            BY <1>3
        <3>2. conn[c].req \o Parts(n) \in Seq(Pieces)
            BY <2>1, <2>3 DEF Conns
        <3>3. [conn[c] EXCEPT !.req = conn[c].req \o Parts(n)] \in Conns
            BY <2>1, <3>2 DEF Conns
        <3> QED
            BY <2>1, <3>1, <3>3 DEF Only, OpenInv, OpenTypes, Conns
    <2>5. OpenTypes'
        BY <1>1, <2>2, <2>4 DEF OpenInv, OpenTypes, Only
    <2>6. Table' /\ Backlog'
        BY <1>1, <2>2, <2>4, TableKeeps DEF OpenInv, OpenTypes, Only
    <2>7. Fine(c)'
        <3>1. SUFFICES ASSUME ~AskedLong(c) PROVE Outstanding(c)'
            BY <2>1, <2>2 DEF Fine, AskedLong
        <3>2. conn[c].req = <<>> /\ conn[c].back = <<>>
            BY <1>1, <3>1 DEF OpenInv, OneRequest, Fine, Clean
        <3>3. conn'[c].req = Parts(n) /\ conn'[c].back = <<>>
            BY <2>3, <2>4, <3>2
        <3> QED
            BY <2>1, <2>2, <3>3 DEF Outstanding, Parts
    <2>8. OneRequest'
        BY <2>2, <2>4, <2>7, OthersFine DEF OpenInv
    <2>9. OwnFile'
        BY <2>2 DEF OpenInv, OwnFile
    <2> QED
        BY <2>5, <2>6, <2>8, <2>9 DEF OpenInv
<1> QED
    BY <1>2, <1>3 DEF Writev

\* What the server answers to the first part of a request is what is promised.
LEMMA AnswerPromised ==
    ASSUME NEW n \in Names
    PROVE  /\ n \notin Long => Answer([name |-> n, is |-> "all"]) = Promised(n)
           /\ n \in Long => Answer([name |-> n, is |-> "head"]) = Promised(n)
<1>1. CASE n \in Files
    BY <1>1, ParamAssumption DEF Answer, CliArgs, Promised
<1>2. CASE n \in Missing
    BY <1>2, ParamAssumption DEF Answer, CliArgs, Promised
<1>3. CASE n \in Odd
    BY <1>3, ParamAssumption DEF Answer, CliArgs, Promised
<1>4. CASE n \in Long
    BY <1>4, ParamAssumption DEF Answer, CliArgs, Promised
<1> QED
    BY <1>1, <1>2, <1>3, <1>4 DEF Names

\* recv_fd: the one answer there is, is the answer to the name it waits for.
LEMMA GetFdKeeps ==
    ASSUME OpenInv, NEW c \in Clients, GetFd(c)
    PROVE  OpenInv'
<1> DEFINE n == user[c].name
           g == Head(conn[c].back)
           L == user[c].log
           e == [name |-> n, got |-> g]
<1>1. /\ user[c].st = "waiting" /\ Len(conn[c].back) = 1
      /\ conn[c] \in Conns /\ user[c] \in Users
      /\ UNCHANGED <<form, spc, at, client, maxi, watched, revents, backlog>>
    BY DEF GetFd, OpenInv, OpenTypes
<1>2. /\ Only(conn', c) /\ conn'[c].srv = conn[c].srv
      /\ conn'[c].req = conn[c].req /\ conn'[c].back = Tail(conn[c].back)
    <2>1. conn' = [conn EXCEPT ![c] = [conn[c] EXCEPT !.back = Tail(conn[c].back)]]
        BY DEF GetFd, RecvFd
    <2>2. Tail(conn[c].back) \in Seq(Replies)
        <3>1. conn[c].back \in Seq(Replies)
            BY <1>1 DEF Conns
        <3>2. conn[c].back # <<>>
            BY <1>1
        <3> QED
            BY <3>1, <3>2
    <2>3. [conn[c] EXCEPT !.back = Tail(conn[c].back)] \in Conns
        BY <1>1, <2>2 DEF Conns
    <2> QED
        BY <1>1, <2>1, <2>3 DEF Only, OpenInv, OpenTypes, Conns
<1>3. n \in Names /\ g \in Replies /\ L \in Seq([name : Names, got : Replies])
    BY <1>1 DEF OpenInv, OneRequest, Fine, Conns, Users
<1>4. e \in [name : Names, got : Replies] /\ e.name = n /\ e.got = g
    BY <1>3
<1> HIDE DEF e
<1>5. /\ user' \in [Clients -> Users]
      /\ \A d \in Clients : d # c => user'[d] = user[d]
      /\ user'[c].st = "ready" /\ user'[c].log = Append(L, e)
    <2>1. user' = [user EXCEPT ![c] = [user[c] EXCEPT !.st = "ready", !.log = Append(L, e)]]
        BY DEF GetFd, e
    <2>2. "ready" \in States /\ Append(L, e) \in Seq([name : Names, got : Replies])
        BY <1>3, <1>4 DEF States
    <2>3. [user[c] EXCEPT !.st = "ready", !.log = Append(L, e)] \in Users
        BY <1>1, <2>2 DEF Users
    <2> QED
        BY <1>1, <2>1, <2>3 DEF OpenInv, OpenTypes, Users
<1>6. /\ Len(L) \in Nat /\ DOMAIN L = 1 .. Len(L) /\ DOMAIN user'[c].log = 1 .. Len(L) + 1
      /\ \A i \in 1 .. Len(L) : user'[c].log[i] = L[i]
      /\ user'[c].log[Len(L) + 1] = e
    BY <1>3, <1>4, <1>5
<1>7. OpenTypes'
    BY <1>1, <1>2, <1>5 DEF OpenInv, OpenTypes, Only
<1>8. Table' /\ Backlog'
    BY <1>1, <1>2, <1>5, TableKeeps DEF OpenInv, OpenTypes, Only
\* The answer, and what is left in the connection.
<1>9. ASSUME ~AskedLong(c)
      PROVE  g = Promised(n) /\ (n \notin Long => conn[c].req = <<>> /\ Tail(conn[c].back) = <<>>)
    <2> DEFINE all  == [name |-> n, is |-> "all"]
               head == [name |-> n, is |-> "head"]
    <2>1. Outstanding(c)
        BY <1>1, <1>9 DEF OpenInv, OneRequest, Fine
    <2>2. CASE n \notin Long
        <3>1. conn[c].req = <<>> /\ conn[c].back = <<Answer(all)>>
            BY <1>1, <2>1, <2>2 DEF Outstanding
        <3>2. Answer(all) = Promised(n)
            BY <1>3, <2>2, AnswerPromised
        <3>3. \A a : Head(<<a>>) = a /\ Tail(<<a>>) = <<>>
            OBVIOUS
        <3> QED
            BY <3>1, <3>2, <3>3
    <2>3. CASE n \in Long
        <3>1. Len(conn[c].back) # 2 /\ conn[c].back # <<>>
            BY <1>1
        <3>2. conn[c].back = <<Answer(head)>>
            BY <2>1, <2>3, <3>1 DEF Outstanding
        <3>3. Answer(head) = Promised(n)
            BY <1>3, <2>3, AnswerPromised
        <3>4. \A a : Head(<<a>>) = a
            OBVIOUS
        <3> QED
            BY <2>3, <3>2, <3>3, <3>4
    <2> QED
        BY <2>2, <2>3
<1>10. ~AskedLong(c)' => ~AskedLong(c) /\ n \notin Long
    BY <1>4, <1>6 DEF AskedLong
<1>11. Fine(c)'
    BY <1>2, <1>5, <1>9, <1>10 DEF Fine, Clean
<1>12. OneRequest'
    BY <1>2, <1>5, <1>11, OthersFine DEF OpenInv
<1>13. OwnFile'
    <2> SUFFICES ASSUME NEW d \in Clients, NEW i \in DOMAIN user'[d].log,
                        \A j \in 1 .. i - 1 : user'[d].log[j].name \notin Long
                 PROVE  user'[d].log[i].got = Promised(user'[d].log[i].name)
        BY DEF OwnFile, Promised
    <2>1. CASE d # c
        BY <1>5, <2>1 DEF OpenInv, OwnFile
    <2>2. CASE d = c /\ i \in 1 .. Len(L)
        <3>1. \A j \in 1 .. i - 1 : j \in 1 .. Len(L)
            BY <1>6, <2>2
        <3>2. \A j \in 1 .. i - 1 : L[j].name \notin Long
            BY <1>6, <2>2, <3>1
        <3> QED
            BY <1>6, <2>2, <3>2 DEF OpenInv, OwnFile
    <2>3. CASE d = c /\ i = Len(L) + 1
        <3>1. ~AskedLong(c)
            BY <1>6, <2>3 DEF AskedLong
        <3> QED
            BY <1>4, <1>6, <1>9, <2>3, <3>1
    <2> QED
        BY <1>6, <2>1, <2>2, <2>3
<1> QED
    BY <1>7, <1>8, <1>12, <1>13 DEF OpenInv

-----------------------------------------------------------------------------

\* Nobody has connected, and the table is empty.
LEMMA OpenInvInit == Init => OpenInv
<1> SUFFICES ASSUME Init PROVE OpenInv
    OBVIOUS
<1>1. /\ conn = [c \in Clients |-> NewConn] /\ backlog = <<>> /\ spc = "wait" /\ maxi = 0
      /\ client = [s \in Slots |-> NoFd] /\ watched = [s \in Slots |-> NoFd]
      /\ user = [c \in Clients |-> [st |-> "start", name |-> AnyName, log |-> <<>>]]
    BY DEF Init, ServListen, AnyName
<1>2. NewConn \in Conns /\ NewConn.req = <<>> /\ NewConn.back = <<>> /\ NewConn.srv = "none"
    <2>1. <<>> \in Seq(Pieces) /\ <<>> \in Seq(Replies)
        OBVIOUS
    <2> QED
        BY <2>1 DEF Conns, NewConn, Ends
<1>3. [st |-> "start", name |-> AnyName, log |-> <<>>] \in Users
    <2>1. <<>> \in Seq([name : Names, got : Replies]) /\ "start" \in States
        BY DEF States
    <2> QED
        BY <2>1 DEF Users
<1>4. OpenTypes
    BY <1>1, <1>2, <1>3, SlotsCount DEF OpenTypes
<1>5. Table
    BY <1>1, <1>2, ParamAssumption DEF Table, SrvOpen
<1>6. Backlog
    BY <1>1, <1>2 DEF Backlog
<1>7. OneRequest
    BY <1>1, <1>2 DEF OneRequest, Fine, Clean
<1>8. OwnFile
    BY <1>1 DEF OwnFile
<1> QED
    BY <1>4, <1>5, <1>6, <1>7, <1>8 DEF OpenInv

\* Every step of the servers and the clients keeps the invariant.
LEMMA OpenInvNext == OpenInv /\ [Next]_vars => OpenInv'
<1> SUFFICES ASSUME OpenInv, [Next]_vars PROVE OpenInv'
    OBVIOUS
<1>1. CASE Server
    BY <1>1, ServerKeeps
<1>2. ASSUME NEW c \in Clients, Serve(c) PROVE OpenInv'
    BY <1>2, ServeKeeps
<1>3. ASSUME NEW c \in Clients, CsOpen(c) PROVE OpenInv'
    <2>1. CASE Connect(c)
        BY <2>1, ConnectKeeps
    <2>2. CASE Writev(c)
        BY <2>2, WritevKeeps
    <2>3. CASE GetFd(c)
        BY <2>3, GetFdKeeps
    <2>4. CASE FormatError(c)
        BY <2>4, LeaveKeeps DEF FormatError
    <2>5. CASE Closed(c)
        BY <2>5, LeaveKeeps DEF Closed
    <2> QED
        BY <1>3, <2>1, <2>2, <2>3, <2>4, <2>5 DEF CsOpen
<1>4. ASSUME NEW c \in Clients, Exit(c) PROVE OpenInv'
    BY <1>4, LeaveKeeps DEF Exit
<1>5. ASSUME NEW c \in Clients, Killed(c) PROVE OpenInv'
    BY <1>5, LeaveKeeps DEF Killed
<1>6. CASE UNCHANGED vars
    <2>1. \A d \in Clients : Fine(d)'
        BY <1>6, FineKeeps DEF vars, streams, OpenInv, OneRequest
    <2> QED
        BY <1>6, <2>1 DEF OpenInv, OpenTypes, Table, Backlog, OneRequest, OwnFile, SrvOpen,
                          vars, streams
<1> QED
    BY <1>1, <1>2, <1>3, <1>4, <1>5, <1>6 DEF Next

\* A table that agrees with the connections is one that watches them all.
LEMMA TableWatches == OpenInv => WatchesAll
<1> SUFFICES ASSUME OpenInv, form # "private", spc = "wait"
             PROVE  /\ watched = client
                    /\ \A c \in Clients : Cardinality({s \in 1 .. maxi : client[s] = c})
                                              = IF SrvOpen(c) THEN 1 ELSE 0
    BY DEF WatchesAll
<1>1. watched = client
    BY DEF OpenInv, Table
<1>2. ASSUME NEW c \in Clients
      PROVE  Cardinality({s \in 1 .. maxi : client[s] = c}) = IF SrvOpen(c) THEN 1 ELSE 0
    <2> DEFINE E == {s \in 1 .. maxi : client[s] = c}
    <2>1. 1 .. maxi \subseteq Slots /\ maxi \in Nat
        BY SlotsCount DEF OpenInv, OpenTypes, Slots
    <2>2. CASE SrvOpen(c)
        <3>1. PICK s \in Slots : client[s] = c
            BY <2>2 DEF OpenInv, Table
        <3>2. c # NoFd
            BY ParamAssumption
        <3>3. s \in 1 .. maxi
            BY <2>1, <3>1, <3>2, SlotsCount DEF OpenInv, Table, Slots
        <3>4. E = {s}
            BY <2>1, <3>1, <3>2, <3>3 DEF OpenInv, Table
        <3> QED
            BY <2>2, <3>4, FS_Singleton
    <2>3. CASE ~SrvOpen(c)
        <3>1. E = {}
            BY <2>1, <2>3 DEF OpenInv, Table
        <3> QED
            BY <2>3, <3>1, FS_EmptySet
    <2> QED
        BY <2>2, <2>3
<1> QED
    BY <1>1, <1>2

\* In every behaviour of the servers, for any number of clients, each csopen
\* returns what its own request asks for, until a name that does not fit the
\* server's buffer has spoilt the connection.
THEOREM OwnFileHolds == Spec => []OwnFile
<1>1. OpenInv => OwnFile
    BY DEF OpenInv
<1> QED
    BY <1>1, OpenInvInit, OpenInvNext, PTL DEF Spec

\* The daemon, in poll or in select, waits for every connection it has accepted,
\* once, and for nothing else: client_add, client_del and the walk agree.
THEOREM WatchesAllHolds == Spec => []WatchesAll
BY OpenInvInit, OpenInvNext, TableWatches, PTL DEF Spec

=============================================================================
