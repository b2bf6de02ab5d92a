----------------------------- MODULE Calld_proof ----------------------------
(***************************************************************************)
(* The modem dialer for any number of clients and any Systems and Devices  *)
(* files: a device is used by one client, every lock has an owner, and a   *)
(* client gets the answer to its own request.                              *)
(***************************************************************************)
EXTENDS Calld, NatSets, FiniteSetTheorems, TLAPS

Sides    == {"none", "open", "closed"}
Wants    == {NoWant} \cup UNION {Want[c] : c \in Clients}
Errors   == {"notfound", "nodevice", "locked", "unable"}
Marks    == Nat \cup Errors \cup {""}
Messages == [ok : BOOLEAN, is : Marks]
Conns    == [cli : Sides, srv : Sides, req : Seq(Wants), back : Seq(Messages)]
Entries  == [fd : Clients \cup {NoFd}, pid : Nat, childdone : Nat, sysftell : Nat,
             foundone : BOOLEAN, want : Wants]
Children == [st : {"waiting", "open", "dial", "spin", "send", "sent", "zombie", "reaped"},
             fd : Clients, sys : Nat, status : {Exit0, Exit1, Killed}]
Callers  == [st : {"start", "connected", "waiting", "talking", "refused", "over", "quit", "failed"},
             want : Wants, got : Marks, err : Marks]

Types ==
    /\ spc \in {"top", "tested", "select", "eintr", "scan", "setlock", "tell", "cd", "dead"}
    /\ at \in Nat /\ walk \in {"scan", "cd"} /\ back \in {"top", "tested"} /\ rset \subseteq Slots
    /\ client \in [Slots -> Entries] /\ lock \in [Lines -> Nat]
    /\ child \in Seq(Children) /\ user \in [Clients -> Callers]
    /\ conn \in [Clients -> Conns] /\ backlog \in Seq(Clients)

\* How an attempt to dial stands: under way; the line passed to the client;
\* ended without a line and not known to the server as such; known.
Dialing(p) == child[p].st \in {"waiting", "open", "dial", "spin", "send"}
Passed(p)  == \/ child[p].st = "sent"
              \/ child[p].st \in {"zombie", "reaped"} /\ child[p].status = Exit0
Broken(p)  == \/ child[p].st = "zombie" /\ child[p].status # Exit0
              \/ child[p].st = "reaped" /\ child[p].status = Killed
GaveUp(p)  == child[p].st = "reaped" /\ child[p].status = Exit1

\* The entry has the pid of a child of its own client, not of an earlier one.
Own(s)     == client[s].pid # 0 /\ client[s].fd = child[client[s].pid].fd
Current(p) == \E s \in Slots : client[s].pid = p /\ client[s].fd = child[p].fd

\* Each connection and each child is in one entry of the table.
Table ==
    /\ \A s, t \in Slots : client[s].fd = client[t].fd /\ client[s].fd # NoFd => s = t
    /\ \A s, t \in Slots : client[s].pid = client[t].pid /\ client[s].pid # 0 => s = t
    /\ \A s \in Slots : client[s].pid <= Len(child)
    /\ \A s \in Slots : client[s].fd # NoFd => conn[client[s].fd].srv # "none"

\* A client is in the queue once, between its connect and the server's accept.
Queue ==
    /\ \A i \in DOMAIN backlog : conn[backlog[i]].srv = "none" /\ ~UserIs(backlog[i], "start")
    /\ \A i, j \in DOMAIN backlog : backlog[i] = backlog[j] => i = j

\* What select has reported is there until it is read.
Reported ==
    /\ spc = "scan" => \A s \in rset :
          s >= at /\ client[s].fd # NoFd => Readable(client[s].fd)
    /\ spc \in {"setlock", "tell"} /\ walk = "scan" => \A s \in rset :
          s > at /\ client[s].fd # NoFd => Readable(client[s].fd)

\* The final message of recv_fd, and where it is from.
LineSent(c) ==
    \E p \in DOMAIN child :
        child[p].fd = c /\ Passed(p) /\ conn[c].back = <<AnFd(child[p].sys)>>

NoSystem(w) == \A k \in DOMAIN Systems : ~Suits(k, w)

ErrorSent(c) ==
    /\ \E e \in Errors : /\ conn[c].back = <<AnErr(e)>>
                         /\ e = "notfound" => NoSystem(user[c].want)
    /\ \A s \in Slots : client[s].fd # c
    /\ \A p \in DOMAIN child : child[p].fd = c => GaveUp(p)

\* The program call and its connection, by where it is.
Caller(c) ==
    /\ UserIs(c, "start") => conn[c] = NewConn
    /\ user[c].st \in {"connected", "waiting", "talking"} => CliOpen(c)
    /\ user[c].st \in {"over", "quit", "refused"} => HungUp(c)
    /\ UserIs(c, "failed") => spc = "dead"
    /\ HasData(c) => conn[c].req = <<user[c].want>> /\ user[c].st \notin {"start", "connected"}
    /\ conn[c].back # <<>> => UserIs(c, "waiting") /\ (LineSent(c) \/ ErrorSent(c))
    /\ UserIs(c, "refused") => \A s \in Slots : client[s].fd # c
    /\ user[c].st \in {"talking", "over"} => user[c].got # 0
    /\ user[c].got # 0 =>
          /\ user[c].st \in {"talking", "over"}
          /\ \E p \in DOMAIN child : child[p].fd = c /\ Passed(p) /\ child[p].sys = user[c].got
    /\ user[c].err = "notfound" => UserIs(c, "refused") /\ NoSystem(user[c].want)
    /\ conn[c].srv = "none" =>
          conn[c].back = <<>> /\ ~UserIs(c, "refused") /\ \A p \in DOMAIN child : child[p].fd # c

\* An attempt to dial: its client has not gone before it has had the line, and
\* is in the table; the line is locked for the child until then.
Attempt(p) ==
    LET c == child[p].fd
        l == LineOf(child[p].sys)
    IN  /\ user[c].st \notin {"start", "connected"} /\ ~HasData(c)
        /\ child[p].sys \in DOMAIN Systems /\ DevFind(child[p].sys) # 0
        /\ Suits(child[p].sys, user[c].want)
        /\ Dialing(p) => UserIs(c, "waiting") /\ conn[c].back = <<>> /\ Current(p)
        /\ child[p].st \in {"open", "dial", "spin", "send"} => lock[l] = p
        /\ Broken(p) => user[c].st \in {"waiting", "failed"} /\ conn[c].back = <<>> /\ Current(p)
        /\ Passed(p) =>
              \/ UserIs(c, "over")
              \/ /\ Current(p) /\ lock[l] = p
                 /\ \/ UserIs(c, "waiting") /\ conn[c].back = <<AnFd(child[p].sys)>>
                    \/ UserIs(c, "talking") /\ conn[c].back = <<>> /\ user[c].got = child[p].sys

\* An entry of the table: what it says of its client is so, and the status in it
\* is that of its client's child.
Entry(s) ==
    /\ Own(s) => client[s].want = user[client[s].fd].want /\ client[s].foundone
    /\ client[s].childdone = 2 =>
          /\ Own(s) /\ GaveUp(client[s].pid)
          /\ user[client[s].fd].st \in {"waiting", "failed"} /\ conn[client[s].fd].back = <<>>

\* Every lock is that of a client in the table; the next one is still free.
Locks ==
    /\ \A l \in Lines : lock[l] # 0 => \E s \in Slots : Own(s) /\ client[s].pid = lock[l]
    /\ spc \in {"setlock", "tell"} =>
          /\ child # <<>> /\ child[Len(child)].st = "waiting"
          /\ lock[LineOf(child[Len(child)].sys)] = IF spc = "tell" THEN Len(child) ELSE 0

Sound ==
    /\ Table /\ Queue /\ Reported /\ Locks
    /\ \A c \in Clients : Caller(c)
    /\ \A p \in DOMAIN child : Attempt(p)
    /\ \A s \in Slots : Entry(s)

CalldInv == Types /\ (NoneLeftDialing => Sound)

-----------------------------------------------------------------------------
(* The files, and what one assignment does to a table. *)

\* request stops at an entry of the Systems file that suits, and at a device that
\* is free if there is one.
LEMMA StopsAt ==
    ASSUME NEW w, NEW n \in Nat, NEW lk, Stops(w, n, lk) # {}
    PROVE  LET k == Min(Stops(w, n, lk))
           IN  /\ k \in Nat /\ k \in DOMAIN Systems
               /\ Suits(k, w)
               /\ DevFind(k) # 0 => lk[LineOf(k)] = 0
<1> DEFINE S == Stops(w, n, lk)
<1>1. Len(Systems) \in Nat /\ DOMAIN Systems = 1 .. Len(Systems)
    BY ParamAssumption
<1>2. S \subseteq Nat /\ S \subseteq DOMAIN Systems
    BY <1>1 DEF Stops, SysNext
<1>3. Min(S) \in S
    BY <1>2, MinOf
<1>4. Min(S) \in Nat /\ Min(S) \in DOMAIN Systems
    BY <1>2, <1>3
<1>5. \A k \in S : Suits(k, w) /\ (DevFind(k) = 0 \/ lk[LineOf(k)] = 0)
    BY DEF Stops, SysNext, Suits
<1> HIDE DEF S
<1> QED
    BY <1>3, <1>4, <1>5 DEF S

\* Nothing suits when the walk from the start finds nothing.
LEMMA NoneFound ==
    ASSUME NEW w, SysNext(w, 0) = {}
    PROVE  NoSystem(w)
<1>1. Len(Systems) \in Nat /\ DOMAIN Systems = 1 .. Len(Systems)
    BY ParamAssumption
<1>2. \A k \in 1 .. Len(Systems) : Suits(k, w) => k \in SysNext(w, 0)
    BY <1>1 DEF SysNext, Suits
<1> QED
    BY <1>1, <1>2 DEF NoSystem

\* The device of an entry has one of the lines.
LEMMA LineKnown ==
    ASSUME NEW k, DevFind(k) # 0
    PROVE  LineOf(k) \in Lines
<1> DEFINE D == {i \in DOMAIN Devices : /\ Devices[i].type = Systems[k].type
                                        /\ Devices[i].class = Systems[k].class}
<1>1. D # {} /\ DevFind(k) = Min(D)
    BY DEF DevFind
<1>2. D \subseteq Nat /\ D \subseteq DOMAIN Devices
    BY ParamAssumption
<1>3. Min(D) \in D
    BY <1>1, <1>2, MinOf
<1> HIDE DEF D
<1> QED
    BY <1>1, <1>2, <1>3 DEF LineOf, Lines

\* lock_rel takes the locks of one pid, and no others.
LEMMA Released ==
    ASSUME lock \in [Lines -> Nat], NEW p
    PROVE  /\ LockRel(lock, p) \in [Lines -> Nat]
           /\ \A l \in Lines : /\ LockRel(lock, p)[l] # 0 => LockRel(lock, p)[l] = lock[l] /\ lock[l] # p
                               /\ lock[l] # p => LockRel(lock, p)[l] = lock[l]
BY DEF LockRel

\* A child in the list, and an entry of the table, are well formed.
LEMMA ChildType ==
    ASSUME Types, NEW p \in DOMAIN child
    PROVE  /\ child[p] \in Children /\ child[p].fd \in Clients /\ child[p].sys \in Nat
           /\ child[p].status \in {Exit0, Exit1, Killed}
<1>1. child \in Seq(Children)
    BY DEF Types
<1>2. child[p] \in Children
    BY <1>1
<1> QED
    BY <1>2 DEF Children

\* An entry of the table is well formed, too.
LEMMA EntryType ==
    ASSUME Types, NEW s \in Slots
    PROVE  /\ client[s] \in Entries /\ client[s].fd \in Clients \cup {NoFd} /\ client[s].pid \in Nat
           /\ client[s].sysftell \in Nat /\ client[s].childdone \in Nat
<1>1. client[s] \in Entries
    BY DEF Types
<1> QED
    BY <1>1 DEF Entries

\* A child that moves, or ends.
LEMMA ChildStep ==
    ASSUME child \in Seq(Children), NEW p, NEW e \in Children,
           p \in DOMAIN child => e.fd = child[p].fd /\ e.sys = child[p].sys
    PROVE  LET ch == [child EXCEPT ![p] = e]
           IN  /\ ch \in Seq(Children) /\ DOMAIN ch = DOMAIN child /\ Len(ch) = Len(child)
               /\ p \in DOMAIN child => ch[p] = e
               /\ \A q \in DOMAIN child : q # p => ch[q] = child[q]
<1> DEFINE ch == [child EXCEPT ![p] = e]
<1>1. child \in [1 .. Len(child) -> Children] /\ Len(child) \in Nat
    OBVIOUS
<1>2. ch \in [1 .. Len(child) -> Children]
    BY <1>1
<1>3. ch \in Seq(Children) /\ DOMAIN ch = DOMAIN child /\ Len(ch) = Len(child)
    BY <1>1, <1>2
<1>4. (p \in DOMAIN child => ch[p] = e) /\ \A q \in DOMAIN child : q # p => ch[q] = child[q]
    BY <1>1
<1> QED
    BY <1>3, <1>4

\* Moves and exits keep children well formed.
LEMMA ChildStates ==
    ASSUME child \in Seq(Children), NEW p \in DOMAIN child,
           NEW l \in {"waiting", "open", "dial", "spin", "send", "sent", "zombie", "reaped"},
           NEW x \in {Exit0, Exit1, Killed}
    PROVE  /\ [child EXCEPT ![p].st = l] = [child EXCEPT ![p] = [child[p] EXCEPT !.st = l]]
           /\ [child[p] EXCEPT !.st = l] \in Children
           /\ [child EXCEPT ![p].st = l, ![p].status = x]
                = [child EXCEPT ![p] = [child[p] EXCEPT !.st = l, !.status = x]]
           /\ [child[p] EXCEPT !.st = l, !.status = x] \in Children
<1>1. child[p] \in Children
    OBVIOUS
<1>2. [child[p] EXCEPT !.st = l] \in Children /\ [child[p] EXCEPT !.st = l, !.status = x] \in Children
    BY <1>1 DEF Children
<1> QED
    BY <1>1, <1>2 DEF Children


-----------------------------------------------------------------------------
(* What every step leaves as it was. *)

\* Children are only added, keep their client and their system, and do not come
\* back from where they have ended.
Grow ==
    \A p \in DOMAIN child :
        /\ p \in DOMAIN child' /\ child'[p].fd = child[p].fd /\ child'[p].sys = child[p].sys
        /\ Passed(p) => Passed(p)'
        /\ GaveUp(p) => GaveUp(p)'

\* Client c and its connection, but for the server's end, are as they were.
Kept(c) ==
    /\ conn'[c].cli = conn[c].cli /\ conn'[c].req = conn[c].req /\ conn'[c].back = conn[c].back
    /\ conn'[c].srv = "none" => conn[c].srv = "none"
    /\ UserIs(c, "start") => conn'[c] = conn[c]
    /\ user'[c] = user[c]

\* The attempt p still needs its entry and its lock.
Needs(p) == Dialing(p) \/ Broken(p) \/ (Passed(p) /\ ~UserIs(child[p].fd, "over"))

\* A client stays as it is when no step touches it.
LEMMA CallerFrame ==
    ASSUME NEW c \in Clients, Caller(c), Kept(c), Grow, spc = "dead" => spc' = "dead",
           \A s \in Slots : client'[s].fd = c =>
               client[s].fd = c \/ (conn[c].back = <<>> /\ ~UserIs(c, "refused")),
           \A p \in DOMAIN child' :
               \/ p \in DOMAIN child \/ child'[p].fd # c
               \/ conn[c].back = <<>> /\ conn[c].srv # "none"
    PROVE  Caller(c)'
<1>1. LineSent(c) => LineSent(c)'
    BY DEF LineSent, Grow, Kept
<1>2. ErrorSent(c) /\ conn[c].back # <<>> => ErrorSent(c)'
    <2> SUFFICES ASSUME ErrorSent(c), conn[c].back # <<>> PROVE ErrorSent(c)'
        OBVIOUS
    <2>1. \A s \in Slots : client'[s].fd # c
        BY DEF ErrorSent
    <2>2. \A p \in DOMAIN child' : child'[p].fd = c => GaveUp(p)'
        BY DEF ErrorSent, Grow
    <2> QED
        BY <2>1, <2>2 DEF ErrorSent, Kept
<1>3. user[c].got # 0 => \E p \in DOMAIN child' : child'[p].fd = c /\ Passed(p)' /\ child'[p].sys = user[c].got
    BY DEF Caller, Grow
<1>4. UserIs(c, "refused") => \A s \in Slots : client'[s].fd # c
    BY DEF Caller
<1>5. conn'[c].srv = "none" =>
          /\ conn[c].back = <<>> /\ ~UserIs(c, "refused") /\ \A p \in DOMAIN child' : child'[p].fd # c
    BY DEF Caller, Kept, Grow
<1> QED
    BY <1>1, <1>2, <1>3, <1>4, <1>5 DEF Caller, Kept, UserIs, CliOpen, HungUp, HasData

\* An attempt stays as it is when no step touches it, its client, its entry or
\* its lock.
LEMMA AttemptFrame ==
    ASSUME NEW p \in DOMAIN child, Attempt(p), child'[p] = child[p], Kept(child[p].fd),
           Needs(p) => /\ Current(p) => Current(p)'
                       /\ lock[LineOf(child[p].sys)] = p => lock'[LineOf(child[p].sys)] = p
    PROVE  Attempt(p)'
<1> DEFINE c == child[p].fd
           l == LineOf(child[p].sys)
<1>1. user'[c] = user[c] /\ conn'[c].back = conn[c].back /\ conn'[c].req = conn[c].req
    BY DEF Kept
<1>2. (Dialing(p)' <=> Dialing(p)) /\ (Passed(p)' <=> Passed(p)) /\ (Broken(p)' <=> Broken(p))
    BY DEF Dialing, Passed, Broken
<1>3. Dialing(p) => Current(p)'
    BY DEF Attempt, Needs
<1>4. Broken(p) => Current(p)'
    BY DEF Attempt, Needs
<1>5. Passed(p) /\ ~UserIs(c, "over") => Current(p)' /\ lock'[l] = p
    BY DEF Attempt, Needs
<1>6. child[p].st \in {"open", "dial", "spin", "send"} => lock'[l] = p
    BY DEF Attempt, Needs, Dialing
<1> QED
    BY <1>1, <1>2, <1>3, <1>4, <1>5, <1>6 DEF Attempt, UserIs, HasData

\* So does an entry.
LEMMA EntryFrame ==
    ASSUME Types, Table, NEW s \in Slots, Entry(s), client'[s] = client[s], Grow,
           client[s].fd \in Clients => Kept(client[s].fd)
    PROVE  Entry(s)' /\ (Own(s)' <=> Own(s))
<1>1. client[s] \in Entries
    BY DEF Types
<1>2. client[s].pid # 0 => client[s].pid \in DOMAIN child
    BY <1>1 DEF Types, Table, Entries
<1>3. client[s].pid # 0 => child[client[s].pid].fd \in Clients
    BY <1>2, ChildType
<1>4. Own(s)' <=> Own(s)
    BY <1>2 DEF Own, Grow
<1>5. Own(s) => client[s].fd \in Clients /\ client[s].pid \in DOMAIN child
    BY <1>2, <1>3 DEF Own
<1>6. Entry(s)'
    BY <1>4, <1>5 DEF Entry, Grow, Kept
<1> QED
    BY <1>4, <1>6


-----------------------------------------------------------------------------
(* The steps of the server's loop that only move it. *)

\* Where the server is matters to what select has reported, and to nothing else.
LEMMA ControlKeeps ==
    ASSUME CalldInv, Types', UNCHANGED <<client, lock, child, user, conn, backlog>>,
           spc = "dead" => spc' = "dead", spc' \in {"setlock", "tell"} => spc' = spc,
           NoneLeftDialing /\ Sound => Reported'
    PROVE  CalldInv'
<1> SUFFICES ASSUME NoneLeftDialing' PROVE Sound'
    BY DEF CalldInv
<1>1. NoneLeftDialing /\ Sound /\ Types
    BY DEF CalldInv, NoneLeftDialing, UserIs
<1>2. Grow
    BY DEF Grow, Passed, GaveUp
<1>3. \A c \in Clients : Kept(c)
    BY DEF Kept
<1>4. \A c \in Clients : Caller(c)'
    BY <1>1, <1>2, <1>3, CallerFrame DEF Sound
<1>5. \A p \in DOMAIN child : Attempt(p)'
    <2> TAKE p \in DOMAIN child
    <2>1. child[p].fd \in Clients
        BY <1>1, ChildType
    <2>2. Current(p) => Current(p)'
        BY DEF Current
    <2> QED
        BY <1>1, <1>3, <2>1, <2>2, AttemptFrame DEF Sound
<1>6. \A s \in Slots : Entry(s)'
    BY <1>1, <1>2, <1>3, EntryFrame DEF Sound
<1>7. Table' /\ Queue'
    BY <1>1 DEF Sound, Table, Queue, UserIs
<1>8. Locks'
    BY <1>1 DEF Sound, Locks, Own
<1> QED
    BY <1>1, <1>4, <1>5, <1>6, <1>7, <1>8 DEF Sound

\* The test of chld_flag at the top of loop.
LEMMA TopKeeps == ASSUME CalldInv, Top PROVE CalldInv'
<1>1. Types'
    BY DEF CalldInv, Types, Top, streams
<1>2. Reported'
    BY DEF Reported, Top
<1> QED
    BY <1>1, <1>2, ControlKeeps DEF Top, streams

\* The call of select.
LEMMA SelectKeeps == ASSUME CalldInv, Select PROVE CalldInv'
<1>1. Types'
    BY DEF CalldInv, Types, Select, streams
<1>2. Reported'
    BY DEF Reported, Select
<1> QED
    BY <1>1, <1>2, ControlKeeps DEF Select, streams

\* A select that a signal has interrupted.
LEMMA EintrKeeps == ASSUME CalldInv, Eintr PROVE CalldInv'
<1>1. Types'
    BY DEF CalldInv, Types, Eintr, streams
<1>2. Reported'
    BY DEF Reported, Eintr
<1> QED
    BY <1>1, <1>2, ControlKeeps DEF Eintr, streams

\* select reports the entries whose clients have sent something or gone.
LEMMA ReadyKeeps == ASSUME CalldInv, Ready PROVE CalldInv'
<1>1. Types'
    BY DEF CalldInv, Types, Ready, ReadySlots, streams
<1>2. Reported'
    BY DEF Reported, Ready, ReadySlots, Readable, HasData, HungUp, streams
<1> QED
    BY <1>1, <1>2, ControlKeeps DEF Ready, streams

\* loop goes on to the next entry: what select has reported of the others is still there.
LEMMA ScanNextKeeps == ASSUME CalldInv, ScanNext PROVE CalldInv'
<1>1. Types'
    BY DEF CalldInv, Types, ScanNext, streams
<1>2. NoneLeftDialing /\ Sound => Reported'
    <2> SUFFICES ASSUME Reported PROVE Reported'
        BY DEF Sound
    <2>1. at \in Nat /\ rset \subseteq Slots /\ Slots \subseteq Nat
        BY DEF CalldInv, Types, Slots
    <2> QED
        BY <2>1 DEF Reported, ScanNext, Readable, HasData, HungUp, streams
<1> QED
    BY <1>1, <1>2, ControlKeeps DEF ScanNext, streams

\* The end of child_done.
LEMMA CdEndKeeps == ASSUME CalldInv, CdEnd PROVE CalldInv'
<1>1. Types'
    BY DEF CalldInv, Types, CdEnd, streams
<1>2. back \in {"top", "tested"}
    BY DEF CalldInv, Types
<1>3. Reported'
    BY <1>2 DEF Reported, CdEnd
<1> QED
    BY <1>1, <1>2, <1>3, ControlKeeps DEF CdEnd, streams


-----------------------------------------------------------------------------
(* child_dial. *)

Busy == {"open", "dial", "spin", "send"}

\* The child goes on dialing, or ends without a line, or ends with one.
LEMMA MoveKeeps ==
    ASSUME CalldInv, NEW p \in DOMAIN child, NEW e \in Children,
           e.fd = child[p].fd, e.sys = child[p].sys, child' = [child EXCEPT ![p] = e],
           \/ child[p].st \in Busy /\ e.st \in Busy
           \/ child[p].st \in Busy /\ e.st = "zombie" /\ e.status # Exit0
           \/ child[p].st = "sent" /\ e.st = "zombie" /\ e.status = Exit0,
           UNCHANGED <<server, user, streams>>
    PROVE  CalldInv'
<1>1. /\ child' \in Seq(Children) /\ DOMAIN child' = DOMAIN child /\ Len(child') = Len(child)
      /\ child'[p] = e /\ \A q \in DOMAIN child : q # p => child'[q] = child[q]
    BY ChildStep DEF CalldInv, Types
<1>2. Types'
    BY <1>1 DEF CalldInv, Types, server, streams
<1>3. Grow
    BY <1>1 DEF Grow, Passed, GaveUp, Busy
<1> SUFFICES ASSUME NoneLeftDialing' PROVE Sound'
    BY <1>2 DEF CalldInv
<1>4. UNCHANGED <<spc, at, walk, rset, client, lock, user, conn, backlog>>
    BY DEF server, streams
<1>5. NoneLeftDialing /\ Sound /\ Types
    BY <1>1, <1>3, <1>4 DEF CalldInv, NoneLeftDialing, UserIs, Grow
<1>6. \A c \in Clients : Kept(c)
    BY <1>4 DEF Kept
<1>7. \A c \in Clients : Caller(c)'
    BY <1>1, <1>3, <1>4, <1>5, <1>6, CallerFrame DEF Sound
<1>8. \A q \in DOMAIN child : Current(q) => Current(q)'
    BY <1>1, <1>4 DEF Current
<1>9. ASSUME NEW q \in DOMAIN child, q # p PROVE Attempt(q)'
    <2>1. child[q].fd \in Clients
        BY <1>5, ChildType
    <2> QED
        BY <1>1, <1>4, <1>5, <1>6, <1>8, <1>9, <2>1, AttemptFrame DEF Sound
<1>10. Attempt(p)'
    <2>1. Attempt(p)
        BY <1>5 DEF Sound
    <2>2. child'[p].fd = child[p].fd /\ child'[p].sys = child[p].sys
        BY <1>1
    <2>3. CASE child[p].st \in Busy
        <3>1. /\ UserIs(child[p].fd, "waiting") /\ conn[child[p].fd].back = <<>> /\ Current(p)'
              /\ lock[LineOf(child[p].sys)] = p
            BY <1>8, <2>1, <2>3 DEF Attempt, Dialing, Busy
        <3>2. ~Passed(p)'
            BY <1>1, <2>3 DEF Passed, Busy
        <3> QED
            BY <1>4, <2>1, <2>2, <3>1, <3>2 DEF Attempt, UserIs, HasData
    <2>4. CASE child[p].st = "sent"
        <3>1. Passed(p) /\ Passed(p)' /\ ~Dialing(p)' /\ ~Broken(p)' /\ child'[p].st \notin Busy
            BY <1>1, <2>4 DEF Passed, Dialing, Broken, Busy
        <3> QED
            BY <1>4, <1>8, <2>1, <2>2, <3>1 DEF Attempt, UserIs, HasData, Busy
    <2> QED
        BY <2>3, <2>4
<1>11. \A s \in Slots : Entry(s)' /\ (Own(s)' <=> Own(s))
    BY <1>3, <1>4, <1>5, <1>6, EntryFrame DEF Sound
<1>12. Table' /\ Queue' /\ Reported'
    BY <1>1, <1>4, <1>5 DEF Sound, Table, Queue, Reported, UserIs, Readable, HasData, HungUp
<1>13. Locks'
    <2>1. child # <<>> => Len(child) \in DOMAIN child
        BY <1>5 DEF Types
    <2>2. spc \in {"setlock", "tell"} => child'[Len(child)] = child[Len(child)] /\ child' # <<>>
        BY <1>1, <1>5, <2>1 DEF Sound, Locks, Busy
    <2> QED
        BY <1>1, <1>4, <1>5, <1>11, <2>2 DEF Sound, Locks
<1> QED
    BY <1>1, <1>7, <1>9, <1>10, <1>11, <1>12, <1>13 DEF Sound

\* A step of the dialing, and the end of the child.
LEMMA GoesOn ==
    ASSUME CalldInv, NEW p, NEW k \in Busy, IsAt(p, k), NEW l \in Busy, Move(p, l),
           UNCHANGED <<server, user, streams>>
    PROVE  CalldInv'
<1>1. p \in DOMAIN child /\ child[p].st \in Busy /\ child \in Seq(Children)
    BY DEF IsAt, CalldInv, Types
<1> DEFINE e == [child[p] EXCEPT !.st = l]
<1>2. e \in Children /\ child' = [child EXCEPT ![p] = e]
    BY <1>1, ChildStates DEF Move, Exit0, Busy
<1>3. e.st = l /\ e.fd = child[p].fd /\ e.sys = child[p].sys
    BY <1>1 DEF Children
<1> QED
    BY <1>1, <1>2, <1>3, MoveKeeps

\* A child that exits: its entry and its lock stay until the server knows of it.
LEMMA GoesAway ==
    ASSUME CalldInv, NEW p, NEW k \in Busy \cup {"sent"}, IsAt(p, k),
           NEW x \in {Exit0, Exit1, Killed}, k = "sent" <=> x = Exit0, Exits(p, x),
           UNCHANGED <<server, user, streams>>
    PROVE  CalldInv'
<1>1. p \in DOMAIN child /\ child[p].st = k /\ child \in Seq(Children)
    BY DEF IsAt, CalldInv, Types
<1> DEFINE e == [child[p] EXCEPT !.st = "zombie", !.status = x]
<1>2. e \in Children /\ child' = [child EXCEPT ![p] = e]
    BY <1>1, ChildStates DEF Exits
<1>3. e.st = "zombie" /\ e.status = x /\ e.fd = child[p].fd /\ e.sys = child[p].sys
    BY <1>1 DEF Children
<1> QED
    BY <1>1, <1>2, <1>3, MoveKeeps

\* tty_open, and where it sends the child.
LEMMA TtyOpenKeeps == ASSUME CalldInv, NEW p, TtyOpen(p) PROVE CalldInv'
<1>1. CASE \E l \in {"send", "dial"} : Move(p, l)
    BY <1>1, GoesOn DEF TtyOpen, Busy
<1>2. CASE \E x \in {Exit1, Killed} : Exits(p, x)
    BY <1>2, GoesAway DEF TtyOpen, Busy, Exit0, Exit1, Killed
<1> QED
    BY <1>1, <1>2 DEF TtyOpen, Dies

\* tty_dial, however it ends.
LEMMA TtyDialKeeps == ASSUME CalldInv, NEW p, TtyDial(p) PROVE CalldInv'
<1>1. CASE \E l \in {"send", "spin"} : Move(p, l)
    BY <1>1, GoesOn DEF TtyDial, Busy
<1>2. CASE \E x \in {Exit1, Killed} : Exits(p, x)
    BY <1>2, GoesAway DEF TtyDial, Busy, Exit0, Exit1, Killed
<1> QED
    BY <1>1, <1>2 DEF TtyDial, Dies

\* exit(0) of a child that has passed the line.
LEMMA ExitOKKeeps == ASSUME CalldInv, NEW p, ExitOK(p) PROVE CalldInv'
BY GoesAway DEF ExitOK, Busy, Exit0, Exit1, Killed

\* The line goes to the client that waits for it, on a connection with nothing in
\* it; no other child of this client can pass one.
LEMMA SendLineKeeps == ASSUME CalldInv, NEW p, SendLine(p) PROVE CalldInv'
<1>1. CASE HungUp(child[p].fd)
    BY <1>1, GoesAway DEF SendLine, Busy, Exit0, Exit1, Killed, streams
<1>2. CASE ~HungUp(child[p].fd)
    <2>1. p \in DOMAIN child /\ child[p].st = "send" /\ child \in Seq(Children) /\ child[p] \in Children
        BY DEF SendLine, IsAt, CalldInv, Types
    <2>2. PICK c \in Clients : c = child[p].fd
        BY <2>1 DEF Children
    <2> DEFINE m == AnFd(child[p].sys)
               e == [child[p] EXCEPT !.st = "sent"]
    <2>3. e \in Children /\ child' = [child EXCEPT ![p] = e]
        BY <1>2, <2>1, ChildStates DEF SendLine, Move, Exit0
    <2>4. e.st = "sent" /\ e.fd = c /\ e.sys = child[p].sys
        BY <2>1, <2>2 DEF Children
    <2>5. /\ child' \in Seq(Children) /\ DOMAIN child' = DOMAIN child /\ Len(child') = Len(child)
          /\ child'[p] = e /\ \A q \in DOMAIN child : q # p => child'[q] = child[q]
        BY <2>1, <2>2, <2>3, <2>4, ChildStep
    <2>6. UNCHANGED <<spc, at, walk, back, rset, client, lock, user, backlog>>
        BY <1>2 DEF SendLine, server
    <2>7. c \in Clients /\ m \in Messages /\ conn[c] \in Conns
        BY <2>1, <2>2 DEF Children, Messages, Marks, AnFd, CalldInv, Types
    <2>8. Append(conn[c].back, m) \in Seq(Messages)
        BY <2>2, <2>7 DEF Conns
    <2>9. conn' = [conn EXCEPT ![c] = [conn[c] EXCEPT !.back = Append(conn[c].back, m)]]
        BY <1>2, <2>2, <2>7 DEF SendLine, SendFd, Conns, CalldInv, Types
    <2>10. [conn[c] EXCEPT !.back = Append(conn[c].back, m)] \in Conns
        BY <2>2, <2>7, <2>8 DEF Conns
    <2>11. Types'
        BY <2>2, <2>5, <2>6, <2>7, <2>9, <2>10 DEF CalldInv, Types
    <2>12. Grow
        BY <2>1, <2>2, <2>4, <2>5 DEF Grow, Passed, GaveUp
    <2> SUFFICES ASSUME NoneLeftDialing' PROVE Sound'
        BY <2>2, <2>11 DEF CalldInv
    <2>13. NoneLeftDialing /\ Sound /\ Types
        BY <2>2, <2>5, <2>6, <2>12 DEF CalldInv, NoneLeftDialing, UserIs, Grow
    <2>14. \A d \in Clients : d # c => conn'[d] = conn[d]
        BY <2>2, <2>7, <2>9, <2>13 DEF Types
    <2>15. /\ conn'[c].cli = conn[c].cli /\ conn'[c].srv = conn[c].srv /\ conn'[c].req = conn[c].req
           /\ conn'[c].back = Append(conn[c].back, m)
        BY <2>2, <2>7, <2>9, <2>13 DEF Types, Conns
    <2>16. \A d \in Clients : d # c => Kept(d)
        BY <2>2, <2>6, <2>14 DEF Kept
    <2>17. UserIs(c, "waiting") /\ conn[c].back = <<>> /\ Current(p) /\ lock[LineOf(child[p].sys)] = p
        BY <2>1, <2>2, <2>13 DEF Sound, Attempt, Dialing
    <2>18. conn'[c].back = <<m>>
        BY <2>2, <2>15, <2>17
    <2>19. Passed(p)' /\ ~Dialing(p)' /\ ~Broken(p)'
        BY <2>2, <2>4, <2>5 DEF Passed, Dialing, Broken
    <2>20. \A q \in DOMAIN child : Current(q) => Current(q)'
        BY <2>2, <2>4, <2>5, <2>6 DEF Current
    <2>21. \A d \in Clients : Caller(d)'
        <3>1. ASSUME NEW d \in Clients, d # c PROVE Caller(d)'
            BY <2>2, <2>5, <2>6, <2>12, <2>13, <2>16, <3>1, CallerFrame DEF Sound
        <3>2. Caller(c)
            BY <2>2, <2>7, <2>13 DEF Sound
        <3>3. LineSent(c)'
            BY <2>1, <2>2, <2>4, <2>5, <2>18, <2>19 DEF LineSent
        <3>4. Current(p) => conn[c].srv # "none"
            BY <2>2, <2>7, <2>13, ParamAssumption DEF Sound, Table, Current, Types
        <3>5. Caller(c)'
            BY <2>2, <2>6, <2>15, <2>17, <3>2, <3>3, <3>4 DEF Caller, UserIs, HasData, HungUp, CliOpen
        <3> QED
            BY <3>1, <3>5
    <2>22. \A q \in DOMAIN child : Attempt(q)'
        <3>1. ASSUME NEW q \in DOMAIN child, q # p PROVE Attempt(q)'
            <4>1. child[q].fd \in Clients /\ Attempt(q)
                BY <2>2, <2>13, ChildType DEF Sound
            <4>2. CASE child[q].fd # c
                BY <2>2, <2>5, <2>6, <2>13, <2>16, <2>20, <3>1, <4>1, <4>2, AttemptFrame
            <4>3. CASE child[q].fd = c
                <5>1. ~Current(q)
                    BY <2>2, <2>7, <2>13, <2>17, <3>1, <4>3, ParamAssumption DEF Sound, Table, Current
                <5>2. ~Dialing(q) /\ ~Broken(q) /\ ~Passed(q)
                    BY <2>2, <2>17, <4>1, <4>3, <5>1 DEF Attempt, UserIs
                <5>3. ~Dialing(q)' /\ ~Broken(q)' /\ ~Passed(q)' /\ child'[q].st \notin Busy
                    BY <2>2, <2>5, <3>1, <5>2 DEF Dialing, Broken, Passed, Busy
                <5> QED
                    BY <2>2, <2>5, <2>6, <2>15, <3>1, <4>1, <4>3, <5>3 DEF Attempt, UserIs, HasData, Busy
            <4> QED
                BY <4>2, <4>3
        <3>2. Attempt(p)
            BY <2>1, <2>2, <2>13 DEF Sound
        <3>3. Attempt(p)'
            BY <2>1, <2>2, <2>4, <2>5, <2>6, <2>15, <2>17, <2>18, <2>19, <2>20, <3>2 DEF Attempt, UserIs, HasData
        <3> QED
            BY <3>1, <3>3
    <2>23. \A s \in Slots : Entry(s)' /\ (Own(s)' <=> Own(s))
        <3> TAKE s \in Slots
        <3>1. CASE client[s].fd # c
            BY <2>2, <2>6, <2>12, <2>13, <2>16, <3>1, EntryFrame DEF Sound
        <3>2. CASE client[s].fd = c
            <4>1. client[s].pid = p /\ Own(s) /\ Own(s)'
                <5>1. PICK t \in Slots : client[t].pid = p /\ client[t].fd = c
                    BY <2>2, <2>17 DEF Current
                <5>2. t = s /\ p # 0
                    BY <2>1, <2>13, <3>2, <5>1, ParamAssumption DEF Sound, Table
                <5> QED
                    BY <2>2, <2>4, <2>5, <2>6, <3>2, <5>1, <5>2 DEF Own
            <4>2. client[s].childdone # 2
                BY <2>1, <2>2, <2>13, <4>1 DEF Sound, Entry, GaveUp
            <4> QED
                BY <2>2, <2>6, <2>13, <4>1, <4>2 DEF Sound, Entry
        <3> QED
            BY <3>1, <3>2
    <2>24. Table' /\ Queue' /\ Reported'
        <3>1. \A d \in Clients : conn'[d].srv = conn[d].srv /\ conn'[d].req = conn[d].req /\ conn'[d].cli = conn[d].cli
            BY <2>2, <2>14, <2>15
        <3>2. \A s \in Slots : client[s].fd \in Clients \cup {NoFd}
            BY <2>2, <2>13 DEF Types, Entries
        <3>3. \A i \in DOMAIN backlog : backlog[i] \in Clients
            BY <2>2, <2>13 DEF Types
        <3>4. rset \subseteq Slots
            BY <2>2, <2>13 DEF Types
        <3> QED
            BY <2>2, <2>5, <2>6, <2>13, <3>1, <3>2, <3>3, <3>4 DEF Sound, Table, Queue, Reported, UserIs, Readable, HasData, HungUp
    <2>25. Locks'
        <3>1. child # <<>> => Len(child) \in DOMAIN child
            BY <2>2, <2>13 DEF Types
        <3>2. spc \in {"setlock", "tell"} => child'[Len(child)] = child[Len(child)] /\ child' # <<>>
            BY <2>1, <2>2, <2>5, <2>13, <3>1 DEF Sound, Locks
        <3> QED
            BY <2>2, <2>5, <2>6, <2>13, <2>23, <3>2 DEF Sound, Locks
    <2> QED
        BY <2>2, <2>5, <2>21, <2>22, <2>23, <2>24, <2>25 DEF Sound
<1> QED
    BY <1>1, <1>2


-----------------------------------------------------------------------------
(* call. *)

\* A step of client c matters to what the invariant says of c, its attempts and
\* its entries.
LEMMA UserKeeps ==
    ASSUME CalldInv, NEW c \in Clients, Types', UNCHANGED <<spc, at, walk, rset, client, lock, child>>,
           \A d \in Clients : d # c => conn'[d] = conn[d] /\ user'[d] = user[d],
           ~UserIs(c, "quit"),
           NoneLeftDialing' /\ NoneLeftDialing /\ Sound =>
               /\ conn'[c].srv = conn[c].srv /\ (Readable(c) => Readable(c)')
               /\ Caller(c)' /\ Queue'
               /\ \A p \in DOMAIN child : child[p].fd = c => Attempt(p)'
               /\ \A s \in Slots : client[s].fd = c => Entry(s)'
    PROVE  CalldInv'
<1> SUFFICES ASSUME NoneLeftDialing' PROVE Sound'
    BY DEF CalldInv
<1>1. Types
    BY DEF CalldInv
<1>2. \A p \in DOMAIN child : child[p].fd \in Clients
    BY <1>1, ChildType
<1>3. NoneLeftDialing /\ Sound
    BY <1>2 DEF CalldInv, NoneLeftDialing, UserIs
<1>4. Grow
    BY DEF Grow, Passed, GaveUp
<1>5. \A d \in Clients : d # c => Kept(d)
    BY DEF Kept
<1>6. \A d \in Clients : Caller(d)'
    BY <1>3, <1>4, <1>5, CallerFrame DEF Sound
<1>7. \A p \in DOMAIN child : Current(p) => Current(p)'
    BY DEF Current
<1>8. \A p \in DOMAIN child : Attempt(p)'
    BY <1>2, <1>3, <1>5, <1>7, AttemptFrame DEF Sound
<1>9. \A s \in Slots : Own(s)' <=> Own(s)
    BY DEF Own
<1>10. \A s \in Slots : Entry(s)'
    BY <1>1, <1>3, <1>4, <1>5, EntryFrame DEF Sound
<1>11. Table' /\ Reported'
    <2>1. \A s \in Slots : client[s].fd \in Clients \cup {NoFd}
        BY <1>1 DEF Types, Entries
    <2>2. rset \subseteq Slots /\ \A d \in Clients : conn'[d].srv = conn[d].srv /\ (Readable(d) => Readable(d)')
        BY <1>1, <1>3 DEF Types, Readable, HasData, HungUp
    <2> QED
        BY <1>3, <2>1, <2>2 DEF Sound, Table, Reported
<1>12. Locks'
    BY <1>3, <1>9 DEF Sound, Locks
<1> QED
    BY <1>3, <1>6, <1>8, <1>10, <1>11, <1>12 DEF Sound

\* A client without children has no entry that says anything of it.
LEMMA NoChild ==
    ASSUME Types, Table, NEW c \in Clients, \A p \in DOMAIN child : child[p].fd # c
    PROVE  \A s \in Slots : client[s].fd = c => ~Own(s)
<1> TAKE s \in Slots
<1>1. client[s].pid # 0 => client[s].pid \in DOMAIN child
    BY DEF Types, Table, Entries
<1> QED
    BY <1>1 DEF Own

\* A step that gives c the state u and its connection the state k.
LEMMA UserStep ==
    ASSUME Types, NEW c \in Clients, NEW u \in Callers, NEW k \in Conns,
           user' = [user EXCEPT ![c] = u], conn' = [conn EXCEPT ![c] = k], backlog' \in Seq(Clients),
           UNCHANGED <<spc, at, walk, back, rset, client, lock, child>>
    PROVE  /\ Types' /\ user'[c] = u /\ conn'[c] = k
           /\ \A d \in Clients : d # c => conn'[d] = conn[d] /\ user'[d] = user[d]
BY DEF Types

\* Closing the client's end.
LEMMA CliCloses ==
    ASSUME Types, NEW c \in Clients
    PROVE  \E k \in Conns :
              /\ CliClose(conn, c) = [conn EXCEPT ![c] = k]
              /\ k.cli = "closed" /\ k.srv = conn[c].srv /\ k.req = conn[c].req /\ k.back = <<>>
<1> DEFINE k == [conn[c] EXCEPT !.cli = "closed", !.back = <<>>]
<1>1. conn[c] \in Conns /\ <<>> \in Seq(Messages) /\ "closed" \in Sides
    BY DEF Types, Sides
<1>2. k \in Conns
    BY <1>1 DEF Conns
<1>3. CliClose(conn, c) = [conn EXCEPT ![c] = k]
    BY <1>1 DEF CliClose, Conns, Types
<1>4. k.cli = "closed" /\ k.srv = conn[c].srv /\ k.req = conn[c].req /\ k.back = <<>>
    BY <1>1 DEF Conns
<1> QED
    BY <1>2, <1>3, <1>4

\* A client's record with another state.
LEMMA StateSet ==
    ASSUME NEW v \in Callers,
           NEW l \in {"start", "connected", "waiting", "talking", "refused", "over", "quit", "failed"}
    PROVE  LET u == [v EXCEPT !.st = l]
           IN  u \in Callers /\ u.st = l /\ u.want = v.want /\ u.got = v.got /\ u.err = v.err
BY DEF Callers

\* cli_conn: the client is behind those that wait for the server.
LEMMA ConnectKeeps == ASSUME CalldInv, NEW c \in Clients, Connect(c) PROVE CalldInv'
<1>1. Types /\ UserIs(c, "start") /\ UNCHANGED <<spc, at, walk, back, rset, client, lock, child>>
    BY DEF CalldInv, Connect, server
<1>2. Sound => /\ conn[c] = NewConn
               /\ \A p \in DOMAIN child : child[p].fd # c
               /\ \A s \in Slots : client[s].fd # c
               /\ \A i \in DOMAIN backlog : backlog[i] # c
    <2> SUFFICES ASSUME Sound PROVE /\ conn[c] = NewConn /\ \A p \in DOMAIN child : child[p].fd # c
                                    /\ \A s \in Slots : client[s].fd # c
                                    /\ \A i \in DOMAIN backlog : backlog[i] # c
        OBVIOUS
    <2>1. conn[c] = NewConn
        BY <1>1 DEF Sound, Caller
    <2>2. \A p \in DOMAIN child : child[p].fd # c
        BY <1>1 DEF Sound, Attempt, UserIs
    <2>3. \A s \in Slots : client[s].fd # c
        BY <2>1, ParamAssumption DEF Sound, Table, NewConn
    <2>4. \A i \in DOMAIN backlog : backlog[i] # c
        BY <1>1 DEF Sound, Queue
    <2> QED
        BY <2>1, <2>2, <2>3, <2>4
<1>3. CASE spc # "dead"
    <2> DEFINE k == [NewConn EXCEPT !.cli = "open"]
    <2>1. conn' = [conn EXCEPT ![c] = k] /\ backlog' = Append(backlog, c)
        BY <1>3 DEF Connect, CliConn
    <2>2. k \in Conns /\ k.cli = "open" /\ k.srv = "none" /\ k.req = <<>> /\ k.back = <<>>
        <3>1. <<>> \in Seq(Wants) /\ <<>> \in Seq(Messages) /\ "open" \in Sides /\ "none" \in Sides
            BY DEF Sides
        <3>2. k = [cli |-> "open", srv |-> "none", req |-> <<>>, back |-> <<>>]
            BY DEF NewConn
        <3> QED
            BY <3>1, <3>2 DEF Conns
    <2>3. PICK u \in Callers :
              user' = [user EXCEPT ![c] = u] /\ u.st = "connected" /\ u.want = user[c].want
              /\ u.got = user[c].got /\ u.err = user[c].err
        <3> DEFINE v == [user[c] EXCEPT !.st = "connected"]
        <3>1. user' = [user EXCEPT ![c] = v]
            BY <1>3 DEF Connect
        <3>2. user[c] \in Callers
            BY <1>1 DEF Types
        <3>3. v \in Callers /\ v.st = "connected" /\ v.want = user[c].want /\ v.got = user[c].got /\ v.err = user[c].err
            BY <3>2, StateSet
        <3> HIDE DEF v
        <3> QED
            BY <3>1, <3>3
    <2> HIDE DEF k
    <2>4. /\ Types' /\ user'[c] = u /\ conn'[c] = k
          /\ \A d \in Clients : d # c => conn'[d] = conn[d] /\ user'[d] = user[d]
        <3>1. backlog' \in Seq(Clients)
            BY <1>1, <2>1 DEF Types
        <3> QED
            BY <1>1, <2>1, <2>2, <2>3, <3>1, UserStep
    <2>5. ASSUME Sound PROVE Caller(c)' /\ Queue' /\ conn'[c].srv = conn[c].srv /\ ~Readable(c)
        <3>1. Caller(c)'
            BY <1>1, <1>2, <2>2, <2>3, <2>4, <2>5 DEF Sound, Caller, UserIs, CliOpen, HungUp, HasData
        <3>2. Queue'
            <4>1. backlog \in Seq(Clients)
                BY <1>1 DEF Types
            <4>2. Len(backlog') = Len(backlog) + 1 /\ backlog'[Len(backlog) + 1] = c
                  /\ \A i \in DOMAIN backlog : backlog'[i] = backlog[i] /\ backlog[i] \in Clients
                BY <2>1, <4>1
            <4>3. \A i \in DOMAIN backlog' : i \in DOMAIN backlog \/ i = Len(backlog) + 1
                BY <2>1, <4>1
            <4>4. \A i \in DOMAIN backlog' : conn'[backlog'[i]].srv = "none" /\ user'[backlog'[i]].st # "start"
                BY <1>2, <2>2, <2>3, <2>4, <2>5, <4>2, <4>3 DEF Sound, Queue, UserIs
            <4>5. \A i, j \in DOMAIN backlog' : backlog'[i] = backlog'[j] => i = j
                BY <1>2, <2>5, <4>2, <4>3 DEF Sound, Queue
            <4> QED
                BY <4>4, <4>5 DEF Queue, UserIs
        <3>3. conn'[c].srv = conn[c].srv /\ ~Readable(c)
            BY <1>2, <2>2, <2>4, <2>5 DEF Readable, HasData, HungUp, NewConn
        <3> QED
            BY <3>1, <3>2, <3>3
    <2> QED
        BY <1>1, <1>2, <2>4, <2>5, UserKeeps DEF UserIs
<1>4. CASE spc = "dead"
    <2>1. UNCHANGED <<conn, backlog>>
        BY <1>4 DEF Connect, streams
    <2>2. conn' = [conn EXCEPT ![c] = conn[c]] /\ conn[c] \in Conns /\ backlog' \in Seq(Clients)
        BY <1>1, <2>1 DEF Types
    <2>3. PICK u \in Callers :
              user' = [user EXCEPT ![c] = u] /\ u.st = "failed" /\ u.want = user[c].want
              /\ u.got = user[c].got /\ u.err = user[c].err
        <3> DEFINE v == [user[c] EXCEPT !.st = "failed"]
        <3>1. user' = [user EXCEPT ![c] = v]
            BY <1>4 DEF Connect
        <3>2. user[c] \in Callers
            BY <1>1 DEF Types
        <3>3. v \in Callers /\ v.st = "failed" /\ v.want = user[c].want /\ v.got = user[c].got /\ v.err = user[c].err
            BY <3>2, StateSet
        <3> HIDE DEF v
        <3> QED
            BY <3>1, <3>3
    <2>4. /\ Types' /\ user'[c] = u /\ conn'[c] = conn[c]
          /\ \A d \in Clients : d # c => conn'[d] = conn[d] /\ user'[d] = user[d]
        BY <1>1, <2>2, <2>3, UserStep
    <2>5. ASSUME Sound PROVE Caller(c)' /\ Queue' /\ (Readable(c) => Readable(c)')
        <3>1. Caller(c)'
            BY <1>1, <1>2, <1>4, <2>3, <2>4, <2>5 DEF Sound, Caller, UserIs, CliOpen, HungUp, HasData, NewConn
        <3>2. \A i \in DOMAIN backlog : backlog[i] \in Clients
            BY <1>1 DEF Types
        <3>3. Queue'
            BY <1>2, <2>1, <2>3, <2>4, <2>5, <3>2 DEF Sound, Queue, UserIs
        <3> QED
            BY <2>4, <3>1, <3>3 DEF Readable, HasData, HungUp
    <2> QED
        BY <1>1, <1>2, <2>4, <2>5, UserKeeps DEF UserIs
<1> QED
    BY <1>3, <1>4


\* The queue does not mind what its clients do.
LEMMA QueueFrame ==
    ASSUME Types, Queue, backlog' = backlog,
           \A d \in Clients : conn'[d].srv = conn[d].srv /\ (UserIs(d, "start")' => UserIs(d, "start"))
    PROVE  Queue'
<1>1. \A i \in DOMAIN backlog : backlog[i] \in Clients
    BY DEF Types
<1> QED
    BY <1>1 DEF Queue

\* A client that closes its end and goes to l.
LEMMA EndsKeeps ==
    ASSUME CalldInv, NEW c \in Clients, NEW l \in {"failed", "over", "quit"}, Ends(c, l),
           user[c].st \in {"connected", "waiting", "talking"},
           l = "failed" => spc = "dead", UserIs(c, "talking") <=> l = "over",
           l = "failed" /\ Sound => conn[c].back = <<>> /\ \A p \in DOMAIN child : child[p].fd = c => ~Alive(p),
           UNCHANGED <<server, child, backlog>>
    PROVE  CalldInv'
<1>1. Types /\ UNCHANGED <<spc, at, walk, back, rset, client, lock, child>>
    BY DEF CalldInv, server
<1>2. PICK u \in Callers :
          user' = [user EXCEPT ![c] = u] /\ u.st = l /\ u.want = user[c].want
          /\ u.got = user[c].got /\ u.err = user[c].err
    <2> DEFINE v == [user[c] EXCEPT !.st = l]
    <2>1. user' = [user EXCEPT ![c] = v]
        BY DEF Ends
    <2>2. user[c] \in Callers
        BY <1>1 DEF Types
    <2>3. l \in {"start", "connected", "waiting", "talking", "refused", "over", "quit", "failed"}
        OBVIOUS
    <2>4. v \in Callers /\ v.st = l /\ v.want = user[c].want /\ v.got = user[c].got /\ v.err = user[c].err
        BY ONLY <2>2, <2>3, StateSet
    <2> HIDE DEF v
    <2> QED
        BY <2>1, <2>4
<1>3. PICK k \in Conns :
          /\ conn' = [conn EXCEPT ![c] = k]
          /\ k.cli = "closed" /\ k.srv = conn[c].srv /\ k.req = conn[c].req /\ k.back = <<>>
    BY <1>1, CliCloses DEF Ends
<1>4. backlog' \in Seq(Clients)
    BY <1>1 DEF Types
<1>5. /\ Types' /\ user'[c] = u /\ conn'[c] = k
      /\ \A d \in Clients : d # c => conn'[d] = conn[d] /\ user'[d] = user[d]
    BY <1>1, <1>2, <1>3, <1>4, UserStep
<1>6. ASSUME NoneLeftDialing', Sound
      PROVE  /\ conn'[c].srv = conn[c].srv /\ (Readable(c) => Readable(c)')
             /\ Caller(c)' /\ Queue'
             /\ \A p \in DOMAIN child : child[p].fd = c => Attempt(p)'
             /\ \A s \in Slots : client[s].fd = c => Entry(s)'
    <2>1. conn'[c].srv = conn[c].srv /\ (Readable(c) => Readable(c)')
        BY <1>3, <1>5 DEF Readable, HasData, HungUp
    <2>2. Queue'
        BY <1>1, <1>2, <1>5, <1>6, <2>1, QueueFrame DEF Sound, UserIs
    <2>3. Caller(c)
        BY <1>6 DEF Sound
    <2>4. user[c].got # 0 => \E p \in DOMAIN child' : child'[p].fd = c /\ Passed(p)' /\ child'[p].sys = user[c].got
        BY <1>1, <2>3 DEF Caller, Passed
    <2>5. Caller(c)'
        BY <1>1, <1>2, <1>3, <1>5, <2>3, <2>4 DEF Caller, UserIs, CliOpen, HungUp, HasData
    <2>6. ASSUME NEW p \in DOMAIN child, child[p].fd = c PROVE Attempt(p)'
        <3>1. Attempt(p) /\ child[p] \in Children
            BY <1>1, <1>6 DEF Sound, Types
        <3>2. l # "quit"
            BY <1>1, <1>2, <1>5, <1>6, <2>6 DEF NoneLeftDialing, UserIs
        <3>3. CASE l = "over"
            <4>1. ~Dialing(p) /\ ~Broken(p)
                BY <2>6, <3>1, <3>3 DEF Attempt, UserIs
            <4>2. ~Dialing(p)' /\ ~Broken(p)' /\ child'[p].st \notin Busy
                BY <1>1, <4>1 DEF Dialing, Broken, Busy
            <4> QED
                BY <1>1, <1>2, <1>3, <1>5, <2>6, <3>1, <3>3, <4>2 DEF Attempt, UserIs, HasData, Busy
        <3>4. CASE l = "failed"
            <4>1. ~Dialing(p) /\ child[p].st \notin Busy
                BY <1>6, <2>6, <3>4 DEF Dialing, Alive, Busy
            <4>2. ~Passed(p)
                <5>1. conn[c].back = <<>> /\ ~UserIs(c, "talking") /\ ~UserIs(c, "over")
                    BY <1>6, <3>4 DEF UserIs
                <5>2. conn[c].back # <<AnFd(child[p].sys)>>
                    BY <5>1
                <5> QED
                    BY <2>6, <3>1, <5>1, <5>2 DEF Attempt
            <4>3. ~Dialing(p)' /\ ~Passed(p)' /\ child'[p].st \notin Busy /\ (Broken(p)' <=> Broken(p))
                BY <1>1, <4>1, <4>2 DEF Dialing, Broken, Passed, Busy
            <4>4. Current(p) => Current(p)'
                BY <1>1 DEF Current
            <4> QED
                BY <1>1, <1>2, <1>3, <1>5, <2>6, <3>1, <3>4, <4>3, <4>4 DEF Attempt, UserIs, HasData, Busy
        <3> QED
            BY <3>2, <3>3, <3>4
    <2>7. ASSUME NEW s \in Slots, client[s].fd = c PROVE Entry(s)'
        <3>1. Entry(s) /\ Table
            BY <1>6 DEF Sound
        <3>2. (Own(s)' <=> Own(s)) /\ (GaveUp(client[s].pid)' <=> GaveUp(client[s].pid))
            BY <1>1 DEF Own, GaveUp
        <3>3. Own(s) => client[s].want = user'[client'[s].fd].want
            BY <1>1, <1>2, <1>5, <2>7, <3>1 DEF Entry
        <3>4. client[s].childdone = 2 => l \notin {"over", "quit"}
            <4>1. Own(s) => child[client[s].pid].fd = c /\ client[s].pid \in DOMAIN child
                BY <1>1, <2>7, <3>1 DEF Own, Types, Table, Entries
            <4> QED
                BY <1>1, <1>2, <1>5, <1>6, <2>7, <3>1, <4>1 DEF Entry, NoneLeftDialing, UserIs
        <3> QED
            BY <1>1, <1>2, <1>3, <1>5, <2>7, <3>1, <3>2, <3>3, <3>4 DEF Entry
    <2> QED
        BY <2>1, <2>2, <2>5, <2>6, <2>7
<1> QED
    BY <1>1, <1>5, <1>6, UserKeeps DEF UserIs

\* The server is gone, and the call with it.
LEMMA ClosedKeeps == ASSUME CalldInv, NEW c \in Clients, Closed(c) PROVE CalldInv'
BY EndsKeeps DEF Closed, UserIs

\* The user hangs up: the client needs its line no more.
LEMMA HangUpKeeps == ASSUME CalldInv, NEW c \in Clients, HangUp(c) PROVE CalldInv'
BY EndsKeeps DEF HangUp, UserIs

\* The client is killed; after that nothing is claimed if it has had a child.
LEMMA QuitKeeps == ASSUME CalldInv, NEW c \in Clients, Quit(c) PROVE CalldInv'
BY EndsKeeps DEF Quit, UserIs


\* The request is the only one of its client, which has no child.
LEMMA SendArgsKeeps == ASSUME CalldInv, NEW c \in Clients, SendArgs(c) PROVE CalldInv'
<1>1. Types /\ UserIs(c, "connected") /\ UNCHANGED <<spc, at, walk, back, rset, client, lock, child, backlog>>
    BY DEF CalldInv, SendArgs, server
<1>2. Sound => /\ \A p \in DOMAIN child : child[p].fd # c
               /\ conn[c].back = <<>> /\ conn[c].req = <<>>
    BY <1>1 DEF Sound, Attempt, Caller, UserIs, HasData
<1>3. CASE Ends(c, "failed")
    BY <1>1, <1>2, <1>3, EndsKeeps DEF SendArgs, UserIs, Ends, Alive
<1>4. ASSUME NEW w \in Want[c], conn' = Sent(conn, c, w),
             user' = [user EXCEPT ![c].st = "waiting", ![c].want = w]
      PROVE  CalldInv'
    <2> DEFINE k == [conn[c] EXCEPT !.req = Append(conn[c].req, w)]
               u == [user[c] EXCEPT !.st = "waiting", !.want = w]
    <2>1. conn[c] \in Conns /\ user[c] \in Callers /\ w \in Wants
        BY <1>1 DEF Types, Wants
    <2>2. Append(conn[c].req, w) \in Seq(Wants)
        BY <2>1 DEF Conns
    <2>3. k \in Conns
        BY <2>1, <2>2 DEF Conns
    <2>4. k.cli = conn[c].cli /\ k.srv = conn[c].srv /\ k.req = Append(conn[c].req, w) /\ k.back = conn[c].back
        BY <2>1 DEF Conns
    <2>5. u \in Callers /\ u.st = "waiting" /\ u.want = w /\ u.got = user[c].got /\ u.err = user[c].err
        BY <2>1 DEF Callers
    <2>6. conn' = [conn EXCEPT ![c] = k] /\ user' = [user EXCEPT ![c] = u] /\ backlog' \in Seq(Clients)
        BY <1>1, <1>4, <2>1 DEF Sent, Types
    <2> HIDE DEF k, u
    <2>7. /\ Types' /\ user'[c] = u /\ conn'[c] = k
          /\ \A d \in Clients : d # c => conn'[d] = conn[d] /\ user'[d] = user[d]
        BY <1>1, <2>3, <2>5, <2>6, UserStep
    <2>8. ASSUME Sound
          PROVE  /\ conn'[c].srv = conn[c].srv /\ (Readable(c) => Readable(c)')
                 /\ Caller(c)' /\ Queue'
                 /\ \A s \in Slots : client[s].fd = c => Entry(s)'
        <3>1. conn'[c].req = <<w>> /\ conn'[c].back = <<>>
            BY <1>2, <2>4, <2>7, <2>8
        <3>2. Readable(c)' /\ conn'[c].srv = conn[c].srv
            BY <2>4, <2>7, <3>1 DEF Readable, HasData
        <3>3. Queue'
            BY <1>1, <2>5, <2>7, <2>8, <3>2, QueueFrame DEF Sound, UserIs
        <3>4. Caller(c)
            BY <2>8 DEF Sound
        <3>5. Caller(c)'
            BY <1>1, <2>4, <2>5, <2>7, <3>1, <3>4 DEF Caller, UserIs, CliOpen, HungUp, HasData
        <3>6. ASSUME NEW s \in Slots, client[s].fd = c PROVE Entry(s)'
            <4>1. ~Own(s) /\ Entry(s)
                BY <1>1, <1>2, <2>8, <3>6, NoChild DEF Sound
            <4>2. ~Own(s)' /\ client'[s].childdone # 2
                BY <1>1, <4>1 DEF Own, Entry
            <4> QED
                BY <4>2 DEF Entry
        <3> QED
            BY <3>2, <3>3, <3>5, <3>6
    <2> QED
        BY <1>1, <1>2, <2>7, <2>8, UserKeeps DEF UserIs
<1> QED
    BY <1>3, <1>4 DEF SendArgs

\* recv_fd: the message is the answer of this client's own attempt.
LEMMA AnswerKeeps == ASSUME CalldInv, NEW c \in Clients, Answer(c) PROVE CalldInv'
<1> DEFINE m == Head(conn[c].back)
<1>1. /\ Types /\ UserIs(c, "waiting") /\ conn[c].back # <<>> /\ backlog' = backlog
      /\ UNCHANGED <<spc, at, walk, back, rset, client, lock, child>>
    BY DEF CalldInv, Answer, server
<1>2. conn[c] \in Conns /\ user[c] \in Callers /\ m \in Messages /\ backlog' \in Seq(Clients)
    BY <1>1 DEF Types, Conns
<1>3. m.is \in Marks
    BY <1>2 DEF Messages
<1>4. CASE m.ok
    <2> DEFINE k == [conn[c] EXCEPT !.back = Tail(conn[c].back)]
               u == [user[c] EXCEPT !.st = "talking", !.got = m.is]
    <2>1. Tail(conn[c].back) \in Seq(Messages)
        BY <1>1, <1>2 DEF Conns
    <2>2. k \in Conns
        BY <1>2, <2>1 DEF Conns
    <2>3. k.cli = conn[c].cli /\ k.srv = conn[c].srv /\ k.req = conn[c].req /\ k.back = Tail(conn[c].back)
        BY <1>2 DEF Conns
    <2>4. u \in Callers
        BY <1>2, <1>3 DEF Callers
    <2>5. u.st = "talking" /\ u.want = user[c].want /\ u.got = m.is /\ u.err = user[c].err
        BY <1>2 DEF Callers
    <2>6. conn' = [conn EXCEPT ![c] = k] /\ user' = [user EXCEPT ![c] = u]
        BY <1>1, <1>2, <1>4 DEF Answer, RecvFd, Types
    <2> HIDE DEF k, u
    <2>7. /\ Types' /\ user'[c] = u /\ conn'[c] = k
          /\ \A d \in Clients : d # c => conn'[d] = conn[d] /\ user'[d] = user[d]
        BY <1>1, <1>2, <2>2, <2>4, <2>6, UserStep
    <2>8. ASSUME Sound
          PROVE  /\ conn'[c].srv = conn[c].srv /\ (Readable(c) => Readable(c)')
                 /\ Caller(c)' /\ Queue'
                 /\ \A p \in DOMAIN child : child[p].fd = c => Attempt(p)'
                 /\ \A s \in Slots : client[s].fd = c => Entry(s)'
        <3>1. conn'[c].srv = conn[c].srv /\ (Readable(c) => Readable(c)')
            BY <2>3, <2>7 DEF Readable, HasData, HungUp
        <3>2. Queue'
            BY <1>1, <2>5, <2>7, <2>8, <3>1, QueueFrame DEF Sound, UserIs
        <3>3. Caller(c)
            BY <2>8 DEF Sound
        <3>4. ~ErrorSent(c)
            <4>1. \A e \in Errors : conn[c].back = <<AnErr(e)>> => m = AnErr(e)
                OBVIOUS
            <4>2. \A e \in Errors : ~AnErr(e).ok
                BY DEF AnErr
            <4> QED
                BY <1>4, <4>1, <4>2 DEF ErrorSent
        <3>5. PICK p \in DOMAIN child : child[p].fd = c /\ Passed(p) /\ conn[c].back = <<AnFd(child[p].sys)>>
            BY <1>1, <3>3, <3>4 DEF Caller, LineSent
        <3>6. m.is = child[p].sys /\ Tail(conn[c].back) = <<>> /\ child[p].sys # 0
            <4>1. child[p].sys \in DOMAIN Systems
                BY <2>8 DEF Sound, Attempt
            <4>2. child[p].sys # 0
                BY <4>1, ParamAssumption
            <4> QED
                BY <3>5, <4>2 DEF AnFd
        <3>7. child'[p].fd = c /\ Passed(p)' /\ child'[p].sys = m.is
            BY <1>1, <3>5, <3>6 DEF Passed
        <3>8. Caller(c)'
            BY <1>1, <2>3, <2>5, <2>7, <3>3, <3>5, <3>6, <3>7 DEF Caller, UserIs, CliOpen, HungUp, HasData
        <3>9. ASSUME NEW q \in DOMAIN child, child[q].fd = c PROVE Attempt(q)'
            <4>1. Attempt(q)
                BY <2>8 DEF Sound
            <4>2. ~Dialing(q) /\ ~Broken(q)
                BY <1>1, <3>9, <4>1 DEF Attempt
            <4>3. ~Dialing(q)' /\ ~Broken(q)' /\ child'[q].st \notin Busy /\ (Passed(q)' <=> Passed(q))
                BY <1>1, <4>2 DEF Dialing, Broken, Busy, Passed
            <4>4. Current(q) => Current(q)'
                BY <1>1 DEF Current
            <4>5. Passed(q) => Current(q) /\ lock[LineOf(child[q].sys)] = q /\ conn[c].back = <<AnFd(child[q].sys)>>
                BY <1>1, <3>9, <4>1 DEF Attempt, UserIs
            <4>6. Passed(q) => m.is = child[q].sys
                BY <4>5 DEF AnFd
            <4> QED
                BY <1>1, <2>3, <2>5, <2>7, <3>6, <3>9, <4>1, <4>3, <4>4, <4>5, <4>6 DEF Attempt, UserIs, HasData, Busy
        <3>10. ASSUME NEW s \in Slots, client[s].fd = c PROVE Entry(s)'
            <4>1. Entry(s) /\ client[s].childdone # 2
                BY <1>1, <2>8, <3>10 DEF Sound, Entry
            <4>2. Own(s)' <=> Own(s)
                BY <1>1 DEF Own
            <4> QED
                BY <1>1, <2>5, <2>7, <3>10, <4>1, <4>2 DEF Entry
        <3> QED
            BY <3>1, <3>2, <3>8, <3>9, <3>10
    <2> QED
        BY <1>1, <2>7, <2>8, UserKeeps DEF UserIs
<1>5. CASE ~m.ok
    <2> DEFINE u == [user[c] EXCEPT !.st = "refused", !.err = m.is]
    <2>1. PICK k \in Conns :
              /\ conn' = [conn EXCEPT ![c] = k]
              /\ k.cli = "closed" /\ k.srv = conn[c].srv /\ k.req = conn[c].req /\ k.back = <<>>
        BY <1>1, <1>5, CliCloses DEF Answer
    <2>2. u \in Callers
        BY <1>2, <1>3 DEF Callers
    <2>3. u.st = "refused" /\ u.want = user[c].want /\ u.got = user[c].got /\ u.err = m.is
        BY <1>2 DEF Callers
    <2>4. user' = [user EXCEPT ![c] = u]
        BY <1>1, <1>2, <1>5 DEF Answer, Types
    <2> HIDE DEF u
    <2>5. /\ Types' /\ user'[c] = u /\ conn'[c] = k
          /\ \A d \in Clients : d # c => conn'[d] = conn[d] /\ user'[d] = user[d]
        BY <1>1, <1>2, <2>1, <2>2, <2>4, UserStep
    <2>6. ASSUME Sound
          PROVE  /\ conn'[c].srv = conn[c].srv /\ (Readable(c) => Readable(c)')
                 /\ Caller(c)' /\ Queue'
                 /\ \A p \in DOMAIN child : child[p].fd = c => Attempt(p)'
                 /\ \A s \in Slots : client[s].fd # c
        <3>1. conn'[c].srv = conn[c].srv /\ (Readable(c) => Readable(c)')
            BY <2>1, <2>5 DEF Readable, HasData, HungUp
        <3>2. Queue'
            BY <1>1, <2>3, <2>5, <2>6, <3>1, QueueFrame DEF Sound, UserIs
        <3>3. Caller(c)
            BY <2>6 DEF Sound
        <3>4. ~LineSent(c)
            <4>1. \A x : conn[c].back = <<AnFd(x)>> => m = AnFd(x)
                OBVIOUS
            <4>2. \A x : AnFd(x).ok
                BY DEF AnFd
            <4> QED
                BY <1>5, <4>1, <4>2 DEF LineSent
        <3>5. ErrorSent(c)
            BY <1>1, <3>3, <3>4 DEF Caller
        <3>6. m.is = "notfound" => NoSystem(user[c].want)
            BY <3>5 DEF ErrorSent, AnErr
        <3>7. (\A s \in Slots : client[s].fd # c) /\ \A p \in DOMAIN child : child[p].fd = c => GaveUp(p)
            BY <3>5 DEF ErrorSent
        <3>8. user[c].got = 0 /\ conn[c].srv # "none"
            BY <1>1, <3>3 DEF Caller, UserIs
        <3>9. Caller(c)'
            BY <1>1, <2>1, <2>3, <2>5, <3>3, <3>6, <3>7, <3>8 DEF Caller, UserIs, CliOpen, HungUp, HasData
        <3>10. ASSUME NEW q \in DOMAIN child, child[q].fd = c PROVE Attempt(q)'
            <4>1. Attempt(q) /\ GaveUp(q)
                BY <2>6, <3>7, <3>10 DEF Sound
            <4>2. ~Dialing(q)' /\ ~Broken(q)' /\ child'[q].st \notin Busy /\ ~Passed(q)'
                BY <1>1, <4>1 DEF Dialing, Broken, Busy, Passed, GaveUp, Exit0, Exit1, Killed
            <4> QED
                BY <1>1, <2>1, <2>3, <2>5, <3>10, <4>1, <4>2 DEF Attempt, UserIs, HasData, Busy
        <3> QED
            BY <3>1, <3>2, <3>7, <3>9, <3>10
    <2> QED
        BY <1>1, <2>5, <2>6, UserKeeps DEF UserIs
<1> QED
    BY <1>4, <1>5


-----------------------------------------------------------------------------
(* The end of the server, and the SIGCHLD handler. *)

\* The server that ends closes its ends.
LEMMA DieConns ==
    ASSUME NEW k \in [Clients -> Conns], Die(k)
    PROVE  /\ conn' \in [Clients -> Conns] /\ backlog' = <<>> /\ spc' = "dead"
           /\ \A d \in Clients : /\ conn'[d].cli = k[d].cli /\ conn'[d].req = k[d].req /\ conn'[d].back = k[d].back
                                 /\ conn'[d].srv = "none" <=> k[d].srv = "none"
                                 /\ k[d].srv = "none" => conn'[d] = k[d]
<1>1. \A d \in Clients : SrvClose(k, d)[d] = [k[d] EXCEPT !.srv = "closed"]
    BY DEF SrvClose
<1>2. \A d \in Clients : [k[d] EXCEPT !.srv = "closed"] \in Conns
    BY DEF Conns, Sides
<1>3. \A d \in Clients : conn'[d] = IF k[d].srv = "open" THEN [k[d] EXCEPT !.srv = "closed"] ELSE k[d]
    BY <1>1 DEF Die
<1>4. conn' = [d \in Clients |-> IF k[d].srv = "open" THEN [k[d] EXCEPT !.srv = "closed"] ELSE k[d]]
    BY <1>1 DEF Die
<1>5. \A d \in Clients : k[d] \in Conns
    OBVIOUS
<1>6. ASSUME NEW d \in Clients
      PROVE  /\ conn'[d].cli = k[d].cli /\ conn'[d].req = k[d].req /\ conn'[d].back = k[d].back
             /\ conn'[d].srv = "none" <=> k[d].srv = "none"
             /\ k[d].srv = "none" => conn'[d] = k[d]
    BY <1>3, <1>5 DEF Conns
<1>7. conn' \in [Clients -> Conns]
    BY <1>2, <1>4, <1>5
<1> QED
    BY <1>6, <1>7 DEF Die

\* The table when the handler has stored the status of child p.
LEMMA StatusStored ==
    ASSUME Types, NEW p \in DOMAIN child, NEW mine, mine = {s \in Slots : client[s].pid = p}, mine # {},
           client' = [client EXCEPT ![Min(mine)].childdone = child[p].status + 1]
    PROVE  /\ client' \in [Slots -> Entries]
           /\ \A s \in Slots :
                 /\ client'[s].fd = client[s].fd /\ client'[s].pid = client[s].pid
                 /\ client'[s].want = client[s].want /\ client'[s].foundone = client[s].foundone
                 /\ \/ client'[s].childdone = client[s].childdone
                    \/ client[s].pid = p /\ client'[s].childdone = child[p].status + 1
<1> DEFINE t == Min(mine)
           e == [client[t] EXCEPT !.childdone = child[p].status + 1]
<1>1. mine \subseteq Nat /\ mine \subseteq Slots
    BY DEF Slots
<1>2. t \in Slots /\ client[t].pid = p
    BY <1>1, MinOf
<1>3. client[t] \in Entries /\ child[p].status + 1 \in Nat
    BY <1>2, ChildType, EntryType DEF Exit0, Exit1, Killed
<1>4. e \in Entries /\ e.fd = client[t].fd /\ e.pid = client[t].pid /\ e.want = client[t].want
      /\ e.foundone = client[t].foundone /\ e.childdone = child[p].status + 1
    BY <1>3 DEF Entries
<1>5. client' = [client EXCEPT ![t] = e]
    OBVIOUS
<1> HIDE DEF e, t
<1>6. client' \in [Slots -> Entries] /\ client'[t] = e /\ \A s \in Slots : s # t => client'[s] = client[s]
    <2>1. client \in [Slots -> Entries]
        BY DEF Types
    <2> QED
        BY <1>2, <1>4, <1>5, <2>1
<1> QED
    <2> SUFFICES ASSUME NEW s \in Slots
                 PROVE  /\ client'[s].fd = client[s].fd /\ client'[s].pid = client[s].pid
                        /\ client'[s].want = client[s].want /\ client'[s].foundone = client[s].foundone
                        /\ \/ client'[s].childdone = client[s].childdone
                           \/ client[s].pid = p /\ client'[s].childdone = child[p].status + 1
        BY <1>6
    <2>1. CASE s = t
        BY <1>2, <1>4, <1>6, <2>1
    <2>2. CASE s # t
        BY <1>6, <2>2
    <2> QED
        BY <2>1, <2>2

\* The status goes to the entry of the child's own client if the child has failed:
\* such a child is current.
LEMMA SigChldKeeps == ASSUME CalldInv, SigChld PROVE CalldInv'
<1>1. PICK p \in DOMAIN child :
          /\ child[p].st = "zombie"
          /\ child' = [child EXCEPT ![p].st = "reaped"]
          /\ \/ child[p].status # Killed /\ ClientSigchld(p)
             \/ /\ child[p].status = Killed /\ spc' = (IF spc = "select" THEN "eintr" ELSE spc)
                /\ UNCHANGED <<client, streams>>
    BY DEF SigChld
<1>2. Types /\ child \in Seq(Children) /\ UNCHANGED <<at, walk, back, rset, lock, user>> /\ spc # "dead"
    BY DEF CalldInv, Types, SigChld
<1> DEFINE e == [child[p] EXCEPT !.st = "reaped"]
<1>3. e \in Children /\ child' = [child EXCEPT ![p] = e]
    BY <1>1, <1>2, ChildStates DEF Exit0
<1>4. e.st = "reaped" /\ e.fd = child[p].fd /\ e.sys = child[p].sys /\ e.status = child[p].status
    BY <1>2 DEF Children
<1>5. /\ child' \in Seq(Children) /\ DOMAIN child' = DOMAIN child /\ Len(child') = Len(child)
      /\ child'[p] = e /\ \A q \in DOMAIN child : q # p => child'[q] = child[q]
    BY <1>2, <1>3, <1>4, ChildStep
<1> HIDE DEF e
<1>6. /\ client' \in [Slots -> Entries]
      /\ \A s \in Slots :
            /\ client'[s].fd = client[s].fd /\ client'[s].pid = client[s].pid
            /\ client'[s].want = client[s].want /\ client'[s].foundone = client[s].foundone
            /\ \/ client'[s].childdone = client[s].childdone
               \/ /\ client[s].pid = p /\ client'[s].childdone = child[p].status + 1
                  /\ child[p].status # Killed
    <2>1. CASE client' = client
        BY <1>2, <2>1 DEF Types
    <2>2. CASE /\ {s \in Slots : client[s].pid = p} # {} /\ child[p].status # Killed
               /\ client' = [client EXCEPT ![Min({s \in Slots : client[s].pid = p})].childdone
                                             = child[p].status + 1]
        BY <1>2, <2>2, StatusStored
    <2> QED
        BY <1>1, <2>1, <2>2 DEF ClientSigchld
<1>7. /\ conn' \in [Clients -> Conns]
      /\ \A d \in Clients : /\ conn'[d].cli = conn[d].cli /\ conn'[d].req = conn[d].req
                            /\ conn'[d].back = conn[d].back
                            /\ conn'[d].srv = "none" <=> conn[d].srv = "none"
                            /\ conn[d].srv = "none" => conn'[d] = conn[d]
      /\ \/ backlog' = backlog /\ spc' \in {"eintr", spc}
         \/ backlog' = <<>> /\ spc' = "dead"
    <2>1. CASE Die(conn)
        BY <1>2, <2>1, DieConns DEF Types
    <2>2. CASE spc' = (IF spc = "select" THEN "eintr" ELSE spc) /\ UNCHANGED streams
        BY <1>2, <2>2 DEF Types, streams
    <2> QED
        BY <1>1, <2>1, <2>2 DEF ClientSigchld
<1>8. Types'
    <2>1. spc' \in {"top", "tested", "select", "eintr", "scan", "setlock", "tell", "cd", "dead"}
        BY <1>2, <1>7 DEF Types
    <2>2. backlog' \in Seq(Clients)
        <3>1. backlog \in Seq(Clients) /\ <<>> \in Seq(Clients) /\ (backlog' = backlog \/ backlog' = <<>>)
            BY <1>2, <1>7 DEF Types
        <3> QED
            BY <3>1
    <2> QED
        BY <1>2, <1>5, <1>6, <1>7, <2>1, <2>2 DEF Types
<1>9. Grow
    BY <1>1, <1>4, <1>5 DEF Grow, Passed, GaveUp
<1> SUFFICES ASSUME NoneLeftDialing' PROVE Sound'
    BY <1>8 DEF CalldInv
<1>10. NoneLeftDialing /\ Sound
    BY <1>2, <1>5, <1>9 DEF CalldInv, NoneLeftDialing, UserIs, Grow
<1>11. \A d \in Clients : Kept(d)
    <2> TAKE d \in Clients
    <2>1. UserIs(d, "start") => conn[d].srv = "none"
        BY <1>10 DEF Sound, Caller, NewConn
    <2> QED
        BY <1>2, <1>7, <2>1 DEF Kept
<1>12. \A d \in Clients : Caller(d)'
    BY <1>2, <1>5, <1>6, <1>9, <1>10, <1>11, CallerFrame DEF Sound
<1>13. \A q \in DOMAIN child : Current(q) => Current(q)'
    BY <1>6, <1>9 DEF Current, Grow
<1>14. ASSUME NEW q \in DOMAIN child PROVE Attempt(q)'
    <2>1. Attempt(q) /\ child[q].fd \in Clients
        BY <1>2, <1>10, ChildType DEF Sound
    <2>2. CASE q # p
        BY <1>2, <1>5, <1>11, <1>13, <2>1, <2>2, AttemptFrame
    <2>3. CASE q = p
        <3>1. ~Dialing(p)' /\ child'[p].st \notin Busy
            BY <1>4, <1>5 DEF Dialing, Busy
        <3>2. (Passed(p)' <=> Passed(p)) /\ (Broken(p)' => Broken(p))
            BY <1>1, <1>4, <1>5 DEF Passed, Broken, Killed, Exit0
        <3>3. user' = user /\ conn'[child[p].fd].back = conn[child[p].fd].back
              /\ conn'[child[p].fd].req = conn[child[p].fd].req /\ lock' = lock
            BY <1>2, <1>7, <2>1, <2>3
        <3> QED
            BY <1>4, <1>5, <1>13, <2>1, <2>3, <3>1, <3>2, <3>3 DEF Attempt, UserIs, HasData, Busy
    <2> QED
        BY <2>2, <2>3
<1>15. \A s \in Slots : Own(s)' <=> Own(s)
    <2> TAKE s \in Slots
    <2>1. client[s].pid # 0 => client[s].pid \in DOMAIN child
        BY <1>2, <1>10 DEF Types, Entries, Sound, Table
    <2> QED
        BY <1>6, <1>9, <2>1 DEF Own, Grow
<1>16. ASSUME NEW s \in Slots PROVE Entry(s)'
    <2>1. Entry(s) /\ client[s] \in Entries
        BY <1>2, <1>10 DEF Sound, Types
    <2>2. client[s].pid # 0 => client[s].pid \in DOMAIN child /\ child[client[s].pid].fd \in Clients
        <3>1. client[s].pid \in Nat /\ client[s].pid <= Len(child) /\ child \in Seq(Children)
            BY <1>2, <1>10, EntryType DEF Sound, Table, Types
        <3> QED
            BY <1>2, <3>1, ChildType
    <2>3. Own(s)' => client'[s].want = user'[client'[s].fd].want /\ client'[s].foundone
        BY <1>2, <1>6, <1>15, <2>1 DEF Entry
    <2>4. CASE client'[s].childdone = client[s].childdone
        <3>1. Own(s) => client[s].fd \in Clients /\ client[s].pid \in DOMAIN child
            BY <2>2 DEF Own
        <3> QED
            BY <1>2, <1>6, <1>7, <1>9, <1>15, <2>1, <2>3, <2>4, <3>1 DEF Entry, Grow
    <2>5. CASE /\ client[s].pid = p /\ client'[s].childdone = child[p].status + 1 /\ child[p].status # Killed
        <3>1. CASE child[p].status = Exit0
            BY <2>3, <2>5, <3>1 DEF Entry, Exit0
        <3>2. CASE child[p].status = Exit1
            <4>1. Broken(p) /\ GaveUp(p)'
                BY <1>1, <1>4, <1>5, <3>2 DEF Broken, GaveUp, Exit0, Exit1
            <4>2. /\ user[child[p].fd].st \in {"waiting", "failed"} /\ conn[child[p].fd].back = <<>>
                  /\ Current(p)
                BY <1>10, <4>1 DEF Sound, Attempt
            <4>3. p # 0
                BY <1>2
            <4>4. Own(s)
                BY <1>10, <2>5, <4>2, <4>3 DEF Sound, Table, Current, Own
            <4>5. client[s].fd = child[p].fd /\ child[p].fd \in Clients
                BY <2>2, <2>5, <4>3, <4>4 DEF Own
            <4> QED
                BY <1>2, <1>6, <1>7, <1>15, <2>3, <2>5, <4>1, <4>2, <4>4, <4>5 DEF Entry
        <3> QED
            BY <1>2, <2>5, <3>1, <3>2, ChildType
    <2> QED
        BY <1>6, <2>4, <2>5
<1>17. Table'
    <2>1. \A s \in Slots : client[s].fd \in Clients \cup {NoFd}
        BY <1>2 DEF Types, Entries
    <2> QED
        BY <1>5, <1>6, <1>7, <1>10, <2>1 DEF Sound, Table
<1>18. Queue'
    <2>1. \A i \in DOMAIN backlog : backlog[i] \in Clients
        BY <1>2 DEF Types
    <2> QED
        BY <1>2, <1>7, <1>10, <2>1 DEF Sound, Queue, UserIs
<1>19. Reported'
    <2>1. \A s \in Slots : client[s].fd \in Clients \cup {NoFd}
        BY <1>2 DEF Types, Entries
    <2>2. \A s \in Slots : client'[s].fd # NoFd => (Readable(client[s].fd) => Readable(client[s].fd)')
        BY <1>6, <1>7, <2>1 DEF Readable, HasData, HungUp
    <2>3. rset \subseteq Slots
        BY <1>2 DEF Types
    <2> QED
        BY <1>2, <1>6, <1>7, <1>10, <2>2, <2>3 DEF Sound, Reported
<1>20. Locks'
    <2>1. child # <<>> => Len(child) \in DOMAIN child
        BY <1>2
    <2>2. spc \in {"setlock", "tell"} => child'[Len(child)] = child[Len(child)] /\ child' # <<>>
        BY <1>1, <1>5, <1>10, <2>1 DEF Sound, Locks
    <2>3. \A l \in Lines : lock'[l] # 0 => \E s \in Slots : Own(s)' /\ client'[s].pid = lock'[l]
        BY <1>2, <1>6, <1>10, <1>15 DEF Sound, Locks
    <2> QED
        BY <1>2, <1>5, <1>7, <1>10, <2>2, <2>3 DEF Sound, Locks
<1> QED
    BY <1>5, <1>10, <1>12, <1>14, <1>16, <1>17, <1>18, <1>19, <1>20 DEF Sound

-----------------------------------------------------------------------------
(* The steps that change one entry of the table, or one lock. *)

\* An entry of the table that becomes e.
LEMMA EntrySet ==
    ASSUME Types, NEW s \in Slots, NEW e \in Entries, client' = [client EXCEPT ![s] = e]
    PROVE  /\ client' \in [Slots -> Entries] /\ client'[s] = e
           /\ \A t \in Slots : t # s => client'[t] = client[t]
BY DEF Types

\* There are as many entries as clients, so one is free for a client that is not in
\* the table.
LEMMA SlotFree ==
    ASSUME Types, Table, NEW c \in Clients, conn[c].srv = "none"
    PROVE  LET t == Min({s \in Slots : client[s].fd = NoFd}) IN t \in Slots /\ client[t].fd = NoFd
<1> DEFINE free == {s \in Slots : client[s].fd = NoFd}
           fdOf == [s \in Slots |-> client[s].fd]
<1>1. Cardinality(Clients) \in Nat
    BY FS_CardinalityType, ParamAssumption
<1>2. IsFiniteSet(Slots) /\ Cardinality(Slots) = Cardinality(Clients)
    BY <1>1, FS_Interval DEF Slots
<1>3. ASSUME free = {} PROVE FALSE
    <2>1. \A s \in Slots : fdOf[s] = client[s].fd /\ fdOf[s] \in Clients
        BY <1>3, EntryType
    <2>2. fdOf \in [Slots -> Clients]
        BY <2>1
    <2>3. \A s, t \in Slots : fdOf[s] = fdOf[t] => s = t
        BY <2>1, ParamAssumption DEF Table
    <2> HIDE DEF fdOf
    <2>4. fdOf \in Injection(Slots, Clients)
        BY <2>2, <2>3 DEF Injection, IsInjective
    <2>5. fdOf \in Surjection(Slots, Clients)
        BY <1>2, <2>4, FS_Injection, ParamAssumption
    <2>6. PICK s \in Slots : fdOf[s] = c
        BY <2>5 DEF Surjection
    <2> QED
        BY <2>1, <2>6, ParamAssumption DEF Table
<1>4. free \in SUBSET Nat
    BY DEF Slots
<1>5. Min(free) \in free
    BY <1>3, <1>4, MinOf
<1> QED
    BY <1>5

\* The client at the head of the queue has no child and is in no entry yet.
LEMMA AcceptKeeps == ASSUME CalldInv, Accept PROVE CalldInv'
<1>1. PICK t : t = Min({s \in Slots : client[s].fd = NoFd})
    OBVIOUS
<1>2. PICK c \in Clients :
          /\ backlog # <<>> /\ c = Head(backlog) /\ conn' = [conn EXCEPT ![c].srv = "open"]
          /\ backlog' = Tail(backlog) /\ client' = [client EXCEPT ![t].fd = c]
    BY <1>1 DEF Accept, ServAccept, ClientAdd
<1>3. Types /\ spc = "select" /\ spc' = "top" /\ UNCHANGED <<at, walk, back, rset, lock, child, user>>
    BY DEF CalldInv, Accept
<1>4. conn' \in [Clients -> Conns] /\ (\A d \in Clients : d # c => conn'[d] = conn[d])
      /\ conn'[c].srv = "open" /\ conn'[c].cli = conn[c].cli /\ conn'[c].req = conn[c].req
      /\ conn'[c].back = conn[c].back
    <2>1. conn[c] \in Conns /\ "open" \in Sides
        BY <1>3 DEF Types, Sides
    <2>2. [conn[c] EXCEPT !.srv = "open"] \in Conns
        BY <2>1 DEF Conns
    <2>3. conn' = [conn EXCEPT ![c] = [conn[c] EXCEPT !.srv = "open"]]
        BY <1>2, <2>1 DEF Conns
    <2> QED
        BY <1>3, <2>1, <2>2, <2>3 DEF Types, Conns
<1>5. client' \in [Slots -> Entries]
    <2>1. \A s \in Slots : [client[s] EXCEPT !.fd = c] \in Entries
        <3> TAKE s \in Slots
        <3>1. client[s] \in Entries
            BY <1>3 DEF Types
        <3> QED
            BY <3>1 DEF Entries
    <2>2. client' = [client EXCEPT ![t] = [client[t] EXCEPT !.fd = c]]
        BY <1>2
    <2> QED
        BY <1>3, <2>1, <2>2 DEF Types
<1>6. backlog \in Seq(Clients) /\ backlog' \in Seq(Clients)
    BY <1>2, <1>3 DEF Types
<1>7. Types'
    BY <1>3, <1>4, <1>5, <1>6 DEF Types
<1> SUFFICES ASSUME NoneLeftDialing' PROVE Sound'
    BY <1>7 DEF CalldInv
<1>8. Grow
    BY <1>3 DEF Grow, Passed, GaveUp
<1>9. NoneLeftDialing /\ Sound
    BY <1>3 DEF CalldInv, NoneLeftDialing, UserIs
<1>10. conn[c].srv = "none" /\ ~UserIs(c, "start") /\ 1 \in DOMAIN backlog /\ backlog[1] = c
    <2>1. 1 \in DOMAIN backlog /\ backlog[1] = c
        BY <1>2, <1>6
    <2> QED
        BY <1>9, <2>1 DEF Sound, Queue
<1>11. /\ conn[c].back = <<>> /\ ~UserIs(c, "refused") /\ \A p \in DOMAIN child : child[p].fd # c
       /\ \A s \in Slots : client[s].fd # c
    BY <1>9, <1>10, ParamAssumption DEF Sound, Caller, Table
<1>12. t \in Slots /\ client[t].fd = NoFd
    BY <1>1, <1>3, <1>9, <1>10, SlotFree DEF Sound
<1> DEFINE e == [client[t] EXCEPT !.fd = c]
<1>13. /\ e \in Entries /\ e.fd = c /\ e.pid = client[t].pid /\ e.childdone = client[t].childdone
       /\ e.want = client[t].want /\ e.foundone = client[t].foundone
    <2>1. client[t] \in Entries
        BY <1>3, <1>12 DEF Types
    <2> QED
        BY <2>1 DEF Entries
<1>14. client' = [client EXCEPT ![t] = e]
    BY <1>2
<1> HIDE DEF e
<1>15. client'[t] = e /\ \A s \in Slots : s # t => client'[s] = client[s]
    BY <1>3, <1>12, <1>13, <1>14, EntrySet
<1>16. \A d \in Clients : Kept(d)
    BY <1>3, <1>4, <1>10 DEF Kept
<1>17. ~Own(t) /\ ~Own(t)' /\ \A s \in Slots : s # t => (Own(s)' <=> Own(s))
    <2>1. client[t].pid # 0 => client[t].pid \in DOMAIN child /\ child[client[t].pid].fd \in Clients
        <3>1. client[t].pid \in Nat /\ client[t].pid <= Len(child) /\ child \in Seq(Children)
            BY <1>3, <1>9, <1>12, EntryType DEF Sound, Table, Types
        <3> QED
            BY <1>3, <3>1, ChildType
    <2> QED
        BY <1>3, <1>11, <1>12, <1>13, <1>15, <2>1, ParamAssumption DEF Own
<1>18. \A d \in Clients : Caller(d)'
    <2>1. \A s \in Slots : \A d \in Clients : client'[s].fd = d =>
              client[s].fd = d \/ (conn[d].back = <<>> /\ ~UserIs(d, "refused"))
        BY <1>11, <1>13, <1>15
    <2> QED
        BY <1>3, <1>8, <1>9, <1>16, <2>1, CallerFrame DEF Sound
<1>19. ASSUME NEW p \in DOMAIN child PROVE Attempt(p)'
    <2>1. child[p].fd \in Clients /\ Attempt(p)
        BY <1>3, <1>9, ChildType DEF Sound
    <2>2. Current(p) => Current(p)'
        <3>1. ASSUME NEW s \in Slots, client[s].pid = p, client[s].fd = child[p].fd PROVE Current(p)'
            <4>1. s # t
                BY <1>12, <2>1, <3>1, ParamAssumption
            <4> QED
                BY <1>3, <1>15, <3>1, <4>1 DEF Current
        <3> QED
            BY <3>1 DEF Current
    <2> QED
        BY <1>3, <1>16, <2>1, <2>2, AttemptFrame
<1>20. ASSUME NEW s \in Slots PROVE Entry(s)'
    <2>1. CASE s # t
        <3>1. client[s].fd \in Clients => Kept(client[s].fd)
            BY <1>16
        <3> QED
            BY <1>3, <1>8, <1>9, <1>15, <2>1, <3>1, EntryFrame DEF Sound
    <2>2. CASE s = t
        BY <1>9, <1>12, <1>13, <1>15, <1>17, <2>2 DEF Sound, Entry
    <2> QED
        BY <2>1, <2>2
<1>21. Table'
    <2>1. \A s \in Slots : client'[s].pid = client[s].pid
        BY <1>13, <1>15
    <2>2. \A s \in Slots : client'[s].fd # NoFd => conn'[client'[s].fd].srv # "none"
        <3> TAKE s \in Slots
        <3>1. CASE s = t
            BY <1>4, <1>13, <1>15, <3>1
        <3>2. CASE s # t
            <4>1. client[s].fd # NoFd => client[s].fd \in Clients /\ client[s].fd # c
                BY <1>3, <1>11, EntryType
            <4> QED
                BY <1>4, <1>9, <1>15, <3>2, <4>1 DEF Sound, Table
        <3> QED
            BY <3>1, <3>2
    <2>3. \A s, r \in Slots : client'[s].fd = client'[r].fd /\ client'[s].fd # NoFd => s = r
        BY <1>9, <1>11, <1>13, <1>15 DEF Sound, Table
    <2> QED
        BY <1>3, <1>9, <2>1, <2>2, <2>3 DEF Sound, Table
<1>22. Queue'
    <2>1. \A i \in DOMAIN backlog' : i + 1 \in DOMAIN backlog /\ backlog'[i] = backlog[i + 1] /\ backlog[i + 1] \in Clients
        BY <1>2, <1>6
    <2>2. \A i \in DOMAIN backlog' : i \in Nat /\ i # 0
        BY <1>6
    <2>3. \A i \in DOMAIN backlog' : backlog'[i] # c
        BY <1>9, <1>10, <2>1, <2>2 DEF Sound, Queue
    <2>4. \A i \in DOMAIN backlog' : conn'[backlog'[i]].srv = "none" /\ user'[backlog'[i]].st # "start"
        BY <1>3, <1>4, <1>9, <2>1, <2>3 DEF Sound, Queue, UserIs
    <2>5. \A i, j \in DOMAIN backlog' : backlog'[i] = backlog'[j] => i = j
        BY <1>9, <2>1, <2>2 DEF Sound, Queue
    <2> QED
        BY <2>4, <2>5 DEF Queue, UserIs
<1>23. Reported' /\ Locks'
    <2>1. Reported'
        BY <1>3 DEF Reported
    <2>2. \A l \in Lines : lock'[l] # 0 => \E s \in Slots : Own(s)' /\ client'[s].pid = lock'[l]
        BY <1>3, <1>9, <1>15, <1>17 DEF Sound, Locks
    <2> QED
        BY <1>3, <2>1, <2>2 DEF Locks
<1> QED
    BY <1>3, <1>18, <1>19, <1>20, <1>21, <1>22, <1>23 DEF Sound

\* The lock goes to a child whose client is in the table, and is nobody else's.
LEMMA SetLockKeeps == ASSUME CalldInv, SetLock PROVE CalldInv'
<1>1. PICK n : n = Len(child)
    OBVIOUS
<1>2. PICK L : L = LineOf(child[n].sys)
    OBVIOUS
<1>3. /\ Types /\ spc = "setlock" /\ spc' = "tell" /\ lock' = [lock EXCEPT ![L] = n]
      /\ UNCHANGED <<at, walk, back, rset, client, child, user, conn, backlog>>
    BY <1>1, <1>2 DEF CalldInv, SetLock, streams
<1>4. n \in Nat
    BY <1>1, <1>3 DEF Types
<1>5. Types'
    BY <1>3, <1>4 DEF Types
<1> SUFFICES ASSUME NoneLeftDialing' PROVE Sound'
    BY <1>5 DEF CalldInv
<1>6. Grow
    BY <1>3 DEF Grow, Passed, GaveUp
<1>7. NoneLeftDialing /\ Sound
    BY <1>3 DEF CalldInv, NoneLeftDialing, UserIs
<1>8. n \in DOMAIN child /\ child # <<>> /\ child[n].st = "waiting" /\ lock[L] = 0
    <2>1. child \in Seq(Children)
        BY <1>3 DEF Types
    <2> QED
        BY <1>1, <1>2, <1>3, <1>7, <2>1 DEF Sound, Locks
<1>9. Current(n) /\ L \in Lines /\ n # 0
    <2>1. Attempt(n)
        BY <1>7, <1>8 DEF Sound
    <2>2. child \in Seq(Children)
        BY <1>3 DEF Types
    <2> QED
        BY <1>2, <1>8, <2>1, <2>2, LineKnown DEF Attempt, Dialing
<1>10. lock'[L] = n /\ \A l \in Lines : l # L => lock'[l] = lock[l]
    BY <1>3, <1>9 DEF Types
<1>11. \A d \in Clients : Kept(d)
    BY <1>3 DEF Kept
<1>12. \A d \in Clients : Caller(d)'
    BY <1>3, <1>6, <1>7, <1>11, CallerFrame DEF Sound
<1>13. ASSUME NEW p \in DOMAIN child PROVE Attempt(p)'
    <2>1. child[p].fd \in Clients /\ Attempt(p) /\ p # 0
        BY <1>3, <1>7, ChildType DEF Sound, Types
    <2>2. Current(p) => Current(p)'
        BY <1>3 DEF Current
    <2>3. LineOf(child[p].sys) \in Lines
        BY <2>1, LineKnown DEF Attempt
    <2>4. lock[LineOf(child[p].sys)] = p => lock'[LineOf(child[p].sys)] = p
        BY <1>8, <1>10, <2>1, <2>3
    <2> QED
        BY <1>3, <1>11, <2>1, <2>2, <2>4, AttemptFrame
<1>14. \A s \in Slots : Entry(s)' /\ (Own(s)' <=> Own(s))
    BY <1>3, <1>6, <1>7, <1>11, EntryFrame DEF Sound
<1>15. Table' /\ Queue' /\ Reported'
    <2>1. Table' /\ Queue'
        BY <1>3, <1>7 DEF Sound, Table, Queue, UserIs
    <2>2. Reported'
        BY <1>3, <1>7 DEF Sound, Reported, Readable, HasData, HungUp
    <2> QED
        BY <2>1, <2>2
<1>16. Locks'
    <2>1. PICK s \in Slots : client[s].pid = n /\ client[s].fd = child[n].fd
        BY <1>9 DEF Current
    <2>2. Own(s)' /\ client'[s].pid = n
        BY <1>3, <1>9, <2>1 DEF Own
    <2>3. \A l \in Lines : lock'[l] # 0 => \E t \in Slots : Own(t)' /\ client'[t].pid = lock'[l]
        BY <1>3, <1>7, <1>10, <1>14, <2>2 DEF Sound, Locks
    <2> QED
        BY <1>1, <1>2, <1>3, <1>8, <1>10, <2>3 DEF Locks
<1> QED
    BY <1>3, <1>7, <1>12, <1>13, <1>14, <1>15, <1>16 DEF Sound

\* The child may go on: its line is locked for it.
LEMMA TellChildKeeps == ASSUME CalldInv, TellChild PROVE CalldInv'
<1>1. PICK n : n = Len(child)
    OBVIOUS
<1>2. /\ Types /\ spc = "tell" /\ spc' = walk /\ at' = at + 1 /\ child' = [child EXCEPT ![n].st = "open"]
      /\ UNCHANGED <<walk, back, rset, client, lock, user, conn, backlog>>
    BY <1>1 DEF CalldInv, TellChild, streams
<1>3. child \in Seq(Children) /\ n \in Nat
    BY <1>1, <1>2 DEF Types
<1>4. child' \in Seq(Children)
    <2>1. child \in [1 .. n -> Children]
        BY <1>1, <1>3
    <2>2. \A p \in 1 .. n : [child[p] EXCEPT !.st = "open"] \in Children
        <3> TAKE p \in 1 .. n
        <3>1. child[p] \in Children
            BY <2>1
        <3> QED
            BY <3>1 DEF Children
    <2>3. child' = [child EXCEPT ![n] = [child[n] EXCEPT !.st = "open"]]
        BY <1>2
    <2>4. child' \in [1 .. n -> Children]
        BY <2>1, <2>2, <2>3
    <2> QED
        BY <1>3, <2>4
<1>5. Types'
    BY <1>2, <1>4 DEF Types
<1>6. (\A p \in DOMAIN child : child'[p].fd = child[p].fd) /\ DOMAIN child' = DOMAIN child
    <2> SUFFICES ASSUME NEW p \in DOMAIN child PROVE child'[p].fd = child[p].fd /\ DOMAIN child' = DOMAIN child
        BY <1>2
    <2>1. child[p] \in Children
        BY <1>3
    <2> QED
        BY <1>2, <2>1 DEF Children
<1> SUFFICES ASSUME NoneLeftDialing' PROVE Sound'
    BY <1>5 DEF CalldInv
<1>7. NoneLeftDialing /\ Sound
    BY <1>2, <1>6 DEF CalldInv, NoneLeftDialing, UserIs
<1>8. n \in DOMAIN child /\ child # <<>> /\ child[n].st = "waiting" /\ lock[LineOf(child[n].sys)] = n
    BY <1>1, <1>2, <1>3, <1>7 DEF Sound, Locks
<1>9. PICK e \in Children :
          /\ child' = [child EXCEPT ![n] = e]
          /\ e.st = "open" /\ e.fd = child[n].fd /\ e.sys = child[n].sys
    <2> DEFINE e == [child[n] EXCEPT !.st = "open"]
    <2>1. child[n] \in Children
        BY <1>3, <1>8
    <2>2. e \in Children /\ e.st = "open" /\ e.fd = child[n].fd /\ e.sys = child[n].sys
        BY <2>1 DEF Children
    <2>3. child' = [child EXCEPT ![n] = e]
        BY <1>2, <1>3, <1>8, ChildStates DEF Exit0
    <2> QED
        BY <2>2, <2>3
<1>10. child'[n] = e /\ Len(child') = Len(child) /\ \A p \in DOMAIN child : p # n => child'[p] = child[p]
    BY <1>3, <1>8, <1>9
<1>11. Grow
    BY <1>6, <1>8, <1>9, <1>10 DEF Grow, Passed, GaveUp
<1>12. \A d \in Clients : Kept(d)
    BY <1>2 DEF Kept
<1>13. \A d \in Clients : Caller(d)'
    BY <1>2, <1>6, <1>7, <1>11, <1>12, CallerFrame DEF Sound
<1>14. \A p \in DOMAIN child : Current(p) => Current(p)'
    BY <1>2, <1>6 DEF Current
<1>15. ASSUME NEW p \in DOMAIN child PROVE Attempt(p)'
    <2>1. child[p].fd \in Clients /\ Attempt(p)
        BY <1>2, <1>7, ChildType DEF Sound
    <2>2. CASE p # n
        BY <1>2, <1>10, <1>12, <1>14, <2>1, <2>2, AttemptFrame
    <2>3. CASE p = n
        <3>1. ~Broken(n)' /\ ~Passed(n)'
            BY <1>9, <1>10 DEF Broken, Passed
        <3>2. UserIs(child[n].fd, "waiting") /\ conn[child[n].fd].back = <<>> /\ Current(n)'
            BY <1>8, <1>14, <2>1, <2>3 DEF Attempt, Dialing
        <3> QED
            BY <1>2, <1>8, <1>9, <1>10, <2>1, <2>3, <3>1, <3>2 DEF Attempt, UserIs, HasData
    <2> QED
        BY <2>2, <2>3
<1>16. \A s \in Slots : Entry(s)' /\ (Own(s)' <=> Own(s))
    BY <1>2, <1>7, <1>11, <1>12, EntryFrame DEF Sound
<1>17. Table' /\ Queue'
    BY <1>2, <1>7, <1>10 DEF Sound, Table, Queue, UserIs
<1>18. Reported'
    <2>1. at \in Nat /\ rset \subseteq Nat
        BY <1>2 DEF Types, Slots
    <2> QED
        BY <1>2, <1>7, <2>1 DEF Sound, Reported, Readable, HasData, HungUp, Types
<1>19. Locks'
    BY <1>2, <1>7, <1>16 DEF Sound, Locks, Types
<1> QED
    BY <1>6, <1>7, <1>13, <1>15, <1>16, <1>17, <1>18, <1>19 DEF Sound

\* child_done passes an entry without news of a failure.
LEMMA CdNextKeeps == ASSUME CalldInv, CdNext PROVE CalldInv'
<1>1. /\ Types /\ spc = "cd" /\ at \in Slots /\ at' = at + 1
      /\ UNCHANGED <<spc, walk, back, rset, lock, child, user, conn, backlog>>
    BY DEF CalldInv, CdNext, streams
<1>2. /\ client' \in [Slots -> Entries]
      /\ \A s \in Slots : /\ client'[s].fd = client[s].fd /\ client'[s].pid = client[s].pid
                          /\ client'[s].want = client[s].want /\ client'[s].foundone = client[s].foundone
                          /\ client'[s].childdone \in {client[s].childdone, 0}
    <2>1. CASE client' = client
        BY <1>1, <2>1 DEF Types
    <2>2. CASE client' = [client EXCEPT ![at].childdone = 0]
        <3> DEFINE e == [client[at] EXCEPT !.childdone = 0]
        <3>1. client[at] \in Entries
            BY <1>1 DEF Types
        <3>2. /\ e \in Entries /\ e.fd = client[at].fd /\ e.pid = client[at].pid /\ e.want = client[at].want
              /\ e.foundone = client[at].foundone /\ e.childdone = 0
            BY <3>1 DEF Entries
        <3>3. client' = [client EXCEPT ![at] = e]
            BY <2>2
        <3> HIDE DEF e
        <3>4. /\ client' \in [Slots -> Entries] /\ client'[at] = e
              /\ \A s \in Slots : s # at => client'[s] = client[s]
            BY <1>1, <3>2, <3>3, EntrySet
        <3> QED
            BY <1>1, <3>2, <3>4
    <2> QED
        BY <2>1, <2>2 DEF CdNext
<1>3. Types'
    BY <1>1, <1>2 DEF Types, Slots
<1> SUFFICES ASSUME NoneLeftDialing' PROVE Sound'
    BY <1>3 DEF CalldInv
<1>4. Grow
    BY <1>1 DEF Grow, Passed, GaveUp
<1>5. NoneLeftDialing /\ Sound
    BY <1>1 DEF CalldInv, NoneLeftDialing, UserIs
<1>6. \A d \in Clients : Kept(d)
    BY <1>1 DEF Kept
<1>7. \A d \in Clients : Caller(d)'
    BY <1>1, <1>2, <1>4, <1>5, <1>6, CallerFrame DEF Sound
<1>8. ASSUME NEW p \in DOMAIN child PROVE Attempt(p)'
    <2>1. child[p].fd \in Clients /\ Attempt(p)
        BY <1>1, <1>5, ChildType DEF Sound
    <2>2. Current(p) => Current(p)'
        BY <1>1, <1>2 DEF Current
    <2> QED
        BY <1>1, <1>6, <2>1, <2>2, AttemptFrame
<1>9. \A s \in Slots : Own(s)' <=> Own(s)
    BY <1>1, <1>2 DEF Own
<1>10. \A s \in Slots : Entry(s)'
    BY <1>1, <1>2, <1>5, <1>9 DEF Sound, Entry, GaveUp
<1>11. Table' /\ Queue'
    BY <1>1, <1>2, <1>5 DEF Sound, Table, Queue, UserIs
<1>12. Reported' /\ Locks'
    BY <1>1, <1>2, <1>5, <1>9 DEF Sound, Reported, Locks
<1> QED
    BY <1>1, <1>5, <1>7, <1>8, <1>10, <1>11, <1>12 DEF Sound

-----------------------------------------------------------------------------
(* request, and the end of a client. *)

\* The server is done with the attempts of the client of entry s, or has begun
\* another: the other clients, entries and locks stay.
Others(s) ==
    /\ \A p \in DOMAIN child : p \in DOMAIN child' /\ child'[p] = child[p]
    /\ \A d \in Clients : d # client[s].fd => Kept(d)
    /\ \A t \in Slots : t # s => client'[t] = client[t]
    /\ \A p \in DOMAIN child : child[p].fd = client[s].fd => ~Needs(p)
    /\ \A l \in Lines : /\ lock'[l] # 0 => lock'[l] = lock[l] /\ lock[l] # client[s].pid
                        /\ lock[l] # client[s].pid => lock'[l] = lock[l]

\* The invariant's parts about all other clients, children and entries, when a step is about entry s.
LEMMA OthersKeep ==
    ASSUME Types, Sound, NEW s \in Slots, client[s].fd \in Clients, Others(s)
    PROVE  /\ Grow
           /\ \A p \in DOMAIN child : child[p].fd # client[s].fd => Attempt(p)'
           /\ \A t \in Slots : t # s => Entry(t)' /\ (Own(t)' <=> Own(t)) /\ client[t].fd # client[s].fd
           /\ \A l \in Lines : lock'[l] # 0 => \E t \in Slots : Own(t)' /\ client'[t].pid = lock'[l]
<1>1. Grow
    BY DEF Others, Grow, Passed, GaveUp
<1>2. \A t \in Slots : t # s => client[t].fd # client[s].fd
    BY ParamAssumption DEF Sound, Table
<1>3. ASSUME NEW p \in DOMAIN child, child[p].fd # client[s].fd PROVE Attempt(p)'
    <2>1. child[p].fd \in Clients /\ Attempt(p) /\ p # 0
        BY ChildType DEF Sound, Types
    <2>2. Current(p) => Current(p)' /\ client[s].pid # p
        <3>1. ASSUME NEW t \in Slots, client[t].pid = p, client[t].fd = child[p].fd
              PROVE  Current(p)' /\ client[s].pid # p
            <4>1. t # s
                BY <1>3, <3>1
            <4>2. client'[t] = client[t] /\ child'[p] = child[p]
                BY <4>1 DEF Others
            <4>3. client[s].pid # p
                BY <2>1, <3>1, <4>1 DEF Sound, Table
            <4> QED
                BY <3>1, <4>2, <4>3 DEF Current
        <3> QED
            BY <3>1 DEF Current
    <2>3. LineOf(child[p].sys) \in Lines
        BY <2>1, LineKnown DEF Attempt
    <2>4. Needs(p) => Current(p)
        BY <2>1 DEF Needs, Attempt
    <2> QED
        BY <1>3, <2>1, <2>2, <2>3, <2>4, AttemptFrame DEF Others
<1>4. ASSUME NEW t \in Slots, t # s PROVE Entry(t)' /\ (Own(t)' <=> Own(t))
    <2>1. client[t].fd \in Clients => Kept(client[t].fd)
        BY <1>2, <1>4 DEF Others
    <2> QED
        BY <1>1, <1>4, <2>1, EntryFrame DEF Sound, Others
<1>5. ASSUME NEW l \in Lines, lock'[l] # 0 PROVE \E t \in Slots : Own(t)' /\ client'[t].pid = lock'[l]
    <2>1. lock'[l] = lock[l] /\ lock[l] # client[s].pid
        BY <1>5 DEF Others
    <2>2. PICK t \in Slots : Own(t) /\ client[t].pid = lock[l]
        BY <1>5, <2>1 DEF Sound, Locks
    <2>3. t # s
        BY <2>1, <2>2
    <2>4. client'[t] = client[t]
        BY <2>3 DEF Others
    <2> QED
        BY <1>4, <2>1, <2>2, <2>3, <2>4
<1> QED
    BY <1>1, <1>2, <1>3, <1>4, <1>5

\* The server has closed its end of a connection, with k before that.
LEMMA SrvCloses ==
    ASSUME NEW k \in [Clients -> Conns], NEW c \in Clients, conn' = SrvClose(k, c)
    PROVE  /\ conn' \in [Clients -> Conns] /\ \A d \in Clients : d # c => conn'[d] = k[d]
           /\ conn'[c].srv = "closed" /\ conn'[c].cli = k[c].cli /\ conn'[c].req = k[c].req
           /\ conn'[c].back = k[c].back
<1>1. k[c] \in Conns /\ "closed" \in Sides
    BY DEF Sides
<1>2. [k[c] EXCEPT !.srv = "closed"] \in Conns
    BY <1>1 DEF Conns
<1>3. conn' = [k EXCEPT ![c] = [k[c] EXCEPT !.srv = "closed"]]
    BY <1>1 DEF SrvClose
<1> QED
    BY <1>1, <1>2, <1>3 DEF Conns

\* The entry of a client that has gone is freed; if a child of its own has passed it
\* a line, the client is over, and the line is released.
LEMMA ReadEofKeeps == ASSUME CalldInv, ReadEof PROVE CalldInv'
<1>1. PICK s : s = at
    OBVIOUS
<1>2. /\ Types /\ spc = "scan" /\ s \in rset /\ client[s].fd # NoFd /\ ~HasData(client[s].fd)
      /\ lock' = LockRel(lock, client[s].pid) /\ at' = at + 1 /\ backlog' = backlog
      /\ client' = [client EXCEPT ![s] = [client[s] EXCEPT !.fd = NoFd]]
      /\ UNCHANGED <<spc, walk, back, rset, child, user>>
    BY <1>1 DEF CalldInv, ReadEof, CliDone
<1>3. PICK c \in Clients : c = client[s].fd
    BY <1>2, EntryType DEF Types
<1>4. conn' = SrvClose(conn, c) /\ s \in Slots
    BY <1>1, <1>2, <1>3 DEF ReadEof, CliDone, Types
<1>5. /\ conn' \in [Clients -> Conns] /\ \A d \in Clients : d # c => conn'[d] = conn[d]
      /\ conn'[c].srv = "closed" /\ conn'[c].cli = conn[c].cli /\ conn'[c].req = conn[c].req
      /\ conn'[c].back = conn[c].back
    BY <1>2, <1>4, SrvCloses DEF Types
<1>6. PICK e \in Entries :
          /\ client' = [client EXCEPT ![s] = e] /\ e.fd = NoFd /\ e.pid = client[s].pid
          /\ e.childdone = client[s].childdone
    <2>1. client[s] \in Entries
        BY <1>2, <1>4 DEF Types
    <2> DEFINE e == [client[s] EXCEPT !.fd = NoFd]
    <2>2. e \in Entries /\ e.fd = NoFd /\ e.pid = client[s].pid /\ e.childdone = client[s].childdone
        BY <2>1 DEF Entries
    <2> QED
        BY <1>2, <2>2
<1>7. client' \in [Slots -> Entries] /\ client'[s] = e /\ \A t \in Slots : t # s => client'[t] = client[t]
    BY <1>2, <1>4, <1>6, EntrySet
<1>8. /\ lock' \in [Lines -> Nat]
      /\ \A l \in Lines : /\ lock'[l] # 0 => lock'[l] = lock[l] /\ lock[l] # client[s].pid
                          /\ lock[l] # client[s].pid => lock'[l] = lock[l]
    BY <1>2, Released DEF Types
<1>9. Types'
    BY <1>2, <1>5, <1>7, <1>8 DEF Types
<1> SUFFICES ASSUME NoneLeftDialing' PROVE Sound'
    BY <1>9 DEF CalldInv
<1>10. NoneLeftDialing /\ Sound
    BY <1>2 DEF CalldInv, NoneLeftDialing, UserIs
<1>11. HungUp(c) /\ Caller(c)
    <2>1. s >= at
        BY <1>1, <1>2 DEF Types
    <2> QED
        BY <1>2, <1>3, <1>10, <2>1 DEF Sound, Reported, Readable
<1>12. user[c].st \in {"over", "quit"}
    <2>1. user[c].st \notin {"connected", "waiting", "talking"} /\ ~UserIs(c, "start") /\ ~UserIs(c, "failed")
        BY <1>2, <1>11 DEF Caller, HungUp, CliOpen, NewConn, UserIs
    <2>2. ~UserIs(c, "refused")
        BY <1>3, <1>4, <1>11 DEF Caller
    <2>3. user[c] \in Callers
        BY <1>2 DEF Types
    <2> QED
        BY <2>1, <2>2, <2>3 DEF Callers, UserIs
<1>13. \A p \in DOMAIN child : child[p].fd = c => UserIs(c, "over") /\ Attempt(p)
    BY <1>10, <1>12 DEF Sound, NoneLeftDialing, UserIs
<1>14. \A d \in Clients : Kept(d)
    <2>1. conn[c].srv # "none" /\ ~UserIs(c, "start")
        BY <1>2, <1>3, <1>4, <1>10, <1>12 DEF Sound, Table, UserIs
    <2> QED
        BY <1>2, <1>5, <2>1 DEF Kept
<1>15. \A p \in DOMAIN child : child[p].fd = c => ~Needs(p)
    BY <1>13 DEF Needs, Attempt, UserIs
<1>16. Others(s)
    BY <1>2, <1>3, <1>7, <1>8, <1>14, <1>15 DEF Others
<1>17. /\ Grow
       /\ \A p \in DOMAIN child : child[p].fd # c => Attempt(p)'
       /\ \A t \in Slots : t # s => Entry(t)' /\ (Own(t)' <=> Own(t)) /\ client[t].fd # c
       /\ \A l \in Lines : lock'[l] # 0 => \E t \in Slots : Own(t)' /\ client'[t].pid = lock'[l]
    BY <1>2, <1>3, <1>4, <1>10, <1>16, OthersKeep
<1>18. \A p \in DOMAIN child : Attempt(p)'
    BY <1>2, <1>13, <1>14, <1>15, <1>17, AttemptFrame
<1>19. \A d \in Clients : Caller(d)'
    <2>1. \A t \in Slots : \A d \in Clients : client'[t].fd = d => client[t].fd = d
        BY <1>6, <1>7, ParamAssumption
    <2> QED
        BY <1>2, <1>10, <1>14, <1>17, <2>1, CallerFrame DEF Sound
<1>20. Entry(s)'
    <2>1. client[s].pid # 0 => child[client[s].pid].fd \in Clients
        <3>1. client[s].pid \in Nat /\ client[s].pid <= Len(child) /\ child \in Seq(Children)
            BY <1>2, <1>4, <1>10, EntryType DEF Sound, Table, Types
        <3> QED
            BY <1>2, <3>1, ChildType
    <2>2. ~Own(s)'
        BY <1>2, <1>6, <1>7, <2>1, ParamAssumption DEF Own
    <2>3. client[s].childdone # 2
        BY <1>3, <1>4, <1>10, <1>12 DEF Sound, Entry
    <2> QED
        BY <1>6, <1>7, <2>2, <2>3 DEF Entry
<1>21. Table'
    <2>1. \A t \in Slots : client'[t].pid = client[t].pid
        BY <1>6, <1>7
    <2>2. \A t \in Slots : client'[t].fd # NoFd => client'[t].fd = client[t].fd /\ t # s
        BY <1>6, <1>7
    <2>3. \A t \in Slots : client'[t].fd # NoFd => conn'[client'[t].fd].srv # "none"
        <3> TAKE t \in Slots
        <3>1. client[t].fd \in Clients \cup {NoFd}
            BY <1>2, EntryType
        <3> QED
            BY <1>5, <1>10, <2>2, <3>1 DEF Sound, Table
    <2> QED
        BY <1>2, <1>10, <2>1, <2>2, <2>3 DEF Sound, Table
<1>22. Queue'
    <2>1. \A i \in DOMAIN backlog : backlog[i] \in Clients /\ backlog[i] # c
        BY <1>2, <1>3, <1>4, <1>10 DEF Types, Sound, Queue, Table
    <2> QED
        BY <1>2, <1>5, <1>10, <2>1 DEF Sound, Queue, UserIs
<1>23. Reported'
    <2>1. at \in Nat /\ rset \subseteq Slots /\ Slots \subseteq Nat
        BY <1>2 DEF Types, Slots
    <2>2. \A t \in Slots : client'[t].fd # NoFd => t # s /\ client'[t].fd = client[t].fd /\ client[t].fd \in Clients
        <3> TAKE t \in Slots
        <3>1. client[t].fd \in Clients \cup {NoFd}
            BY <1>2, EntryType
        <3> QED
            BY <1>6, <1>7, <3>1
    <2>3. \A t \in Slots : client'[t].fd # NoFd => (Readable(client[t].fd) => Readable(client[t].fd)')
        BY <1>5, <2>2 DEF Readable, HasData, HungUp
    <2> QED
        BY <1>1, <1>2, <1>10, <2>1, <2>2, <2>3 DEF Sound, Reported
<1>24. Locks'
    BY <1>2, <1>17 DEF Locks
<1> QED
    BY <1>2, <1>17, <1>18, <1>19, <1>20, <1>21, <1>22, <1>23, <1>24 DEF Sound

\* request is called in a walk over the table, for entry s, which becomes r.
Asked(s, r, lk, k, w) ==
    /\ Types /\ w \in {"scan", "cd"} /\ spc = w /\ at = s /\ s \in Slots
    /\ r \in Entries /\ r.fd \in Clients /\ lk \in [Lines -> Nat] /\ k \in [Clients -> Conns]
    /\ lock' = lk /\ UNCHANGED <<back, rset, user>>

\* Its client has no request and no answer outstanding, all its earlier attempts are
\* over, and their lock is released.
Serving(s, r, lk, k) ==
    LET c == r.fd
    IN  /\ client[s].fd = c /\ client[s].pid = r.pid /\ r.childdone = 0 /\ r.want = user[c].want
        /\ r.foundone \/ r.sysftell = 0
        /\ user[c].st \in {"waiting", "quit"} /\ conn[c].back = <<>>
        /\ \A d \in Clients : d # c => k[d] = conn[d]
        /\ k[c].cli = conn[c].cli /\ k[c].srv = conn[c].srv /\ k[c].req = <<>> /\ k[c].back = <<>>
        /\ \A l \in Lines : /\ lk[l] # 0 => lk[l] = lock[l] /\ lock[l] # r.pid
                            /\ lock[l] # r.pid => lk[l] = lock[l]
        /\ \A p \in DOMAIN child : child[p].fd = c => GaveUp(p)

\* An attempt that has failed does not need anything.
LEMMA GaveUpKeeps ==
    ASSUME NEW p \in DOMAIN child, GaveUp(p), Attempt(p), child'[p] = child[p],
           user' = user, conn'[child[p].fd].req = <<>>
    PROVE  Attempt(p)' /\ ~Needs(p)
<1>1. /\ ~Dialing(p)' /\ ~Broken(p)' /\ ~Passed(p)' /\ child'[p].st \notin Busy
      /\ ~Dialing(p) /\ ~Broken(p) /\ ~Passed(p)
    BY DEF GaveUp, Dialing, Broken, Passed, Busy, Exit0, Exit1, Killed
<1> QED
    BY <1>1 DEF Attempt, UserIs, HasData, Busy, Needs

\* request forks a child that is to dial for its client, on a line that is free.
LEMMA ForkKeeps ==
    ASSUME CalldInv, NEW s, NEW r, NEW lk, NEW k, NEW w, Asked(s, r, lk, k, w),
           NoneLeftDialing /\ Sound => Serving(s, r, lk, k), NEW stop,
           Stops(r.want, r.sysftell, lk) # {}, stop = Min(Stops(r.want, r.sysftell, lk)),
           DevFind(stop) # 0, Forks(s, r, lk, stop, w), conn' = k
    PROVE  CalldInv'
<1>1. PICK n : n = Len(child)
    OBVIOUS
<1>2. PICK c \in Clients : c = r.fd
    BY DEF Asked
<1>3. /\ Types /\ spc = w /\ spc' = "setlock" /\ walk' = w /\ w \in {"scan", "cd"} /\ at = s /\ s \in Slots
      /\ r \in Entries /\ lock' = lk /\ lk \in [Lines -> Nat] /\ k \in [Clients -> Conns]
      /\ UNCHANGED <<at, back, rset, user, backlog>>
    BY DEF Asked, Forks
<1>4. child \in Seq(Children) /\ n \in Nat /\ r.sysftell \in Nat
    BY <1>1, <1>3 DEF Types, Entries
<1>5. stop \in Nat /\ stop \in DOMAIN Systems /\ Suits(stop, r.want) /\ lk[LineOf(stop)] = 0
    BY <1>4, StopsAt
<1> DEFINE new == [st |-> "waiting", fd |-> r.fd, sys |-> stop, status |-> Exit0]
<1>6. new \in Children /\ new.st = "waiting" /\ new.fd = c /\ new.sys = stop
    BY <1>2, <1>5 DEF Children
<1>7. child' = Append(child, new)
    BY DEF Forks
<1> HIDE DEF new
<1>8. /\ child' \in Seq(Children) /\ Len(child') = n + 1 /\ child'[n + 1] = new
      /\ \A p \in DOMAIN child : p \in DOMAIN child' /\ child'[p] = child[p] /\ p <= n /\ p # 0
      /\ \A p \in DOMAIN child' : p \in DOMAIN child \/ p = n + 1
    BY <1>1, <1>4, <1>6, <1>7
<1>9. PICK e \in Entries :
          /\ client' = [client EXCEPT ![s] = e] /\ e.fd = c /\ e.pid = n + 1 /\ e.childdone = r.childdone
          /\ e.want = r.want /\ e.foundone = TRUE
    <2> DEFINE e == [r EXCEPT !.pid = Len(child) + 1, !.sysftell = stop, !.foundone = TRUE]
    <2>1. e \in Entries
        <3>1. r \in Entries /\ Len(child) + 1 \in Nat /\ stop \in Nat
            BY <1>1, <1>3, <1>4, <1>5
        <3> QED
            BY ONLY <3>1 DEF Entries
    <2>2. e.fd = c /\ e.pid = n + 1 /\ e.childdone = r.childdone /\ e.want = r.want /\ e.foundone = TRUE
        BY <1>1, <1>2, <1>3 DEF Entries
    <2> QED
        BY <2>1, <2>2 DEF Forks
<1>10. client' \in [Slots -> Entries] /\ client'[s] = e /\ \A t \in Slots : t # s => client'[t] = client[t]
    BY <1>3, <1>9, EntrySet
<1>11. Types'
    BY <1>3, <1>8, <1>10 DEF Types
<1> SUFFICES ASSUME NoneLeftDialing' PROVE Sound'
    BY <1>11 DEF CalldInv
<1>12. NoneLeftDialing /\ Sound
    BY <1>3, <1>8 DEF CalldInv, NoneLeftDialing, UserIs
<1>13. /\ client[s].fd = c /\ client[s].pid = r.pid /\ r.childdone = 0 /\ r.want = user[c].want
       /\ user[c].st \in {"waiting", "quit"} /\ conn[c].back = <<>>
       /\ \A d \in Clients : d # c => conn'[d] = conn[d]
       /\ conn'[c].cli = conn[c].cli /\ conn'[c].srv = conn[c].srv /\ conn'[c].req = <<>> /\ conn'[c].back = <<>>
       /\ \A l \in Lines : /\ lock'[l] # 0 => lock'[l] = lock[l] /\ lock[l] # r.pid
                           /\ lock[l] # r.pid => lock'[l] = lock[l]
       /\ \A p \in DOMAIN child : child[p].fd = c => GaveUp(p)
    BY <1>2, <1>3, <1>12 DEF Serving
<1>14. UserIs(c, "waiting") /\ n + 1 \in DOMAIN child'
    <2>1. n + 1 \in DOMAIN child'
        BY <1>4, <1>8
    <2> QED
        BY <1>3, <1>6, <1>8, <1>13, <2>1 DEF NoneLeftDialing, UserIs
<1>15. \A d \in Clients : d # c => Kept(d)
    BY <1>3, <1>13 DEF Kept
<1>16. \A p \in DOMAIN child : child[p].fd = c => Attempt(p)' /\ ~Needs(p)
    BY <1>3, <1>8, <1>12, <1>13, GaveUpKeeps DEF Sound
<1>17. Others(s)
    BY <1>3, <1>8, <1>10, <1>13, <1>15, <1>16 DEF Others
<1>18. /\ Grow
       /\ \A p \in DOMAIN child : child[p].fd # c => Attempt(p)'
       /\ \A t \in Slots : t # s => Entry(t)' /\ (Own(t)' <=> Own(t)) /\ client[t].fd # c
       /\ \A l \in Lines : lock'[l] # 0 => \E t \in Slots : Own(t)' /\ client'[t].pid = lock'[l]
    BY <1>3, <1>12, <1>13, <1>17, OthersKeep
<1>19. \A d \in Clients : Caller(d)'
    <2>1. ASSUME NEW d \in Clients, d # c PROVE Caller(d)'
        <3>1. \A t \in Slots : client'[t].fd = d => client[t].fd = d
            BY <1>9, <1>10, <2>1
        <3>2. \A p \in DOMAIN child' : p \in DOMAIN child \/ child'[p].fd # d
            BY <1>6, <1>8, <2>1
        <3> QED
            BY <1>3, <1>12, <1>15, <1>18, <2>1, <3>1, <3>2, CallerFrame DEF Sound
    <2>2. Caller(c) /\ conn[c].srv # "none"
        BY <1>3, <1>12, <1>13, ParamAssumption DEF Sound, Table
    <2>3. Caller(c)'
        BY <1>3, <1>13, <1>14, <2>2 DEF Caller, UserIs, CliOpen, HungUp, HasData
    <2> QED
        BY <2>1, <2>3
<1>20. Current(n + 1)'
    BY <1>3, <1>6, <1>8, <1>9, <1>10 DEF Current
<1>21. Attempt(n + 1)'
    <2>1. ~Broken(n + 1)' /\ ~Passed(n + 1)' /\ child'[n + 1].st \notin Busy
        BY <1>6, <1>8 DEF Broken, Passed, Busy
    <2>2. Suits(child'[n + 1].sys, user'[c].want)
        BY <1>3, <1>5, <1>6, <1>8, <1>13
    <2> QED
        BY <1>3, <1>5, <1>6, <1>8, <1>13, <1>14, <1>20, <2>1, <2>2 DEF Attempt, UserIs, HasData, Busy
<1>22. Entry(s)' /\ Own(s)'
    BY <1>3, <1>4, <1>6, <1>8, <1>9, <1>10, <1>13 DEF Entry, Own
<1>23. Table'
    <2>1. \A t \in Slots : client'[t].fd = client[t].fd
        BY <1>9, <1>10, <1>13
    <2>2. \A t \in Slots : t # s => client'[t].pid <= n /\ client'[t].pid \in Nat
        BY <1>1, <1>3, <1>10, <1>12, EntryType DEF Sound, Table
    <2>3. \A t, u \in Slots : client'[t].pid = client'[u].pid /\ client'[t].pid # 0 => t = u
        BY <1>4, <1>9, <1>10, <1>12, <2>2 DEF Sound, Table
    <2>4. \A t \in Slots : client'[t].pid <= Len(child')
        BY <1>4, <1>8, <1>9, <1>10, <2>2
    <2>5. \A t \in Slots : client'[t].fd # NoFd => conn'[client'[t].fd].srv # "none"
        <3> TAKE t \in Slots
        <3>1. client[t].fd \in Clients \cup {NoFd}
            BY <1>3, EntryType
        <3> QED
            BY <1>12, <1>13, <2>1, <3>1 DEF Sound, Table
    <2> QED
        BY <1>12, <2>1, <2>3, <2>4, <2>5 DEF Sound, Table
<1>24. Queue'
    <2>1. \A i \in DOMAIN backlog : backlog[i] \in Clients
        BY <1>3 DEF Types
    <2> QED
        BY <1>3, <1>12, <1>13, <2>1 DEF Sound, Queue, UserIs
<1>25. Reported'
    <2>1. at \in Nat /\ rset \subseteq Slots /\ Slots \subseteq Nat
        BY <1>3 DEF Types, Slots
    <2>2. \A t \in Slots : t > at => t # s /\ client'[t] = client[t] /\ client[t].fd \in Clients \cup {NoFd}
        BY <1>3, <1>10, <2>1, EntryType
    <2>3. \A t \in Slots : t > at /\ client'[t].fd # NoFd => (Readable(client[t].fd) => Readable(client[t].fd)')
        BY <1>13, <1>18, <2>2 DEF Readable, HasData, HungUp
    <2> QED
        BY <1>3, <1>12, <2>1, <2>2, <2>3 DEF Sound, Reported
<1>26. Locks'
    <2>1. child' # <<>>
        BY <1>4, <1>8
    <2> QED
        BY <1>3, <1>5, <1>6, <1>8, <1>18, <2>1 DEF Locks
<1>27. \A p \in DOMAIN child' : Attempt(p)'
    BY <1>8, <1>16, <1>18, <1>21
<1> QED
    BY <1>3, <1>18, <1>19, <1>22, <1>23, <1>24, <1>25, <1>26, <1>27 DEF Sound

\* request tells its client why there is no way, and frees the entry.
LEMMA RefuseKeeps ==
    ASSUME CalldInv, NEW s, NEW r, NEW lk, NEW k, NEW w, Asked(s, r, lk, k, w),
           NoneLeftDialing /\ Sound => Serving(s, r, lk, k), NEW why \in Errors,
           why = "notfound" => ~r.foundone /\ SysNext(r.want, r.sysftell) = {},
           ~HungUp(r.fd), CliDone(s, r, SendErr(k, r.fd, why)), UNCHANGED <<child, spc, walk>>
    PROVE  CalldInv'
<1>1. PICK c \in Clients : c = r.fd
    BY DEF Asked
<1>2. /\ Types /\ spc = w /\ w \in {"scan", "cd"} /\ at = s /\ s \in Slots /\ at' = at + 1
      /\ r \in Entries /\ lock' = lk /\ lk \in [Lines -> Nat] /\ k \in [Clients -> Conns]
      /\ UNCHANGED <<spc, walk, back, rset, user, backlog, child>>
    BY DEF Asked, CliDone
<1>3. PICK m \in Messages : m = AnErr(why)
    BY DEF AnErr, Messages, Marks
<1>4. PICK k2 \in [Clients -> Conns] :
          /\ k2 = SendErr(k, c, why) /\ \A d \in Clients : d # c => k2[d] = k[d]
          /\ k2[c].cli = k[c].cli /\ k2[c].srv = k[c].srv /\ k2[c].req = k[c].req
          /\ k2[c].back = Append(k[c].back, m)
    <2> DEFINE f == [k[c] EXCEPT !.back = Append(k[c].back, m)]
    <2>1. k[c] \in Conns
        BY <1>2
    <2>2. Append(k[c].back, m) \in Seq(Messages)
        BY <2>1 DEF Conns
    <2>3. /\ f \in Conns /\ f.cli = k[c].cli /\ f.srv = k[c].srv /\ f.req = k[c].req
          /\ f.back = Append(k[c].back, m)
        BY <2>1, <2>2 DEF Conns
    <2>4. SendErr(k, c, why) = [k EXCEPT ![c] = f]
        BY <1>3, <2>1 DEF SendErr, Conns
    <2> HIDE DEF f
    <2> QED
        BY <1>2, <2>3, <2>4
<1>5. /\ conn' \in [Clients -> Conns] /\ \A d \in Clients : d # c => conn'[d] = k[d]
      /\ conn'[c].srv = "closed" /\ conn'[c].cli = k[c].cli /\ conn'[c].req = k[c].req
      /\ conn'[c].back = Append(k[c].back, m)
    <2>1. conn' = SrvClose(k2, c)
        BY <1>1, <1>4 DEF CliDone
    <2> QED
        BY <1>4, <2>1, SrvCloses
<1>6. PICK e \in Entries :
          client' = [client EXCEPT ![s] = e] /\ e.fd = NoFd /\ e.pid = r.pid /\ e.childdone = r.childdone
    <2> DEFINE e == [r EXCEPT !.fd = NoFd]
    <2>1. e \in Entries /\ e.fd = NoFd /\ e.pid = r.pid /\ e.childdone = r.childdone
        BY <1>2 DEF Entries
    <2> QED
        BY <2>1 DEF CliDone
<1>7. client' \in [Slots -> Entries] /\ client'[s] = e /\ \A t \in Slots : t # s => client'[t] = client[t]
    BY <1>2, <1>6, EntrySet
<1>8. Types'
    BY <1>2, <1>5, <1>7 DEF Types
<1> SUFFICES ASSUME NoneLeftDialing' PROVE Sound'
    BY <1>8 DEF CalldInv
<1>9. NoneLeftDialing /\ Sound
    BY <1>2 DEF CalldInv, NoneLeftDialing, UserIs
<1>10. /\ client[s].fd = c /\ client[s].pid = r.pid /\ r.childdone = 0 /\ r.want = user[c].want
       /\ r.foundone \/ r.sysftell = 0
       /\ user[c].st \in {"waiting", "quit"} /\ conn[c].back = <<>>
       /\ \A d \in Clients : d # c => conn'[d] = conn[d]
       /\ conn'[c].cli = conn[c].cli /\ conn'[c].req = <<>>
       /\ \A l \in Lines : /\ lock'[l] # 0 => lock'[l] = lock[l] /\ lock[l] # r.pid
                           /\ lock[l] # r.pid => lock'[l] = lock[l]
       /\ \A p \in DOMAIN child : child[p].fd = c => GaveUp(p)
    BY <1>1, <1>2, <1>5, <1>9 DEF Serving
<1>11. conn'[c].back = <<m>>
    <2>1. k[c].back = <<>>
        BY <1>1, <1>9 DEF Serving
    <2> QED
        BY <1>5, <2>1
<1>12. UserIs(c, "waiting")
    BY <1>1, <1>9, <1>10 DEF Sound, Caller, UserIs
<1>13. \A d \in Clients : d # c => Kept(d)
    BY <1>2, <1>10 DEF Kept
<1>14. \A p \in DOMAIN child : child[p].fd = c => Attempt(p)' /\ ~Needs(p)
    BY <1>2, <1>9, <1>10, GaveUpKeeps DEF Sound
<1>15. Others(s)
    BY <1>2, <1>7, <1>10, <1>13, <1>14 DEF Others
<1>16. /\ Grow
       /\ \A p \in DOMAIN child : child[p].fd # c => Attempt(p)'
       /\ \A t \in Slots : t # s => Entry(t)' /\ (Own(t)' <=> Own(t)) /\ client[t].fd # c
       /\ \A l \in Lines : lock'[l] # 0 => \E t \in Slots : Own(t)' /\ client'[t].pid = lock'[l]
    BY <1>2, <1>9, <1>10, <1>15, OthersKeep
<1>17. \A t \in Slots : client'[t].fd # c
    BY <1>6, <1>7, <1>16, ParamAssumption
<1>18. ErrorSent(c)'
    <2>1. why = "notfound" => NoSystem(user[c].want)
        BY <1>10, NoneFound
    <2>2. \A p \in DOMAIN child : child[p].fd = c => GaveUp(p)'
        BY <1>10, <1>16 DEF Grow
    <2> QED
        BY <1>2, <1>3, <1>11, <1>17, <2>1, <2>2 DEF ErrorSent
<1>19. \A d \in Clients : Caller(d)'
    <2>1. ASSUME NEW d \in Clients, d # c PROVE Caller(d)'
        <3>1. \A t \in Slots : client'[t].fd = d => client[t].fd = d
            BY <1>6, <1>7, ParamAssumption
        <3> QED
            BY <1>2, <1>9, <1>13, <1>16, <2>1, <3>1, CallerFrame DEF Sound
    <2>2. Caller(c)
        BY <1>9 DEF Sound
    <2>3. Caller(c)'
        BY <1>2, <1>5, <1>10, <1>12, <1>18, <2>2 DEF Caller, UserIs, CliOpen, HungUp, HasData
    <2> QED
        BY <2>1, <2>3
<1>20. Entry(s)'
    <2>1. client[s].pid # 0 => child[client[s].pid].fd \in Clients
        <3>1. client[s].pid \in Nat /\ client[s].pid <= Len(child) /\ child \in Seq(Children)
            BY <1>2, <1>9, EntryType DEF Sound, Table, Types
        <3> QED
            BY <1>2, <3>1, ChildType
    <2>2. ~Own(s)'
        BY <1>2, <1>6, <1>7, <1>10, <2>1, ParamAssumption DEF Own
    <2> QED
        BY <1>6, <1>7, <1>10, <2>2 DEF Entry
<1>21. Table'
    <2>1. \A t \in Slots : client'[t].pid = client[t].pid
        BY <1>6, <1>7, <1>10
    <2>2. \A t \in Slots : client'[t].fd # NoFd => client'[t].fd = client[t].fd /\ t # s
        BY <1>6, <1>7
    <2>3. \A t \in Slots : client'[t].fd # NoFd => conn'[client'[t].fd].srv # "none"
        <3> TAKE t \in Slots
        <3>1. client[t].fd \in Clients \cup {NoFd}
            BY <1>2, EntryType
        <3> QED
            BY <1>9, <1>10, <1>16, <2>2, <3>1 DEF Sound, Table
    <2> QED
        BY <1>2, <1>9, <2>1, <2>2, <2>3 DEF Sound, Table
<1>22. Queue'
    <2>1. \A i \in DOMAIN backlog : backlog[i] \in Clients /\ backlog[i] # c
        <3>1. conn[c].srv # "none"
            BY <1>2, <1>9, <1>10, ParamAssumption DEF Sound, Table
        <3>2. \A i \in DOMAIN backlog : backlog[i] \in Clients
            BY <1>2 DEF Types
        <3> QED
            BY <1>9, <3>1, <3>2 DEF Sound, Queue
    <2> QED
        BY <1>2, <1>9, <1>10, <2>1 DEF Sound, Queue, UserIs
<1>23. Reported'
    <2>1. at \in Nat /\ rset \subseteq Slots /\ Slots \subseteq Nat
        BY <1>2 DEF Types, Slots
    <2>2. \A t \in Slots : client'[t].fd # NoFd => t # s /\ client'[t].fd = client[t].fd /\ client[t].fd \in Clients
        <3> TAKE t \in Slots
        <3>1. client[t].fd \in Clients \cup {NoFd}
            BY <1>2, EntryType
        <3> QED
            BY <1>6, <1>7, <3>1
    <2>3. \A t \in Slots : client'[t].fd # NoFd => (Readable(client[t].fd) => Readable(client[t].fd)')
        BY <1>10, <1>16, <2>2 DEF Readable, HasData, HungUp
    <2> QED
        <3>1. CASE w = "scan"
            <4>1. \A t \in rset : t >= at /\ client[t].fd # NoFd => Readable(client[t].fd)
                BY <1>2, <1>9, <3>1 DEF Sound, Reported
            <4>2. ASSUME NEW t \in rset, t >= at + 1, client'[t].fd # NoFd PROVE Readable(client[t].fd)'
                BY <2>1, <2>2, <2>3, <4>1, <4>2 DEF Readable, HasData, HungUp
            <4> QED
                BY <1>2, <3>1, <4>2 DEF Reported
        <3>2. CASE w = "cd"
            BY <1>2, <3>2 DEF Reported
        <3> QED
            BY <1>2, <3>1, <3>2
<1>24. Locks'
    BY <1>2, <1>16 DEF Locks
<1> QED
    BY <1>2, <1>14, <1>16, <1>19, <1>20, <1>21, <1>22, <1>23, <1>24 DEF Sound

\* The client has gone, and SIGPIPE ends the server.
LEMMA PipeKeeps ==
    ASSUME CalldInv, NEW s, NEW r, NEW lk, NEW k, NEW w, Asked(s, r, lk, k, w),
           NoneLeftDialing /\ Sound => Serving(s, r, lk, k), Die(k), UNCHANGED <<child, client, at, walk>>
    PROVE  CalldInv'
<1>1. PICK c \in Clients : c = r.fd
    BY DEF Asked
<1>2. /\ Types /\ s \in Slots /\ lock' = lk /\ lk \in [Lines -> Nat] /\ k \in [Clients -> Conns]
      /\ UNCHANGED <<at, walk, back, rset, user, child, client>>
    BY DEF Asked
<1>3. /\ conn' \in [Clients -> Conns] /\ backlog' = <<>> /\ spc' = "dead"
      /\ \A d \in Clients : /\ conn'[d].cli = k[d].cli /\ conn'[d].req = k[d].req /\ conn'[d].back = k[d].back
                            /\ conn'[d].srv = "none" <=> k[d].srv = "none"
                            /\ k[d].srv = "none" => conn'[d] = k[d]
    BY <1>2, DieConns
<1>4. Types'
    BY <1>2, <1>3 DEF Types
<1> SUFFICES ASSUME NoneLeftDialing' PROVE Sound'
    BY <1>4 DEF CalldInv
<1>5. NoneLeftDialing /\ Sound
    BY <1>2 DEF CalldInv, NoneLeftDialing, UserIs
<1>6. /\ client[s].fd = c /\ client[s].pid = r.pid
      /\ user[c].st \in {"waiting", "quit"} /\ conn[c].back = <<>>
      /\ \A d \in Clients : d # c => k[d] = conn[d]
      /\ k[c].cli = conn[c].cli /\ k[c].srv = conn[c].srv /\ k[c].req = <<>> /\ k[c].back = <<>>
      /\ \A l \in Lines : /\ lock'[l] # 0 => lock'[l] = lock[l] /\ lock[l] # r.pid
                          /\ lock[l] # r.pid => lock'[l] = lock[l]
      /\ \A p \in DOMAIN child : child[p].fd = c => GaveUp(p)
    BY <1>1, <1>2, <1>5 DEF Serving
<1>7. ASSUME NEW d \in Clients, d # c PROVE Kept(d)
    <2>1. UserIs(d, "start") => conn[d].srv = "none"
        BY <1>5 DEF Sound, Caller, NewConn
    <2> QED
        BY <1>2, <1>3, <1>6, <1>7, <2>1 DEF Kept
<1>8. \A p \in DOMAIN child : child[p].fd = c => Attempt(p)' /\ ~Needs(p)
    BY <1>2, <1>3, <1>5, <1>6, GaveUpKeeps DEF Sound
<1>9. Others(s)
    BY <1>2, <1>6, <1>7, <1>8 DEF Others
<1>10. /\ Grow
       /\ \A p \in DOMAIN child : child[p].fd # c => Attempt(p)'
       /\ \A t \in Slots : t # s => Entry(t)'
       /\ \A l \in Lines : lock'[l] # 0 => \E t \in Slots : Own(t)' /\ client'[t].pid = lock'[l]
    BY <1>2, <1>5, <1>6, <1>9, OthersKeep
<1>11. \A d \in Clients : Caller(d)'
    <2>1. ASSUME NEW d \in Clients, d # c PROVE Caller(d)'
        BY <1>2, <1>3, <1>5, <1>7, <1>10, <2>1, CallerFrame DEF Sound
    <2>2. Caller(c) /\ conn[c].srv # "none"
        BY <1>2, <1>5, <1>6, ParamAssumption DEF Sound, Table
    <2>3. Caller(c)'
        BY <1>2, <1>3, <1>6, <2>2 DEF Caller, UserIs, CliOpen, HungUp, HasData
    <2> QED
        BY <2>1, <2>3
<1>12. Entry(s)'
    <2>1. (Own(s)' <=> Own(s)) /\ (GaveUp(client[s].pid)' <=> GaveUp(client[s].pid))
        BY <1>2 DEF Own, GaveUp
    <2>2. Entry(s)
        BY <1>2, <1>5 DEF Sound
    <2> QED
        BY <1>2, <1>3, <1>6, <2>1, <2>2 DEF Entry
<1>13. Table'
    <2>1. \A t \in Slots : client[t].fd \in Clients \cup {NoFd}
        BY <1>2, EntryType
    <2>2. \A d \in Clients : conn'[d].srv = "none" => conn[d].srv = "none"
        BY <1>3, <1>6
    <2> QED
        BY <1>2, <1>5, <2>1, <2>2 DEF Sound, Table
<1>14. Queue' /\ Reported' /\ Locks'
    BY <1>3, <1>10 DEF Queue, Reported, Locks
<1> QED
    BY <1>2, <1>8, <1>10, <1>11, <1>12, <1>13, <1>14 DEF Sound

\* request, in its three ways out.
LEMMA RequestKeeps ==
    ASSUME CalldInv, NEW s, NEW r, NEW lk, NEW k, NEW w, Asked(s, r, lk, k, w),
           NoneLeftDialing /\ Sound => Serving(s, r, lk, k), Request(s, r, lk, k, w)
    PROVE  CalldInv'
<1> DEFINE tries == SysNext(r.want, r.sysftell)
           stops == Stops(r.want, r.sysftell, lk)
           dials == stops # {} /\ DevFind(Min(stops)) # 0
<1>1. CASE dials /\ Forks(s, r, lk, Min(stops), w) /\ conn' = k
    BY <1>1, ForkKeeps
<1>2. CASE /\ ~dials /\ ~HungUp(r.fd) /\ CliDone(s, r, SendErr(k, r.fd, Why(r, stops, tries)))
           /\ UNCHANGED <<child, spc, walk>>
    <2>1. Why(r, stops, tries) \in Errors
        <3> HIDE DEF stops, tries
        <3> QED
            BY DEF Why, Errors
    <2>2. Why(r, stops, tries) = "notfound" => ~r.foundone /\ tries = {}
        <3> HIDE DEF stops, tries
        <3>1. CASE ~r.foundone /\ tries = {}
            BY <3>1
        <3>2. CASE ~(~r.foundone /\ tries = {})
            <4>1. Why(r, stops, tries) \in {"nodevice", "locked", "unable"}
                BY <3>2 DEF Why
            <4> QED
                BY <4>1
        <3> QED
            BY <3>1, <3>2
    <2> QED
        BY <1>2, <2>1, <2>2, RefuseKeeps
<1>3. CASE Die(k) /\ UNCHANGED <<child, client, at, walk>>
    BY <1>3, PipeKeeps
<1> QED
    BY <1>1, <1>2, <1>3 DEF Request

\* A request is read: its client has no child yet.
LEMMA ReadRequestKeeps == ASSUME CalldInv, ReadRequest PROVE CalldInv'
<1>1. PICK s : s = at
    OBVIOUS
<1>2. /\ Types /\ spc = "scan" /\ s \in rset /\ client[s].fd # NoFd /\ HasData(client[s].fd)
      /\ UNCHANGED <<back, rset, user>>
    BY <1>1 DEF CalldInv, ReadRequest
<1>3. s \in Slots
    BY <1>2 DEF Types
<1>4. PICK c \in Clients : c = client[s].fd
    BY <1>2, <1>3, EntryType
<1>5. PICK h \in Wants : h = Head(conn[c].req)
    <2>1. conn[c] \in Conns /\ conn[c].req # <<>>
        BY <1>2, <1>4 DEF Types, HasData
    <2>2. conn[c].req \in Seq(Wants)
        BY <2>1 DEF Conns
    <2> QED
        BY <2>1, <2>2
<1> DEFINE r == [client[s] EXCEPT !.want = h, !.childdone = 0, !.sysftell = 0, !.foundone = FALSE]
           k == Taken(conn, c)
<1>6. /\ r \in Entries /\ r.fd = c /\ r.pid = client[s].pid /\ r.childdone = 0 /\ r.want = h
      /\ r.sysftell = 0
    <2>1. client[s] \in Entries
        BY <1>2, <1>3 DEF Types
    <2>2. r \in Entries
        BY <2>1 DEF Entries
    <2>3. r.fd = c /\ r.pid = client[s].pid /\ r.childdone = 0 /\ r.want = h /\ r.sysftell = 0
        BY <1>4, <2>1 DEF Entries
    <2> QED
        BY <2>2, <2>3
<1>7. /\ k \in [Clients -> Conns] /\ \A d \in Clients : d # c => k[d] = conn[d]
      /\ k[c].cli = conn[c].cli /\ k[c].srv = conn[c].srv /\ k[c].req = Tail(conn[c].req)
      /\ k[c].back = conn[c].back
    <2> DEFINE f == [conn[c] EXCEPT !.req = Tail(conn[c].req)]
    <2>1. conn[c] \in Conns /\ conn[c].req # <<>>
        BY <1>2, <1>4 DEF Types, HasData
    <2>2. Tail(conn[c].req) \in Seq(Wants)
        BY <2>1 DEF Conns
    <2>3. /\ f \in Conns /\ f.cli = conn[c].cli /\ f.srv = conn[c].srv /\ f.req = Tail(conn[c].req)
          /\ f.back = conn[c].back
        BY <2>1, <2>2 DEF Conns
    <2>4. k = [conn EXCEPT ![c] = f]
        BY <2>1 DEF Taken
    <2> HIDE DEF f, k
    <2> QED
        BY <1>2, <2>3, <2>4 DEF Types
<1>8. Request(s, r, lock, k, "scan")
    BY <1>1, <1>4, <1>5, <1>6 DEF ReadRequest
<1> HIDE DEF r, k
<1>9. Asked(s, r, lock, k, "scan")
    BY <1>1, <1>2, <1>3, <1>6, <1>7, <1>8 DEF Asked, Request, Types
<1>10. ASSUME Sound PROVE Serving(s, r, lock, k)
    <2>1. Caller(c) /\ conn[c].req = <<user[c].want>> /\ user[c].st \notin {"start", "connected"}
        BY <1>2, <1>4, <1>10 DEF Sound, Caller
    <2>2. h = user[c].want /\ Tail(conn[c].req) = <<>>
        BY <1>5, <2>1
    <2>3. \A p \in DOMAIN child : child[p].fd # c
        BY <1>2, <1>4, <1>10 DEF Sound, Attempt
    <2>4. conn[c].back = <<>>
        <3>1. ~LineSent(c)
            BY <2>3 DEF LineSent
        <3>2. ~ErrorSent(c)
            BY <1>3, <1>4 DEF ErrorSent
        <3> QED
            BY <2>1, <3>1, <3>2 DEF Caller
    <2>5. user[c].st \in {"waiting", "quit"}
        <3>1. user[c].got = 0
            BY <2>1, <2>3 DEF Caller
        <3>2. ~UserIs(c, "talking") /\ ~UserIs(c, "over") /\ ~UserIs(c, "refused") /\ ~UserIs(c, "failed")
            BY <1>2, <1>3, <1>4, <2>1, <3>1 DEF Caller, UserIs
        <3>3. user[c] \in Callers
            BY <1>2 DEF Types
        <3> QED
            BY <2>1, <3>2, <3>3 DEF Callers, UserIs
    <2>6. ASSUME NEW l \in Lines, lock[l] # 0 PROVE lock[l] # r.pid
        <3>1. PICK t \in Slots : Own(t) /\ client[t].pid = lock[l]
            BY <1>10, <2>6 DEF Sound, Locks
        <3>2. child[client[t].pid].fd = client[t].fd /\ client[t].pid \in DOMAIN child
            <4>1. client[t].pid \in Nat /\ client[t].pid <= Len(child) /\ child \in Seq(Children)
                BY <1>2, <1>10, EntryType DEF Sound, Table, Types
            <4> QED
                BY <3>1, <4>1 DEF Own
        <3>3. t # s
            BY <1>4, <2>3, <3>2
        <3> QED
            BY <1>3, <1>6, <1>10, <2>6, <3>1, <3>3 DEF Sound, Table
    <2> QED
        BY <1>4, <1>6, <1>7, <2>2, <2>3, <2>4, <2>5, <2>6 DEF Serving
<1> QED
    BY <1>8, <1>9, <1>10, RequestKeeps

\* The client's child has failed: its lock is released, and the walk of the Systems
\* file goes on behind its entry.
LEMMA CdFailedKeeps == ASSUME CalldInv, CdFailed PROVE CalldInv'
<1>1. PICK s : s = at
    OBVIOUS
<1>2. /\ Types /\ spc = "cd" /\ s \in Slots /\ client[s].fd # NoFd /\ client[s].childdone = 2
      /\ UNCHANGED <<back, rset, user>>
    <2>1. client[at] \in Entries /\ at \in Slots
        BY DEF CalldInv, Types, CdFailed
    <2> QED
        BY <1>1, <2>1 DEF CalldInv, CdFailed, Entries
<1>3. PICK c \in Clients : c = client[s].fd
    BY <1>2, EntryType
<1> DEFINE r == [client[s] EXCEPT !.childdone = 0]
           lk == LockRel(lock, client[s].pid)
<1>4. /\ r \in Entries /\ r.fd = c /\ r.pid = client[s].pid /\ r.childdone = 0 /\ r.want = client[s].want
      /\ r.foundone = client[s].foundone
    <2>1. client[s] \in Entries
        BY <1>2 DEF Types
    <2> QED
        BY <1>3, <2>1 DEF Entries
<1>5. /\ lk \in [Lines -> Nat]
      /\ \A l \in Lines : /\ lk[l] # 0 => lk[l] = lock[l] /\ lock[l] # client[s].pid
                          /\ lock[l] # client[s].pid => lk[l] = lock[l]
    BY <1>2, Released DEF Types
<1>6. Request(s, r, lk, conn, "cd")
    BY <1>1, <1>4 DEF CdFailed
<1> HIDE DEF r, lk
<1>7. Asked(s, r, lk, conn, "cd")
    BY <1>1, <1>2, <1>4, <1>5, <1>6 DEF Asked, Request, Types
<1>8. ASSUME Sound PROVE Serving(s, r, lk, conn)
    <2>1. /\ Own(s) /\ GaveUp(client[s].pid) /\ user[c].st \in {"waiting", "failed"} /\ conn[c].back = <<>>
          /\ client[s].want = user[c].want /\ client[s].foundone
        BY <1>2, <1>3, <1>8 DEF Sound, Entry
    <2>2. UserIs(c, "waiting")
        BY <1>2, <1>8, <2>1 DEF Sound, Caller, UserIs
    <2>3. client[s].pid \in DOMAIN child /\ child[client[s].pid].fd = c
        <3>1. client[s].pid \in Nat /\ client[s].pid <= Len(child) /\ child \in Seq(Children)
            BY <1>2, <1>8, EntryType DEF Sound, Table, Types
        <3> QED
            BY <1>3, <2>1, <3>1 DEF Own
    <2>4. conn[c].req = <<>>
        BY <1>8, <2>3 DEF Sound, Attempt, HasData
    <2>5. ASSUME NEW p \in DOMAIN child, child[p].fd = c PROVE GaveUp(p)
        <3>1. Attempt(p)
            BY <1>8 DEF Sound
        <3>2. Current(p) => p = client[s].pid
            BY <1>2, <1>3, <1>8, <2>5, ParamAssumption DEF Sound, Table, Current
        <3>3. conn[c].back # <<AnFd(child[p].sys)>>
            BY <2>1
        <3>4. ~Passed(p)
            BY <2>2, <2>5, <3>1, <3>3 DEF Attempt, UserIs
        <3>5. CASE Dialing(p) \/ Broken(p)
            BY <2>1, <3>1, <3>2, <3>5 DEF Attempt
        <3>6. CASE ~Dialing(p) /\ ~Broken(p)
            <4>1. child[p] \in Children
                BY <1>2, ChildType
            <4> QED
                BY <3>4, <3>6, <4>1 DEF Dialing, Broken, Passed, GaveUp, Children
        <3> QED
            BY <3>5, <3>6
    <2> QED
        BY <1>3, <1>4, <1>5, <2>1, <2>2, <2>4, <2>5 DEF Serving, UserIs
<1> QED
    BY <1>6, <1>7, <1>8, RequestKeeps

-----------------------------------------------------------------------------
(* The theorems. *)

\* Nobody has called, no line is locked.
LEMMA CalldInvInit == Init => CalldInv
<1> SUFFICES ASSUME Init PROVE CalldInv
    OBVIOUS
<1>1. FreeEntry \in Entries /\ FreeEntry.fd = NoFd /\ FreeEntry.pid = 0 /\ FreeEntry.childdone = 0
    BY DEF FreeEntry, Entries, Wants
<1>2. NewUser \in Callers /\ NewUser.st = "start" /\ NewUser.got = 0 /\ NewUser.err = ""
    BY DEF NewUser, Callers, Marks, Wants
<1>3. /\ NewConn \in Conns /\ NewConn.srv = "none" /\ NewConn.req = <<>> /\ NewConn.back = <<>>
    <2>1. <<>> \in Seq(Wants) /\ <<>> \in Seq(Messages)
        OBVIOUS
    <2> QED
        BY <2>1 DEF NewConn, Conns, Sides
<1>4. child = <<>> /\ backlog = <<>> /\ spc = "top" /\ (\A c \in Clients : conn[c] = NewConn /\ user[c] = NewUser)
      /\ \A s \in Slots : client[s] = FreeEntry
    BY DEF Init, ServListen
<1>5. Types
    <2>1. child \in Seq(Children) /\ backlog \in Seq(Clients)
        BY <1>4
    <2> QED
        BY <1>1, <1>2, <1>3, <2>1 DEF Init, ServListen, Types
<1>6. Table /\ Queue /\ Reported /\ Locks
    BY <1>1, <1>4 DEF Init, Table, Queue, Reported, Locks
<1>7. ASSUME NEW c \in Clients PROVE Caller(c)
    <2>1. user[c].st = "start" /\ user[c].got = 0 /\ user[c].err = "" /\ conn[c] = NewConn
        BY <1>2, <1>4
    <2>2. conn[c].srv = "none" /\ conn[c].req = <<>> /\ conn[c].back = <<>>
        BY <1>3, <2>1
    <2>3. DOMAIN child = {}
        BY <1>4
    <2> QED
        BY <2>1, <2>2, <2>3 DEF Caller, UserIs, HasData
<1>8. \A p \in DOMAIN child : Attempt(p)
    BY <1>4
<1>9. \A s \in Slots : Entry(s)
    BY <1>1, <1>4 DEF Entry, Own
<1> QED
    BY <1>5, <1>6, <1>7, <1>8, <1>9 DEF CalldInv, Sound

\* Nothing happens, or the idle server sleeps on.
LEMMA CalldInvStutter == ASSUME CalldInv, UNCHANGED vars PROVE CalldInv'
<1>1. Types'
    BY DEF CalldInv, Types, vars, server, streams
<1>2. Reported => Reported'
    BY DEF Reported, Readable, HasData, HungUp, vars, server, streams
<1> QED
    BY <1>1, <1>2, ControlKeeps DEF Sound, vars, server, streams

\* Every step keeps the invariant.
LEMMA CalldInvStep == CalldInv /\ [Next]_vars => CalldInv'
<1> SUFFICES ASSUME CalldInv, [Next]_vars PROVE CalldInv'
    OBVIOUS
<1>1. CASE Server
    BY <1>1, TopKeeps, SelectKeeps, EintrKeeps, AcceptKeeps, ReadyKeeps, ReadRequestKeeps, ReadEofKeeps,
       ScanNextKeeps, SetLockKeeps, TellChildKeeps, CdFailedKeeps, CdNextKeeps, CdEndKeeps DEF Server
<1>2. CASE SigChld
    BY <1>2, SigChldKeeps
<1>3. CASE \E p \in DOMAIN child : Child(p)
    BY <1>3, TtyOpenKeeps, TtyDialKeeps, SendLineKeeps, ExitOKKeeps DEF Child
<1>4. CASE \E c \in Clients : Call(c) \/ HangUp(c) \/ Quit(c)
    BY <1>4, ConnectKeeps, SendArgsKeeps, AnswerKeeps, ClosedKeeps, HangUpKeeps, QuitKeeps DEF Call
<1>5. CASE UNCHANGED vars
    BY <1>5, CalldInvStutter
<1> QED
    BY <1>1, <1>2, <1>3, <1>4, <1>5 DEF Next

\* The invariant holds in every behaviour.
LEMMA CalldInvHolds == Spec => []CalldInv
BY CalldInvInit, CalldInvStep, PTL DEF Spec

\* Who is there and has a use for a line has it locked for a child of his own.
LEMMA LinesAreSafe == CalldInv => LinesSafe
<1> SUFFICES ASSUME CalldInv, NoneLeftDialing PROVE LinesSafe
    BY DEF LinesSafe, LineExclusive, LocksOwned
<1>1. Types /\ Sound
    BY DEF CalldInv
<1>2. ASSUME NEW l \in Lines, NEW c \in UsersOf(l)
      PROVE  \E p \in DOMAIN child : child[p].fd = c /\ lock[l] = p
    <2>1. c \in Clients /\ Present(c)
        BY DEF UsersOf
    <2>2. CASE user[c].got # 0 /\ LineOf(user[c].got) = l
        <3>1. PICK p \in DOMAIN child : child[p].fd = c /\ Passed(p) /\ child[p].sys = user[c].got
            BY <1>1, <2>1, <2>2 DEF Sound, Caller
        <3> QED
            BY <1>1, <2>1, <2>2, <3>1 DEF Sound, Attempt, Present, UserIs
    <2>3. CASE \E p \in DOMAIN child : /\ child[p].fd = c /\ LineOf(child[p].sys) = l
                                       /\ child[p].st \in {"open", "dial", "spin", "send", "sent"}
        <3>1. PICK p \in DOMAIN child : /\ child[p].fd = c /\ LineOf(child[p].sys) = l
                                        /\ child[p].st \in {"open", "dial", "spin", "send", "sent"}
            BY <2>3
        <3> QED
            BY <1>1, <2>1, <3>1 DEF Sound, Attempt, Present, UserIs, Passed
    <2> QED
        BY <2>2, <2>3 DEF UsersOf
<1>3. LineExclusive
    BY <1>2 DEF LineExclusive
<1>4. LocksOwned
    <2> SUFFICES ASSUME NEW l \in Lines, lock[l] # 0
                 PROVE  \E s \in Slots : client[s].fd # NoFd /\ client[s].pid = lock[l]
        BY DEF LocksOwned
    <2>1. PICK s \in Slots : Own(s) /\ client[s].pid = lock[l]
        BY <1>1 DEF Sound, Locks
    <2>2. client[s].pid \in Nat /\ client[s].pid <= Len(child) /\ child \in Seq(Children)
        BY <1>1, EntryType DEF Sound, Table, Types
    <2>3. child[client[s].pid].fd \in Clients
        BY <1>1, <2>1, <2>2, ChildType DEF Own
    <2> QED
        BY <2>1, <2>3, ParamAssumption DEF Own
<1> QED
    BY <1>3, <1>4 DEF LinesSafe

\* Who has an answer has it from his own child, or from a whole walk of the Systems file.
LEMMA AnswerIsOwn == CalldInv => OwnAnswer
<1> SUFFICES ASSUME CalldInv, NoneLeftDialing, NEW c \in Clients
             PROVE  /\ user[c].got # 0 => Suits(user[c].got, user[c].want)
                    /\ user[c].err = "notfound" => \A k \in DOMAIN Systems : ~Suits(k, user[c].want)
    BY DEF OwnAnswer
<1>1. Sound
    BY DEF CalldInv
<1>2. ASSUME user[c].got # 0 PROVE Suits(user[c].got, user[c].want)
    <2>1. PICK p \in DOMAIN child : child[p].fd = c /\ child[p].sys = user[c].got
        BY <1>1, <1>2 DEF Sound, Caller
    <2> QED
        BY <1>1, <2>1 DEF Sound, Attempt
<1> QED
    BY <1>1, <1>2 DEF Sound, Caller, NoSystem

\* For any number of clients and any files, as long as nobody is killed who has a
\* child dialing: a device is used by one client, and every lock is that of a client
\* that is in the table, however attempts fail and signals arrive.
THEOREM DevicesExclusive == Spec => []LinesSafe
BY CalldInvHolds, LinesAreSafe, PTL

\* Under the same condition: the line that a client gets is to a system that it has
\* asked for, and it hears that there is none only when there is none.
THEOREM OwnAnswerHolds == Spec => []OwnAnswer
BY CalldInvHolds, AnswerIsOwn, PTL

=============================================================================
