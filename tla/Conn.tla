-------------------------------- MODULE Conn --------------------------------
(***************************************************************************)
(* Connections between clients and a server by way of a well-known name,   *)
(* and the descriptors passed over them: cli_conn, serv_listen,            *)
(* serv_accept, send_fd, send_err and recv_fd of lib.  A connection is a   *)
(* pair of streams; text for the user's terminal that goes before the      *)
(* final message of recv_fd's protocol is left out.                        *)
(***************************************************************************)
EXTENDS Naturals, Sequences

CONSTANT Clients

VARIABLES
    conn,      \* conn[c]: the two ends of client c's connection and what they have not read
    backlog    \* clients that have connected and are not accepted, in order

streams == <<conn, backlog>>

NewConn == [cli |-> "none", srv |-> "none", req |-> <<>>, back |-> <<>>]

\* The final message of the protocol: a descriptor, or an error status.
AnFd(x)   == [ok |-> TRUE,  is |-> x]
AnErr(e)  == [ok |-> FALSE, is |-> e]

\* serv_listen: nobody has connected.
ServListen == conn = [c \in Clients |-> NewConn] /\ backlog = <<>>

\* cli_conn, to a server that listens.
CliConn(c) ==
    /\ conn' = [conn EXCEPT ![c] = [NewConn EXCEPT !.cli = "open"]]
    /\ backlog' = Append(backlog, c)

\* serv_accept: the first client of the queue.
ServAccept(c) ==
    /\ backlog # <<>> /\ c = Head(backlog)
    /\ conn' = [conn EXCEPT ![c].srv = "open"]
    /\ backlog' = Tail(backlog)

CliOpen(c)   == conn[c].cli = "open"
SrvOpen(c)   == conn[c].srv = "open"
HasData(c)   == conn[c].req # <<>>
HungUp(c)    == conn[c].cli = "closed"
Readable(c)  == HasData(c) \/ HungUp(c)

\* Each of these is the state of all connections, k, after one more call.
Sent(k, c, r)     == [k EXCEPT ![c].req = Append(@, r)]
Taken(k, c)       == [k EXCEPT ![c].req = Tail(@)]
SendFd(k, c, x)   == [k EXCEPT ![c].back = Append(@, AnFd(x))]
SendErr(k, c, e)  == [k EXCEPT ![c].back = Append(@, AnErr(e))]
RecvFd(k, c)      == [k EXCEPT ![c].back = Tail(@)]
SrvClose(k, c)    == [k EXCEPT ![c].srv = "closed"]
CliClose(k, c)    == [k EXCEPT ![c].cli = "closed", ![c].back = <<>>]

=============================================================================
