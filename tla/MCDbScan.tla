------------------------------ MODULE MCDbScan ------------------------------
(* A scan of three records beside a writer, for TLC. *)
EXTENDS DbScan

CONSTANTS p1, p2, a, b, c, a1, b1, b2, c1

MCHash    == [k \in Keys |-> 1]
MCKeyLen  == [k \in Keys |-> 1]
MCDatLen  == [v \in Vals |-> IF v = b2 THEN 3 ELSE 2]
MCData    == [k \in Keys |-> CASE k = a -> {a1} [] k = b -> {b1, b2} [] OTHER -> {c1}]
MCPreload == <<[key |-> c, val |-> c1, deleted |-> TRUE],
               [key |-> a, val |-> a1, deleted |-> FALSE],
               [key |-> b, val |-> b1, deleted |-> FALSE]>>

\* p1 scans the file to its end; p2 changes it.
MCOps   == [p \in Procs |-> IF p = p1 THEN {"nextrec", "rewind"} ELSE {"delete", "store"}]
MCCalls == [p \in Procs |-> IF p = p1 THEN 5 ELSE 3]

=============================================================================
