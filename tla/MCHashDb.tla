------------------------------ MODULE MCHashDb ------------------------------
(* Instances of the hash database for TLC. *)
EXTENDS HashDbKV

CONSTANTS p1, p2, a, b, c, a1, a2, b1, c1

\* Keys a and b share a chain.
MCHash == [k \in Keys |-> IF k = c THEN 2 ELSE 1]

\* All keys have one length.  a2 and c1 are longer than a1 and b1.
MCKeyLen == [k \in Keys |-> 1]
MCDatLen == [v \in Vals |-> IF v \in {a1, b1} THEN 2 ELSE 3]
MCData   == [k \in Keys |-> CASE k = a -> {a1, a2} [] k = b -> {b1} [] OTHER -> {c1}]

\* A long record to reuse, and two records on a chain, a in front of b.
MCPreload == <<[key |-> b, val |-> b1, deleted |-> FALSE],
               [key |-> c, val |-> c1, deleted |-> TRUE],
               [key |-> a, val |-> a1, deleted |-> FALSE]>>

MCAllOps   == [p \in Procs |-> AllOps]
MCTwoCalls == [p \in Procs |-> 2]

=============================================================================
