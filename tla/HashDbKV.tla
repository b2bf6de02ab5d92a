------------------------------ MODULE HashDbKV ------------------------------
(***************************************************************************)
(* The hash database implements the key-value store of KVStore.            *)
(*                                                                         *)
(* A delete, and a store that must move the record, act when the old data  *)
(* is overwritten with blanks (DelDat); a store of a new key when the      *)
(* record is linked to its chain (Link); every other call when it returns. *)
(***************************************************************************)
EXTENDS HashDb

\* The record of key k on its chain.
Linked(k) == {o \in Records : RecAt(o).key = k /\ ~InHand(o)}

\* p has deleted the record it is replacing, or is deleting it.
Acted(p) ==
    /\ pc[p] \in {"delidx", "delfree", "delunlink", "reread", "locknewdat", "newdat",
                  "locknewidx", "newidx", "link"}
    /\ h[p].key = call[p].key

Moving(k) == {p \in Procs : Acted(p) /\ call[p].op \in Stores /\ call[p].key = k}

kvBar ==
    [k \in Keys |->
        IF Moving(k) # {} THEN call[CHOOSE p \in Moving(k) : TRUE].val
        ELSE IF Linked(k) # {} THEN dat[RecAt(CHOOSE o \in Linked(k) : TRUE).datoff].val
        ELSE Blank]

phaseBar == [p \in Procs |-> CASE pc[p] \in {"idle", "exited"} -> pc[p]
                               [] Acted(p) -> "acted"
                               [] OTHER -> "called"]

rcBar == [p \in Procs |-> IF Acted(p) THEN <<0>> ELSE h[p].rc]

Abstract == INSTANCE KVStore WITH kv <- kvBar, phase <- phaseBar, rc <- rcBar

\* Fetches, stores and deletes of any number of processes at once behave as if
\* each took place at one moment on one map: the library's locking makes every
\* db_fetch, db_store and db_delete atomic.
ImplementsKVStore == Abstract!Spec

=============================================================================
