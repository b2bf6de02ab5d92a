------------------------------ MODULE KVStore ------------------------------
(***************************************************************************)
(* What the hash database promises its callers: a map from keys to data    *)
(* records, on which db_fetch, db_store and db_delete act at one moment of  *)
(* the call, however many processes call at once.  Nothing is promised of  *)
(* what db_nextrec returns, nor of a process that exits in db_store except *)
(* that it loses no key but the one it was replacing.                      *)
(***************************************************************************)
EXTENDS Integers

CONSTANTS Procs, Keys, Vals, Blank,
          Requests,   \* calls: records with fields op, key and val
          NoCall

VARIABLES
    kv,      \* kv[k]: the data of key k, Blank when there is none
    phase,   \* "idle", "called", "acted" or "exited"
    call,
    rc       \* each process's result: of its last call, or of a call that acted

vars == <<kv, phase, call, rc>>

\* The answer to call c of a process, and the map that c leaves.
Has(c) == kv[c.key] # Blank

Answers(c) ==
    CASE c.op = "fetch"   -> {<<kv[c.key]>>}
      [] c.op = "delete"  -> {<<IF Has(c) THEN 0 ELSE -1>>}
      [] c.op = "insert"  -> {<<IF Has(c) THEN 1 ELSE 0>>}
      [] c.op = "replace" -> {<<IF Has(c) THEN 0 ELSE -1>>}
      [] c.op = "store"   -> {<<0>>}
      [] c.op = "nextrec" -> {<<Blank>>} \cup (Keys \X Vals)
      [] c.op = "rewind"  -> {<<>>}

Result(c) ==
    IF \/ c.op \in {"store", "delete"}
       \/ c.op = "replace" /\ Has(c)
       \/ c.op = "insert" /\ ~Has(c)
    THEN [kv EXCEPT ![c.key] = c.val]     \* c.val is Blank in a delete
    ELSE kv

-----------------------------------------------------------------------------
Init ==
    /\ kv \in [Keys -> Vals \cup {Blank}]
    /\ phase = [p \in Procs |-> "idle"]
    /\ call = [p \in Procs |-> NoCall]
    /\ rc = [p \in Procs |-> <<>>]

Invoke(p) ==
    /\ phase[p] = "idle"
    /\ phase' = [phase EXCEPT ![p] = "called"]
    /\ \E r \in Requests : call' = [call EXCEPT ![p] = r]
    /\ rc' = [rc EXCEPT ![p] = <<>>]
    /\ UNCHANGED kv

\* The call takes effect, and may return at once.
Act(p) ==
    /\ phase[p] = "called"
    /\ kv' = Result(call[p])
    /\ \E x \in Answers(call[p]) : rc' = [rc EXCEPT ![p] = x]
    /\ \/ /\ phase' = [phase EXCEPT ![p] = "acted"]
          /\ UNCHANGED call
       \/ /\ phase' = [phase EXCEPT ![p] = "idle"]
          /\ call' = [call EXCEPT ![p] = NoCall]

Return(p) ==
    /\ phase[p] = "acted"
    /\ phase' = [phase EXCEPT ![p] = "idle"]
    /\ call' = [call EXCEPT ![p] = NoCall]
    /\ UNCHANGED <<kv, rc>>

\* The process ends in a call.  The key whose record it was replacing is lost.
Quit(p) ==
    /\ phase[p] \in {"called", "acted"}
    /\ phase' = [phase EXCEPT ![p] = "exited"]
    /\ rc' = [rc EXCEPT ![p] = <<>>]
    /\ kv' = IF phase[p] = "acted" THEN [kv EXCEPT ![call[p].key] = Blank] ELSE kv
    /\ UNCHANGED call

Next == \E p \in Procs : Invoke(p) \/ Act(p) \/ Return(p) \/ Quit(p)

Spec == Init /\ [][Next]_vars

=============================================================================
