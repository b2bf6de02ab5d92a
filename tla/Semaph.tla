------------------------------- MODULE Semaph -------------------------------
(***************************************************************************)
(* lib/semaph.c: a semaphore with a value, a count of its users and a lock *)
(* in one System V set, made by the first process that wants it and        *)
(* removed by the last.  One step is one system call.  The kernel's        *)
(* semaphores (semget, semop with SEM_UNDO, semctl) are modelled from      *)
(* their use: one key; a set gets a new id each time it is made.           *)
(***************************************************************************)
EXTENDS Naturals, FiniteSets

CONSTANTS
    Creators,    \* processes that call sem_create
    Openers,     \* processes that call sem_open
    InitVal,     \* the initial value they ask for
    BIGCOUNT,
    Uses,        \* how often a process takes the semaphore up (a bound)
    Mortal       \* processes that may exit anywhere, without sem_close

VARIABLES
    cur,         \* the id of the set that exists, 0 if none does
    made,        \* ids given out
    sem,         \* the set: its members [0] (val), [1] (cnt), [2] (lck)
    adj,         \* adj[p]: what the kernel will undo when p exits
    id,          \* id[p]: the id that p got from semget
    pc,          \* where p is
    left         \* how many uses p has left

semVars == <<cur, made, sem, adj, id, pc, left>>

Procs == Creators \cup Openers

ASSUME SemAssumption ==
    /\ IsFiniteSet(Procs) /\ Mortal \subseteq Procs /\ Creators \cap Openers = {}
    /\ InitVal \in Nat \ {0} /\ Uses \in Nat /\ BIGCOUNT \in Nat
    /\ Cardinality(Procs) < BIGCOUNT

Zero   == [val |-> 0, cnt |-> 0, lck |-> 0]
Goto(p, l) == pc' = [pc EXCEPT ![p] = l]
At(p, l)   == pc[p] = l
Valid(p)   == id[p] = cur

\* err_sys, err_dump, exit or a signal: the kernel undoes p's operations.
Dies(p) ==
    /\ Goto(p, "dead")
    /\ sem' = IF Valid(p) THEN [val |-> sem.val + adj[p].val, cnt |-> sem.cnt + adj[p].cnt,
                                lck |-> sem.lck - adj[p].lck]
                          ELSE sem
    /\ adj' = [adj EXCEPT ![p] = Zero]
    /\ UNCHANGED <<cur, made, id, left>>

-----------------------------------------------------------------------------
(* sem_create. *)

\* semget makes a set, with all members 0, if there is none.
Semget(p) ==
    /\ At(p, "create")
    /\ IF cur # 0 THEN id' = [id EXCEPT ![p] = cur] /\ UNCHANGED <<cur, made, sem>>
       ELSE /\ made' = made + 1 /\ cur' = made + 1 /\ sem' = Zero
            /\ id' = [id EXCEPT ![p] = made + 1]
    /\ Goto(p, "lock") /\ UNCHANGED <<adj, left>>

MutLockNoUndo(p) ==
    /\ pc[p] \in {"lock", "lockwait"} /\ Valid(p) /\ sem.lck = 0
    /\ sem' = [sem EXCEPT !.lck = 1]
    /\ Goto(p, "getval") /\ UNCHANGED <<cur, made, adj, id, left>>

\* op_lock: [2] is 0, and becomes 1.
OpLock(p) ==
    /\ pc[p] \in {"lock", "lockwait"} /\ Valid(p) /\ sem.lck = 0
    /\ sem' = [sem EXCEPT !.lck = 1] /\ adj' = [adj EXCEPT ![p].lck = 1]
    /\ Goto(p, "getval") /\ UNCHANGED <<cur, made, id, left>>

OpLockSleeps(p) ==
    /\ At(p, "lock") /\ Valid(p) /\ sem.lck # 0
    /\ Goto(p, "lockwait") /\ UNCHANGED <<cur, made, sem, adj, id, left>>

\* EINVAL: the set was removed before semop; "goto again".
OpLockAgain(p) ==
    /\ At(p, "lock") /\ ~Valid(p)
    /\ Goto(p, "create") /\ UNCHANGED <<cur, made, sem, adj, id, left>>

\* EIDRM: the set was removed while semop slept; err_sys.
OpLockRemoved(p) == At(p, "lockwait") /\ ~Valid(p) /\ Dies(p)

MutAlwaysInit(p) ==
    /\ At(p, "getval")
    /\ Goto(p, "setval0")
    /\ UNCHANGED <<cur, made, sem, adj, id, left>>

GetVal(p) ==
    /\ At(p, "getval")
    /\ Goto(p, IF sem.cnt = 0 THEN "setval0" ELSE "endcreate")
    /\ UNCHANGED <<cur, made, sem, adj, id, left>>

\* SETVAL clears the adjustments that processes have for that member.
SetVal0(p) ==
    /\ At(p, "setval0")
    /\ sem' = [sem EXCEPT !.val = InitVal] /\ adj' = [q \in Procs |-> [adj[q] EXCEPT !.val = 0]]
    /\ Goto(p, "setval1") /\ UNCHANGED <<cur, made, id, left>>

SetVal1(p) ==
    /\ At(p, "setval1")
    /\ sem' = [sem EXCEPT !.cnt = BIGCOUNT] /\ adj' = [q \in Procs |-> [adj[q] EXCEPT !.cnt = 0]]
    /\ Goto(p, "endcreate") /\ UNCHANGED <<cur, made, id, left>>

\* op_endcreate.
EndCreate(p) ==
    /\ At(p, "endcreate") /\ sem.cnt > 0
    /\ sem' = [sem EXCEPT !.cnt = @ - 1, !.lck = @ - 1]
    /\ adj' = [adj EXCEPT ![p].cnt = 1, ![p].lck = 0]
    /\ Goto(p, "using") /\ UNCHANGED <<cur, made, id, left>>

-----------------------------------------------------------------------------
(* sem_open. *)

OpenGet(p) ==
    /\ At(p, "open")
    /\ Goto(p, IF cur # 0 THEN "opop" ELSE "done")
    /\ id' = [id EXCEPT ![p] = cur]
    /\ UNCHANGED <<cur, made, sem, adj, left>>

\* op_open waits for the creator to set the counter.
OpOpen(p) ==
    /\ At(p, "opop")
    /\ \/ ~Valid(p) /\ Dies(p)
       \/ /\ Valid(p) /\ sem.cnt > 0
          /\ sem' = [sem EXCEPT !.cnt = @ - 1] /\ adj' = [adj EXCEPT ![p].cnt = 1]
          /\ Goto(p, "using") /\ UNCHANGED <<cur, made, id, left>>

-----------------------------------------------------------------------------
(* sem_op, by way of sem_wait and sem_signal. *)

SemWait(p) ==
    /\ At(p, "using")
    /\ \/ ~Valid(p) /\ Dies(p)
       \/ /\ Valid(p) /\ sem.val > 0
          /\ sem' = [sem EXCEPT !.val = @ - 1] /\ adj' = [adj EXCEPT ![p].val = 1]
          /\ Goto(p, "inside") /\ UNCHANGED <<cur, made, id, left>>

SemSignal(p) ==
    /\ At(p, "inside")
    /\ IF Valid(p) THEN /\ sem' = [sem EXCEPT !.val = @ + 1] /\ adj' = [adj EXCEPT ![p].val = 0]
                        /\ Goto(p, "closing") /\ UNCHANGED <<cur, made, id, left>>
                   ELSE Dies(p)

-----------------------------------------------------------------------------
(* sem_close. *)

\* op_close: take the lock and count the process out, in one operation.
OpClose(p) ==
    /\ At(p, "closing")
    /\ \/ ~Valid(p) /\ Dies(p)
       \/ /\ Valid(p) /\ sem.lck = 0
          /\ sem' = [sem EXCEPT !.lck = 1, !.cnt = @ + 1]
          /\ adj' = [adj EXCEPT ![p].lck = 1, ![p].cnt = 0]
          /\ Goto(p, "closeget") /\ UNCHANGED <<cur, made, id, left>>

CloseGet(p) ==
    /\ At(p, "closeget")
    /\ IF sem.cnt > BIGCOUNT THEN Dies(p)
       ELSE /\ Goto(p, IF sem.cnt = BIGCOUNT THEN "rm" ELSE "unlock")
            /\ UNCHANGED <<cur, made, sem, adj, id, left>>

\* IPC_RMID: the set is gone, with all that was to be undone for it.
SemRm(p) ==
    /\ At(p, "rm")
    /\ cur' = 0 /\ sem' = Zero /\ adj' = [q \in Procs |-> Zero]
    /\ Goto(p, "done") /\ UNCHANGED <<made, id, left>>

OpUnlock(p) ==
    /\ At(p, "unlock")
    /\ sem' = [sem EXCEPT !.lck = @ - 1] /\ adj' = [adj EXCEPT ![p].lck = 0]
    /\ Goto(p, "done") /\ UNCHANGED <<cur, made, id, left>>

-----------------------------------------------------------------------------
(* The processes: each uses the semaphore Uses times, from sem_create or     *)
(* sem_open to sem_close, and some exit in between.                          *)

Begin(p) ==
    /\ At(p, "done") /\ left[p] > 0
    /\ left' = [left EXCEPT ![p] = @ - 1]
    /\ \/ p \in Creators /\ Goto(p, "create")
       \/ p \in Openers /\ Goto(p, "open")
    /\ UNCHANGED <<cur, made, sem, adj, id>>

ExitEarly(p) == p \in Mortal /\ pc[p] \notin {"done", "dead"} /\ Dies(p)

SemInit ==
    /\ cur = 0 /\ made = 0 /\ sem = Zero
    /\ adj = [p \in Procs |-> Zero] /\ id = [p \in Procs |-> 0]
    /\ pc = [p \in Procs |-> "done"] /\ left = [p \in Procs |-> Uses]

Step(p) ==
    \/ Semget(p) \/ OpLock(p) \/ OpLockSleeps(p) \/ OpLockAgain(p) \/ OpLockRemoved(p)
    \/ GetVal(p) \/ SetVal0(p) \/ SetVal1(p) \/ EndCreate(p)
    \/ OpenGet(p) \/ OpOpen(p) \/ SemWait(p) \/ SemSignal(p)
    \/ OpClose(p) \/ CloseGet(p) \/ SemRm(p) \/ OpUnlock(p)

SemNext == \E p \in Procs : Begin(p) \/ Step(p) \/ ExitEarly(p)

-----------------------------------------------------------------------------
(* Properties. *)

\* A process that has got the set from sem_create has it until sem_close, no
\* more processes are inside (between sem_wait and sem_signal) than the initial
\* value allows, and no set is left behind when all have closed it or failed to
\* open it, although the set is made, initialised in two calls, removed and made
\* again while processes come, go and exit.  An opener may be left with a set
\* that is gone: see OpenNeedsNoLock.
SemSound ==
    /\ \A p \in Creators : pc[p] \in {"using", "inside", "closing"} => Valid(p)
    /\ Cardinality({p \in Procs : pc[p] = "inside" /\ Valid(p)}) <= InitVal
    /\ (\A p \in Procs : pc[p] = "done") => cur = 0

\* Every sem_create, sem_wait and sem_close ends, though a process may exit with
\* the lock, between the two halves of the initialisation or with the
\* semaphore itself: what it did is undone.  Only sem_open may wait for ever, for
\* a creator that has gone before it set the counter.
SemCallsEnd ==
    \A p \in Procs : pc[p] \notin {"done", "dead", "opop"} ~> pc[p] \in {"done", "dead", "opop"}

\* "Decrement the process counter.  We don't need a lock to do this" (line 189):
\* whoever has opened the set and not closed it has a set.  But a sem_close that
\* has read the counter removes the set just after sem_open has counted itself.
OpenNeedsNoLock == \A p \in Openers : pc[p] \in {"using", "inside", "closing"} => Valid(p)

=============================================================================
