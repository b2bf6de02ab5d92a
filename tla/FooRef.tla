------------------------------- MODULE FooRef -------------------------------
(***************************************************************************)
(* Reference-counted objects shared by threads: threads/mutex1.c (a mutex  *)
(* in each object), mutex2.c (and one for the hash table) and mutex3.c     *)
(* (the table's mutex for the counts too).  What runs under one mutex,     *)
(* from lock to unlock, is one step.                                       *)
(***************************************************************************)
EXTENDS Naturals, FiniteSets, FiniteSetsExt, SequencesExt

CONSTANTS
    Threads,
    Foos,        \* addresses that malloc can return
    NoFoo,       \* a null pointer
    MaxRefs      \* a bound on the references that a thread has to an object

VARIABLES
    ver,         \* the program: 1, 2 or 3 for mutex1.c, mutex2.c, mutex3.c
    live,        \* objects that are allocated
    f_count,     \* the f_count of each
    fh,          \* the hash table: the objects on its lists
    refs,        \* refs[t][o]: references that t has
    fpc,         \* where t is in foo_rele, and with which object
    segv         \* a null pointer was followed

ASSUME FooAssumption == NoFoo \notin Foos /\ MaxRefs \in Nat

fooVars == <<ver, live, f_count, fh, refs, fpc, segv>>

Idle      == [at |-> "idle", fp |-> NoFoo]

Ready(t)  == fpc[t].at = "idle" /\ ~segv
Has(t, o) == refs[t][o] > 0
Give(t, o) == refs' = [refs EXCEPT ![t][o] = @ + 1]
Drop(t, o) == refs' = [refs EXCEPT ![t][o] = @ - 1]

\* foo_alloc.  In mutex2.c and mutex3.c the list's head is assigned to itself
\* ("fh[idx] = fp->f_next"): the object does not get into the table.  mutex3.c
\* leaves the object's own mutex locked, which none of its functions takes.
FooAlloc(t) ==
    /\ Ready(t)
    /\ \E o \in Foos \ live :
          /\ live' = live \cup {o}
          /\ f_count' = [f_count EXCEPT ![o] = 1]
          /\ Give(t, o)
    /\ UNCHANGED <<ver, fh, fpc, segv>>

MutHoldLost(t, u, o) ==
    /\ Ready(t) /\ Has(t, o) /\ refs[u][o] < MaxRefs
    /\ Give(u, o)
    /\ UNCHANGED <<ver, live, f_count, fh, fpc, segv>>

\* foo_hold: a thread with a reference makes one more, for u.
FooHold(t, u, o) ==
    /\ Ready(t) /\ Has(t, o) /\ refs[u][o] < MaxRefs
    /\ f_count' = [f_count EXCEPT ![o] = @ + 1]
    /\ Give(u, o)
    /\ UNCHANGED <<ver, live, fh, fpc, segv>>

\* foo_find walks a list of the table, and adds a reference to what it finds.
FooFind(t) ==
    /\ ver # 1 /\ Ready(t)
    /\ LET found == Range(fh)
       IN  IF found = {} THEN UNCHANGED <<f_count, refs>>
           ELSE \E o \in found : f_count' = [f_count EXCEPT ![o] = @ + 1] /\ Give(t, o)
    /\ UNCHANGED <<ver, live, fh, fpc, segv>>

-----------------------------------------------------------------------------
(* foo_rele. *)

\* The object is unlinked from its list; the walk to its predecessor follows a
\* null pointer if it is on none.
Unlink(o) ==
    IF o \in Range(fh) THEN fh' = SelectSeq(fh, LAMBDA x : x # o) /\ UNCHANGED segv
                       ELSE segv' = TRUE /\ UNCHANGED fh

\* mutex1.c, and the first look of mutex2.c.
Rele(t, o) ==
    /\ ver \in {1, 2} /\ Ready(t) /\ Has(t, o)
    /\ \/ /\ f_count[o] = 1 /\ ver = 2
          /\ fpc' = [fpc EXCEPT ![t] = [at |-> "relock", fp |-> o]]
          /\ UNCHANGED <<f_count, refs>>
       \/ /\ f_count[o] # 1 \/ ver = 1
          /\ f_count' = [f_count EXCEPT ![o] = @ - 1] /\ Drop(t, o)
          /\ fpc' = IF f_count[o] = 1 THEN [fpc EXCEPT ![t] = [at |-> "free", fp |-> o]] ELSE fpc
    /\ UNCHANGED <<ver, live, fh, segv>>

\* mutex2.c: with both locks the count is looked at again.
Relock(t) ==
    LET o == fpc[t].fp
    IN  /\ fpc[t].at = "relock" /\ ~segv
        /\ IF f_count[o] # 1
           THEN /\ f_count' = [f_count EXCEPT ![o] = @ - 1]
                /\ fpc' = [fpc EXCEPT ![t] = Idle] /\ UNCHANGED <<fh, segv>>
           ELSE /\ Unlink(o) /\ UNCHANGED f_count
                /\ fpc' = [fpc EXCEPT ![t] = [at |-> "free", fp |-> o]]
        /\ Drop(t, o)
        /\ UNCHANGED <<ver, live>>

\* mutex3.c.
Rele3(t, o) ==
    /\ ver = 3 /\ Ready(t) /\ Has(t, o)
    /\ f_count' = [f_count EXCEPT ![o] = @ - 1] /\ Drop(t, o)
    /\ IF f_count[o] = 1 THEN Unlink(o) /\ fpc' = [fpc EXCEPT ![t] = [at |-> "free", fp |-> o]]
                         ELSE UNCHANGED <<fh, segv, fpc>>
    /\ UNCHANGED <<ver, live>>

\* pthread_mutex_destroy and free.
Free(t) ==
    /\ fpc[t].at = "free" /\ ~segv
    /\ live' = live \ {fpc[t].fp}
    /\ fpc' = [fpc EXCEPT ![t] = Idle]
    /\ UNCHANGED <<ver, f_count, fh, refs, segv>>

FooInit(versions) ==
    /\ ver \in versions /\ live = {} /\ fh = <<>> /\ segv = FALSE
    /\ f_count = [o \in Foos |-> 0]
    /\ refs = [t \in Threads |-> [o \in Foos |-> 0]]
    /\ fpc = [t \in Threads |-> Idle]

FooNext ==
    \E t \in Threads :
        \/ FooAlloc(t) \/ FooFind(t) \/ Relock(t) \/ Free(t)
        \/ \E o \in Foos : Rele(t, o) \/ Rele3(t, o) \/ \E u \in Threads : FooHold(t, u, o)

-----------------------------------------------------------------------------
\* The references to o, each with its thread and a number of its own.
RefsTo(o) == UNION {{t} \X (1 .. refs[t][o]) : t \in Threads}

\* Whoever has a reference to an object, or is in the middle of releasing it,
\* has an object that is not freed, by nobody else, and the object's count is
\* the number of references: between the two looks of mutex2.c's foo_rele and
\* before the free, too.
RefsCounted ==
    \A o \in Foos :
        LET holders  == {t \in Threads : Has(t, o)}
            releases == {t \in Threads : fpc[t].fp = o}
        IN  /\ holders \cup releases # {} => o \in live
            /\ ~segv /\ o \in live =>
                  f_count[o] = Cardinality(RefsTo(o))
            /\ Cardinality({t \in releases : fpc[t].at = "free"}) <= 1

=============================================================================
