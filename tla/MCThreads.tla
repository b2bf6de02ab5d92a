----------------------------- MODULE MCThreads ------------------------------
(* The thread examples and the semaphore, one at a time, for TLC. *)
EXTENDS FooRef, JobQueue, CondWait, Semaph

CONSTANTS t1, t2, t3, o1, o2, a, b, c, w1, w2, m1, m2, m3, p1, p2, p3,
          Programs    \* the ones to consider

VARIABLE program    \* the one that runs

vars == <<program, fooVars, jobVars, condVars, semVars>>

Init ==
    /\ program \in Programs
    /\ FooInit(IF program = "foo" THEN {1, 2, 3} ELSE {1})
    /\ queue_init /\ CondInit /\ SemInit

Next ==
    \/ program = "foo" /\ FooNext /\ UNCHANGED <<program, jobVars, condVars, semVars>>
    \/ program = "jobs" /\ JobNext /\ UNCHANGED <<program, fooVars, condVars, semVars>>
    \/ program = "msgs" /\ MsgNext /\ UNCHANGED <<program, fooVars, jobVars, semVars>>
    \/ program = "suspend" /\ SigNext /\ UNCHANGED <<program, fooVars, jobVars, semVars>>
    \/ program = "semaph" /\ SemNext /\ UNCHANGED <<program, fooVars, jobVars, condVars>>

\* Threads run: those that process messages, the enqueuer once it has put one in,
\* sigwait's and main.  Every process in a call of the semaphore or inside goes
\* on; semop wakes its waiters.
Fairness ==
    /\ \A w \in Workers : WF_condVars(program = "msgs" /\ ProcessMsg(w))
    /\ \A m \in Msgs : WF_condVars(program = "msgs" /\ Signal(m))
    /\ WF_condVars(program = "suspend" /\ Thread) /\ WF_condVars(program = "suspend" /\ Main)
    /\ \A p \in Procs : WF_semVars(program = "semaph" /\ Step(p))

Spec == Init /\ [][Next]_vars /\ Fairness

=============================================================================
