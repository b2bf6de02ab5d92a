---------------------------- MODULE Philosopher ----------------------------
(***************************************************************************)
(* The dining philosophers of Exp_4: processes that share forks, each fork *)
(* a lock file (lock.c) which is there while somebody holds the fork.      *)
(* A process that finds the file there sleeps a second and tries again, so *)
(* it may miss any number of moments when the fork was free.               *)
(***************************************************************************)
EXTENDS Integers

CONSTANTS
    N,          \* number of philosophers and forks (_PHILO_NUM_)
    MaxKills,   \* bound: processes killed one by one
    MaxRuns     \* bound: runs of the program in one directory

ASSUME ParamAssumption ==
    /\ N \in Nat /\ N >= 2
    /\ MaxKills \in Nat
    /\ MaxRuns \in Nat \ {0}

P    == 0 .. N - 1
Runs == 1 .. MaxRuns
Who  == Runs \X P      \* philosopher i of run r is <<r, i>>

VARIABLES
    file,   \* the forks whose lock file exists
    pc,     \* pc[w]: where philosopher w is
    nap,    \* those sleeping in lock() after a failed open
    main,   \* main[r]: where the parent of run r is
    n,      \* n[r]: its loop counter
    runs,   \* runs started
    beside, \* history: the latest run was started beside living processes
    kills

proc == <<main, n, runs, beside>>
vars == <<file, pc, nap, proc, kills>>

\* takeFork and putFork take and put the forks in this order: the last
\* philosopher reaches across.
MutSameHand(i) == <<i, (i + 1) % N>>
Order(i)       == IF i = N - 1 THEN <<0, i>> ELSE <<i, i + 1>>
First(w)  == Order(w[2])[1]
Second(w) == Order(w[2])[2]

Want(w) == IF pc[w] = "first" THEN First(w) ELSE Second(w)

Alive(w) == pc[w] \notin {"unborn", "dead"}

Goto(w, l) == pc' = [pc EXCEPT ![w] = l]

-----------------------------------------------------------------------------
(* philosopher *)

Think(w) ==
    /\ pc[w] = "thinking"
    /\ Goto(w, "first")
    /\ UNCHANGED <<file, nap, proc, kills>>

MutNotExclusive(w) ==
    /\ pc[w] \in {"first", "second"} /\ w \notin nap
    /\ file' = file \cup {Want(w)}
    /\ Goto(w, IF pc[w] = "first" THEN "second" ELSE "eating")
    /\ UNCHANGED <<nap, proc, kills>>

\* open with O_CREAT | O_EXCL creates the file or fails, in one step.
Lock(w) ==
    /\ pc[w] \in {"first", "second"} /\ w \notin nap
    /\ Want(w) \notin file
    /\ file' = file \cup {Want(w)}
    /\ Goto(w, IF pc[w] = "first" THEN "second" ELSE "eating")
    /\ UNCHANGED <<nap, proc, kills>>

LockFails(w) ==
    /\ pc[w] \in {"first", "second"} /\ w \notin nap
    /\ Want(w) \in file
    /\ nap' = nap \cup {w}
    /\ UNCHANGED <<file, pc, proc, kills>>

Wake(w) ==
    /\ w \in nap
    /\ nap' = nap \ {w}
    /\ UNCHANGED <<file, pc, proc, kills>>

\* unlink removes the file of that name, whoever made it.
PutFirst(w) ==
    /\ pc[w] = "eating"
    /\ file' = file \ {First(w)}
    /\ Goto(w, "put")
    /\ UNCHANGED <<nap, proc, kills>>

PutSecond(w) ==
    /\ pc[w] = "put"
    /\ file' = file \ {Second(w)}
    /\ Goto(w, "thinking")
    /\ UNCHANGED <<nap, proc, kills>>

-----------------------------------------------------------------------------
(* main *)

MutLastForkForgotten(r) ==
    /\ main[r] = "init"
    /\ file' = file \ {n[r]}
    /\ n' = [n EXCEPT ![r] = IF n[r] = N - 2 THEN 0 ELSE n[r] + 1]
    /\ main' = [main EXCEPT ![r] = IF n[r] = N - 2 THEN "fork" ELSE "init"]
    /\ UNCHANGED <<pc, nap, runs, beside, kills>>

InitLock(r) ==
    /\ main[r] = "init"
    /\ file' = file \ {n[r]}
    /\ n' = [n EXCEPT ![r] = IF n[r] = N - 1 THEN 0 ELSE n[r] + 1]
    /\ main' = [main EXCEPT ![r] = IF n[r] = N - 1 THEN "fork" ELSE "init"]
    /\ UNCHANGED <<pc, nap, runs, beside, kills>>

\* A philosopher whose fork() fails is not there: main does not look.
Fork(r) ==
    /\ main[r] = "fork"
    /\ \E l \in {"thinking", "unborn"} : Goto(<<r, n[r]>>, l)
    /\ n' = [n EXCEPT ![r] = IF n[r] = N - 1 THEN 0 ELSE n[r] + 1]
    /\ main' = [main EXCEPT ![r] = IF n[r] = N - 1 THEN "wait" ELSE "fork"]
    /\ UNCHANGED <<file, nap, runs, beside, kills>>

\* wait returns when a child has ended, or at once when there is none; main
\* then returns and leaves the other philosophers to themselves.
Wait(r) ==
    /\ main[r] = "wait"
    /\ (\E i \in P : pc[<<r, i>>] = "dead") \/ (\A i \in P : pc[<<r, i>>] = "unborn")
    /\ main' = [main EXCEPT ![r] = "gone"]
    /\ UNCHANGED <<file, pc, nap, n, runs, beside, kills>>

-----------------------------------------------------------------------------
(* The outside: a philosopher or a parent is killed; Ctrl-C ends a parent   *)
(* and its children; the program is run again in the same directory, beside *)
(* what is left of the earlier runs.                                        *)

Kill(w) ==
    /\ kills < MaxKills /\ Alive(w)
    /\ Goto(w, "dead")
    /\ nap' = nap \ {w}
    /\ kills' = kills + 1
    /\ UNCHANGED <<file, proc>>

Parent(r) == main[r] \in {"init", "fork", "wait"}

KillParent(r) ==
    /\ kills < MaxKills /\ Parent(r)
    /\ main' = [main EXCEPT ![r] = "gone"]
    /\ kills' = kills + 1
    /\ UNCHANGED <<file, pc, nap, n, runs, beside>>

Interrupt(r) ==
    /\ Parent(r)
    /\ pc' = [w \in Who |-> IF w[1] = r THEN "dead" ELSE pc[w]]
    /\ nap' = {w \in nap : w[1] # r}
    /\ main' = [main EXCEPT ![r] = "gone"]
    /\ n' = [n EXCEPT ![r] = 0]
    /\ UNCHANGED <<file, runs, beside, kills>>

RunAgain ==
    /\ runs < MaxRuns
    /\ runs' = runs + 1
    /\ main' = [main EXCEPT ![runs + 1] = "init"]
    /\ beside' = ((\E r \in Runs : Parent(r)) \/ (\E w \in Who : Alive(w)))
    /\ UNCHANGED <<file, pc, nap, n, kills>>

\* The directory may have lock files of an earlier run.
Init ==
    /\ file \in SUBSET P
    /\ pc = [w \in Who |-> "unborn"]
    /\ nap = {}
    /\ main = [r \in Runs |-> IF r = 1 THEN "init" ELSE "none"]
    /\ n = [r \in Runs |-> 0]
    /\ runs = 1 /\ beside = FALSE
    /\ kills = 0

Eat(w)  == Think(w) \/ Lock(w) \/ LockFails(w) \/ Wake(w) \/ PutFirst(w) \/ PutSecond(w)
Main(r) == InitLock(r) \/ Fork(r) \/ Wait(r)

\* Nothing happens any more: nobody was born, or everybody was killed.
Over ==
    /\ \A r \in Runs : main[r] = "gone"
    /\ \A w \in Who : ~Alive(w)
    /\ UNCHANGED vars

Next ==
    \/ \E w \in Who : Eat(w) \/ Kill(w)
    \/ \E r \in Runs : Main(r) \/ KillParent(r) \/ Interrupt(r)
    \/ RunAgain
    \/ Over

\* Each process is scheduled for ever; a failed open is a step like another.
Fairness == (\A r \in Runs : WF_vars(Main(r))) /\ (\A w \in Who : WF_vars(Eat(w)))

Spec == Init /\ [][Next]_vars /\ Fairness

-----------------------------------------------------------------------------
Labels == {"unborn", "thinking", "first", "second", "eating", "put", "dead"}

TypeOK ==
    /\ file \subseteq P
    /\ pc \in [Who -> Labels]
    /\ nap \subseteq Who
    /\ main \in [Runs -> {"none", "init", "fork", "wait", "gone"}]
    /\ n \in [Runs -> P]
    /\ runs \in Runs /\ beside \in BOOLEAN
    /\ kills \in 0 .. MaxKills

\* The forks that w holds.
Holds(w) ==
    CASE pc[w] = "second" -> {First(w)}
      [] pc[w] = "eating" -> {First(w), Second(w)}
      [] pc[w] = "put"    -> {Second(w)}
      [] OTHER            -> {}

\* No fork is in two hands: neighbours never eat together, through stale lock
\* files, the death of any process at any point, and new runs of the program -
\* unless the latest run was started while a process of an earlier one lived: its
\* initlock (lock.c:10) unlinks the forks which those hold, be they the
\* children of a running parent or orphans, whom main leaves as soon as one child
\* has died (philosopher.c:84).
ForksExclusive ==
    ~beside => \A w, v \in Who : w # v => Holds(w) \cap Holds(v) = {}

\* The latest run has laid the forks out.
LaidOut == main[runs] \in {"fork", "wait"} \/ \E i \in P : Alive(<<runs, i>>)

\* Again unless the latest run was started beside living processes: a held
\* fork has its file, and once the forks are laid out a file without a holder is
\* one that a philosopher of this run left when he was killed (lock.c never
\* takes it away).
FilesAreForks ==
    ~beside =>
        /\ \A w \in Who : Holds(w) \subseteq file
        /\ LaidOut /\ (\A i \in P : pc[<<runs, i>>] # "dead") =>
              file = UNION {Holds(w) : w \in Who}

\* What TLC goes on from: with at most two runs no start makes `beside` FALSE
\* again, and then nothing is promised any more.
NotBeside == ~beside

\* The asymmetric order leaves no deadlock: as long as there are philosophers,
\* none was killed with a fork in his hand, and no run was started beside
\* another, somebody eats again and again.
Progress ==
    \/ <>[](\A w \in Who : ~Alive(w))
    \/ <>(kills > 0 \/ beside)
    \/ []<>(\E w \in Who : pc[w] = "eating")

\* "No philosopher may starve" (report line 14); the report reduces starving
\* to deadlock (line 22), but a polling philosopher can also be passed over.
NoStarvation == \A w \in Who : pc[w] = "first" ~> pc[w] = "eating"
=============================================================================
