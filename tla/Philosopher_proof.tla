------------------------- MODULE Philosopher_proof -------------------------
(***************************************************************************)
(* Mutual exclusion of the forks for any number of philosophers, kills and *)
(* runs of the program.                                                    *)
(***************************************************************************)
EXTENDS Philosopher, TLAPS

\* How far each run has come: the children that main has not forked yet are not
\* there, and only who wants a fork sleeps. While no run was started beside
\* living processes, only the latest one has any, and those find the forks
\* that initlock has reached laid out.
Arrivals ==
    /\ \A w \in nap : pc[w] \in {"first", "second"}
    /\ \A r \in Runs :
          /\ r > runs => main[r] = "none" /\ n[r] = 0
          /\ main[r] \in {"none", "init"} => \A i \in P : pc[<<r, i>>] = "unborn"
          /\ main[r] = "fork" => \A i \in P : i >= n[r] => pc[<<r, i>>] = "unborn"

Alone ==
    ~beside =>
        /\ \A r \in Runs : r # runs => ~Parent(r)
        /\ \A w \in Who : w[1] # runs => ~Alive(w)
        /\ main[runs] = "init" => \A f \in file : f >= n[runs]

IInv == TypeOK /\ ForksExclusive /\ FilesAreForks /\ Arrivals /\ Alone

\* A philosopher is one of a run.
LEMMA Members ==
    /\ \A w \in Who : w[1] \in Runs /\ w[2] \in P /\ w = <<w[1], w[2]>>
    /\ \A r \in Runs, i \in P : <<r, i>> \in Who /\ <<r, i>>[1] = r /\ <<r, i>>[2] = i
BY DEF Who

\* Two different forks for each philosopher.
LEMMA TwoForks ==
    \A w \in Who : First(w) \in P /\ Second(w) \in P /\ First(w) # Second(w)
<1>1. SUFFICES ASSUME NEW w \in Who
               PROVE  First(w) \in P /\ Second(w) \in P /\ First(w) # Second(w)
    OBVIOUS
<1>2. PICK i \in P : i = w[2]
    BY Members
<1> QED
    BY <1>2, ParamAssumption DEF P, First, Second, Order

\* Who is not alive holds nothing.
LEMMA OnlyAliveHold == \A w \in Who : ~Alive(w) => Holds(w) = {}
BY DEF Alive, Holds

\* The invariant holds when the program is first run.
LEMMA IInvInit == Init => IInv
<1>1. SUFFICES ASSUME Init PROVE IInv
    OBVIOUS
<1>2. /\ 1 \in Runs /\ 0 \in P
      /\ \A w \in Who : pc[w] = "unborn" /\ ~Alive(w) /\ Holds(w) = {}
      /\ \A r \in Runs, i \in P : pc[<<r, i>>] = "unborn"
      /\ \A r \in Runs : main[r] = (IF r = 1 THEN "init" ELSE "none") /\ n[r] = 0
    BY <1>1, Members, ParamAssumption DEF Init, Alive, Holds, Runs, P
<1>3. TypeOK
    <2>1. file \subseteq P /\ pc \in [Who -> Labels] /\ nap \subseteq Who
        BY <1>1 DEF Init, Labels
    <2>2. main \in [Runs -> {"none", "init", "fork", "wait", "gone"}] /\ n \in [Runs -> P]
        BY <1>1, <1>2 DEF Init
    <2>3. runs \in Runs /\ kills \in 0 .. MaxKills
        BY <1>1, <1>2, ParamAssumption DEF Init
    <2>4. beside \in BOOLEAN
        BY <1>1 DEF Init
    <2> QED
        BY <2>1, <2>2, <2>3, <2>4 DEF TypeOK
<1>4. ForksExclusive /\ FilesAreForks
    BY <1>1, <1>2, Members DEF Init, ForksExclusive, FilesAreForks, LaidOut, Alive
<1>5. Arrivals /\ Alone
    BY <1>1, <1>2 DEF Init, Arrivals, Alone, Parent, P, Runs
<1> QED
    BY <1>3, <1>4, <1>5 DEF IInv

\* A philosopher's own steps keep every fork in one hand.
LEMMA EatKeeps ==
    ASSUME IInv, NEW w \in Who, Eat(w) \/ Kill(w)
    PROVE  IInv'
<1> USE DEF Goto
<1>1. /\ TypeOK /\ ForksExclusive /\ FilesAreForks /\ Arrivals /\ Alone /\ w \in Who
      /\ First(w) \in P /\ Second(w) \in P /\ First(w) # Second(w)
    BY TwoForks DEF IInv
<1>2. /\ main' = main /\ n' = n /\ runs' = runs /\ beside' = beside
      /\ Alive(w) /\ pc' \in [Who -> Labels]
      /\ \A v \in Who \ {w} : pc'[v] = pc[v] /\ Holds(v)' = Holds(v)
      /\ \A v \in nap' : pc'[v] \in {"first", "second"}
    <2>1. /\ main' = main /\ n' = n /\ runs' = runs /\ beside' = beside /\ Alive(w)
        BY <1>1 DEF Eat, Kill, Think, Lock, LockFails, Wake, PutFirst, PutSecond, Arrivals, proc, Alive
    <2>2. pc' = pc \/ \E l \in Labels : pc' = [pc EXCEPT ![w] = l]
        BY DEF Eat, Kill, Think, Lock, LockFails, Wake, PutFirst, PutSecond, Labels
    <2>3. pc' \in [Who -> Labels] /\ \A v \in Who \ {w} : pc'[v] = pc[v]
        BY <1>1, <2>2 DEF TypeOK
    <2>4. \A v \in Who \ {w} : Holds(v)' = Holds(v)
        BY <2>3 DEF Holds
    <2>5. \A v \in nap' : pc'[v] \in {"first", "second"}
        <3>1. \/ nap' = nap \ {w} \/ (pc' = pc /\ nap' = nap \cup {w} /\ pc[w] \in {"first", "second"})
              \/ (nap' = nap /\ w \notin nap)
            BY <1>1 DEF Eat, Kill, Think, Lock, LockFails, Wake, PutFirst, PutSecond, Arrivals
        <3> QED
            BY <1>1, <2>3, <3>1 DEF Arrivals, TypeOK
    <2> QED
        BY <2>1, <2>3, <2>4, <2>5
<1>3. Want(w) \in P /\ w[1] \in Runs /\ w[2] \in P /\ w = <<w[1], w[2]>>
    BY <1>1, Members DEF Want
<1>4. TypeOK'
    <2>1. file' \subseteq P /\ nap' \subseteq Who /\ kills' \in 0 .. MaxKills
        BY <1>1, <1>3, ParamAssumption
        DEF Eat, Kill, Think, Lock, LockFails, Wake, PutFirst, PutSecond, TypeOK
    <2> QED
        BY <1>1, <1>2, <2>1 DEF TypeOK
<1>5. Arrivals'
    <2>1. \A r \in Runs, i \in P : pc[<<r, i>>] = "unborn" => <<r, i>> \in Who \ {w}
        BY <1>2, Members DEF Alive
    <2>2. \A r \in Runs, i \in P : pc[<<r, i>>] = "unborn" => pc'[<<r, i>>] = "unborn"
        BY <1>2, <2>1
    <2> QED
        BY <1>1, <1>2, <2>2 DEF Arrivals
<1>6. SUFFICES ASSUME ~beside PROVE ForksExclusive' /\ FilesAreForks' /\ Alone'
    BY <1>2, <1>4, <1>5 DEF IInv, ForksExclusive, FilesAreForks, Alone
<1>7. w[1] = runs /\ pc[w] # "unborn" /\ main[runs] # "init"
    <2>1. w[1] = runs /\ pc[w] # "unborn"
        BY <1>1, <1>2, <1>6 DEF Alone, Alive
    <2> QED
        BY <1>1, <1>3, <2>1 DEF Arrivals
\* What the step does to the forks that w holds and to their files.
<1>8. \/ Holds(w)' = Holds(w) /\ file' = file
      \/ Want(w) \notin file /\ Holds(w)' = Holds(w) \cup {Want(w)} /\ file' = file \cup {Want(w)}
      \/ \E f \in Holds(w) : Holds(w)' = Holds(w) \ {f} /\ file' = file \ {f}
      \/ Holds(w)' = {} /\ file' = file /\ pc'[w] = "dead"
    <2>1. CASE Think(w) \/ LockFails(w) \/ Wake(w)
        BY <1>1, <2>1 DEF Think, LockFails, Wake, Holds, TypeOK
    <2>2. CASE Lock(w)
        BY <1>1, <2>2 DEF Lock, Want, Holds, TypeOK
    <2>3. CASE PutFirst(w) \/ PutSecond(w)
        BY <1>1, <2>3 DEF PutFirst, PutSecond, Holds, TypeOK
    <2>4. CASE Kill(w)
        BY <1>1, <2>4 DEF Kill, Holds, TypeOK
    <2> QED
        BY <2>1, <2>2, <2>3, <2>4 DEF Eat
<1>9. ForksExclusive'
    <2>1. \A v \in Who : v # w => Holds(v) \subseteq file /\ Holds(v) \cap Holds(w) = {}
        BY <1>1, <1>6 DEF FilesAreForks, ForksExclusive
    <2>2. \A v \in Who : v # w => Holds(v)' \cap Holds(w)' = {}
        BY <1>2, <1>8, <2>1
    <2> QED
        BY <1>1, <1>2, <1>6, <2>2 DEF ForksExclusive
<1>10. Alone'
    <2>1. \A v \in Who : v[1] # runs => v \in Who \ {w} /\ ~Alive(v)
        BY <1>1, <1>6, <1>7 DEF Alone
    <2>2. \A v \in Who : v[1] # runs => ~Alive(v)'
        BY <1>2, <2>1 DEF Alive
    <2> QED
        BY <1>1, <1>2, <1>6, <1>7, <2>2 DEF Alone, Parent
<1>11. FilesAreForks'
    <2>1. \A v \in Who : Holds(v)' \subseteq file'
        <3>1. \A v \in Who : Holds(v) \subseteq file
            BY <1>1, <1>6 DEF FilesAreForks
        <3>2. \A v \in Who : v # w => Holds(v) \cap Holds(w) = {}
            BY <1>1, <1>6 DEF ForksExclusive
        <3> QED
            BY <1>2, <1>8, <3>1, <3>2
    <2>2. ASSUME LaidOut', \A i \in P : pc'[<<runs, i>>] # "dead"
          PROVE  file' \subseteq UNION {Holds(v)' : v \in Who}
        <3>1. pc'[w] # "dead" /\ \A i \in P : pc[<<runs, i>>] # "dead"
            <4>1. pc'[w] # "dead" /\ pc[w] # "dead"
                BY <1>2, <1>3, <1>7, <2>2 DEF Alive
            <4>2. \A i \in P : <<runs, i>> \in Who
                BY <1>3, <1>7, Members
            <4> QED
                BY <1>2, <2>2, <4>1, <4>2
        <3>2. LaidOut
            BY <1>2, <1>3, <1>7 DEF LaidOut
        <3>3. file = UNION {Holds(v) : v \in Who}
            BY <1>1, <1>6, <3>1, <3>2 DEF FilesAreForks
        <3>4. ASSUME NEW f \in file' PROVE \E v \in Who : f \in Holds(v)'
            <4>1. f \in file \/ (f = Want(w) /\ f \in Holds(w)')
                BY <1>8, <3>1, <3>4
            <4>2. CASE f \in file
                <5>1. PICK v \in Who : f \in Holds(v)
                    BY <3>3, <4>2
                <5> QED
                    BY <1>2, <1>8, <3>1, <3>4, <5>1
            <4> QED
                BY <1>1, <4>1, <4>2
        <3> QED
            BY <3>4
    <2>3. UNION {Holds(v)' : v \in Who} \subseteq file'
        BY <2>1
    <2> QED
        BY <1>2, <2>1, <2>2, <2>3 DEF FilesAreForks
<1> QED
    BY <1>9, <1>10, <1>11

\* The parent lays out the forks and lets the philosophers in.
LEMMA MainKeeps ==
    ASSUME IInv, NEW r \in Runs, Main(r)
    PROVE  IInv'
<1> USE DEF Goto
<1>1. /\ TypeOK /\ ForksExclusive /\ FilesAreForks /\ Arrivals /\ Alone /\ r \in Runs
      /\ N \in Nat /\ N >= 2 /\ n[r] \in 0 .. N - 1 /\ n[r] \in P /\ Parent(r)
      /\ runs' = runs /\ beside' = beside /\ kills' = kills /\ nap' = nap
    BY ParamAssumption DEF IInv, TypeOK, P, Main, InitLock, Fork, Wait, Parent
<1>2. /\ \A q \in Runs : q # r => main'[q] = main[q] /\ n'[q] = n[q]
      /\ ~beside => r = runs
      /\ main[r] # "none"
    BY <1>1 DEF Main, InitLock, Fork, Wait, TypeOK, Alone, Parent
<1>3. CASE InitLock(r)
    <2>1. /\ pc' = pc /\ file' = file \ {n[r]} /\ \A i \in P : pc[<<r, i>>] = "unborn"
          /\ n'[r] = IF n[r] = N - 1 THEN 0 ELSE n[r] + 1
          /\ main'[r] = IF n[r] = N - 1 THEN "fork" ELSE "init"
        BY <1>1, <1>3 DEF InitLock, Arrivals, TypeOK
    <2>2. TypeOK'
        <3>1. (IF n[r] = N - 1 THEN 0 ELSE n[r] + 1) \in P
            BY <1>1 DEF P
        <3>2. n' \in [Runs -> P] /\ main' \in [Runs -> {"none", "init", "fork", "wait", "gone"}]
            BY <1>1, <1>3, <3>1 DEF InitLock, TypeOK
        <3> QED
            BY <1>1, <2>1, <3>2 DEF TypeOK
    <2>3. Arrivals'
        BY <1>1, <1>2, <2>1 DEF Arrivals, P
    <2>4. ~beside => \A f \in file' : f \in 0 .. N - 1 /\ f >= n[r] + 1
        <3>1. ~beside => \A f \in file : f >= n[r]
            BY <1>1, <1>2, <1>3 DEF Alone, InitLock
        <3>2. \A f \in file : f \in 0 .. N - 1
            BY <1>1 DEF TypeOK, P
        <3> QED
            BY <1>1, <2>1, <3>1, <3>2
    <2>5. ASSUME ~beside PROVE Alone' /\ \A w \in Who : Holds(w)' = {}
        <3>1. \A w \in Who : ~Alive(w)' /\ Holds(w)' = {}
            BY <1>1, <1>2, <2>1, <2>5, Members, OnlyAliveHold DEF Alone, Alive, Holds
        <3>2. main'[runs] = "init" => \A f \in file' : f >= n'[runs]
            BY <1>2, <2>1, <2>4, <2>5
        <3> QED
            BY <1>1, <1>2, <2>5, <3>1, <3>2 DEF Alone, Parent
    <2>6. ASSUME ~beside, LaidOut' PROVE file' = {}
        <3>1. main'[runs] # "init"
            BY <1>1, <1>2, <2>1, <2>6, Members DEF LaidOut, Alive
        <3> QED
            BY <1>1, <1>2, <2>1, <2>4, <2>6, <3>1
    <2>7. ForksExclusive' /\ FilesAreForks' /\ Alone'
        BY <1>1, <2>5, <2>6 DEF ForksExclusive, FilesAreForks, Alone
    <2> QED
        BY <2>2, <2>3, <2>7 DEF IInv
<1>4. CASE Fork(r)
    <2>1. pc[<<r, n[r]>>] = "unborn" /\ <<r, n[r]>> \in Who /\ file' = file /\ main[r] = "fork"
        BY <1>1, <1>4, Members DEF Fork, Arrivals, P
    <2>2. PICK l \in {"thinking", "unborn"} : pc' = [pc EXCEPT ![<<r, n[r]>>] = l]
        BY <1>4 DEF Fork
    <2>3. \A w \in Who : Holds(w)' = Holds(w) /\ (pc'[w] = "dead" <=> pc[w] = "dead")
        BY <1>1, <2>1, <2>2 DEF Holds, TypeOK
    <2>4. TypeOK'
        <3>1. (IF n[r] = N - 1 THEN 0 ELSE n[r] + 1) \in P
            BY <1>1 DEF P
        <3>2. n' \in [Runs -> P] /\ main' \in [Runs -> {"none", "init", "fork", "wait", "gone"}]
            BY <1>1, <1>4, <3>1 DEF Fork, TypeOK
        <3>3. pc' \in [Who -> Labels]
            BY <1>1, <2>2 DEF TypeOK, Labels
        <3> QED
            BY <1>1, <2>1, <3>2, <3>3 DEF TypeOK
    <2>5. /\ n'[r] = IF n[r] = N - 1 THEN 0 ELSE n[r] + 1
          /\ main'[r] = IF n[r] = N - 1 THEN "wait" ELSE "fork"
          /\ \A q \in Runs, i \in P : <<q, i>> # <<r, n[r]>> => pc'[<<q, i>>] = pc[<<q, i>>]
        BY <1>1, <1>4, <2>2, Members DEF Fork, TypeOK
    <2>6. Arrivals'
        <3>1. \A w \in nap' : pc'[w] \in {"first", "second"}
            BY <1>1, <2>1, <2>2 DEF Arrivals, TypeOK
        <3>2. ASSUME NEW q \in Runs, q # r
              PROVE  /\ q > runs' => main'[q] = "none" /\ n'[q] = 0
                     /\ main'[q] \in {"none", "init"} => \A i \in P : pc'[<<q, i>>] = "unborn"
                     /\ main'[q] = "fork" => \A i \in P : i >= n'[q] => pc'[<<q, i>>] = "unborn"
            BY <1>1, <1>2, <2>5, <3>2 DEF Arrivals
        <3>3. \A i \in P : i >= n[r] + 1 => pc'[<<r, i>>] = "unborn"
            BY <1>1, <2>1, <2>5 DEF Arrivals, P
        <3>4. r <= runs
            BY <1>1, <2>1 DEF Arrivals, Runs, TypeOK
        <3> QED
            BY <1>1, <2>5, <3>1, <3>2, <3>3, <3>4 DEF Arrivals, Runs, TypeOK
    <2>7. ASSUME ~beside PROVE Alone'
        <3>1. \A w \in Who : w[1] # runs => ~Alive(w)'
            BY <1>1, <1>2, <2>2, <2>7, Members DEF Alone, Alive, TypeOK
        <3> QED
            BY <1>1, <1>2, <2>5, <2>7, <3>1 DEF Alone, Parent
    <2>8. ForksExclusive' /\ FilesAreForks'
        <3>1. ~beside => LaidOut
            BY <1>2, <2>1 DEF LaidOut
        <3>2. \A i \in P : <<runs, i>> \in Who
            BY <1>1, Members DEF TypeOK
        <3>3. (\A i \in P : pc'[<<runs, i>>] # "dead") => (\A i \in P : pc[<<runs, i>>] # "dead")
            BY <2>3, <3>2
        <3>4. UNION {Holds(w)' : w \in Who} = UNION {Holds(w) : w \in Who}
            BY <2>3
        <3>5. ForksExclusive'
            BY <1>1, <2>3 DEF ForksExclusive
        <3> QED
            BY <1>1, <2>1, <2>3, <3>1, <3>3, <3>4, <3>5 DEF FilesAreForks
    <2> QED
        BY <1>1, <2>4, <2>6, <2>7, <2>8 DEF IInv, Alone
<1>5. CASE Wait(r)
    <2>1. /\ file' = file /\ pc' = pc /\ n' = n /\ main[r] = "wait" /\ main'[r] = "gone"
          /\ main' = [main EXCEPT ![r] = "gone"]
        BY <1>1, <1>5 DEF Wait, TypeOK
    <2>2. TypeOK' /\ ForksExclusive'
        BY <1>1, <2>1 DEF TypeOK, ForksExclusive, Holds
    <2>3. Arrivals'
        BY <1>1, <1>2, <2>1 DEF Arrivals
    <2>4. Alone'
        BY <1>1, <1>2, <2>1 DEF Alone, Parent, Alive
    <2>5. FilesAreForks'
        <3>1. ~beside => LaidOut
            BY <1>2, <2>1 DEF LaidOut
        <3> QED
            BY <1>1, <2>1, <3>1 DEF FilesAreForks, Holds
    <2> QED
        BY <2>2, <2>3, <2>4, <2>5 DEF IInv
<1> QED
    BY <1>3, <1>4, <1>5 DEF Main

\* A parent is killed, or ended by Ctrl-C together with its children.
LEMMA EndKeeps ==
    ASSUME IInv, NEW r \in Runs, KillParent(r) \/ Interrupt(r)
    PROVE  IInv'
<1>1. /\ TypeOK /\ ForksExclusive /\ FilesAreForks /\ Arrivals /\ Alone /\ r \in Runs
      /\ Parent(r) /\ file' = file /\ runs' = runs /\ beside' = beside
      /\ main' = [main EXCEPT ![r] = "gone"]
    BY DEF IInv, KillParent, Interrupt
<1>2. /\ \A q \in Runs : q # r => main'[q] = main[q]
      /\ main'[r] = "gone" /\ r <= runs
      /\ ~beside => r = runs
    BY <1>1 DEF TypeOK, Alone, Parent, Arrivals, Runs
<1>3. CASE KillParent(r)
    <2>1. pc' = pc /\ nap' = nap /\ n' = n
        BY <1>3 DEF KillParent
    <2>2. TypeOK' /\ ForksExclusive'
        BY <1>1, <1>3, <2>1, ParamAssumption DEF KillParent, TypeOK, ForksExclusive, Holds
    <2>3. Arrivals' /\ Alone'
        BY <1>1, <1>2, <2>1 DEF Arrivals, Alone, Parent, Alive
    <2>4. FilesAreForks'
        <3>1. ~beside /\ LaidOut' => LaidOut
            BY <1>1, <1>2, <2>1 DEF LaidOut, Alive
        <3> QED
            BY <1>1, <2>1, <3>1 DEF FilesAreForks, Holds
    <2> QED
        BY <2>2, <2>3, <2>4 DEF IInv
<1>4. CASE Interrupt(r)
    <2>1. /\ \A w \in Who : pc'[w] = IF w[1] = r THEN "dead" ELSE pc[w]
          /\ pc' \in [Who -> Labels] /\ nap' = {w \in nap : w[1] # r} /\ kills' = kills
          /\ n' = [n EXCEPT ![r] = 0]
        BY <1>1, <1>4 DEF Interrupt, TypeOK, Labels
    <2>2. TypeOK'
        BY <1>1, <2>1, ParamAssumption DEF TypeOK, P
    <2>3. Arrivals'
        <3>1. \A w \in nap' : pc'[w] \in {"first", "second"}
            BY <1>1, <2>1 DEF Arrivals, TypeOK
        <3>2. \A q \in Runs, i \in P : q # r => pc'[<<q, i>>] = pc[<<q, i>>]
            BY <2>1, Members
        <3>3. \A q \in Runs : q # r => n'[q] = n[q]
            BY <1>1, <2>1 DEF TypeOK
        <3> QED
            BY <1>1, <1>2, <3>1, <3>2, <3>3 DEF Arrivals, Runs, TypeOK
    <2>4. ASSUME ~beside PROVE \A w \in Who : ~Alive(w)' /\ Holds(w)' = {}
        BY <1>1, <1>2, <2>1, <2>4 DEF Alone, Alive, Holds
    <2>5. ~beside => ~LaidOut' /\ Alone'
        <3>1. \A i \in P : <<runs, i>> \in Who
            BY <1>1, Members DEF TypeOK
        <3> QED
            BY <1>1, <1>2, <2>4, <3>1 DEF LaidOut, Alone, Parent
    <2>6. ForksExclusive' /\ FilesAreForks' /\ Alone'
        BY <1>1, <2>4, <2>5 DEF ForksExclusive, FilesAreForks, Alone
    <2> QED
        BY <2>2, <2>3, <2>6 DEF IInv
<1> QED
    BY <1>3, <1>4

\* The program is run again: unless something of an earlier run lives, nobody
\* holds a fork.
LEMMA RunAgainKeeps ==
    ASSUME IInv, RunAgain
    PROVE  IInv'
<1>1. /\ TypeOK /\ Arrivals /\ pc' = pc /\ nap' = nap /\ n' = n /\ file' = file
      /\ runs' = runs + 1 /\ runs \in Nat /\ runs + 1 \in Runs /\ kills' = kills
      /\ main' = [main EXCEPT ![runs + 1] = "init"]
    BY ParamAssumption DEF IInv, RunAgain, TypeOK, Runs
<1>2. /\ \A q \in Runs : q # runs' => main'[q] = main[q]
      /\ main'[runs'] = "init" /\ n'[runs'] = 0 /\ runs' \in Runs
      /\ \A i \in P : pc'[<<runs', i>>] = "unborn"
    BY <1>1 DEF TypeOK, Arrivals, Runs
<1>3. TypeOK'
    BY <1>1 DEF TypeOK, RunAgain
<1>4. Arrivals'
    BY <1>1, <1>2 DEF Arrivals, Runs
<1>5. ASSUME ~beside'
      PROVE  /\ \A q \in Runs : ~Parent(q)
             /\ \A w \in Who : ~Alive(w) /\ ~Alive(w)' /\ Holds(w)' = {}
    BY <1>1, <1>5 DEF RunAgain, Alive, Holds
<1>6. ~beside' => ~LaidOut'
    BY <1>2 DEF LaidOut, Alive
<1>7. Alone'
    <2>1. \A f \in file' : f >= n'[runs']
        BY <1>1, <1>2 DEF TypeOK, P
    <2> QED
        BY <1>2, <1>5, <2>1 DEF Alone, Parent
<1>8. ForksExclusive' /\ FilesAreForks'
    BY <1>5, <1>6 DEF ForksExclusive, FilesAreForks
<1> QED
    BY <1>3, <1>4, <1>7, <1>8 DEF IInv

\* The inductive invariant holds in every behaviour.
LEMMA IInvHolds == Spec => []IInv
<1>1. IInv /\ [Next]_vars => IInv'
    <2>1. SUFFICES ASSUME IInv, [Next]_vars PROVE IInv'
        OBVIOUS
    <2>2. CASE UNCHANGED vars
        <3>1. /\ file' = file /\ pc' = pc /\ nap' = nap /\ main' = main /\ n' = n
              /\ runs' = runs /\ beside' = beside /\ kills' = kills
            BY <2>2 DEF vars, proc
        <3> QED
            BY <2>1, <3>1 DEF IInv, TypeOK, ForksExclusive, FilesAreForks, Arrivals, Alone,
                              LaidOut, Parent, Alive, Holds
    <2> QED
        BY <2>1, <2>2, EatKeeps, MainKeeps, EndKeeps, RunAgainKeeps DEF Next, Over
<1> QED
    BY <1>1, IInvInit, PTL DEF Spec

\* One fork is in one hand, whoever is killed and however often the program is
\* run again, while no run is started beside living processes of another: open
\* with O_EXCL in lock.c is a lock.
THEOREM ForksSafe == Spec => []ForksExclusive
<1>1. IInv => ForksExclusive
    BY DEF IInv
<1> QED
    BY <1>1, IInvHolds, PTL

\* While no run is started beside another: a held fork has its lock file, and once
\* initlock has laid the forks out and as long as none of this run was killed,
\* only a held fork has one.
THEOREM FilesTruthful == Spec => []FilesAreForks
<1>1. IInv => FilesAreForks
    BY DEF IInv
<1> QED
    BY <1>1, IInvHolds, PTL

=============================================================================
