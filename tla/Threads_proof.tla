---------------------------- MODULE Threads_proof ---------------------------
(***************************************************************************)
(* What threads and processes share, for any number of them: the semaphore *)
(* of lib/semaph.c, whose three members count what they are meant to count *)
(* whoever exits wherever, the reference counts of the mutex examples, and *)
(* the linked list of rwlock.c.                                            *)
(***************************************************************************)
EXTENDS Semaph, FooRef, JobQueue, NatSets, FiniteSetTheorems, SequenceTheorems, TLAPS

-----------------------------------------------------------------------------
(* The semaphore.                                                            *)

SemSpec == SemInit /\ [][SemNext]_semVars

\* Where a process has the lock, where it is counted as a user, and where it
\* has an id.
Locker  == {"getval", "setval0", "setval1", "endcreate", "closeget", "rm", "unlock"}
Counted == {"using", "inside", "closing"}
Engaged == Locker \cup Counted \cup {"lock", "lockwait", "opop"}
Labels  == Engaged \cup {"create", "open", "done", "dead"}

Users  == {p \in Procs : pc[p] \in Counted /\ Valid(p)}
Inside == {p \in Procs : pc[p] = "inside" /\ Valid(p)}

SemTypes ==
    /\ cur \in Nat /\ made \in Nat /\ cur \in {0, made}
    /\ sem \in [val : Nat, cnt : Nat, lck : {0, 1}]
    /\ adj \in [Procs -> [val : {0, 1}, cnt : {0, 1}, lck : {0, 1}]]
    /\ id \in [Procs -> Nat]
    /\ pc \in [Procs -> Labels]

\* An id in use was given out, and is not 0.
Ids == \A p \in Procs : id[p] <= made /\ (pc[p] \in Engaged => id[p] # 0)

\* Member [2] is 1 when one process is in a critical section, of a set that
\* exists, and 0 when none is.
LockHeld ==
    /\ \A p \in Procs : pc[p] \in Locker => Valid(p)
    /\ \A p, q \in Procs : pc[p] \in Locker /\ pc[q] \in Locker => p = q
    /\ sem.lck = 1 <=> \E p \in Procs : pc[p] \in Locker

\* What the kernel would undo is what the process has done and not taken back.
Undo ==
    \A p \in Procs :
        /\ adj[p].lck = IF pc[p] \in Locker THEN 1 ELSE 0
        /\ adj[p].cnt = IF p \in Users THEN 1 ELSE 0
        /\ adj[p].val = IF p \in Inside THEN 1 ELSE 0

\* Member [1] is 0 until the set is initialised; then it is BIGCOUNT less the
\* number of users, and member [0] the initial value less those inside.
Counting ==
    /\ sem.cnt = 0 => Users = {}
    /\ sem.cnt # 0 => /\ sem.cnt + Cardinality(Users) = BIGCOUNT
                      /\ sem.val + Cardinality(Inside) = InitVal

\* What the holder of the lock knows.
KnowsOf(p) ==
    /\ pc[p] = "setval0" => sem.cnt = 0
    /\ pc[p] = "setval1" => sem.cnt = 0 /\ sem.val = InitVal
    /\ pc[p] \in {"endcreate", "closeget", "rm", "unlock"} => sem.cnt # 0
    /\ pc[p] = "rm" => \A q \in Creators : pc[q] \notin Counted
    /\ pc[p] = "unlock" => Users # {} \/ \E q \in Procs : pc[q] = "dead"

Knows == \A p \in Procs : KnowsOf(p)

\* A creator that is counted has its set, and a set has a process that
\* will close it, unless one has died.
Kept ==
    /\ \A p \in Creators : pc[p] \in Counted => Valid(p)
    /\ cur # 0 => \E p \in Procs : pc[p] = "dead" \/ (pc[p] \in Engaged /\ Valid(p))

\* Who can be where.
Roles ==
    \A p \in Procs :
        /\ pc[p] \in {"create", "lock", "lockwait", "getval", "setval0", "setval1", "endcreate"}
              => p \in Creators
        /\ pc[p] \in {"open", "opop"} => p \in Openers

SemInv == SemTypes /\ Ids /\ LockHeld /\ Undo /\ Counting /\ Knows /\ Kept /\ Roles

-----------------------------------------------------------------------------
\* There are fewer users than BIGCOUNT.
LEMMA UsersFinite ==
    /\ IsFiniteSet(Users) /\ IsFiniteSet(Inside)
    /\ Cardinality(Users) \in Nat /\ Cardinality(Inside) \in Nat
    /\ Cardinality(Users) < BIGCOUNT /\ BIGCOUNT \in Nat
    /\ Cardinality(Users) = 0 <=> Users = {}
<1>1. Users \in SUBSET Procs /\ Inside \in SUBSET Procs
    BY DEF Users, Inside
<1>2. IsFiniteSet(Procs) /\ Cardinality(Procs) < BIGCOUNT /\ BIGCOUNT \in Nat
    BY SemAssumption
<1>3. IsFiniteSet(Users) /\ IsFiniteSet(Inside) /\ Cardinality(Users) <= Cardinality(Procs)
    BY <1>1, <1>2, FS_Subset
<1>4. Cardinality(Users) \in Nat /\ Cardinality(Inside) \in Nat /\ Cardinality(Procs) \in Nat
    BY <1>2, <1>3, FS_CardinalityType
<1>5. Cardinality(Users) = 0 <=> Users = {}
    BY <1>3, FS_EmptySet
<1> QED
    BY <1>2, <1>3, <1>4, <1>5

\* A set with one more or one less.
LEMMA OneMore ==
    ASSUME NEW S, IsFiniteSet(S), NEW x, x \notin S
    PROVE  Cardinality(S \cup {x}) = Cardinality(S) + 1
BY FS_AddElement

\* A set with one less.
LEMMA OneLess ==
    ASSUME NEW S, IsFiniteSet(S), NEW x, x \in S
    PROVE  Cardinality(S \ {x}) = Cardinality(S) - 1
BY FS_RemoveElement

\* The users and those inside after a step of p in a set that stays.
LEMMA Moved ==
    ASSUME SemTypes, NEW p \in Procs, NEW l \in Labels, Goto(p, l), id' = id, cur' = cur
    PROVE  /\ pc' \in [Procs -> Labels] /\ pc'[p] = l
           /\ \A q \in Procs : (Valid(q)' <=> Valid(q)) /\ (q # p => pc'[q] = pc[q])
           /\ Users' = IF l \in Counted /\ Valid(p) THEN Users \cup {p} ELSE Users \ {p}
           /\ Inside' = IF l = "inside" /\ Valid(p) THEN Inside \cup {p} ELSE Inside \ {p}
<1>1. /\ pc' \in [Procs -> Labels] /\ pc'[p] = l
      /\ \A q \in Procs : (Valid(q)' <=> Valid(q)) /\ (q # p => pc'[q] = pc[q])
    BY DEF SemTypes, Goto, Valid
<1> QED
    BY <1>1 DEF Users, Inside

-----------------------------------------------------------------------------
(* One lemma for each kind of step. *)

\* A step that only moves p, or looks the set up for it.
LEMMA QuietKeeps ==
    ASSUME SemInv, NEW p \in Procs,
           \/ Begin(p) \/ OpLockSleeps(p) \/ OpLockAgain(p) \/ GetVal(p)
           \/ OpenGet(p) \/ (Semget(p) /\ cur # 0) \/ (CloseGet(p) /\ sem.cnt <= BIGCOUNT)
    PROVE  SemInv'
<1> USE DEF Labels, Engaged, Locker, Counted
<1>a. SemTypes /\ Ids /\ LockHeld /\ Undo /\ Counting /\ Knows /\ Kept /\ Roles
    BY DEF SemInv
<1>b. sem.cnt \in Nat /\ BIGCOUNT \in Nat /\ pc[p] \in Labels
    BY <1>a, SemAssumption DEF SemTypes
<1>3. /\ UNCHANGED <<cur, made, sem, adj>>
      /\ pc[p] \notin Counted \cup {"dead", "setval0", "setval1", "endcreate", "rm", "unlock"}
    BY <1>b DEF Begin, OpLockSleeps, OpLockAgain, GetVal, OpenGet, Semget, CloseGet, At
<1>4. PICK l \in Labels :
      /\ pc' = [pc EXCEPT ![p] = l]
      /\ l \notin Counted \cup {"dead", "getval", "setval1", "closeget"}
      /\ pc[p] \in Locker <=> l \in Locker
      /\ l = "setval0" => sem.cnt = 0 /\ p \in Creators
      /\ l = "endcreate" => sem.cnt # 0 /\ p \in Creators
      /\ l = "rm" => sem.cnt # 0 /\ sem.cnt = BIGCOUNT
      /\ l = "unlock" => sem.cnt # 0 /\ sem.cnt # BIGCOUNT
      /\ l \in {"create", "lock", "lockwait"} => p \in Creators
      /\ l \in {"open", "opop"} => p \in Openers
    BY <1>a, <1>b DEF Begin, OpLockSleeps, OpLockAgain, GetVal, OpenGet, Semget, CloseGet, At, Goto, Roles, Knows, KnowsOf
<1>5. /\ \/ id' = id /\ (l \in Engaged => pc[p] \in Engaged)
         \/ id' = [id EXCEPT ![p] = cur] /\ pc[p] \notin Engaged /\ (l \in Engaged => cur # 0)
      /\ pc[p] \in Engaged /\ Valid(p) => id' = id /\ l \in Engaged
      /\ l \in Locker => id' = id
    <2>1. pc'[p] = l /\ pc \in [Procs -> Labels]
        BY <1>4, <1>a DEF SemTypes
    <2>2. CASE Begin(p) \/ OpLockSleeps(p) \/ OpLockAgain(p)
        BY <2>1, <2>2 DEF Begin, OpLockSleeps, OpLockAgain, At, Goto, Valid
    <2>3. CASE GetVal(p) \/ (CloseGet(p) /\ sem.cnt <= BIGCOUNT)
        BY <2>1, <2>3, <1>b DEF GetVal, CloseGet, At, Goto
    <2>4. CASE OpenGet(p) \/ (Semget(p) /\ cur # 0)
        BY <2>1, <2>4 DEF OpenGet, Semget, At, Goto
    <2> QED
        BY <2>2, <2>3, <2>4
<1>6. /\ pc' \in [Procs -> Labels] /\ pc'[p] = l /\ id' \in [Procs -> Nat]
      /\ \A q \in Procs : q # p => pc'[q] = pc[q] /\ id'[q] = id[q]
      /\ id'[p] = id[p] \/ id'[p] = cur
    BY <1>4, <1>5, <1>a DEF SemTypes
<1>7. Users' = Users /\ Inside' = Inside
    BY <1>3, <1>4, <1>6 DEF Users, Inside, Valid
<1>8. SemTypes'
    BY <1>3, <1>6, <1>a DEF SemTypes
<1>9. Ids'
    BY <1>3, <1>5, <1>6, <1>a DEF Ids, SemTypes
<1>10. LockHeld'
    BY <1>3, <1>4, <1>5, <1>6, <1>a DEF LockHeld, Valid
<1>11. Undo' /\ Counting'
    BY <1>3, <1>4, <1>6, <1>7, <1>a DEF Undo, Counting
<1>12. Knows'
    <2>1. l = "rm" => Users = {}
        BY <1>4, <1>a, UsersFinite DEF Counting
    <2>2. l = "rm" => \A q \in Creators : pc[q] \notin Counted
        BY <2>1, <1>a DEF Kept, Users, Procs
    <2>3. l = "unlock" => Users # {}
        BY <1>4, <1>a, <1>b, UsersFinite DEF Counting
    <2>4. \A q \in Creators : pc[q] \notin Counted => pc'[q] \notin Counted
        BY <1>4, <1>6 DEF Procs
    <2>5. (\E q \in Procs : pc[q] = "dead") => \E q \in Procs : pc'[q] = "dead"
        BY <1>3, <1>6
    <2>6. ASSUME NEW q \in Procs, q # p PROVE KnowsOf(q)'
        BY <1>3, <1>6, <1>7, <2>4, <2>5, <2>6, <1>a DEF Knows, KnowsOf
    <2>7. KnowsOf(p)'
        BY <1>3, <1>4, <1>6, <1>7, <2>2, <2>3, <2>4 DEF KnowsOf
    <2> QED
        BY <2>6, <2>7 DEF Knows
<1>13. Kept'
    <2>1. \A q \in Creators : pc'[q] \in Counted => Valid(q)'
        BY <1>3, <1>4, <1>6, <1>a DEF Kept, Valid, Procs
    <2>2. cur # 0 => \E q \in Procs : pc'[q] = "dead" \/ (pc'[q] \in Engaged /\ Valid(q)')
        BY <1>3, <1>5, <1>6, <1>a DEF Kept, Valid
    <2> QED
        BY <1>3, <2>1, <2>2 DEF Kept
<1>14. Roles'
    BY <1>4, <1>6, <1>a DEF Roles
<1> QED
    BY <1>8, <1>9, <1>10, <1>11, <1>12, <1>13, <1>14 DEF SemInv

\* A step of p from one place to another in a set that stays, which is accounted
\* for: what it takes from the members, the kernel would give back.
Accounted(p, l) ==
    /\ l \in Labels /\ Goto(p, l) /\ UNCHANGED <<cur, made, id>>
    /\ adj' \in [Procs -> [val : {0, 1}, cnt : {0, 1}, lck : {0, 1}]]
    /\ \A q \in Procs : q # p => adj'[q] = adj[q]
    /\ adj'[p].lck = IF l \in Locker THEN 1 ELSE 0
    /\ adj'[p].cnt = IF l \in Counted /\ Valid(p) THEN 1 ELSE 0
    /\ adj'[p].val = IF l = "inside" /\ Valid(p) THEN 1 ELSE 0
    /\ sem' \in [val : Nat, cnt : Nat, lck : {0, 1}]
    /\ sem'.lck = sem.lck + adj'[p].lck - adj[p].lck
    /\ sem'.cnt = sem.cnt - adj'[p].cnt + adj[p].cnt
    /\ sem'.val = sem.val - adj'[p].val + adj[p].val

\* The places that p goes between in such a step.
Way(p, l) ==
    /\ l \in Engaged => pc[p] \in Engaged
    /\ l \in Locker => Valid(p) /\ pc[p] \notin Locker /\ sem.lck = 0
    /\ l \in Locker => \/ l = "getval" /\ pc[p] \in {"lock", "lockwait"}
                       \/ l = "closeget" /\ pc[p] = "closing"
    /\ l \in Counted => /\ Valid(p) /\ sem.cnt # 0
                        /\ pc[p] \in Counted \cup {"endcreate", "opop"}
    /\ l \in Locker \cup Counted \cup {"dead"} \/ (pc[p] = "unlock" /\ l = "done")

\* Such a step keeps the members what they are meant to be.
LEMMA AccountedKeeps ==
    ASSUME SemInv, NEW p \in Procs, NEW l, Accounted(p, l), Way(p, l)
    PROVE  SemInv'
<1> USE DEF Labels, Engaged, Locker, Counted
<1>a. SemTypes /\ Ids /\ LockHeld /\ Undo /\ Counting /\ Knows /\ Kept /\ Roles
    BY DEF SemInv
<1>2. /\ pc' \in [Procs -> Labels] /\ pc'[p] = l
      /\ \A q \in Procs : (Valid(q)' <=> Valid(q)) /\ (q # p => pc'[q] = pc[q])
      /\ Users' = IF l \in Counted /\ Valid(p) THEN Users \cup {p} ELSE Users \ {p}
      /\ Inside' = IF l = "inside" /\ Valid(p) THEN Inside \cup {p} ELSE Inside \ {p}
    BY <1>a, Moved DEF Accounted
<1>3. SemTypes'
    BY <1>2, <1>a DEF SemTypes, Accounted
<1>4. Ids'
    BY <1>2, <1>a DEF Ids, Accounted, Way, SemTypes
<1>5. Undo'
    <2>1. /\ p \in Users' <=> l \in Counted /\ Valid(p)
          /\ p \in Inside' <=> l = "inside" /\ Valid(p)
          /\ \A q \in Procs : q # p => (q \in Users' <=> q \in Users) /\ (q \in Inside' <=> q \in Inside)
        BY <1>2
    <2> QED
        BY <1>2, <2>1, <1>a DEF Undo, Accounted
<1>6. LockHeld'
    <2>1. adj[p].lck = IF pc[p] \in Locker THEN 1 ELSE 0
        BY <1>a DEF Undo
    <2>2. \A q \in Procs : pc'[q] \in Locker => Valid(q)'
        BY <1>2, <1>a DEF LockHeld, Way
    <2>3. \A q, r \in Procs : pc'[q] \in Locker /\ pc'[r] \in Locker => q = r
        BY <1>2, <1>a DEF LockHeld, Way, SemTypes
    <2>4. sem'.lck = 1 <=> \E q \in Procs : pc'[q] \in Locker
        <3>1. CASE l \in Locker
            BY <1>2, <2>1, <3>1, <1>a DEF Way, Accounted, SemTypes
        <3>2. CASE l \notin Locker /\ pc[p] \in Locker
            <4>1. sem.lck = 1 /\ sem'.lck = 0
                BY <2>1, <3>2, <1>a DEF LockHeld, Accounted
            <4>2. \A q \in Procs : pc'[q] \notin Locker
                BY <1>2, <3>2, <1>a DEF LockHeld
            <4> QED
                BY <4>1, <4>2
        <3>3. CASE l \notin Locker /\ pc[p] \notin Locker
            <4>1. sem'.lck = sem.lck
                BY <2>1, <3>3, <1>a DEF Accounted, SemTypes
            <4> QED
                BY <1>2, <3>3, <4>1, <1>a DEF LockHeld
        <3> QED
            BY <3>1, <3>2, <3>3
    <2> QED
        BY <2>2, <2>3, <2>4 DEF LockHeld
\* The members as sums.
<1>7. /\ sem.cnt \in Nat /\ sem.val \in Nat /\ sem'.cnt \in Nat /\ sem'.val \in Nat
      /\ adj[p].cnt = IF p \in Users THEN 1 ELSE 0
      /\ adj[p].val = IF p \in Inside THEN 1 ELSE 0
    BY <1>a DEF SemTypes, Accounted, Undo
<1>8. /\ sem'.cnt + Cardinality(Users') = sem.cnt + Cardinality(Users)
      /\ sem'.val + Cardinality(Inside') = sem.val + Cardinality(Inside)
      /\ IsFiniteSet(Users') /\ Cardinality(Users') \in Nat
    <2>1. /\ IsFiniteSet(Users) /\ IsFiniteSet(Inside)
          /\ Cardinality(Users) \in Nat /\ Cardinality(Inside) \in Nat
        BY UsersFinite
    <2>2. Cardinality(Users') = Cardinality(Users) + adj'[p].cnt - adj[p].cnt
        <3>1. CASE (l \in Counted /\ Valid(p)) <=> p \in Users
            <4>1. Users' = Users
                BY <1>2, <3>1
            <4>2. adj'[p].cnt = adj[p].cnt
                BY <1>7, <3>1 DEF Accounted
            <4> QED
                BY <1>7, <2>1, <4>1, <4>2
        <3>2. CASE l \in Counted /\ Valid(p) /\ p \notin Users
            BY <1>2, <1>7, <2>1, <3>2, OneMore DEF Accounted
        <3>3. CASE ~(l \in Counted /\ Valid(p)) /\ p \in Users
            BY <1>2, <1>7, <2>1, <3>3, OneLess DEF Accounted
        <3> QED
            BY <3>1, <3>2, <3>3
    <2>3. Cardinality(Inside') = Cardinality(Inside) + adj'[p].val - adj[p].val
        <3>1. CASE (l = "inside" /\ Valid(p)) <=> p \in Inside
            <4>1. Inside' = Inside
                BY <1>2, <3>1
            <4>2. adj'[p].val = adj[p].val
                BY <1>7, <3>1 DEF Accounted
            <4> QED
                BY <1>7, <2>1, <4>1, <4>2
        <3>2. CASE l = "inside" /\ Valid(p) /\ p \notin Inside
            BY <1>2, <1>7, <2>1, <3>2, OneMore DEF Accounted
        <3>3. CASE ~(l = "inside" /\ Valid(p)) /\ p \in Inside
            BY <1>2, <1>7, <2>1, <3>3, OneLess DEF Accounted
        <3> QED
            BY <3>1, <3>2, <3>3
    <2>4. adj'[p].cnt \in {0, 1} /\ adj'[p].val \in {0, 1}
        BY DEF Accounted
    <2>5. IsFiniteSet(Users')
        BY <1>2, <2>1, FS_AddElement, FS_RemoveElement
    <2>6. Cardinality(Users') \in Nat
        BY <2>5, FS_CardinalityType
    <2>7. /\ sem'.cnt = sem.cnt - adj'[p].cnt + adj[p].cnt
          /\ sem'.val = sem.val - adj'[p].val + adj[p].val
        BY DEF Accounted
    <2>8. adj[p].cnt \in {0, 1} /\ adj[p].val \in {0, 1}
        BY <1>7
    <2> QED
        BY <1>7, <2>1, <2>2, <2>3, <2>4, <2>5, <2>6, <2>7, <2>8
<1>9. Cardinality(Users') < BIGCOUNT
    <2>1. Users' \in SUBSET Procs /\ IsFiniteSet(Procs) /\ Cardinality(Procs) < BIGCOUNT /\ BIGCOUNT \in Nat
        BY <1>2, SemAssumption DEF Users
    <2>2. Cardinality(Users') <= Cardinality(Procs) /\ Cardinality(Procs) \in Nat
        BY <2>1, FS_Subset, FS_CardinalityType
    <2> QED
        BY <1>8, <2>1, <2>2
<1>10. /\ sem.cnt = 0 => Users' = {} /\ sem'.cnt = 0 /\ sem'.val = sem.val
       /\ sem.cnt # 0 => sem'.cnt # 0
    <2>1. ASSUME sem.cnt = 0 PROVE Users' = {} /\ sem'.cnt = 0 /\ sem'.val = sem.val
        <3>1. Users = {} /\ l \notin Counted
            BY <2>1, <1>a DEF Counting, Way
        <3>2. p \notin Users /\ p \notin Inside
            BY <3>1 DEF Users, Inside
        <3> QED
            BY <1>2, <1>7, <2>1, <3>1, <3>2 DEF Accounted
    <2>2. ASSUME sem.cnt # 0 PROVE sem'.cnt # 0
        BY <1>7, <1>8, <1>9, <2>2, <1>a, UsersFinite DEF Counting
    <2> QED
        BY <2>1, <2>2
<1>11. Counting'
    <2>1. CASE sem.cnt = 0
        BY <1>10, <2>1 DEF Counting
    <2>2. CASE sem.cnt # 0
        <3>1. sem.cnt + Cardinality(Users) = BIGCOUNT /\ sem.val + Cardinality(Inside) = InitVal
            BY <1>a, <2>2 DEF Counting
        <3>2. sem'.cnt # 0
            BY <1>10, <2>2
        <3> QED
            BY <1>8, <3>1, <3>2 DEF Counting
    <2> QED
        BY <2>1, <2>2
<1>12. Knows'
    <2>1. (\E q \in Procs : pc[q] = "dead") => \E q \in Procs : pc'[q] = "dead"
        BY <1>2 DEF Way
    <2>2. ASSUME NEW q \in Procs, q # p, pc[q] = "rm" PROVE \A r \in Creators : pc'[r] \notin Counted
        <3>1. \A r \in Creators : pc[r] \notin Counted
            BY <2>2, <1>a DEF Knows, KnowsOf
        <3>2. p \in Creators => pc[p] # "endcreate" /\ pc[p] # "opop"
            BY <2>2, <1>a, SemAssumption DEF LockHeld, Roles
        <3> QED
            BY <1>2, <3>1, <3>2 DEF Way, Procs
    <2>3. ASSUME NEW q \in Procs, q # p, pc[q] = "unlock"
          PROVE  Users' # {} \/ \E r \in Procs : pc'[r] = "dead"
        <3>1. Users # {} \/ \E r \in Procs : pc[r] = "dead"
            BY <2>3, <1>a DEF Knows, KnowsOf
        <3>2. l \notin Locker
            BY <2>3, <1>a DEF Way, LockHeld
        <3>3. l \in Counted => p \in Users'
            BY <1>2 DEF Way
        <3>4. pc[p] = "unlock" => p \notin Users
            BY DEF Users
        <3> QED
            BY <1>2, <2>1, <3>1, <3>2, <3>3, <3>4 DEF Way
    <2>4. ASSUME NEW q \in Procs, q # p PROVE KnowsOf(q)'
        <3>1. KnowsOf(q) /\ pc'[q] = pc[q]
            BY <1>2, <1>a, <2>4 DEF Knows
        <3>2. pc'[q] \in {"rm", "unlock"} => KnowsOf(q)'
            BY <1>10, <2>2, <2>3, <2>4, <3>1 DEF KnowsOf
        <3>3. pc'[q] \notin {"rm", "unlock"} => KnowsOf(q)'
            BY <1>10, <3>1 DEF KnowsOf
        <3> QED
            BY <3>2, <3>3
    <2>5. KnowsOf(p)'
        <3>1. l = "closeget" => p \in Users
            BY DEF Way, Users
        <3>2. l = "closeget" => sem'.cnt # 0
            BY <1>10, <3>1, <1>a DEF Counting
        <3> QED
            BY <1>2, <3>2 DEF KnowsOf, Way
    <2> QED
        BY <2>4, <2>5 DEF Knows
<1>13. Kept'
    <2>1. \A q \in Creators : pc'[q] \in Counted => Valid(q)'
        BY <1>2, <1>a DEF Kept, Way, Procs
    <2>2. ASSUME cur # 0 PROVE \E q \in Procs : pc'[q] = "dead" \/ (pc'[q] \in Engaged /\ Valid(q)')
        <3>1. PICK q \in Procs : pc[q] = "dead" \/ (pc[q] \in Engaged /\ Valid(q))
            BY <2>2, <1>a DEF Kept
        <3>2. CASE q # p
            BY <1>2, <3>1, <3>2
        <3>3. CASE q = p /\ l # "done"
            BY <1>2, <3>1, <3>3 DEF Way
        <3>4. CASE l = "done"
            <4>1. pc[p] = "unlock"
                BY <3>4 DEF Way
            <4>2. Users # {} \/ \E r \in Procs : pc[r] = "dead"
                BY <4>1, <1>a DEF Knows, KnowsOf
            <4>3. \A r \in Users : r # p /\ r \in Procs /\ pc[r] \in Engaged /\ Valid(r)
                BY <4>1 DEF Users
            <4> QED
                BY <1>2, <4>1, <4>2, <4>3
        <3> QED
            BY <3>2, <3>3, <3>4
    <2> QED
        BY <2>1, <2>2 DEF Kept, Accounted
<1>14. Roles'
    BY <1>2, <1>a DEF Roles, Way
<1> QED
    BY <1>3, <1>4, <1>5, <1>6, <1>11, <1>12, <1>13, <1>14 DEF SemInv

\* op_lock, op_unlock, op_endcreate, op_open, sem_wait, sem_signal and op_close
\* account for what they do.
LEMMA SemopKeeps ==
    ASSUME SemInv, NEW p \in Procs,
           \/ OpLock(p) \/ OpUnlock(p) \/ EndCreate(p) \/ (OpOpen(p) /\ Valid(p))
           \/ (SemWait(p) /\ Valid(p)) \/ (SemSignal(p) /\ Valid(p)) \/ (OpClose(p) /\ Valid(p))
    PROVE  SemInv'
<1> USE DEF Labels, Engaged, Locker, Counted
<1>a. SemTypes /\ Ids /\ LockHeld /\ Undo /\ Counting /\ Knows /\ Kept /\ Roles
    BY DEF SemInv
<1>b. /\ adj[p].lck = IF pc[p] \in Locker THEN 1 ELSE 0
      /\ adj[p].cnt = IF pc[p] \in Counted /\ Valid(p) THEN 1 ELSE 0
      /\ adj[p].val = IF pc[p] = "inside" /\ Valid(p) THEN 1 ELSE 0
    BY <1>a DEF Undo, Users, Inside
<1>c. /\ pc[p] \in Locker => Valid(p) /\ sem.lck = 1
      /\ pc[p] \in Counted /\ Valid(p) => sem.cnt # 0
    BY <1>a DEF LockHeld, Counting, Users
<1>4. CASE OpLock(p)
    <2>1. Accounted(p, "getval")
        BY <1>4, <1>a, <1>b DEF OpLock, Accounted, SemTypes
    <2>2. Way(p, "getval")
        BY <1>4 DEF OpLock, Way
    <2> QED
        BY <2>1, <2>2, AccountedKeeps
<1>5. CASE OpUnlock(p)
    <2>1. Accounted(p, "done")
        BY <1>5, <1>a, <1>b, <1>c DEF OpUnlock, At, Accounted, SemTypes
    <2>2. Way(p, "done")
        BY <1>5 DEF OpUnlock, At, Way
    <2> QED
        BY <2>1, <2>2, AccountedKeeps
<1>6. CASE EndCreate(p)
    <2>1. Accounted(p, "using")
        BY <1>6, <1>a, <1>b, <1>c DEF EndCreate, At, Accounted, SemTypes
    <2>2. Way(p, "using")
        BY <1>6, <1>a, <1>c DEF EndCreate, At, Way, SemTypes
    <2> QED
        BY <2>1, <2>2, AccountedKeeps
<1>7. CASE OpOpen(p) /\ Valid(p)
    <2>1. Accounted(p, "using")
        BY <1>7, <1>a, <1>b DEF OpOpen, At, Accounted, SemTypes
    <2>2. Way(p, "using")
        BY <1>7, <1>a DEF OpOpen, At, Way, SemTypes
    <2> QED
        BY <2>1, <2>2, AccountedKeeps
<1>8. CASE SemWait(p) /\ Valid(p)
    <2>1. Accounted(p, "inside")
        BY <1>8, <1>a, <1>b DEF SemWait, At, Accounted, SemTypes
    <2>2. Way(p, "inside")
        BY <1>8, <1>c DEF SemWait, At, Way
    <2> QED
        BY <2>1, <2>2, AccountedKeeps
<1>9. CASE SemSignal(p) /\ Valid(p)
    <2>1. Accounted(p, "closing")
        BY <1>9, <1>a, <1>b DEF SemSignal, At, Accounted, SemTypes
    <2>2. Way(p, "closing")
        BY <1>9, <1>c DEF SemSignal, At, Way
    <2> QED
        BY <2>1, <2>2, AccountedKeeps
<1>10. CASE OpClose(p) /\ Valid(p)
    <2>1. Accounted(p, "closeget")
        BY <1>10, <1>a, <1>b DEF OpClose, At, Accounted, SemTypes
    <2>2. Way(p, "closeget")
        BY <1>10 DEF OpClose, At, Way
    <2> QED
        BY <2>1, <2>2, AccountedKeeps
<1> QED
    BY <1>4, <1>5, <1>6, <1>7, <1>8, <1>9, <1>10

\* The exit of a process, at any point, gives back what it had.
LEMMA DeathKeeps ==
    ASSUME SemInv, NEW p \in Procs, Dies(p), pc[p] # "dead"
    PROVE  SemInv'
<1> USE DEF Labels, Engaged, Locker, Counted
<1>a. SemTypes /\ LockHeld /\ Undo
    BY DEF SemInv
<1>b. /\ adj[p].lck = IF pc[p] \in Locker THEN 1 ELSE 0
      /\ adj[p].cnt = IF pc[p] \in Counted /\ Valid(p) THEN 1 ELSE 0
      /\ adj[p].val = IF pc[p] = "inside" /\ Valid(p) THEN 1 ELSE 0
      /\ pc[p] \in Locker => Valid(p) /\ sem.lck = 1
    BY <1>a DEF Undo, Users, Inside, LockHeld
<1>3. Accounted(p, "dead")
    <2>1. CASE Valid(p)
        BY <2>1, <1>a, <1>b DEF Dies, Zero, Accounted, SemTypes
    <2>2. CASE ~Valid(p)
        BY <2>2, <1>a, <1>b DEF Dies, Zero, Accounted, SemTypes
    <2> QED
        BY <2>1, <2>2
<1>4. Way(p, "dead")
    BY DEF Way
<1> QED
    BY <1>3, <1>4, AccountedKeeps

\* The two halves of the initialisation, under the lock and before anyone is
\* counted.
LEMMA SetvalKeeps ==
    ASSUME SemInv, NEW p \in Procs, SetVal0(p) \/ SetVal1(p)
    PROVE  SemInv'
<1> USE DEF Labels, Engaged, Locker, Counted
<1>a. SemTypes /\ Ids /\ LockHeld /\ Undo /\ Counting /\ Knows /\ Kept /\ Roles
    BY DEF SemInv
<1>b. BIGCOUNT \in Nat \ {0} /\ InitVal \in Nat
    BY SemAssumption, UsersFinite
<1>3. PICK l \in {"setval1", "endcreate"} : Goto(p, l) /\ UNCHANGED <<cur, made, id>>
    BY DEF SetVal0, SetVal1
<1>4. /\ pc' \in [Procs -> Labels] /\ pc'[p] = l
      /\ \A q \in Procs : (Valid(q)' <=> Valid(q)) /\ (q # p => pc'[q] = pc[q])
      /\ Users' = Users \ {p} /\ Inside' = Inside \ {p}
    BY <1>3, <1>a, Moved
<1>5. pc[p] \in {"setval0", "setval1"} /\ sem.cnt = 0 /\ (pc[p] = "setval1" => sem.val = InitVal)
    BY <1>a DEF SetVal0, SetVal1, At, Knows, KnowsOf
<1>6. /\ Users = {} /\ Inside = {} /\ Users' = {} /\ Inside' = {}
      /\ \A q \in Procs : adj[q].cnt = 0 /\ adj[q].val = 0
    <2>1. Users = {} /\ Inside = {}
        BY <1>5, <1>a DEF Counting, Users, Inside
    <2> QED
        BY <1>4, <2>1, <1>a DEF Undo
<1>7. adj' \in [Procs -> [val : {0, 1}, cnt : {0, 1}, lck : {0, 1}]] /\ \A q \in Procs :
          adj'[q].val = 0 /\ adj'[q].cnt = 0 /\ adj'[q].lck = adj[q].lck
    BY <1>6, <1>a DEF SetVal0, SetVal1, SemTypes
<1>8. /\ sem' \in [val : Nat, cnt : Nat, lck : {0, 1}] /\ sem'.lck = sem.lck /\ sem'.val = InitVal
      /\ sem'.cnt = IF l = "setval1" THEN 0 ELSE BIGCOUNT
    <2>1. CASE SetVal0(p)
        BY <1>3, <1>4, <1>5, <2>1, <1>b, <1>a DEF SetVal0, At, Goto, SemTypes
    <2>2. CASE SetVal1(p)
        BY <1>3, <1>4, <1>5, <2>2, <1>b, <1>a DEF SetVal1, At, Goto, SemTypes
    <2> QED
        BY <2>1, <2>2
<1>9. SemTypes' /\ Ids'
    BY <1>3, <1>4, <1>5, <1>7, <1>8, <1>a DEF SemTypes, Ids
<1>10. LockHeld'
    BY <1>4, <1>5, <1>8, <1>a DEF LockHeld
<1>11. Undo'
    BY <1>4, <1>5, <1>6, <1>7, <1>a DEF Undo
<1>12. Counting'
    BY <1>6, <1>8, <1>b, FS_EmptySet DEF Counting
<1>13. Knows'
    <2>1. ASSUME NEW q \in Procs, q # p PROVE pc'[q] \notin Locker
        BY <1>4, <1>5, <2>1, <1>a DEF LockHeld
    <2>2. KnowsOf(p)'
        BY <1>3, <1>4, <1>8, <1>b DEF KnowsOf
    <2>3. ASSUME NEW q \in Procs, q # p PROVE KnowsOf(q)'
        BY <2>1, <2>3 DEF KnowsOf
    <2> QED
        BY <2>2, <2>3 DEF Knows
<1>14. Kept' /\ Roles'
    BY <1>3, <1>4, <1>5, <1>a DEF Kept, Roles, Procs
<1> QED
    BY <1>9, <1>10, <1>11, <1>12, <1>13, <1>14 DEF SemInv

\* The set is removed, and nobody has it any more.
LEMMA RemovalKeeps ==
    ASSUME SemInv, NEW p \in Procs, SemRm(p)
    PROVE  SemInv'
<1> USE DEF Labels, Engaged, Locker, Counted
<1>a. SemTypes /\ Ids /\ LockHeld /\ Undo /\ Counting /\ Knows /\ Kept /\ Roles
    BY DEF SemInv
<1>2. /\ pc' \in [Procs -> Labels] /\ pc'[p] = "done" /\ cur' = 0 /\ sem' = Zero
      /\ adj' = [q \in Procs |-> Zero] /\ UNCHANGED <<made, id>>
      /\ pc[p] = "rm" /\ \A q \in Procs : q # p => pc'[q] = pc[q]
    BY <1>a DEF SemRm, At, Goto, SemTypes
<1>3. \A q \in Procs : pc'[q] \notin Locker /\ (pc'[q] \in Engaged => ~Valid(q)')
    BY <1>2, <1>a DEF LockHeld, Ids, Valid
<1>4. Users' = {} /\ Inside' = {}
    BY <1>3 DEF Users, Inside
<1>5. \A q \in Creators : pc'[q] \notin Counted
    BY <1>2, <1>a DEF Knows, KnowsOf, Procs
<1>6. SemTypes' /\ Ids'
    BY <1>2, <1>a DEF SemTypes, Ids, Zero
<1>7. LockHeld' /\ Undo' /\ Counting'
    BY <1>2, <1>3, <1>4 DEF LockHeld, Undo, Counting, Zero
<1>8. Knows'
    BY <1>3 DEF Knows, KnowsOf
<1>9. Kept' /\ Roles'
    BY <1>2, <1>5, <1>a DEF Kept, Roles
<1> QED
    BY <1>6, <1>7, <1>8, <1>9 DEF SemInv

\* A new set has an id that nobody has.
LEMMA CreationKeeps ==
    ASSUME SemInv, NEW p \in Procs, Semget(p), cur = 0
    PROVE  SemInv'
<1> USE DEF Labels, Engaged, Locker, Counted
<1>a. SemTypes /\ Ids /\ LockHeld /\ Undo /\ Counting /\ Knows /\ Kept /\ Roles
    BY DEF SemInv
<1>2. /\ pc' \in [Procs -> Labels] /\ pc'[p] = "lock" /\ cur' = made + 1 /\ made' = made + 1
      /\ sem' = Zero /\ adj' = adj /\ id' \in [Procs -> Nat] /\ id'[p] = made + 1
      /\ pc[p] = "create" /\ \A q \in Procs : q # p => pc'[q] = pc[q] /\ id'[q] = id[q]
    BY <1>a DEF Semget, At, Goto, SemTypes
<1>3. \A q \in Procs : pc[q] \in Engaged => ~Valid(q)
    BY <1>a DEF Ids, Valid
<1>4. \A q \in Procs : pc'[q] \notin Locker
    BY <1>2, <1>3, <1>a DEF LockHeld
<1>5. Users = {} /\ Inside = {}
    BY <1>3 DEF Users, Inside
<1>6. \A q \in Procs : q # p => ~Valid(q)'
    BY <1>2, <1>a DEF Ids, Valid, SemTypes
<1>7. Users' = {} /\ Inside' = {}
    BY <1>2, <1>6 DEF Users, Inside
<1>8. SemTypes' /\ Ids'
    BY <1>2, <1>a DEF SemTypes, Ids, Zero
<1>9. LockHeld'
    BY <1>2, <1>4 DEF LockHeld, Zero
<1>10. Undo' /\ Counting'
    BY <1>2, <1>4, <1>5, <1>7, <1>a DEF Undo, Counting, Zero
<1>11. Knows'
    BY <1>4 DEF Knows, KnowsOf
<1>12. Kept'
    BY <1>2, <1>3, <1>a DEF Kept, Valid, Procs
<1>13. Roles'
    BY <1>2, <1>a DEF Roles
<1> QED
    BY <1>8, <1>9, <1>10, <1>11, <1>12, <1>13 DEF SemInv

-----------------------------------------------------------------------------
\* The invariant holds before the first call.
LEMMA SemInvInit == SemInit => SemInv
<1> SUFFICES ASSUME SemInit PROVE SemInv
    OBVIOUS
<1> USE DEF Labels, Engaged, Locker, Counted
<1>1. Users = {} /\ Inside = {}
    BY DEF SemInit, Users, Inside
<1> QED
    BY <1>1 DEF SemInit, SemInv, SemTypes, Ids, LockHeld, Undo, Counting, Knows, KnowsOf, Kept, Roles, Zero, Procs

\* Every system call and every exit keeps it.
LEMMA SemInvNext == SemInv /\ [SemNext]_semVars => SemInv'
<1> SUFFICES ASSUME SemInv, [SemNext]_semVars PROVE SemInv'
    OBVIOUS
<1>1. ASSUME NEW p \in Procs, Begin(p) \/ Step(p) \/ ExitEarly(p) PROVE SemInv'
    <2>1. sem.cnt \in Nat /\ BIGCOUNT \in Nat /\ (pc[p] = "closeget" => sem.cnt <= BIGCOUNT)
        BY UsersFinite, SemAssumption DEF SemInv, SemTypes, Counting, Knows, KnowsOf
    <2>2. CASE Begin(p) \/ OpLockSleeps(p) \/ OpLockAgain(p) \/ GetVal(p) \/ OpenGet(p) \/ CloseGet(p)
        BY <2>1, <2>2, QuietKeeps DEF CloseGet, At
    <2>3. CASE Semget(p)
        BY <2>3, QuietKeeps, CreationKeeps
    <2>4. CASE OpLock(p) \/ OpUnlock(p) \/ EndCreate(p)
        BY <2>4, SemopKeeps
    <2>5. CASE OpOpen(p) \/ SemWait(p) \/ SemSignal(p) \/ OpClose(p)
        <3>1. CASE Valid(p)
            BY <2>5, <3>1, SemopKeeps
        <3>2. CASE ~Valid(p)
            BY <2>5, <3>2, DeathKeeps DEF OpOpen, SemWait, SemSignal, OpClose, At
        <3> QED
            BY <3>1, <3>2
    <2>6. CASE OpLockRemoved(p) \/ ExitEarly(p)
        BY <2>6, DeathKeeps DEF OpLockRemoved, ExitEarly, At
    <2>7. CASE SetVal0(p) \/ SetVal1(p)
        BY <2>7, SetvalKeeps
    <2>8. CASE SemRm(p)
        BY <2>8, RemovalKeeps
    <2> QED
        BY <1>1, <2>2, <2>3, <2>4, <2>5, <2>6, <2>7, <2>8 DEF Step
<1>2. CASE UNCHANGED semVars
    BY <1>2 DEF semVars, SemInv, SemTypes, Ids, LockHeld, Undo, Counting, Knows, KnowsOf, Kept, Roles,
                Users, Inside, Valid
<1> QED
    BY <1>1, <1>2 DEF SemNext

\* For any number of processes: a creator keeps the set until it closes it, no
\* more are inside than the initial value allows, and the last one to close
\* the set removes it.
THEOREM SemaphoreSound == SemSpec => []SemSound
<1>1. SemInv => SemSound
    <2> SUFFICES ASSUME SemInv PROVE SemSound
        OBVIOUS
    <2>1. \A p \in Creators : pc[p] \in {"using", "inside", "closing"} => Valid(p)
        BY DEF SemInv, Kept, Counted
    <2>2. Cardinality(Inside) <= InitVal
        <3>1. CASE sem.cnt = 0
            <4>1. Inside = {}
                BY <3>1 DEF SemInv, Counting, Users, Inside, Counted
            <4> QED
                BY <4>1, FS_EmptySet, SemAssumption
        <3>2. CASE sem.cnt # 0
            BY <3>2, UsersFinite, SemAssumption DEF SemInv, Counting, SemTypes
        <3> QED
            BY <3>1, <3>2
    <2>3. (\A p \in Procs : pc[p] = "done") => cur = 0
        BY DEF SemInv, Kept, Engaged, Locker, Counted
    <2> QED
        BY <2>1, <2>2, <2>3 DEF SemSound, Inside
<1> QED
    BY <1>1, SemInvInit, SemInvNext, PTL DEF SemSpec

\* The lock, the counter and the value of the set are what the processes have
\* made of them, and SEM_UNDO would take back exactly what each has done.
THEOREM MembersCount == SemSpec => [](LockHeld /\ Undo /\ Counting)
<1>1. SemInv => LockHeld /\ Undo /\ Counting
    BY DEF SemInv
<1> QED
    BY <1>1, SemInvInit, SemInvNext, PTL DEF SemSpec

-----------------------------------------------------------------------------
(* The reference counts of mutex1.c, mutex2.c and mutex3.c.                  *)

FooSpec == FooInit({1, 2, 3}) /\ [][FooNext]_fooVars

\* Only foo_alloc would put objects into the table, and it does not.
FooTypes ==
    /\ ver \in {1, 2, 3} /\ live \subseteq Foos /\ f_count \in [Foos -> Nat]
    /\ refs \in [Threads -> [Foos -> Nat]] /\ segv \in BOOLEAN /\ fh = <<>>
    /\ fpc \in [Threads -> [at : {"idle", "relock", "free"}, fp : Foos \cup {NoFoo}]]
    /\ \A t \in Threads : fpc[t].at = "idle" <=> fpc[t].fp = NoFoo

\* An object that is in use is allocated, its count is the number of references
\* to it, whoever is to free it is alone and has left none, and whoever
\* is between the two looks has one.
ObjectSound(o) ==
    /\ IsFiniteSet(RefsTo(o))
    /\ \A t \in Threads : Has(t, o) \/ fpc[t].fp = o => o \in live
    /\ ~segv /\ o \in live => f_count[o] = Cardinality(RefsTo(o))
    /\ \A t \in Threads : fpc[t] = [at |-> "relock", fp |-> o] => Has(t, o)
    /\ \A t, u \in Threads :
          fpc[t] = [at |-> "free", fp |-> o] /\ fpc[u] = [at |-> "free", fp |-> o] => t = u
    /\ ~segv => \A t \in Threads : fpc[t] = [at |-> "free", fp |-> o] => f_count[o] = 0

FooInv == FooTypes /\ \A o \in Foos : ObjectSound(o)

\* A thread with a reference is counted; if it is alone with one, nobody else has any.
LEMMA RefsCount ==
    ASSUME FooTypes, NEW o \in Foos, IsFiniteSet(RefsTo(o)), NEW t \in Threads, Has(t, o)
    PROVE  /\ Cardinality(RefsTo(o)) \in Nat \ {0}
           /\ Cardinality(RefsTo(o)) = 1 => refs[t][o] = 1 /\ \A u \in Threads : Has(u, o) => u = t
<1>1. refs[t][o] \in Nat /\ refs[t][o] > 0
    BY DEF FooTypes, Has
<1>2. <<t, refs[t][o]>> \in RefsTo(o) /\ <<t, 1>> \in RefsTo(o)
    BY <1>1 DEF RefsTo
<1>3. Cardinality(RefsTo(o)) \in Nat \ {0}
    BY <1>2, FS_EmptySet, FS_CardinalityType
<1>4. ASSUME Cardinality(RefsTo(o)) = 1
      PROVE  refs[t][o] = 1 /\ \A u \in Threads : Has(u, o) => u = t
    <2>1. PICK x : RefsTo(o) = {x}
        BY <1>4, FS_Singleton
    <2>2. ASSUME NEW u \in Threads, Has(u, o) PROVE <<u, 1>> \in RefsTo(o)
        <3>1. refs[u][o] \in Nat /\ refs[u][o] > 0
            BY <2>2 DEF FooTypes, Has
        <3> QED
            BY <3>1 DEF RefsTo
    <2>3. <<t, refs[t][o]>> = <<t, 1>>
        BY <1>2, <2>1
    <2>4. \A u \in Threads : Has(u, o) => <<u, 1>> = <<t, 1>>
        BY <1>2, <2>1, <2>2
    <2> QED
        BY <2>3, <2>4
<1> QED
    BY <1>3, <1>4

\* One more reference, with the next number of its thread.
LEMMA RefGiven ==
    ASSUME FooTypes, NEW t \in Threads, NEW o \in Foos, Give(t, o)
    PROVE  /\ refs' \in [Threads -> [Foos -> Nat]]
           /\ \A u \in Threads, x \in Foos : refs'[u][x] = IF u = t /\ x = o THEN refs[u][x] + 1 ELSE refs[u][x]
           /\ \A x \in Foos \ {o} : RefsTo(x)' = RefsTo(x)
           /\ IsFiniteSet(RefsTo(o)) =>
                 IsFiniteSet(RefsTo(o))' /\ Cardinality(RefsTo(o))' = Cardinality(RefsTo(o)) + 1
<1>1. refs \in [Threads -> [Foos -> Nat]] /\ refs[t][o] \in Nat
    BY DEF FooTypes
<1>2. refs' \in [Threads -> [Foos -> Nat]]
    BY <1>1 DEF Give
<1>3. \A u \in Threads, x \in Foos : refs'[u][x] = IF u = t /\ x = o THEN refs[u][x] + 1 ELSE refs[u][x]
    BY <1>1 DEF Give
<1>4. \A x \in Foos \ {o} : RefsTo(x)' = RefsTo(x)
    BY <1>3 DEF RefsTo
<1>5. RefsTo(o)' = RefsTo(o) \cup {<<t, refs[t][o] + 1>>}
    <2>1. 1 .. refs'[t][o] = (1 .. refs[t][o]) \cup {refs[t][o] + 1}
        BY <1>1, <1>3
    <2>2. \A u \in Threads \ {t} : refs'[u][o] = refs[u][o]
        BY <1>3
    <2> QED
        BY <2>1, <2>2 DEF RefsTo
<1>6. <<t, refs[t][o] + 1>> \notin RefsTo(o)
    BY <1>1 DEF RefsTo
<1>7. IsFiniteSet(RefsTo(o)) =>
          IsFiniteSet(RefsTo(o))' /\ Cardinality(RefsTo(o))' = Cardinality(RefsTo(o)) + 1
    BY <1>5, <1>6, FS_AddElement
<1> QED
    BY <1>2, <1>3, <1>4, <1>7

\* One less: the last of its thread.
LEMMA RefDropped ==
    ASSUME FooTypes, NEW t \in Threads, NEW o \in Foos, Has(t, o), Drop(t, o)
    PROVE  /\ refs' \in [Threads -> [Foos -> Nat]]
           /\ \A u \in Threads, x \in Foos : refs'[u][x] = IF u = t /\ x = o THEN refs[u][x] - 1 ELSE refs[u][x]
           /\ \A x \in Foos \ {o} : RefsTo(x)' = RefsTo(x)
           /\ IsFiniteSet(RefsTo(o)) =>
                 IsFiniteSet(RefsTo(o))' /\ Cardinality(RefsTo(o))' = Cardinality(RefsTo(o)) - 1
<1>1. refs \in [Threads -> [Foos -> Nat]] /\ refs[t][o] \in Nat \ {0}
    BY DEF FooTypes, Has
<1>2. refs' \in [Threads -> [Foos -> Nat]]
    BY <1>1 DEF Drop
<1>3. \A u \in Threads, x \in Foos : refs'[u][x] = IF u = t /\ x = o THEN refs[u][x] - 1 ELSE refs[u][x]
    BY <1>1 DEF Drop
<1>4. \A x \in Foos \ {o} : RefsTo(x)' = RefsTo(x)
    BY <1>3 DEF RefsTo
<1>5. RefsTo(o)' = RefsTo(o) \ {<<t, refs[t][o]>>}
    <2>1. 1 .. refs'[t][o] = (1 .. refs[t][o]) \ {refs[t][o]}
        <3>1. refs'[t][o] = refs[t][o] - 1
            BY <1>3
        <3> QED
            BY <1>1, <3>1
    <2>2. \A u \in Threads \ {t} : refs'[u][o] = refs[u][o]
        BY <1>3
    <2> QED
        BY <2>1, <2>2 DEF RefsTo
<1>6. <<t, refs[t][o]>> \in RefsTo(o)
    BY <1>1 DEF RefsTo
<1>7. IsFiniteSet(RefsTo(o)) =>
          IsFiniteSet(RefsTo(o))' /\ Cardinality(RefsTo(o))' = Cardinality(RefsTo(o)) - 1
    <2>1. ASSUME NEW S, NEW x \in S, IsFiniteSet(S)
          PROVE  IsFiniteSet(S \ {x}) /\ Cardinality(S \ {x}) = Cardinality(S) - 1
        BY <2>1, FS_RemoveElement
    <2> QED
        BY <1>5, <1>6, <2>1
<1> QED
    BY <1>2, <1>3, <1>4, <1>7

\* The objects that a step does not touch are as they were.
LEMMA OthersSound ==
    ASSUME FooInv, NEW o \in Foos, ~segv,
           f_count'[o] = f_count[o], RefsTo(o)' = RefsTo(o), o \in live' <=> o \in live,
           \A t \in Threads : refs'[t][o] = refs[t][o],
           \A t \in Threads : fpc'[t].fp = o => fpc'[t] = fpc[t]
    PROVE  ObjectSound(o)'
<1>1. ObjectSound(o)
    BY DEF FooInv
<1>2. fpc \in [Threads -> [at : {"idle", "relock", "free"}, fp : Foos \cup {NoFoo}]]
    BY DEF FooInv, FooTypes
<1> QED
    BY <1>1, <1>2 DEF ObjectSound, Has

\* foo_alloc: nobody has a reference to what malloc returns.
LEMMA FooAllocKeeps == ASSUME FooInv, NEW t \in Threads, FooAlloc(t) PROVE FooInv'
<1>1. PICK o \in Foos \ live :
          /\ live' = live \cup {o} /\ f_count' = [f_count EXCEPT ![o] = 1]
          /\ Give(t, o) /\ UNCHANGED <<ver, fh, fpc, segv>> /\ ~segv
    BY DEF FooAlloc, Ready
<1>2. FooTypes /\ ObjectSound(o)
    BY DEF FooInv
<1>3. FooTypes'
    BY <1>1, <1>2, RefGiven DEF FooTypes
<1>4. \A x \in Foos \ {o} : ObjectSound(x)'
    <2> TAKE x \in Foos \ {o}
    <2>1. f_count'[x] = f_count[x] /\ (x \in live' <=> x \in live)
        BY <1>1, <1>2 DEF FooTypes
    <2> QED
        BY <1>1, <1>2, <2>1, OthersSound, RefGiven
<1>5. RefsTo(o) = {}
    <2>1. \A u \in Threads : refs[u][o] \in Nat /\ ~(refs[u][o] > 0)
        BY <1>2 DEF FooTypes, ObjectSound, Has
    <2>2. \A u \in Threads : 1 .. refs[u][o] = {}
        BY <2>1
    <2> QED
        BY <2>2 DEF RefsTo
<1>6. IsFiniteSet(RefsTo(o))' /\ Cardinality(RefsTo(o))' = 1
    <2>1. IsFiniteSet(RefsTo(o)) /\ Cardinality(RefsTo(o)) = 0
        BY <1>5, FS_EmptySet
    <2> QED
        BY <1>1, <1>2, <2>1, RefGiven
<1>7. ObjectSound(o)'
    <2>1. o \in live' /\ f_count'[o] = 1
        BY <1>1, <1>2 DEF FooTypes
    <2>2. \A u \in Threads : fpc'[u].fp # o
        BY <1>1, <1>2 DEF ObjectSound
    <2>3. \A u \in Threads : fpc'[u] # [at |-> "relock", fp |-> o] /\ fpc'[u] # [at |-> "free", fp |-> o]
        BY <2>2
    <2> QED
        BY <1>6, <2>1, <2>3 DEF ObjectSound
<1> QED
    BY <1>3, <1>4, <1>7 DEF FooInv

\* foo_hold: the object has a reference already, and so is not being freed.
LEMMA FooHoldKeeps ==
    ASSUME FooInv, NEW t \in Threads, NEW u \in Threads, NEW o \in Foos, FooHold(t, u, o) PROVE FooInv'
<1>1. /\ Has(t, o) /\ f_count' = [f_count EXCEPT ![o] = @ + 1]
      /\ Give(u, o) /\ UNCHANGED <<ver, live, fh, fpc, segv>> /\ ~segv
    BY DEF FooHold, Ready
<1>2. FooTypes /\ ObjectSound(o)
    BY DEF FooInv
<1>3. FooTypes'
    BY <1>1, <1>2, RefGiven DEF FooTypes
<1>4. \A x \in Foos \ {o} : ObjectSound(x)'
    BY <1>1, <1>2, OthersSound, RefGiven DEF FooTypes
<1>5. ObjectSound(o)'
    <2>1. o \in live /\ IsFiniteSet(RefsTo(o)) /\ f_count[o] = Cardinality(RefsTo(o))
        BY <1>1, <1>2 DEF ObjectSound
    <2>2. o \in live' /\ f_count'[o] = f_count[o] + 1 /\ f_count[o] \in Nat
        BY <1>1, <1>2, <2>1 DEF FooTypes
    <2>3. IsFiniteSet(RefsTo(o))' /\ f_count'[o] = Cardinality(RefsTo(o))'
        BY <1>1, <1>2, <2>1, <2>2, RefGiven
    <2>4. f_count[o] # 0
        BY <1>1, <1>2, <2>1, RefsCount
    <2>5. \A v \in Threads : fpc'[v] # [at |-> "free", fp |-> o]
        BY <1>1, <1>2, <2>4 DEF ObjectSound
    <2>6. \A v \in Threads : Has(v, o) => Has(v, o)'
        BY <1>1, <1>2, RefGiven DEF FooTypes, Has
    <2>7. \A v \in Threads : fpc'[v] = [at |-> "relock", fp |-> o] => Has(v, o)'
        BY <1>1, <1>2, <2>6 DEF ObjectSound
    <2> QED
        BY <2>2, <2>3, <2>5, <2>7 DEF ObjectSound
<1> QED
    BY <1>3, <1>4, <1>5 DEF FooInv

\* Nothing happens.
LEMMA FooStutter == ASSUME FooInv, UNCHANGED fooVars PROVE FooInv'
<1>1. FooTypes'
    BY DEF FooInv, FooTypes, fooVars
<1>2. ASSUME NEW o \in Foos PROVE ObjectSound(o)'
    <2>1. RefsTo(o)' = RefsTo(o)
        BY DEF RefsTo, fooVars
    <2>2. ObjectSound(o)
        BY DEF FooInv
    <2> QED
        BY <2>1, <2>2 DEF ObjectSound, Has, fooVars
<1> QED
    BY <1>1, <1>2 DEF FooInv

\* foo_find walks empty lists.
LEMMA FooFindKeeps == ASSUME FooInv, NEW t \in Threads, FooFind(t) PROVE FooInv'
<1>1. Range(fh) = {}
    <2>1. fh = <<>> /\ DOMAIN fh = {}
        BY DEF FooInv, FooTypes
    <2> QED
        BY <2>1 DEF Range
<1>2. UNCHANGED fooVars
    BY <1>1 DEF FooFind, fooVars
<1> QED
    BY <1>2, FooStutter

\* An object is on no list, and the walk to it follows a null pointer.
LEMMA UnlinkFails == ASSUME FooTypes, NEW o, Unlink(o) PROVE segv' = TRUE /\ fh' = fh
<1>1. o \notin Range(fh)
    <2>1. fh = <<>> /\ DOMAIN fh = {}
        BY DEF FooTypes
    <2> QED
        BY <2>1 DEF Range
<1> QED
    BY <1>1 DEF Unlink

\* A reference is given up, and the count lowered with it: who gives up the last one frees
\* the object.
LEMMA LastFrees ==
    ASSUME FooInv, NEW t \in Threads, NEW o \in Foos, ~segv, Has(t, o), Drop(t, o),
           f_count' = [f_count EXCEPT ![o] = @ - 1], UNCHANGED <<ver, live, fh>>,
           fpc[t] \in {Idle, [at |-> "relock", fp |-> o]}, segv' \in BOOLEAN,
           fpc' = [fpc EXCEPT ![t] = IF f_count[o] = 1 THEN [at |-> "free", fp |-> o] ELSE Idle]
    PROVE  FooInv'
<1>1. FooTypes /\ ObjectSound(o)
    BY DEF FooInv
<1>2. o \in live /\ IsFiniteSet(RefsTo(o)) /\ f_count[o] = Cardinality(RefsTo(o)) /\ f_count[o] \in Nat \ {0}
    <2>1. o \in live /\ IsFiniteSet(RefsTo(o)) /\ f_count[o] = Cardinality(RefsTo(o))
        BY <1>1 DEF ObjectSound
    <2> QED
        BY <1>1, <2>1, RefsCount
<1>3. f_count' \in [Foos -> Nat] /\ f_count'[o] = f_count[o] - 1
    BY <1>1, <1>2 DEF FooTypes
<1>4. fpc'[t] = (IF f_count[o] = 1 THEN [at |-> "free", fp |-> o] ELSE Idle)
      /\ \A u \in Threads \ {t} : fpc'[u] = fpc[u]
    BY <1>1 DEF FooTypes
<1>5. FooTypes'
    <2>1. fpc' \in [Threads -> [at : {"idle", "relock", "free"}, fp : Foos \cup {NoFoo}]]
        BY <1>1 DEF FooTypes, Idle
    <2>2. \A u \in Threads : fpc'[u].at = "idle" <=> fpc'[u].fp = NoFoo
        BY <1>1, <1>4, FooAssumption DEF FooTypes, Idle
    <2> QED
        BY <1>1, <1>3, <2>1, <2>2, RefDropped DEF FooTypes
<1>6. \A x \in Foos \ {o} : ObjectSound(x)'
    <2> TAKE x \in Foos \ {o}
    <2>1. \A u \in Threads : fpc'[u].fp = x => fpc'[u] = fpc[u]
        BY <1>4, FooAssumption DEF Idle
    <2>2. f_count'[x] = f_count[x]
        BY <1>1 DEF FooTypes
    <2> QED
        BY <1>1, <2>1, <2>2, OthersSound, RefDropped
<1>7. ObjectSound(o)'
    <2>1. IsFiniteSet(RefsTo(o))' /\ f_count'[o] = Cardinality(RefsTo(o))'
        BY <1>1, <1>2, <1>3, RefDropped
    <2>2. \A u \in Threads : fpc[u] # [at |-> "free", fp |-> o]
        BY <1>1, <1>2 DEF ObjectSound
    <2>3. \A u \in Threads : fpc'[u] = [at |-> "free", fp |-> o] => u = t /\ f_count[o] = 1
        BY <1>4, <2>2, FooAssumption DEF Idle
    <2>4. \A u \in Threads \ {t} : Has(u, o)' <=> Has(u, o)
        BY <1>1, RefDropped DEF Has
    <2>5. ASSUME NEW u \in Threads, fpc'[u] = [at |-> "relock", fp |-> o] PROVE Has(u, o)'
        <3>1. u # t /\ fpc[u] = [at |-> "relock", fp |-> o]
            BY <1>4, <2>5, FooAssumption DEF Idle
        <3> QED
            BY <1>1, <2>4, <3>1 DEF ObjectSound
    <2> QED
        BY <1>2, <1>3, <2>1, <2>3, <2>5 DEF ObjectSound
<1> QED
    BY <1>5, <1>6, <1>7 DEF FooInv

\* foo_rele of mutex1.c, and the first look of mutex2.c's.
LEMMA ReleKeeps == ASSUME FooInv, NEW t \in Threads, NEW o \in Foos, Rele(t, o) PROVE FooInv'
<1>1. FooTypes /\ ObjectSound(o) /\ fpc[t] = Idle /\ ~segv /\ Has(t, o) /\ UNCHANGED <<ver, live, fh, segv>>
    <2>1. FooTypes /\ ObjectSound(o) /\ fpc[t].at = "idle" /\ ~segv /\ Has(t, o) /\ UNCHANGED <<ver, live, fh, segv>>
        BY DEF FooInv, Rele, Ready
    <2> QED
        BY <2>1 DEF FooTypes, Idle
<1>2. CASE /\ fpc' = [fpc EXCEPT ![t] = [at |-> "relock", fp |-> o]]
           /\ UNCHANGED <<f_count, refs>>
    <2>1. fpc'[t] = [at |-> "relock", fp |-> o] /\ \A u \in Threads \ {t} : fpc'[u] = fpc[u]
        BY <1>1, <1>2 DEF FooTypes
    <2>2. FooTypes'
        <3>1. fpc' \in [Threads -> [at : {"idle", "relock", "free"}, fp : Foos \cup {NoFoo}]]
            BY <1>1, <1>2 DEF FooTypes
        <3>2. \A u \in Threads : fpc'[u].at = "idle" <=> fpc'[u].fp = NoFoo
            <4>1. fpc'[t].at # "idle" /\ fpc'[t].fp # NoFoo
                BY <2>1, FooAssumption
            <4> QED
                BY <1>1, <2>1, <4>1 DEF FooTypes
        <3> QED
            BY <1>1, <1>2, <3>1, <3>2 DEF FooTypes
    <2>3. \A x \in Foos : RefsTo(x)' = RefsTo(x)
        BY <1>2 DEF RefsTo
    <2>4. \A x \in Foos \ {o} : ObjectSound(x)'
        BY <1>1, <1>2, <2>1, <2>3, OthersSound
    <2>5. ObjectSound(o)'
        <3>1. o \in live
            BY <1>1 DEF ObjectSound
        <3>2. \A u \in Threads : fpc'[u] = [at |-> "free", fp |-> o] => fpc[u] = [at |-> "free", fp |-> o]
            BY <2>1
        <3>3. \A u \in Threads : fpc'[u] = [at |-> "relock", fp |-> o] => Has(u, o)'
            BY <1>1, <1>2, <2>1 DEF ObjectSound, Has
        <3> QED
            BY <1>1, <1>2, <2>3, <3>1, <3>2, <3>3 DEF ObjectSound
    <2> QED
        BY <2>2, <2>4, <2>5 DEF FooInv
<1>3. CASE /\ f_count' = [f_count EXCEPT ![o] = @ - 1] /\ Drop(t, o)
           /\ fpc' = IF f_count[o] = 1 THEN [fpc EXCEPT ![t] = [at |-> "free", fp |-> o]] ELSE fpc
    <2>1. fpc' = [fpc EXCEPT ![t] = IF f_count[o] = 1 THEN [at |-> "free", fp |-> o] ELSE Idle]
        BY <1>1, <1>3 DEF FooTypes
    <2> QED
        BY <1>1, <1>3, <2>1, LastFrees DEF FooTypes
<1> QED
    BY <1>2, <1>3 DEF Rele

\* foo_rele of mutex3.c.
LEMMA Rele3Keeps == ASSUME FooInv, NEW t \in Threads, NEW o \in Foos, Rele3(t, o) PROVE FooInv'
<1>1. /\ FooTypes /\ fpc[t] = Idle /\ ~segv /\ Has(t, o) /\ UNCHANGED <<ver, live>>
      /\ f_count' = [f_count EXCEPT ![o] = @ - 1] /\ Drop(t, o)
    <2>1. fpc[t].at = "idle"
        BY DEF Rele3, Ready
    <2> QED
        BY <2>1 DEF FooInv, FooTypes, Rele3, Ready, Idle
<1>2. segv' \in BOOLEAN /\ fh' = fh
    BY <1>1, UnlinkFails DEF Rele3, FooTypes
<1>3. fpc' = [fpc EXCEPT ![t] = IF f_count[o] = 1 THEN [at |-> "free", fp |-> o] ELSE Idle]
    BY <1>1 DEF Rele3, FooTypes
<1> QED
    BY <1>1, <1>2, <1>3, LastFrees

\* foo_rele of mutex2.c, with both locks.
LEMMA RelockKeeps == ASSUME FooInv, NEW t \in Threads, Relock(t) PROVE FooInv'
<1>1. PICK o : o = fpc[t].fp
    OBVIOUS
<1>2. FooTypes /\ fpc[t].at = "relock" /\ ~segv /\ Drop(t, o) /\ UNCHANGED <<ver, live>>
    BY <1>1 DEF FooInv, Relock
<1>3. o \in Foos /\ fpc[t] = [at |-> "relock", fp |-> o]
    BY <1>1, <1>2 DEF FooTypes
<1>4. ObjectSound(o) /\ Has(t, o)
    BY <1>3 DEF FooInv, ObjectSound
<1>5. CASE f_count[o] # 1
    BY <1>1, <1>2, <1>3, <1>4, <1>5, LastFrees DEF Relock, FooTypes
<1>6. CASE f_count[o] = 1
    <2>1. /\ segv' = TRUE /\ fh' = fh /\ f_count' = f_count
          /\ fpc' = [fpc EXCEPT ![t] = [at |-> "free", fp |-> o]]
        BY <1>1, <1>2, <1>6, UnlinkFails DEF Relock
    <2>2. fpc'[t] = [at |-> "free", fp |-> o] /\ \A u \in Threads \ {t} : fpc'[u] = fpc[u]
        BY <1>2, <2>1 DEF FooTypes
    <2>3. FooTypes'
        <3>1. fpc' \in [Threads -> [at : {"idle", "relock", "free"}, fp : Foos \cup {NoFoo}]]
            BY <1>2, <1>3, <2>1 DEF FooTypes
        <3>2. \A u \in Threads : fpc'[u].at = "idle" <=> fpc'[u].fp = NoFoo
            <4>1. fpc'[t].at # "idle" /\ fpc'[t].fp # NoFoo
                BY <1>3, <2>2, FooAssumption
            <4> QED
                BY <1>2, <2>2, <4>1 DEF FooTypes
        <3>3. refs' \in [Threads -> [Foos -> Nat]]
            BY <1>2, <1>3, <1>4, RefDropped
        <3> QED
            BY <1>2, <2>1, <3>1, <3>2, <3>3 DEF FooTypes
    <2>4. \A x \in Foos \ {o} : ObjectSound(x)'
        BY <1>2, <1>3, <1>4, <2>1, <2>2, OthersSound, RefDropped
    <2>5. ObjectSound(o)'
        <3>1. IsFiniteSet(RefsTo(o)) /\ o \in live /\ f_count[o] = Cardinality(RefsTo(o))
            BY <1>2, <1>4 DEF ObjectSound
        <3>2. IsFiniteSet(RefsTo(o)')
            BY <1>2, <1>3, <1>4, <3>1, RefDropped
        <3>3. \A u \in Threads : Has(u, o) => u = t
            BY <1>2, <1>3, <1>4, <1>6, <3>1, RefsCount
        <3>4. \A u \in Threads : fpc[u] # [at |-> "free", fp |-> o]
            BY <1>2, <1>4, <1>6 DEF ObjectSound
        <3>5. \A u \in Threads : fpc'[u] # [at |-> "relock", fp |-> o]
            BY <1>4, <2>2, <3>3 DEF ObjectSound
        <3>6. \A u \in Threads : fpc'[u] = [at |-> "free", fp |-> o] => u = t
            BY <2>2, <3>4
        <3> QED
            BY <1>2, <2>1, <3>1, <3>2, <3>5, <3>6 DEF ObjectSound
    <2> QED
        BY <2>3, <2>4, <2>5 DEF FooInv
<1> QED
    BY <1>5, <1>6

\* Who frees an object is alone with it.
LEMMA FreeKeeps == ASSUME FooInv, NEW t \in Threads, Free(t) PROVE FooInv'
<1>1. PICK o : o = fpc[t].fp
    OBVIOUS
<1>2. /\ FooTypes /\ fpc[t].at = "free" /\ ~segv /\ live' = live \ {o}
      /\ fpc' = [fpc EXCEPT ![t] = Idle] /\ UNCHANGED <<ver, f_count, fh, refs, segv>>
    BY <1>1 DEF FooInv, Free
<1>3. o \in Foos /\ fpc[t] = [at |-> "free", fp |-> o]
    BY <1>1, <1>2 DEF FooTypes
<1>4. ObjectSound(o)
    BY <1>3 DEF FooInv
<1>5. fpc'[t] = Idle /\ \A u \in Threads \ {t} : fpc'[u] = fpc[u]
    BY <1>2 DEF FooTypes
<1>6. FooTypes'
    <2>1. fpc' \in [Threads -> [at : {"idle", "relock", "free"}, fp : Foos \cup {NoFoo}]]
        BY <1>2 DEF FooTypes, Idle
    <2> QED
        BY <1>2, <1>5, <2>1, FooAssumption DEF FooTypes, Idle
<1>7. \A x \in Foos : RefsTo(x)' = RefsTo(x)
    BY <1>2 DEF RefsTo
<1>8. \A x \in Foos \ {o} : ObjectSound(x)'
    <2> TAKE x \in Foos \ {o}
    <2>1. \A u \in Threads : fpc'[u].fp = x => fpc'[u] = fpc[u]
        BY <1>5, FooAssumption DEF Idle
    <2> QED
        BY <1>2, <1>7, <2>1, OthersSound
<1>9. ObjectSound(o)'
    <2>1. \A u \in Threads : ~Has(u, o)
        <3>1. f_count[o] = 0 /\ o \in live /\ IsFiniteSet(RefsTo(o)) /\ Cardinality(RefsTo(o)) = 0
            BY <1>2, <1>3, <1>4 DEF ObjectSound
        <3> QED
            BY <1>2, <1>3, <3>1, RefsCount
    <2>2. \A u \in Threads : fpc'[u].fp # o
        <3>1. ASSUME NEW u \in Threads \ {t} PROVE fpc[u].fp # o
            <4>1. fpc[u] \in [at : {"idle", "relock", "free"}, fp : Foos \cup {NoFoo}]
                BY <1>2 DEF FooTypes
            <4>2. fpc[u].fp = o => fpc[u] = [at |-> "relock", fp |-> o] \/ fpc[u] = [at |-> "free", fp |-> o]
                BY <1>2, <1>3, <4>1, FooAssumption DEF FooTypes
            <4> QED
                BY <1>3, <1>4, <2>1, <4>2 DEF ObjectSound
        <3> QED
            BY <1>3, <1>5, <3>1, FooAssumption DEF Idle
    <2>3. \A u \in Threads : fpc'[u] # [at |-> "relock", fp |-> o] /\ fpc'[u] # [at |-> "free", fp |-> o]
        BY <2>2
    <2>4. o \notin live'
        BY <1>2
    <2> QED
        BY <1>2, <1>3, <1>4, <1>7, <2>1, <2>2, <2>3, <2>4 DEF ObjectSound, Has
<1> QED
    BY <1>6, <1>8, <1>9 DEF FooInv

\* There are no objects.
LEMMA FooInvInit == FooInit({1, 2, 3}) => FooInv
<1> SUFFICES ASSUME FooInit({1, 2, 3}) PROVE FooInv
    OBVIOUS
<1>1. FooTypes
    BY FooAssumption DEF FooInit, FooTypes, Idle
<1>2. ASSUME NEW o \in Foos PROVE ObjectSound(o)
    <2>1. \A t \in Threads : refs[t][o] = 0 /\ fpc[t].fp # o
        BY FooAssumption DEF FooInit, Idle
    <2>2. RefsTo(o) = {}
        <3>1. \A t \in Threads : 1 .. refs[t][o] = {}
            BY <2>1
        <3> QED
            BY <3>1 DEF RefsTo
    <2>3. \A t \in Threads : ~Has(t, o)
        BY <2>1 DEF Has
    <2>4. \A t \in Threads : fpc[t] # [at |-> "relock", fp |-> o] /\ fpc[t] # [at |-> "free", fp |-> o]
        BY <2>1
    <2>5. o \notin live
        BY DEF FooInit
    <2> QED
        BY <2>1, <2>2, <2>3, <2>4, <2>5, FS_EmptySet DEF ObjectSound
<1> QED
    BY <1>1, <1>2 DEF FooInv

\* The reference counts of all three programs, for any number of threads and
\* objects: no object is freed while anybody has a reference or is releasing one,
\* none is freed twice, and each count is the number of references.
THEOREM CountsTruthful == FooSpec => []RefsCounted
<1>1. FooInv /\ [FooNext]_fooVars => FooInv'
    BY FooAllocKeeps, FooHoldKeeps, FooFindKeeps, ReleKeeps, Rele3Keeps, RelockKeeps, FreeKeeps, FooStutter
    DEF FooNext
<1>2. FooInv => RefsCounted
    <2> SUFFICES ASSUME FooInv, NEW o \in Foos
                 PROVE  /\ \A t \in Threads : Has(t, o) \/ fpc[t].fp = o => o \in live
                        /\ ~segv /\ o \in live => f_count[o] = Cardinality(RefsTo(o))
                        /\ Cardinality({t \in Threads : fpc[t].fp = o /\ fpc[t].at = "free"}) <= 1
        BY Zenon DEF RefsCounted
    <2>1. ObjectSound(o) /\ FooTypes
        BY DEF FooInv
    <2> DEFINE S == {t \in Threads : fpc[t].fp = o /\ fpc[t].at = "free"}
    <2>2. \A t \in S : fpc[t] = [at |-> "free", fp |-> o]
        BY <2>1 DEF FooTypes
    <2>3. \A t, u \in S : t = u
        BY <2>1, <2>2 DEF ObjectSound
    <2>4. S = {} \/ \E t \in S : S = {t}
        BY <2>3
    <2> HIDE DEF S
    <2>5. Cardinality(S) <= 1
        <3>1. ASSUME NEW t, S = {t} PROVE Cardinality(S) = 1
            BY <3>1, FS_Singleton
        <3>2. S = {} => Cardinality(S) = 0
            BY FS_EmptySet
        <3> QED
            BY <2>4, <3>1, <3>2
    <2> QED
        BY <2>1, <2>5 DEF ObjectSound, S
<1> QED
    BY <1>1, <1>2, FooInvInit, PTL DEF FooSpec

-----------------------------------------------------------------------------
(* The queue of rwlock.c.                                                    *)

JobSpec == queue_init /\ [][JobNext]_jobVars

\* The list through the links is the queue, in its order, while no tail was
\* removed from behind another job.  The first job's j_prev may be stale.
Linked ==
    /\ order \in Seq(Jobs)
    /\ \A m, n \in DOMAIN order : order[m] = order[n] => m = n
    /\ q_head = IF order = <<>> THEN NULL ELSE order[1]
    /\ q_tail = IF order = <<>> THEN NULL ELSE order[Len(order)]
    /\ j_next \in [Jobs -> Jobs \cup {NULL}] /\ j_prev \in [Jobs -> Jobs \cup {NULL}]
    /\ \A n \in DOMAIN order : n + 1 \in DOMAIN order =>
          j_next[order[n]] = order[n + 1] /\ j_prev[order[n + 1]] = order[n]
    /\ order # <<>> => j_next[order[Len(order)]] = NULL

JobInv == mark \/ Linked

\* The queue without the job at n.
LEMMA TakenOut ==
    ASSUME order \in Seq(Jobs), \A k, n \in DOMAIN order : order[k] = order[n] => k = n,
           NEW n \in DOMAIN order
    PROVE  LET w == Without(order[n])
           IN  /\ w \in Seq(Jobs) /\ Len(w) = Len(order) - 1
               /\ \A k \in DOMAIN w : w[k] = order[IF k < n THEN k ELSE k + 1]
<1>1. (CHOOSE k \in DOMAIN order : order[k] = order[n]) = n
    OBVIOUS
<1>2. Without(order[n]) = SubSeq(order, 1, n - 1) \o SubSeq(order, n + 1, Len(order))
    BY <1>1 DEF Without, RemoveAt
<1>3. n \in 1 .. Len(order) /\ Len(order) \in Nat
    OBVIOUS
<1> DEFINE a == SubSeq(order, 1, n - 1)
           b == SubSeq(order, n + 1, Len(order))
<1>4. a \in Seq(Jobs) /\ Len(a) = n - 1 /\ \A k \in 1 .. n - 1 : a[k] = order[k]
    BY <1>3
<1>5. b \in Seq(Jobs) /\ Len(b) = Len(order) - n /\ \A k \in 1 .. Len(order) - n : b[k] = order[n + k]
    BY <1>3
<1> HIDE DEF a, b
<1>6. a \o b \in Seq(Jobs) /\ Len(a \o b) = Len(order) - 1
    BY <1>3, <1>4, <1>5
<1>7. ASSUME NEW k \in 1 .. Len(order) - 1 PROVE (a \o b)[k] = order[IF k < n THEN k ELSE k + 1]
    <2>1. CASE k < n
        BY <1>3, <1>4, <1>5, <1>7, <2>1
    <2>2. CASE k >= n
        <3>1. (a \o b)[k] = b[k - (n - 1)]
            <4>1. Len(a) + Len(b) = Len(order) - 1 /\ k \in 1 .. Len(a) + Len(b) /\ k > Len(a)
                BY <1>3, <1>4, <1>5, <1>7, <2>2
            <4>2. (a \o b)[k] = b[k - Len(a)]
                BY <1>4, <1>5, <4>1, ConcatProperties
            <4> QED
                BY <1>4, <4>2
        <3>2. k - (n - 1) \in 1 .. Len(order) - n /\ n + (k - (n - 1)) = k + 1
            BY <1>3, <1>7, <2>2
        <3>3. b[k - (n - 1)] = order[k + 1]
            BY <1>5, <3>2
        <3> QED
            BY <1>3, <1>7, <2>2, <3>1, <3>3
    <2>3. k < n \/ k >= n
        BY <1>3
    <2> QED
        BY <2>1, <2>2, <2>3
<1>8. DOMAIN (a \o b) = 1 .. Len(order) - 1
    BY <1>6
<1>9. Without(order[n]) = a \o b
    BY <1>2 DEF a, b
<1> QED
    BY <1>6, <1>7, <1>8, <1>9

\* job_insert puts the job before the head.
LEMMA InsertKeeps == ASSUME Linked, NEW j \in Jobs, job_insert(j) PROVE Linked'
<1>1. j \notin {order[n] : n \in DOMAIN order} /\ order' = <<j>> \o order /\ order \in Seq(Jobs)
    BY DEF job_insert, Queued, ToSet, Linked
<1>2. /\ order' \in Seq(Jobs) /\ Len(order') = Len(order) + 1 /\ order'[1] = j /\ order' # <<>>
      /\ \A n \in DOMAIN order' : n # 1 => n - 1 \in DOMAIN order /\ order'[n] = order[n - 1]
    BY <1>1
<1>3. \A m, n \in DOMAIN order' : order'[m] = order'[n] => m = n
    BY <1>1, <1>2 DEF Linked
<1>4. q_head' = order'[1] /\ q_tail' = order'[Len(order')]
    BY <1>1, <1>2, NullAssumption DEF Linked, job_insert
<1>5. /\ j_next' \in [Jobs -> Jobs \cup {NULL}] /\ j_prev' \in [Jobs -> Jobs \cup {NULL}]
      /\ \A x \in Jobs : x # j => j_next'[x] = j_next[x]
      /\ j_next'[j] = q_head
      /\ \A x \in Jobs \ {j} : j_prev'[x] = IF x = q_head THEN j ELSE j_prev[x]
    BY <1>1 DEF Linked, job_insert
<1>6. ASSUME NEW n \in DOMAIN order', n + 1 \in DOMAIN order'
      PROVE  j_next'[order'[n]] = order'[n + 1] /\ j_prev'[order'[n + 1]] = order'[n]
    <2>1. order'[n + 1] = order[n] /\ n \in DOMAIN order /\ order[n] \in Jobs \ {j}
        BY <1>1, <1>2, <1>6
    <2>2. CASE n = 1
        BY <1>2, <1>5, <2>1, <2>2, NullAssumption DEF Linked
    <2>3. CASE n # 1
        <3>1. order'[n] = order[n - 1] /\ n - 1 \in DOMAIN order /\ order[n - 1] \in Jobs \ {j} /\ n = (n - 1) + 1
            BY <1>1, <1>2, <1>6, <2>3
        <3>2. order[n] # q_head
            BY <2>1, <2>3, <3>1 DEF Linked
        <3>3. j_next[order[n - 1]] = order[n] /\ j_prev[order[n]] = order[n - 1]
            BY <2>1, <3>1 DEF Linked
        <3> QED
            BY <1>5, <2>1, <3>1, <3>2, <3>3
    <2> QED
        BY <2>2, <2>3
<1>7. j_next'[order'[Len(order')]] = NULL
    BY <1>1, <1>2, <1>5, NullAssumption DEF Linked
<1> QED
    BY <1>2, <1>3, <1>4, <1>5, <1>6, <1>7 DEF Linked

\* job_append puts the job behind the tail.
LEMMA AppendKeeps == ASSUME Linked, NEW j \in Jobs, job_append(j) PROVE Linked'
<1>1. j \notin {order[n] : n \in DOMAIN order} /\ order' = Append(order, j) /\ order \in Seq(Jobs)
    BY DEF job_append, Queued, ToSet, Linked
<1>2. /\ order' \in Seq(Jobs) /\ Len(order') = Len(order) + 1 /\ order'[Len(order')] = j /\ order' # <<>>
      /\ \A n \in DOMAIN order' : n # Len(order') => n \in DOMAIN order /\ order'[n] = order[n]
    BY <1>1
<1>3. \A m, n \in DOMAIN order' : order'[m] = order'[n] => m = n
    BY <1>1, <1>2 DEF Linked
<1>4. q_head' = order'[1] /\ q_tail' = order'[Len(order')]
    BY <1>1, <1>2, NullAssumption DEF Linked, job_append
<1>5. /\ j_next' \in [Jobs -> Jobs \cup {NULL}] /\ j_prev' \in [Jobs -> Jobs \cup {NULL}]
      /\ \A x \in Jobs : x # j => j_prev'[x] = j_prev[x]
      /\ j_prev'[j] = q_tail /\ j_next'[j] = NULL
      /\ \A x \in Jobs \ {j} : j_next'[x] = IF x = q_tail THEN j ELSE j_next[x]
    BY <1>1 DEF Linked, job_append
<1>6. ASSUME NEW n \in DOMAIN order', n + 1 \in DOMAIN order'
      PROVE  j_next'[order'[n]] = order'[n + 1] /\ j_prev'[order'[n + 1]] = order'[n]
    <2>1. order'[n] = order[n] /\ n \in DOMAIN order /\ order[n] \in Jobs \ {j}
        BY <1>1, <1>2, <1>6
    <2>2. CASE n + 1 = Len(order')
        <3>1. order[n] = q_tail /\ order'[n + 1] = j
            BY <1>1, <1>2, <2>1, <2>2 DEF Linked
        <3> QED
            BY <1>5, <2>1, <3>1
    <2>3. CASE n + 1 # Len(order')
        <3>1. order'[n + 1] = order[n + 1] /\ n + 1 \in DOMAIN order /\ order[n + 1] \in Jobs \ {j}
            BY <1>1, <1>2, <1>6, <2>3
        <3>2. order[n] # q_tail
            BY <2>1, <3>1 DEF Linked
        <3>3. j_next[order[n]] = order[n + 1] /\ j_prev[order[n + 1]] = order[n]
            BY <2>1, <3>1 DEF Linked
        <3> QED
            BY <1>5, <2>1, <3>1, <3>2, <3>3
    <2> QED
        BY <2>2, <2>3
<1>7. j_next'[order'[Len(order')]] = NULL
    BY <1>2, <1>5
<1> QED
    BY <1>2, <1>3, <1>4, <1>5, <1>6, <1>7 DEF Linked

\* job_remove of the head: the next job's j_prev stays, and is not looked at again.
LEMMA RemoveHeadKeeps == ASSUME Linked, NEW j \in Jobs, RemoveHead(j) PROVE Linked'
<1>1. /\ order \in Seq(Jobs) /\ order # <<>> /\ j = order[1] /\ 1 \in DOMAIN order
      /\ \A m, n \in DOMAIN order : order[m] = order[n] => m = n
    BY NullAssumption DEF Linked, RemoveHead
<1>2. /\ order' \in Seq(Jobs) /\ Len(order') = Len(order) - 1
      /\ \A n \in DOMAIN order' : order'[n] = order[n + 1] /\ n + 1 \in DOMAIN order
    <2>1. order' = Without(order[1])
        BY <1>1 DEF RemoveHead
    <2>2. /\ order' \in Seq(Jobs) /\ Len(order') = Len(order) - 1
          /\ \A n \in DOMAIN order' : order'[n] = order[IF n < 1 THEN n ELSE n + 1]
        BY <1>1, <2>1, TakenOut
    <2> QED
        BY <1>1, <2>2
<1>3. \A m, n \in DOMAIN order' : order'[m] = order'[n] => m = n
    BY <1>1, <1>2
<1>4. q_head' = IF order' = <<>> THEN NULL ELSE order'[1]
    BY <1>1, <1>2 DEF Linked, RemoveHead
<1>5. q_tail' = IF order' = <<>> THEN NULL ELSE order'[Len(order')]
    BY <1>1, <1>2 DEF Linked, RemoveHead
<1>6. UNCHANGED <<j_next, j_prev>>
    BY DEF RemoveHead
<1>7. \A n \in DOMAIN order' : n + 1 \in DOMAIN order' =>
          j_next[order'[n]] = order'[n + 1] /\ j_prev[order'[n + 1]] = order'[n]
    BY <1>1, <1>2 DEF Linked
<1>8. order' # <<>> => j_next[order'[Len(order')]] = NULL
    BY <1>1, <1>2 DEF Linked
<1> QED
    BY <1>2, <1>3, <1>4, <1>5, <1>6, <1>7, <1>8 DEF Linked

\* job_remove of a job in the middle joins its two neighbours.
LEMMA RemoveMiddleKeeps == ASSUME Linked, NEW j \in Jobs, RemoveMiddle(j) PROVE Linked'
<1>1. /\ order \in Seq(Jobs) /\ order # <<>> /\ j # order[1] /\ j # order[Len(order)]
      /\ \A m, n \in DOMAIN order : order[m] = order[n] => m = n
      /\ \E n \in DOMAIN order : order[n] = j
    BY DEF Linked, RemoveMiddle, Queued, ToSet
<1>2. PICK i \in DOMAIN order : order[i] = j
    BY <1>1
<1>3. i \in 2 .. Len(order) - 1 /\ i - 1 \in DOMAIN order /\ i + 1 \in DOMAIN order /\ Len(order) \in Nat
    BY <1>1, <1>2
<1>4. /\ order' \in Seq(Jobs) /\ Len(order') = Len(order) - 1
      /\ \A n \in DOMAIN order' : order'[n] = order[IF n < i THEN n ELSE n + 1]
    <2>1. order' = Without(order[i])
        BY <1>2 DEF RemoveMiddle
    <2> QED
        BY <1>1, <2>1, TakenOut
<1>5. /\ DOMAIN order = 1 .. Len(order) /\ DOMAIN order' = 1 .. Len(order) - 1 /\ Len(order') \in Nat
      /\ \A n \in 1 .. Len(order) - 1 : n < i => order'[n] = order[n]
      /\ \A n \in 1 .. Len(order) - 1 : n >= i => order'[n] = order[n + 1]
    <2>1. DOMAIN order = 1 .. Len(order) /\ Len(order') \in Nat /\ DOMAIN order' = 1 .. Len(order')
        BY <1>1, <1>4
    <2>2. Len(order') = Len(order) - 1
        BY <1>4
    <2>3. \A n \in 1 .. Len(order) - 1 : ~(n >= i /\ n < i) /\ (n >= i \/ n < i)
        BY <1>3
    <2> QED
        BY <1>4, <2>1, <2>2, <2>3
<1>6. \A m, n \in DOMAIN order' : order'[m] = order'[n] => m = n
    <2>1. \A m \in 1 .. Len(order) - 1 : m \in DOMAIN order /\ m + 1 \in DOMAIN order /\ (m < i \/ m >= i)
        BY <1>3, <1>5
    <2>2. SUFFICES ASSUME NEW m \in 1 .. Len(order) - 1, NEW n \in 1 .. Len(order) - 1, order'[m] = order'[n]
                   PROVE  m = n
        BY <1>5
    <2>3. CASE m < i /\ n < i
        BY <1>1, <1>5, <2>1, <2>2, <2>3
    <2>4. CASE m >= i /\ n >= i
        <3>1. order'[m] = order[m + 1] /\ order'[n] = order[n + 1]
            BY <1>5, <2>4
        <3>2. order[m + 1] = order[n + 1] /\ m + 1 \in DOMAIN order /\ n + 1 \in DOMAIN order
            BY <2>1, <2>2, <3>1
        <3>3. m + 1 = n + 1
            BY <1>1, <3>2
        <3> QED
            BY <3>3
    <2>5. CASE m < i /\ n >= i
        <3>1. order'[m] = order[m] /\ order'[n] = order[n + 1]
            BY <1>5, <2>5
        <3>2. order[m] = order[n + 1] /\ m \in DOMAIN order /\ n + 1 \in DOMAIN order
            BY <2>1, <2>2, <3>1
        <3>3. m = n + 1
            BY <1>1, <3>2
        <3> QED
            BY <1>3, <2>5, <3>3
    <2>6. CASE m >= i /\ n < i
        <3>1. order'[m] = order[m + 1] /\ order'[n] = order[n]
            BY <1>5, <2>6
        <3>2. order[m + 1] = order[n] /\ m + 1 \in DOMAIN order /\ n \in DOMAIN order
            BY <2>1, <2>2, <3>1
        <3>3. m + 1 = n
            BY <1>1, <3>2
        <3> QED
            BY <1>3, <2>6, <3>3
    <2> QED
        BY <2>1, <2>3, <2>4, <2>5, <2>6
<1>7. j_prev[j] = order[i - 1] /\ j_next[j] = order[i + 1]
    BY <1>2, <1>3 DEF Linked
<1>8. /\ j_next' = [j_next EXCEPT ![order[i - 1]] = order[i + 1]]
      /\ j_prev' = [j_prev EXCEPT ![order[i + 1]] = order[i - 1]] /\ UNCHANGED <<q_head, q_tail>>
    BY <1>7 DEF RemoveMiddle
<1>9. /\ j_next' \in [Jobs -> Jobs \cup {NULL}] /\ j_prev' \in [Jobs -> Jobs \cup {NULL}]
      /\ \A n \in DOMAIN order : j_next'[order[n]] = IF n = i - 1 THEN order[i + 1] ELSE j_next[order[n]]
      /\ \A n \in DOMAIN order : j_prev'[order[n]] = IF n = i + 1 THEN order[i - 1] ELSE j_prev[order[n]]
    BY <1>1, <1>3, <1>8 DEF Linked
<1>10. order' # <<>> /\ order'[1] = order[1] /\ order'[Len(order')] = order[Len(order)]
    <2>1. 1 \in 1 .. Len(order) - 1 /\ 1 < i /\ Len(order') \in 1 .. Len(order) - 1 /\ Len(order') >= i
          /\ Len(order') + 1 = Len(order)
        BY <1>3, <1>4
    <2> QED
        BY <1>5, <2>1
<1>11. q_head' = order'[1] /\ q_tail' = order'[Len(order')]
    BY <1>1, <1>8, <1>10 DEF Linked
<1>12. ASSUME NEW n \in DOMAIN order', n + 1 \in DOMAIN order'
       PROVE  j_next'[order'[n]] = order'[n + 1] /\ j_prev'[order'[n + 1]] = order'[n]
    <2>1. n \in Nat /\ n \in 1 .. Len(order) - 2 /\ n \in DOMAIN order /\ n + 1 \in DOMAIN order /\ n + 2 \in DOMAIN order
        BY <1>1, <1>4, <1>12
    <2>2. \A m \in DOMAIN order : m + 1 \in DOMAIN order =>
              j_next[order[m]] = order[m + 1] /\ j_prev[order[m + 1]] = order[m]
        BY DEF Linked
    <2>3. CASE n + 1 < i
        <3>1. i \in Nat /\ n \in Nat
            BY <1>3, <2>1
        <3>2. order'[n] = order[n] /\ order'[n + 1] = order[n + 1]
            <4>1. n < i /\ n + 1 < i
                BY <2>3, <3>1
            <4> QED
                BY <1>5, <1>12, <4>1
        <3> QED
            <4>1. n # i - 1 /\ n + 1 # i + 1
                BY <2>3, <3>1
            <4>2. j_next'[order[n]] = j_next[order[n]] /\ j_prev'[order[n + 1]] = j_prev[order[n + 1]]
                BY <1>9, <2>1, <4>1
            <4> QED
                <5>1. j_next[order[n]] = order[n + 1] /\ j_prev[order[n + 1]] = order[n]
                    BY <2>1, <2>2
                <5> QED
                    BY <3>2, <4>2, <5>1
    <2>4. CASE n + 1 = i
        <3>1. n < i /\ ~(n + 1 < i) /\ n = i - 1 /\ n + 2 = i + 1 /\ (n + 1) + 1 = n + 2
            BY <1>3, <2>1, <2>4
        <3>2. order'[n] = order[n] /\ order'[n + 1] = order[n + 2]
            BY <1>5, <1>12, <3>1
        <3> QED
            BY <1>9, <2>1, <3>1, <3>2
    <2>5. CASE n >= i
        <3>1. order'[n] = order[n + 1] /\ order'[n + 1] = order[n + 2] /\ n + 2 = (n + 1) + 1
            <4>1. i \in Nat /\ n \in Nat
                BY <1>3, <2>1
            <4>2. ~(n < i) /\ ~(n + 1 < i) /\ n + 2 = (n + 1) + 1
                BY <2>5, <4>1
            <4> QED
                BY <1>5, <1>12, <4>2
        <3>2. j_next'[order[n + 1]] = j_next[order[n + 1]] /\ j_prev'[order[n + 2]] = j_prev[order[n + 2]]
            <4>1. i \in Nat /\ n \in Nat
                BY <1>3, <2>1
            <4>2. n + 1 # i - 1 /\ n + 2 # i + 1
                BY <2>5, <4>1
            <4>3. n + 1 \in DOMAIN order /\ n + 2 \in DOMAIN order
                BY <2>1
            <4> QED
                BY <1>9, <4>2, <4>3
        <3> QED
            BY <2>1, <2>2, <3>1, <3>2
    <2>6. n + 1 < i \/ n + 1 = i \/ n >= i
        <3>1. i \in Nat /\ n \in Nat
            BY <1>3, <2>1
        <3> QED
            BY <3>1
    <2> QED
        BY <2>3, <2>4, <2>5, <2>6
<1>13. j_next'[order'[Len(order')]] = NULL
    <2>1. Len(order) \in DOMAIN order /\ Len(order) # i - 1
        BY <1>3, <1>5
    <2>2. j_next[order[Len(order)]] = NULL
        BY <1>1 DEF Linked
    <2> QED
        BY <1>9, <1>10, <2>1, <2>2
<1> QED
    BY <1>4, <1>6, <1>9, <1>10, <1>11, <1>12, <1>13 DEF Linked

\* Every step keeps the list linked, or marks that it is not.
LEMMA JobInvStep == JobInv /\ [JobNext]_jobVars => JobInv'
<1> SUFFICES ASSUME JobInv, [JobNext]_jobVars PROVE JobInv'
    OBVIOUS
<1>1. CASE UNCHANGED jobVars
    BY <1>1 DEF JobInv, Linked, jobVars
<1>2. ASSUME NEW j \in Jobs, job_insert(j) PROVE JobInv'
    BY <1>2, InsertKeeps DEF JobInv, job_insert
<1>3. ASSUME NEW j \in Jobs, job_append(j) PROVE JobInv'
    BY <1>3, AppendKeeps DEF JobInv, job_append
<1>4. ASSUME NEW j \in Jobs, RemoveHead(j) PROVE JobInv'
    BY <1>4, RemoveHeadKeeps DEF JobInv, RemoveHead
<1>5. ASSUME NEW j \in Jobs, RemoveTail(j) PROVE JobInv'
    BY <1>5 DEF JobInv, RemoveTail
<1>6. ASSUME NEW j \in Jobs, RemoveMiddle(j) PROVE JobInv'
    BY <1>6, RemoveMiddleKeeps DEF JobInv, RemoveMiddle
<1> QED
    BY <1>1, <1>2, <1>3, <1>4, <1>5, <1>6 DEF JobNext

\* A function defined by its value at 0 and, at each other number, by that at
\* the number before.
LEMMA WalkDefined ==
    /\ Walk[0] = q_head
    /\ \A n \in Nat : Walk[n + 1] = IF Walk[n] = NULL THEN NULL ELSE j_next[Walk[n]]
<1> DEFINE After(x) == IF x = NULL THEN NULL ELSE j_next[x]
           IsPart(f, n) == /\ f[0] = q_head /\ \A k \in 0 .. n - 1 : f[k + 1] = After(f[k])
           T == {n \in Nat : \E f : IsPart(f, n)}
<1> HIDE DEF After
<1>1. \A n \in Nat : n \in T
    <2>1. 0 \in T
        <3>1. IsPart([k \in {0} |-> q_head], 0)
            OBVIOUS
        <3> QED
            BY <3>1
    <2>2. ASSUME NEW n \in Nat, n \in T PROVE n + 1 \in T
        <3>1. PICK f : IsPart(f, n)
            BY <2>2
        <3> DEFINE g == [k \in 0 .. n + 1 |-> IF k = n + 1 THEN After(f[n]) ELSE f[k]]
        <3>2. g[0] = q_head /\ \A k \in 0 .. n : g[k + 1] = After(g[k])
            BY <3>1
        <3> HIDE DEF g
        <3>3. IsPart(g, n + 1)
            BY <3>2
        <3> QED
            BY <3>3
    <2> HIDE DEF T
    <2> QED
        BY <2>1, <2>2, Induction
<1>2. ASSUME NEW f, NEW g, NEW n \in Nat, NEW m \in Nat, IsPart(f, n), IsPart(g, m)
      PROVE  \A k \in Nat : k <= n /\ k <= m => f[k] = g[k]
    <2> DEFINE U == {k \in Nat : k <= n /\ k <= m => f[k] = g[k]}
    <2>1. 0 \in U
        BY <1>2
    <2>2. ASSUME NEW k \in Nat, k \in U PROVE k + 1 \in U
        <3>1. ASSUME k + 1 <= n, k + 1 <= m PROVE f[k + 1] = g[k + 1]
            <4>1. k \in 0 .. n - 1 /\ k \in 0 .. m - 1 /\ f[k] = g[k]
                BY <2>2, <3>1
            <4> QED
                BY <1>2, <4>1
        <3> QED
            BY <3>1
    <2> HIDE DEF U
    <2>3. \A k \in Nat : k \in U
        BY <2>1, <2>2, Induction
    <2> QED
        BY <2>3 DEF U
<1> DEFINE Part(n) == CHOOSE f : IsPart(f, n)
           W == [n \in Nat |-> Part(n)[n]]
<1>3. \A n \in Nat : IsPart(Part(n), n)
    <2> HIDE DEF IsPart
    <2> QED
        BY <1>1
<1> HIDE DEF Part
<1>4. W[0] = q_head
    BY <1>3
<1>5. ASSUME NEW n \in Nat PROVE W[n + 1] = After(W[n])
    <2>1. IsPart(Part(n), n) /\ IsPart(Part(n + 1), n + 1)
        <3> HIDE DEF IsPart
        <3> QED
            BY <1>3
    <2>2. Part(n + 1)[n] = Part(n)[n]
        <3> HIDE DEF IsPart
        <3> QED
            BY <1>2, <2>1
    <2>3. Part(n + 1)[n + 1] = After(Part(n + 1)[n])
        BY <2>1
    <2> QED
        BY <2>2, <2>3
<1> HIDE DEF W
<1>6. W = [n \in Nat |-> IF n = 0 THEN q_head ELSE IF W[n - 1] = NULL THEN NULL ELSE j_next[W[n - 1]]]
    <2>1. W = [n \in Nat |-> W[n]]
        BY DEF W
    <2>2. ASSUME NEW n \in Nat, n # 0 PROVE W[n] = After(W[n - 1])
        <3>1. n - 1 \in Nat /\ n = (n - 1) + 1
            BY <2>2
        <3> QED
            BY <1>5, <3>1
    <2> QED
        BY <1>4, <2>1, <2>2 DEF After
<1>7. Walk = [n \in Nat |-> IF n = 0 THEN q_head ELSE IF Walk[n - 1] = NULL THEN NULL ELSE j_next[Walk[n - 1]]]
    BY <1>6 DEF Walk
<1> QED
    BY <1>7

\* The walk of job_find in the linked list meets the queued jobs in their order,
\* and then NULL.
LEMMA WalkFollows == JobInv => WalkSound
<1> SUFFICES ASSUME Linked PROVE WalkSound
    BY DEF JobInv, WalkSound
<1>1. order \in Seq(Jobs) /\ Len(order) \in Nat /\ DOMAIN order = 1 .. Len(order)
    BY DEF Linked
<1>2. \A n \in 1 .. Len(order) : order[n] # NULL
    BY <1>1, NullAssumption
<1> DEFINE T == {n \in Nat : n + 1 \in 1 .. Len(order) => Walk[n] = order[n + 1]}
<1>3. \A n \in Nat : n \in T
    <2>1. 0 \in T
        BY <1>1, WalkDefined DEF Linked
    <2>2. ASSUME NEW n \in Nat, n \in T, n + 2 \in 1 .. Len(order) PROVE Walk[n + 1] = order[n + 2]
        <3>1. n + 1 \in DOMAIN order /\ (n + 1) + 1 \in DOMAIN order /\ (n + 1) + 1 = n + 2
            BY <1>1, <2>2
        <3>2. j_next[order[n + 1]] = order[n + 2]
            BY <3>1 DEF Linked
        <3>3. Walk[n] = order[n + 1] /\ Walk[n] # NULL
            BY <1>1, <1>2, <2>2, <3>1
        <3> QED
            BY <3>2, <3>3, WalkDefined
    <2>3. ASSUME NEW n \in Nat, n \in T PROVE n + 1 \in T
        BY <1>1, <2>2, <2>3
    <2> HIDE DEF T
    <2> QED
        BY <2>1, <2>3, Induction
<1>4. \A n \in 1 .. Len(order) : Walk[n - 1] = order[n]
    <2> TAKE n \in 1 .. Len(order)
    <2>1. n - 1 \in Nat /\ (n - 1) + 1 = n
        BY <1>1
    <2> QED
        BY <1>3, <2>1
<1>5. Walk[Len(order)] = NULL
    <2>1. CASE order = <<>>
        BY <2>1, WalkDefined DEF Linked
    <2>2. CASE order # <<>>
        <3>1. Len(order) - 1 \in Nat /\ Len(order) = (Len(order) - 1) + 1 /\ Len(order) \in 1 .. Len(order)
            BY <1>1, <2>2
        <3>2. Walk[Len(order) - 1] = order[Len(order)]
            BY <1>4, <3>1
        <3>3. j_next[order[Len(order)]] = NULL
            BY <2>2 DEF Linked
        <3> QED
            BY <1>2, <3>1, <3>2, <3>3, WalkDefined
    <2> QED
        BY <2>1, <2>2
<1>6. \A n \in 2 .. Len(order) : j_prev[order[n]] = order[n - 1]
    <2> TAKE n \in 2 .. Len(order)
    <2>1. n - 1 \in DOMAIN order /\ n \in DOMAIN order /\ n = (n - 1) + 1
        BY <1>1
    <2> QED
        BY <2>1 DEF Linked
<1>7. q_tail = IF order = <<>> THEN NULL ELSE Last(order)
    BY <1>1 DEF Linked, Last
<1> QED
    BY <1>4, <1>5, <1>6, <1>7 DEF WalkSound

\* job_find finds what is in the queue, for any number of jobs, whatever was inserted,
\* appended and removed before, as long as no tail was removed from behind another job.
THEOREM QueueWalks == JobSpec => []WalkSound
<1>1. queue_init => JobInv
    <2>1. ASSUME queue_init PROVE Linked
        <3>1. order \in Seq(Jobs) /\ DOMAIN order = {} /\ order = <<>>
            BY <2>1 DEF queue_init
        <3> QED
            BY <2>1, <3>1 DEF queue_init, Linked
    <2> QED
        BY <2>1 DEF JobInv
<1> QED
    BY <1>1, JobInvStep, WalkFollows, PTL DEF JobSpec

=============================================================================
