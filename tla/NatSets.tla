------------------------------ MODULE NatSets -------------------------------
(***************************************************************************)
(* Sets of natural numbers: the least and the greatest, and induction, with *)
(* a set in the place of the library theorems' predicate, both from the     *)
(* well-foundedness of <; and linked lists of numbers, with ranks that give *)
(* their order: what adding and removing a record makes of a list, and that *)
(* following it ends.                                                       *)
(***************************************************************************)
EXTENDS Integers, FiniteSetsExt, FiniteSetTheorems, WellFoundedInduction, TLAPS

\* The least element, as client_add and its kin find the first free entry.
LEMMA MinOf ==
    ASSUME NEW S \in SUBSET Nat, S # {}
    PROVE  Min(S) \in S /\ \A x \in S : Min(S) <= x
<1> DEFINE R == OpToRel(<, Nat)
<1>1. IsWellFoundedOn(R, Nat)
    BY NatLessThanWellFounded
<1>2. \A x, y \in Nat : x < y => <<x, y>> \in R
    BY DEF OpToRel
<1> HIDE DEF R
<1>3. PICK x \in S : \A y \in S : <<y, x>> \notin R
    BY <1>1, WFMin
<1>4. ASSUME NEW y \in S PROVE x =< y
    <2>1. x \in Nat /\ y \in Nat /\ ~(y < x)
        BY <1>2, <1>3, <1>4
    <2> QED
        BY <2>1
<1>5. \E z \in S : \A y \in S : z =< y
    BY <1>4
<1> QED
    BY <1>5 DEF Min

\* Induction: a set with 0 and with the successor of each of its members.
LEMMA Induction ==
    ASSUME NEW T, 0 \in T, \A n \in Nat : n \in T => n + 1 \in T
    PROVE  \A n \in Nat : n \in T
<1> DEFINE S == Nat \ T
<1>1. SUFFICES ASSUME S # {} PROVE FALSE
    OBVIOUS
<1>2. Min(S) \in S /\ \A x \in S : Min(S) <= x
    BY <1>1, MinOf
<1> DEFINE m == Min(S)
<1>3. m \in Nat /\ m \notin T /\ \A x \in S : m <= x
    BY <1>2
<1> HIDE DEF m
<1>4. m # 0 /\ m - 1 \in Nat /\ m = (m - 1) + 1
    BY <1>3
<1>5. m - 1 \in T
    BY <1>3, <1>4
<1> QED
    BY <1>3, <1>4, <1>5

-----------------------------------------------------------------------------
(* Lists. *)

\* A list as it is meant: its records, the one that each leads to, and ranks
\* that go down along it.
ListShape == [set : SUBSET (Nat \ {0}), next : [Nat -> Nat], rank : [Nat -> Nat]]

\* From head it visits all its records, in the order of the ranks, and ends.
Ranked(head, l) ==
    /\ \A o, q \in l.set : l.rank[o] = l.rank[q] => o = q
    /\ IF head = 0 THEN l.set = {} ELSE head \in l.set /\ \A o \in l.set : l.rank[o] <= l.rank[head]
    /\ \A o \in l.set :
          IF l.next[o] = 0 THEN \A q \in l.set : l.rank[o] <= l.rank[q]
          ELSE /\ l.next[o] \in l.set /\ l.rank[l.next[o]] < l.rank[o]
               /\ \A q \in l.set : l.rank[q] < l.rank[o] => l.rank[q] <= l.rank[l.next[o]]

\* List l with o at its front, before hd, and without o.
AddFront(l, hd, o) ==
    [set  |-> l.set \cup {o}, next |-> [l.next EXCEPT ![o] = hd],
     rank |-> [l.rank EXCEPT ![o] = IF hd = 0 THEN 0 ELSE l.rank[hd] + 1]]

TakeOut(l, o) ==
    [set  |-> l.set \ {o}, next |-> [q \in Nat |-> IF l.next[q] = o THEN l.next[o] ELSE l.next[q]],
     rank |-> l.rank]

\* A record leads to one record, which is led to by one.
LEMMA RankedInjects ==
    ASSUME NEW l \in ListShape, NEW hd, Ranked(hd, l)
    PROVE  /\ \A a, b \in l.set : l.next[a] = l.next[b] /\ l.next[a] # 0 => a = b
           /\ \A a \in l.set : l.next[a] # a /\ (l.next[a] # 0 => l.next[a] # hd)
<1> DEFINE S == l.set
           nx == l.next
           rk == l.rank
<1>1. S \in SUBSET (Nat \ {0}) /\ nx \in [Nat -> Nat] /\ rk \in [Nat -> Nat]
    BY DEF ListShape
<1>2. \A a \in S : a \in Nat /\ a # 0 /\ rk[a] \in Nat /\ nx[a] \in Nat /\ rk[nx[a]] \in Nat
    BY <1>1
<1>3. \A a \in S : nx[a] # 0 => /\ nx[a] \in S /\ rk[nx[a]] < rk[a]
                               /\ \A q \in S : rk[q] < rk[a] => rk[q] <= rk[nx[a]]
    BY DEF Ranked
<1>4. (\A a, b \in S : rk[a] = rk[b] => a = b) /\ (hd # 0 => \A a \in S : rk[a] <= rk[hd])
    BY DEF Ranked
<1>5. hd = 0 \/ hd \in S
    BY DEF Ranked
<1> HIDE DEF S, nx, rk
<1>6. ASSUME NEW a \in S, NEW b \in S, nx[a] = nx[b], nx[a] # 0 PROVE a = b
    <2>1. ~(rk[a] < rk[b])
        <3> SUFFICES ASSUME rk[a] < rk[b] PROVE FALSE
            OBVIOUS
        <3>1. rk[a] <= rk[nx[b]] /\ rk[nx[a]] < rk[a]
            BY <1>3, <1>6
        <3> QED
            BY <1>2, <1>6, <3>1
    <2>2. ~(rk[b] < rk[a])
        <3> SUFFICES ASSUME rk[b] < rk[a] PROVE FALSE
            OBVIOUS
        <3>1. rk[b] <= rk[nx[a]] /\ rk[nx[b]] < rk[b]
            BY <1>3, <1>6
        <3> QED
            BY <1>2, <1>6, <3>1
    <2>3. rk[a] \in Nat /\ rk[b] \in Nat
        BY <1>2
    <2>4. rk[a] = rk[b]
        BY <2>1, <2>2, <2>3
    <2> QED
        BY <1>4, <2>4
<1>7. ASSUME NEW a \in S PROVE nx[a] # a /\ (nx[a] # 0 => nx[a] # hd)
    <2>1. rk[a] \in Nat /\ a # 0
        BY <1>2
    <2>2. nx[a] # 0 => rk[nx[a]] < rk[a] /\ rk[nx[a]] \in Nat
        BY <1>2, <1>3
    <2>3. hd # 0 => rk[a] <= rk[hd]
        BY <1>4
    <2> QED
        BY <1>5, <2>1, <2>2, <2>3
<1> QED
    BY <1>6, <1>7 DEF S, nx

\* What AddFront makes of a list is a list.
LEMMA RankedInsert ==
    ASSUME NEW l \in ListShape, NEW hd, Ranked(hd, l), NEW o \in (Nat \ {0}) \ l.set
    PROVE  LET m == AddFront(l, hd, o)
           IN  /\ m \in ListShape /\ Ranked(o, m)
               /\ m.set = l.set \cup {o} /\ m.next[o] = hd
               /\ \A q \in l.set : m.next[q] = l.next[q] /\ m.rank[q] = l.rank[q]
<1> DEFINE S == l.set
           nx == l.next
           rk == l.rank
           r == IF hd = 0 THEN 0 ELSE rk[hd] + 1
           m == AddFront(l, hd, o)
           S1 == m.set
           nx1 == m.next
           rk1 == m.rank
<1>1. S \in SUBSET (Nat \ {0}) /\ nx \in [Nat -> Nat] /\ rk \in [Nat -> Nat]
    BY DEF ListShape
<1>2. S1 = S \cup {o} /\ nx1 = [nx EXCEPT ![o] = hd] /\ rk1 = [rk EXCEPT ![o] = r]
    BY DEF AddFront
<1>3. IF hd = 0 THEN S = {} ELSE hd \in S /\ \A q \in S : rk[q] <= rk[hd]
    BY DEF Ranked
<1>4. \A a, b \in S : rk[a] = rk[b] => a = b
    BY DEF Ranked
<1>5. \A a \in S : IF nx[a] = 0 THEN \A q \in S : rk[a] <= rk[q]
                   ELSE /\ nx[a] \in S /\ rk[nx[a]] < rk[a]
                        /\ \A q \in S : rk[q] < rk[a] => rk[q] <= rk[nx[a]]
    BY DEF Ranked
<1>6. r \in Nat /\ hd \in Nat
    BY <1>1, <1>3
<1>7. m = [set |-> S1, next |-> nx1, rank |-> rk1]
    BY DEF AddFront
<1>8. rk1 \in [Nat -> Nat] /\ nx1 \in [Nat -> Nat] /\ S1 \in SUBSET (Nat \ {0})
    BY <1>1, <1>2, <1>6
<1>9. m \in ListShape
    BY <1>7, <1>8 DEF ListShape
<1>10. \A q \in S : q \in Nat /\ q # o /\ rk1[q] = rk[q] /\ nx1[q] = nx[q] /\ rk[q] \in Nat
    BY <1>1, <1>2
<1>11. rk1[o] = r /\ nx1[o] = hd
    BY <1>1, <1>2
<1>12. \A q \in S : rk[q] < r
    BY <1>1, <1>3, <1>10
<1> HIDE DEF S, nx, rk, r, m, S1, nx1, rk1
<1>13. \A a, b \in S1 : rk1[a] = rk1[b] => a = b
    <2>1. \A a, b \in S : rk1[a] = rk1[b] => a = b
        BY <1>4, <1>10
    <2>2. \A q \in S : rk1[q] # rk1[o]
        BY <1>6, <1>10, <1>11, <1>12
    <2> QED
        BY <1>2, <2>1, <2>2
<1>14. o \in S1 /\ o # 0 /\ \A a \in S1 : rk1[a] <= rk1[o]
    BY <1>2, <1>6, <1>10, <1>11, <1>12
<1>15. ASSUME NEW a \in S1
       PROVE  IF nx1[a] = 0 THEN \A q \in S1 : rk1[a] <= rk1[q]
              ELSE /\ nx1[a] \in S1 /\ rk1[nx1[a]] < rk1[a]
                   /\ \A q \in S1 : rk1[q] < rk1[a] => rk1[q] <= rk1[nx1[a]]
    <2>1. CASE a = o
        <3>1. CASE hd = 0
            BY <1>2, <1>3, <1>6, <1>11, <2>1, <3>1
        <3>2. CASE hd # 0
            <4>1. hd \in S /\ rk1[hd] = rk[hd] /\ rk[hd] < r
                BY <1>3, <1>10, <1>12, <3>2
            <4>2. \A q \in S : rk1[q] <= rk1[hd]
                BY <1>3, <1>10, <3>2
            <4>3. ~(rk1[o] < rk1[o])
                BY <1>6, <1>11
            <4> QED
                BY <1>2, <1>11, <2>1, <3>2, <4>1, <4>2, <4>3
        <3> QED
            BY <3>1, <3>2
    <2>2. CASE a \in S
        <3>1. nx1[a] = nx[a] /\ rk1[a] = rk[a] /\ rk[a] < r /\ rk[a] \in Nat
            BY <1>10, <1>12, <2>2
        <3>2. CASE nx[a] = 0
            <4>1. \A q \in S : rk1[a] <= rk1[q]
                BY <1>5, <1>10, <2>2, <3>1, <3>2
            <4>2. rk1[a] <= rk1[o]
                BY <1>6, <1>11, <3>1
            <4> QED
                BY <1>2, <3>1, <3>2, <4>1, <4>2
        <3>3. CASE nx[a] # 0
            <4>1. /\ nx[a] \in S /\ rk1[nx[a]] < rk1[a]
                  /\ \A q \in S : rk1[q] < rk1[a] => rk1[q] <= rk1[nx[a]]
                BY <1>5, <1>10, <2>2, <3>1, <3>3
            <4>2. ~(rk1[o] < rk1[a])
                BY <1>6, <1>11, <3>1
            <4> QED
                BY <1>2, <3>1, <3>3, <4>1, <4>2
        <3> QED
            BY <3>2, <3>3
    <2> QED
        BY <1>2, <1>15, <2>1, <2>2
<1>16. Ranked(o, m)
    <2>1. IF o = 0 THEN S1 = {} ELSE o \in S1 /\ \A a \in S1 : rk1[a] <= rk1[o]
        BY <1>14
    <2> QED
        BY <1>13, <1>15, <2>1 DEF Ranked, S1, nx1, rk1
<1> QED
    BY <1>2, <1>9, <1>10, <1>11, <1>16 DEF S, nx, rk, m, S1, nx1, rk1

\* A record taken out: what led to it leads to its successor.
LEMMA RankedRemove ==
    ASSUME NEW l \in ListShape, NEW hd, Ranked(hd, l), NEW o \in l.set,
           NEW hd1, hd1 = IF hd = o THEN l.next[o] ELSE hd
    PROVE  LET m == TakeOut(l, o)
           IN  /\ m \in ListShape /\ Ranked(hd1, m)
               /\ m.set = l.set \ {o} /\ m.rank = l.rank
               /\ \A q \in l.set : m.next[q] = IF l.next[q] = o THEN l.next[o] ELSE l.next[q]
<1> DEFINE S == l.set
           nx == l.next
           rk == l.rank
           m == TakeOut(l, o)
           S1 == S \ {o}
           nx1 == [q \in Nat |-> IF nx[q] = o THEN nx[o] ELSE nx[q]]
<1>1. S \in SUBSET (Nat \ {0}) /\ nx \in [Nat -> Nat] /\ rk \in [Nat -> Nat] /\ o \in S
    BY DEF ListShape
<1>2. m = [set |-> S1, next |-> nx1, rank |-> rk]
    BY DEF TakeOut
<1>3. IF hd = 0 THEN S = {} ELSE hd \in S /\ \A q \in S : rk[q] <= rk[hd]
    BY DEF Ranked
<1>4. \A a, b \in S : rk[a] = rk[b] => a = b
    BY DEF Ranked
<1>5. \A a \in S : nx[a] = 0 => \A q \in S : rk[a] <= rk[q]
    BY DEF Ranked
<1>6. \A a \in S : nx[a] # 0 => /\ nx[a] \in S /\ rk[nx[a]] < rk[a]
                               /\ \A q \in S : rk[q] < rk[a] => rk[q] <= rk[nx[a]]
    BY DEF Ranked
<1>7. nx1 \in [Nat -> Nat] /\ \A q \in S : nx1[q] = IF nx[q] = o THEN nx[o] ELSE nx[q]
    BY <1>1
<1>8. m \in ListShape
    BY <1>1, <1>2, <1>7 DEF ListShape
<1>9. \A a \in S : a \in Nat /\ a # 0 /\ rk[a] \in Nat
    BY <1>1
<1>10. hd1 = IF hd = o THEN nx[o] ELSE hd
    OBVIOUS
<1>11. m.set = S1 /\ m.next = nx1 /\ m.rank = rk
    BY <1>2
<1>12. nx[o] # o
    BY RankedInjects
<1> HIDE DEF S, nx, rk, m, nx1
<1>13. IF hd1 = 0 THEN S1 = {} ELSE hd1 \in S1 /\ \A a \in S1 : rk[a] <= rk[hd1]
    <2>1. hd # 0 /\ hd \in S /\ \A a \in S : rk[a] <= rk[hd]
        BY <1>1, <1>3
    <2>2. CASE hd # o
        BY <1>10, <2>1, <2>2
    <2>3. CASE hd = o /\ nx[o] = 0
        <3>1. \A a \in S : rk[a] = rk[o]
            <4> TAKE a \in S
            <4>1. rk[a] <= rk[o] /\ rk[o] <= rk[a] /\ rk[a] \in Nat /\ rk[o] \in Nat
                BY <1>1, <1>5, <1>9, <2>1, <2>3
            <4> QED
                BY <4>1
        <3> QED
            BY <1>1, <1>4, <1>10, <2>3, <3>1
    <2>4. CASE hd = o /\ nx[o] # 0
        <3>1. \A a \in S1 : rk[a] < rk[o]
            <4> TAKE a \in S1
            <4>1. rk[a] <= rk[o] /\ rk[a] # rk[o] /\ rk[a] \in Nat /\ rk[o] \in Nat
                BY <1>1, <1>4, <1>9, <2>1, <2>4
            <4> QED
                BY <4>1
        <3> QED
            BY <1>1, <1>6, <1>10, <1>12, <2>4, <3>1
    <2> QED
        BY <2>2, <2>3, <2>4
<1>14. ASSUME NEW a \in S1
       PROVE  IF nx1[a] = 0 THEN \A q \in S1 : rk[a] <= rk[q]
              ELSE /\ nx1[a] \in S1 /\ rk[nx1[a]] < rk[a]
                   /\ \A q \in S1 : rk[q] < rk[a] => rk[q] <= rk[nx1[a]]
    <2>1. a \in S /\ a # o /\ rk[a] \in Nat /\ rk[o] \in Nat
        BY <1>1, <1>9, <1>14
    <2>2. CASE nx[a] # o
        <3>1. nx1[a] = nx[a]
            BY <1>7, <2>1, <2>2
        <3> QED
            BY <1>5, <1>6, <2>1, <2>2, <3>1
    <2>3. CASE nx[a] = o
        <3>1. nx1[a] = nx[o] /\ nx[a] # 0
            BY <1>1, <1>7, <1>9, <2>1, <2>3
        <3>2. rk[o] < rk[a]
            BY <1>6, <2>1, <2>3, <3>1
        <3>3. ASSUME NEW q \in S1, rk[q] < rk[a] PROVE rk[q] < rk[o]
            <4>1. q \in S /\ rk[q] # rk[o] /\ rk[q] \in Nat
                BY <1>1, <1>4, <1>9
            <4>2. rk[q] <= rk[o]
                BY <1>6, <2>1, <2>3, <3>1, <3>3, <4>1
            <4> QED
                BY <2>1, <4>1, <4>2
        <3>4. CASE nx[o] = 0
            <4>1. ASSUME NEW q \in S1 PROVE rk[a] <= rk[q]
                <5>1. rk[o] <= rk[q] /\ rk[q] \in Nat
                    BY <1>1, <1>5, <1>9, <3>4
                <5>2. ~(rk[q] < rk[a])
                    BY <2>1, <3>3, <5>1
                <5> QED
                    BY <2>1, <5>1, <5>2
            <4> QED
                BY <3>1, <3>4, <4>1
        <3>5. CASE nx[o] # 0
            <4>1. nx[o] \in S /\ rk[nx[o]] < rk[o] /\ nx[o] # o /\ rk[nx[o]] \in Nat
                BY <1>1, <1>6, <1>9, <1>12, <3>5
            <4>2. ASSUME NEW q \in S1, rk[q] < rk[a] PROVE rk[q] <= rk[nx[o]]
                BY <1>1, <1>6, <3>3, <3>5, <4>2
            <4>3. rk[nx[o]] < rk[a]
                BY <2>1, <3>2, <4>1
            <4> QED
                BY <3>1, <3>5, <4>1, <4>2, <4>3
        <3> QED
            BY <3>4, <3>5
    <2> QED
        BY <2>2, <2>3
<1>15. Ranked(hd1, m)
    BY <1>4, <1>11, <1>13, <1>14 DEF Ranked
<1> QED
    BY <1>7, <1>8, <1>11, <1>15 DEF S, nx, rk, m

\* w follows the list l from hd for N steps; all of l is in it.
Follows(w, hd, l, N) ==
    w[0] = hd /\ \A n \in 0 .. N - 1 : w[n + 1] = IF w[n] = 0 THEN 0 ELSE l.next[w[n]]

Visits(w, l, N) ==
    /\ w[N] = 0 /\ \A n \in 0 .. N : w[n] \in l.set \cup {0}
    /\ \A q \in l.set : \E n \in 0 .. N : w[n] = q

\* Following the list from its head visits all of it and ends within as many
\* steps as there are records in the file.
LEMMA RankedWalk ==
    ASSUME NEW l \in ListShape, NEW hd, Ranked(hd, l), NEW k \in Nat, NEW N \in Nat,
           l.set \subseteq k + 1 .. k + N,
           NEW w, Follows(w, hd, l, N)
    PROVE  Visits(w, l, N)
<1> DEFINE S == l.set
           nx == l.next
           rk == l.rank
<1>1. S \in SUBSET (Nat \ {0}) /\ nx \in [Nat -> Nat] /\ rk \in [Nat -> Nat]
    BY DEF ListShape
<1>2. \A a \in S : a # 0 /\ rk[a] \in Nat /\ a \in k + 1 .. k + N
    BY <1>1
<1>3. IF hd = 0 THEN S = {} ELSE hd \in S /\ \A q \in S : rk[q] <= rk[hd]
    BY DEF Ranked
<1>4. \A a, b \in S : rk[a] = rk[b] => a = b
    BY DEF Ranked
<1>5. \A a \in S : nx[a] = 0 => \A q \in S : rk[a] <= rk[q]
    BY DEF Ranked
<1>6. \A a \in S : nx[a] # 0 => /\ nx[a] \in S /\ rk[nx[a]] < rk[a]
                               /\ \A q \in S : rk[q] < rk[a] => rk[q] <= rk[nx[a]]
    BY DEF Ranked
<1>7. w[0] = hd /\ \A n \in 0 .. N - 1 : w[n + 1] = IF w[n] = 0 THEN 0 ELSE nx[w[n]]
    BY DEF Follows
<1> HIDE DEF S, nx, rk
<1>8. \A n \in Nat : n <= N => w[n] \in S \cup {0}
    <2> DEFINE T == {n \in Nat : n <= N => w[n] \in S \cup {0}}
    <2>1. 0 \in T
        BY <1>3, <1>7
    <2>2. ASSUME NEW n \in Nat, n \in T PROVE n + 1 \in T
        <3> SUFFICES ASSUME n + 1 <= N PROVE w[n + 1] \in S \cup {0}
            OBVIOUS
        <3>1. n \in 0 .. N - 1 /\ w[n] \in S \cup {0}
            BY <2>2
        <3> QED
            BY <1>6, <1>7, <3>1
    <2> HIDE DEF T
    <2>3. \A n \in Nat : n \in T
        BY <2>1, <2>2, Induction
    <2> QED
        BY <2>3 DEF T
\* Ranks go down, so that no record comes twice.
<1>9. \A m \in Nat : \A n \in Nat : n < m /\ m <= N /\ w[m] # 0 => w[n] # 0 /\ rk[w[m]] < rk[w[n]]
    <2> DEFINE P(n, m) == n < m /\ m <= N /\ w[m] # 0 => w[n] # 0 /\ rk[w[m]] < rk[w[n]]
               T == {m \in Nat : \A n \in Nat : P(n, m)}
    <2>1. 0 \in T
        OBVIOUS
    <2>2. ASSUME NEW m \in Nat, m \in T, NEW n \in Nat, n < m + 1, m + 1 <= N, w[m + 1] # 0
          PROVE  w[n] # 0 /\ rk[w[m + 1]] < rk[w[n]]
        <3>1. m \in 0 .. N - 1 /\ w[m] # 0 /\ w[m + 1] = nx[w[m]]
            BY <1>7, <2>2
        <3>2. w[m] \in S
            BY <1>8, <3>1
        <3>3. w[m + 1] \in S /\ rk[w[m + 1]] < rk[w[m]]
            BY <1>6, <2>2, <3>1, <3>2
        <3>4. CASE n = m
            BY <3>1, <3>3, <3>4
        <3>5. CASE n < m
            <4>1. w[n] # 0 /\ rk[w[m]] < rk[w[n]]
                BY <2>2, <3>1, <3>5
            <4>2. w[n] \in S
                BY <1>8, <3>1, <3>5, <4>1
            <4> QED
                BY <1>2, <3>2, <3>3, <4>1, <4>2
        <3> QED
            BY <2>2, <3>4, <3>5
    <2>3. ASSUME NEW m \in Nat, m \in T PROVE m + 1 \in T
        BY <2>2, <2>3
    <2> HIDE DEF T
    <2>4. \A m \in Nat : m \in T
        BY <2>1, <2>3, Induction
    <2> QED
        BY <2>4 DEF T
<1>10. w[N] = 0
    <2> SUFFICES ASSUME w[N] # 0 PROVE FALSE
        OBVIOUS
    <2> DEFINE f == [n \in 0 .. N |-> w[n]]
    <2>1. f \in [0 .. N -> k + 1 .. k + N]
        <3>1. ASSUME NEW n \in 0 .. N PROVE w[n] \in k + 1 .. k + N
            <4>1. w[n] # 0
                BY <1>9
            <4> QED
                BY <1>2, <1>8, <4>1
        <3> QED
            BY <3>1
    <2>2. /\ IsFiniteSet(0 .. N) /\ Cardinality(0 .. N) = N + 1
          /\ IsFiniteSet(k + 1 .. k + N) /\ Cardinality(k + 1 .. k + N) = N
          /\ Cardinality(k + 1 .. k + N) < Cardinality(0 .. N)
        <3>1. IsFiniteSet(0 .. N) /\ Cardinality(0 .. N) = IF 0 > N THEN 0 ELSE N - 0 + 1
            BY FS_Interval
        <3>2. IsFiniteSet(k + 1 .. k + N) /\ Cardinality(k + 1 .. k + N) = IF k + 1 > k + N THEN 0 ELSE (k + N) - (k + 1) + 1
            BY FS_Interval
        <3> QED
            BY <3>1, <3>2
    <2> HIDE DEF f
    <2>3. PICK x \in 0 .. N, y \in 0 .. N : x # y /\ f[x] = f[y]
        <3> DEFINE D == 0 .. N
                   E == k + 1 .. k + N
        <3>1. /\ IsFiniteSet(D) /\ IsFiniteSet(E) /\ Cardinality(E) < Cardinality(D)
              /\ f \in [D -> E]
            BY <2>1, <2>2
        <3> HIDE DEF D, E
        <3>2. \E x, y \in D : x # y /\ f[x] = f[y]
            BY <3>1, FS_PigeonHole
        <3> QED
            BY <3>2 DEF D
    <2>4. w[x] = w[y] /\ w[x] # 0
        BY <1>9, <2>3 DEF f
    <2>5. rk[w[x]] \in Nat
        BY <1>2, <1>8, <2>4
    <2>6. x \in Nat /\ y \in Nat /\ (x < y \/ y < x) /\ x <= N /\ y <= N
        BY <2>3
    <2> QED
        BY <1>9, <2>4, <2>5, <2>6
\* A record left out would be below all that come.
<1>11. ASSUME NEW q \in S PROVE \E n \in 0 .. N : w[n] = q
    <2> SUFFICES ASSUME \A n \in 0 .. N : w[n] # q PROVE FALSE
        OBVIOUS
    <2> DEFINE T == {n \in Nat : n <= N => w[n] # 0 /\ rk[q] < rk[w[n]]}
    <2>1. 0 \in T
        <3>1. hd # 0 /\ hd \in S /\ rk[q] <= rk[hd] /\ hd # q
            BY <1>3, <1>7
        <3>2. rk[q] # rk[hd] /\ rk[q] \in Nat /\ rk[hd] \in Nat
            BY <1>2, <1>4, <3>1
        <3> QED
            BY <1>7, <3>1, <3>2
    <2>2. ASSUME NEW n \in Nat, n \in T PROVE n + 1 \in T
        <3> SUFFICES ASSUME n + 1 <= N PROVE w[n + 1] # 0 /\ rk[q] < rk[w[n + 1]]
            OBVIOUS
        <3>1. n \in 0 .. N - 1 /\ w[n] # 0 /\ rk[q] < rk[w[n]] /\ n + 1 \in 0 .. N
            BY <2>2
        <3>2. w[n] \in S /\ w[n + 1] = nx[w[n]] /\ w[n + 1] # q
            BY <1>7, <1>8, <3>1
        <3>3. rk[q] \in Nat /\ rk[w[n]] \in Nat /\ ~(rk[w[n]] <= rk[q])
            BY <1>2, <3>1, <3>2
        <3>4. nx[w[n]] # 0
            BY <1>5, <3>2, <3>3
        <3>5. nx[w[n]] \in S /\ rk[q] <= rk[nx[w[n]]]
            BY <1>6, <3>1, <3>2, <3>4
        <3>6. rk[q] # rk[nx[w[n]]] /\ rk[nx[w[n]]] \in Nat
            BY <1>2, <1>4, <3>2, <3>5
        <3> QED
            BY <3>2, <3>3, <3>4, <3>5, <3>6
    <2> HIDE DEF T
    <2>3. \A n \in Nat : n \in T
        BY <2>1, <2>2, Induction
    <2>4. N \in T
        BY <2>3
    <2> QED
        BY <1>10, <2>4 DEF T
<1>12. \A n \in 0 .. N : w[n] \in S \cup {0}
    BY <1>8
<1> QED
    BY <1>10, <1>11, <1>12 DEF S, Visits

=============================================================================
