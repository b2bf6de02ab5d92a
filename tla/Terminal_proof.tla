--------------------------- MODULE Terminal_proof ---------------------------
(***************************************************************************)
(* Four programs that a user runs at a terminal, for any number of         *)
(* commands, keys, signals and files: the shell's time limit belongs to    *)
(* the command it was set for, call gives the terminal back as it found it *)
(* and its take copies files exactly, calld's chat with the modem is       *)
(* exact, and so is what myfind and ftw4 report of a tree.                 *)
(***************************************************************************)
EXTENDS CallLoop, DirWalk, Expect, Myshell, NatSets, SequenceTheorems, TLAPS

-----------------------------------------------------------------------------
(* Sequences, and pieces one after the other. *)

\* The first j pieces of s.
Part(s, j) == FlattenSeq(SubSeq(s, 1, j))

\* FlattenSeq by its steps.
LEMMA FlattenDef ==
    ASSUME NEW S, NEW s \in Seq(Seq(S)), s # <<>>
    PROVE  \E f \in [1 .. Len(s) -> Seq(S)] :
              /\ f[1] = s[1] /\ FlattenSeq(s) = f[Len(s)]
              /\ \A i \in 1 .. Len(s) - 1 : f[i + 1] = f[i] \o s[i + 1]
<1> DEFINE n == Len(s)
           IsPart(f, m) == f[1] = s[1] /\ \A i \in 1 .. m - 1 : f[i + 1] = f[i] \o s[i + 1]
           Begins(m) == \E f \in [1 .. m -> Seq(S)] : IsPart(f, m)
           T == {j \in Nat : j + 1 \in 1 .. n => Begins(j + 1)}
<1>1. n \in Nat \ {0} /\ \A i \in 1 .. n : s[i] \in Seq(S)
    BY EmptySeq
<1>2. \A j \in Nat : j \in T
    <2>1. 0 \in T
        <3>1. [i \in 1 .. 1 |-> s[1]] \in [1 .. 0 + 1 -> Seq(S)] /\ IsPart([i \in 1 .. 1 |-> s[1]], 0 + 1)
            BY <1>1
        <3> QED
            BY <3>1
    <2>2. ASSUME NEW j \in Nat, j \in T PROVE j + 1 \in T
        <3> DEFINE m == j + 1
        <3> HIDE DEF Begins
        <3> SUFFICES ASSUME m + 1 \in 1 .. n PROVE Begins(m + 1)
            OBVIOUS
        <3> USE DEF Begins
        <3>1. m \in Nat \ {0} /\ m \in 1 .. n
            BY <1>1
        <3>2. PICK f \in [1 .. m -> Seq(S)] : IsPart(f, m)
            BY <2>2, <3>1
        <3> HIDE DEF m
        <3> DEFINE g == [i \in 1 .. m + 1 |-> IF i = m + 1 THEN f[m] \o s[m + 1] ELSE f[i]]
        <3>3. f[m] \o s[m + 1] \in Seq(S)
            <4>1. f[m] \in Seq(S) /\ s[m + 1] \in Seq(S)
                BY <1>1, <3>1
            <4> QED
                BY <4>1, ConcatProperties
        <3>4. g \in [1 .. m + 1 -> Seq(S)]
            BY <3>1, <3>2, <3>3
        <3>5. g[1] = s[1]
            BY <3>1, <3>2
        <3>6. ASSUME NEW i \in 1 .. m PROVE g[i + 1] = g[i] \o s[i + 1]
            <4>1. g[i] = f[i]
                BY <3>1
            <4>2. CASE i = m
                <5>1. g[i + 1] = f[m] \o s[m + 1]
                    BY <3>1, <4>2
                <5> QED
                    BY <4>1, <4>2, <5>1
            <4>3. CASE i # m
                <5>1. i \in 1 .. m - 1 /\ i + 1 \in 1 .. m + 1 /\ i + 1 # m + 1
                    BY <3>1, <4>3
                <5>2. g[i + 1] = f[i + 1]
                    BY <5>1
                <5> QED
                    BY <3>2, <4>1, <5>1, <5>2
            <4> QED
                BY <4>2, <4>3
        <3> HIDE DEF g
        <3>7. m = (m + 1) - 1
            BY <3>1
        <3>8. IsPart(g, m + 1)
            BY <3>5, <3>6, <3>7
        <3> QED
            BY <3>4, <3>8
    <2> HIDE DEF T
    <2> QED
        BY <2>1, <2>2, Induction
<1>3. PICK f \in [1 .. n -> Seq(S)] : IsPart(f, n)
    <2>1. n - 1 \in Nat /\ (n - 1) + 1 = n /\ n \in 1 .. n
        BY <1>1
    <2>2. n - 1 \in T
        BY <1>2, <2>1
    <2> HIDE DEF Begins
    <2>3. Begins(n)
        BY <2>1, <2>2
    <2> QED
        BY <2>3 DEF Begins
<1> DEFINE D(g) == [i \in 1 .. n |-> IF i = 1 THEN s[i] ELSE g[i - 1] \o s[i]]
<1>4. f = D(f)
    <2>1. \A i \in 1 .. n : f[i] = D(f)[i]
        <3> TAKE i \in 1 .. n
        <3>1. CASE i = 1
            BY <1>3, <3>1
        <3>2. CASE i # 1
            <4>1. i - 1 \in 1 .. n - 1 /\ (i - 1) + 1 = i
                BY <1>1, <3>2
            <4>2. f[i] = f[i - 1] \o s[i]
                BY <1>3, <4>1
            <4> QED
                BY <3>2, <4>2
        <3> QED
            BY <3>1, <3>2
    <2> QED
        BY <2>1
<1> DEFINE h == CHOOSE g : g = D(g)
<1>5. h = D(h)
    BY <1>4
<1>6. FlattenSeq(s) = h[n]
    BY <1>1 DEF FlattenSeq
<1> HIDE DEF h
<1>7. \A i \in 1 .. n : h[i] = IF i = 1 THEN s[i] ELSE h[i - 1] \o s[i]
    BY <1>5
<1> DEFINE U == {j \in Nat : j + 1 \in 1 .. n => h[j + 1] = f[j + 1]}
<1>8. \A j \in Nat : j \in U
    <2>1. 0 \in U
        BY <1>1, <1>3, <1>7
    <2>2. ASSUME NEW j \in Nat, j \in U PROVE j + 1 \in U
        <3> SUFFICES ASSUME j + 2 \in 1 .. n PROVE h[j + 2] = f[j + 2]
            OBVIOUS
        <3>1. j + 1 \in 1 .. n - 1 /\ j + 1 \in 1 .. n /\ (j + 1) + 1 = j + 2 /\ (j + 2) - 1 = j + 1 /\ j + 2 # 1
            BY <1>1
        <3>2. h[j + 2] = h[j + 1] \o s[j + 2] /\ f[j + 2] = f[j + 1] \o s[j + 2]
            BY <1>3, <1>7, <3>1
        <3> QED
            BY <2>2, <3>1, <3>2
    <2> HIDE DEF U
    <2> QED
        BY <2>1, <2>2, Induction
<1>9. n - 1 \in Nat /\ (n - 1) + 1 = n /\ n \in 1 .. n
    BY <1>1
<1>10. h[n] = f[n]
    BY <1>8, <1>9
<1> QED
    BY <1>3, <1>6, <1>10

\* A piece more at the end.
LEMMA FlattenAppend ==
    ASSUME NEW S, NEW s \in Seq(Seq(S)), NEW x \in Seq(S)
    PROVE  FlattenSeq(s) \in Seq(S) /\ FlattenSeq(Append(s, x)) = FlattenSeq(s) \o x
<1> DEFINE t == Append(s, x)
           n == Len(s)
<1>1. /\ n \in Nat /\ t \in Seq(Seq(S)) /\ t # <<>> /\ Len(t) = n + 1
      /\ (\A i \in 1 .. n : t[i] = s[i]) /\ t[n + 1] = x
    BY AppendProperties, EmptySeq
<1> HIDE DEF t
<1>2. PICK g \in [1 .. n + 1 -> Seq(S)] :
          /\ g[1] = t[1] /\ FlattenSeq(t) = g[n + 1]
          /\ \A i \in 1 .. n : g[i + 1] = g[i] \o t[i + 1]
    <2>1. \E g \in [1 .. Len(t) -> Seq(S)] :
              /\ g[1] = t[1] /\ FlattenSeq(t) = g[Len(t)]
              /\ \A i \in 1 .. Len(t) - 1 : g[i + 1] = g[i] \o t[i + 1]
        BY <1>1, FlattenDef
    <2>2. Len(t) = n + 1 /\ Len(t) - 1 = n
        BY <1>1
    <2> HIDE DEF n
    <2> QED
        BY <2>1, <2>2
<1>3. CASE s = <<>>
    <2>1. FlattenSeq(s) = <<>> /\ n = 0
        BY <1>3 DEF FlattenSeq
    <2>2. FlattenSeq(t) = x
        BY <1>1, <1>2, <2>1
    <2> QED
        BY <2>1, <2>2, ConcatEmptySeq DEF t
<1>4. CASE s # <<>>
    <2>1. PICK f \in [1 .. n -> Seq(S)] :
              /\ f[1] = s[1] /\ FlattenSeq(s) = f[n]
              /\ \A i \in 1 .. n - 1 : f[i + 1] = f[i] \o s[i + 1]
        BY <1>4, FlattenDef
    <2>2. n \in Nat \ {0}
        BY <1>1, <1>4, EmptySeq
    <2> DEFINE U == {j \in Nat : j + 1 \in 1 .. n => g[j + 1] = f[j + 1]}
    <2>3. \A j \in Nat : j \in U
        <3>1. 0 \in U
            BY <1>1, <1>2, <2>1, <2>2
        <3>2. ASSUME NEW j \in Nat, j \in U PROVE j + 1 \in U
            <4> SUFFICES ASSUME j + 2 \in 1 .. n PROVE g[j + 2] = f[j + 2]
                OBVIOUS
            <4>1. /\ j + 1 \in 1 .. n - 1 /\ j + 1 \in 1 .. n /\ (j + 1) + 1 = j + 2 /\ j + 2 \in 1 .. n
                BY <2>2
            <4>2. g[j + 2] = g[j + 1] \o t[j + 2] /\ f[j + 2] = f[j + 1] \o s[j + 2] /\ t[j + 2] = s[j + 2]
                BY <1>1, <1>2, <2>1, <4>1
            <4> QED
                BY <3>2, <4>1, <4>2
        <3> HIDE DEF U
        <3> QED
            BY <3>1, <3>2, Induction
    <2>4. n - 1 \in Nat /\ (n - 1) + 1 = n /\ n \in 1 .. n
        BY <2>2
    <2>5. g[n] = f[n]
        BY <2>3, <2>4
    <2>6. FlattenSeq(t) = f[n] \o x
        BY <1>1, <1>2, <2>4, <2>5
    <2>7. f[n] \in Seq(S)
        BY <2>1, <2>4
    <2> QED
        BY <2>1, <2>6, <2>7 DEF t
<1> QED
    BY <1>3, <1>4

\* The pieces one after the other.
LEMMA FlattenParts ==
    ASSUME NEW S, NEW s \in Seq(Seq(S))
    PROVE  /\ FlattenSeq(SubSeq(s, 1, 0)) = <<>> /\ FlattenSeq(SubSeq(s, 1, Len(s))) = FlattenSeq(s)
           /\ \A j \in 0 .. Len(s) : FlattenSeq(SubSeq(s, 1, j)) \in Seq(S)
           /\ \A j \in 0 .. Len(s) - 1 :
                 FlattenSeq(SubSeq(s, 1, j + 1)) = FlattenSeq(SubSeq(s, 1, j)) \o s[j + 1]
           /\ \A j \in 0 .. Len(s) : \E r \in Seq(S) : FlattenSeq(s) = FlattenSeq(SubSeq(s, 1, j)) \o r
<1> DEFINE n == Len(s)
           F(j) == FlattenSeq(SubSeq(s, 1, j))
<1>1. n \in Nat /\ \A i \in 1 .. n : s[i] \in Seq(S)
    BY LenProperties
<1>2. \A a, b, c \in Seq(S) : (a \o b) \o c = a \o (b \o c)
    BY ConcatAssociative
<1>3. SubSeq(s, 1, 0) = <<>> /\ SubSeq(s, 1, n) = s
    BY SubSeqEmpty, SubSeqFull
<1>4. F(0) = <<>>
    BY <1>3 DEF FlattenSeq
<1>5. ASSUME NEW j \in 0 .. n - 1 PROVE F(j) \in Seq(S) /\ F(j + 1) = F(j) \o s[j + 1]
    <2>1. SubSeq(s, 1, j) \in Seq(Seq(S)) /\ s[j + 1] \in Seq(S) /\ j + 1 \in 1 .. n /\ (j + 1) - 1 = j
        BY <1>1, SubSeqProperties
    <2>2. SubSeq(s, 1, j + 1) = SubSeq(s, 1, j) \o <<s[j + 1]>>
        BY <2>1, SubSeqRecursiveSecond
    <2>3. SubSeq(s, 1, j + 1) = Append(SubSeq(s, 1, j), s[j + 1])
        BY <2>1, <2>2, AppendIsConcat
    <2> QED
        BY <2>1, <2>3, FlattenAppend
<1>6. F(n) \in Seq(S)
    BY <1>3, FlattenAppend, EmptySeq
<1>7. \A j \in 0 .. n : F(j) \in Seq(S)
    <2> TAKE j \in 0 .. n
    <2>1. j = n \/ j \in 0 .. n - 1
        BY <1>1
    <2> QED
        BY <1>5, <1>6, <2>1
<1> DEFINE Begins(j) == \E r \in Seq(S) : F(n) = F(j) \o r
           T == {j \in Nat : j <= n => Begins(n - j)}
<1> HIDE DEF F
<1>8. \A j \in Nat : j \in T
    <2>1. 0 \in T
        <3>1. F(n) = F(n) \o <<>> /\ <<>> \in Seq(S) /\ n - 0 = n
            BY <1>1, <1>6, ConcatEmptySeq, EmptySeq
        <3> QED
            BY <3>1
    <2>2. ASSUME NEW j \in Nat, j \in T PROVE j + 1 \in T
        <3> HIDE DEF Begins
        <3> SUFFICES ASSUME j + 1 <= n PROVE Begins(n - (j + 1))
            OBVIOUS
        <3> USE DEF Begins
        <3> DEFINE m == n - (j + 1)
        <3>1. m \in 0 .. n - 1 /\ m + 1 = n - j /\ m + 1 \in 1 .. n /\ j <= n
            BY <1>1
        <3> HIDE DEF m
        <3>2. PICK r \in Seq(S) : F(n) = F(m + 1) \o r
            BY <2>2, <3>1
        <3>3. F(m) \in Seq(S) /\ s[m + 1] \in Seq(S) /\ F(m + 1) = F(m) \o s[m + 1]
            BY <1>1, <1>5, <3>1
        <3> DEFINE q == s[m + 1]
        <3>4. F(m) \in Seq(S) /\ q \in Seq(S) /\ F(n) = (F(m) \o q) \o r
            BY <3>2, <3>3
        <3> HIDE DEF q
        <3>5. q \o r \in Seq(S)
            BY <3>4, ConcatProperties
        <3>6. (F(m) \o q) \o r = F(m) \o (q \o r)
            BY <1>2, <3>4
        <3>7. F(n) = F(m) \o (q \o r)
            BY <3>4, <3>6
        <3> QED
            BY <3>5, <3>7 DEF m
    <2> HIDE DEF T
    <2> QED
        BY <2>1, <2>2, Induction
<1>9. \A j \in 0 .. n : \E r \in Seq(S) : F(n) = F(j) \o r
    <2> TAKE j \in 0 .. n
    <2>1. n - j \in Nat /\ n - j <= n /\ n - (n - j) = j
        BY <1>1
    <2>2. n - j \in T
        BY <1>8, <2>1
    <2> QED
        BY <2>1, <2>2
<1> QED
    BY <1>3, <1>4, <1>5, <1>7, <1>9 DEF F

\* Short tuples are sequences.
LEMMA Tuples ==
    ASSUME NEW S, NEW a \in S, NEW b \in S, NEW c \in S, NEW d \in S
    PROVE  <<>> \in Seq(S) /\ <<a>> \in Seq(S) /\ <<a, b>> \in Seq(S) /\ <<a, b, c>> \in Seq(S) /\ <<a, b, c, d>> \in Seq(S)
OBVIOUS

\* The same beginning can be taken away.
LEMMA ConcatCancel ==
    ASSUME NEW S, NEW s \in Seq(S), NEW t \in Seq(S), NEW u \in Seq(S), s \o t = s \o u
    PROVE  t = u
BY ConcatSimplifications

\* Of three sequences it does not matter which are joined first.
Assoc(a, b, c) == (a \o b) \o c = a \o (b \o c)

\* That holds of all sequences.
LEMMA AssocHolds ==
    ASSUME NEW S, NEW a \in Seq(S), NEW b \in Seq(S), NEW c \in Seq(S)
    PROVE  Assoc(a, b, c)
BY ConcatAssociative DEF Assoc

\* Of the same sequence cut in two ways, the beginning can be taken away.
Regrouped(S, b, l, r, e, p) ==
    ((b \o l) \o r) \o e = b \o p => p = l \o (r \o e) /\ r \o e \in Seq(S)

\* That holds of all sequences.
LEMMA Regroup ==
    ASSUME NEW S, NEW b \in Seq(S), NEW l \in Seq(S), NEW r \in Seq(S), NEW e \in Seq(S), NEW p \in Seq(S)
    PROVE  Regrouped(S, b, l, r, e, p)
<1>1. b \o l \in Seq(S) /\ r \o e \in Seq(S) /\ l \o (r \o e) \in Seq(S)
    <2>1. b \o l \in Seq(S) /\ r \o e \in Seq(S)
        BY ConcatProperties
    <2> QED
        BY <2>1, ConcatProperties
<1>2. Assoc(b \o l, r, e)
    BY <1>1, AssocHolds
<1>3. Assoc(b, l, r \o e)
    BY <1>1, AssocHolds
<1>4. ASSUME b \o (l \o (r \o e)) = b \o p PROVE l \o (r \o e) = p
    BY <1>1, <1>4, ConcatCancel
<1> DEFINE u == r \o e
<1>5. ((b \o l) \o r) \o e = b \o (l \o u)
    BY <1>2, <1>3 DEF Assoc
<1> QED
    BY <1>1, <1>4, <1>5 DEF Regrouped

\* A sequence with a first element, and with two.
LEMMA ConsLaws ==
    ASSUME NEW S, NEW a \in S, NEW s \in Seq(S)
    PROVE  /\ <<a>> \o s \in Seq(S) /\ <<a>> \o s # <<>> /\ Append(s, a) = s \o <<a>>
           /\ Head(<<a>> \o s) = a /\ Tail(<<a>> \o s) = s
<1>1. <<a>> \o s \in Seq(S) /\ <<a>> \o s # <<>> /\ Head(<<a>> \o s) = a /\ Tail(<<a>> \o s) = s
    OBVIOUS
<1>2. Append(s, a) = s \o <<a>>
    BY AppendIsConcat
<1> QED
    BY <1>1, <1>2

\* The first element, and the second of two.
Leads(a, s, b, t) ==
    /\ <<a>> \o s = <<b>> \o t => a = b /\ s = t
    /\ <<a, b>> \o t = <<a>> \o (<<b>> \o t)

\* That holds of all sequences.
LEMMA ConsHolds ==
    ASSUME NEW S, NEW a \in S, NEW s \in Seq(S), NEW b \in S, NEW t \in Seq(S)
    PROVE  Leads(a, s, b, t)
<1>1. ASSUME <<a>> \o s = <<b>> \o t PROVE a = b /\ s = t
    <2>1. Head(<<a>> \o s) = a /\ Tail(<<a>> \o s) = s
        OBVIOUS
    <2>2. Head(<<b>> \o t) = b /\ Tail(<<b>> \o t) = t
        OBVIOUS
    <2> QED
        BY <1>1, <2>1, <2>2
<1>2. <<a, b>> \o t = <<a>> \o (<<b>> \o t)
    <2>1. <<a>> \in Seq(S) /\ <<b>> \in Seq(S)
        OBVIOUS
    <2>2. <<a, b>> = <<a>> \o <<b>>
        <3>1. <<a, b>> \in Seq(S) /\ Len(<<a, b>>) = 2 /\ <<a, b>>[1] = a /\ <<a, b>>[2] = b
            OBVIOUS
        <3>2. <<a>> \o <<b>> \in Seq(S) /\ Len(<<a>> \o <<b>>) = 2
              /\ (<<a>> \o <<b>>)[1] = a /\ (<<a>> \o <<b>>)[2] = b
            OBVIOUS
        <3> QED
            BY <3>1, <3>2, SeqEqual
    <2>3. Assoc(<<a>>, <<b>>, t)
        BY <2>1, AssocHolds
    <2> QED
        BY <2>2, <2>3 DEF Assoc
<1> QED
    BY <1>1, <1>2 DEF Leads

FourFirst(a, b, c, d, s) == <<a, b, c, d>> \o s = <<a>> \o (<<b>> \o (<<c>> \o (<<d>> \o s)))

\* Four elements in front are taken off one by one.
LEMMA FourFirstHolds ==
    ASSUME NEW S, NEW a \in S, NEW b \in S, NEW c \in S, NEW d \in S, NEW s \in Seq(S)
    PROVE  FourFirst(a, b, c, d, s)
<1>1. <<a, b>> \in Seq(S) /\ <<c, d>> \in Seq(S) /\ <<a, b, c, d>> \in Seq(S)
    OBVIOUS
<1>2. <<a, b, c, d>> = <<a, b>> \o <<c, d>>
    <2>1. /\ Len(<<a, b, c, d>>) = 4 /\ <<a, b, c, d>>[1] = a /\ <<a, b, c, d>>[2] = b
          /\ <<a, b, c, d>>[3] = c /\ <<a, b, c, d>>[4] = d
        OBVIOUS
    <2>2. /\ <<a, b>> \o <<c, d>> \in Seq(S) /\ Len(<<a, b>> \o <<c, d>>) = 4
          /\ (<<a, b>> \o <<c, d>>)[1] = a /\ (<<a, b>> \o <<c, d>>)[2] = b
          /\ (<<a, b>> \o <<c, d>>)[3] = c /\ (<<a, b>> \o <<c, d>>)[4] = d
        OBVIOUS
    <2>3. \A i \in 1 .. 4 : i = 1 \/ i = 2 \/ i = 3 \/ i = 4
        OBVIOUS
    <2> QED
        BY <1>1, <2>1, <2>2, <2>3, SeqEqual
<1>3. Assoc(<<a, b>>, <<c, d>>, s)
    BY <1>1, AssocHolds
<1> DEFINE t == <<c, d>> \o s
<1>4. t \in Seq(S) /\ t = <<c>> \o (<<d>> \o s)
    <2>1. Leads(c, s, d, s)
        BY ConsHolds
    <2> QED
        BY <1>1, <2>1, ConcatProperties DEF Leads
<1>5. <<a, b, c, d>> \o s = <<a, b>> \o t
    BY <1>2, <1>3 DEF Assoc
<1> HIDE DEF t
<1>6. Leads(a, t, b, t)
    BY <1>4, ConsHolds
<1> QED
    BY <1>4, <1>5, <1>6 DEF Leads, FourFirst

-----------------------------------------------------------------------------
(* The shell. *)

\* An alarm is armed or pending, never both.  While sig_quit runs the clock may
\* still go off; after it has been stopped it may be pending, until it is
\* discarded, and a handler leaves neither to the prompt.
AlarmWhere ==
    /\ timer => "alrm" \notin pend
    /\ pc \in {"prompt", "alarm", "alrm1", "alrm2", "jump"} => ~timer /\ "alrm" \notin pend
    /\ pc = "quit3" => ~timer

ShellInv == timer \in BOOLEAN /\ AlarmWhere /\ AlarmIsOwn

\* The shell without its fairness.
ShellSpec == ShellInit /\ [][ShellNext]_shellVars

\* A step of the shell, of a signal or of a command keeps the clock in its place.
LEMMA ShellInvNext == ShellInv /\ [ShellNext]_shellVars => ShellInv'
<1> SUFFICES ASSUME ShellInv, [ShellNext]_shellVars PROVE ShellInv'
    OBVIOUS
<1> USE ParamAssumption DEF ShellInv, AlarmWhere, AlarmIsOwn
<1>1. CASE ReadCommand
    BY <1>1 DEF ReadCommand, At
<1>2. CASE Eof
    BY <1>2 DEF Eof, At
<1>3. CASE Alarm
    BY <1>3 DEF Alarm, At
<1>4. CASE Fork
    BY <1>4 DEF Fork, At
<1>5. CASE Assign
    BY <1>5 DEF Assign, At
<1>6. CASE Waitpid
    BY <1>6 DEF Waitpid, At
<1>7. CASE AlarmOff
    BY <1>7 DEF AlarmOff, At
<1>8. CASE Deliver("alrm", "alrm1") \/ Deliver("quit", "quit1")
    BY <1>8 DEF Deliver, InHandler
<1>9. CASE KillChild("alrm1", "alrm2")
    BY <1>9 DEF KillChild
<1>10. CASE KillChild("quit1", "quit2")
    BY <1>10 DEF KillChild
<1>11. CASE StopClock
    BY <1>11 DEF StopClock
<1>12. CASE Discard("alrm2", "quit")
    BY <1>12 DEF Discard
<1>13. CASE Discard("quit3", "alrm")
    BY <1>13 DEF Discard
<1>14. CASE Longjmp
    BY <1>14 DEF Longjmp
<1>15. CASE Expire
    BY <1>15 DEF Expire
<1>16. CASE QuitKey
    BY <1>16 DEF QuitKey
<1>17. ASSUME NEW n \in Kids, Exec(n) \/ CommandEnds(n) PROVE ShellInv'
    BY <1>17 DEF Exec, CommandEnds
<1>18. CASE UNCHANGED shellVars
    BY <1>18 DEF shellVars
<1> QED
    BY <1>1, <1>2, <1>3, <1>4, <1>5, <1>6, <1>7, <1>8, <1>9, <1>10, <1>11, <1>12, <1>13, <1>14, <1>15, <1>16, <1>17, <1>18 DEF ShellNext, Shell

\* No alarm of an earlier command is left when the next one is read, and a
\* handler that interrupts waitpid kills the command waited for.
THEOREM AlarmsOwn == ShellSpec => []AlarmIsOwn
<1>1. ShellInit => ShellInv
    BY DEF ShellInit, ShellInv, AlarmWhere, AlarmIsOwn
<1>2. ShellInv => AlarmIsOwn
    BY DEF ShellInv
<1> QED
    BY <1>1, <1>2, ShellInvNext, PTL DEF ShellSpec

-----------------------------------------------------------------------------
(* call. *)

Cooked == {"start", "end", "stopped", "take", "put"}
Raw    == {"loop", "escape", "echo", "file", "taken", "sending", "flush"}

\* ttystate tells the terminal's mode, save_termios is the user's mode, unless
\* tty_raw has lost that, and tty_atexit knows the descriptor of a raw terminal.
TtyKnown ==
    /\ ttystate \in {"RESET", "RAW"} /\ ttyfault \in {"none", "reset", "lost"}
    /\ ttystate = "RAW" => tty = "raw" /\ ttysavefd = TRUE
    /\ ttyfault # "lost" => save_termios = "cooked" /\ (ttystate = "RESET" => tty = "cooked")
    /\ cpc \in Cooked => ttystate = "RESET" \/ ttyfault # "none"
    /\ cpc \in Raw => ttystate = "RAW" \/ ttybad
    /\ cpc \in Cooked \cup Raw \cup {"killed"}

\* call and the remote host.
CallSpec == CallInit /\ [][CallNext]_callVars

\* Every way through main, loop, doescape, take and put keeps the mode known.
LEMMA TtyKnownNext == TtyKnown /\ [CallNext]_callVars => TtyKnown'
<1> SUFFICES ASSUME TtyKnown, [CallNext]_callVars PROVE TtyKnown'
    OBVIOUS
<1> USE DEF TtyKnown, Cooked, Raw, Goto, ttyVars
<1>1. CASE Main \/ Continue \/ Refused \/ TakeCommand \/ PutCommand
    BY <1>1 DEF Main, Continue, Refused, TakeCommand, PutCommand, TtyRaw
<1>2. CASE EscapeTerminate \/ LoopEnds \/ ErrSys
    BY <1>2 DEF EscapeTerminate, LoopEnds, ErrSys, Exit, TtyReset, SetBack, NotSetBack
<1>3. CASE EscapeSuspend \/ EscapeCopy("take") \/ EscapeCopy("put")
    BY <1>3 DEF EscapeSuspend, EscapeCopy, TtyReset, SetBack, NotSetBack
<1>4. CASE CallKilled \/ EscapeBreak \/ ReadRemote \/ TakeDropped \/ Taken \/ PutChar \/ PutEof \/ PutFlush
    BY <1>4 DEF CallKilled, EscapeBreak, ReadRemote, TakeDropped, Taken, PutChar, PutEof, PutFlush
<1>5. CASE TakeEcho \/ TakeFile \/ TakeError
    <2>1. UNCHANGED ttyVars /\ cpc \in {"echo", "file"} /\ cpc' \in {"echo", "file", "taken", "loop"}
        BY <1>5 DEF TakeEcho, TakeFile, TakeError
    <2> QED
        BY <2>1
<1>6. ASSUME NEW x \in Keys, Key(x) \/ EscapeOther(x) PROVE TtyKnown'
    BY <1>6 DEF Key, EscapeOther
<1>7. CASE RemoteReads \/ LineDrops
    BY <1>7 DEF RemoteReads, LineDrops
<1>8. CASE UNCHANGED callVars
    BY <1>8 DEF callVars
<1> QED
    BY <1>1, <1>2, <1>3, <1>4, <1>5, <1>6, <1>7, <1>8 DEF CallNext

\* The user has the terminal in its own mode whenever call has ended by its own
\* doing, is stopped or reads a line, unless the terminal refused that mode, and
\* it is raw otherwise unless it refused to be.
THEOREM TtyGivenBack == CallSpec => []TtyRestored
<1>1. CallInit => TtyKnown
    BY DEF CallInit, TtyKnown, Cooked, Raw
<1>2. TtyKnown => TtyRestored
    BY DEF TtyKnown, TtyRestored, Cooked, Raw
<1> QED
    BY <1>1, <1>2, TtyKnownNext, PTL DEF CallSpec

-----------------------------------------------------------------------------
(* take. *)

\* What rem_read has not given out yet.
Pending == rem_buf \o fromRem

\* What the remote host sends for a file between the echo of take's command and
\* its end, line by line, and what take keeps of it.
Lines(f) == [i \in DOMAIN f |-> Line(f[i])]
Kept(f)  == [i \in DOMAIN f |-> IF Low(f[i]) = "CR" THEN <<>> ELSE <<Low(f[i])>>]
Rest(f)  == FlattenSeq(Lines(f)) \o <<"CTRLA", "CR", "NL", "$">>

\* The end of the echo and what is behind it.
Newline(f) == <<"CR">> \o (<<"NL">> \o Rest(f))

\* What call writes to the line.
Written == Heard \cup Keys \cup {"take", "put", "EOF", "NL"}

\* The buffers' types.
FileTypes ==
    /\ toRem \in Seq(Written)
    /\ fromRem \in Seq(Heard) /\ rem_buf \in Seq(Heard) /\ fpout \in Seq(Read7)
    /\ src \in Seq(Heard) /\ fpin \in Seq(Heard)
    /\ clean \in BOOLEAN

\* While take waits for the echo: its command is under way, or was lost, or its
\* echo and the file are pending.
EchoPending ==
    \/ toRem = <<"take">> /\ rem_buf = <<>> /\ fromRem = <<>>
    \/ toRem = <<>> /\ Pending = <<>>
    \/ toRem = <<>> /\ Pending \in {<<"cat">> \o (<<"CTRLA">> \o Newline(src)), <<"CTRLA">> \o Newline(src),
                                    Newline(src), <<"NL">> \o Rest(src)}

\* While take copies: j characters of the file are done, and of a newline perhaps
\* the return before it.
Copied(f, j, p, out) ==
    /\ out = Part(Kept(f), j)
    /\ \/ Rest(f) = Part(Lines(f), j) \o p
       \/ j < Len(f) /\ f[j + 1] = "NL" /\ Rest(f) = Part(Lines(f), j) \o (<<"CR">> \o p)

\* No character of the file is taken for the end.
NoEnd(f) == \A i \in DOMAIN f : Low(f[i]) \notin {"NUL", "CTRLA"}

\* How far take is, when nothing else was on its way.
TakeKnown ==
    clean /\ NoEnd(src) =>
        /\ cpc = "echo" => EchoPending /\ fpout = <<>>
        /\ cpc = "file" => toRem = <<>> /\ \E j \in 0 .. Len(src) : Copied(src, j, Pending, fpout)
        /\ cpc = "taken" => fpout = FlattenSeq(Kept(src))

\* The types are needed for every step.
TakeInv == FileTypes /\ TakeKnown

-----------------------------------------------------------------------------
\* The signs that the remote host adds.
LEMMA Signs ==
    /\ {"a", "~", "NL", "CR", "cat", "CTRLA", "$"} \subseteq Heard /\ <<"CTRLA", "CR", "NL", "$">> \in Seq(Heard)
    /\ Low("NL") = "NL" /\ Low("CR") = "CR" /\ Low("cat") = "cat" /\ Low("CTRLA") = "CTRLA"
    /\ <<"CR", "NL", "$">> \in Seq(Heard) /\ <<"cat", "CTRLA", "CR", "NL">> \in Seq(Heard)
    /\ \A c \in Heard : Line(c) \in Seq(Heard) /\ <<c>> \in Seq(Heard)
<1>1. {"a", "~", "NL", "CR", "cat", "CTRLA", "$"} \subseteq Heard
    BY DEF Heard, OwnChars
<1>2. /\ <<"CTRLA", "CR", "NL", "$">> \in Seq(Heard)
      /\ <<"CR", "NL", "$">> \in Seq(Heard) /\ <<"cat", "CTRLA", "CR", "NL">> \in Seq(Heard)
      /\ <<"CR", "NL">> \in Seq(Heard)
    BY <1>1, Tuples
<1>3. \A c \in Heard : <<c>> \in Seq(Heard)
    BY Tuples
<1>4. Low("NL") = "NL" /\ Low("CR") = "CR" /\ Low("cat") = "cat" /\ Low("CTRLA") = "CTRLA"
    BY HighAssumption DEF Low, OwnChars
<1>5. \A c \in Heard : Line(c) \in Seq(Heard)
    BY <1>2, <1>3 DEF Line
<1> QED
    BY <1>1, <1>2, <1>3, <1>4, <1>5

\* rem_read gives out the first of what is pending, and leaves the rest pending.
LEMMA NextByteTypes ==
    ASSUME FileTypes, NEW c, NextByte(c)
    PROVE  /\ c \in Heard /\ fromRem' \in Seq(Heard) /\ rem_buf' \in Seq(Heard)
           /\ Pending \in Seq(Heard) /\ Pending' \in Seq(Heard) /\ Pending = <<c>> \o Pending'
<1>1. fromRem \in Seq(Heard) /\ rem_buf \in Seq(Heard)
    BY DEF FileTypes
<1>2. \A a, b, d \in Seq(Heard) : (a \o b) \o d = a \o (b \o d)
    BY ConcatAssociative
<1>3. CASE rem_buf # <<>> /\ c = Head(rem_buf) /\ rem_buf' = Tail(rem_buf) /\ UNCHANGED fromRem
    <2>1. c \in Heard /\ rem_buf' \in Seq(Heard) /\ <<c>> \in Seq(Heard) /\ fromRem' = fromRem
        BY <1>1, <1>3, HeadTailProperties
    <2>2. rem_buf = <<c>> \o rem_buf'
        BY <1>1, <1>3, <2>1
    <2>3. rem_buf \o fromRem = <<c>> \o (rem_buf' \o fromRem)
        BY <1>1, <1>2, <2>1, <2>2
    <2> QED
        BY <1>1, <2>1, <2>3, ConcatProperties DEF Pending
<1>4. ASSUME rem_buf = <<>>, fromRem # <<>>, c = Head(fromRem), NEW n \in 1 .. Len(fromRem),
             rem_buf' = SubSeq(fromRem, 2, n), fromRem' = SubSeq(fromRem, n + 1, Len(fromRem))
      PROVE  /\ c \in Heard /\ fromRem' \in Seq(Heard) /\ rem_buf' \in Seq(Heard)
             /\ Pending = <<c>> \o Pending'
    <2>1. Len(fromRem) \in Nat \ {0} /\ \A i \in 1 .. Len(fromRem) : fromRem[i] \in Heard
        BY <1>1, <1>4, EmptySeq
    <2>2. rem_buf' \in Seq(Heard) /\ fromRem' \in Seq(Heard)
        BY <1>4, <2>1, SubSeqProperties
    <2>3. rem_buf' \o fromRem' = SubSeq(fromRem, 2, Len(fromRem))
        <3>1. 2 \in 1 .. Len(fromRem) + 1 /\ n \in 2 - 1 .. Len(fromRem) /\ Len(fromRem) \in n .. Len(fromRem)
            BY <2>1
        <3> QED
            BY <1>1, <1>4, <3>1, ConcatAdjacentSubSeq
    <2>4. SubSeq(fromRem, 2, Len(fromRem)) = Tail(fromRem)
        BY <1>1, <1>4, TailIsSubSeq
    <2>5. c \in Heard /\ fromRem = <<c>> \o Tail(fromRem)
        BY <1>1, <1>4, HeadTailProperties
    <2>6. rem_buf \o fromRem = fromRem
        BY <1>1, <1>4, ConcatEmptySeq
    <2> QED
        BY <2>2, <2>3, <2>4, <2>5, <2>6 DEF Pending
<1>5. c \in Heard /\ fromRem' \in Seq(Heard) /\ rem_buf' \in Seq(Heard) /\ Pending = <<c>> \o Pending'
    <2>1. CASE rem_buf # <<>> /\ c = Head(rem_buf) /\ rem_buf' = Tail(rem_buf) /\ UNCHANGED fromRem
        BY <1>3, <2>1
    <2>2. CASE \E n \in 1 .. Len(fromRem) :
                  /\ rem_buf = <<>> /\ fromRem # <<>> /\ c = Head(fromRem)
                  /\ rem_buf' = SubSeq(fromRem, 2, n) /\ fromRem' = SubSeq(fromRem, n + 1, Len(fromRem))
        BY <1>4, <2>2
    <2> QED
        BY <2>1, <2>2 DEF NextByte
<1> QED
    BY <1>1, <1>5, ConcatProperties DEF Pending

\* The types of what is sent and kept, and its parts.
LEMMA FileParts ==
    ASSUME NEW f \in Seq(Heard)
    PROVE  /\ Lines(f) \in Seq(Seq(Heard)) /\ Len(Lines(f)) = Len(f)
           /\ Kept(f) \in Seq(Seq(Read7)) /\ Len(Kept(f)) = Len(f)
           /\ Rest(f) \in Seq(Heard) /\ Part(Kept(f), Len(f)) = FlattenSeq(Kept(f))
           /\ Part(Kept(f), 0) = <<>> /\ Part(Lines(f), 0) = <<>>
           /\ \A j \in 0 .. Len(f) : Part(Lines(f), j) \in Seq(Heard) /\ Part(Kept(f), j) \in Seq(Read7)
           /\ \A j \in 0 .. Len(f) - 1 :
                 /\ Part(Lines(f), j + 1) = Part(Lines(f), j) \o Line(f[j + 1])
                 /\ Part(Kept(f), j + 1) = Part(Kept(f), j) \o IF Low(f[j + 1]) = "CR" THEN <<>> ELSE <<Low(f[j + 1])>>
<1>1. Len(f) \in Nat /\ DOMAIN f = 1 .. Len(f) /\ \A i \in 1 .. Len(f) : f[i] \in Heard
    BY LenProperties
<1>2. Lines(f) \in Seq(Seq(Heard)) /\ Len(Lines(f)) = Len(f) /\ \A i \in 1 .. Len(f) : Lines(f)[i] = Line(f[i])
    <2>1. \A i \in 1 .. Len(f) : Line(f[i]) \in Seq(Heard)
        BY <1>1, Signs
    <2> QED
        BY <1>1, <2>1 DEF Lines
<1>3. Kept(f) \in Seq(Seq(Read7)) /\ Len(Kept(f)) = Len(f)
      /\ \A i \in 1 .. Len(f) : Kept(f)[i] = IF Low(f[i]) = "CR" THEN <<>> ELSE <<Low(f[i])>>
    <2>1. \A i \in 1 .. Len(f) : (IF Low(f[i]) = "CR" THEN <<>> ELSE <<Low(f[i])>>) \in Seq(Read7)
        <3>1. \A i \in 1 .. Len(f) : Low(f[i]) \in Read7
            BY <1>1 DEF Read7
        <3>2. \A c \in Read7 : <<c>> \in Seq(Read7)
            BY Tuples
        <3> QED
            BY <3>1, <3>2, EmptySeq
    <2> QED
        BY <1>1, <2>1 DEF Kept
<1>4. /\ Part(Lines(f), 0) = <<>>
      /\ \A j \in 0 .. Len(f) : Part(Lines(f), j) \in Seq(Heard)
      /\ \A j \in 0 .. Len(f) - 1 : Part(Lines(f), j + 1) = Part(Lines(f), j) \o Lines(f)[j + 1]
    BY <1>2, FlattenParts DEF Part
<1>5. /\ Part(Kept(f), 0) = <<>> /\ Part(Kept(f), Len(f)) = FlattenSeq(Kept(f))
      /\ \A j \in 0 .. Len(f) : Part(Kept(f), j) \in Seq(Read7)
      /\ \A j \in 0 .. Len(f) - 1 : Part(Kept(f), j + 1) = Part(Kept(f), j) \o Kept(f)[j + 1]
    BY <1>3, FlattenParts DEF Part
<1>6. Rest(f) \in Seq(Heard)
    <2>1. FlattenSeq(Lines(f)) \in Seq(Heard)
        BY <1>2, FlattenAppend, EmptySeq
    <2> QED
        BY <2>1, Signs, ConcatProperties DEF Rest
<1>7. \A j \in 0 .. Len(f) - 1 : j + 1 \in 1 .. Len(f)
    BY <1>1
<1> QED
    BY <1>2, <1>3, <1>4, <1>5, <1>6, <1>7

\* What is pending when j characters are done.
LEMMA PendingAt ==
    ASSUME NEW f \in Seq(Heard), NEW j \in 0 .. Len(f), NEW p \in Seq(Heard),
           Rest(f) = Part(Lines(f), j) \o p
    PROVE  /\ j = Len(f) => p = <<"CTRLA", "CR", "NL", "$">>
           /\ j < Len(f) => \E r \in Seq(Heard) : p = Line(f[j + 1]) \o r
<1> DEFINE s == Lines(f)
           end == <<"CTRLA", "CR", "NL", "$">>
<1>1. /\ s \in Seq(Seq(Heard)) /\ Len(s) = Len(f) /\ end \in Seq(Heard) /\ Len(f) \in Nat
      /\ FlattenSeq(s) \o end = Part(s, j) \o p
    <2>1. end \in Seq(Heard) /\ Len(f) \in Nat
        BY Signs, LenProperties
    <2> QED
        BY <2>1, FileParts DEF Rest
<1> HIDE DEF end, s
<1>2. /\ FlattenSeq(SubSeq(s, 1, Len(s))) = FlattenSeq(s)
      /\ \A i \in 0 .. Len(s) : FlattenSeq(SubSeq(s, 1, i)) \in Seq(Heard)
      /\ \A i \in 0 .. Len(s) : \E r \in Seq(Heard) : FlattenSeq(s) = FlattenSeq(SubSeq(s, 1, i)) \o r
    BY <1>1, FlattenParts
<1>3. Part(s, j) \in Seq(Heard)
    BY <1>1, <1>2 DEF Part
<1>4. ASSUME NEW r \in Seq(Heard), Part(s, j) \o r = Part(s, j) \o p PROVE r = p
    BY <1>3, <1>4, ConcatCancel
<1>5. CASE j = Len(f)
    <2>1. Part(s, j) = FlattenSeq(s)
        BY <1>1, <1>2, <1>5 DEF Part
    <2>2. end = p
        BY <1>1, <1>4, <2>1
    <2> QED
        BY <1>1, <1>5, <2>2 DEF end
<1>6. CASE j < Len(f)
    <2>1. j + 1 \in 0 .. Len(s) /\ j \in 0 .. Len(f) - 1
        BY <1>1, <1>6
    <2>2. PICK r \in Seq(Heard) : FlattenSeq(s) = Part(s, j + 1) \o r
        BY <1>2, <2>1 DEF Part
    <2> DEFINE l == Line(f[j + 1])
    <2>3. Part(s, j + 1) = Part(s, j) \o l /\ Part(s, j + 1) \in Seq(Heard)
        BY <1>1, <2>1, FileParts DEF s
    <2>4. l \in Seq(Heard)
        <3>1. j + 1 \in 1 .. Len(f)
            BY <1>1, <1>6
        <3>2. f[j + 1] \in Heard
            BY <3>1, ElementOfSeq
        <3> QED
            BY <3>2, Signs
    <2> HIDE DEF l
    <2>5. ((Part(s, j) \o l) \o r) \o end = Part(s, j) \o p
        BY <1>1, <2>2, <2>3
    <2>6. Regrouped(Heard, Part(s, j), l, r, end, p)
        BY <1>1, <1>3, <2>4, Regroup
    <2>7. \E q \in Seq(Heard) : p = Line(f[j + 1]) \o q
        BY <2>5, <2>6 DEF l, Regrouped
    <2>8. j # Len(f)
        BY <1>1, <1>6
    <2> QED
        BY <2>7, <2>8
<1> QED
    BY <1>1, <1>5, <1>6

\* A character more.
LEMMA CopyNext ==
    ASSUME NEW f \in Seq(Heard), NoEnd(f), NEW j \in 0 .. Len(f), NEW out, NEW c \in Heard, NEW q \in Seq(Heard),
           Copied(f, j, <<c>> \o q, out)
    PROVE  /\ out \in Seq(Read7)
           /\ Low(c) \in {"NUL", "CTRLA"} => out = FlattenSeq(Kept(f))
           /\ Low(c) \notin {"NUL", "CTRLA"} =>
                 \E i \in 0 .. Len(f) : Copied(f, i, q, IF Low(c) = "CR" THEN out ELSE Append(out, Low(c)))
<1> DEFINE p == <<c>> \o q
           lines == Part(Lines(f), j)
           new == IF Low(c) = "CR" THEN out ELSE Append(out, Low(c))
<1>1. Len(f) \in Nat /\ p \in Seq(Heard) /\ lines \in Seq(Heard) /\ out \in Seq(Read7) /\ out = Part(Kept(f), j)
    BY FileParts, LenProperties, ConsLaws DEF Copied
<1>2. {"NL", "CR", "CTRLA"} \subseteq Heard /\ Low("NL") = "NL" /\ Low("CR") = "CR" /\ Low("CTRLA") = "CTRLA"
    BY Signs
<1>3. ASSUME j = Len(f), Rest(f) = lines \o p PROVE Low(c) = "CTRLA" /\ out = FlattenSeq(Kept(f))
    <2>1. <<c>> \o q = <<"CTRLA", "CR", "NL", "$">>
        BY <1>1, <1>3, PendingAt
    <2>2. (<<c>> \o q)[1] = c /\ <<"CTRLA", "CR", "NL", "$">>[1] = "CTRLA"
        OBVIOUS
    <2>3. c = "CTRLA"
        BY <2>1, <2>2
    <2> QED
        BY <1>1, <1>2, <1>3, <2>3, FileParts
<1>4. ASSUME j < Len(f)
      PROVE  /\ f[j + 1] \in Heard /\ Low(f[j + 1]) \notin {"NUL", "CTRLA"} /\ j + 1 \in 0 .. Len(f) /\ j \in 0 .. Len(f) - 1
             /\ Part(Lines(f), j + 1) = lines \o Line(f[j + 1])
             /\ Part(Kept(f), j + 1) = out \o IF Low(f[j + 1]) = "CR" THEN <<>> ELSE <<Low(f[j + 1])>>
    <2>1. j + 1 \in 1 .. Len(f) /\ j + 1 \in 0 .. Len(f) /\ j \in 0 .. Len(f) - 1 /\ DOMAIN f = 1 .. Len(f)
        BY <1>1, <1>4
    <2>2. f[j + 1] \in Heard /\ Low(f[j + 1]) \notin {"NUL", "CTRLA"}
        BY <2>1, ElementOfSeq DEF NoEnd
    <2> QED
        BY <1>1, <2>1, <2>2, FileParts
<1>5. ASSUME j < Len(f), Rest(f) = lines \o p, f[j + 1] # "NL"
      PROVE  Low(c) \notin {"NUL", "CTRLA"} /\ j + 1 \in 0 .. Len(f) /\ Copied(f, j + 1, q, new)
    <2>1. PICK r \in Seq(Heard) : <<c>> \o q = Line(f[j + 1]) \o r
        BY <1>1, <1>5, PendingAt
    <2>2. Leads(c, q, f[j + 1], r)
        BY <1>4, <1>5, ConsHolds
    <2>3. c = f[j + 1] /\ Line(c) = <<c>>
        BY <1>5, <2>1, <2>2 DEF Leads, Line
    <2>4. Assoc(lines, <<c>>, q)
        BY <1>1, Signs, AssocHolds
    <2>5. Rest(f) = Part(Lines(f), j + 1) \o q
        BY <1>4, <1>5, <2>3, <2>4 DEF Assoc
    <2>6. new = Part(Kept(f), j + 1)
        <3>1. out \o <<>> = out /\ Append(out, Low(c)) = out \o <<Low(c)>>
            BY <1>1, ConcatEmptySeq, AppendIsConcat
        <3> QED
            BY <1>4, <1>5, <2>3, <3>1
    <2> QED
        BY <1>4, <1>5, <2>3, <2>5, <2>6 DEF Copied
<1>6. ASSUME j < Len(f), f[j + 1] = "NL", Rest(f) = lines \o p
      PROVE  Low(c) \notin {"NUL", "CTRLA"} /\ Copied(f, j, q, new)
    <2>1. PICK r \in Seq(Heard) : <<c>> \o q = <<"CR", "NL">> \o r
        <3>1. \E r \in Seq(Heard) : <<c>> \o q = Line(f[j + 1]) \o r
            BY <1>1, <1>6, PendingAt
        <3> QED
            BY <1>6, <3>1 DEF Line
    <2>2. Leads("CR", <<"NL">> \o r, "NL", r) /\ <<"NL">> \o r \in Seq(Heard)
        BY <1>2, ConsHolds, ConsLaws
    <2>3. Leads(c, q, "CR", <<"NL">> \o r)
        BY <1>2, <2>2, ConsHolds
    <2>4. c = "CR"
        BY <2>1, <2>2, <2>3 DEF Leads
    <2>5. Rest(f) = lines \o (<<"CR">> \o q) /\ Low(c) = "CR" /\ new = out
        BY <1>2, <1>6, <2>4
    <2> QED
        BY <1>1, <1>6, <2>5 DEF Copied
<1>7. ASSUME j < Len(f), f[j + 1] = "NL", Rest(f) = lines \o (<<"CR">> \o p)
      PROVE  Low(c) \notin {"NUL", "CTRLA"} /\ j + 1 \in 0 .. Len(f) /\ Copied(f, j + 1, q, new)
    <2>1. <<"CR">> \o p \in Seq(Heard)
        BY <1>1, <1>2, ConsLaws
    <2>2. PICK r \in Seq(Heard) : <<"CR">> \o p = <<"CR", "NL">> \o r
        <3>1. \E r \in Seq(Heard) : <<"CR">> \o p = Line(f[j + 1]) \o r
            BY <1>1, <1>7, <2>1, PendingAt
        <3> QED
            BY <1>7, <3>1 DEF Line
    <2>3. Leads("CR", <<"NL">> \o r, "NL", r) /\ <<"NL">> \o r \in Seq(Heard)
        BY <1>2, ConsHolds, ConsLaws
    <2>4. Leads("CR", p, "CR", <<"NL">> \o r)
        BY <1>1, <1>2, <2>3, ConsHolds
    <2>5. p = <<"NL">> \o r
        BY <2>2, <2>3, <2>4 DEF Leads
    <2>6. Leads(c, q, "NL", r)
        BY <1>2, ConsHolds
    <2>7. c = "NL" /\ q = r
        BY <2>5, <2>6 DEF Leads
    <2>8. <<"CR", "NL">> \in Seq(Heard)
        BY <1>2, Tuples
    <2>9. Assoc(lines, <<"CR", "NL">>, q)
        BY <1>1, <2>8, AssocHolds
    <2>10. Rest(f) = Part(Lines(f), j + 1) \o q
        <3>1. Rest(f) = lines \o (<<"CR", "NL">> \o q)
            BY <1>7, <2>2, <2>7
        <3> QED
            BY <1>4, <1>7, <2>9, <3>1 DEF Assoc, Line
    <2>11. new = Part(Kept(f), j + 1)
        <3>1. Append(out, "NL") = out \o <<"NL">>
            BY <1>1, AppendIsConcat
        <3> QED
            BY <1>2, <1>4, <1>7, <2>7, <3>1
    <2> QED
        BY <1>2, <1>4, <1>7, <2>7, <2>10, <2>11 DEF Copied
<1>8. \/ j = Len(f) /\ Rest(f) = lines \o p
      \/ j < Len(f) /\ Rest(f) = lines \o p
      \/ j < Len(f) /\ f[j + 1] = "NL" /\ Rest(f) = lines \o (<<"CR">> \o p)
    <2>1. j = Len(f) \/ j < Len(f)
        BY <1>1
    <2> QED
        BY <2>1 DEF Copied
<1> HIDE DEF new
<1>9. Low(c) \in {"NUL", "CTRLA"} => out = FlattenSeq(Kept(f))
    BY <1>3, <1>5, <1>6, <1>7, <1>8
<1>10. Low(c) \notin {"NUL", "CTRLA"} => \E i \in 0 .. Len(f) : Copied(f, i, q, new)
    BY <1>3, <1>5, <1>6, <1>7, <1>8
<1> QED
    BY <1>1, <1>9, <1>10 DEF new

\* What the remote host sends.
LEMMA OutputIs ==
    ASSUME FileTypes, NEW x
    PROVE  Output(x) \in Seq(Heard) /\ (x = "take" => Output(x) = <<"cat">> \o (<<"CTRLA">> \o Newline(src)))
<1>1. src \in Seq(Heard)
    BY DEF FileTypes
<1> DEFINE b == <<"cat", "CTRLA", "CR", "NL">>
           m == FlattenSeq(Lines(src))
           e == <<"CTRLA", "CR", "NL", "$">>
<1>2. b \in Seq(Heard) /\ m \in Seq(Heard) /\ e \in Seq(Heard) /\ <<"CR", "NL", "$">> \in Seq(Heard)
    <2>1. Lines(src) \in Seq(Seq(Heard))
        BY <1>1, FileParts
    <2>2. m \in Seq(Heard)
        BY <2>1, FlattenAppend, EmptySeq
    <2> QED
        BY <2>2, Signs
<1>3. Assoc(b, m, e)
    BY <1>2, AssocHolds
<1>4. m \o e = Rest(src) /\ Rest(src) \in Seq(Heard)
    BY <1>1, FileParts DEF Rest
<1>5. x = "take" => Output(x) = (b \o m) \o e
    BY DEF Output, Lines
<1>6. b \o Rest(src) = <<"cat">> \o (<<"CTRLA">> \o Newline(src))
    <2>1. "cat" \in Heard /\ "CTRLA" \in Heard /\ "CR" \in Heard /\ "NL" \in Heard
        BY Signs
    <2>2. FourFirst("cat", "CTRLA", "CR", "NL", Rest(src))
        BY <1>4, <2>1, FourFirstHolds
    <2> QED
        BY <2>2 DEF FourFirst, Newline
<1>7. x = "take" => Output(x) = b \o Rest(src)
    BY <1>3, <1>4, <1>5 DEF Assoc
<1>8. b \o Rest(src) \in Seq(Heard)
    BY <1>2, <1>4, ConcatProperties
<1> HIDE DEF b, m, e
<1>9. CASE x = "take"
    BY <1>6, <1>7, <1>8, <1>9
<1>10. CASE x # "take"
    <2>1. <<>> \in Seq(Heard)
        BY EmptySeq
    <2>2. x \in {"a", "~"} => <<x>> \in Seq(Heard)
        BY Signs
    <2>3. Output(x) \in {<<"CR", "NL", "$">>, <<>>} \/ (x \in {"a", "~"} /\ Output(x) = <<x>>)
        BY <1>10 DEF Output
    <2> QED
        BY <1>2, <1>10, <2>1, <2>2, <2>3
<1> QED
    BY <1>9, <1>10

\* Every step of call and of the remote host keeps the buffers' types.
LEMMA FileTypesNext ==
    ASSUME FileTypes, [CallNext]_callVars
    PROVE  FileTypes'
<1> USE DEF FileTypes
<1>1. RemFiles \cup LocFiles \subseteq Seq(Heard) /\ Heard \subseteq Written /\ Keys \subseteq Written
      /\ {"take", "put", "EOF", "NL"} \subseteq Written
    <2>1. FileChars \subseteq Heard
        BY DEF Heard
    <2> QED
        BY <2>1, FilesAssumption, SeqMonotonic DEF Written
<1>2. <<>> \in Seq(Heard) /\ <<>> \in Seq(Read7)
    BY EmptySeq
<1>3. \A x \in Written : Append(toRem, x) \in Seq(Written)
    BY AppendProperties
<1>4. CASE UNCHANGED lineVars /\ UNCHANGED fileVars
    BY <1>4 DEF lineVars, fileVars
<1>5. CASE Main \/ EscapeTerminate \/ EscapeSuspend \/ EscapeBreak \/ Continue \/ LoopEnds \/ CallKilled
           \/ EscapeCopy("take") \/ EscapeCopy("put") \/ Refused \/ ErrSys
    <2>1. UNCHANGED lineVars /\ UNCHANGED fileVars
        BY <1>5 DEF Main, EscapeTerminate, EscapeSuspend, EscapeBreak, Continue, LoopEnds, CallKilled, EscapeCopy, Refused, ErrSys
    <2> QED
        BY <1>4, <2>1
<1>6. ASSUME NEW x \in Keys, Key(x) \/ EscapeOther(x) PROVE FileTypes'
    <2>1. UNCHANGED fileVars /\ (UNCHANGED lineVars \/ Send(x))
        BY <1>6 DEF Key, EscapeOther
    <2> QED
        BY <1>1, <1>3, <1>4, <2>1 DEF Send, fileVars
<1>7. CASE ReadRemote
    BY <1>2, <1>7 DEF ReadRemote, fileVars
<1>8. CASE TakeCommand
    BY <1>1, <1>2, <1>3, <1>8 DEF TakeCommand
<1>9. CASE TakeEcho \/ TakeFile \/ TakeError
    <2>1. PICK c \in Read7 : /\ RemRead(c) /\ toRem' \in {toRem, Append(toRem, "NL")}
                             /\ fpout' \in {fpout, Append(fpout, c)} /\ UNCHANGED <<src, clean, fpin>>
        BY <1>9 DEF TakeEcho, TakeFile, TakeError
    <2>2. fromRem' \in Seq(Heard) /\ rem_buf' \in Seq(Heard)
        BY <2>1, NextByteTypes DEF RemRead
    <2>3. Append(fpout, c) \in Seq(Read7)
        BY AppendProperties
    <2> QED
        BY <1>1, <1>3, <2>1, <2>2, <2>3
<1>10. CASE TakeDropped \/ Taken
    BY <1>1, <1>3, <1>10 DEF TakeDropped, Taken, fileVars
<1>11. CASE PutCommand
    BY <1>1, <1>3, <1>11 DEF PutCommand
<1>12. CASE PutChar
    <2>1. Head(fpin) \in Written /\ Tail(fpin) \in Seq(Heard)
        BY <1>1, <1>12, HeadTailProperties DEF PutChar
    <2> QED
        BY <1>3, <1>12, <2>1 DEF PutChar
<1>13. CASE PutEof \/ PutFlush
    BY <1>1, <1>2, <1>3, <1>13 DEF PutEof, PutFlush, fileVars
<1>14. CASE RemoteReads
    <2>1. Tail(toRem) \in Seq(Written)
        BY <1>14, HeadTailProperties DEF RemoteReads
    <2>2. fromRem \o Output(Head(toRem)) \in Seq(Heard)
        BY OutputIs, ConcatProperties
    <2> QED
        BY <1>14, <2>1, <2>2 DEF RemoteReads, fileVars
<1>15. CASE LineDrops \/ UNCHANGED callVars
    BY <1>15 DEF LineDrops, callVars, lineVars, fileVars
<1> QED
    BY <1>5, <1>6, <1>7, <1>8, <1>9, <1>10, <1>11, <1>12, <1>13, <1>14, <1>15 DEF CallNext

\* TakeKnown depends on these alone.
LEMMA TakeKnownSame ==
    ASSUME TakeKnown, cpc' \notin {"echo", "file", "taken"} \/ cpc' = cpc,
           UNCHANGED <<toRem, fromRem, rem_buf, fpout, src, clean>>
    PROVE  TakeKnown'
<1>1. Pending' = Pending
    BY DEF Pending
<1> QED
    BY <1>1 DEF TakeKnown, EchoPending

\* Every step keeps take on its way through the file.
LEMMA TakeKnownNext ==
    ASSUME TakeInv, [CallNext]_callVars
    PROVE  TakeKnown'
<1> USE DEF TakeInv
<1> DEFINE Away == cpc' \notin {"echo", "file", "taken"}
<1>1. CASE Away
    BY <1>1 DEF TakeKnown
<1>2. CASE Main \/ EscapeTerminate \/ EscapeSuspend \/ EscapeBreak \/ Continue \/ LoopEnds \/ CallKilled
           \/ EscapeCopy("take") \/ EscapeCopy("put") \/ Refused \/ ErrSys
           \/ TakeDropped \/ TakeError \/ Taken \/ PutCommand \/ PutEof \/ PutFlush
    <2>1. cpc' \in {"loop", "end", "killed", "stopped", "take", "put", "sending", "flush"}
        BY <1>2 DEF Main, EscapeTerminate, EscapeSuspend, EscapeBreak, Continue, LoopEnds, CallKilled, EscapeCopy, Refused, ErrSys,
                    TakeDropped, TakeError, Taken, PutCommand, PutEof, PutFlush, Exit, Goto
    <2> QED
        BY <1>1, <2>1
<1>3. ASSUME NEW x \in Keys, Key(x) \/ EscapeOther(x) PROVE TakeKnown'
    <2>1. cpc' \in {"loop", "escape"}
        BY <1>3 DEF Key, EscapeOther, Goto
    <2> QED
        BY <1>1, <2>1
<1>4. CASE ReadRemote \/ PutChar
    <2>1. cpc' \in {"loop", "sending"}
        BY <1>4 DEF ReadRemote, PutChar
    <2> QED
        BY <1>1, <2>1
<1>5. CASE TakeCommand
    <2> SUFFICES ASSUME clean' PROVE TakeKnown'
        BY DEF TakeKnown
    <2>1. cpc' = "echo" /\ toRem' = Append(toRem, "take") /\ rem_buf' = <<>> /\ fpout' = <<>>
          /\ toRem = <<>> /\ fromRem = <<>> /\ fromRem' = fromRem
        BY <1>5 DEF TakeCommand, Goto
    <2>2. toRem' = <<"take">>
        BY <2>1
    <2>3. EchoPending'
        BY <2>1, <2>2 DEF EchoPending
    <2> QED
        BY <2>1, <2>3 DEF TakeKnown
<1>6. CASE TakeEcho
    <2>1. PICK c \in Heard : /\ NextByte(c) /\ cpc = "echo" /\ UNCHANGED <<toRem, fpout, src, clean>>
                             /\ cpc' = CASE Low(c) = "NUL" -> "loop" [] Low(c) = "NL" -> "file" [] OTHER -> "echo"
        BY <1>6 DEF TakeEcho, RemRead, Goto
    <2> SUFFICES ASSUME clean, NoEnd(src) PROVE TakeKnown'
        BY <2>1 DEF TakeKnown, NoEnd
    <2>2. EchoPending /\ fpout = <<>>
        BY <2>1 DEF TakeKnown
    <2>3. Pending \in Seq(Heard) /\ Pending' \in Seq(Heard) /\ Pending = <<c>> \o Pending'
        BY <2>1, NextByteTypes
    <2>4. Pending # <<>> /\ ~(rem_buf = <<>> /\ fromRem = <<>>)
        <3>1. <<c>> \o Pending' # <<>>
            BY <2>3, ConsLaws
        <3> QED
            BY <2>1, <2>3, <3>1 DEF NextByte
    <2>5. /\ src \in Seq(Heard) /\ Rest(src) \in Seq(Heard) /\ {"NL", "CR", "CTRLA", "cat"} \subseteq Heard
          /\ Low("NL") = "NL" /\ Low("CR") = "CR" /\ Low("cat") = "cat" /\ Low("CTRLA") = "CTRLA"
        BY FileParts, Signs DEF FileTypes
    <2>6. <<"NL">> \o Rest(src) \in Seq(Heard)
        BY <2>5, ConsLaws
    <2>7. Newline(src) \in Seq(Heard)
        BY <2>5, <2>6, ConsLaws DEF Newline
    <2>8. <<"CTRLA">> \o Newline(src) \in Seq(Heard)
        BY <2>5, <2>7, ConsLaws
    <2>9. \A d \in Heard, t \in Seq(Heard) : Pending = <<d>> \o t => c = d /\ Pending' = t
        <3> SUFFICES ASSUME NEW d \in Heard, NEW t \in Seq(Heard), Pending = <<d>> \o t
                     PROVE  c = d /\ Pending' = t
            OBVIOUS
        <3>1. Leads(c, Pending', d, t)
            BY <2>3, ConsHolds
        <3> QED
            BY <2>3, <3>1 DEF Leads
    <2>10. toRem = <<>> /\ \/ c = "NL" /\ Pending' = Rest(src)
                           \/ c \in {"CR", "cat", "CTRLA"} /\ Pending' \in {<<"CTRLA">> \o Newline(src), Newline(src), <<"NL">> \o Rest(src)}
        <3>1. CASE Pending = <<"cat">> \o (<<"CTRLA">> \o Newline(src))
            BY <2>2, <2>4, <2>5, <2>8, <2>9, <3>1 DEF EchoPending
        <3>2. CASE Pending = <<"CTRLA">> \o Newline(src)
            BY <2>2, <2>4, <2>5, <2>7, <2>9, <3>2 DEF EchoPending
        <3>3. CASE Pending = Newline(src)
            <4>1. c = "CR" /\ Pending' = <<"NL">> \o Rest(src)
                BY <2>5, <2>6, <2>9, <3>3 DEF Newline
            <4> QED
                BY <2>2, <2>4, <4>1 DEF EchoPending
        <3>4. CASE Pending = <<"NL">> \o Rest(src)
            BY <2>2, <2>4, <2>5, <2>9, <3>4 DEF EchoPending
        <3> QED
            BY <2>2, <2>4, <3>1, <3>2, <3>3, <3>4 DEF EchoPending
    <2>11. CASE c = "NL"
        <3>1. cpc' = "file" /\ toRem' = <<>> /\ fpout' = <<>> /\ src' = src /\ Pending' = Rest(src)
            BY <2>1, <2>2, <2>5, <2>10, <2>11
        <3>2. Copied(src, 0, Rest(src), <<>>)
            BY <2>5, FileParts, ConcatEmptySeq DEF Copied
        <3>3. 0 \in 0 .. Len(src)
            BY <2>5, LenProperties
        <3>4. \E j \in 0 .. Len(src') : Copied(src', j, Pending', fpout')
            BY <3>1, <3>2, <3>3
        <3> QED
            BY <3>1, <3>4 DEF TakeKnown
    <2>12. CASE c \in {"CR", "cat", "CTRLA"}
        <3>1. cpc' = "echo" /\ toRem' = <<>> /\ fpout' = <<>> /\ src' = src
              /\ Pending' \in {<<"CTRLA">> \o Newline(src), Newline(src), <<"NL">> \o Rest(src)}
            BY <2>1, <2>2, <2>5, <2>10, <2>12
        <3>2. EchoPending'
            BY <3>1 DEF EchoPending
        <3> QED
            BY <3>1, <3>2 DEF TakeKnown
    <2> QED
        BY <2>10, <2>11, <2>12
<1>7. CASE TakeFile
    <2>1. PICK c \in Heard : /\ NextByte(c) /\ cpc' = (IF Low(c) \in {"NUL", "CTRLA"} THEN "taken" ELSE "file")
                             /\ fpout' = (IF Low(c) \in {"NUL", "CTRLA", "CR"} THEN fpout
                                          ELSE Append(fpout, Low(c)))
                             /\ cpc = "file" /\ UNCHANGED <<toRem, src, clean>>
        BY <1>7 DEF TakeFile, RemRead, Goto
    <2> SUFFICES ASSUME clean, NoEnd(src) PROVE TakeKnown'
        BY <2>1 DEF TakeKnown, NoEnd
    <2>2. PICK j \in 0 .. Len(src) : Copied(src, j, Pending, fpout)
        BY <2>1 DEF TakeKnown
    <2>3. toRem = <<>>
        BY <2>1 DEF TakeKnown
    <2>4. Pending' \in Seq(Heard) /\ Pending = <<c>> \o Pending' /\ src \in Seq(Heard)
        BY <2>1, NextByteTypes DEF FileTypes
    <2>5. Copied(src, j, <<c>> \o Pending', fpout)
        BY <2>2, <2>4
    <2>6. /\ Low(c) \in {"NUL", "CTRLA"} => fpout = FlattenSeq(Kept(src))
          /\ Low(c) \notin {"NUL", "CTRLA"} =>
                \E i \in 0 .. Len(src) :
                   Copied(src, i, Pending', IF Low(c) = "CR" THEN fpout ELSE Append(fpout, Low(c)))
        BY <2>4, <2>5, CopyNext
    <2>7. CASE Low(c) \in {"NUL", "CTRLA"}
        BY <2>1, <2>6, <2>7 DEF TakeKnown
    <2>8. CASE Low(c) \notin {"NUL", "CTRLA"}
        <3>1. /\ cpc' = "file" /\ toRem' = <<>> /\ src' = src
              /\ fpout' = IF Low(c) = "CR" THEN fpout ELSE Append(fpout, Low(c))
            BY <2>1, <2>3, <2>8
        <3>2. \E i \in 0 .. Len(src') : Copied(src', i, Pending', fpout')
            BY <2>6, <2>8, <3>1
        <3> QED
            BY <3>1, <3>2 DEF TakeKnown
    <2> QED
        BY <2>7, <2>8
<1>8. CASE RemoteReads
    <2>1. /\ toRem # <<>> /\ toRem' = Tail(toRem) /\ UNCHANGED <<cpc, rem_buf, fpout, src, clean>>
          /\ fromRem' = fromRem \/ fromRem' = fromRem \o Output(Head(toRem))
        BY <1>8 DEF RemoteReads, fileVars
    <2> SUFFICES ASSUME clean, NoEnd(src) PROVE TakeKnown'
        BY <2>1 DEF TakeKnown, NoEnd
    <2>2. CASE cpc = "echo"
        <3>1. toRem = <<"take">> /\ rem_buf = <<>> /\ fromRem = <<>> /\ fpout = <<>>
            BY <2>1, <2>2 DEF TakeKnown, EchoPending
        <3>2. toRem' = <<>> /\ Head(toRem) = "take"
            BY <2>1, <3>1
        <3>3. CASE fromRem' = fromRem
            <4>1. Pending' = <<>>
                BY <2>1, <3>1, <3>3, EmptySeq, ConcatEmptySeq DEF Pending
            <4>2. EchoPending'
                BY <3>2, <4>1 DEF EchoPending
            <4> QED
                BY <2>1, <2>2, <3>1, <4>2 DEF TakeKnown
        <3>4. CASE fromRem' = fromRem \o Output("take")
            <4> DEFINE o == Output("take")
            <4>1. o \in Seq(Heard) /\ o = <<"cat">> \o (<<"CTRLA">> \o Newline(src))
                BY OutputIs
            <4>2. Pending' = <<>> \o (<<>> \o o)
                BY <2>1, <3>1, <3>4 DEF Pending
            <4> HIDE DEF o
            <4>3. Pending' = o
                BY <4>1, <4>2, ConcatEmptySeq
            <4>4. EchoPending'
                BY <2>1, <3>2, <4>1, <4>3 DEF EchoPending
            <4> QED
                BY <2>1, <2>2, <3>1, <4>4 DEF TakeKnown
        <3> QED
            BY <2>1, <3>2, <3>3, <3>4
    <2>3. CASE cpc = "file"
        BY <2>1, <2>3 DEF TakeKnown
    <2>4. CASE cpc = "taken"
        BY <2>1, <2>4 DEF TakeKnown
    <2> QED
        BY <2>1, <2>2, <2>3, <2>4 DEF TakeKnown
<1>9. CASE LineDrops \/ UNCHANGED callVars
    <2>1. cpc' = cpc /\ UNCHANGED <<toRem, fromRem, rem_buf, fpout, src, clean>>
        BY <1>9 DEF LineDrops, callVars, lineVars, fileVars
    <2> QED
        BY <2>1, TakeKnownSame
<1> QED
    BY <1>2, <1>3, <1>4, <1>5, <1>6, <1>7, <1>8, <1>9 DEF CallNext

\* take's copy has every character of a file with none that take takes for its
\* end, in order, without the eighth bits and the returns, whatever its reads give
\* it and whatever went before.
THEOREM TakeCopies == CallSpec => []TakeExact
<1>1. CallInit => TakeInv
    <2> SUFFICES ASSUME CallInit PROVE TakeInv
        OBVIOUS
    <2>1. <<>> \in Seq(Heard) /\ <<>> \in Seq(Written) /\ <<>> \in Seq(Read7)
        BY EmptySeq
    <2> QED
        BY <2>1 DEF CallInit, TakeInv, FileTypes, TakeKnown
<1>2. TakeInv /\ [CallNext]_callVars => TakeInv'
    BY FileTypesNext, TakeKnownNext DEF TakeInv
<1>3. TakeInv => TakeExact
    <2> SUFFICES ASSUME TakeInv, cpc = "taken", clean, NoEnd(src)
                 PROVE  fpout = FlattenSeq(Kept(src))
        BY DEF TakeExact, Kept, NoEnd
    <2> QED
        BY DEF TakeInv, TakeKnown
<1> QED
    BY <1>1, <1>2, <1>3, PTL DEF CallSpec

-----------------------------------------------------------------------------
(* The strings that expect_str compares. *)

\* calld's child and the modem.
ChatSpec == ChatInit /\ [][ChatNext]_chatVars

\* An occurrence of s in t that ends with t's m-th element.
Ends(s, t, m) == Len(s) <= m /\ \A i \in 1 .. Len(s) : s[i] = t[m - Len(s) + i]

\* strncmp at the end of inbuf compares character by character.
LEMMA SuffixIs ==
    ASSUME NEW S, NEW s \in Seq(S), NEW t \in Seq(S)
    PROVE  IsSuffix(s, t) <=> Ends(s, t, Len(t))
<1> DEFINE n == Len(s)
           m == Len(t)
           r == Reverse(s)
           u == Reverse(t)
<1>1. n \in Nat /\ m \in Nat /\ (\A i \in 1 .. n : s[i] \in S) /\ (\A i \in 1 .. m : t[i] \in S)
    OBVIOUS
<1>2. r \in Seq(S) /\ Len(r) = n /\ \A i \in 1 .. n : r[i] = s[n - i + 1]
    <2>1. \A i \in 1 .. n : n - i + 1 \in 1 .. n
        BY <1>1
    <2> QED
        BY <1>1, <2>1 DEF Reverse
<1>3. u \in Seq(S) /\ Len(u) = m /\ \A i \in 1 .. m : u[i] = t[m - i + 1]
    <2>1. \A i \in 1 .. m : m - i + 1 \in 1 .. m
        BY <1>1
    <2> QED
        BY <1>1, <2>1 DEF Reverse
<1>4. IsSuffix(s, t) <=> n <= m /\ SubSeq(r, 1, n) = SubSeq(u, 1, n)
    BY <1>2, <1>3 DEF IsSuffix, IsPrefix
<1>5. SubSeq(r, 1, n) = r
    BY <1>2, SubSeqFull
<1> HIDE DEF n, m, r, u
<1>6. ASSUME n <= m PROVE r = SubSeq(u, 1, n) <=> \A i \in 1 .. n : s[i] = t[m - n + i]
    <2> DEFINE v == SubSeq(u, 1, n)
    <2>1. v \in Seq(S) /\ Len(v) = n /\ \A i \in 1 .. n : v[i] = u[i]
        <3>1. \A i \in 1 .. n : u[i] \in S
            BY <1>1, <1>3, <1>6
        <3>2. v \in Seq(S) /\ Len(v) = (IF 1 <= n THEN n - 1 + 1 ELSE 0) /\ \A i \in 1 .. n - 1 + 1 : v[i] = u[1 + i - 1]
            BY <1>1, <3>1, SubSeqProperties
        <3> QED
            BY <1>1, <3>2
    <2> HIDE DEF v
    <2>2. \A i \in 1 .. n : v[i] = t[m - i + 1] /\ r[i] = s[n - i + 1]
        BY <1>1, <1>2, <1>3, <1>6, <2>1
    <2>3. ASSUME r = v, NEW i \in 1 .. n PROVE s[i] = t[m - n + i]
        <3>1. n - i + 1 \in 1 .. n /\ n - (n - i + 1) + 1 = i /\ m - (n - i + 1) + 1 = m - n + i
            BY <1>1
        <3> QED
            BY <2>2, <2>3, <3>1
    <2>4. ASSUME \A i \in 1 .. n : s[i] = t[m - n + i] PROVE r = v
        <3>1. ASSUME NEW i \in 1 .. n PROVE r[i] = v[i]
            <4>1. n - i + 1 \in 1 .. n /\ m - n + (n - i + 1) = m - i + 1
                BY <1>1
            <4> QED
                BY <2>2, <2>4, <4>1
        <3> QED
            BY <1>2, <2>1, <3>1, SeqEqual
    <2> QED
        BY <2>3, <2>4 DEF v
<1> QED
    BY <1>4, <1>5, <1>6 DEF Ends, n, m

\* The same for what was heard up to some point.
LEMMA SuffixAt ==
    ASSUME NEW S, NEW s \in Seq(S), NEW t \in Seq(S), NEW m \in 0 .. Len(t)
    PROVE  IsSuffix(s, SubSeq(t, 1, m)) <=> Ends(s, t, m)
<1> DEFINE u == SubSeq(t, 1, m)
<1>1. Len(t) \in Nat /\ Len(s) \in Nat
    OBVIOUS
<1>2. u \in Seq(S) /\ Len(u) = m /\ \A i \in 1 .. m : u[i] = t[i]
    <2>1. \A i \in 1 .. m : t[i] \in S
        BY <1>1
    <2>2. u \in Seq(S) /\ Len(u) = (IF 1 <= m THEN m - 1 + 1 ELSE 0) /\ \A i \in 1 .. m - 1 + 1 : u[i] = t[1 + i - 1]
        BY <2>1, SubSeqProperties
    <2> QED
        BY <1>1, <2>2
<1> HIDE DEF u
<1>3. IsSuffix(s, u) <=> Ends(s, u, m)
    BY <1>2, SuffixIs
<1>4. Len(s) <= m => \A i \in 1 .. Len(s) : u[m - Len(s) + i] = t[m - Len(s) + i]
    BY <1>1, <1>2
<1> QED
    BY <1>3, <1>4 DEF Ends, u

-----------------------------------------------------------------------------
(* expect_str. *)

\* What the modem and the items of a string are written in.
Letters == Chars \cup STRING \cup {"CR", "SP"}

\* The string in use has not occurred in h.
Missed(h) == \A m \in 0 .. Len(h) : ~Ends(Expstr, h, m)

\* inbuf is what was heard after d characters, none of them the string's first.
Skipped(d, buf, h) ==
    /\ Len(h) = d + Len(buf)
    /\ \A i \in 1 .. d : h[i] # Expstr[1]
    /\ \A i \in 1 .. Len(buf) : buf[i] = h[d + i]

\* expect_str knows where it is in what was heard.
ExpectKnown ==
    /\ heard \in Seq(Letters) /\ inbuf \in Seq(Letters)
    /\ chat \in Chats /\ k \in 1 .. Len(chat)
    /\ Expecting => Missed(heard)
    /\ dial = "skip" => Skipped(Len(heard), <<>>, heard)
    /\ dial \in {"fill", "match"} => \E d \in Nat : Skipped(d, inbuf, heard)
    /\ dial = "got" /\ ~caught_alrm /\ chat[k] # Nothing =>
          /\ Ends(Expstr, heard, Len(heard)) /\ \A m \in 0 .. Len(heard) - 1 : ~Ends(Expstr, heard, m)

\* The string in use is not empty, and written in the letters.
LEMMA ExpstrIs ==
    ASSUME chat \in Chats, k \in 1 .. Len(chat)
    PROVE  /\ chat \in Seq(Seq(Items) \ {<<>>}) /\ chat[k] \in Seq(Items) /\ chat[k] # <<>>
           /\ Expstr \in Seq(Letters) /\ Len(Expstr) = Len(chat[k]) /\ Len(chat[k]) \in Nat \ {0}
<1>1. chat \in Seq(Seq(Items) \ {<<>>}) /\ chat[k] \in Seq(Items) /\ chat[k] # <<>>
    BY ChatAssumption
<1>2. Len(chat[k]) \in Nat \ {0} /\ DOMAIN chat[k] = 1 .. Len(chat[k])
    BY <1>1, EmptySeq, LenProperties
<1>3. ASSUME NEW i \in 1 .. Len(chat[k]) PROVE Char(chat[k][i]) \in Letters
    <2>1. chat[k][i] \in Items
        BY <1>1, <1>2
    <2> QED
        BY <2>1 DEF Items, Char, Letters
<1> QED
    BY <1>1, <1>2, <1>3 DEF Expstr

\* As long as inbuf is too short for it the string cannot have come.
LEMMA MissedWhileShort ==
    ASSUME chat \in Chats, k \in 1 .. Len(chat), NEW h \in Seq(Letters), NEW buf \in Seq(Letters), NEW d \in Nat,
           Skipped(d, buf, h), Len(buf) < Len(chat[k])
    PROVE  Missed(h)
<1>1. Len(Expstr) = Len(chat[k]) /\ Len(chat[k]) \in Nat \ {0} /\ Len(h) \in Nat /\ Len(buf) \in Nat
    BY ExpstrIs, LenProperties
<1>2. SUFFICES ASSUME NEW m \in 0 .. Len(h), Ends(Expstr, h, m) PROVE FALSE
    BY DEF Missed
<1> DEFINE n == Len(Expstr)
<1>3. n \in Nat \ {0} /\ n <= m /\ 1 \in 1 .. n /\ Len(h) = d + Len(buf) /\ Len(buf) < n
    BY <1>1, <1>2 DEF Ends, Skipped
<1>4. Expstr[1] = h[m - n + 1]
    BY <1>2, <1>3 DEF Ends
<1> HIDE DEF n
<1>5. m - n + 1 \in 1 .. d
    BY <1>1, <1>3
<1> QED
    BY <1>4, <1>5 DEF Skipped

\* A character more.
LEMMA HearNext ==
    ASSUME ExpectKnown, NEW x \in Chars, Hear(x)
    PROVE  ExpectKnown'
<1> DEFINE h == Append(heard, x)
           buf == IF dial = "skip" THEN <<x>> ELSE Append(inbuf, x)
<1>1. /\ Expecting /\ heard' = h /\ UNCHANGED <<chat, k, caught_alrm>> /\ x \in Letters
      /\ heard \in Seq(Letters) /\ inbuf \in Seq(Letters) /\ chat \in Chats /\ k \in 1 .. Len(chat) /\ Missed(heard)
      /\ \/ dial = "skip" /\ x # Expstr[1] /\ UNCHANGED <<dial, inbuf>>
         \/ ~(dial = "skip" /\ x # Expstr[1]) /\ inbuf' = buf /\ dial' = Compare(buf)
    BY DEF ExpectKnown, Hear, Letters, Go
<1>2. /\ h \in Seq(Letters) /\ Len(h) = Len(heard) + 1 /\ Len(heard) \in Nat /\ h[Len(heard) + 1] = x
      /\ \A i \in 1 .. Len(heard) : h[i] = heard[i]
    BY <1>1, AppendProperties, LenProperties
<1>3. /\ Expstr \in Seq(Letters) /\ Len(Expstr) = Len(chat[k]) /\ Len(chat[k]) \in Nat \ {0}
    BY <1>1, ExpstrIs
<1>4. Expstr' = Expstr
    BY <1>1 DEF Expstr
<1>5. buf \in Seq(Letters) /\ Len(buf) \in Nat \ {0}
    BY <1>1, AppendProperties, LenProperties
<1> HIDE DEF h
\* What was heard before is not the string.
<1>6. \A m \in 0 .. Len(heard) : ~Ends(Expstr, h, m)
    <2> SUFFICES ASSUME NEW m \in 0 .. Len(heard), Ends(Expstr, h, m) PROVE FALSE
        OBVIOUS
    <2>1. Len(Expstr) <= m /\ \A i \in 1 .. Len(Expstr) : m - Len(Expstr) + i \in 1 .. Len(heard)
        BY <1>2, <1>3 DEF Ends
    <2>2. Ends(Expstr, heard, m)
        BY <1>2, <2>1 DEF Ends
    <2> QED
        BY <1>1, <2>2 DEF Missed
<1>7. CASE dial = "skip" /\ x # Expstr[1] /\ UNCHANGED <<dial, inbuf>>
    <2>1. Skipped(Len(h), <<>>, h)
        <3>1. Skipped(Len(heard), <<>>, heard)
            BY <1>7 DEF ExpectKnown
        <3>2. \A i \in 1 .. Len(h) : i \in 1 .. Len(heard) \/ i = Len(heard) + 1
            BY <1>2
        <3>3. \A i \in 1 .. Len(h) : h[i] # Expstr[1]
            BY <1>2, <1>7, <3>1, <3>2 DEF Skipped
        <3>4. Len(<<>>) = 0 /\ Len(h) = Len(h) + 0
            BY <1>2
        <3> QED
            BY <3>3, <3>4 DEF Skipped
    <2>2. Missed(h)
        <3>1. <<>> \in Seq(Letters) /\ Len(<<>>) < Len(chat[k]) /\ Len(h) \in Nat
            BY <1>2, <1>3, EmptySeq
        <3> QED
            BY <1>1, <1>2, <2>1, <3>1, MissedWhileShort
    <2> QED
        BY <1>1, <1>2, <1>4, <1>7, <2>1, <2>2 DEF ExpectKnown, Expecting, Missed, Skipped
<1>8. CASE ~(dial = "skip" /\ x # Expstr[1]) /\ inbuf' = buf /\ dial' = Compare(buf)
    <2>1. PICK d \in Nat : Skipped(d, buf, h)
        <3>1. CASE dial = "skip"
            <4>1. Skipped(Len(heard), <<>>, heard) /\ buf = <<x>>
                BY <3>1 DEF ExpectKnown
            <4>2. Len(buf) = 1 /\ buf[1] = x
                BY <4>1
            <4>3. Skipped(Len(heard), buf, h)
                BY <1>2, <4>1, <4>2 DEF Skipped
            <4> QED
                BY <1>2, <4>3
        <3>2. CASE dial # "skip"
            <4>1. PICK d \in Nat : Skipped(d, inbuf, heard)
                BY <1>1, <3>2 DEF ExpectKnown, Expecting
            <4>2. buf = Append(inbuf, x)
                BY <3>2
            <4>3. /\ Len(buf) = Len(inbuf) + 1 /\ Len(inbuf) \in Nat /\ buf[Len(inbuf) + 1] = x
                  /\ \A i \in 1 .. Len(inbuf) : buf[i] = inbuf[i]
                BY <1>1, <4>2, AppendProperties, LenProperties
            <4>4. Len(heard) = d + Len(inbuf)
                BY <4>1 DEF Skipped
            <4>5. \A i \in 1 .. d : i \in 1 .. Len(heard)
                BY <4>3, <4>4
            <4>6. \A i \in 1 .. Len(buf) :
                     \/ i \in 1 .. Len(inbuf) /\ d + i \in 1 .. Len(heard)
                     \/ i = Len(inbuf) + 1 /\ d + i = Len(heard) + 1
                BY <4>3, <4>4
            <4>7. Len(h) = d + Len(buf)
                BY <1>2, <4>3, <4>4
            <4>8. \A i \in 1 .. d : h[i] # Expstr[1]
                BY <1>2, <4>1, <4>5 DEF Skipped
            <4>9. \A i \in 1 .. Len(inbuf) : inbuf[i] = heard[d + i]
                BY <4>1 DEF Skipped
            <4> HIDE DEF buf
            <4>10. \A i \in 1 .. Len(buf) : buf[i] = h[d + i]
                BY <1>2, <4>3, <4>6, <4>9
            <4> QED
                BY <4>7, <4>8, <4>10 DEF Skipped
        <3> QED
            BY <3>1, <3>2
    <2>2. Len(buf) >= Len(chat[k]) => (IsSuffix(Expstr, buf) <=> Ends(Expstr, h, Len(h)))
        <3> SUFFICES ASSUME Len(buf) >= Len(chat[k])
                     PROVE  IsSuffix(Expstr, buf) <=> Ends(Expstr, h, Len(h))
            OBVIOUS
        <3>1. IsSuffix(Expstr, buf) <=> Ends(Expstr, buf, Len(buf))
            BY <1>3, <1>5, SuffixIs
        <3> DEFINE n == Len(Expstr)
                   l == Len(buf)
        <3>2. Len(h) = d + l /\ n \in Nat /\ l \in Nat /\ n <= l /\ n <= Len(h)
            BY <1>2, <1>3, <1>5, <2>1 DEF Skipped
        <3>3. \A i \in 1 .. n : buf[l - n + i] = h[Len(h) - n + i]
            <4> TAKE i \in 1 .. n
            <4>1. l - n + i \in 1 .. l /\ Len(h) - n + i = d + (l - n + i)
                BY <3>2
            <4> QED
                BY <2>1, <4>1 DEF Skipped
        <3> HIDE DEF n, l
        <3>4. Ends(Expstr, buf, l) <=> \A i \in 1 .. n : Expstr[i] = buf[l - n + i]
            BY <3>2 DEF Ends, n
        <3>5. Ends(Expstr, h, Len(h)) <=> \A i \in 1 .. n : Expstr[i] = h[Len(h) - n + i]
            BY <3>2 DEF Ends, n
        <3> QED
            BY <3>1, <3>3, <3>4, <3>5 DEF l
    <2> HIDE DEF buf
    <2>3. CASE Len(buf) < Len(chat[k])
        <3>1. dial' = "fill"
            <4>1. ~IsSuffix(Expstr, buf)
                BY <1>3, <1>5, <2>3, SuffixIs DEF Ends
            <4> QED
                BY <1>3, <1>5, <1>8, <2>3, <4>1 DEF Compare
        <3>2. Missed(h)
            BY <1>1, <1>2, <1>5, <2>1, <2>3, MissedWhileShort
        <3>3. Missed(heard)' /\ Skipped(d, inbuf, heard)'
            BY <1>1, <1>4, <1>8, <2>1, <3>2 DEF Missed, Skipped
        <3> QED
            BY <1>1, <1>2, <1>5, <1>8, <3>1, <3>3 DEF ExpectKnown, Expecting
    <2>4. CASE Len(buf) >= Len(chat[k]) /\ IsSuffix(Expstr, buf)
        <3>1. dial' = "got"
            BY <1>3, <1>5, <1>8, <2>4 DEF Compare
        <3>2. Ends(Expstr, h, Len(h)) /\ Len(h) - 1 = Len(heard)
            BY <1>2, <2>2, <2>4
        <3> QED
            BY <1>1, <1>2, <1>4, <1>5, <1>6, <1>8, <3>1, <3>2 DEF ExpectKnown, Expecting
    <2>5. CASE Len(buf) >= Len(chat[k]) /\ ~IsSuffix(Expstr, buf)
        <3>1. dial' = "match"
            BY <1>3, <1>5, <1>8, <2>5 DEF Compare
        <3>2. Missed(h)
            <4>1. \A m \in 0 .. Len(h) : m \in 0 .. Len(heard) \/ m = Len(h)
                BY <1>2
            <4> QED
                BY <1>6, <2>2, <2>5, <4>1 DEF Missed
        <3>3. Missed(heard)' /\ Skipped(d, inbuf, heard)'
            BY <1>1, <1>4, <1>8, <2>1, <3>2 DEF Missed, Skipped
        <3> QED
            BY <1>1, <1>2, <1>5, <1>8, <3>1, <3>3 DEF ExpectKnown, Expecting
    <2> QED
        BY <1>3, <1>5, <2>3, <2>4, <2>5
<1> QED
    BY <1>1, <1>7, <1>8

\* Every step keeps what expect_str knows of what it has heard.
LEMMA ExpectKnownNext ==
    ASSUME ExpectKnown, [ChatNext]_chatVars
    PROVE  ExpectKnown'
<1> USE DEF ExpectKnown, Expecting, Go
<1>1. CASE ExpectNothing
    BY <1>1 DEF ExpectNothing, Expstr
<1>2. CASE BadExpect
    BY <1>2 DEF BadExpect, Expstr
<1>3. CASE Expect
    <2>1. /\ dial' = "skip" /\ heard' = <<>> /\ inbuf' = <<>> /\ UNCHANGED <<chat, k>>
        BY <1>3 DEF Expect
    <2>2. <<>> \in Seq(Letters) /\ Len(<<>>) = 0
        BY EmptySeq
    <2>3. Len(Expstr) \in Nat \ {0} /\ Expstr' = Expstr
        BY <2>1, ExpstrIs DEF Expstr
    <2>4. \A m \in 0 .. 0 : ~Ends(Expstr, <<>>, m)
        BY <2>3 DEF Ends
    <2>5. Missed(heard)' /\ Skipped(Len(heard), <<>>, heard)'
        BY <2>1, <2>2, <2>3, <2>4 DEF Missed, Skipped
    <2> QED
        BY <2>1, <2>2, <2>5
<1>4. CASE TestFlag \/ EnterRead \/ Spin \/ Overrun \/ SigAlrm \/ UNCHANGED chatVars
    <2>1. /\ UNCHANGED <<chat, k, heard, inbuf>> /\ Expstr' = Expstr
          /\ dial' = dial \/ dial' = "segv" \/ (dial' = "got" /\ caught_alrm')
          /\ ~caught_alrm' => ~caught_alrm
        BY <1>4 DEF TestFlag, EnterRead, Spin, Overrun, SigAlrm, chatVars, Expstr
    <2> QED
        BY <2>1 DEF Missed, Skipped
<1>5. CASE Got \/ SentAll
    <2>1. /\ dial' \in {"dialled", "send", "expect"} /\ UNCHANGED <<chat, heard, inbuf>>
          /\ k' = k \/ (k # Len(chat) /\ k' = k + 1)
        BY <1>5 DEF Got, SentAll
    <2>2. Len(chat) \in Nat
        BY ExpstrIs, LenProperties
    <2> QED
        BY <2>1, <2>2
<1>6. CASE SendChar \/ SendSpecial \/ NoCr \/ Cr \/ BadSend \/ Hangup \/ \E x \in Chars : Echo(x)
    <2>1. dial' \in {"echo", "send", "sentall", "failed", "exit"} /\ UNCHANGED <<chat, k, heard, inbuf>>
        BY <1>6 DEF SendChar, SendSpecial, NoCr, Cr, BadSend, Hangup, Echo, Return, Sending
    <2> QED
        BY <2>1
<1>7. ASSUME NEW x \in Chars, Hear(x) PROVE ExpectKnown'
    <2> HIDE DEF ExpectKnown
    <2> QED
        BY <1>7, HearNext
<1> QED
    BY <1>1, <1>2, <1>3, <1>4, <1>5, <1>6, <1>7 DEF ChatNext, TtyDial

-----------------------------------------------------------------------------
(* send_str. *)

\* How many items are sent, what they are to write, and the first j of them.
Cut(str) == Min({i \in DOMAIN str : BadEscape(str[i])} \cup {Len(str) + 1}) - 1
Pieces(str, t) == [i \in 1 .. Cut(str) |-> Piece(str[i], t)]
Upto(str, t, j) == Part(Pieces(str, t), j)

\* The items before the cut are good, and the one behind it is a bad escape.
LEMMA CutIs ==
    ASSUME NEW str \in Seq(Items)
    PROVE  /\ Cut(str) \in 0 .. Len(str) /\ \A i \in 1 .. Cut(str) : ~BadEscape(str[i])
           /\ Cut(str) < Len(str) => BadEscape(str[Cut(str) + 1])
<1> DEFINE B == {i \in DOMAIN str : BadEscape(str[i])} \cup {Len(str) + 1}
<1>1. Len(str) \in Nat /\ DOMAIN str = 1 .. Len(str)
    BY LenProperties
<1>2. B \in SUBSET Nat /\ B # {} /\ B \subseteq 1 .. Len(str) + 1
    BY <1>1
<1>3. Min(B) \in B /\ \A x \in B : Min(B) <= x
    BY <1>2, MinOf
<1>4. Cut(str) = Min(B) - 1
    BY DEF Cut
<1> DEFINE m == Min(B)
<1>5. m \in 1 .. Len(str) + 1 /\ Len(str) + 1 \in B /\ m <= Len(str) + 1
    BY <1>2, <1>3
<1>6. ASSUME NEW i \in 1 .. m - 1 PROVE ~BadEscape(str[i])
    <2>1. i \in Nat /\ m \in Nat /\ ~(m <= i)
        BY <1>5
    <2>2. i \notin B
        <3> HIDE DEF B
        <3> QED
            BY <1>3, <2>1
    <2> QED
        BY <1>1, <1>5, <2>2
<1>7. m <= Len(str) => BadEscape(str[m])
    BY <1>1, <1>3, <1>5
<1> HIDE DEF m, B
<1> QED
    BY <1>1, <1>4, <1>5, <1>6, <1>7 DEF m

\* A text is built item by item.
LEMMA UptoIs ==
    ASSUME NEW str \in Seq(Items), NEW t \in Seq(Letters)
    PROVE  /\ Upto(str, t, 0) = <<>> /\ Text(str, t) \in Seq(Letters)
           /\ \A j \in 0 .. Cut(str) : Upto(str, t, j) \in Seq(Letters)
           /\ \A j \in 0 .. Cut(str) - 1 : /\ Upto(str, t, j + 1) = Upto(str, t, j) \o Piece(str[j + 1], t)
                                         /\ Piece(str[j + 1], t) \in Seq(Letters)
           /\ Text(str, t) = Upto(str, t, Cut(str))
                             \o (IF Cut(str) < Len(str) \/ (str # <<>> /\ Last(str) = Slash("c")) THEN <<>> ELSE <<"CR">>)
<1> DEFINE n == Cut(str)
           p == Pieces(str, t)
<1>1. n \in 0 .. Len(str) /\ Len(str) \in Nat
    BY CutIs, LenProperties
<1>2. \A i \in 1 .. n : Piece(str[i], t) \in Seq(Letters)
    <2> TAKE i \in 1 .. n
    <2>1. str[i] \in Items
        BY <1>1, ElementOfSeq
    <2>2. Char(str[i]) \in Letters
        BY <2>1 DEF Items, Char, Letters
    <2>3. <<Char(str[i])>> \in Seq(Letters) /\ <<>> \in Seq(Letters)
        BY <2>2, EmptySeq
    <2> QED
        BY <2>3 DEF Piece
<1>3. p \in Seq(Seq(Letters)) /\ Len(p) = n /\ \A i \in 1 .. n : p[i] = Piece(str[i], t)
    BY <1>1, <1>2 DEF Pieces
<1>4. Text(str, t) = FlattenSeq(p) \o (IF n < Len(str) \/ (str # <<>> /\ Last(str) = Slash("c")) THEN <<>> ELSE <<"CR">>)
    BY DEF Text, Pieces, Cut
<1> HIDE DEF n, p
<1>5. /\ Part(p, 0) = <<>> /\ Part(p, n) = FlattenSeq(p)
      /\ \A j \in 0 .. n : Part(p, j) \in Seq(Letters)
      /\ \A j \in 0 .. n - 1 : Part(p, j + 1) = Part(p, j) \o p[j + 1]
    BY <1>3, FlattenParts DEF Part
<1>6. \A j \in 0 .. n - 1 : j + 1 \in 1 .. n
    BY <1>1
<1>7. Text(str, t) \in Seq(Letters)
    <2>1. <<>> \in Seq(Letters) /\ <<"CR">> \in Seq(Letters) /\ FlattenSeq(p) \in Seq(Letters)
        <3>1. "CR" \in Letters /\ n \in 0 .. n
            BY <1>1 DEF Letters
        <3> QED
            BY <1>5, <3>1, EmptySeq, Tuples
    <2> QED
        BY <1>4, <2>1, ConcatProperties
<1> QED
    BY <1>2, <1>3, <1>4, <1>5, <1>6, <1>7 DEF Upto, n, p

\* When the item pos is next, s has been written for what is before it.
Said(str, pos, t, s) ==
    /\ pos \in 1 .. Cut(str) + 1 /\ s = Upto(str, t, pos - 1)
    /\ ~(pos = Len(str) + 1 /\ str # <<>> /\ str[Len(str)] = Slash("c"))

\* One item more has been written.
LEMMA SaidNext ==
    ASSUME NEW str \in Seq(Items), NEW t \in Seq(Letters), NEW pos, NEW s, Said(str, pos, t, s),
           pos <= Len(str), ~BadEscape(str[pos]), ~(str[pos] = Slash("c") /\ pos = Len(str))
    PROVE  /\ s \in Seq(Letters) /\ Piece(str[pos], t) \in Seq(Letters) /\ pos + 1 \in Nat
           /\ Said(str, pos + 1, t, s \o Piece(str[pos], t))
<1> DEFINE n == Cut(str)
<1>1. /\ n \in 0 .. Len(str) /\ Len(str) \in Nat /\ pos \in 1 .. n + 1 /\ (n < Len(str) => BadEscape(str[n + 1]))
    BY CutIs, LenProperties DEF Said
<1>2. pos \in 1 .. n
    BY <1>1
<1>3. pos - 1 \in 0 .. n - 1 /\ pos - 1 \in 0 .. n /\ (pos - 1) + 1 = pos /\ (pos + 1) - 1 = pos /\ pos + 1 \in 1 .. n + 1
    BY <1>1, <1>2
<1>4. s = Upto(str, t, pos - 1) /\ s \in Seq(Letters)
    BY <1>3, UptoIs DEF Said
<1>5. Upto(str, t, pos) = Upto(str, t, pos - 1) \o Piece(str[pos], t) /\ Piece(str[pos], t) \in Seq(Letters)
    BY <1>3, UptoIs
<1>6. ~(pos + 1 = Len(str) + 1 /\ str # <<>> /\ str[Len(str)] = Slash("c"))
    BY <1>1, <1>2
<1> QED
    BY <1>3, <1>4, <1>5, <1>6 DEF Said

\* All items have been written: pos the end, pos a bad escape, or pos a last \c.
LEMMA SaidAll ==
    ASSUME NEW str \in Seq(Items), NEW t \in Seq(Letters), NEW pos, NEW s, Said(str, pos, t, s)
    PROVE  /\ s \in Seq(Letters)
           /\ pos > Len(str) => Text(str, t) = s \o <<"CR">>
           /\ pos <= Len(str) /\ BadEscape(str[pos]) => Text(str, t) = s \o <<>>
           /\ pos = Len(str) /\ str[pos] = Slash("c") => Text(str, t) = s \o <<>>
<1> DEFINE n == Cut(str)
<1>1. /\ n \in 0 .. Len(str) /\ Len(str) \in Nat /\ pos \in 1 .. n + 1 /\ (n < Len(str) => BadEscape(str[n + 1]))
      /\ \A i \in 1 .. n : ~BadEscape(str[i])
    BY CutIs, LenProperties DEF Said
<1>2. s = Upto(str, t, pos - 1) /\ pos - 1 \in 0 .. n
    BY <1>1 DEF Said
<1>3. s \in Seq(Letters)
    BY <1>2, UptoIs
<1>4. Text(str, t) = Upto(str, t, n)
                     \o (IF n < Len(str) \/ (str # <<>> /\ Last(str) = Slash("c")) THEN <<>> ELSE <<"CR">>)
    BY UptoIs
<1>5. Last(str) = str[Len(str)] /\ (Len(str) > 0 => str # <<>>)
    BY <1>1 DEF Last
<1>6. ASSUME pos > Len(str) PROVE Text(str, t) = s \o <<"CR">>
    <2>1. pos = Len(str) + 1 /\ n = Len(str) /\ pos - 1 = n
        BY <1>1, <1>6
    <2>2. ~(n < Len(str) \/ (str # <<>> /\ Last(str) = Slash("c")))
        BY <1>1, <1>5, <2>1 DEF Said
    <2> QED
        BY <1>2, <1>4, <2>1, <2>2
<1>7. ASSUME pos <= Len(str), BadEscape(str[pos]) PROVE Text(str, t) = s \o <<>>
    <2>1. pos = n + 1 /\ pos - 1 = n /\ n < Len(str)
        BY <1>1, <1>7
    <2> QED
        BY <1>2, <1>4, <2>1
<1>8. ASSUME pos = Len(str), str[pos] = Slash("c") PROVE Text(str, t) = s \o <<>>
    <2>1. pos \in 1 .. Len(str) /\ ~BadEscape(str[pos]) /\ str # <<>>
        BY <1>1, <1>5, <1>8 DEF BadEscape, Slash
    <2>2. n = Len(str) /\ pos - 1 \in 0 .. n - 1 /\ (pos - 1) + 1 = n
        BY <1>1, <1>8, <2>1
    <2>3. Upto(str, t, n) = s \o Piece(str[n], t)
        BY <1>2, <2>2, UptoIs
    <2>4. Piece(str[n], t) = <<>>
        BY <1>8, <2>2 DEF Piece, Slash, IsChar
    <2>5. Text(str, t) = (s \o <<>>) \o <<>>
        BY <1>4, <1>5, <1>8, <2>1, <2>3, <2>4
    <2> QED
        BY <1>3, <2>5, ConcatEmptySeq
<1> QED
    BY <1>3, <1>6, <1>7, <1>8

\* The kinds of items.
LEMMA ItemKinds ==
    ASSUME NEW it \in Items, NEW t
    PROVE  /\ IsChar(it) => ~BadEscape(it) /\ it # Slash("c") /\ Piece(it, t) = <<Char(it)>> /\ Char(it) \in Letters
           /\ it.esc /\ it.c \in {"c", "d", "p", "e", "E", "T"} => ~BadEscape(it) /\ ~IsChar(it)
           /\ it.esc /\ it.c \in {"c", "d", "p", "e", "E"} => Piece(it, t) = <<>>
           /\ it.esc /\ it.c = "T" => it = Slash("T") /\ Piece(it, t) = t /\ it # Slash("c")
           /\ it = Slash("c") <=> it.esc /\ it.c = "c"
BY DEF Items, IsChar, BadEscape, Piece, Slash, Char, Letters

\* A call of send_str.
Frame == [str : Seq(Items), at : Nat, echocheck : BOOLEAN]

\* What the call for the phone number writes.
PhoneText == Text(Phone, <<>>)

\* The call g has written s, the phone number in it as t; while it waits for an
\* echo, the character that the echo is of as well.
Saying(l, g, t, s) == Said(g.str, IF l = "echo" THEN g.at + 1 ELSE g.at, t, s)

\* The outer call is the only one.
Outer(f) == frames = <<f>> /\ Saying(dial, f, PhoneText, sent)

\* The outer call is already past its \T; it had written s0.
Inner(f, g) ==
    /\ frames = <<f, g>> /\ g.str = Phone
    /\ \E s0, s \in Seq(Letters) :
          /\ Said(f.str, f.at, PhoneText, s0 \o PhoneText)
          /\ sent = s0 \o s /\ Saying(dial, g, <<>>, s)

\* What was written since send_str began.
SendKnown ==
    /\ sent \in Seq(Letters)
    /\ dial \in {"send", "echo"} =>
          \E f \in Frame : f.str = chat[k] /\ (Outer(f) \/ \E g \in Frame : Inner(f, g))
    /\ dial = "sentall" => sent = Text(chat[k], PhoneText)

\* A stack of one call or of two.
LEMMA StackOf ==
    ASSUME NEW S, NEW f \in S, NEW g \in S
    PROVE  /\ <<>> \in Seq(S) /\ <<f>> \in Seq(S) /\ Last(<<f>>) = f /\ Front(<<f>>) = <<>> /\ Len(<<f>>) = 1
           /\ <<f, g>> \in Seq(S) /\ Last(<<f, g>>) = g /\ Front(<<f, g>>) = <<f>> /\ Len(<<f, g>>) = 2
           /\ Append(<<>>, f) = <<f>> /\ Append(<<f>>, g) = <<f, g>> /\ <<f>> \o <<g>> = <<f, g>>
<1>1. /\ <<>> \in Seq(S) /\ <<f>> \in Seq(S) /\ <<f, g>> \in Seq(S) /\ Len(<<f>>) = 1 /\ Len(<<f, g>>) = 2
      /\ <<f>>[1] = f /\ <<f, g>>[1] = f /\ <<f, g>>[2] = g
    OBVIOUS
<1>2. Last(<<f>>) = f /\ Last(<<f, g>>) = g
    BY <1>1 DEF Last
<1>3. Front(<<f>>) = <<>>
    <2>1. Front(<<f>>) = SubSeq(<<f>>, 1, 0)
        BY <1>1 DEF Front
    <2> QED
        BY <1>1, <2>1, SubSeqEmpty
<1>4. Front(<<f, g>>) = <<f>>
    <2> DEFINE u == <<f, g>>
    <2>1. Front(u) = SubSeq(u, 1, 1)
        BY <1>1 DEF Front
    <2>2. /\ SubSeq(u, 1, 1) \in Seq(S) /\ Len(SubSeq(u, 1, 1)) = 1 /\ SubSeq(u, 1, 1)[1] = u[1]
        <3>1. u \in Seq(S) /\ Len(u) = 2
            BY <1>1
        <3> HIDE DEF u
        <3>2. \A i \in 1 .. 1 : u[i] \in S
            BY <3>1
        <3> QED
            BY <3>2, SubSeqProperties
    <2>3. \A i \in 1 .. 1 : i = 1
        OBVIOUS
    <2> HIDE DEF u
    <2>4. <<f>>[1] = u[1]
        BY <1>1 DEF u
    <2>5. SubSeq(u, 1, 1) = <<f>>
        BY <1>1, <2>2, <2>3, <2>4, SeqEqual
    <2> QED
        BY <2>1, <2>5 DEF u
<1>5. Append(<<>>, f) = <<f>> /\ Append(<<f>>, g) = <<f, g>>
    <2>1. Append(<<>>, f) = <<f>>
        <3>1. /\ Append(<<>>, f) \in Seq(S) /\ Len(Append(<<>>, f)) = 1 /\ Append(<<>>, f)[1] = f
            BY <1>1, AppendProperties
        <3>2. \A i \in 1 .. 1 : i = 1
            OBVIOUS
        <3> QED
            BY <1>1, <3>1, <3>2, SeqEqual
    <2>2. Append(<<f>>, g) = <<f, g>>
        <3>1. /\ Append(<<f>>, g) \in Seq(S) /\ Len(Append(<<f>>, g)) = 2
              /\ Append(<<f>>, g)[1] = f /\ Append(<<f>>, g)[2] = g
            BY <1>1, AppendProperties
        <3>2. \A i \in 1 .. 2 : i = 1 \/ i = 2
            OBVIOUS
        <3> QED
            BY <1>1, <3>1, <3>2, SeqEqual
    <2> QED
        BY <2>1, <2>2
<1>6. <<f>> \o <<g>> = <<f, g>>
    <2>1. Append(<<f>>, g) = <<f>> \o <<g>>
        BY <1>1, AppendIsConcat
    <2> QED
        BY <1>5, <2>1
<1> QED
    BY <1>1, <1>2, <1>3, <1>4, <1>5, <1>6

\* A call's next item is the one behind.
LEMMA StepIs ==
    ASSUME NEW g \in Frame
    PROVE  /\ g.str \in Seq(Items) /\ g.at \in Nat /\ g.echocheck \in BOOLEAN
           /\ Step(g) \in Frame /\ Step(g).str = g.str /\ Step(g).at = g.at + 1
BY DEF Frame, Step

\* The innermost call goes on: it writes x, or hears its echo, or waits, or takes
\* an escape that is not \T.
LEMMA CallGoesOn ==
    ASSUME NEW g \in Frame, NEW t \in Seq(Letters), NEW s, Saying(dial, g, t, s),
           sent \in Seq(Letters), Last(frames) = g, Front(frames) \in Seq(Frame),
           SendChar \/ (\E x \in Chars : Echo(x)) \/ (SendSpecial /\ Item.c # "T")
    PROVE  \E h \in Frame, x \in Seq(Letters) :
              /\ h.str = g.str /\ ((frames' = frames /\ h = g) \/ frames' = Append(Front(frames), h))
              /\ dial' \in {"send", "echo"}
              /\ sent' = sent \o x /\ Saying(dial', h, t, s \o x)
<1>1. /\ Top = g /\ Item = g.str[g.at] /\ g.str \in Seq(Items) /\ g.at \in Nat /\ g.echocheck \in BOOLEAN
      /\ Step(g) \in Frame /\ Step(g).str = g.str /\ Step(g).at = g.at + 1
    BY StepIs DEF Top, Item
<1>2. <<>> \in Seq(Letters) /\ sent \o <<>> = sent
    BY EmptySeq, ConcatEmptySeq
<1>3. s \in Seq(Letters) /\ s \o <<>> = s
    <2>1. s \in Seq(Letters)
        BY <1>1, SaidAll DEF Saying
    <2> QED
        BY <2>1, ConcatEmptySeq
<1>4. ASSUME dial = "send", ~AtEnd
      PROVE  Said(g.str, g.at, t, s) /\ g.at \in 1 .. Len(g.str) /\ Item \in Items
    <2>1. Said(g.str, g.at, t, s) /\ Cut(g.str) \in 0 .. Len(g.str) /\ Len(g.str) \in Nat
        BY <1>1, <1>4, CutIs, LenProperties DEF Saying
    <2>2. g.at \in 1 .. Len(g.str)
        BY <1>1, <1>4, <2>1 DEF AtEnd, Said
    <2> QED
        BY <1>1, <2>1, <2>2, ElementOfSeq
<1>5. CASE SendChar
    <2>1. /\ dial = "send" /\ ~AtEnd /\ IsChar(Item) /\ sent' = Append(sent, Char(Item))
          /\ \/ dial' = "echo" /\ frames' = frames
             \/ dial' = "send" /\ frames' = Append(Front(frames), Step(g))
        BY <1>1, <1>5 DEF SendChar, Sending, Go
    <2>2. Said(g.str, g.at, t, s) /\ g.at \in 1 .. Len(g.str) /\ Item \in Items
        BY <1>4, <2>1
    <2> DEFINE x == <<Char(Item)>>
    <2>3. ~BadEscape(Item) /\ Item # Slash("c") /\ Piece(Item, t) = x /\ Char(Item) \in Letters
        BY <2>1, <2>2, ItemKinds
    <2>4. x \in Seq(Letters) /\ sent' = sent \o x
        BY <2>1, <2>3, AppendIsConcat, Tuples
    <2> HIDE DEF x
    <2>5. Said(g.str, g.at + 1, t, s \o x)
        <3>1. /\ g.at <= Len(g.str) /\ ~BadEscape(g.str[g.at]) /\ ~(g.str[g.at] = Slash("c") /\ g.at = Len(g.str))
              /\ Piece(g.str[g.at], t) = x
            BY <1>1, <2>2, <2>3
        <3> QED
            BY <1>1, <2>2, <3>1, SaidNext
    <2>6. CASE dial' = "echo" /\ frames' = frames
        BY <2>4, <2>5, <2>6 DEF Saying
    <2>7. CASE dial' = "send" /\ frames' = Append(Front(frames), Step(g))
        BY <1>1, <2>4, <2>5, <2>7 DEF Saying
    <2> QED
        BY <2>1, <2>6, <2>7
<1>6. CASE \E x \in Chars : Echo(x)
    <2>1. /\ dial = "echo" /\ sent' = sent
          /\ \/ dial' = "echo" /\ frames' = frames
             \/ dial' = "send" /\ frames' = Append(Front(frames), Step(g))
        BY <1>1, <1>6 DEF Echo, Go
    <2>2. Said(g.str, g.at + 1, t, s \o <<>>)
        BY <1>3, <2>1 DEF Saying
    <2>3. CASE dial' = "echo" /\ frames' = frames
        BY <1>2, <2>1, <2>2, <2>3 DEF Saying
    <2>4. CASE dial' = "send" /\ frames' = Append(Front(frames), Step(g))
        BY <1>1, <1>2, <2>1, <2>2, <2>4 DEF Saying
    <2> QED
        BY <2>1, <2>3, <2>4
<1>7. CASE SendSpecial /\ Item.c # "T"
    <2>1. PICK h \in Frame : h.str = g.str /\ h.at = g.at + 1 /\ frames' = Append(Front(frames), h) \o <<>>
        <3> DEFINE h == CASE Item.c = "e" -> [Step(Top) EXCEPT !.echocheck = FALSE]
                          [] Item.c = "E" -> [Step(Top) EXCEPT !.echocheck = TRUE]
                          [] OTHER        -> Step(Top)
        <3>1. frames' = Append(Front(frames), h) \o <<>>
            BY <1>7 DEF SendSpecial
        <3>2. h \in Frame /\ h.str = g.str /\ h.at = g.at + 1
            BY <1>1 DEF Frame, Step
        <3> HIDE DEF h
        <3> QED
            BY <3>1, <3>2
    <2>2. frames' = Append(Front(frames), h)
        <3>1. Append(Front(frames), h) \in Seq(Frame)
            BY AppendProperties
        <3> QED
            BY <2>1, <3>1, ConcatEmptySeq
    <2>3. /\ dial = "send" /\ dial' = "send" /\ sent' = sent /\ ~AtEnd
          /\ Item.esc /\ Item.c \in {"c", "d", "p", "e", "E"} /\ ~(Item.c = "c" /\ g.at = Len(g.str))
        BY <1>1, <1>7 DEF SendSpecial, Sending
    <2>4. Said(g.str, g.at, t, s) /\ g.at \in 1 .. Len(g.str) /\ Item \in Items
        BY <1>4, <2>3
    <2>5. ~BadEscape(Item) /\ Piece(Item, t) = <<>> /\ (Item = Slash("c") => Item.c = "c")
        BY <2>3, <2>4, ItemKinds
    <2>6. Said(g.str, g.at + 1, t, s \o <<>>)
        <3>1. /\ g.at <= Len(g.str) /\ ~BadEscape(g.str[g.at]) /\ ~(g.str[g.at] = Slash("c") /\ g.at = Len(g.str))
              /\ Piece(g.str[g.at], t) = <<>>
            BY <1>1, <2>3, <2>4, <2>5
        <3> QED
            BY <1>1, <2>4, <3>1, SaidNext
    <2> QED
        BY <1>2, <2>1, <2>2, <2>3, <2>6 DEF Saying
<1> QED
    BY <1>5, <1>6, <1>7

\* The step writes what is missing from s to w.
Completes(s, w) == \E x \in Seq(Letters) : sent' = sent \o x /\ w = s \o x

\* The innermost call returns, and has then written the whole text.
LEMMA CallReturns ==
    ASSUME NEW g \in Frame, NEW t \in Seq(Letters), NEW s, Saying(dial, g, t, s),
           sent \in Seq(Letters), Last(frames) = g, Cr \/ NoCr \/ (BadSend /\ Len(frames) > 1)
    PROVE  /\ frames' = Front(frames) /\ dial' = IF Len(frames) = 1 THEN "sentall" ELSE "send"
           /\ Completes(s, Text(g.str, t))
<1>1. /\ Top = g /\ Item = g.str[g.at] /\ g.str \in Seq(Items) /\ g.at \in Nat /\ Len(g.str) \in Nat
    BY LenProperties DEF Top, Item, Frame
<1>2. dial = "send" /\ frames' = Front(frames) /\ dial' = IF Len(frames) = 1 THEN "sentall" ELSE "send"
    BY DEF Cr, NoCr, BadSend, Sending, Return, Go
<1>3. Said(g.str, g.at, t, s)
    BY <1>2 DEF Saying
<1>4. "CR" \in Letters /\ <<"CR">> \in Seq(Letters) /\ <<>> \in Seq(Letters) /\ sent \o <<>> = sent
    <2>1. "CR" \in Letters
        BY DEF Letters
    <2> QED
        BY <2>1, EmptySeq, ConcatEmptySeq, Tuples
<1>5. CASE Cr
    <2>1. g.at > Len(g.str) /\ sent' = Append(sent, "CR")
        BY <1>1, <1>5 DEF Cr, AtEnd
    <2>2. sent' = sent \o <<"CR">>
        BY <1>4, <2>1, AppendIsConcat
    <2>3. Text(g.str, t) = s \o <<"CR">>
        BY <1>1, <1>3, <2>1, SaidAll
    <2> QED
        BY <1>2, <1>4, <2>2, <2>3 DEF Completes
<1>6. CASE NoCr \/ (BadSend /\ Len(frames) > 1)
    <2>1. /\ sent' = sent /\ g.at <= Len(g.str)
          /\ BadEscape(g.str[g.at]) \/ (g.at = Len(g.str) /\ g.str[g.at] = Slash("c"))
        BY <1>1, <1>6 DEF NoCr, BadSend, AtEnd
    <2>2. Text(g.str, t) = s \o <<>>
        BY <1>1, <1>3, <2>1, SaidAll
    <2> QED
        BY <1>2, <1>4, <2>1, <2>2 DEF Completes
<1> QED
    BY <1>5, <1>6

\* Only the outer call meets a \T.
LEMMA CallsPhone ==
    ASSUME NEW g \in Frame, NEW t \in Seq(Letters), NEW s, Saying(dial, g, t, s),
           Last(frames) = g, SendSpecial, Item.c = "T"
    PROVE  /\ sent' = sent /\ dial' = "send" /\ g.str # Phone
           /\ \E f, h \in Frame : /\ f.str = g.str /\ h.str = Phone /\ h.at = 1
                                  /\ frames' = Append(Front(frames), f) \o <<h>>
                                  /\ Said(g.str, f.at, t, s \o t)
<1>1. /\ Top = g /\ Item = g.str[g.at] /\ g.str \in Seq(Items) /\ g.at \in Nat /\ g.echocheck \in BOOLEAN
      /\ Len(g.str) \in Nat /\ Cut(g.str) \in 0 .. Len(g.str)
    BY LenProperties, CutIs DEF Top, Item, Frame
<1>2. /\ dial = "send" /\ dial' = "send" /\ sent' = sent /\ ~AtEnd /\ Item.esc
      /\ frames' = Append(Front(frames), Step(g)) \o <<[str |-> Phone, at |-> 1, echocheck |-> g.echocheck]>>
    BY <1>1 DEF SendSpecial, Sending
<1>3. Step(g) \in Frame /\ Step(g).str = g.str /\ Step(g).at = g.at + 1
    BY DEF Frame, Step
<1> DEFINE h == [str |-> Phone, at |-> 1, echocheck |-> g.echocheck]
<1>4. h \in Frame /\ h.str = Phone /\ h.at = 1
    BY <1>1, ChatAssumption DEF Frame
<1>5. Said(g.str, g.at, t, s)
    BY <1>2 DEF Saying
<1>6. g.at \in 1 .. Len(g.str)
    BY <1>1, <1>2, <1>5 DEF AtEnd, Said
<1>7. Item \in Items
    BY <1>1, <1>6, ElementOfSeq
<1>8. Item = Slash("T") /\ Piece(Item, t) = t /\ Item # Slash("c") /\ ~BadEscape(Item)
    BY <1>2, <1>7, ItemKinds
<1>9. Said(g.str, g.at + 1, t, s \o t)
    <2>1. /\ g.at <= Len(g.str) /\ ~BadEscape(g.str[g.at]) /\ ~(g.str[g.at] = Slash("c") /\ g.at = Len(g.str))
          /\ Piece(g.str[g.at], t) = t
        BY <1>1, <1>6, <1>8
    <2> QED
        BY <1>1, <1>5, <2>1, SaidNext
<1>10. g.str # Phone
    <2>1. g.at \in DOMAIN g.str /\ g.str[g.at] = Slash("T")
        BY <1>1, <1>6, <1>8
    <2> QED
        BY <2>1, ChatAssumption
<1> HIDE DEF h
<1>11. frames' = Append(Front(frames), Step(g)) \o <<h>>
    BY <1>2 DEF h
<1> QED
    BY <1>2, <1>3, <1>4, <1>9, <1>10, <1>11

\* A call begins with nothing written.
LEMMA SaidFirst ==
    ASSUME NEW str \in Seq(Items), NEW t \in Seq(Letters)
    PROVE  Said(str, 1, t, <<>>)
<1>1. Upto(str, t, 0) = <<>> /\ Cut(str) \in 0 .. Len(str) /\ Len(str) \in Nat
    BY UptoIs, CutIs, LenProperties
<1>2. Len(str) = 0 => str = <<>>
    BY EmptySeq
<1> QED
    BY <1>1, <1>2 DEF Said

\* Every step keeps what send_str and its call for the phone number have written.
LEMMA SendKnownNext ==
    ASSUME ExpectKnown, SendKnown, [ChatNext]_chatVars
    PROVE  SendKnown'
<1>1. chat \in Seq(Seq(Items) \ {<<>>}) /\ chat' = chat /\ sent \in Seq(Letters)
    <2>1. chat \in Chats
        BY DEF ExpectKnown
    <2>2. chat' = chat
        BY DEF ChatNext, TtyDial, chatVars, ExpectNothing, BadExpect, Expect, TestFlag, EnterRead, Spin, Overrun,
               Got, SendChar, SendSpecial, NoCr, Cr, BadSend, SentAll, SigAlrm, Hangup, Hear, Echo
    <2> QED
        BY <2>1, <2>2, ChatAssumption DEF SendKnown
<1>2. PhoneText \in Seq(Letters) /\ Phone \in Seq(Items) /\ <<>> \in Seq(Letters)
    BY ChatAssumption, UptoIs, EmptySeq DEF PhoneText
<1>3. CASE /\ dial' \notin {"send", "echo", "sentall"}
           /\ sent' = sent
    BY <1>1, <1>3 DEF SendKnown
<1>4. CASE TestFlag \/ EnterRead \/ SigAlrm \/ Spin \/ UNCHANGED chatVars
    BY <1>4 DEF TestFlag, EnterRead, SigAlrm, Spin, chatVars, SendKnown, Outer, Inner
<1>5. CASE Got
    <2>1. CASE k = Len(chat)
        BY <1>2, <1>5, <2>1 DEF Got, Go, SendKnown
    <2>2. CASE k # Len(chat)
        <3>1. dial' = "send" /\ k' = k + 1 /\ sent' = <<>>
              /\ frames' = <<[str |-> chat[k + 1], at |-> 1, echocheck |-> FALSE]>>
            BY <1>5, <2>2 DEF Got, Go
        <3>2. k \in 1 .. Len(chat) /\ Len(chat) \in Nat
            BY <1>1, LenProperties DEF ExpectKnown
        <3>3. chat[k + 1] \in Seq(Items) /\ chat[k + 1] = chat'[k']
            BY <1>1, <2>2, <3>1, <3>2
        <3>4. PICK f \in Frame : frames' = <<f>> /\ f.str = chat'[k'] /\ f.at = 1 /\ f.str \in Seq(Items)
            <4>1. [str |-> chat[k + 1], at |-> 1, echocheck |-> FALSE] \in Frame
                BY <3>3 DEF Frame
            <4> QED
                BY <3>1, <3>3, <4>1
        <3>5. Said(f.str, 1, PhoneText, <<>>)
            BY <1>2, <3>4, SaidFirst
        <3>6. Saying(dial', f, PhoneText, sent')
            BY <3>1, <3>4, <3>5 DEF Saying
        <3>7. Outer(f)'
            BY <3>4, <3>6 DEF Outer, PhoneText
        <3>8. sent' \in Seq(Letters)
            BY <1>2, <3>1
        <3> QED
            BY <3>1, <3>4, <3>7, <3>8 DEF SendKnown
    <2> QED
        BY <2>1, <2>2
<1> DEFINE On == SendChar \/ (\E x \in Chars : Echo(x)) \/ (SendSpecial /\ Item.c # "T")
           Over == Cr \/ NoCr \/ (BadSend /\ Len(frames) > 1)
           Calls == SendSpecial /\ Item.c = "T"
<1>6. CASE On \/ Over \/ Calls
    <2>1. dial \in {"send", "echo"} /\ k' = k
        BY <1>6 DEF SendChar, SendSpecial, Echo, Cr, NoCr, BadSend, Sending
    <2>2. PICK f \in Frame : f.str = chat[k] /\ (Outer(f) \/ \E g \in Frame : Inner(f, g))
        BY <2>1 DEF SendKnown
    <2>3. CASE Outer(f)
        <3>1. frames = <<f>> /\ Saying(dial, f, PhoneText, sent)
            BY <2>3 DEF Outer
        <3>2. Last(frames) = f /\ Front(frames) = <<>> /\ Len(frames) = 1 /\ Front(frames) \in Seq(Frame)
            BY <3>1, StackOf
        <3>3. CASE On
            <4>1. PICK h \in Frame, x \in Seq(Letters) :
                     /\ h.str = f.str /\ ((frames' = frames /\ h = f) \/ frames' = Append(Front(frames), h))
                     /\ dial' \in {"send", "echo"}
                     /\ sent' = sent \o x /\ Saying(dial', h, PhoneText, sent \o x)
                BY <1>1, <1>2, <3>1, <3>2, <3>3, CallGoesOn
            <4>2. frames' = <<h>>
                BY <3>1, <3>2, <4>1, StackOf
            <4>3. Outer(h)' /\ sent' \in Seq(Letters)
                BY <1>1, <4>1, <4>2, ConcatProperties DEF Outer
            <4> QED
                BY <1>1, <2>1, <2>2, <4>1, <4>3 DEF SendKnown
        <3>4. CASE Over
            <4>1. dial' = "sentall" /\ Completes(sent, Text(f.str, PhoneText))
                BY <1>1, <1>2, <3>1, <3>2, <3>4, CallReturns
            <4>2. sent' = Text(f.str, PhoneText) /\ sent' \in Seq(Letters)
                BY <1>1, <4>1, ConcatProperties DEF Completes
            <4> QED
                BY <1>1, <2>1, <2>2, <4>1, <4>2 DEF SendKnown
        <3>5. CASE Calls
            <4>1. sent' = sent /\ dial' = "send" /\ \E e, h \in Frame :
                     /\ e.str = f.str /\ h.str = Phone /\ h.at = 1
                     /\ frames' = Append(Front(frames), e) \o <<h>>
                     /\ Said(f.str, e.at, PhoneText, sent \o PhoneText)
                BY <1>2, <3>1, <3>2, <3>5, CallsPhone
            <4>2. PICK e \in Frame, h \in Frame :
                     /\ e.str = f.str /\ h.str = Phone /\ h.at = 1
                     /\ frames' = Append(Front(frames), e) \o <<h>>
                     /\ Said(f.str, e.at, PhoneText, sent \o PhoneText)
                BY <4>1
            <4>3. frames' = <<e, h>>
                <5>1. Append(Front(frames), e) = <<e>> /\ <<e>> \o <<h>> = <<e, h>>
                    BY <3>2, StackOf
                <5> QED
                    BY <4>2, <5>1
            <4>4. Saying(dial', h, <<>>, <<>>)
                BY <1>2, <4>1, <4>2, SaidFirst DEF Saying
            <4>5. sent' = sent \o <<>>
                BY <1>1, <4>1, ConcatEmptySeq
            <4>6. Inner(e, h)'
                BY <1>1, <1>2, <4>2, <4>3, <4>4, <4>5 DEF Inner
            <4> QED
                BY <1>1, <2>1, <2>2, <4>1, <4>2, <4>6 DEF SendKnown
        <3> QED
            BY <1>6, <3>3, <3>4, <3>5
    <2>4. CASE \E g \in Frame : Inner(f, g)
        <3>1. PICK g \in Frame : Inner(f, g)
            BY <2>4
        <3>2. PICK s0 \in Seq(Letters), s \in Seq(Letters) :
                  /\ Said(f.str, f.at, PhoneText, s0 \o PhoneText)
                  /\ sent = s0 \o s /\ Saying(dial, g, <<>>, s)
            BY <3>1 DEF Inner
        <3>3. frames = <<f, g>> /\ g.str = Phone
            BY <3>1 DEF Inner
        <3>4. Last(frames) = g /\ Front(frames) = <<f>> /\ Len(frames) = 2 /\ Front(frames) \in Seq(Frame)
            BY <3>3, StackOf
        <3>5. CASE On
            <4>1. PICK h \in Frame, x \in Seq(Letters) :
                     /\ h.str = g.str /\ ((frames' = frames /\ h = g) \/ frames' = Append(Front(frames), h))
                     /\ dial' \in {"send", "echo"}
                     /\ sent' = sent \o x /\ Saying(dial', h, <<>>, s \o x)
                BY <1>1, <1>2, <3>2, <3>4, <3>5, CallGoesOn
            <4>2. frames' = <<f, h>>
                BY <3>3, <3>4, <4>1, StackOf
            <4>3. sent' = s0 \o (s \o x) /\ s \o x \in Seq(Letters) /\ sent' \in Seq(Letters)
                <5>1. Assoc(s0, s, x) /\ s \o x \in Seq(Letters)
                    BY <3>2, AssocHolds, ConcatProperties
                <5>2. sent' \in Seq(Letters)
                    BY <1>1, <4>1, ConcatProperties
                <5> QED
                    BY <3>2, <4>1, <5>1, <5>2 DEF Assoc
            <4>4. Inner(f, h)'
                BY <3>2, <3>3, <4>1, <4>2, <4>3 DEF Inner
            <4> QED
                BY <1>1, <2>1, <2>2, <4>1, <4>3, <4>4 DEF SendKnown
        <3>6. CASE Over
            <4>1. frames' = <<f>> /\ dial' = "send" /\ Completes(s, PhoneText)
                <5>1. sent \in Seq(Letters) /\ <<>> \in Seq(Letters) /\ Last(frames) = g /\ Saying(dial, g, <<>>, s)
                      /\ (Cr \/ NoCr \/ (BadSend /\ Len(frames) > 1))
                    BY <1>1, <1>2, <3>2, <3>4, <3>6
                <5>2. /\ frames' = Front(frames) /\ dial' = IF Len(frames) = 1 THEN "sentall" ELSE "send"
                      /\ Completes(s, Text(g.str, <<>>))
                    BY <5>1, CallReturns
                <5> QED
                    BY <3>3, <3>4, <5>2 DEF PhoneText
            <4>2. PICK x \in Seq(Letters) : sent' = sent \o x /\ PhoneText = s \o x
                BY <4>1 DEF Completes
            <4>3. sent' = s0 \o PhoneText /\ sent' \in Seq(Letters)
                <5>1. Assoc(s0, s, x) /\ sent' \in Seq(Letters)
                    BY <1>1, <3>2, <4>2, AssocHolds, ConcatProperties
                <5> QED
                    BY <3>2, <4>2, <5>1 DEF Assoc
            <4>4. Outer(f)'
                BY <3>2, <4>1, <4>3 DEF Outer, Saying
            <4> QED
                BY <1>1, <2>1, <2>2, <4>1, <4>3, <4>4 DEF SendKnown
        <3>7. ~Calls
            BY <1>2, <3>2, <3>3, <3>4, CallsPhone
        <3> QED
            BY <1>6, <3>5, <3>6, <3>7
    <2> QED
        BY <2>2, <2>3, <2>4
<1>7. On \/ Over \/ Calls \/ Got \/ TestFlag \/ EnterRead \/ SigAlrm \/ Spin \/ UNCHANGED chatVars
      \/ (dial' \notin {"send", "echo", "sentall"} /\ sent' = sent)
    <2>1. CASE BadSend /\ ~(Len(frames) > 1)
        BY <2>1 DEF BadSend, Go
    <2>2. CASE ExpectNothing \/ BadExpect \/ Expect \/ Overrun \/ SentAll \/ Hangup \/ \E x \in Chars : Hear(x)
        BY <2>2 DEF ExpectNothing, BadExpect, Expect, Overrun, SentAll, Hangup, Hear, Go, Compare, Expecting
    <2> QED
        BY <2>1, <2>2 DEF ChatNext, TtyDial
<1> HIDE DEF On, Over, Calls
<1> QED
    BY <1>3, <1>4, <1>5, <1>6, <1>7

\* expect_str, when it was in time, returns at the first occurrence of its string
\* in what the modem has sent, and send_str has written its string with the
\* phone number in it, whatever echoes it has waited for.
THEOREM ChatIsExact == ChatSpec => []ChatExact
<1> DEFINE Known == ExpectKnown /\ SendKnown
<1>1. ChatInit => Known
    <2> SUFFICES ASSUME ChatInit PROVE ExpectKnown /\ SendKnown
        OBVIOUS
    <2>1. <<>> \in Seq(Letters) /\ chat \in Chats /\ Len(chat) \in Nat /\ chat # <<>>
        BY ChatAssumption, EmptySeq, LenProperties DEF ChatInit
    <2>2. 1 \in 1 .. Len(chat)
        <3>1. Len(chat) # 0
            BY <2>1, ChatAssumption, EmptySeq
        <3> QED
            BY <2>1, <3>1
    <2> QED
        BY <2>1, <2>2 DEF ChatInit, ExpectKnown, SendKnown, Expecting
<1>2. Known /\ [ChatNext]_chatVars => Known'
    BY ExpectKnownNext, SendKnownNext
<1>3. Known => ChatExact
    <2> SUFFICES ASSUME ExpectKnown, SendKnown PROVE ChatExact
        OBVIOUS
    <2>1. ASSUME dial = "got" /\ ~caught_alrm /\ chat[k] # Nothing
          PROVE  /\ IsSuffix(Expstr, heard)
                 /\ \A n \in 0 .. Len(heard) - 1 : ~IsSuffix(Expstr, SubSeq(heard, 1, n))
        <3>1. /\ Ends(Expstr, heard, Len(heard)) /\ \A m \in 0 .. Len(heard) - 1 : ~Ends(Expstr, heard, m)
              /\ heard \in Seq(Letters) /\ chat \in Chats /\ k \in 1 .. Len(chat)
            BY <2>1 DEF ExpectKnown
        <3>2. Expstr \in Seq(Letters)
            BY <3>1, ExpstrIs
        <3>3. IsSuffix(Expstr, heard)
            BY <3>1, <3>2, SuffixIs
        <3>4. ASSUME NEW n \in 0 .. Len(heard) - 1 PROVE ~IsSuffix(Expstr, SubSeq(heard, 1, n))
            <4>1. n \in 0 .. Len(heard)
                BY <3>1, LenProperties
            <4> QED
                BY <3>1, <3>2, <4>1, SuffixAt
        <3> QED
            BY <3>3, <3>4
    <2>2. dial = "sentall" => sent = Text(chat[k], Text(Phone, <<>>))
        BY DEF SendKnown, PhoneText
    <2> QED
        BY <2>1, <2>2 DEF ChatExact
<1> QED
    BY <1>1, <1>2, <1>3, PTL DEF ChatSpec

-----------------------------------------------------------------------------
(* The walk of a directory tree: the invariant. *)

DirSpec == DirInit /\ [][DirNext]_dirVars

Texts == Names \cup {"/", "."}
Bytes == Seq({"x", "y", "NUL"})

\* Between the call of doPath for a file and the opendir.
Visiting == at \in {"doPath", "func", "opendir"}
Walking  == Visiting \/ at = "return"

\* Where the walk starts and where it is.
Start == Place(in_path)
Here  == Place(fullpath)

WalkTypes ==
    /\ command \in Commands /\ fs \in [Places -> Files \cup {NoNode}]
    /\ at \in {"main", "quit", "names", "reported"} \/ Walking
    /\ at = "main" => /\ fs = Tree /\ touched = {} /\ seen = <<>>
                      /\ counts = [x \in Kinds \cup {"small"} |-> 0]
    /\ at \in {"main", "names", "reported"} => dirs = <<>>
    /\ at = "names" => command.mode = "name"
    /\ at \in {"main", "names"} \/ command.mode = "stat" => printed = <<>>
    /\ in_path \in Seq(Texts) /\ (at \in {"main", "quit"} \/ in_path # <<>>)
    /\ filebuf \in Bytes /\ printed \in Seq(Seq(Texts))
    /\ counts \in [Kinds \cup {"small"} -> Nat] /\ seen \in Seq([path : Seq(Texts), node : Files])

\* The buffer: what each activation wrote, one behind the other.
BufKnown ==
    /\ fullpath \in Seq(Texts) /\ dirs \in Seq([ptr : Nat, left : SUBSET Names])
    /\ \A i \in DOMAIN dirs : 2 <= dirs[i].ptr /\ dirs[i].ptr <= Len(fullpath) + 1
    /\ \A i, j \in DOMAIN dirs : i < j => dirs[i].ptr < dirs[j].ptr
    /\ Visiting /\ dirs = <<>> => fullpath = in_path
    /\ Visiting /\ dirs # <<>> => \E name \in Names : fullpath = Append(Stem(Len(dirs)), name)

\* What lstat has told and func is to be called with.
CalledKnown ==
    at = "func" =>
        /\ called.node \in Files \cup {NoNode} /\ (Here \notin Places => called.node = NoNode)
        /\ Here \notin touched => called.node = NodeAt(Here)
        /\ called.type = IF called.node = NoNode THEN "FTW_NS"
                         ELSE IF IsDir(called.node) THEN "FTW_D" ELSE "FTW_F"

\* From the start of the walk to a place there were open directories.
Way(place) == \A q \in Prefixes(place) : Start \in Prefixes(q) /\ q \notin touched =>
                 q \in Places /\ IsDir(fs[q]) /\ fs[q].open

\* What an activation has still to return leads to place only if it was changed.
Apart(i, place) == \A name \in dirs[i].left :
    Append(Home(i), name) \in touched \/ Append(Home(i), name) \notin Prefixes(place)

\* The activations are in nested directories, each one level below the other,
\* and have the names behind them that are not above where the next ones are.
StackKnown ==
    /\ \A i \in DOMAIN dirs :
          /\ Start \in Prefixes(Home(i)) /\ Way(Home(i)) /\ Len(Home(i)) = Len(Start) + i - 1
          /\ \A j \in DOMAIN dirs : i < j => Apart(i, Home(j))
    /\ Visiting => /\ Start \in Prefixes(Here) /\ Len(Here) = Len(Start) + Len(dirs)
                   /\ \A i \in DOMAIN dirs : Apart(i, Here)

\* myfind starts in a directory, and its pathnames are the shortest ones.
CanonKnown ==
    /\ command.prog = "myfind" /\ at \notin {"main", "quit"} =>
          Start \in Places /\ (Start \in touched \/ IsDir(fs[Start]))
    /\ command.mode # "stat" /\ at \notin {"main", "quit"} =>
          /\ in_path = getAbsPath(Start)
          /\ \A i \in DOMAIN dirs : Stem(i) = getAbsPath(Home(i))
    /\ command.mode = "name" /\ Walking => "/" \notin ToSet(command.names[argi])

\* The source file of -comp: a file of the root directory has a wrong name.
SourceKnown ==
    command.mode = "comp" /\ Walking =>
        LET source == Place(command.source)
        IN  /\ source # <<>> /\ source # Start
            /\ \/ in_filepath = Append(getAbsPath(Front(source)), Last(source))
               \/ /\ Len(source) = 1 /\ Head(command.source) = "/"
                  /\ in_filepath = getAbsPath(Cwd) \o <<"/", Last(source)>>

\* What is still to be visited.
Todo == {p \in Places : \/ Visiting /\ Here \in Prefixes(p) /\ (at = "opendir" => p # Here)
                        \/ \E i \in DOMAIN dirs : \E name \in dirs[i].left :
                              Append(Home(i), name) \in Prefixes(p)}

CompRight(p) ==
    /\ TimesPrinted(p) <= (IF SameText(p) THEN 1 ELSE 0)
    /\ SameText(p) /\ HasEnd(filebuf) => TimesPrinted(p) = 1

NameRight(p) ==
    TimesPrinted(p) = IF /\ fs[p].kind # "dir" /\ Len(p) > 1
                         /\ <<Last(p)>> = command.names[argi] THEN 1 ELSE 0

PrintKnown ==
    Walking \/ at = "reported" =>
        /\ \A p \in Steady \cap Todo : TimesPrinted(p) = 0
        /\ command.mode = "comp" =>
              /\ \A p \in (Steady \ Todo) \ {Place(command.source)} : CompRight(p)
              /\ Len(Place(command.source)) # 1 \/ Head(command.source) # "/" =>
                    TimesPrinted(Place(command.source)) = 0
        /\ command.mode = "name" => \A p \in Steady \ Todo : NameRight(p)

\* What findStat has counted.
CountKnown ==
    command.mode = "stat" /\ (Walking \/ at = "reported") =>
        /\ \A p \in Steady \cap Todo : SeenAt(p) = {}
        /\ \A p \in Steady \ Todo : \E i \in DOMAIN seen : SeenAt(p) = {i} /\ seen[i].node = fs[p]
        /\ \A x \in Kinds : counts[x] = Cardinality({i \in DOMAIN seen : seen[i].node.kind = x})
        /\ counts["small"] = Cardinality({i \in DOMAIN seen : SmallReg(seen[i].node)})

WalkInv == /\ WalkTypes /\ BufKnown /\ CalledKnown /\ StackKnown /\ CanonKnown
           /\ SourceKnown /\ PrintKnown /\ CountKnown

-----------------------------------------------------------------------------
(* Prefixes. *)

\* The prefixes of a sequence by their elements.
LEMMA PrefixIs ==
    ASSUME NEW S, NEW p \in Seq(S), NEW q
    PROVE  q \in Prefixes(p) <=> /\ q \in Seq(S) /\ Len(q) <= Len(p)
                                 /\ \A i \in 1 .. Len(q) : q[i] = p[i]
<1>1. Len(p) \in Nat /\ \A i \in 1 .. Len(p) : p[i] \in S
    BY LenProperties
<1>2. ASSUME NEW l \in 0 .. Len(p)
      PROVE  /\ SubSeq(p, 1, l) \in Seq(S) /\ Len(SubSeq(p, 1, l)) = l
             /\ \A i \in 1 .. l : SubSeq(p, 1, l)[i] = p[i]
    BY <1>1, SubSeqProperties
<1>3. ASSUME q \in Seq(S), Len(q) <= Len(p), \A i \in 1 .. Len(q) : q[i] = p[i]
      PROVE  Len(q) \in 0 .. Len(p) /\ q = SubSeq(p, 1, Len(q))
    <2>1. Len(q) \in 0 .. Len(p)
        BY <1>1, <1>3, LenProperties
    <2> QED
        BY <1>2, <1>3, <2>1, SeqEqual
<1> QED
    BY <1>2, <1>3 DEF Prefixes

\* Of two prefixes of one sequence, the shorter is a prefix of the longer.
LEMMA PrefixLaws ==
    ASSUME NEW S, NEW p \in Seq(S)
    PROVE  /\ p \in Prefixes(p)
           /\ \A q \in Prefixes(p) :
                 /\ q \in Seq(S) /\ Len(q) \in 0 .. Len(p) /\ (Len(q) = Len(p) => q = p)
                 /\ Prefixes(q) \subseteq Prefixes(p)
                 /\ \A r \in Prefixes(p) : Len(q) <= Len(r) => q \in Prefixes(r)
                 /\ q # p => p[Len(q) + 1] \in S /\ Append(q, p[Len(q) + 1]) \in Prefixes(p)
<1>1. Len(p) \in Nat /\ \A i \in 1 .. Len(p) : p[i] \in S
    BY LenProperties
<1>2. p \in Prefixes(p)
    BY <1>1, PrefixIs
<1>3. ASSUME NEW q \in Prefixes(p)
      PROVE  /\ q \in Seq(S) /\ Len(q) \in 0 .. Len(p) /\ (Len(q) = Len(p) => q = p)
             /\ Prefixes(q) \subseteq Prefixes(p)
             /\ \A r \in Prefixes(p) : Len(q) <= Len(r) => q \in Prefixes(r)
             /\ q # p => p[Len(q) + 1] \in S /\ Append(q, p[Len(q) + 1]) \in Prefixes(p)
    <2>1. q \in Seq(S) /\ Len(q) <= Len(p) /\ \A i \in 1 .. Len(q) : q[i] = p[i]
        BY PrefixIs
    <2>2. Len(q) \in 0 .. Len(p)
        BY <1>1, <2>1, LenProperties
    <2>3. Len(q) = Len(p) => q = p
        BY <2>1, SeqEqual
    <2>4. ASSUME NEW r \in Prefixes(q) PROVE r \in Prefixes(p)
        <3>1. r \in Seq(S) /\ Len(r) <= Len(q) /\ \A i \in 1 .. Len(r) : r[i] = q[i]
            BY <2>1, PrefixIs
        <3>2. Len(r) \in Nat
            BY <3>1, LenProperties
        <3>3. Len(r) <= Len(p) /\ \A i \in 1 .. Len(r) : r[i] = p[i]
            BY <1>1, <2>1, <2>2, <3>1, <3>2
        <3> QED
            BY <3>1, <3>3, PrefixIs
    <2>5. ASSUME NEW r \in Prefixes(p), Len(q) <= Len(r) PROVE q \in Prefixes(r)
        <3>1. r \in Seq(S) /\ \A i \in 1 .. Len(r) : r[i] = p[i]
            BY PrefixIs
        <3>2. Len(r) \in Nat
            BY <3>1, LenProperties
        <3>3. \A i \in 1 .. Len(q) : q[i] = r[i]
            BY <2>1, <2>2, <2>5, <3>1, <3>2
        <3> QED
            BY <2>1, <2>5, <3>1, <3>3, PrefixIs
    <2>6. ASSUME q # p PROVE p[Len(q) + 1] \in S /\ Append(q, p[Len(q) + 1]) \in Prefixes(p)
        <3>1. Len(q) + 1 \in 1 .. Len(p)
            BY <1>1, <2>2, <2>3, <2>6
        <3>2. p[Len(q) + 1] \in S
            BY <1>1, <3>1
        <3> DEFINE r == Append(q, p[Len(q) + 1])
        <3>3. /\ r \in Seq(S) /\ Len(r) = Len(q) + 1 /\ r[Len(q) + 1] = p[Len(q) + 1]
              /\ \A i \in 1 .. Len(q) : r[i] = q[i]
            BY <2>1, <3>2, AppendProperties
        <3> HIDE DEF r
        <3>4. \A i \in 1 .. Len(r) : r[i] = p[i]
            BY <2>1, <2>2, <3>3
        <3>5. r \in Prefixes(p)
            BY <3>1, <3>3, <3>4, PrefixIs
        <3> QED
            BY <3>2, <3>5 DEF r
    <2> QED
        BY <2>1, <2>2, <2>3, <2>4, <2>5, <2>6
<1> QED
    BY <1>2, <1>3

\* One more name.
LEMMA PrefixAppend ==
    ASSUME NEW S, NEW p \in Seq(S), NEW x \in S
    PROVE  Prefixes(Append(p, x)) = Prefixes(p) \cup {Append(p, x)}
<1> DEFINE r == Append(p, x)
<1>1. /\ r \in Seq(S) /\ Len(r) = Len(p) + 1 /\ Len(p) \in Nat /\ \A i \in 1 .. Len(p) : r[i] = p[i]
    BY AppendProperties, LenProperties
<1> HIDE DEF r
<1>2. p \in Prefixes(r)
    BY <1>1, PrefixIs
<1>3. Prefixes(p) \subseteq Prefixes(r) /\ r \in Prefixes(r)
    BY <1>1, <1>2, PrefixLaws
<1>4. ASSUME NEW q \in Prefixes(r), q # r PROVE q \in Prefixes(p)
    <2>1. Len(q) \in 0 .. Len(r) /\ Len(q) # Len(r)
        BY <1>1, <1>4, PrefixLaws
    <2>2. Len(q) <= Len(p)
        BY <1>1, <2>1
    <2> QED
        BY <1>1, <1>2, <2>2, PrefixLaws
<1>5. Prefixes(r) = Prefixes(p) \cup {r}
    BY <1>3, <1>4
<1> QED
    BY <1>5 DEF r

\* A sequence is its front and its last element.
LEMMA FrontLast ==
    ASSUME NEW S, NEW p \in Seq(S), p # <<>>
    PROVE  Front(p) \in Seq(S) /\ Last(p) \in S /\ p = Append(Front(p), Last(p)) /\ Len(Front(p)) = Len(p) - 1
<1>1. Len(p) \in Nat \ {0} /\ \A i \in 1 .. Len(p) : p[i] \in S
    BY EmptySeq, LenProperties
<1>2. /\ Front(p) \in Seq(S) /\ Len(Front(p)) = Len(p) - 1 /\ Last(p) \in S
      /\ \A i \in 1 .. Len(p) - 1 : Front(p)[i] = p[i]
    <2>1. \A i \in 1 .. Len(p) - 1 : p[i] \in S
        BY <1>1
    <2>2. 1 \in Int /\ Len(p) - 1 \in Int /\ Len(p) \in 1 .. Len(p) /\ 1 <= Len(p)
        BY <1>1
    <2>3. /\ SubSeq(p, 1, Len(p) - 1) \in Seq(S)
          /\ Len(SubSeq(p, 1, Len(p) - 1)) = IF 1 <= Len(p) - 1 THEN (Len(p) - 1) - 1 + 1 ELSE 0
          /\ \A i \in 1 .. (Len(p) - 1) - 1 + 1 : SubSeq(p, 1, Len(p) - 1)[i] = p[1 + i - 1]
        BY <2>1, <2>2, SubSeqProperties
    <2>4. p[Len(p)] \in S
        BY <1>1, <2>2
    <2>5. Len(SubSeq(p, 1, Len(p) - 1)) = Len(p) - 1
        <3> DEFINE n == Len(p)
                   l == Len(SubSeq(p, 1, Len(p) - 1))
        <3>1. n \in Nat \ {0} /\ l = IF 1 <= n - 1 THEN (n - 1) - 1 + 1 ELSE 0
            BY <1>1, <2>3
        <3> HIDE DEF n, l
        <3>2. l = n - 1
            BY <3>1
        <3> QED
            BY <3>2 DEF n, l
    <2>6. \A i \in 1 .. Len(p) - 1 : SubSeq(p, 1, Len(p) - 1)[i] = p[i]
        BY <1>1, <2>3
    <2> QED
        BY <2>3, <2>4, <2>5, <2>6 DEF Front, Last
<1>3. /\ Append(Front(p), Last(p)) \in Seq(S) /\ Len(Append(Front(p), Last(p))) = Len(p)
      /\ \A i \in 1 .. Len(p) - 1 : Append(Front(p), Last(p))[i] = p[i]
      /\ Append(Front(p), Last(p))[Len(p)] = p[Len(p)]
    BY <1>1, <1>2, AppendProperties DEF Last
<1>4. Append(Front(p), Last(p)) = p
    BY <1>1, <1>3, SeqEqual
<1> QED
    BY <1>2, <1>4

-----------------------------------------------------------------------------
(* Pathnames and the places they lead to. *)

\* The names of a pathname, as Place takes them.
NamesOf(path) == FlattenSeq([i \in DOMAIN path |->
                                IF path[i] \in {"/", "."} THEN <<>> ELSE <<path[i]>>])

LEMMA NamesAppend ==
    /\ NamesOf(<<>>) = <<>>
    /\ \A path \in Seq(Texts) :
          /\ NamesOf(path) \in Seq(Names)
          /\ \A t \in Texts : NamesOf(Append(path, t)) =
                                 IF t \in {"/", "."} THEN NamesOf(path) ELSE Append(NamesOf(path), t)
<1> DEFINE W(t) == IF t \in {"/", "."} THEN <<>> ELSE <<t>>
           F(path) == [i \in DOMAIN path |-> W(path[i])]
<1>1. \A t \in Texts : W(t) \in Seq(Names)
    BY TreeAssumption DEF Texts
<1>2. ASSUME NEW path \in Seq(Texts)
      PROVE  /\ F(path) \in Seq(Seq(Names)) /\ Len(F(path)) = Len(path)
             /\ \A i \in 1 .. Len(path) : F(path)[i] = W(path[i])
    <2>1. Len(path) \in Nat /\ DOMAIN path = 1 .. Len(path) /\ \A i \in 1 .. Len(path) : path[i] \in Texts
        BY LenProperties
    <2>2. F(path) \in [1 .. Len(path) -> Seq(Names)]
        BY <1>1, <2>1
    <2> QED
        BY <2>1, <2>2
<1> HIDE DEF W, F
<1>3. ASSUME NEW path \in Seq(Texts), NEW t \in Texts PROVE F(Append(path, t)) = Append(F(path), W(t))
    <2> DEFINE q == Append(path, t)
               r == Append(F(path), W(t))
    <2>1. /\ q \in Seq(Texts) /\ Len(q) = Len(path) + 1 /\ Len(path) \in Nat
          /\ (\A i \in 1 .. Len(path) : q[i] = path[i]) /\ q[Len(path) + 1] = t
        BY AppendProperties, LenProperties
    <2>2. /\ r \in Seq(Seq(Names)) /\ Len(r) = Len(path) + 1
          /\ (\A i \in 1 .. Len(path) : r[i] = F(path)[i]) /\ r[Len(path) + 1] = W(t)
        BY <1>1, <1>2, AppendProperties
    <2>3. F(q) \in Seq(Seq(Names)) /\ Len(F(q)) = Len(q) /\ \A i \in 1 .. Len(q) : F(q)[i] = W(q[i])
        BY <1>2, <2>1
    <2> HIDE DEF q, r
    <2>4. \A i \in 1 .. Len(r) : F(q)[i] = r[i]
        <3> TAKE i \in 1 .. Len(r)
        <3>1. i \in 1 .. Len(q) /\ F(q)[i] = W(q[i])
            BY <2>1, <2>2, <2>3
        <3>2. CASE i = Len(path) + 1
            BY <2>1, <2>2, <3>1, <3>2
        <3>3. CASE i # Len(path) + 1
            <4>1. i \in 1 .. Len(path)
                BY <2>1, <3>1, <3>3
            <4> QED
                BY <1>2, <2>1, <2>2, <3>1, <4>1
        <3> QED
            BY <3>2, <3>3
    <2>5. F(q) = r
        BY <2>1, <2>2, <2>3, <2>4, SeqEqual
    <2> QED
        BY <2>5 DEF q, r
<1>4. \A path : NamesOf(path) = FlattenSeq(F(path))
    BY DEF NamesOf, F, W
<1>5. NamesOf(<<>>) = <<>>
    <2>1. Len(F(<<>>)) = 0 /\ F(<<>>) = <<>>
        BY <1>2, EmptySeq
    <2> QED
        BY <1>4, <2>1 DEF FlattenSeq
<1>6. ASSUME NEW path \in Seq(Texts), NEW t \in Texts
      PROVE  /\ NamesOf(path) \in Seq(Names)
             /\ NamesOf(Append(path, t)) =
                   IF t \in {"/", "."} THEN NamesOf(path) ELSE Append(NamesOf(path), t)
    <2>1. NamesOf(path) \in Seq(Names) /\ NamesOf(Append(path, t)) = NamesOf(path) \o W(t)
        BY <1>1, <1>2, <1>3, <1>4, FlattenAppend
    <2>2. CASE t \in {"/", "."}
        BY <2>1, <2>2, ConcatEmptySeq DEF W
    <2>3. CASE t \notin {"/", "."}
        <3>1. t \in Names /\ W(t) = <<t>>
            BY <2>3 DEF W, Texts
        <3> QED
            BY <2>1, <2>3, <3>1, AppendIsConcat
    <2> QED
        BY <2>1, <2>2, <2>3
<1>7. \A path \in Seq(Texts) : NamesOf(path) \in Seq(Names)
    BY <1>6 DEF Texts
<1> QED
    BY <1>5, <1>6, <1>7

\* A name more leads one directory further, a slash or a dot nowhere.
LEMMA PlaceAppend ==
    ASSUME NEW path \in Seq(Texts), path # <<>>
    PROVE  /\ Place(path) \in Seq(Names)
           /\ Place(Append(path, "/")) = Place(path)
           /\ \A name \in Names : Place(Append(path, name)) = Append(Place(path), name)
<1>1. ASSUME NEW q \in Seq(Texts), q # <<>>
      PROVE  Place(q) = IF Head(q) = "/" THEN NamesOf(q) ELSE Cwd \o NamesOf(q)
    BY <1>1 DEF Place, NamesOf
<1>2. Cwd \in Seq(Names) /\ NamesOf(path) \in Seq(Names)
    BY NamesAppend, TreeAssumption
<1>3. Place(path) \in Seq(Names)
    BY <1>1, <1>2, ConcatProperties
<1>4. ASSUME NEW t \in Texts
      PROVE  Place(Append(path, t)) = IF Head(path) = "/" THEN NamesOf(Append(path, t))
                                      ELSE Cwd \o NamesOf(Append(path, t))
    <2>1. Append(path, t) \in Seq(Texts) /\ Append(path, t) # <<>> /\ Head(Append(path, t)) = Head(path)
        BY AppendProperties, HeadTailAppend
    <2> QED
        BY <1>1, <2>1
<1>5. "/" \in Texts /\ Names \subseteq Texts /\ \A name \in Names : name \notin {"/", "."}
    BY TreeAssumption DEF Texts
<1>6. Place(Append(path, "/")) = Place(path)
    BY <1>1, <1>4, <1>5, NamesAppend
<1>7. ASSUME NEW name \in Names PROVE Place(Append(path, name)) = Append(Place(path), name)
    <2>1. NamesOf(Append(path, name)) = Append(NamesOf(path), name)
        BY <1>5, NamesAppend
    <2>2. Cwd \o Append(NamesOf(path), name) = Append(Cwd \o NamesOf(path), name)
        <3>1. Append(NamesOf(path), name) = NamesOf(path) \o <<name>> /\ <<name>> \in Seq(Names)
            BY <1>2, AppendIsConcat
        <3>2. Append(Cwd \o NamesOf(path), name) = (Cwd \o NamesOf(path)) \o <<name>>
            BY <1>2, ConcatProperties, AppendIsConcat
        <3>3. (Cwd \o NamesOf(path)) \o <<name>> = Cwd \o (NamesOf(path) \o <<name>>)
            BY <1>2, <3>1, ConcatAssociative
        <3> QED
            BY <3>1, <3>2, <3>3
    <2> QED
        BY <1>1, <1>4, <1>5, <2>1, <2>2
<1> QED
    BY <1>3, <1>6, <1>7

\* A dot alone, a name alone, and one in the root directory.
LEMMA PlaceShort ==
    /\ Place(<<".">>) = Cwd
    /\ \A name \in Names : Place(<<name>>) = Append(Cwd, name) /\ Place(<<"/", name>>) = <<name>>
    /\ Place(<<"/">>) = <<>>
<1>1. "/" \in Texts /\ "." \in Texts /\ Names \subseteq Texts /\ \A name \in Names : name \notin {"/", "."}
    BY TreeAssumption DEF Texts
<1>2. \A t \in Texts : /\ Append(<<>>, t) = <<t>> /\ <<t>> # <<>> /\ Head(<<t>>) = t
                        /\ \A u \in Texts : Append(<<t>>, u) = <<t, u>>
    <2> TAKE t \in Texts
    <2>1. <<>> \in Seq(Texts) /\ <<t>> \in Seq(Texts) /\ <<t>> # <<>> /\ Head(<<t>>) = t
        OBVIOUS
    <2>2. Append(<<>>, t) = <<t>>
        BY <2>1, AppendIsConcat, ConcatEmptySeq
    <2>3. ASSUME NEW u \in Texts PROVE Append(<<t>>, u) = <<t, u>>
        <3> DEFINE a == Append(<<t>>, u)
                   b == <<t, u>>
        <3>1. b \in Seq(Texts) /\ Len(b) = 2 /\ b[1] = t /\ b[2] = u
            OBVIOUS
        <3>2. Len(<<t>>) = 1 /\ <<t>>[1] = t
            OBVIOUS
        <3>3. a \in Seq(Texts) /\ Len(a) = 2 /\ a[1] = t /\ a[2] = u
            <4>1. /\ a \in Seq(Texts) /\ Len(a) = Len(<<t>>) + 1 /\ a[Len(<<t>>) + 1] = u
                  /\ \A i \in 1 .. Len(<<t>>) : a[i] = <<t>>[i]
                BY <2>1, AppendProperties
            <4> QED
                BY <3>2, <4>1
        <3> HIDE DEF a, b
        <3>4. \A i \in 1 .. Len(a) : a[i] = b[i]
            BY <3>1, <3>3
        <3>5. a = b
            BY <3>1, <3>3, <3>4, SeqEqual
        <3> QED
            BY <3>5 DEF a, b
    <2> QED
        BY <2>1, <2>2, <2>3
<1>3. <<>> \in Seq(Texts) /\ NamesOf(<<>>) = <<>> /\ Cwd \in Seq(Names)
    BY NamesAppend, TreeAssumption, EmptySeq
<1>4. \A t \in Texts : NamesOf(<<t>>) = IF t \in {"/", "."} THEN <<>> ELSE Append(<<>>, t)
    BY <1>2, <1>3, NamesAppend
<1>5. \A t \in Texts : Place(<<t>>) = IF t = "/" THEN NamesOf(<<t>>) ELSE Cwd \o NamesOf(<<t>>)
    BY <1>2 DEF Place, NamesOf
<1>6. Place(<<".">>) = Cwd /\ Place(<<"/">>) = <<>>
    BY <1>1, <1>3, <1>4, <1>5, ConcatEmptySeq
<1>7. ASSUME NEW name \in Names
      PROVE  Place(<<name>>) = Append(Cwd, name) /\ Place(<<"/", name>>) = <<name>>
    <2>1. Place(<<name>>) = Cwd \o <<name>>
        <3>1. name \in Texts /\ name # "/" /\ name \notin {"/", "."} /\ Append(<<>>, name) = <<name>>
            BY <1>1, <1>2
        <3>2. Place(<<name>>) = Cwd \o NamesOf(<<name>>)
            BY <1>5, <3>1
        <3>3. NamesOf(<<name>>) = <<name>>
            BY <1>4, <3>1
        <3> QED
            BY <3>2, <3>3
    <2>2. Cwd \o <<name>> = Append(Cwd, name)
        BY <1>3, AppendIsConcat
    <2>3. <<"/">> \in Seq(Texts) /\ <<"/">> # <<>>
        BY <1>1
    <2>4. Place(Append(<<"/">>, name)) = Append(<<>>, name)
        BY <1>6, <2>3, PlaceAppend
    <2>5. Append(<<"/">>, name) = <<"/", name>> /\ Append(<<>>, name) = <<name>>
        BY <1>1, <1>2
    <2> QED
        BY <2>1, <2>2, <2>4, <2>5
<1> QED
    BY <1>6, <1>7

\* Two elements more.
LEMMA AppendTwo ==
    ASSUME NEW S, NEW s \in Seq(S), NEW a \in S, NEW b \in S
    PROVE  s \o <<a, b>> = Append(Append(s, a), b)
<1> DEFINE r == s \o <<a, b>>
           q == Append(Append(s, a), b)
           m == Len(s)
<1>1. m \in Nat /\ <<a, b>> \in Seq(S) /\ Len(<<a, b>>) = 2 /\ <<a, b>>[1] = a /\ <<a, b>>[2] = b
    BY LenProperties
<1>2. /\ r \in Seq(S) /\ Len(r) = m + 2
      /\ \A i \in 1 .. m + 2 : r[i] = IF i <= m THEN s[i] ELSE <<a, b>>[i - m]
    BY <1>1, ConcatProperties
<1>3. /\ q \in Seq(S) /\ Len(q) = m + 2 /\ (\A i \in 1 .. m : q[i] = s[i])
      /\ q[m + 1] = a /\ q[m + 2] = b
    <2> DEFINE p == Append(s, a)
    <2>1. p \in Seq(S) /\ Len(p) = m + 1 /\ (\A i \in 1 .. m : p[i] = s[i]) /\ p[m + 1] = a
        BY AppendProperties
    <2>2. /\ q \in Seq(S) /\ Len(q) = Len(p) + 1 /\ (\A i \in 1 .. Len(p) : q[i] = p[i])
          /\ q[Len(p) + 1] = b
        BY <2>1, AppendProperties
    <2> HIDE DEF p, q, m
    <2> QED
        BY <1>1, <2>1, <2>2
<1> HIDE DEF r, q, m
<1>4. \A i \in 1 .. Len(q) : r[i] = q[i]
    <2> TAKE i \in 1 .. Len(q)
    <2>1. i \in 1 .. m + 2
        BY <1>3
    <2>2. CASE i = m + 1
        <3>1. i - m = 1 /\ ~(i <= m)
            BY <1>1, <2>2
        <3> QED
            BY <1>1, <1>2, <1>3, <2>1, <2>2, <3>1
    <2>3. CASE i = m + 2
        <3>1. i - m = 2 /\ ~(i <= m)
            BY <1>1, <2>3
        <3> QED
            BY <1>1, <1>2, <1>3, <2>1, <2>3, <3>1
    <2>4. CASE i # m + 1 /\ i # m + 2
        <3>1. i \in 1 .. m /\ i <= m
            BY <1>1, <2>1, <2>4
        <3> QED
            BY <1>2, <1>3, <2>1, <3>1
    <2> QED
        BY <2>2, <2>3, <2>4
<1>5. r = q
    BY <1>2, <1>3, <1>4, SeqEqual
<1> QED
    BY <1>5 DEF r, q

\* What getAbsPath makes of one name more.
LEMMA AbsAppend ==
    /\ getAbsPath(<<>>) = <<"/">>
    /\ \A x \in Seq(Names) :
          /\ getAbsPath(x) \in Seq(Texts)
          /\ \A name \in Names : getAbsPath(Append(x, name)) = Append(Append(getAbsPath(x), name), "/")
<1> DEFINE F(x) == [i \in DOMAIN x |-> <<x[i], "/">>]
<1>1. \A name \in Names : name \in Texts /\ <<name, "/">> \in Seq(Texts)
    BY DEF Texts
<1>2. ASSUME NEW x \in Seq(Names)
      PROVE  /\ F(x) \in Seq(Seq(Texts)) /\ Len(F(x)) = Len(x)
             /\ \A i \in 1 .. Len(x) : F(x)[i] = <<x[i], "/">>
    <2>1. Len(x) \in Nat /\ DOMAIN x = 1 .. Len(x) /\ \A i \in 1 .. Len(x) : x[i] \in Names
        BY LenProperties
    <2>2. F(x) \in [1 .. Len(x) -> Seq(Texts)]
        BY <1>1, <2>1
    <2> QED
        BY <2>1, <2>2
<1> HIDE DEF F
<1>3. ASSUME NEW x \in Seq(Names), NEW name \in Names
      PROVE  F(Append(x, name)) = Append(F(x), <<name, "/">>)
    <2> DEFINE q == Append(x, name)
               r == Append(F(x), <<name, "/">>)
    <2>1. /\ q \in Seq(Names) /\ Len(q) = Len(x) + 1 /\ Len(x) \in Nat
          /\ (\A i \in 1 .. Len(x) : q[i] = x[i]) /\ q[Len(x) + 1] = name
        BY AppendProperties, LenProperties
    <2>2. /\ r \in Seq(Seq(Texts)) /\ Len(r) = Len(x) + 1
          /\ (\A i \in 1 .. Len(x) : r[i] = F(x)[i]) /\ r[Len(x) + 1] = <<name, "/">>
        BY <1>1, <1>2, AppendProperties
    <2>3. F(q) \in Seq(Seq(Texts)) /\ Len(F(q)) = Len(q) /\ \A i \in 1 .. Len(q) : F(q)[i] = <<q[i], "/">>
        BY <1>2, <2>1
    <2> HIDE DEF q, r
    <2>4. \A i \in 1 .. Len(r) : F(q)[i] = r[i]
        <3> TAKE i \in 1 .. Len(r)
        <3>1. i \in 1 .. Len(q) /\ F(q)[i] = <<q[i], "/">>
            BY <2>1, <2>2, <2>3
        <3>2. CASE i = Len(x) + 1
            BY <2>1, <2>2, <3>1, <3>2
        <3>3. CASE i # Len(x) + 1
            <4>1. i \in 1 .. Len(x)
                BY <2>1, <3>1, <3>3
            <4> QED
                BY <1>2, <2>1, <2>2, <3>1, <4>1
        <3> QED
            BY <3>2, <3>3
    <2>5. F(q) = r
        <3> DEFINE f == F(q)
        <3>1. f \in Seq(Seq(Texts)) /\ r \in Seq(Seq(Texts)) /\ Len(f) = Len(r)
            BY <2>1, <2>2, <2>3
        <3>2. \A i \in 1 .. Len(f) : f[i] = r[i]
            BY <2>4, <3>1
        <3> HIDE DEF f
        <3>3. f = r
            BY <3>1, <3>2, SeqEqual
        <3> QED
            BY <3>3 DEF f
    <2> QED
        BY <2>5 DEF q, r
<1>4. \A x : getAbsPath(x) = <<"/">> \o FlattenSeq(F(x))
    BY DEF getAbsPath, F
<1>5. <<"/">> \in Seq(Texts) /\ "/" \in Texts
    BY DEF Texts
<1>6. getAbsPath(<<>>) = <<"/">>
    <2>1. Len(F(<<>>)) = 0 /\ F(<<>>) = <<>>
        BY <1>2, EmptySeq
    <2>2. FlattenSeq(F(<<>>)) = <<>>
        BY <2>1 DEF FlattenSeq
    <2>3. getAbsPath(<<>>) = <<"/">> \o <<>>
        BY <1>4, <2>2
    <2> QED
        BY <1>5, <2>3, ConcatEmptySeq
<1>7. ASSUME NEW x \in Seq(Names) PROVE FlattenSeq(F(x)) \in Seq(Texts)
    BY <1>2, <1>5, FlattenAppend
<1>8. ASSUME NEW x \in Seq(Names) PROVE getAbsPath(x) \in Seq(Texts)
    BY <1>4, <1>5, <1>7, ConcatProperties
<1>9. ASSUME NEW x \in Seq(Names), NEW name \in Names
      PROVE  getAbsPath(Append(x, name)) = Append(Append(getAbsPath(x), name), "/")
    <2> DEFINE f == FlattenSeq(F(x))
               e == <<name, "/">>
    <2>1. f \in Seq(Texts) /\ e \in Seq(Texts)
        BY <1>1, <1>7
    <2>2. FlattenSeq(F(Append(x, name))) = f \o e
        BY <1>2, <1>3, <2>1, FlattenAppend
    <2>3. getAbsPath(Append(x, name)) = <<"/">> \o (f \o e) /\ getAbsPath(x) = <<"/">> \o f
        BY <1>4, <2>2
    <2>4. (<<"/">> \o f) \o e = Append(Append(getAbsPath(x), name), "/")
        BY <1>1, <1>5, <1>8, <2>3, AppendTwo
    <2> HIDE DEF f, e
    <2>5. (<<"/">> \o f) \o e = <<"/">> \o (f \o e)
        BY <1>5, <2>1, ConcatAssociative
    <2> QED
        BY <2>3, <2>4, <2>5
<1> QED
    BY <1>6, <1>8, <1>9

\* It has a slash at both ends, an odd number of names and slashes, and leads
\* to the place it was made of.
LEMMA AbsIs ==
    ASSUME NEW x \in Seq(Names)
    PROVE  /\ getAbsPath(x) \in Seq(Texts) /\ getAbsPath(x) # <<>>
           /\ Len(x) \in Nat /\ Len(getAbsPath(x)) = 2 * Len(x) + 1
           /\ getAbsPath(x)[1] = "/" /\ Last(getAbsPath(x)) = "/"
           /\ Place(getAbsPath(x)) = x
<1> DEFINE Good(y) == /\ getAbsPath(y) \in Seq(Texts) /\ getAbsPath(y) # <<>>
                      /\ Len(getAbsPath(y)) = 2 * Len(y) + 1
                      /\ getAbsPath(y)[1] = "/" /\ Last(getAbsPath(y)) = "/"
                      /\ Place(getAbsPath(y)) = y
           T == {m \in Nat : \A y \in Seq(Names) : Len(y) = m => Good(y)}
<1>1. Good(<<>>)
    <2>1. <<"/">> \in Seq(Texts) /\ <<"/">> # <<>> /\ Len(<<"/">>) = 1 /\ <<"/">>[1] = "/"
        BY DEF Texts
    <2>2. getAbsPath(<<>>) = <<"/">> /\ Place(<<"/">>) = <<>> /\ Len(<<>>) = 0
        BY AbsAppend, PlaceShort, EmptySeq
    <2>3. Last(<<"/">>) = "/"
        BY <2>1 DEF Last
    <2>4. getAbsPath(<<>>) \in Seq(Texts) /\ getAbsPath(<<>>) # <<>> /\ getAbsPath(<<>>)[1] = "/"
        BY <2>1, <2>2
    <2>5. Last(getAbsPath(<<>>)) = "/" /\ Place(getAbsPath(<<>>)) = <<>>
        BY <2>2, <2>3
    <2>6. Len(getAbsPath(<<>>)) = 1 /\ 1 = 2 * Len(<<>>) + 1
        BY <2>1, <2>2
    <2> QED
        BY <2>4, <2>5, <2>6
<1>2. ASSUME NEW y \in Seq(Names), Good(y), NEW name \in Names PROVE Good(Append(y, name))
    <2> DEFINE a == getAbsPath(y)
               b == Append(a, name)
               c == Append(b, "/")
    <2>1. "/" \in Texts /\ name \in Texts
        BY DEF Texts
    <2>2. a \in Seq(Texts) /\ a # <<>> /\ Len(a) = 2 * Len(y) + 1 /\ a[1] = "/" /\ Place(a) = y
        BY <1>2
    <2>3. Len(y) \in Nat /\ Len(Append(y, name)) = Len(y) + 1 /\ Len(a) \in Nat
        BY <2>2, AppendProperties, LenProperties
    <2>4. getAbsPath(Append(y, name)) = c
        BY AbsAppend
    <2>5. Place(b) = Append(y, name)
        BY <2>2, PlaceAppend
    <2> HIDE DEF a
    <2>6. b \in Seq(Texts) /\ b # <<>> /\ Len(b) = Len(a) + 1 /\ \A i \in 1 .. Len(a) : b[i] = a[i]
        <3>1. a \in Seq(Texts) /\ name \in Texts
            BY <2>1, <2>2
        <3> QED
            BY <3>1, AppendProperties
    <2> HIDE DEF b
    <2>7. /\ c \in Seq(Texts) /\ c # <<>> /\ Len(c) = Len(b) + 1 /\ c[Len(b) + 1] = "/"
          /\ \A i \in 1 .. Len(b) : c[i] = b[i]
        BY <2>1, <2>6, AppendProperties
    <2>8. Place(c) = Append(y, name)
        BY <2>5, <2>6, PlaceAppend
    <2> HIDE DEF c
    <2>9. Len(c) = 2 * (Len(y) + 1) + 1 /\ 1 \in 1 .. Len(a) /\ 1 \in 1 .. Len(b)
        BY <2>2, <2>3, <2>6, <2>7
    <2>10. c[1] = "/" /\ Last(c) = "/"
        BY <2>2, <2>6, <2>7, <2>9 DEF Last
    <2> QED
        BY <2>3, <2>4, <2>7, <2>8, <2>9, <2>10
<1> HIDE DEF Good
<1>3. \A m \in Nat : m \in T
    <2>1. 0 \in T
        <3>1. \A y \in Seq(Names) : Len(y) = 0 => y = <<>>
            BY EmptySeq
        <3> QED
            BY <1>1, <3>1
    <2>2. ASSUME NEW m \in Nat, m \in T PROVE m + 1 \in T
        <3> SUFFICES ASSUME NEW y \in Seq(Names), Len(y) = m + 1 PROVE Good(y)
            OBVIOUS
        <3>1. y # <<>>
            BY EmptySeq
        <3>2. PICK z \in Seq(Names), name \in Names : y = Append(z, name)
            BY <3>1, SequenceEmptyOrAppend
        <3>3. Len(z) = m
            <4>1. Len(y) = Len(z) + 1 /\ Len(z) \in Nat
                BY <3>2, AppendProperties, LenProperties
            <4> QED
                BY <4>1
        <3>4. Good(z)
            BY <2>2, <3>3
        <3> QED
            BY <1>2, <3>2, <3>4
    <2> HIDE DEF T
    <2> QED
        BY <2>1, <2>2, Induction
<1>4. Len(x) \in Nat
    BY LenProperties
<1>5. Good(x)
    BY <1>3, <1>4
<1> QED
    BY <1>4, <1>5 DEF Good

\* The name that is compared: without the directory, unless that is the root.
LEMMA FileNameIs ==
    ASSUME NEW x \in Seq(Names), NEW name \in Names
    PROVE  FileName(Append(getAbsPath(x), name)) = IF x = <<>> THEN <<"/", name>> ELSE <<name>>
<1> DEFINE a == getAbsPath(x)
           b == Append(a, name)
           n == Len(a)
           slashes == {i \in DOMAIN b : b[i] = "/"}
<1>1. /\ a \in Seq(Texts) /\ a # <<>> /\ Len(x) \in Nat /\ n = 2 * Len(x) + 1
      /\ Last(a) = "/" /\ name \in Texts /\ name # "/" /\ "/" \in Texts
    BY AbsIs, TreeAssumption DEF Texts
<1>2. a[n] = "/" /\ n \in Nat /\ n >= 1
    BY <1>1 DEF Last
<1>3. b \in Seq(Texts) /\ Len(b) = n + 1 /\ (\A i \in 1 .. n : b[i] = a[i]) /\ b[n + 1] = name
    BY <1>1, AppendProperties
<1>4. DOMAIN b = 1 .. n + 1
    BY <1>3, LenProperties
<1>5. x = <<>> => a = <<"/">>
    BY AbsAppend
<1>6. SUFFICES FileName(b) = IF x = <<>> THEN <<"/", name>> ELSE <<name>>
    OBVIOUS
<1> HIDE DEF a, n
<1>7. n \in slashes /\ \A i \in slashes : i <= n /\ i \in Nat
    BY <1>1, <1>2, <1>3, <1>4
<1>8. FileName(b) = SubSeq(b, getFilenamePos(b) + 1, n + 1)
    BY <1>3 DEF FileName
<1>9. getFilenamePos(b) = IF slashes \subseteq {1} THEN 0 ELSE Max(slashes)
    BY DEF getFilenamePos
<1>10. CASE x = <<>>
    <2>1. n = 1 /\ Append(<<"/">>, name) = <<"/", name>> /\ b = Append(<<"/">>, name)
        <3>1. Len(x) = 0
            BY <1>10
        <3>2. <<"/">> \o <<name>> = Append(<<"/">>, name)
            BY <1>1, AppendIsConcat
        <3>3. <<>> \in Seq(Texts) /\ Append(<<>>, "/") = <<"/">> /\ <<>> \o <<"/", name>> = <<"/", name>>
            <4>1. <<>> \in Seq(Texts) /\ <<"/", name>> \in Seq(Texts)
                BY <1>1
            <4>2. Append(<<>>, "/") = <<>> \o <<"/">> /\ <<"/">> \in Seq(Texts)
                BY <1>1, <4>1, AppendIsConcat
            <4> QED
                BY <4>1, <4>2, ConcatEmptySeq
        <3>4. <<>> \o <<"/", name>> = Append(Append(<<>>, "/"), name)
            BY <1>1, <3>3, AppendTwo
        <3>5. n = 1
            BY <1>1, <3>1
        <3>6. Append(<<"/">>, name) = <<"/", name>>
            BY <3>3, <3>4
        <3> QED
            BY <1>5, <1>10, <3>5, <3>6
    <2>2. slashes \subseteq {1}
        BY <1>4, <1>7, <2>1
    <2>3. FileName(b) = SubSeq(b, 1, Len(b))
        BY <1>3, <1>8, <1>9, <2>1, <2>2
    <2>4. FileName(b) = b
        BY <1>3, <2>3, SubSeqFull
    <2> QED
        BY <1>10, <2>1, <2>4
<1>11. CASE x # <<>>
    <2>1. n > 1 /\ ~(slashes \subseteq {1})
        <3>1. Len(x) \in Nat \ {0}
            BY <1>11, EmptySeq
        <3>2. n > 1 /\ n # 1
            BY <1>1, <3>1
        <3> QED
            BY <1>7, <3>2
    <2>2. Max(slashes) = n
        <3>1. n \in slashes /\ \A y \in slashes : n >= y
            BY <1>2, <1>7
        <3>2. ASSUME NEW z \in slashes, \A y \in slashes : z >= y PROVE z = n
            BY <1>2, <1>7, <3>2
        <3> HIDE DEF slashes
        <3> QED
            BY <3>1, <3>2 DEF Max
    <2>3. FileName(b) = SubSeq(b, n + 1, n + 1)
        BY <1>8, <1>9, <2>1, <2>2
    <2>4. SubSeq(b, n + 1, n + 1) = <<name>>
        <3>1. n + 1 \in 1 .. Len(b) /\ n + 1 \in n + 1 .. Len(b)
            BY <1>2, <1>3
        <3>2. SubSeq(b, n + 1, n + 1) = <<b[n + 1]>> \o SubSeq(b, n + 1 + 1, n + 1)
            BY <1>3, <3>1, SubSeqRecursiveFirst
        <3>3. SubSeq(b, n + 1 + 1, n + 1) = <<>>
            BY <1>2, SubSeqEmpty
        <3>4. <<name>> \in Seq(Texts)
            BY <1>1
        <3> QED
            BY <1>3, <3>2, <3>3, <3>4, ConcatEmptySeq
    <2> QED
        BY <1>11, <2>3, <2>4
<1> QED
    BY <1>10, <1>11

-----------------------------------------------------------------------------
(* The buffer and the activations that share it. *)

\* The first l elements.
LEMMA Firsts ==
    ASSUME NEW S, NEW p \in Seq(S), NEW l \in Nat, l <= Len(p)
    PROVE  /\ SubSeq(p, 1, l) \in Seq(S) /\ Len(SubSeq(p, 1, l)) = l
           /\ \A i \in 1 .. l : SubSeq(p, 1, l)[i] = p[i]
<1>1. Len(p) \in Nat /\ \A i \in 1 .. Len(p) : p[i] \in S
    BY LenProperties
<1>2. \A i \in 1 .. l : p[i] \in S
    BY <1>1
<1> QED
    BY <1>2, SubSeqProperties

LEMMA SameCount ==
    ASSUME NEW k1 \in Nat, NEW k2 \in Nat, \A i : i \in 1 .. k1 <=> i \in 1 .. k2
    PROVE  k1 = k2
<1>1. k1 > 0 => k1 \in 1 .. k2
    OBVIOUS
<1>2. k2 > 0 => k2 \in 1 .. k1
    OBVIOUS
<1> QED
    BY <1>1, <1>2

LEMMA SameFirsts ==
    ASSUME NEW S, NEW p \in Seq(S), NEW q \in Seq(S), NEW l \in Nat, l <= Len(p), l <= Len(q),
           \A i \in 1 .. l : p[i] = q[i]
    PROVE  SubSeq(p, 1, l) = SubSeq(q, 1, l)
<1>1. /\ SubSeq(p, 1, l) \in Seq(S) /\ Len(SubSeq(p, 1, l)) = l
      /\ \A i \in 1 .. l : SubSeq(p, 1, l)[i] = p[i]
    BY Firsts
<1>2. /\ SubSeq(q, 1, l) \in Seq(S) /\ Len(SubSeq(q, 1, l)) = l
      /\ \A i \in 1 .. l : SubSeq(q, 1, l)[i] = q[i]
    BY Firsts
<1> QED
    BY <1>1, <1>2, SeqEqual

\* What an activation has to itself, and where the walk is.
LEMMA StemsKnown ==
    ASSUME WalkTypes, BufKnown
    PROVE  /\ Len(dirs) \in Nat /\ DOMAIN dirs = 1 .. Len(dirs) /\ (dirs = <<>> <=> Len(dirs) = 0)
           /\ \A i \in DOMAIN dirs :
                 /\ dirs[i] \in [ptr : Nat, left : SUBSET Names]
                 /\ Stem(i) \in Seq(Texts) /\ Stem(i) # <<>> /\ Len(Stem(i)) = dirs[i].ptr - 1
                 /\ Home(i) \in Seq(Names)
           /\ at \notin {"main", "quit"} => Start \in Seq(Names)
           /\ Visiting => fullpath # <<>> /\ Here \in Seq(Names)
           /\ Visiting /\ dirs = <<>> => Here = Start
           /\ Visiting /\ dirs # <<>> => \E name \in Names :
                 /\ fullpath = Append(Stem(Len(dirs)), name)
                 /\ Here = Append(Home(Len(dirs)), name)
<1> DEFINE D == [ptr : Nat, left : SUBSET Names]
<1>1. /\ fullpath \in Seq(Texts) /\ dirs \in Seq(D) /\ Len(fullpath) \in Nat
      /\ \A i \in DOMAIN dirs : 2 <= dirs[i].ptr /\ dirs[i].ptr <= Len(fullpath) + 1
    BY LenProperties DEF BufKnown
<1>2. /\ Len(dirs) \in Nat /\ DOMAIN dirs = 1 .. Len(dirs) /\ (dirs = <<>> <=> Len(dirs) = 0)
      /\ \A i \in DOMAIN dirs : dirs[i] \in D
    <2>1. Len(dirs) \in Nat /\ dirs \in [1 .. Len(dirs) -> D] /\ DOMAIN dirs = 1 .. Len(dirs)
        BY <1>1, LenProperties
    <2>2. dirs = <<>> <=> Len(dirs) = 0
        BY <1>1, <2>1, EmptySeq
    <2> QED
        BY <2>1, <2>2
<1>3. ASSUME NEW i \in DOMAIN dirs
      PROVE  Stem(i) \in Seq(Texts) /\ Stem(i) # <<>> /\ Len(Stem(i)) = dirs[i].ptr - 1 /\ Home(i) \in Seq(Names)
    <2>1. dirs[i].ptr - 1 \in Nat /\ dirs[i].ptr - 1 <= Len(fullpath) /\ dirs[i].ptr - 1 # 0
        BY <1>1, <1>2
    <2>2. Stem(i) \in Seq(Texts) /\ Len(Stem(i)) = dirs[i].ptr - 1
        BY <1>1, <2>1, Firsts DEF Stem
    <2>3. Stem(i) # <<>>
        BY <2>1, <2>2, EmptySeq
    <2> QED
        BY <2>2, <2>3, PlaceAppend DEF Home
<1>4. at \notin {"main", "quit"} => in_path # <<>> /\ Start \in Seq(Names)
    BY PlaceAppend DEF WalkTypes, Start
<1>5. Visiting => at \notin {"main", "quit"}
    BY DEF Visiting
<1>6. ASSUME Visiting, dirs # <<>>
      PROVE  \E name \in Names : /\ fullpath = Append(Stem(Len(dirs)), name)
                                 /\ Here = Append(Home(Len(dirs)), name) /\ Here \in Seq(Names)
    <2>1. PICK name \in Names : fullpath = Append(Stem(Len(dirs)), name)
        BY <1>6 DEF BufKnown
    <2>2. Len(dirs) \in DOMAIN dirs
        BY <1>2, <1>6
    <2>3. Here = Append(Home(Len(dirs)), name)
        BY <1>3, <2>1, <2>2, PlaceAppend DEF Here, Home
    <2>4. Here \in Seq(Names)
        BY <1>3, <2>2, <2>3, AppendProperties
    <2> QED
        BY <2>1, <2>3, <2>4
<1>7. ASSUME Visiting, dirs = <<>> PROVE fullpath # <<>> /\ Here = Start
    BY <1>4, <1>5, <1>7 DEF BufKnown, Here, Start
<1>8. ASSUME Visiting PROVE fullpath # <<>> /\ Here \in Seq(Names)
    <2>1. CASE dirs = <<>>
        BY <1>4, <1>5, <1>7, <1>8, <2>1
    <2>2. CASE dirs # <<>>
        <3>1. PICK name \in Names : fullpath = Append(Stem(Len(dirs)), name)
            BY <1>6, <1>8, <2>2
        <3>2. Len(dirs) \in DOMAIN dirs /\ name \in Texts
            BY <1>2, <2>2 DEF Texts
        <3>3. fullpath # <<>>
            BY <1>3, <3>1, <3>2, AppendProperties
        <3> QED
            BY <1>6, <1>8, <2>2, <3>3
    <2> QED
        BY <2>1, <2>2
<1> QED
    BY <1>2, <1>3, <1>4, <1>6, <1>7, <1>8

\* The activations stay where they are, and what they have still to return
\* changes at most where the tree was changed.
SameDirs ==
    /\ DOMAIN dirs' = DOMAIN dirs /\ Len(dirs') = Len(dirs)
    /\ \A i \in DOMAIN dirs :
          /\ Stem(i)' = Stem(i) /\ Home(i)' = Home(i)
          /\ \A name : Append(Home(i), name) \notin touched' =>
                (name \in dirs'[i].left <=> name \in dirs[i].left)

\* Where nothing is opened or closed and the buffer stays, all is as it was.
LEMMA BufSame ==
    ASSUME WalkTypes, BufKnown, UNCHANGED <<fullpath, dirs, in_path>>,
           Visiting' => Visiting
    PROVE  /\ BufKnown' /\ Start' = Start /\ Here' = Here /\ SameDirs
           /\ \A i \in DOMAIN dirs : Stem(i)' = Stem(i) /\ Home(i)' = Home(i)
<1>1. SameDirs /\ \A i \in DOMAIN dirs : Stem(i)' = Stem(i) /\ Home(i)' = Home(i)
    BY DEF Stem, Home, SameDirs
<1>2. Start' = Start /\ Here' = Here
    BY DEF Start, Here
<1>3. ASSUME Visiting', dirs' # <<>>
      PROVE  \E name \in Names : fullpath' = Append(Stem(Len(dirs))', name)
    BY <1>3 DEF BufKnown, Stem
<1>4. BufKnown'
    BY <1>3 DEF BufKnown
<1> QED
    BY <1>1, <1>2, <1>4

\* Opendir ends the path with a slash and, if it can, opens where the walk is.
LEMMA OpendirDoes ==
    ASSUME WalkTypes, BufKnown, Opendir, NEW m \in Nat, m = Len(dirs)
    PROVE  /\ BufKnown' /\ Start' = Start /\ at = "opendir" /\ at' = "return"
           /\ \A i \in 1 .. m : i \in DOMAIN dirs' /\ dirs'[i] = dirs[i] /\ Stem(i)' = Stem(i) /\ Home(i)' = Home(i)
           /\ IF IsDir(NodeAt(Here)) /\ NodeAt(Here).open /\ ~NoneFree
              THEN /\ Len(dirs') = m + 1 /\ DOMAIN dirs' = 1 .. m + 1
                   /\ \A i \in {m + 1} : Home(i)' = Here /\ Stem(i)' = Slashed
                   /\ dirs'[m + 1].left = {Last(p) : p \in Children(Here)}
              ELSE dirs' = dirs
<1> DEFINE D == [ptr : Nat, left : SUBSET Names]
<1>1. at = "opendir" /\ at' = "return" /\ in_path' = in_path /\ fullpath' = Slashed /\ Visiting /\ ~Visiting'
    BY DEF Opendir, Visiting
<1>2. /\ DOMAIN dirs = 1 .. m /\ fullpath # <<>> /\ Here \in Seq(Names)
      /\ \A i \in 1 .. m : dirs[i] \in D /\ Stem(i) \in Seq(Texts)
    BY <1>1, StemsKnown
<1>3. /\ fullpath \in Seq(Texts) /\ dirs \in Seq(D) /\ Len(fullpath) \in Nat
      /\ \A i \in 1 .. m : 2 <= dirs[i].ptr /\ dirs[i].ptr <= Len(fullpath) + 1
      /\ \A i, j \in 1 .. m : i < j => dirs[i].ptr < dirs[j].ptr
    BY <1>2, LenProperties DEF BufKnown
<1>4. /\ Slashed \in Seq(Texts) /\ Len(Slashed) \in Nat /\ Len(fullpath) <= Len(Slashed)
      /\ Place(Slashed) = Here /\ \A i \in 1 .. Len(fullpath) : Slashed[i] = fullpath[i]
    <2>1. CASE Slashed = fullpath
        BY <1>3, <2>1 DEF Here
    <2>2. CASE Slashed = Append(fullpath, "/")
        <3>1. "/" \in Texts
            BY DEF Texts
        <3>2. /\ Slashed \in Seq(Texts) /\ Len(Slashed) = Len(fullpath) + 1
              /\ \A i \in 1 .. Len(fullpath) : Slashed[i] = fullpath[i]
            BY <1>3, <2>2, <3>1, AppendProperties
        <3>3. Place(Slashed) = Here
            BY <1>2, <1>3, <2>2, PlaceAppend DEF Here
        <3> QED
            BY <1>3, <3>2, <3>3
    <2> QED
        BY <2>1, <2>2 DEF Slashed
<1>5. ASSUME NEW i \in 1 .. m, dirs'[i] = dirs[i] PROVE Stem(i)' = Stem(i) /\ Home(i)' = Home(i)
    <2>1. dirs[i].ptr - 1 \in Nat /\ dirs[i].ptr - 1 <= Len(fullpath) /\ dirs[i].ptr - 1 <= Len(Slashed)
        <3>1. PICK x, l, l2 : x = dirs[i].ptr /\ l = Len(fullpath) /\ l2 = Len(Slashed)
            OBVIOUS
        <3>2. x \in Nat /\ 2 <= x
            BY <1>2, <1>3, <3>1
        <3>3. x <= l + 1 /\ l \in Nat /\ l2 \in Nat /\ l <= l2
            BY <1>3, <1>4, <3>1
        <3>4. x - 1 \in Nat /\ x - 1 <= l /\ x - 1 <= l2
            BY <3>2, <3>3
        <3> QED
            BY <3>1, <3>4
    <2>2. \A j \in 1 .. dirs[i].ptr - 1 : Slashed[j] = fullpath[j]
        BY <1>3, <1>4, <2>1
    <2>3. SubSeq(Slashed, 1, dirs[i].ptr - 1) = SubSeq(fullpath, 1, dirs[i].ptr - 1)
        BY <1>3, <1>4, <2>1, <2>2, SameFirsts
    <2> QED
        BY <1>1, <1>5, <2>3 DEF Stem, Home
<1>6. Start' = Start
    BY <1>1 DEF Start
<1>7. \A i \in 1 .. m : dirs[i].ptr <= Len(fullpath)
    <2> TAKE i \in 1 .. m
    <2>1. dirs # <<>> /\ m \in 1 .. m
        BY <1>1, StemsKnown
    <2>2. PICK name \in Names : fullpath = Append(Stem(m), name)
        BY <1>1, <2>1, StemsKnown
    <2>3. Stem(m) \in Seq(Texts) /\ Len(Stem(m)) = dirs[m].ptr - 1 /\ name \in Texts
        BY <1>2, <2>1, StemsKnown DEF Texts
    <2>4. Len(fullpath) = Len(Stem(m)) + 1
        BY <2>2, <2>3, AppendProperties
    <2>5. i = m \/ i < m
        OBVIOUS
    <2>6. dirs[i].ptr \in Nat /\ dirs[m].ptr \in Nat /\ (i = m \/ dirs[i].ptr < dirs[m].ptr)
        BY <1>2, <1>3, <2>1, <2>5
    <2> QED
        BY <2>3, <2>4, <2>6
<1>8. CASE ~(IsDir(NodeAt(Here)) /\ NodeAt(Here).open /\ ~NoneFree)
    <2>1. dirs' = dirs
        BY <1>8 DEF Opendir, Here
    <2>2. \A i \in DOMAIN dirs' : 2 <= dirs'[i].ptr /\ dirs'[i].ptr <= Len(Slashed) + 1
        BY <1>2, <1>3, <1>4, <2>1
    <2>3. \A i, j \in DOMAIN dirs' : i < j => dirs'[i].ptr < dirs'[j].ptr
        BY <1>2, <1>3, <2>1
    <2>4. BufKnown'
        BY <1>1, <1>3, <1>4, <2>1, <2>2, <2>3 DEF BufKnown
    <2> QED
        BY <1>1, <1>2, <1>5, <1>6, <1>8, <2>1, <2>4
<1>9. CASE IsDir(NodeAt(Here)) /\ NodeAt(Here).open /\ ~NoneFree
    <2> DEFINE d == [ptr |-> Len(Slashed) + 1, left |-> {Last(p) : p \in Children(Here)}]
    <2>1. dirs' = Append(dirs, d)
        BY <1>9 DEF Opendir, Here
    <2>2. d \in D
        <3>1. ASSUME NEW p \in Children(Here) PROVE Last(p) \in Names
            BY <3>1, FrontLast, TreeAssumption DEF Children
        <3> QED
            BY <1>4, <3>1
    <2>3. /\ dirs' \in Seq(D) /\ Len(dirs') = m + 1 /\ dirs'[m + 1] = d
          /\ \A i \in 1 .. m : dirs'[i] = dirs[i]
        BY <1>3, <2>1, <2>2, AppendProperties
    <2>4. DOMAIN dirs' = 1 .. m + 1 /\ m + 1 \in DOMAIN dirs'
        BY <2>3, LenProperties
    <2>5. d.ptr = Len(Slashed) + 1 /\ d.left = {Last(p) : p \in Children(Here)}
        OBVIOUS
    <2> HIDE DEF d
    <2>6. ASSUME NEW i \in {m + 1} PROVE Stem(i)' = Slashed /\ Home(i)' = Here
        <3>1. dirs'[i].ptr - 1 = Len(Slashed)
            BY <1>4, <2>3, <2>5
        <3>2. Stem(i)' = SubSeq(Slashed, 1, Len(Slashed))
            BY <1>1, <3>1 DEF Stem
        <3>3. Stem(i)' = Slashed
            BY <1>4, <3>2, SubSeqFull
        <3> QED
            BY <1>4, <3>3 DEF Home
    <2>7. Len(Slashed) >= 1
        BY <1>2, <1>3, <1>4, EmptySeq
    <2>8. \A i \in DOMAIN dirs' : 2 <= dirs'[i].ptr /\ dirs'[i].ptr <= Len(Slashed) + 1
        <3> TAKE i \in DOMAIN dirs'
        <3>1. CASE i = m + 1
            BY <1>4, <2>3, <2>5, <2>7, <3>1
        <3>2. CASE i # m + 1
            <4>1. i \in 1 .. m
                BY <2>4, <3>2
            <4> QED
                BY <1>2, <1>3, <1>4, <2>3, <4>1
        <3> QED
            BY <3>1, <3>2
    <2>9. \A i, j \in DOMAIN dirs' : i < j => dirs'[i].ptr < dirs'[j].ptr
        <3> TAKE i, j \in DOMAIN dirs'
        <3> HAVE i < j
        <3>1. i \in 1 .. m /\ dirs'[i] = dirs[i]
            <4>1. i \in 1 .. m + 1 /\ j \in 1 .. m + 1
                BY <2>4
            <4>2. i \in 1 .. m
                BY <4>1
            <4> QED
                BY <2>3, <4>2
        <3>2. CASE j = m + 1
            <4>1. dirs'[j].ptr = Len(Slashed) + 1 /\ dirs[i].ptr \in Nat /\ dirs[i].ptr <= Len(fullpath)
                BY <1>2, <1>7, <2>3, <2>5, <3>1, <3>2
            <4> QED
                BY <1>3, <1>4, <3>1, <4>1
        <3>3. CASE j # m + 1
            <4>1. j \in 1 .. m
                BY <2>4, <3>3
            <4>2. dirs'[j] = dirs[j] /\ dirs[i].ptr < dirs[j].ptr
                BY <1>3, <2>3, <3>1, <4>1
            <4> QED
                BY <3>1, <4>2
        <3> QED
            BY <3>2, <3>3
    <2>10. BufKnown'
        BY <1>1, <1>4, <2>3, <2>8, <2>9 DEF BufKnown
    <2>11. \A i \in 1 .. m : i \in DOMAIN dirs' /\ dirs'[i] = dirs[i] /\ Stem(i)' = Stem(i) /\ Home(i)' = Home(i)
        BY <1>5, <2>3, <2>4
    <2> QED
        BY <1>1, <1>6, <1>9, <2>3, <2>4, <2>5, <2>6, <2>10, <2>11
<1> QED
    BY <1>8, <1>9

\* Readdir writes the name that it takes behind the innermost activation.
LEMMA ReaddirDoes ==
    ASSUME WalkTypes, BufKnown, Readdir, NEW m \in Nat, m = Len(dirs)
    PROVE  /\ BufKnown' /\ Start' = Start /\ at = "return" /\ at' = "doPath" /\ m # 0
           /\ Len(dirs') = m /\ DOMAIN dirs' = 1 .. m
           /\ \A i \in 1 .. m : Stem(i)' = Stem(i) /\ Home(i)' = Home(i)
           /\ \A i \in 1 .. m : i # m => dirs'[i].left = dirs[i].left
           /\ \E name \in dirs[m].left : Here' = Append(Home(m), name) /\ dirs'[m].left = dirs[m].left \ {name}
<1> DEFINE D == [ptr : Nat, left : SUBSET Names]
<1>1. at = "return" /\ at' = "doPath" /\ in_path' = in_path /\ Last(dirs) = dirs[m]
    BY DEF Readdir, Last
<1>2. /\ DOMAIN dirs = 1 .. m /\ m # 0 /\ m \in 1 .. m
      /\ \A i \in 1 .. m : /\ dirs[i] \in D /\ Home(i) \in Seq(Names)
                           /\ Stem(i) \in Seq(Texts) /\ Stem(i) # <<>> /\ Len(Stem(i)) = dirs[i].ptr - 1
    BY StemsKnown DEF Readdir
<1>3. /\ fullpath \in Seq(Texts) /\ dirs \in Seq(D) /\ Len(fullpath) \in Nat
      /\ \A i \in 1 .. m : 2 <= dirs[i].ptr /\ dirs[i].ptr <= Len(fullpath) + 1
      /\ \A i, j \in 1 .. m : i < j => dirs[i].ptr < dirs[j].ptr
    BY <1>2, LenProperties DEF BufKnown
<1>4. PICK name \in dirs[m].left : /\ fullpath' = Append(SubSeq(fullpath, 1, dirs[m].ptr - 1), name)
                                   /\ dirs' = [dirs EXCEPT ![m].left = @ \ {name}]
    BY <1>1 DEF Readdir, PathOf
<1>5. name \in Names /\ name \in Texts
    BY <1>2, <1>4 DEF Texts
<1> DEFINE d == [dirs[m] EXCEPT !.left = @ \ {name}]
<1>6. d \in D /\ d.ptr = dirs[m].ptr /\ d.left = dirs[m].left \ {name}
    BY <1>2
<1>7. dirs' = [dirs EXCEPT ![m] = d]
    BY <1>2, <1>4
<1> HIDE DEF d
<1>8. /\ dirs' \in Seq(D) /\ Len(dirs') = m /\ DOMAIN dirs' = 1 .. m
      /\ \A i \in 1 .. m : dirs'[i] = IF i = m THEN d ELSE dirs[i]
    <2> HIDE DEF D
    <2>1. /\ dirs' \in Seq(D) /\ Len(dirs') = m
          /\ \A i \in 1 .. m : dirs'[i] = IF i = m THEN d ELSE dirs[i]
        <3>1. m \in 1 .. Len(dirs)
            BY <1>2
        <3> QED
            BY <1>3, <1>6, <1>7, <3>1, ExceptSeq
    <2> QED
        BY <2>1, LenProperties
<1>9. \A i \in 1 .. m : dirs'[i].ptr = dirs[i].ptr /\ (i # m => dirs'[i].left = dirs[i].left)
    BY <1>6, <1>8
<1>10. fullpath' = Append(Stem(m), name) /\ dirs'[m].left = dirs[m].left \ {name}
    BY <1>2, <1>4, <1>6, <1>8 DEF Stem
<1>11. /\ fullpath' \in Seq(Texts) /\ Len(fullpath') = dirs[m].ptr /\ fullpath' # <<>>
       /\ \A j \in 1 .. dirs[m].ptr - 1 : fullpath'[j] = fullpath[j]
    <2>1. /\ fullpath' \in Seq(Texts) /\ Len(fullpath') = Len(Stem(m)) + 1 /\ fullpath' # <<>>
          /\ \A j \in 1 .. Len(Stem(m)) : fullpath'[j] = Stem(m)[j]
        BY <1>2, <1>5, <1>10, AppendProperties
    <2>2. dirs[m].ptr - 1 \in Nat /\ dirs[m].ptr - 1 <= Len(fullpath) /\ dirs[m].ptr \in Nat
        BY <1>2, <1>3
    <2>3. \A j \in 1 .. dirs[m].ptr - 1 : Stem(m)[j] = fullpath[j]
        BY <1>3, <2>2, Firsts DEF Stem
    <2> QED
        BY <1>2, <2>1, <2>2, <2>3
<1>12. ASSUME NEW i \in 1 .. m PROVE dirs[i].ptr \in Nat /\ 2 <= dirs[i].ptr /\ dirs[i].ptr <= dirs[m].ptr
    <2>1. i = m \/ i < m
        OBVIOUS
    <2>2. dirs[i].ptr \in Nat /\ dirs[m].ptr \in Nat /\ 2 <= dirs[i].ptr
        BY <1>2, <1>3
    <2>3. i < m => dirs[i].ptr < dirs[m].ptr
        BY <1>2, <1>3
    <2> QED
        BY <2>1, <2>2, <2>3
<1>13. ASSUME NEW i \in 1 .. m PROVE Stem(i)' = Stem(i) /\ Home(i)' = Home(i)
    <2>1. dirs[i].ptr - 1 \in Nat /\ dirs[i].ptr - 1 <= Len(fullpath) /\ dirs[i].ptr - 1 <= Len(fullpath')
        <3>1. PICK x, y, l, l2 : x = dirs[i].ptr /\ y = dirs[m].ptr /\ l = Len(fullpath) /\ l2 = Len(fullpath')
            OBVIOUS
        <3>2. x \in Nat /\ y \in Nat /\ 2 <= x /\ x <= y /\ y <= l + 1 /\ l \in Nat /\ l2 = y
            BY <1>2, <1>3, <1>11, <1>12, <3>1
        <3>3. x - 1 \in Nat /\ x - 1 <= l /\ x - 1 <= l2
            BY <3>2
        <3> QED
            BY <3>1, <3>3
    <2>2. \A j \in 1 .. dirs[i].ptr - 1 : fullpath'[j] = fullpath[j]
        <3> TAKE j \in 1 .. dirs[i].ptr - 1
        <3>1. dirs[m].ptr \in Nat /\ dirs[i].ptr \in Nat /\ dirs[i].ptr <= dirs[m].ptr
            BY <1>2, <1>12
        <3>2. j \in 1 .. dirs[m].ptr - 1
            BY <3>1
        <3> QED
            BY <1>11, <3>2
    <2>3. SubSeq(fullpath', 1, dirs[i].ptr - 1) = SubSeq(fullpath, 1, dirs[i].ptr - 1)
        BY <1>3, <1>11, <2>1, <2>2, SameFirsts
    <2>4. Stem(i)' = SubSeq(fullpath', 1, dirs[i].ptr - 1)
        BY <1>9 DEF Stem
    <2> QED
        BY <2>3, <2>4 DEF Stem, Home
<1>14. Here' = Append(Home(m), name)
    BY <1>2, <1>5, <1>10, PlaceAppend DEF Here, Home
<1>15. BufKnown'
    <2>1. \A i \in DOMAIN dirs' : 2 <= dirs'[i].ptr /\ dirs'[i].ptr <= Len(fullpath') + 1
        <3> TAKE i \in DOMAIN dirs'
        <3>1. dirs'[i].ptr = dirs[i].ptr /\ dirs[m].ptr \in Nat /\ i \in 1 .. m
            BY <1>2, <1>8, <1>9
        <3> QED
            BY <1>11, <1>12, <3>1
    <2>2. \A i, j \in DOMAIN dirs' : i < j => dirs'[i].ptr < dirs'[j].ptr
        BY <1>3, <1>8, <1>9
    <2>3. dirs' # <<>> /\ \A i \in {m} : fullpath' = Append(Stem(i)', name)
        <3>1. dirs' # <<>>
            BY <1>2, <1>8, EmptySeq
        <3>2. ASSUME NEW i \in {m} PROVE fullpath' = Append(Stem(i)', name)
            BY <1>2, <1>10, <1>13
        <3> QED
            BY <3>1, <3>2
    <2>4. fullpath' = Append(Stem(Len(dirs))', name)
        BY <1>8, <2>3 DEF Stem
    <2> QED
        BY <1>5, <1>8, <1>11, <2>1, <2>2, <2>3, <2>4 DEF BufKnown
<1>16. Start' = Start
    BY <1>1 DEF Start
<1> QED
    BY <1>1, <1>2, <1>8, <1>9, <1>10, <1>13, <1>14, <1>15, <1>16

\* Closedir cuts the path before the last slash of the innermost activation:
\* what the others have is before that.
LEMMA ClosedirDoes ==
    ASSUME WalkTypes, BufKnown, Closedir, NEW m \in Nat, m = Len(dirs)
    PROVE  /\ BufKnown' /\ Start' = Start /\ at = "return" /\ at' = "return" /\ m # 0
           /\ Len(dirs') = m - 1 /\ DOMAIN dirs' = 1 .. m - 1 /\ dirs[m].left = {}
           /\ \A i \in 1 .. m - 1 : dirs'[i] = dirs[i] /\ Stem(i)' = Stem(i) /\ Home(i)' = Home(i)
<1> DEFINE D == [ptr : Nat, left : SUBSET Names]
<1>1. /\ at = "return" /\ at' = "return" /\ in_path' = in_path /\ dirs[m].left = {}
      /\ fullpath' = SubSeq(fullpath, 1, dirs[m].ptr - 2) /\ dirs' = Front(dirs) /\ dirs # <<>>
    BY DEF Closedir, Last
<1>2. /\ DOMAIN dirs = 1 .. m /\ m # 0 /\ m \in 1 .. m /\ \A i \in 1 .. m : dirs[i] \in D
    <2>1. DOMAIN dirs = 1 .. m /\ m # 0 /\ \A i \in DOMAIN dirs : dirs[i] \in D
        BY <1>1, StemsKnown
    <2> QED
        BY <2>1
<1>3. /\ fullpath \in Seq(Texts) /\ dirs \in Seq(D) /\ Len(fullpath) \in Nat
      /\ \A i \in 1 .. m : 2 <= dirs[i].ptr /\ dirs[i].ptr <= Len(fullpath) + 1
      /\ \A i, j \in 1 .. m : i < j => dirs[i].ptr < dirs[j].ptr
    BY <1>2, LenProperties DEF BufKnown
<1>4. /\ dirs' \in Seq(D) /\ Len(dirs') = m - 1 /\ DOMAIN dirs' = 1 .. m - 1
      /\ \A i \in 1 .. m - 1 : dirs'[i] = dirs[i]
    <2>1. m - 1 \in Nat /\ m - 1 <= m /\ dirs' = SubSeq(dirs, 1, m - 1)
        BY <1>1, <1>2 DEF Front
    <2>2. /\ dirs' \in Seq(D) /\ Len(dirs') = m - 1
          /\ \A i \in 1 .. m - 1 : dirs'[i] = dirs[i]
        BY <1>3, <2>1, Firsts
    <2> QED
        BY <2>2, LenProperties
<1>5. /\ fullpath' \in Seq(Texts) /\ Len(fullpath') = dirs[m].ptr - 2
      /\ \A j \in 1 .. dirs[m].ptr - 2 : fullpath'[j] = fullpath[j]
    <2>1. dirs[m].ptr - 2 \in Nat /\ dirs[m].ptr - 2 <= Len(fullpath)
        BY <1>2, <1>3
    <2> QED
        BY <1>1, <1>3, <2>1, Firsts
<1>6. ASSUME NEW i \in 1 .. m - 1
      PROVE  dirs[i].ptr \in Nat /\ dirs[m].ptr \in Nat /\ 2 <= dirs[i].ptr /\ dirs[i].ptr < dirs[m].ptr
    <2>1. i \in 1 .. m /\ i < m
        BY <1>2
    <2> QED
        BY <1>2, <1>3, <2>1
<1>7. ASSUME NEW i \in 1 .. m - 1 PROVE Stem(i)' = Stem(i) /\ Home(i)' = Home(i)
    <2>1. dirs[i].ptr - 1 \in Nat /\ dirs[i].ptr - 1 <= Len(fullpath) /\ dirs[i].ptr - 1 <= Len(fullpath')
        <3>1. dirs[m].ptr <= Len(fullpath) + 1 /\ Len(fullpath) \in Nat
            BY <1>2, <1>3
        <3>2. dirs[i].ptr \in Nat /\ dirs[m].ptr \in Nat /\ 2 <= dirs[i].ptr /\ dirs[i].ptr < dirs[m].ptr
            BY <1>6
        <3>3. Len(fullpath') = dirs[m].ptr - 2
            BY <1>5
        <3> QED
            <4>1. PICK x, y, l, l2 : x = dirs[i].ptr /\ y = dirs[m].ptr /\ l = Len(fullpath) /\ l2 = Len(fullpath')
                OBVIOUS
            <4>2. x \in Nat /\ y \in Nat /\ 2 <= x /\ x < y /\ y <= l + 1 /\ l \in Nat /\ l2 = y - 2
                BY <3>1, <3>2, <3>3, <4>1
            <4>3. x - 1 \in Nat /\ x - 1 <= l /\ x - 1 <= l2
                BY <4>2
            <4> QED
                BY <4>1, <4>3
    <2>2. \A j \in 1 .. dirs[i].ptr - 1 : fullpath'[j] = fullpath[j]
        <3> TAKE j \in 1 .. dirs[i].ptr - 1
        <3>1. j \in 1 .. dirs[m].ptr - 2
            BY <1>6
        <3> QED
            BY <1>5, <3>1
    <2>3. SubSeq(fullpath', 1, dirs[i].ptr - 1) = SubSeq(fullpath, 1, dirs[i].ptr - 1)
        BY <1>3, <1>5, <2>1, <2>2, SameFirsts
    <2>4. Stem(i)' = SubSeq(fullpath', 1, dirs[i].ptr - 1)
        BY <1>4 DEF Stem
    <2> QED
        BY <2>3, <2>4 DEF Stem, Home
<1>8. BufKnown'
    <2>1. \A i \in DOMAIN dirs' : 2 <= dirs'[i].ptr /\ dirs'[i].ptr <= Len(fullpath') + 1
        <3> TAKE i \in DOMAIN dirs'
        <3>1. i \in 1 .. m - 1 /\ dirs'[i] = dirs[i] /\ Len(fullpath') = dirs[m].ptr - 2
            BY <1>4, <1>5
        <3>2. dirs[i].ptr \in Nat /\ dirs[m].ptr \in Nat /\ 2 <= dirs[i].ptr /\ dirs[i].ptr < dirs[m].ptr
            BY <1>6, <3>1
        <3> QED
            BY <3>1, <3>2
    <2>2. \A i, j \in DOMAIN dirs' : i < j => dirs'[i].ptr < dirs'[j].ptr
        <3> TAKE i, j \in DOMAIN dirs'
        <3>1. i \in 1 .. m /\ j \in 1 .. m /\ dirs'[i] = dirs[i] /\ dirs'[j] = dirs[j]
            BY <1>4
        <3> QED
            BY <1>3, <3>1
    <2>3. ~Visiting'
        BY <1>1 DEF Visiting
    <2> QED
        BY <1>4, <1>5, <2>1, <2>2, <2>3 DEF BufKnown
<1>9. Start' = Start
    BY <1>1 DEF Start
<1> QED
    BY <1>1, <1>2, <1>4, <1>7, <1>8, <1>9

\* What there is at a place.
LEMMA NodeIs ==
    ASSUME WalkTypes, NEW place
    PROVE  /\ NodeAt(place) \in Files \cup {NoNode} /\ (place \notin Places => NodeAt(place) = NoNode)
           /\ (IsDir(NodeAt(place)) => place \in Places /\ NodeAt(place) = fs[place])
BY DEF WalkTypes, NodeAt, IsDir

\* Where the walk may start.
LEMMA StartIs ==
    ASSUME WalkTypes, at = "main"
    PROVE  /\ StartPath \in Seq(Texts) /\ StartPath # <<>> /\ Place(StartPath) \in Seq(Names)
           /\ command.prog = "myfind" => Place(StartPath) \in Places /\ IsDir(fs[Place(StartPath)])
<1>1. command.start \in Seq(Texts) /\ command.start # <<>>
    BY CommandAssumption DEF WalkTypes, Pathnames, Texts
<1>2. <<".">> \in Seq(Texts) /\ <<".">> # <<>> /\ Place(<<".">>) = Cwd
    BY PlaceShort DEF Texts
<1>3. StartPath \in Seq(Texts) /\ StartPath # <<>>
    BY <1>1, <1>2 DEF StartPath
<1>4. ASSUME command.prog = "myfind" PROVE Place(StartPath) \in Places /\ IsDir(fs[Place(StartPath)])
    <2>1. CASE IsDir(NodeAt(Place(command.start)))
        BY <1>4, <2>1, NodeIs DEF StartPath
    <2>2. CASE ~IsDir(NodeAt(Place(command.start)))
        <3>1. StartPath = <<".">> /\ fs = Tree
            BY <1>4, <2>2 DEF StartPath, WalkTypes
        <3> QED
            BY <1>2, <3>1, TreeAssumption
    <2> QED
        BY <2>1, <2>2
<1> QED
    BY <1>3, <1>4, PlaceAppend

\* What main does, if it does not quit.
LEMMA MainDoes ==
    ASSUME WalkTypes, DirMain
    PROVE  /\ at = "main" /\ UNCHANGED <<command, fs, touched, argi, called, counts, seen, printed>>
           /\ \/ at' = "quit" /\ UNCHANGED <<filebuf, in_path, in_filepath, fullpath, dirs>>
              \/ /\ at' = "doPath" /\ dirs' = <<>> /\ fullpath' = in_path' /\ command.mode = "stat"
                 /\ in_path' = StartPath /\ UNCHANGED <<filebuf, in_filepath>>
              \/ /\ at' = "doPath" /\ dirs' = <<>> /\ fullpath' = in_path' /\ StartComp
                 /\ in_path' = getAbsPath(Place(StartPath)) /\ command.mode = "comp" /\ MayStart
              \/ /\ at' = "names" /\ dirs' = dirs /\ fullpath' = fullpath /\ command.mode = "name"
                 /\ in_path' = getAbsPath(Place(StartPath)) /\ UNCHANGED <<filebuf, in_filepath>>
BY DEF DirMain, StartStat, StartComp, StartNames, myFTW

\* And NextName.
LEMMA NextDoes ==
    ASSUME WalkTypes, NextName
    PROVE  /\ at \in {"names", "reported"} /\ command.mode = "name" /\ printed' = <<>> /\ argi' = argi + 1
           /\ UNCHANGED <<command, fs, touched, filebuf, in_path, in_filepath, called, counts, seen>>
           /\ \/ at' = "names" /\ UNCHANGED <<fullpath, dirs>>
              \/ /\ at' = "doPath" /\ dirs' = <<>> /\ fullpath' = in_path
                 /\ "/" \notin ToSet(command.names[argi + 1])
BY DEF NextName, myFTW, WalkTypes

\* func goes on with the directory, if it is one, and changes the results only.
LEMMA FuncDoes ==
    ASSUME CallFunc
    PROVE  /\ at = "func" /\ UNCHANGED <<command, fs, touched, filebuf, in_path, in_filepath, argi,
                                         fullpath, dirs, called>>
           /\ at' = "quit" \/ at' = IF called.type = "FTW_D" THEN "opendir" ELSE "return"
           /\ command.mode # "stat" => counts' = counts /\ seen' = seen
           /\ command.mode = "stat" => printed' = printed
           /\ printed' = printed \/ printed' = Append(printed, fullpath)
<1>1. CASE findStat
    BY <1>1 DEF CallFunc, findStat, AfterFunc
<1>2. CASE findName
    BY <1>2 DEF CallFunc, findName, AfterFunc
<1>3. CASE findComp
    <2>1. counts' = counts /\ seen' = seen /\ command.mode = "comp"
        BY <1>3 DEF findComp
    <2>2. (at' = "quit" \/ AfterFunc) /\ (printed' = printed \/ printed' = Append(printed, fullpath))
        BY <1>3 DEF findComp
    <2> QED
        BY <2>1, <2>2 DEF CallFunc, AfterFunc
<1> QED
    BY <1>1, <1>2, <1>3 DEF CallFunc

\* The node that func is called with.
LEMMA CalledNode ==
    ASSUME WalkTypes, CalledKnown, at = "func"
    PROVE  /\ called.type \in {"FTW_NS", "FTW_D", "FTW_F"}
           /\ called.type # "FTW_NS" => called.node \in Files /\ called.node.kind \in Kinds /\ Here \in Places
           /\ called.type = "FTW_NS" <=> called.node = NoNode
           /\ called.type # "FTW_NS" => (called.type = "FTW_D" <=> called.node.kind = "dir")
<1>1. \A node \in Files : node.kind \in Kinds
    BY DEF Files
<1> QED
    BY <1>1 DEF CalledKnown, IsDir

\* findStat counts the file as what lstat has said it is.
LEMMA StatDoes ==
    ASSUME WalkTypes, BufKnown, CalledKnown, CallFunc, command.mode = "stat"
    PROVE  /\ counts' \in [Kinds \cup {"small"} -> Nat] /\ seen' \in Seq([path : Seq(Texts), node : Files])
           /\ called.type = "FTW_NS" => counts' = counts /\ seen' = seen
           /\ called.type # "FTW_NS" =>
                 /\ seen' = Append(seen, [path |-> fullpath, node |-> called.node])
                 /\ \A x \in Kinds : counts'[x] = counts[x] + IF x = called.node.kind THEN 1 ELSE 0
                 /\ counts'["small"] = counts["small"] + IF SmallReg(called.node) THEN 1 ELSE 0
<1>1. findStat /\ at = "func"
    BY DEF CallFunc, findStat, findComp, findName
<1>2. counts \in [Kinds \cup {"small"} -> Nat] /\ "small" \notin Kinds
      /\ seen \in Seq([path : Seq(Texts), node : Files])
    BY DEF WalkTypes, Kinds
<1>3. CASE called.type = "FTW_NS"
    BY <1>1, <1>2, <1>3 DEF findStat
<1>4. CASE called.type # "FTW_NS"
    <2>1. called.node.kind \in Kinds /\ called.node \in Files
        BY <1>1, <1>4, CalledNode
    <2> DEFINE kd == called.node.kind
               e == IF SmallReg(called.node) THEN 1 ELSE 0
               r == [path |-> fullpath, node |-> called.node]
    <2>2. e \in {0, 1} /\ counts' = [counts EXCEPT ![kd] = @ + 1, !["small"] = @ + e]
          /\ seen' = Append(seen, r)
        BY <1>1, <1>4 DEF findStat
    <2>3. r \in [path : Seq(Texts), node : Files]
        BY <2>1 DEF BufKnown
    <2>4. kd \in Kinds
        BY <2>1
    <2> HIDE DEF kd, e, r
    <2>5. counts' \in [Kinds \cup {"small"} -> Nat]
        BY <1>2, <2>2, <2>4
    <2>6. \A x \in Kinds : counts'[x] = counts[x] + IF x = kd THEN 1 ELSE 0
        BY <1>2, <2>2, <2>4
    <2>7. counts'["small"] = counts["small"] + e
        BY <1>2, <2>2, <2>4
    <2>8. seen' \in Seq([path : Seq(Texts), node : Files])
        BY <1>2, <2>2, <2>3, AppendProperties
    <2> QED
        BY <1>4, <2>2, <2>5, <2>6, <2>7, <2>8 DEF kd, e, r
<1> QED
    BY <1>3, <1>4

\* Another process changes what is at one place, and the activation that reads
\* the directory may or may not be given the name.
LEMMA ChangeDoes ==
    ASSUME WalkTypes, BufKnown, Change
    PROVE  /\ fs' \in [Places -> Files \cup {NoNode}] /\ at \notin {"main", "quit", "reported"}
           /\ \E p \in Places : touched' = touched \cup {p} /\ \A q \in Places : q # p => fs'[q] = fs[q]
           /\ BufKnown' /\ SameDirs /\ Start' = Start /\ Here' = Here /\ (dirs = <<>> => dirs' = <<>>)
           /\ UNCHANGED <<command, filebuf, in_path, in_filepath, argi, fullpath, called,
                          counts, seen, printed, at>>
<1> DEFINE D == [ptr : Nat, left : SUBSET Names]
<1>1. PICK p \in Places \ {<<>>}, node \in Nodes, given \in BOOLEAN :
         /\ fs' = [fs EXCEPT ![p] = node] /\ touched' = touched \cup {p}
         /\ dirs' = [i \in DOMAIN dirs |->
               [dirs[i] EXCEPT !.left =
                  IF Home(i) # Front(p) THEN @
                  ELSE IF given /\ node # NoNode THEN @ \cup {Last(p)}
                  ELSE IF given THEN @ ELSE @ \ {Last(p)}]]
    BY DEF Change
<1>2. at \notin {"main", "quit", "reported"} /\ UNCHANGED <<command, filebuf, in_path, in_filepath, argi,
                                             fullpath, called, counts, seen, printed, at>>
    BY DEF Change
<1>3. fs \in [Places -> Files \cup {NoNode}] /\ node \in Files \cup {NoNode}
    BY TreeAssumption DEF WalkTypes
<1>4. fs' \in [Places -> Files \cup {NoNode}] /\ \A q \in Places : q # p => fs'[q] = fs[q]
    BY <1>1, <1>3
<1>5. Front(p) \in Seq(Names) /\ Last(p) \in Names /\ p = Append(Front(p), Last(p))
    BY FrontLast, TreeAssumption
<1>6. /\ Len(dirs) \in Nat /\ DOMAIN dirs = 1 .. Len(dirs) /\ (dirs = <<>> <=> Len(dirs) = 0)
      /\ \A i \in DOMAIN dirs : dirs[i] \in D /\ Home(i) \in Seq(Names)
    BY StemsKnown
<1>7. DOMAIN dirs' = DOMAIN dirs
    BY <1>1
<1>8. ASSUME NEW i \in DOMAIN dirs
      PROVE  /\ dirs'[i] \in D /\ dirs'[i].ptr = dirs[i].ptr
             /\ \A name : name # Last(p) => (name \in dirs'[i].left <=> name \in dirs[i].left)
             /\ Home(i) # Front(p) => dirs'[i].left = dirs[i].left
    <2> DEFINE L == IF Home(i) # Front(p) THEN dirs[i].left
                    ELSE IF given /\ node # NoNode THEN dirs[i].left \cup {Last(p)}
                    ELSE IF given THEN dirs[i].left ELSE dirs[i].left \ {Last(p)}
    <2>1. dirs'[i] = [dirs[i] EXCEPT !.left = L]
        BY <1>1
    <2>2. L \in SUBSET Names
        BY <1>5, <1>6
    <2>3. (Home(i) # Front(p) => L = dirs[i].left)
          /\ \A name : name # Last(p) => (name \in L <=> name \in dirs[i].left)
        OBVIOUS
    <2> HIDE DEF L
    <2>4. dirs'[i] \in D /\ dirs'[i].ptr = dirs[i].ptr /\ dirs'[i].left = L
        BY <1>6, <2>1, <2>2
    <2> QED
        BY <2>3, <2>4
<1>9. dirs' \in Seq(D) /\ Len(dirs') = Len(dirs)
    <2>1. dirs' \in [1 .. Len(dirs) -> D]
        BY <1>1, <1>6, <1>7, <1>8
    <2> HIDE DEF D
    <2>2. dirs' \in Seq(D)
        <3>1. PICK l \in Nat : l = Len(dirs)
            BY <1>6
        <3>2. dirs' \in [1 .. l -> D]
            BY <2>1, <3>1
        <3> QED
            BY <3>2, SeqDef
    <2>3. DOMAIN dirs' = 1 .. Len(dirs')
        BY <2>2, LenProperties
    <2>4. Len(dirs') \in Nat /\ \A i : i \in 1 .. Len(dirs') <=> i \in 1 .. Len(dirs)
        BY <1>6, <1>7, <2>2, <2>3, LenProperties
    <2> QED
        BY <1>6, <2>2, <2>4, SameCount
<1>10. \A i \in DOMAIN dirs : Stem(i)' = Stem(i) /\ Home(i)' = Home(i)
    BY <1>2, <1>8 DEF Stem, Home
<1>11. Start' = Start /\ Here' = Here
    BY <1>2 DEF Start, Here
<1>12. SameDirs
    <2>1. ASSUME NEW i \in DOMAIN dirs, NEW name, Append(Home(i), name) \notin touched'
          PROVE  name \in dirs'[i].left <=> name \in dirs[i].left
        <3>1. CASE Home(i) = Front(p)
            <4>1. name # Last(p)
                BY <1>1, <1>5, <2>1, <3>1
            <4> QED
                BY <1>8, <4>1
        <3>2. CASE Home(i) # Front(p)
            BY <1>8, <3>2
        <3> QED
            BY <3>1, <3>2
    <2> QED
        BY <1>7, <1>9, <1>10, <2>1 DEF SameDirs
<1>13. dirs = <<>> <=> dirs' = <<>>
    <2>1. dirs' = <<>> <=> Len(dirs') = 0
        BY <1>9, EmptySeq
    <2> QED
        BY <1>6, <1>9, <2>1
<1>14. BufKnown'
    <2>1. \A i \in DOMAIN dirs : 2 <= dirs[i].ptr /\ dirs[i].ptr <= Len(fullpath) + 1
        BY DEF BufKnown
    <2>2. \A i, j \in DOMAIN dirs : i < j => dirs[i].ptr < dirs[j].ptr
        BY DEF BufKnown
    <2>3. Visiting' <=> Visiting
        BY <1>2 DEF Visiting
    <2>4. \A i \in DOMAIN dirs' : 2 <= dirs'[i].ptr /\ dirs'[i].ptr <= Len(fullpath') + 1
        BY <1>2, <1>7, <1>8, <2>1
    <2>5. \A i, j \in DOMAIN dirs' : i < j => dirs'[i].ptr < dirs'[j].ptr
        BY <1>7, <1>8, <2>2
    <2>6. ASSUME Visiting', dirs' # <<>>
          PROVE  \E name \in Names : fullpath' = Append(Stem(Len(dirs))', name)
        <3>1. PICK name \in Names : fullpath = Append(Stem(Len(dirs)), name)
            BY <1>13, <2>3, <2>6 DEF BufKnown
        <3>2. PICK l \in DOMAIN dirs : l = Len(dirs)
            BY <1>6, <1>13, <2>6
        <3>3. Stem(l)' = Stem(l) /\ l = Len(dirs')
            BY <1>9, <1>10, <3>2
        <3>4. Stem(Len(dirs))' = Stem(l)
            BY <3>3 DEF Stem
        <3> QED
            BY <1>2, <3>1, <3>2, <3>4
    <2>7. fullpath' \in Seq(Texts)
        BY <1>2 DEF BufKnown
    <2>8. Visiting' /\ dirs' = <<>> => fullpath' = in_path'
        BY <1>2, <1>13, <2>3 DEF BufKnown
    <2> QED
        BY <1>9, <2>4, <2>5, <2>6, <2>7, <2>8 DEF BufKnown
<1> QED
    BY <1>1, <1>2, <1>4, <1>11, <1>12, <1>13, <1>14

\* The first part of the invariant: the types, the buffer and what func gets.
BaseInv == WalkTypes /\ BufKnown /\ CalledKnown

LEMMA BaseNext == BaseInv /\ [DirNext]_dirVars => BaseInv'
<1> SUFFICES ASSUME WalkTypes, BufKnown, CalledKnown, [DirNext]_dirVars
             PROVE  WalkTypes' /\ BufKnown' /\ CalledKnown'
    BY DEF BaseInv
<1>1. CASE DirMain
    <2>1. /\ at = "main" /\ at' # "main" /\ at' # "func" /\ dirs = <<>> /\ printed = <<>>
          /\ UNCHANGED <<command, fs, touched, argi, called, counts, seen, printed>>
        BY <1>1, MainDoes DEF WalkTypes
    <2>2. CASE at' = "quit" /\ UNCHANGED <<filebuf, in_path, in_filepath, fullpath, dirs>>
        <3>1. WalkTypes'
            BY <2>1, <2>2 DEF WalkTypes, Walking, Visiting
        <3>2. BufKnown'
            BY <2>1, <2>2, BufSame DEF Visiting
        <3> QED
            BY <2>1, <3>1, <3>2 DEF CalledKnown
    <2>3. CASE ~(at' = "quit" /\ UNCHANGED <<filebuf, in_path, in_filepath, fullpath, dirs>>)
        <3>1. /\ at' = "doPath" \/ (at' = "names" /\ command.mode = "name")
              /\ dirs' = <<>> /\ (at' = "doPath" => fullpath' = in_path') /\ (at' = "names" => fullpath' = fullpath)
              /\ in_path' = StartPath \/ in_path' = getAbsPath(Place(StartPath))
              /\ filebuf' = filebuf \/ (StartComp /\ MayStart /\ command.mode = "comp")
            BY <1>1, <2>1, <2>3, MainDoes
        <3>2. in_path' \in Seq(Texts) /\ in_path' # <<>>
            BY <2>1, <3>1, StartIs, AbsIs
        <3>3. filebuf' \in Bytes
            <4>1. CASE filebuf' = filebuf
                BY <4>1 DEF WalkTypes
            <4>2. CASE StartComp /\ MayStart /\ command.mode = "comp"
                <5> DEFINE node == NodeAt(Place(command.source))
                <5>1. filebuf' = node.bytes /\ node # NoNode
                    BY <4>2 DEF StartComp, MayStart
                <5>2. node \in Files
                    BY <5>1, NodeIs
                <5> QED
                    BY <5>1, <5>2 DEF Files, Bytes
            <4> QED
                BY <3>1, <4>1, <4>2
        <3>4. WalkTypes'
            BY <2>1, <3>1, <3>2, <3>3 DEF WalkTypes, Walking, Visiting
        <3>5. fullpath' \in Seq(Texts)
            BY <3>1, <3>2 DEF BufKnown
        <3>6. <<>> \in Seq([ptr : Nat, left : SUBSET Names]) /\ DOMAIN <<>> = {}
            BY EmptySeq
        <3>7. Visiting' => at' = "doPath"
            BY <3>1 DEF Visiting
        <3>8. BufKnown'
            BY <3>1, <3>5, <3>6, <3>7 DEF BufKnown
        <3> QED
            BY <2>1, <3>4, <3>8 DEF CalledKnown
    <2> QED
        BY <2>2, <2>3
<1>2. CASE Lstat
    <2>1. /\ at = "doPath" /\ at' = "func" /\ called'.node = NodeAt(Here)
          /\ called'.type = IF called'.node = NoNode THEN "FTW_NS"
                            ELSE IF IsDir(called'.node) THEN "FTW_D" ELSE "FTW_F"
          /\ UNCHANGED <<command, fs, touched, filebuf, in_path, in_filepath, argi, fullpath, dirs,
                         counts, seen, printed>>
        BY <1>2 DEF Lstat, Here
    <2>2. WalkTypes'
        BY <2>1 DEF WalkTypes, Walking, Visiting
    <2>3. BufKnown' /\ Here' = Here
        BY <2>1, BufSame DEF Visiting
    <2>4. NodeAt(Here)' = NodeAt(Here)
        BY <2>1, <2>3 DEF NodeAt
    <2>5. called'.node \in Files \cup {NoNode} /\ (Here \notin Places => called'.node = NoNode)
        BY <2>1, NodeIs
    <2>6. CalledKnown'
        BY <2>1, <2>3, <2>4, <2>5 DEF CalledKnown, IsDir
    <2> QED
        BY <2>2, <2>3, <2>6
<1>3. CASE CallFunc
    <2>1. /\ at = "func" /\ at' \in {"quit", "opendir", "return"}
          /\ UNCHANGED <<command, fs, touched, filebuf, in_path, in_filepath, argi, fullpath, dirs, called>>
          /\ command.mode # "stat" => counts' = counts /\ seen' = seen
          /\ command.mode = "stat" => printed' = printed
          /\ printed' = printed \/ printed' = Append(printed, fullpath)
        BY <1>3, FuncDoes
    <2>2. counts' \in [Kinds \cup {"small"} -> Nat] /\ seen' \in Seq([path : Seq(Texts), node : Files])
        BY <1>3, <2>1, StatDoes DEF WalkTypes
    <2>3. printed' \in Seq(Seq(Texts))
        <3>1. printed \in Seq(Seq(Texts)) /\ fullpath \in Seq(Texts)
            BY DEF WalkTypes, BufKnown
        <3> QED
            BY <2>1, <3>1, AppendProperties
    <2>4. WalkTypes'
        BY <2>1, <2>2, <2>3 DEF WalkTypes, Walking, Visiting
    <2>5. BufKnown'
        BY <2>1, BufSame DEF Visiting
    <2> QED
        BY <2>1, <2>4, <2>5 DEF CalledKnown
<1>4. CASE Opendir
    <2>1. /\ at = "opendir" /\ at' = "return"
          /\ UNCHANGED <<command, fs, touched, filebuf, in_path, in_filepath, argi, called, counts, seen, printed>>
        BY <1>4 DEF Opendir
    <2>2. WalkTypes'
        BY <2>1 DEF WalkTypes, Walking, Visiting
    <2>3. BufKnown'
        BY <1>4, StemsKnown, OpendirDoes
    <2> QED
        BY <2>1, <2>2, <2>3 DEF CalledKnown
<1>5. CASE Readdir
    <2>1. /\ at = "return" /\ at' = "doPath"
          /\ UNCHANGED <<command, fs, touched, filebuf, in_path, in_filepath, argi, called, counts, seen, printed>>
        BY <1>5 DEF Readdir
    <2>2. WalkTypes'
        BY <2>1 DEF WalkTypes, Walking, Visiting
    <2>3. BufKnown'
        BY <1>5, StemsKnown, ReaddirDoes
    <2> QED
        BY <2>1, <2>2, <2>3 DEF CalledKnown
<1>6. CASE Closedir
    <2>1. /\ at = "return" /\ at' = "return"
          /\ UNCHANGED <<command, fs, touched, filebuf, in_path, in_filepath, argi, called, counts, seen, printed>>
        BY <1>6 DEF Closedir
    <2>2. WalkTypes'
        BY <2>1 DEF WalkTypes, Walking, Visiting
    <2>3. BufKnown'
        BY <1>6, StemsKnown, ClosedirDoes
    <2> QED
        BY <2>1, <2>2, <2>3 DEF CalledKnown
<1>7. CASE Report
    <2>1. /\ at = "return" /\ at' = "reported" /\ dirs = <<>>
          /\ UNCHANGED <<command, fs, touched, filebuf, in_path, in_filepath, argi, fullpath, dirs,
                         called, counts, seen, printed>>
        BY <1>7 DEF Report
    <2>2. WalkTypes'
        BY <2>1 DEF WalkTypes, Walking, Visiting
    <2>3. BufKnown'
        BY <2>1, BufSame DEF Visiting
    <2> QED
        BY <2>1, <2>2, <2>3 DEF CalledKnown
<1>8. CASE NextName
    <2>1. /\ at \in {"names", "reported"} /\ command.mode = "name" /\ printed' = <<>>
          /\ UNCHANGED <<command, fs, touched, filebuf, in_path, in_filepath, called, counts, seen>>
          /\ \/ at' = "names" /\ UNCHANGED <<fullpath, dirs>>
             \/ at' = "doPath" /\ dirs' = <<>> /\ fullpath' = in_path
        BY <1>8, NextDoes
    <2>2. dirs = <<>> /\ <<>> \in Seq(Seq(Texts)) /\ in_path \in Seq(Texts) /\ in_path # <<>>
        BY <2>1, EmptySeq DEF WalkTypes
    <2>3. WalkTypes'
        BY <2>1, <2>2 DEF WalkTypes, Walking, Visiting
    <2>4. CASE at' = "names" /\ UNCHANGED <<fullpath, dirs>>
        <3>1. BufKnown'
            BY <2>1, <2>4, BufSame DEF Visiting
        <3> QED
            BY <2>3, <2>4, <3>1 DEF CalledKnown
    <2>5. CASE at' = "doPath" /\ dirs' = <<>> /\ fullpath' = in_path
        <3>1. <<>> \in Seq([ptr : Nat, left : SUBSET Names]) /\ DOMAIN <<>> = {}
            BY EmptySeq
        <3>2. BufKnown'
            BY <2>1, <2>2, <2>5, <3>1 DEF BufKnown
        <3> QED
            BY <2>3, <2>5, <3>2 DEF CalledKnown
    <2> QED
        BY <2>1, <2>4, <2>5
<1>9. CASE Change
    <2>1. PICK p \in Places : /\ fs' \in [Places -> Files \cup {NoNode}] /\ touched' = touched \cup {p}
                              /\ \A q \in Places : q # p => fs'[q] = fs[q]
                              /\ at \notin {"main", "quit", "reported"} /\ (dirs = <<>> => dirs' = <<>>)
                              /\ UNCHANGED <<command, filebuf, in_path, in_filepath, argi, fullpath,
                                             called, counts, seen, printed, at>>
        BY <1>9, ChangeDoes
    <2>2. WalkTypes'
        BY <2>1 DEF WalkTypes, Walking, Visiting
    <2>3. BufKnown' /\ Here' = Here
        BY <1>9, ChangeDoes
    <2>4. Here \notin touched' => Here \notin touched /\ NodeAt(Here)' = NodeAt(Here)
        BY <2>1, <2>3 DEF NodeAt
    <2>5. CalledKnown'
        BY <2>1, <2>3, <2>4 DEF CalledKnown, IsDir
    <2> QED
        BY <2>2, <2>3, <2>5
<1>10. CASE UNCHANGED dirVars
    <2>1. WalkTypes'
        BY <1>10 DEF WalkTypes, Walking, Visiting, dirVars
    <2>2. BufKnown' /\ Here' = Here
        BY <1>10, BufSame DEF Visiting, dirVars
    <2>3. CalledKnown'
        BY <1>10, <2>2 DEF CalledKnown, IsDir, NodeAt, dirVars
    <2> QED
        BY <2>1, <2>2, <2>3
<1> QED
    BY <1>1, <1>2, <1>3, <1>4, <1>5, <1>6, <1>7, <1>8, <1>9, <1>10 DEF DirNext

-----------------------------------------------------------------------------
(* The activations: which directories they are in and what is behind them.   *)

\* What is not changed stays open.
LEMMA WayKept ==
    ASSUME NEW place, Way(place), Start' = Start, touched \subseteq touched',
           \A q \in Places \ touched' : fs'[q] = fs[q]
    PROVE  Way(place)'
BY DEF Way, IsDir

LEMMA StackSame ==
    ASSUME BaseInv, StackKnown, SameDirs, Start' = Start, Here' = Here, Visiting' => Visiting,
           touched \subseteq touched', \A q \in Places \ touched' : fs'[q] = fs[q]
    PROVE  StackKnown'
<1>1. /\ DOMAIN dirs' = DOMAIN dirs /\ Len(dirs') = Len(dirs)
      /\ \A i \in DOMAIN dirs : Home(i)' = Home(i)
    BY DEF SameDirs
<1>2. ASSUME NEW i \in DOMAIN dirs, NEW place, Apart(i, place)
      PROVE  \A name \in dirs'[i].left :
                Append(Home(i), name) \in touched' \/ Append(Home(i), name) \notin Prefixes(place)
    BY <1>2 DEF Apart, SameDirs
<1>3. ASSUME NEW i \in DOMAIN dirs
      PROVE  /\ (Start \in Prefixes(Home(i)))' /\ Way(Home(i))' /\ (Len(Home(i)) = Len(Start) + i - 1)'
             /\ \A j \in DOMAIN dirs' : i < j => Apart(i, Home(j))'
    <2>1. PICK h : h = Home(i)
        OBVIOUS
    <2>2. Way(h)'
        BY <2>1, WayKept DEF StackKnown
    <2>3. Way(Home(i))'
        BY <1>1, <2>1, <2>2 DEF Way
    <2>4. ASSUME NEW j \in DOMAIN dirs, i < j PROVE Apart(i, Home(j))'
        <3>1. PICK h2 : h2 = Home(j)
            OBVIOUS
        <3>2. Apart(i, h2)
            BY <2>4, <3>1 DEF StackKnown
        <3>3. \A name \in dirs'[i].left :
                 Append(Home(i), name) \in touched' \/ Append(Home(i), name) \notin Prefixes(h2)
            BY <1>2, <3>2
        <3> QED
            BY <1>1, <3>1, <3>3 DEF Apart
    <2> QED
        BY <1>1, <2>3, <2>4 DEF StackKnown
<1>4. ASSUME Visiting'
      PROVE  /\ (Start \in Prefixes(Here))' /\ (Len(Here) = Len(Start) + Len(dirs))'
             /\ \A i \in DOMAIN dirs' : Apart(i, Here)'
    <2>1. Visiting
        BY <1>4
    <2>2. ASSUME NEW i \in DOMAIN dirs PROVE Apart(i, Here)'
        <3>1. PICK h : h = Here
            OBVIOUS
        <3>2. Apart(i, h)
            BY <2>1, <3>1 DEF StackKnown
        <3>3. \A name \in dirs'[i].left :
                 Append(Home(i), name) \in touched' \/ Append(Home(i), name) \notin Prefixes(h)
            BY <1>2, <3>2
        <3> QED
            BY <1>1, <3>1, <3>3 DEF Apart
    <2> QED
        BY <1>1, <2>1, <2>2 DEF StackKnown
<1> QED
    BY <1>1, <1>3, <1>4 DEF StackKnown

\* Each activation is above the next, and all are above where the walk is.
LEMMA StackLens ==
    ASSUME BaseInv, StackKnown, at \notin {"main", "quit"}
    PROVE  /\ Len(Start) \in Nat /\ \A i \in DOMAIN dirs : i \in Nat /\ Len(Home(i)) \in Nat
           /\ \A i, j \in DOMAIN dirs : i < j => Len(Home(i)) < Len(Home(j))
           /\ Visiting => /\ Len(Here) \in Nat /\ Here \in Seq(Names)
                          /\ \A i \in DOMAIN dirs : Len(Home(i)) < Len(Here)
<1>1. WalkTypes /\ BufKnown
    BY DEF BaseInv
<1>2. Len(dirs) \in Nat /\ DOMAIN dirs = 1 .. Len(dirs) /\ Start \in Seq(Names)
    BY <1>1, StemsKnown
<1>3. Len(Start) \in Nat
    BY <1>2, LenProperties
<1>4. \A i \in DOMAIN dirs : Len(Home(i)) = Len(Start) + i - 1 /\ i \in 1 .. Len(dirs)
    BY <1>2 DEF StackKnown
<1> DEFINE n == Len(Start)
           m == Len(dirs)
<1>5. n \in Nat /\ m \in Nat
    BY <1>2, <1>3
<1>6. ASSUME Visiting PROVE Len(Here) = n + m /\ Here \in Seq(Names)
    BY <1>1, <1>6, StemsKnown DEF StackKnown
<1> HIDE DEF n, m
<1>7. \A i \in DOMAIN dirs : Len(Home(i)) = n + i - 1 /\ i \in 1 .. m
    BY <1>4 DEF n, m
<1>8. \A i \in DOMAIN dirs : i \in Nat /\ Len(Home(i)) \in Nat /\ Len(Home(i)) < n + m
    BY <1>5, <1>7
<1>9. \A i, j \in DOMAIN dirs : i < j => Len(Home(i)) < Len(Home(j))
    BY <1>5, <1>7
<1> QED
    BY <1>3, <1>5, <1>6, <1>8, <1>9

\* Where the walk is, there has been an open directory at every level above it.
LEMMA WayHere ==
    ASSUME BaseInv, StackKnown, Visiting
    PROVE  \A q \in Prefixes(Here) : Start \in Prefixes(q) /\ q # Here /\ q \notin touched =>
              q \in Places /\ IsDir(fs[q]) /\ fs[q].open
<1> TAKE q \in Prefixes(Here)
<1> HAVE Start \in Prefixes(q) /\ q # Here /\ q \notin touched
<1>1. Here \in Seq(Names) /\ Len(dirs) \in Nat /\ DOMAIN dirs = 1 .. Len(dirs) /\ (dirs = <<>> <=> Len(dirs) = 0)
    BY StemsKnown DEF BaseInv
<1>2. dirs # <<>>
    <2>1. ASSUME dirs = <<>> PROVE FALSE
        <3>1. Here = Start
            BY <2>1, StemsKnown DEF BaseInv
        <3>2. q \in Seq(Names) /\ Len(q) \in 0 .. Len(Here) /\ Len(q) # Len(Here)
            BY <1>1, PrefixLaws
        <3>3. Len(Start) \in 0 .. Len(q) /\ Len(Here) \in Nat
            BY <1>1, <3>2, PrefixLaws, LenProperties
        <3> QED
            BY <3>1, <3>2, <3>3
    <2> QED
        BY <2>1
<1>3. PICK name \in Names : Here = Append(Home(Len(dirs)), name)
    BY <1>2, StemsKnown DEF BaseInv
<1>4. Len(dirs) \in DOMAIN dirs /\ Home(Len(dirs)) \in Seq(Names)
    BY <1>1, <1>2, StemsKnown DEF BaseInv
<1>5. q \in Prefixes(Home(Len(dirs)))
    BY <1>3, <1>4, PrefixAppend
<1> QED
    BY <1>4, <1>5 DEF StackKnown, Way

\* What is known of one activation.
StackAt(i) == Start \in Prefixes(Home(i)) /\ Way(Home(i)) /\ Len(Home(i)) = Len(Start) + i - 1

\* Where the tree is not changed, the activations that stay stay where they are.
LEMMA StackKept ==
    ASSUME StackKnown, Start' = Start, UNCHANGED <<fs, touched>>, NEW I \in SUBSET DOMAIN dirs,
           \A i \in I : dirs'[i].left \subseteq dirs[i].left /\ Home(i)' = Home(i)
    PROVE  \A i \in I : StackAt(i)' /\ \A j \in I : i < j => Apart(i, Home(j))'
<1> TAKE i \in I
<1>1. PICK h : h = Home(i)
    OBVIOUS
<1>2. Way(h)'
    BY <1>1, WayKept DEF StackKnown
<1>3. StackAt(i)'
    BY <1>1, <1>2 DEF StackKnown, StackAt, Way
<1>4. ASSUME NEW j \in I, i < j PROVE Apart(i, Home(j))'
    <2>1. PICK h2 : h2 = Home(j)
        OBVIOUS
    <2>2. Apart(i, h2)
        BY <1>4, <2>1 DEF StackKnown
    <2>3. Apart(i, h2)'
        BY <2>2 DEF Apart
    <2> QED
        BY <2>1, <2>3 DEF Apart
<1> QED
    BY <1>3, <1>4

LEMMA StackNext == BaseInv /\ StackKnown /\ [DirNext]_dirVars => StackKnown'
<1> SUFFICES ASSUME BaseInv, StackKnown, [DirNext]_dirVars PROVE StackKnown'
    OBVIOUS
<1>1. WalkTypes /\ BufKnown /\ CalledKnown /\ BaseInv'
    BY BaseNext DEF BaseInv
<1> DEFINE m == Len(dirs)
<1>2. m \in Nat /\ DOMAIN dirs = 1 .. m
    BY <1>1, StemsKnown
\* A walk begins.
<1>3. ASSUME at' = "doPath", dirs' = <<>>, fullpath' = in_path' PROVE StackKnown'
    <2>1. (at \notin {"main", "quit"})' /\ Visiting'
        BY <1>3 DEF Visiting
    <2>2. Start' \in Seq(Names) /\ Here' = Start'
        <3>1. (in_path \in Seq(Texts) /\ in_path # <<>>)'
            BY <1>1, <2>1 DEF BaseInv, WalkTypes
        <3> QED
            BY <1>3, <3>1, PlaceAppend DEF Start, Here
    <2>3. (Start \in Prefixes(Here))'
        BY <2>2, PrefixLaws
    <2>4. Len(Start') \in Nat /\ Len(dirs') = 0 /\ DOMAIN dirs' = {}
        BY <1>3, <2>2, LenProperties
    <2>5. (Len(Here) = Len(Start) + Len(dirs))'
        BY <2>2, <2>4
    <2> QED
        BY <2>3, <2>4, <2>5 DEF StackKnown
<1>4. CASE DirMain
    <2>1. at = "main" /\ UNCHANGED <<fs, touched>> /\ dirs = <<>>
        BY <1>1, <1>4, MainDoes DEF WalkTypes
    <2>2. CASE at' = "doPath" /\ dirs' = <<>> /\ fullpath' = in_path'
        BY <1>3, <2>2
    <2>3. CASE at' # "doPath"
        <3>1. dirs' = <<>> /\ ~Visiting'
            BY <1>1, <1>4, <2>1, <2>3, MainDoes DEF Visiting
        <3> QED
            BY <3>1 DEF StackKnown
    <2> QED
        BY <1>1, <1>4, <2>2, <2>3, MainDoes
<1>5. CASE NextName
    <2>1. dirs = <<>>
        BY <1>1, <1>5, NextDoes DEF WalkTypes
    <2>2. CASE at' = "doPath" /\ dirs' = <<>> /\ fullpath' = in_path'
        BY <1>3, <2>2
    <2>3. CASE at' = "names" /\ dirs' = dirs
        BY <2>1, <2>3 DEF StackKnown, Visiting
    <2> QED
        BY <1>1, <1>5, <2>2, <2>3, NextDoes
\* Nothing is opened, closed or taken.
<1>6. ASSUME UNCHANGED <<fullpath, dirs, in_path, fs, touched>>, Visiting' => Visiting PROVE StackKnown'
    BY <1>1, <1>6, BufSame, StackSame
<1>7. CASE Lstat
    BY <1>6, <1>7 DEF Lstat, Visiting
<1>8. CASE CallFunc
    BY <1>6, <1>8, FuncDoes DEF Visiting
<1>9. CASE Report \/ UNCHANGED dirVars
    BY <1>6, <1>9 DEF Report, dirVars, Visiting
<1>10. CASE Change
    BY <1>1, <1>10, ChangeDoes, StackSame DEF Visiting
<1>11. CASE Opendir
    <2>1. /\ Start' = Start /\ at = "opendir" /\ at' = "return"
          /\ \A i \in 1 .. m : i \in DOMAIN dirs' /\ dirs'[i] = dirs[i] /\ Home(i)' = Home(i)
          /\ IF IsDir(NodeAt(Here)) /\ NodeAt(Here).open /\ ~NoneFree
             THEN /\ Len(dirs') = m + 1 /\ DOMAIN dirs' = 1 .. m + 1
                  /\ \A i \in {m + 1} : Home(i)' = Here
                  /\ dirs'[m + 1].left = {Last(p) : p \in Children(Here)}
             ELSE dirs' = dirs
        BY <1>1, <1>2, <1>11, OpendirDoes
    <2>2. UNCHANGED <<fs, touched>> /\ Visiting /\ ~Visiting'
        BY <1>11, <2>1 DEF Opendir, Visiting
    <2>3. \A i \in 1 .. m : dirs'[i].left = dirs[i].left /\ Home(i)' = Home(i)
        BY <2>1
    <2>4. ASSUME NEW i \in 1 .. m PROVE StackAt(i)' /\ \A j \in 1 .. m : i < j => Apart(i, Home(j))'
        BY <1>2, <2>1, <2>2, <2>3, <2>4, StackKept
    <2>5. CASE ~(IsDir(NodeAt(Here)) /\ NodeAt(Here).open /\ ~NoneFree)
        BY <1>2, <2>1, <2>2, <2>4, <2>5 DEF StackKnown, StackAt
    <2>6. CASE IsDir(NodeAt(Here)) /\ NodeAt(Here).open /\ ~NoneFree
        <3>1. /\ DOMAIN dirs' = 1 .. m + 1 /\ \A i \in {m + 1} : Home(i)' = Here
              /\ dirs'[m + 1].left = {Last(p) : p \in Children(Here)}
            BY <2>1, <2>6
        <3>2. Here \in Places /\ NodeAt(Here) = fs[Here] /\ Here \in Seq(Names)
            BY <1>1, <2>2, <2>6, NodeIs, StemsKnown
        <3>3. Way(Here)
            <4>1. ASSUME NEW q \in Prefixes(Here), Start \in Prefixes(q), q \notin touched
                  PROVE  q \in Places /\ IsDir(fs[q]) /\ fs[q].open
                BY <2>2, <2>6, <3>2, <4>1, WayHere
            <4> QED
                BY <4>1 DEF Way
        <3>4. ASSUME NEW i \in 1 .. m, NEW j \in {m + 1} PROVE Apart(i, Home(j))'
            <4>1. PICK h : h = Here
                OBVIOUS
            <4>2. Apart(i, h)
                BY <1>2, <2>2, <4>1 DEF StackKnown
            <4>3. Apart(i, h)'
                BY <2>2, <2>3, <4>2 DEF Apart
            <4> QED
                BY <3>1, <4>1, <4>3 DEF Apart
        <3>5. ASSUME NEW i \in {m + 1} PROVE StackAt(i)'
            <4>1. PICK h : h = Here
                OBVIOUS
            <4>2. Way(h)'
                BY <2>1, <2>2, <3>3, <4>1, WayKept
            <4>3. Home(i)' = h /\ Start \in Prefixes(h) /\ Len(h) = Len(Start) + m
                BY <2>2, <3>1, <4>1 DEF StackKnown
            <4>4. Len(Start) + m = Len(Start) + i - 1
                <5>1. Len(Start) \in Nat /\ i = m + 1
                    <6>1. at \notin {"main", "quit"}
                        BY <2>1
                    <6> QED
                        BY <6>1, StackLens
                <5> QED
                    BY <1>2, <5>1
            <4> QED
                BY <2>1, <4>2, <4>3, <4>4 DEF StackAt, Way
        <3> HIDE DEF m
        <3>6. \A i \in DOMAIN dirs' : i \in 1 .. m \/ i \in {m + 1}
            BY <1>2, <3>1
        <3>7. \A i, j \in DOMAIN dirs' : i < j => i \in 1 .. m
            BY <1>2, <3>1
        <3>8. \A i \in DOMAIN dirs' : StackAt(i)'
            BY <2>4, <3>5, <3>6
        <3>9. \A i, j \in DOMAIN dirs' : i < j => Apart(i, Home(j))'
            BY <2>4, <3>4, <3>6, <3>7
        <3> QED
            BY <2>2, <3>8, <3>9 DEF StackKnown, StackAt
    <2> QED
        BY <2>5, <2>6
<1>12. CASE Readdir
    <2>1. PICK name \in dirs[m].left :
             /\ Start' = Start /\ at = "return" /\ at' = "doPath" /\ m # 0 /\ Len(dirs') = m
             /\ DOMAIN dirs' = 1 .. m /\ \A i \in 1 .. m : Home(i)' = Home(i)
             /\ \A i \in 1 .. m : i # m => dirs'[i].left = dirs[i].left
             /\ Here' = Append(Home(m), name) /\ dirs'[m].left = dirs[m].left \ {name}
        BY <1>1, <1>2, <1>12, ReaddirDoes
    <2>2. UNCHANGED <<fs, touched>> /\ Visiting' /\ m \in 1 .. m
        BY <1>2, <1>12, <2>1 DEF Readdir, Visiting
    <2>3. \A i \in 1 .. m : dirs'[i].left \subseteq dirs[i].left /\ Home(i)' = Home(i)
        BY <2>1
    <2>4. ASSUME NEW i \in 1 .. m PROVE StackAt(i)' /\ \A j \in 1 .. m : i < j => Apart(i, Home(j))'
        BY <1>2, <2>1, <2>2, <2>3, <2>4, StackKept
    <2>5. /\ \A i \in 1 .. m : Home(i) \in Seq(Names) /\ dirs[i].left \subseteq Names /\ Len(Home(i)) \in Nat
          /\ name \in Names /\ Len(Append(Home(m), name)) = Len(Home(m)) + 1
        <3>1. \A i \in 1 .. m : Home(i) \in Seq(Names) /\ dirs[i].left \subseteq Names
            BY <1>1, <1>2, StemsKnown
        <3>2. \A i \in 1 .. m : Len(Home(i)) \in Nat
            BY <3>1, LenProperties
        <3>3. name \in Names /\ Home(m) \in Seq(Names)
            BY <2>2, <3>1
        <3>4. Len(Append(Home(m), name)) = Len(Home(m)) + 1
            BY <3>3, AppendProperties
        <3> QED
            BY <3>1, <3>2, <3>3, <3>4
    <2>6. Prefixes(Append(Home(m), name)) = Prefixes(Home(m)) \cup {Append(Home(m), name)}
        BY <2>2, <2>5, PrefixAppend
    <2>7. (Start \in Prefixes(Here))'
        BY <1>2, <2>1, <2>2, <2>6 DEF StackKnown
    <2>8. Len(Append(Home(m), name)) = Len(Start) + m
        <3>1. Len(Start) \in Nat /\ Len(Home(m)) = Len(Start) + m - 1
            <4>1. at \notin {"main", "quit"}
                BY <2>1
            <4> QED
                BY <1>2, <2>2, <4>1, StackLens DEF StackKnown
        <3> QED
            BY <1>2, <2>5, <3>1
    <2>9. ASSUME NEW i \in 1 .. m, NEW nm \in dirs'[i].left
          PROVE  Append(Home(i), nm) \in touched \/ Append(Home(i), nm) \notin Prefixes(Append(Home(m), name))
        <3>1. CASE i = m
            <4>1. nm \in Names /\ nm # name
                BY <2>1, <2>3, <2>5, <2>9, <3>1
            <4>2. Append(Home(i), nm) \notin Prefixes(Home(m))
                <5>1. Len(Append(Home(i), nm)) = Len(Home(m)) + 1
                    BY <2>5, <3>1, <4>1, AppendProperties
                <5>2. \A q \in Prefixes(Home(m)) : Len(q) <= Len(Home(m))
                    BY <2>2, <2>5, PrefixLaws
                <5>3. Len(Home(m)) \in Nat
                    BY <2>2, <2>5
                <5>4. ~(Len(Append(Home(i), nm)) <= Len(Home(m)))
                    BY <5>1, <5>3
                <5> QED
                    BY <5>2, <5>4
            <4>3. Append(Home(i), nm) # Append(Home(m), name)
                BY <2>2, <2>5, <3>1, <4>1, AppendInjective
            <4> QED
                BY <2>6, <4>2, <4>3
        <3>2. CASE i # m
            <4>1. i < m /\ Len(Home(i)) < Len(Home(m))
                <5>1. i \in DOMAIN dirs /\ m \in DOMAIN dirs /\ at \notin {"main", "quit"}
                    BY <1>2, <2>1, <2>2
                <5> HIDE DEF m
                <5>2. i < m
                    BY <1>2, <3>2
                <5> QED
                    BY <5>1, <5>2, StackLens
            <4>2. nm \in dirs[i].left /\ nm \in Names
                BY <2>3, <2>5, <2>9
            <4>3. Append(Home(i), nm) \in touched \/ Append(Home(i), nm) \notin Prefixes(Home(m))
                BY <1>2, <2>2, <4>1, <4>2 DEF StackKnown, Apart
            <4>4. Append(Home(i), nm) # Append(Home(m), name)
                BY <2>2, <2>5, <4>1, <4>2, AppendInjective
            <4> QED
                BY <2>6, <4>3, <4>4
        <3> QED
            BY <3>1, <3>2
    <2>10. ASSUME NEW i \in 1 .. m PROVE Apart(i, Here)'
        <3>1. PICK h : h = Append(Home(m), name)
            OBVIOUS
        <3>2. \A nm \in dirs'[i].left : Append(Home(i), nm) \in touched \/ Append(Home(i), nm) \notin Prefixes(h)
            BY <2>9, <3>1
        <3> QED
            BY <2>1, <2>2, <2>3, <3>1, <3>2 DEF Apart
    <2> HIDE DEF m
    <2>11. (Len(Here) = Len(Start) + Len(dirs))'
        BY <2>1, <2>8
    <2> QED
        BY <2>1, <2>4, <2>7, <2>10, <2>11 DEF StackKnown, StackAt
<1>13. CASE Closedir
    <2>1. /\ Start' = Start /\ at' = "return" /\ DOMAIN dirs' = 1 .. m - 1 /\ m # 0
          /\ \A i \in 1 .. m - 1 : dirs'[i] = dirs[i] /\ Home(i)' = Home(i)
        BY <1>1, <1>2, <1>13, ClosedirDoes
    <2>2. UNCHANGED <<fs, touched>> /\ ~Visiting' /\ \A i \in 1 .. m - 1 : i \in 1 .. m
        BY <1>2, <1>13, <2>1 DEF Closedir, Visiting
    <2>3. \A i \in 1 .. m - 1 : dirs'[i].left = dirs[i].left /\ Home(i)' = Home(i)
        BY <2>1
    <2>4. ASSUME NEW i \in 1 .. m - 1 PROVE StackAt(i)' /\ \A j \in 1 .. m - 1 : i < j => Apart(i, Home(j))'
        BY <1>2, <2>1, <2>2, <2>3, <2>4, StackKept
    <2> HIDE DEF m
    <2> QED
        BY <2>1, <2>2, <2>4 DEF StackKnown, StackAt
<1> QED
    BY <1>4, <1>5, <1>7, <1>8, <1>9, <1>10, <1>11, <1>12, <1>13 DEF DirNext

-----------------------------------------------------------------------------
(* The pathnames that are compared. *)

LEMMA FrontLastOf ==
    ASSUME NEW S, NEW p \in Seq(S), NEW x \in S
    PROVE  Front(Append(p, x)) = p /\ Last(Append(p, x)) = x
<1>1. Append(p, x) \in Seq(S) /\ Append(p, x) # <<>>
    BY AppendProperties
<1>2. /\ Front(Append(p, x)) \in Seq(S) /\ Last(Append(p, x)) \in S
      /\ Append(p, x) = Append(Front(Append(p, x)), Last(Append(p, x)))
    BY <1>1, FrontLast
<1> QED
    BY <1>2, AppendInjective

\* The full pathname that main makes of the source file's: that of the file,
\* if it is not given as a file of the root directory.
LEMMA SourceIs ==
    ASSUME WalkTypes, command.mode = "comp"
    PROVE  LET path   == getAbsPath(Place(SourceDir)) \o FileName(command.source)
               source == Place(command.source)
           IN  /\ source \in Seq(Names) /\ source # <<>>
               /\ \/ path = Append(getAbsPath(Front(source)), Last(source))
                  \/ /\ Len(source) = 1 /\ Head(command.source) = "/"
                     /\ path = getAbsPath(Cwd) \o <<"/", Last(source)>>
<1> DEFINE s == command.source
           n == Len(s)
           slashes == {i \in DOMAIN s : s[i] = "/"}
           pos == getFilenamePos(s)
           name == s[n]
           path == getAbsPath(Place(SourceDir)) \o FileName(s)
           source == Place(s)
<1>1. /\ s \in Seq(Texts) /\ s # <<>> /\ Last(s) \in Names
      /\ \A i \in 2 .. n : "/" \in {s[i - 1], s[i]}
    BY CommandAssumption DEF WalkTypes, Pathnames, Texts
<1>2. n \in Nat \ {0} /\ DOMAIN s = 1 .. n /\ name \in Names /\ name # "/" /\ Names \subseteq Texts
    BY <1>1, EmptySeq, LenProperties, TreeAssumption DEF Last, Texts
<1>3. pos = IF slashes \subseteq {1} THEN 0 ELSE Max(slashes)
    BY DEF getFilenamePos
<1>4. SourceDir = (IF pos = 0 THEN <<".">> ELSE SubSeq(s, 1, pos)) /\ FileName(s) = SubSeq(s, pos + 1, n)
    BY DEF SourceDir, FileName
<1>5. SubSeq(s, n, n) = <<name>> /\ SubSeq(s, 1, n) = s /\ <<name>> \in Seq(Texts)
    <2>1. n \in 1 .. n /\ n \in n .. n /\ <<name>> \in Seq(Texts)
        BY <1>2
    <2>2. SubSeq(s, n, n) = <<name>> \o SubSeq(s, n + 1, n)
        BY <1>1, <2>1, SubSeqRecursiveFirst
    <2>3. SubSeq(s, n + 1, n) = <<>>
        BY <1>2, SubSeqEmpty
    <2> QED
        BY <1>1, <2>1, <2>2, <2>3, ConcatEmptySeq, SubSeqFull
<1>6. Cwd \in Seq(Names) /\ \A x \in Seq(Names) : getAbsPath(x) \in Seq(Texts)
    BY TreeAssumption, AbsIs
<1> SUFFICES /\ source \in Seq(Names) /\ source # <<>>
             /\ \/ path = Append(getAbsPath(Front(source)), Last(source))
                \/ /\ Len(source) = 1 /\ Head(s) = "/"
                   /\ path = getAbsPath(Cwd) \o <<"/", Last(source)>>
    OBVIOUS
<1>7. n = Len(s)
    OBVIOUS
<1> HIDE DEF n
<1>8. CASE n = 1
    <2>1. s = <<name>>
        BY <1>5, <1>8
    <2>2. slashes = {}
        BY <1>2, <1>8
    <2>3. pos = 0 /\ SourceDir = <<".">> /\ FileName(s) = s
        BY <1>3, <1>4, <1>5, <2>2
    <2>4. source = Append(Cwd, name) /\ Place(SourceDir) = Cwd
        BY <1>2, <2>1, <2>3, PlaceShort
    <2>5. path = Append(getAbsPath(Cwd), name)
        <3>1. path = getAbsPath(Cwd) \o <<name>>
            BY <2>1, <2>3, <2>4
        <3> QED
            BY <1>2, <1>6, <3>1, AppendIsConcat
    <2> HIDE DEF source, path, name
    <2>6. source \in Seq(Names) /\ source # <<>> /\ Front(source) = Cwd /\ Last(source) = name
        BY <1>2, <1>6, <2>4, FrontLastOf, AppendProperties
    <2> QED
        BY <2>5, <2>6
<1>9. ASSUME n # 1 PROVE s[n - 1] = "/" /\ n - 1 \in slashes /\ \A i \in slashes : i <= n - 1 /\ i \in Nat
    <2>1. n \in 2 .. n /\ n - 1 \in 1 .. n
        BY <1>2, <1>9
    <2>2. s[n - 1] = "/"
        BY <1>1, <1>2, <2>1
    <2>3. ASSUME NEW i \in slashes PROVE i <= n - 1 /\ i \in Nat
        <3>1. i \in 1 .. n /\ i # n
            BY <1>2
        <3> QED
            BY <1>2, <3>1
    <2> QED
        BY <1>2, <2>1, <2>2, <2>3
<1>10. CASE n = 2
    <2>1. s[1] = "/" /\ slashes \subseteq {1}
        <3>1. s[n - 1] = "/" /\ n - 1 = 1 /\ \A i \in slashes : i <= 1 /\ i \in 1 .. n
            BY <1>2, <1>9, <1>10
        <3> QED
            BY <3>1
    <2>2. s = <<"/", name>>
        <3> DEFINE q == <<"/", name>>
        <3>1. q \in Seq(Texts) /\ Len(q) = 2 /\ q[1] = "/" /\ q[2] = name
            BY <1>2 DEF Texts
        <3> HIDE DEF q
        <3>2. \A i \in 1 .. Len(s) : s[i] = q[i]
            BY <1>7, <1>10, <2>1, <3>1
        <3>3. s \in Seq(Texts) /\ Len(s) = Len(q)
            BY <1>1, <1>7, <1>10, <3>1
        <3> HIDE DEF s
        <3>4. s = q
            BY <3>1, <3>2, <3>3, SeqEqual
        <3> QED
            BY <3>4 DEF q
    <2>3. pos = 0 /\ SourceDir = <<".">> /\ FileName(s) = s
        BY <1>3, <1>4, <1>5, <2>1
    <2>4. source = <<name>> /\ Place(SourceDir) = Cwd
        BY <1>2, <2>2, <2>3, PlaceShort
    <2> HIDE DEF name
    <2>5. path = getAbsPath(Cwd) \o <<"/", name>>
        BY <2>2, <2>3, <2>4
    <2>6. Head(s) = "/"
        BY <1>1, <2>1
    <2> HIDE DEF source, path, s
    <2>7. source \in Seq(Names) /\ source # <<>> /\ Len(source) = 1 /\ Last(source) = name
        BY <1>2, <2>4 DEF Last
    <2> QED
        BY <2>5, <2>6, <2>7
<1>11. CASE n # 1 /\ n # 2
    <2>1. n - 1 \in Nat /\ n - 1 > 1 /\ n - 1 <= n
        BY <1>2, <1>11
    <2>2. Max(slashes) = n - 1 /\ ~(slashes \subseteq {1})
        <3>1. n - 1 \in slashes /\ \A y \in slashes : n - 1 >= y /\ y \in Nat
            BY <1>9, <1>11
        <3>2. \A z \in slashes : (\A y \in slashes : z >= y) => z = n - 1
            BY <2>1, <3>1
        <3>3. n - 1 # 1
            BY <2>1
        <3> HIDE DEF slashes
        <3> QED
            BY <3>1, <3>2, <3>3 DEF Max
    <2>3. pos = n - 1 /\ pos # 0 /\ pos + 1 = n
        BY <1>2, <1>3, <2>1, <2>2
    <2>4. SourceDir = Front(s) /\ FileName(s) = <<name>>
        BY <1>4, <1>5, <1>7, <2>3 DEF Front
    <2>5. Front(s) \in Seq(Texts) /\ s = Append(Front(s), name) /\ Len(Front(s)) = n - 1
        BY <1>1, <1>7, FrontLast DEF Last
    <2>6. Front(s) # <<>>
        BY <2>1, <2>5, EmptySeq
    <2>7. Place(Front(s)) \in Seq(Names) /\ source = Append(Place(Front(s)), name)
        BY <1>2, <2>5, <2>6, PlaceAppend
    <2>8. path = Append(getAbsPath(Place(Front(s))), name)
        <3>1. path = getAbsPath(Place(Front(s))) \o <<name>>
            BY <2>4
        <3> QED
            BY <1>2, <1>6, <2>7, <3>1, AppendIsConcat
    <2> HIDE DEF source, path, name, s
    <2>9. source \in Seq(Names) /\ source # <<>> /\ Front(source) = Place(Front(s)) /\ Last(source) = name
        BY <1>2, <2>7, FrontLastOf, AppendProperties
    <2> QED
        BY <2>8, <2>9
<1> QED
    BY <1>8, <1>10, <1>11

\* The path that Opendir opens is the shortest one as well.
LEMMA SlashedIs ==
    ASSUME BaseInv, CanonKnown, at = "opendir", command.mode # "stat"
    PROVE  Slashed = getAbsPath(Here)
<1>1. WalkTypes /\ BufKnown /\ Visiting /\ at \notin {"main", "quit"}
    BY DEF BaseInv, Visiting
<1>2. command.prog = "myfind"
    BY <1>1, CommandAssumption DEF WalkTypes
<1>3. CASE dirs = <<>>
    <2>1. fullpath = getAbsPath(Start) /\ Here = Start /\ Start \in Seq(Names)
        BY <1>1, <1>3, StemsKnown DEF BufKnown, CanonKnown
    <2>2. Last(fullpath) = "/"
        BY <2>1, AbsIs
    <2> QED
        BY <1>2, <2>1, <2>2 DEF Slashed
<1>4. CASE dirs # <<>>
    <2> DEFINE m == Len(dirs)
    <2>1. PICK name \in Names : fullpath = Append(Stem(m), name) /\ Here = Append(Home(m), name)
        BY <1>1, <1>4, StemsKnown
    <2>2. m \in DOMAIN dirs /\ Home(m) \in Seq(Names) /\ Stem(m) \in Seq(Texts)
        <3>1. m \in DOMAIN dirs
            BY <1>1, <1>4, StemsKnown
        <3> QED
            BY <1>1, <3>1, StemsKnown
    <2>3. Stem(m) = getAbsPath(Home(m))
        BY <1>1, <2>2 DEF CanonKnown
    <2>4. getAbsPath(Here) = Append(fullpath, "/")
        BY <2>1, <2>2, <2>3, AbsAppend
    <2>5. Last(fullpath) = name /\ name # "/"
        <3>1. name \in Texts /\ name # "/"
            BY TreeAssumption DEF Texts
        <3> QED
            BY <2>1, <2>2, <3>1, FrontLastOf
    <2> QED
        BY <2>4, <2>5 DEF Slashed
<1> QED
    BY <1>3, <1>4

\* The start of the walk stays what it is, unless it is changed.
LEMMA StartKept ==
    ASSUME BaseInv, [DirNext]_dirVars, ~DirMain
    PROVE  Start' = Start /\ UNCHANGED <<command, in_path, in_filepath, filebuf>>
BY DEF DirNext, Lstat, CallFunc, Opendir, Readdir, Closedir, Report, NextName, Change, dirVars, Start

LEMMA CanonNext == BaseInv /\ CanonKnown /\ [DirNext]_dirVars => CanonKnown'
<1> SUFFICES ASSUME BaseInv, CanonKnown, [DirNext]_dirVars PROVE CanonKnown'
    OBVIOUS
<1>1. WalkTypes /\ BufKnown /\ CalledKnown
    BY DEF BaseInv
<1> DEFINE m == Len(dirs)
<1>2. m \in Nat /\ DOMAIN dirs = 1 .. m
    BY <1>1, StemsKnown
<1>3. ASSUME command.prog = "myfind", at' \notin {"main", "quit"}
      PROVE  (Start \in Places /\ (Start \in touched \/ IsDir(fs[Start])))'
    <2>1. CASE DirMain
        <3>1. at = "main" /\ UNCHANGED <<fs, touched>>
              /\ (in_path' = StartPath \/ in_path' = getAbsPath(Place(StartPath)))
            BY <1>1, <1>3, <2>1, MainDoes
        <3>2. Start' = Place(StartPath)
            BY <1>1, <3>1, StartIs, AbsIs DEF Start
        <3> QED
            BY <1>1, <1>3, <3>1, <3>2, StartIs DEF IsDir
    <2>2. CASE ~DirMain
        <3>1. Start' = Start
            BY <2>2, StartKept
        <3>2. at \notin {"main", "quit"}
            BY <1>3, <2>2 DEF DirNext, Lstat, CallFunc, Opendir, Readdir, Closedir, Report, NextName, Change, dirVars
        <3>3. Start \in Places /\ (Start \in touched \/ IsDir(fs[Start]))
            BY <1>3, <3>2 DEF CanonKnown
        <3>4. touched \subseteq touched' /\ \A q \in Places \ touched' : fs'[q] = fs[q]
            <4>1. CASE Change
                BY <1>1, <4>1, ChangeDoes
            <4>2. CASE ~Change
                BY <2>2, <4>2 DEF DirNext, Lstat, CallFunc, Opendir, Readdir, Closedir, Report, NextName, dirVars
            <4> QED
                BY <4>1, <4>2
        <3> QED
            BY <3>1, <3>3, <3>4 DEF IsDir
    <2> QED
        BY <2>1, <2>2
<1>4. ASSUME command.mode # "stat", at' \notin {"main", "quit"}
      PROVE  (in_path = getAbsPath(Start))' /\ \A i \in DOMAIN dirs' : (Stem(i) = getAbsPath(Home(i)))'
    <2>1. CASE DirMain
        <3>1. at = "main" /\ in_path' = getAbsPath(Place(StartPath)) /\ dirs' = <<>>
            BY <1>1, <1>4, <2>1, MainDoes DEF WalkTypes
        <3>2. Start' = Place(StartPath)
            BY <1>1, <3>1, StartIs, AbsIs DEF Start
        <3> QED
            BY <3>1, <3>2
    <2>2. CASE ~DirMain
        <3>1. Start' = Start /\ in_path' = in_path
            BY <2>2, StartKept
        <3>2. at \notin {"main", "quit"}
            BY <1>4, <2>2 DEF DirNext, Lstat, CallFunc, Opendir, Readdir, Closedir, Report, NextName, Change, dirVars
        <3>3. in_path = getAbsPath(Start) /\ \A i \in 1 .. m : Stem(i) = getAbsPath(Home(i))
            BY <1>2, <1>4, <3>2 DEF CanonKnown
        <3>4. ASSUME NEW i \in DOMAIN dirs' PROVE (Stem(i) = getAbsPath(Home(i)))'
            <4>1. CASE UNCHANGED <<fullpath, dirs>>
                BY <1>2, <3>3, <4>1 DEF Stem, Home
            <4>2. CASE NextName
                <5>1. dirs' = <<>>
                    BY <1>1, <4>2, NextDoes DEF WalkTypes
                <5> QED
                    BY <5>1
            <4>3. CASE Opendir
                <5>1. i \in 1 .. m \/ i = m + 1
                    <6>1. DOMAIN dirs' = 1 .. m \/ DOMAIN dirs' = 1 .. m + 1
                        BY <1>1, <1>2, <4>3, OpendirDoes
                    <6> HIDE DEF m
                    <6> QED
                        BY <1>2, <6>1
                <5>2. CASE i \in 1 .. m
                    BY <1>1, <1>2, <3>3, <4>3, <5>2, OpendirDoes
                <5>3. CASE i \notin 1 .. m
                    <6>1. i \in {m + 1} /\ Stem(i)' = Slashed /\ Home(i)' = Here
                        BY <1>1, <1>2, <4>3, <5>1, <5>3, OpendirDoes
                    <6>2. Slashed = getAbsPath(Here)
                        BY <1>4, <4>3, SlashedIs DEF Opendir
                    <6> QED
                        BY <6>1, <6>2
                <5> QED
                    BY <5>2, <5>3
            <4>4. CASE Readdir
                BY <1>1, <1>2, <3>3, <4>4, ReaddirDoes
            <4>5. CASE Closedir
                <5>1. i \in 1 .. m - 1 /\ i \in 1 .. m
                    <6>1. DOMAIN dirs' = 1 .. m - 1
                        BY <1>1, <1>2, <4>5, ClosedirDoes
                    <6> HIDE DEF m
                    <6> QED
                        BY <1>2, <6>1
                <5> QED
                    BY <1>1, <1>2, <3>3, <4>5, <5>1, ClosedirDoes
            <4>6. CASE Change
                BY <1>1, <1>2, <3>3, <4>6, ChangeDoes DEF SameDirs
            <4> QED
                BY <2>2, <4>1, <4>2, <4>3, <4>4, <4>5, <4>6 DEF DirNext, Lstat, CallFunc, Report, dirVars
        <3> QED
            BY <3>1, <3>3, <3>4
    <2> QED
        BY <2>1, <2>2
<1>5. ASSUME command.mode = "name", Walking' PROVE "/" \notin ToSet(command.names[argi'])
    <2>1. ~DirMain
        BY <1>1, <1>5, MainDoes DEF Walking, Visiting
    <2>2. CASE NextName
        BY <1>1, <1>5, <2>2, NextDoes DEF Walking, Visiting
    <2>3. CASE ~NextName
        <3>1. Walking /\ argi' = argi
            BY <1>5, <2>1, <2>3 DEF DirNext, Lstat, CallFunc, Opendir, Readdir, Closedir, Report, Change,
                                    dirVars, Walking, Visiting
        <3> QED
            BY <1>5, <3>1 DEF CanonKnown
    <2> QED
        BY <2>2, <2>3
<1>6. command' = command
    BY <1>1, MainDoes, StartKept
<1> QED
    BY <1>3, <1>4, <1>5, <1>6 DEF CanonKnown

LEMMA SourceNext == BaseInv /\ SourceKnown /\ [DirNext]_dirVars => SourceKnown'
<1> SUFFICES ASSUME BaseInv, SourceKnown, [DirNext]_dirVars, command'.mode = "comp", Walking'
             PROVE  LET source == Place(command'.source)
                    IN  /\ source # <<>> /\ source # Start'
                        /\ \/ in_filepath' = Append(getAbsPath(Front(source)), Last(source))
                           \/ /\ Len(source) = 1 /\ Head(command'.source) = "/"
                              /\ in_filepath' = getAbsPath(Cwd) \o <<"/", Last(source)>>
    BY DEF SourceKnown
<1>1. WalkTypes
    BY DEF BaseInv
<1>2. CASE DirMain
    <2>1. command' = command /\ command.mode = "comp" /\ at = "main" /\ StartComp /\ MayStart
          /\ in_path' = getAbsPath(Place(StartPath))
        BY <1>1, <1>2, MainDoes DEF Walking, Visiting
    <2>2. in_filepath' = getAbsPath(Place(SourceDir)) \o FileName(command.source)
        BY <2>1 DEF StartComp
    <2>3. Start' = Place(StartPath) /\ Start' \in Places /\ IsDir(fs[Start'])
        BY <1>1, <2>1, StartIs, AbsIs, CommandAssumption DEF Start, WalkTypes
    <2>4. Place(command.source) # Start'
        <3>1. NodeAt(Place(command.source)).kind = "reg"
            BY <2>1 DEF MayStart
        <3> QED
            BY <2>3, <3>1 DEF NodeAt, IsDir
    <2> QED
        BY <1>1, <2>1, <2>2, <2>4, SourceIs
<1>3. CASE ~DirMain
    <2>1. Start' = Start /\ UNCHANGED <<command, in_filepath>>
        BY <1>3, StartKept
    <2>2. Walking
        <3>1. ~NextName
            BY <1>1, <2>1, NextDoes
        <3> QED
            BY <1>3, <3>1 DEF DirNext, Lstat, CallFunc, Opendir, Readdir, Closedir, Report, Change,
                              dirVars, Walking, Visiting
    <2> QED
        BY <2>1, <2>2 DEF SourceKnown
<1> QED
    BY <1>2, <1>3

\* The walk finds the source by its full pathname, and nothing else.
LEMMA SourceMeets ==
    ASSUME BaseInv, CanonKnown, SourceKnown, Visiting, command.mode = "comp"
    PROVE  /\ in_filepath = fullpath => Here = Place(command.source)
           /\ Here = Place(command.source) /\ (Len(Here) # 1 \/ Head(command.source) # "/") =>
                 in_filepath = fullpath
<1> DEFINE source == Place(command.source)
           m == Len(dirs)
<1>1. WalkTypes /\ BufKnown /\ at \notin {"main", "quit"} /\ Walking
    BY DEF BaseInv, Visiting, Walking
<1>2. source \in Seq(Names) /\ source # <<>> /\ source # Start
    BY <1>1, SourceIs DEF SourceKnown
<1>3. /\ Front(source) \in Seq(Names) /\ Last(source) \in Names
      /\ source = Append(Front(source), Last(source))
    BY <1>2, FrontLast
<1>4. Names \subseteq Texts /\ "/" \in Texts /\ "/" \notin Names
    BY TreeAssumption DEF Texts
<1> DEFINE first == in_filepath = Append(getAbsPath(Front(source)), Last(source))
           other == /\ Len(source) = 1 /\ Head(command.source) = "/"
                    /\ in_filepath = getAbsPath(Cwd) \o <<"/", Last(source)>>
<1>5. first \/ other
    BY <1>1 DEF SourceKnown
<1>6. ASSUME first PROVE Place(in_filepath) = source
    <2>1. getAbsPath(Front(source)) \in Seq(Texts) /\ getAbsPath(Front(source)) # <<>>
          /\ Place(getAbsPath(Front(source))) = Front(source)
        BY <1>3, AbsIs
    <2> QED
        BY <1>3, <1>6, <2>1, PlaceAppend
<1>7. ASSUME other
      PROVE  /\ Last(in_filepath) # "/"
             /\ \E c \in Nat : Len(in_filepath) = 2 * c + 3
    <2> DEFINE a == getAbsPath(Cwd)
    <2>1. a \in Seq(Texts) /\ Len(Cwd) \in Nat /\ Len(a) = 2 * Len(Cwd) + 1
        BY AbsIs, TreeAssumption
    <2>2. in_filepath = Append(Append(a, "/"), Last(source))
        BY <1>3, <1>4, <1>7, <2>1, AppendTwo
    <2> HIDE DEF a
    <2>3. Append(a, "/") \in Seq(Texts) /\ Len(Append(a, "/")) = Len(a) + 1 /\ Last(source) \in Texts
        BY <1>3, <1>4, <2>1, AppendProperties
    <2>4. Last(in_filepath) = Last(source) /\ Len(in_filepath) = Len(a) + 1 + 1
        <3> DEFINE b == Append(a, "/")
                   x == Last(source)
        <3>1. b \in Seq(Texts) /\ Len(b) = Len(a) + 1 /\ x \in Texts /\ in_filepath = Append(b, x)
            BY <2>2, <2>3
        <3> HIDE DEF b, x
        <3>2. Last(Append(b, x)) = x
            BY <3>1, FrontLastOf
        <3>3. Len(Append(b, x)) = Len(b) + 1
            BY <3>1, AppendProperties
        <3> QED
            BY <3>1, <3>2, <3>3 DEF x
    <2>5. Len(in_filepath) = 2 * Len(Cwd) + 3
        BY <2>1, <2>4
    <2> QED
        BY <1>3, <1>4, <2>1, <2>4, <2>5
<1> HIDE DEF source, first, other
<1>8. CASE dirs = <<>>
    <2>1. fullpath = getAbsPath(Start) /\ Here = Start /\ Start \in Seq(Names)
        BY <1>1, <1>8, StemsKnown DEF BufKnown, CanonKnown
    <2>2. Last(fullpath) = "/" /\ Place(fullpath) = Start
        BY <2>1, AbsIs
    <2>3. in_filepath # fullpath
        BY <1>2, <1>5, <1>6, <1>7, <2>2
    <2> QED
        BY <1>2, <2>1, <2>3 DEF source
<1>9. CASE dirs # <<>>
    <2>1. PICK name \in Names : fullpath = Append(Stem(m), name) /\ Here = Append(Home(m), name)
        BY <1>1, <1>9, StemsKnown
    <2>2. m \in DOMAIN dirs
        BY <1>1, <1>9, StemsKnown
    <2>3. Home(m) \in Seq(Names) /\ Stem(m) = getAbsPath(Home(m))
        BY <1>1, <2>2, StemsKnown DEF CanonKnown
    <2>4. /\ getAbsPath(Home(m)) \in Seq(Texts) /\ Len(Home(m)) \in Nat
          /\ Len(getAbsPath(Home(m))) = 2 * Len(Home(m)) + 1
        BY <2>3, AbsIs
    <2>5. Len(fullpath) = 2 * Len(Home(m)) + 2
        BY <1>4, <2>1, <2>3, <2>4, AppendProperties
    <2>6. ASSUME in_filepath = fullpath PROVE Here = source
        <3>1. ~other
            <4>1. ASSUME NEW c \in Nat, Len(in_filepath) = 2 * c + 3 PROVE FALSE
                BY <2>4, <2>5, <2>6, <4>1
            <4> QED
                BY <1>7, <4>1
        <3> QED
            BY <1>5, <1>6, <2>6, <3>1 DEF Here
    <2>7. ASSUME Here = source, Len(Here) # 1 \/ Head(command.source) # "/" PROVE in_filepath = fullpath
        <3>1. first
            BY <1>5, <2>7 DEF other
        <3>2. Front(source) = Home(m) /\ Last(source) = name
            BY <2>1, <2>3, <2>7, FrontLastOf
        <3> QED
            BY <2>1, <2>3, <3>1, <3>2 DEF first
    <2> QED
        BY <2>6, <2>7 DEF source
<1> QED
    BY <1>8, <1>9

\* The name that is looked for is found wherever it is below the root's files.
LEMMA NameMeets ==
    ASSUME BaseInv, CanonKnown, Visiting, command.mode = "name", dirs # <<>>
    PROVE  FileName(fullpath) = command.names[argi] <=>
              Len(Here) > 1 /\ <<Last(Here)>> = command.names[argi]
<1> DEFINE m == Len(dirs)
<1>1. WalkTypes /\ BufKnown /\ at \notin {"main", "quit"} /\ Walking
    BY DEF BaseInv, Visiting, Walking
<1>2. PICK name \in Names : fullpath = Append(Stem(m), name) /\ Here = Append(Home(m), name)
    BY <1>1, StemsKnown
<1>3. m \in DOMAIN dirs
    BY <1>1, StemsKnown
<1>4. Home(m) \in Seq(Names) /\ Stem(m) = getAbsPath(Home(m))
    BY <1>1, <1>3, StemsKnown DEF CanonKnown
<1>5. FileName(fullpath) = IF Home(m) = <<>> THEN <<"/", name>> ELSE <<name>>
    BY <1>2, <1>4, FileNameIs
<1>6. Last(Here) = name /\ Len(Here) = Len(Home(m)) + 1 /\ Len(Home(m)) \in Nat
    BY <1>2, <1>4, FrontLastOf, AppendProperties, LenProperties
<1>7. <<"/", name>> # command.names[argi]
    <2>1. "/" \notin ToSet(command.names[argi])
        BY <1>1 DEF CanonKnown
    <2>2. "/" \in ToSet(<<"/", name>>)
        <3>1. 1 \in DOMAIN <<"/", name>> /\ <<"/", name>>[1] = "/"
            OBVIOUS
        <3> QED
            BY <3>1 DEF ToSet
    <2> QED
        BY <2>1, <2>2
<1>8. CASE Home(m) = <<>>
    <2>1. Len(Home(m)) = 0
        BY <1>8
    <2>2. ~(Len(Here) > 1)
        BY <1>6, <2>1
    <2> QED
        BY <1>5, <1>7, <1>8, <2>2
<1>9. CASE Home(m) # <<>>
    <2>1. Len(Home(m)) # 0
        BY <1>4, <1>9, EmptySeq
    <2>2. Len(Here) > 1
        BY <1>6, <2>1
    <2> QED
        BY <1>5, <1>6, <1>9, <2>2
<1> QED
    BY <1>8, <1>9

-----------------------------------------------------------------------------
(* What is still to be visited, and what nobody has changed. *)

\* A step that changes at most what it touches.
LEMMA SteadyKept ==
    ASSUME Start' = Start, touched \subseteq touched', \A q \in Places \ touched' : fs'[q] = fs[q]
    PROVE  Steady' \subseteq Steady /\ \A p \in Steady' : fs'[p] = fs[p] /\ Prefixes(p) \cap touched' = {}
<1>1. Place(in_path)' = Place(in_path)
    BY DEF Start
<1>2. \A p \in Places : p \in Prefixes(p) /\ Prefixes(p) \subseteq Places
    BY TreeAssumption, PrefixLaws
<1>3. ASSUME NEW p \in Places, Prefixes(p) \cap touched' = {}
      PROVE  /\ Prefixes(p) \cap touched = {} /\ fs'[p] = fs[p]
             /\ \A q \in Prefixes(p) : fs'[q] = fs[q] /\ IsDir(fs[q])' = IsDir(fs[q])
    BY <1>2, <1>3 DEF IsDir
<1>4. ASSUME NEW p \in Steady' PROVE p \in Steady /\ fs'[p] = fs[p] /\ Prefixes(p) \cap touched' = {}
    <2>1. p \in Places /\ Prefixes(p) \cap touched' = {}
        BY DEF Steady
    <2> QED
        BY <1>1, <1>3, <1>4, <2>1 DEF Steady, IsDir
<1> QED
    BY <1>4

\* A steady place is reached through open directories.
LEMMA SteadyAbove ==
    ASSUME NEW p \in Steady, NEW q \in Prefixes(p), Start \in Prefixes(q)
    PROVE  /\ q \in Places /\ fs[q] # NoNode /\ Prefixes(q) \cap touched = {} /\ q \notin touched
           /\ q # p => IsDir(fs[q]) /\ fs[q].open
<1>1. p \in Places /\ p \in Seq(Names) /\ q \in Places /\ q \in Seq(Names)
    BY TreeAssumption DEF Steady
<1>2. Prefixes(q) \subseteq Prefixes(p) /\ q \in Prefixes(q)
    BY <1>1, PrefixLaws
<1> QED
    BY <1>1, <1>2 DEF Steady, Start, IsDir

\* Where nothing is opened, closed or done with, as much is to be done as before.
LEMMA TodoSame ==
    ASSUME SameDirs, Here' = Here, Visiting' <=> Visiting, at' = "opendir" <=> at = "opendir"
    PROVE  \A p \in Places : Prefixes(p) \cap touched' = {} => (p \in Todo' <=> p \in Todo)
<1> DEFINE Below(p) == \E i \in DOMAIN dirs : \E name \in dirs[i].left : Append(Home(i), name) \in Prefixes(p)
<1>1. ASSUME NEW p \in Places, Prefixes(p) \cap touched' = {} PROVE Below(p)' <=> Below(p)
    <2>1. ASSUME NEW i \in DOMAIN dirs
          PROVE  (\E name \in dirs'[i].left : (Append(Home(i), name) \in Prefixes(p))') <=>
                    \E name \in dirs[i].left : Append(Home(i), name) \in Prefixes(p)
        BY <1>1 DEF SameDirs
    <2> QED
        BY <2>1 DEF SameDirs
<1>2. \A p \in Places :
         Visiting' /\ Here' \in Prefixes(p) /\ (at' = "opendir" => p # Here') <=>
            Visiting /\ Here \in Prefixes(p) /\ (at = "opendir" => p # Here)
    OBVIOUS
<1> QED
    BY <1>1, <1>2 DEF Todo

\* Opendir has every steady file of the directory still before it: there is a
\* descriptor for it.
LEMMA TodoOpendir ==
    ASSUME BaseInv, StackKnown, Opendir
    PROVE  Todo' \subseteq Todo /\ Steady \cap Todo \subseteq Todo'
<1> DEFINE m == Len(dirs)
<1>1. WalkTypes /\ BufKnown /\ Visiting /\ ~Visiting' /\ at = "opendir" /\ fs' = fs
    BY DEF BaseInv, Opendir, Visiting
<1>2. m \in Nat /\ DOMAIN dirs = 1 .. m /\ Here \in Seq(Names) /\ Start \in Prefixes(Here)
    BY <1>1, StemsKnown DEF StackKnown
<1>3. /\ \A i \in 1 .. m : i \in DOMAIN dirs' /\ dirs'[i] = dirs[i] /\ Home(i)' = Home(i)
      /\ IF IsDir(NodeAt(Here)) /\ NodeAt(Here).open /\ ~NoneFree
         THEN /\ DOMAIN dirs' = 1 .. m + 1 /\ \A i \in {m + 1} : Home(i)' = Here
              /\ dirs'[m + 1].left = {Last(p) : p \in Children(Here)}
         ELSE dirs' = dirs
    BY <1>1, <1>2, OpendirDoes
<1> HIDE DEF m
<1>4. ASSUME NEW p \in Todo' PROVE p \in Todo
    <2>1. p \in Places /\ p \in Seq(Names)
        BY TreeAssumption DEF Todo
    <2>2. PICK i \in DOMAIN dirs' : \E name \in dirs'[i].left : (Append(Home(i), name) \in Prefixes(p))'
        BY <1>1 DEF Todo
    <2>3. CASE i \in 1 .. m
        BY <1>2, <1>3, <2>1, <2>2, <2>3 DEF Todo
    <2>4. CASE i \notin 1 .. m
        <3>1. i \in {m + 1} /\ Home(i)' = Here /\ dirs'[i].left = {Last(c) : c \in Children(Here)}
            <4>1. IsDir(NodeAt(Here)) /\ NodeAt(Here).open /\ ~NoneFree
                BY <1>2, <1>3, <2>4
            <4>2. i \in 1 .. m + 1
                BY <1>3, <4>1
            <4>3. i = m + 1
                BY <1>2, <2>4, <4>2
            <4> QED
                BY <1>3, <4>1, <4>3
        <3>2. PICK c \in Children(Here) : Append(Here, Last(c)) \in Prefixes(p)
            BY <2>2, <3>1
        <3>3. c \in Seq(Names) /\ Front(c) = Here /\ c = Append(Front(c), Last(c)) /\ Last(c) \in Names
            BY <3>2, FrontLast, TreeAssumption DEF Children
        <3>4. c \in Prefixes(p) /\ Here \in Prefixes(c) /\ Len(c) = Len(Here) + 1
            <4>1. Prefixes(Append(Here, Last(c))) = Prefixes(Here) \cup {Append(Here, Last(c))}
                BY <1>2, <3>3, PrefixAppend
            <4>2. Here \in Prefixes(Here)
                BY <1>2, PrefixLaws
            <4>3. Len(Append(Here, Last(c))) = Len(Here) + 1
                BY <1>2, <3>3, AppendProperties
            <4> QED
                BY <3>2, <3>3, <4>1, <4>2, <4>3
        <3>5. Here \in Prefixes(p) /\ Len(c) \in 0 .. Len(p) /\ Len(p) \in Nat /\ Len(Here) \in Nat
            BY <1>2, <2>1, <3>4, PrefixLaws, LenProperties
        <3>6. p # Here
            BY <3>4, <3>5
        <3> QED
            BY <1>1, <2>1, <3>5, <3>6 DEF Todo
    <2> QED
        BY <2>3, <2>4
<1>5. ASSUME NEW p \in Steady, p \in Todo PROVE p \in Todo'
    <2>1. p \in Places /\ p \in Seq(Names)
        BY TreeAssumption DEF Steady
    <2>2. CASE \E i \in DOMAIN dirs : \E name \in dirs[i].left : Append(Home(i), name) \in Prefixes(p)
        <3>1. PICK i \in 1 .. m : \E name \in dirs[i].left : Append(Home(i), name) \in Prefixes(p)
            BY <1>2, <2>2
        <3>2. i \in DOMAIN dirs' /\ \E name \in dirs'[i].left : (Append(Home(i), name) \in Prefixes(p))'
            BY <1>3, <3>1
        <3> QED
            BY <2>1, <3>2 DEF Todo
    <2>3. CASE Here \in Prefixes(p) /\ p # Here
        <3>1. PICK name \in Names : Append(Here, name) \in Prefixes(p)
            BY <2>1, <2>3, PrefixLaws
        <3>2. PICK c \in Seq(Names) : c = Append(Here, name) /\ c # <<>>
            BY <1>2, AppendProperties
        <3>3. Start \in Prefixes(c) /\ Front(c) = Here /\ Last(c) = name
            <4>1. Prefixes(c) = Prefixes(Here) \cup {c}
                BY <1>2, <3>2, PrefixAppend
            <4> QED
                BY <1>2, <3>2, <4>1, FrontLastOf
        <3>4. c \in Places /\ fs[c] # NoNode
            BY <3>1, <3>2, <3>3, SteadyAbove
        <3>5. name \in {Last(q) : q \in Children(Here)}
            BY <3>2, <3>3, <3>4 DEF Children
        <3>6. IsDir(NodeAt(Here)) /\ NodeAt(Here).open /\ ~NoneFree
            <4>1. Len(Here) \in 0 .. Len(p) /\ Len(Here) # Len(p) /\ Len(p) \in Nat
                BY <2>1, <2>3, PrefixLaws, LenProperties
            <4>2. Len(p) <= Len(Start) + OpenMax /\ Len(Here) = Len(Start) + Len(dirs)
                BY <1>1 DEF Steady, Start, StackKnown
            <4>3. Len(Start) \in Nat /\ Len(dirs) \in Nat /\ OpenMax \in Nat
                <5>1. at \notin {"main", "quit"}
                    BY <1>1
                <5> QED
                    BY <1>2, <5>1, StackLens, TreeAssumption DEF m
            <4>4. PICK lh, lp, ls, ld : lh = Len(Here) /\ lp = Len(p) /\ ls = Len(Start) /\ ld = Len(dirs)
                OBVIOUS
            <4>5. lp \in Nat /\ lh \in 0 .. lp /\ lh # lp /\ lp <= ls + OpenMax /\ lh = ls + ld
                BY <4>1, <4>2, <4>4
            <4>6. ls \in Nat /\ ld \in Nat /\ OpenMax \in Nat
                BY <4>3, <4>4
            <4>7. ~(ld >= OpenMax)
                BY <4>5, <4>6
            <4> QED
                BY <1>2, <2>3, <4>4, <4>7, SteadyAbove DEF NodeAt, NoneFree
        <3>7. m + 1 \in {m + 1} /\ m + 1 \in 1 .. m + 1
            BY <1>2
        <3>8. \A i \in {m + 1} : i \in DOMAIN dirs' /\ name \in dirs'[i].left /\ Home(i)' = Here
            BY <1>3, <3>5, <3>6, <3>7
        <3>9. \A i \in {m + 1} : (Append(Home(i), name) \in Prefixes(p))'
            BY <3>1, <3>8
        <3> QED
            BY <2>1, <3>7, <3>8, <3>9 DEF Todo
    <2> QED
        BY <1>1, <1>5, <2>2, <2>3 DEF Todo
<1> QED
    BY <1>4, <1>5

\* Readdir visits the name that it takes.
LEMMA TodoReaddir ==
    ASSUME BaseInv, Readdir
    PROVE  Todo' = Todo
<1> DEFINE m == Len(dirs)
<1>1. WalkTypes /\ BufKnown /\ m \in Nat /\ DOMAIN dirs = 1 .. m
    BY StemsKnown DEF BaseInv
<1>2. PICK name \in dirs[m].left :
         /\ at = "return" /\ at' = "doPath" /\ m # 0 /\ DOMAIN dirs' = 1 .. m
         /\ \A i \in 1 .. m : Home(i)' = Home(i)
         /\ \A i \in 1 .. m : i # m => dirs'[i].left = dirs[i].left
         /\ Here' = Append(Home(m), name) /\ dirs'[m].left = dirs[m].left \ {name}
    BY <1>1, ReaddirDoes
<1>3. m \in 1 .. m /\ ~Visiting /\ Visiting' /\ at' # "opendir"
    BY <1>1, <1>2 DEF Visiting
<1> HIDE DEF m
<1>4. ASSUME NEW p \in Places
      PROVE  (\E i \in 1 .. m : \E nm \in dirs[i].left : Append(Home(i), nm) \in Prefixes(p)) <=>
                \/ Here' \in Prefixes(p)
                \/ \E i \in 1 .. m : \E nm \in dirs'[i].left : (Append(Home(i), nm) \in Prefixes(p))'
    <2>1. ASSUME NEW i \in 1 .. m, NEW nm \in dirs[i].left, Append(Home(i), nm) \in Prefixes(p)
          PROVE  \/ Here' \in Prefixes(p)
                 \/ \E j \in 1 .. m : \E x \in dirs'[j].left : (Append(Home(j), x) \in Prefixes(p))'
        <3>1. CASE i = m /\ nm = name
            BY <1>2, <2>1, <3>1
        <3>2. CASE ~(i = m /\ nm = name)
            <4>1. nm \in dirs'[i].left
                BY <1>2, <3>2
            <4>2. (Append(Home(i), nm) \in Prefixes(p))'
                BY <1>2, <2>1
            <4> QED
                BY <4>1, <4>2
        <3> QED
            BY <3>1, <3>2
    <2>2. ASSUME Here' \in Prefixes(p)
          PROVE  \E i \in 1 .. m : \E nm \in dirs[i].left : Append(Home(i), nm) \in Prefixes(p)
        BY <1>2, <1>3, <2>2
    <2>3. ASSUME NEW i \in 1 .. m, NEW nm \in dirs'[i].left, (Append(Home(i), nm) \in Prefixes(p))'
          PROVE  nm \in dirs[i].left /\ Append(Home(i), nm) \in Prefixes(p)
        BY <1>2, <2>3
    <2> QED
        BY <2>1, <2>2, <2>3
<1>5. Todo = {p \in Places : \E i \in 1 .. m : \E nm \in dirs[i].left : Append(Home(i), nm) \in Prefixes(p)}
    BY <1>1, <1>3 DEF Todo
<1>6. Todo' = {p \in Places : \/ Here' \in Prefixes(p)
                              \/ \E i \in 1 .. m : \E nm \in dirs'[i].left : (Append(Home(i), nm) \in Prefixes(p))'}
    BY <1>2, <1>3 DEF Todo
<1> QED
    BY <1>4, <1>5, <1>6

\* Closedir has nothing left.
LEMMA TodoClosedir ==
    ASSUME BaseInv, Closedir
    PROVE  Todo' = Todo
<1> DEFINE m == Len(dirs)
<1>1. WalkTypes /\ BufKnown /\ m \in Nat /\ DOMAIN dirs = 1 .. m
    BY StemsKnown DEF BaseInv
<1>2. /\ at = "return" /\ at' = "return" /\ m # 0 /\ DOMAIN dirs' = 1 .. m - 1 /\ dirs[m].left = {}
      /\ \A i \in 1 .. m - 1 : dirs'[i] = dirs[i] /\ Home(i)' = Home(i)
    BY <1>1, ClosedirDoes
<1>3. ~Visiting /\ ~Visiting' /\ \A i \in 1 .. m : i = m \/ i \in 1 .. m - 1
    BY <1>1, <1>2 DEF Visiting
<1>4. \A i \in 1 .. m - 1 : i \in 1 .. m
    BY <1>1
<1> HIDE DEF m
<1>5. ASSUME NEW p \in Places
      PROVE  (\E i \in 1 .. m : \E nm \in dirs[i].left : Append(Home(i), nm) \in Prefixes(p)) <=>
                \E i \in 1 .. m - 1 : \E nm \in dirs'[i].left : (Append(Home(i), nm) \in Prefixes(p))'
    <2>1. ASSUME NEW i \in 1 .. m, NEW nm \in dirs[i].left, Append(Home(i), nm) \in Prefixes(p)
          PROVE  i \in 1 .. m - 1 /\ nm \in dirs'[i].left /\ (Append(Home(i), nm) \in Prefixes(p))'
        <3>1. i \in 1 .. m - 1
            BY <1>2, <1>3
        <3> QED
            BY <1>2, <2>1, <3>1
    <2>2. ASSUME NEW i \in 1 .. m - 1, NEW nm \in dirs'[i].left, (Append(Home(i), nm) \in Prefixes(p))'
          PROVE  i \in 1 .. m /\ nm \in dirs[i].left /\ Append(Home(i), nm) \in Prefixes(p)
        BY <1>2, <1>4, <2>2
    <2> QED
        BY <2>1, <2>2
<1>6. Todo = {p \in Places : \E i \in 1 .. m : \E nm \in dirs[i].left : Append(Home(i), nm) \in Prefixes(p)}
    BY <1>1, <1>3 DEF Todo
<1>7. Todo' = {p \in Places : \E i \in 1 .. m - 1 : \E nm \in dirs'[i].left : (Append(Home(i), nm) \in Prefixes(p))'}
    BY <1>2, <1>3 DEF Todo
<1> QED
    BY <1>5, <1>6, <1>7

\* func does with the one file it is called for.
LEMMA TodoFunc ==
    ASSUME BaseInv, StackKnown, CallFunc, at' # "quit"
    PROVE  /\ Todo' \subseteq Todo /\ (Here \in Places => Here \in Todo) /\ Here \notin Steady \cap Todo'
           /\ Steady \cap Todo \subseteq Todo' \cup {Here}
<1>1. /\ at = "func" /\ at' \in {"opendir", "return"} /\ (at' = "return" => called.type # "FTW_D")
      /\ UNCHANGED <<fullpath, dirs, in_path>>
    BY FuncDoes
<1>2. WalkTypes /\ BufKnown /\ CalledKnown /\ Visiting /\ (Visiting' <=> at' = "opendir")
    BY <1>1 DEF BaseInv, Visiting
<1>3. Here' = Here /\ dirs' = dirs /\ \A i \in DOMAIN dirs : Home(i)' = Home(i)
    BY <1>1, <1>2, BufSame
<1>4. Here \in Seq(Names) /\ Here \in Prefixes(Here) /\ Start \in Prefixes(Here)
    BY <1>2, StemsKnown, PrefixLaws DEF StackKnown
<1> DEFINE Below(p) == \E i \in DOMAIN dirs : \E name \in dirs[i].left : Append(Home(i), name) \in Prefixes(p)
<1>5. Here \in Steady => ~Below(Here)
    BY <1>2 DEF StackKnown, Apart, Steady
<1>6. \A p \in Places : Below(p)' <=> Below(p)
    BY <1>3
<1>7. Todo = {p \in Places : Here \in Prefixes(p) \/ Below(p)}
    BY <1>1, <1>2 DEF Todo
<1>8. Todo' = {p \in Places : (at' = "opendir" /\ Here \in Prefixes(p) /\ p # Here) \/ Below(p)}
    BY <1>1, <1>2, <1>3, <1>6 DEF Todo
<1> HIDE DEF Below
<1>9. ASSUME NEW p \in Steady, Here \in Prefixes(p), p # Here PROVE at' = "opendir"
    <2>1. Here \in Places /\ Here \notin touched /\ IsDir(fs[Here])
        BY <1>4, <1>9, SteadyAbove
    <2>2. called.node = fs[Here]
        BY <1>1, <1>2, <2>1 DEF CalledKnown, NodeAt
    <2>3. called.type = "FTW_D"
        BY <1>1, <1>2, <2>1, <2>2 DEF CalledKnown, IsDir
    <2> QED
        BY <1>1, <2>3
<1> QED
    BY <1>4, <1>5, <1>7, <1>8, <1>9

\* All the steps of a walk but the calls of func leave as much to be done as
\* before, of what nobody changes, and change no result.
LEMMA TodoKept ==
    ASSUME BaseInv, StackKnown, [DirNext]_dirVars, ~DirMain, ~NextName, ~CallFunc
    PROVE  /\ Steady' \cap Todo' \subseteq Todo /\ Steady' \cap Todo \subseteq Todo'
           /\ Walking' \/ at' = "reported" => Walking \/ at = "reported"
           /\ UNCHANGED <<command, filebuf, argi, printed, counts, seen>>
           /\ Start' = Start /\ touched \subseteq touched' /\ \A q \in Places \ touched' : fs'[q] = fs[q]
<1>1. WalkTypes /\ BufKnown
    BY DEF BaseInv
<1>2. Start' = Start /\ UNCHANGED <<command, filebuf, argi, printed, counts, seen>>
    BY StartKept DEF DirNext, Lstat, Opendir, Readdir, Closedir, Report, Change, dirVars
<1>3. touched \subseteq touched' /\ \A q \in Places \ touched' : fs'[q] = fs[q]
    <2>1. CASE Change
        BY <1>1, <2>1, ChangeDoes
    <2>2. CASE ~Change
        BY <2>2 DEF DirNext, Lstat, Opendir, Readdir, Closedir, Report, dirVars
    <2> QED
        BY <2>1, <2>2
<1>4. Steady' \subseteq Steady /\ \A p \in Steady' : p \in Places /\ Prefixes(p) \cap touched' = {}
    BY <1>2, <1>3, SteadyKept DEF Steady
<1>5. Walking' \/ at' = "reported" => Walking \/ at = "reported"
    BY DEF DirNext, Lstat, Opendir, Readdir, Closedir, Report, Change, dirVars, Walking, Visiting
<1>6. CASE Opendir
    BY <1>2, <1>3, <1>4, <1>5, <1>6, TodoOpendir
<1>7. CASE Readdir
    BY <1>2, <1>3, <1>5, <1>7, TodoReaddir
<1>8. CASE Closedir
    BY <1>2, <1>3, <1>5, <1>8, TodoClosedir
<1>9. CASE Lstat \/ Report \/ Change \/ UNCHANGED dirVars
    <2>1. (Visiting' <=> Visiting) /\ (at' = "opendir" <=> at = "opendir")
        BY <1>9 DEF Lstat, Report, Change, dirVars, Visiting
    <2>2. SameDirs /\ Here' = Here
        <3>1. CASE Change
            BY <1>1, <3>1, ChangeDoes DEF BaseInv
        <3>2. CASE Lstat \/ Report \/ UNCHANGED dirVars
            <4>1. UNCHANGED <<fullpath, dirs, in_path>>
                BY <3>2 DEF Lstat, Report, dirVars
            <4> QED
                BY <2>1, <4>1, BufSame DEF BaseInv
        <3> QED
            BY <1>9, <3>1, <3>2
    <2>3. \A p \in Places : Prefixes(p) \cap touched' = {} => (p \in Todo' <=> p \in Todo)
        BY <2>1, <2>2, TodoSame
    <2> QED
        BY <1>2, <1>3, <1>4, <1>5, <2>3
<1> QED
    BY <1>6, <1>7, <1>8, <1>9 DEF DirNext

-----------------------------------------------------------------------------
(* What is printed. *)

\* What is printed at a place is one more than before, where the walk is.
LEMMA PrintOne ==
    ASSUME WalkTypes, BufKnown, NEW place
    PROVE  /\ TimesPrinted(place) \in Nat
           /\ printed' = printed => TimesPrinted(place)' = TimesPrinted(place)
           /\ printed' = Append(printed, fullpath) =>
                 TimesPrinted(place)' = TimesPrinted(place) + IF place = Here THEN 1 ELSE 0
<1> DEFINE n == Len(printed)
           I == {i \in DOMAIN printed : Place(printed[i]) = place}
<1>1. printed \in Seq(Seq(Texts)) /\ fullpath \in Seq(Texts) /\ n \in Nat /\ DOMAIN printed = 1 .. n
    BY LenProperties DEF WalkTypes, BufKnown
<1>2. I \subseteq 1 .. n /\ IsFiniteSet(1 .. n)
    BY <1>1, FS_Interval
<1>3. IsFiniteSet(I) /\ Cardinality(I) \in Nat
    BY <1>2, FS_Subset, FS_CardinalityType
<1>4. printed' = printed => TimesPrinted(place)' = TimesPrinted(place)
    BY DEF TimesPrinted
<1>5. ASSUME printed' = Append(printed, fullpath)
      PROVE  TimesPrinted(place)' = TimesPrinted(place) + IF place = Here THEN 1 ELSE 0
    <2> DEFINE J == {i \in DOMAIN printed' : Place(printed'[i]) = place}
    <2>1. /\ Len(printed') = n + 1 /\ printed' \in Seq(Seq(Texts))
          /\ (\A i \in 1 .. n : printed'[i] = printed[i]) /\ printed'[n + 1] = fullpath
        BY <1>1, <1>5, AppendProperties
    <2>2. DOMAIN printed' = 1 .. n + 1
        BY <2>1, LenProperties
    <2>3. Place(printed'[n + 1]) = Here
        BY <2>1 DEF Here
    <2>4. n + 1 \notin I
        BY <1>1
    <2>5. TimesPrinted(place)' = Cardinality(J) /\ TimesPrinted(place) = Cardinality(I)
        BY DEF TimesPrinted
    <2>6. J = I \cup (IF place = Here THEN {n + 1} ELSE {})
        <3> HIDE DEF n
        <3>1. \A i \in 1 .. n + 1 : i \in 1 .. n \/ i = n + 1
            BY <1>1
        <3>2. \A i \in 1 .. n : i \in 1 .. n + 1
            BY <1>1
        <3>3. n + 1 \in 1 .. n + 1
            BY <1>1
        <3> QED
            BY <1>1, <2>1, <2>2, <2>3, <3>1, <3>2, <3>3
    <2> HIDE DEF I, J
    <2>7. CASE place = Here
        <3>1. Cardinality(I \cup {n + 1}) = Cardinality(I) + 1
            BY <1>3, <2>4, FS_AddElement
        <3> QED
            BY <2>5, <2>6, <2>7, <3>1
    <2>8. CASE place # Here
        BY <1>3, <2>5, <2>6, <2>8
    <2> QED
        BY <2>7, <2>8
<1> QED
    BY <1>3, <1>4, <1>5 DEF TimesPrinted

\* Two texts that strcmp may find equal.
LEMMA MatchesIs ==
    ASSUME NEW b1, NEW b2
    PROVE  /\ TRUE \in Matches(b1, b2) => CString(b1) = CString(b2)
           /\ CString(b1) = CString(b2) /\ HasEnd(b1) => Matches(b1, b2) = {TRUE}
BY DEF Matches

\* findComp prints the steady file with the same text, and not the source.
LEMMA CompDoes ==
    ASSUME BaseInv, StackKnown, CanonKnown, SourceKnown, CallFunc, command.mode = "comp", at' # "quit"
    PROVE  /\ Here = Place(command.source) /\ (Len(Here) # 1 \/ Head(command.source) # "/") =>
                 printed' = printed
           /\ Here \in Steady /\ Here # Place(command.source) =>
                 /\ ~SameText(Here) => printed' = printed
                 /\ SameText(Here) /\ HasEnd(filebuf) => printed' = Append(printed, fullpath)
<1> DEFINE n == Len(filebuf)
           node == NodeAt(Here)
           candidate == called.type = "FTW_F" /\ called.node.kind = "reg" /\ Len(called.node.bytes) = n
<1>1. at = "func" /\ Visiting /\ WalkTypes /\ CalledKnown /\ BufKnown
    BY DEF CallFunc, BaseInv, Visiting
<1>2. \/ printed' = printed /\ (~candidate \/ node = NoNode \/ node.kind = "lnk" \/ ~node.open \/ NoneFree)
      \/ /\ candidate /\ node # NoNode /\ node.kind # "lnk" /\ node.open /\ ~NoneFree
         /\ ~(Len(node.bytes) < n \/ node.kind # "reg")
         /\ \E equal \in Matches(filebuf, SubSeq(node.bytes, 1, n)) :
               printed' = IF equal /\ in_filepath # fullpath THEN Append(printed, fullpath) ELSE printed
    <2>1. findComp
        BY DEF CallFunc, findStat, findComp, findName
    <2> HIDE DEF candidate
    <2>2. \/ (~candidate \/ node = NoNode) /\ printed' = printed
          \/ /\ ~(~candidate \/ node = NoNode) /\ (node.kind = "lnk" \/ ~node.open \/ NoneFree)
             /\ printed' = printed
          \/ /\ ~(~candidate \/ node = NoNode) /\ ~(node.kind = "lnk" \/ ~node.open \/ NoneFree)
             /\ ~(Len(node.bytes) < n \/ node.kind # "reg")
             /\ \E equal \in Matches(filebuf, SubSeq(node.bytes, 1, n)) :
                   printed' = IF equal /\ in_filepath # fullpath THEN Append(printed, fullpath) ELSE printed
        BY <2>1 DEF findComp, Here, candidate
    <2> QED
        BY <2>2
<1> HIDE DEF candidate
<1>3. ASSUME Here = Place(command.source), Len(Here) # 1 \/ Head(command.source) # "/"
      PROVE  printed' = printed
    <2>1. in_filepath = fullpath
        BY <1>1, <1>3, SourceMeets
    <2> QED
        BY <1>2, <2>1
<1>4. ASSUME Here \in Steady, Here # Place(command.source)
      PROVE  /\ ~SameText(Here) => printed' = printed
             /\ SameText(Here) /\ HasEnd(filebuf) => printed' = Append(printed, fullpath)
    <2>1. in_filepath # fullpath
        BY <1>1, <1>4, SourceMeets
    <2>2. Here \in Prefixes(Here) /\ Start \in Prefixes(Here)
        BY <1>1, <1>4, StemsKnown, PrefixLaws DEF Steady, Start
    <2>3. Here \in Places /\ Here \notin touched /\ fs[Here] # NoNode
        BY <1>4, <2>2, SteadyAbove
    <2>4. node = fs[Here] /\ called.node = fs[Here]
        BY <1>1, <2>3 DEF CalledKnown, NodeAt
    <2>5. fs[Here] \in Files
        BY <1>1, <2>3 DEF WalkTypes
    <2>6. fs[Here].bytes \in Seq({"x", "y", "NUL"}) /\ filebuf \in Seq({"x", "y", "NUL"})
        BY <1>1, <2>5 DEF Files, WalkTypes, Bytes
    <2>7. Len(fs[Here].bytes) = n => SubSeq(fs[Here].bytes, 1, n) = fs[Here].bytes
        BY <2>6, SubSeqFull
    <2>8. called.type = "FTW_F" <=> fs[Here].kind # "dir"
        BY <1>1, <2>3, <2>4 DEF CalledKnown, IsDir
    <2>9. candidate <=> fs[Here].kind = "reg" /\ Len(fs[Here].bytes) = n
        BY <2>4, <2>8 DEF candidate
    <2>10. Len(fs[Here].bytes) \in Nat /\ n \in Nat
        BY <2>6, LenProperties
    <2>11. SameText(Here) <=> /\ fs[Here].kind = "reg" /\ fs[Here].open /\ ~NoneFree
                              /\ Len(fs[Here].bytes) = n /\ CString(fs[Here].bytes) = CString(filebuf)
        <3>1. Len(Here) = Len(Start) + Len(dirs)
            BY <1>1 DEF StackKnown
        <3>2. Len(Start) \in Nat /\ Len(dirs) \in Nat /\ OpenMax \in Nat
            <4>1. at \notin {"main", "quit"}
                BY <1>1
            <4> QED
                BY <1>1, <4>1, StackLens, StemsKnown, TreeAssumption
        <3>3. PICK a, c, d : a = Len(Here) /\ c = Len(Start) /\ d = Len(dirs)
            OBVIOUS
        <3>4. a < c + OpenMax <=> ~(d >= OpenMax)
            BY <3>1, <3>2, <3>3
        <3>5. Len(Here) < Len(Place(in_path)) + OpenMax <=> ~NoneFree
            BY <3>3, <3>4 DEF NoneFree, Start
        <3> QED
            BY <3>5 DEF SameText
    <2>12. CASE printed' = printed /\ (~candidate \/ node = NoNode \/ node.kind = "lnk" \/ ~node.open \/ NoneFree)
        BY <2>3, <2>4, <2>9, <2>11, <2>12
    <2>13. ASSUME candidate, node.open, ~NoneFree,
                  NEW equal \in Matches(filebuf, SubSeq(node.bytes, 1, n)),
                  printed' = IF equal /\ in_filepath # fullpath THEN Append(printed, fullpath) ELSE printed
           PROVE  /\ ~SameText(Here) => printed' = printed
                  /\ SameText(Here) /\ HasEnd(filebuf) => printed' = Append(printed, fullpath)
        <3>1. equal \in Matches(filebuf, fs[Here].bytes) /\ fs[Here].open /\ fs[Here].kind = "reg"
              /\ Len(fs[Here].bytes) = n
            BY <2>4, <2>7, <2>9, <2>13
        <3>2. equal \in BOOLEAN
            BY <3>1 DEF Matches
        <3>3. CASE equal = TRUE
            <4>1. printed' = Append(printed, fullpath) /\ CString(filebuf) = CString(fs[Here].bytes)
                BY <2>1, <2>13, <3>1, <3>3, MatchesIs
            <4> QED
                BY <2>11, <2>13, <3>1, <4>1
        <3>4. CASE equal = FALSE
            <4>1. printed' = printed
                BY <2>13, <3>4
            <4>2. ~(CString(filebuf) = CString(fs[Here].bytes) /\ HasEnd(filebuf))
                BY <3>1, <3>4, MatchesIs
            <4> QED
                BY <2>11, <4>1, <4>2
        <3> QED
            BY <3>2, <3>3, <3>4
    <2> QED
        BY <1>2, <2>12, <2>13
<1> QED
    BY <1>3, <1>4

\* findName prints the steady file of the name.
LEMMA NameDoes ==
    ASSUME BaseInv, CanonKnown, CallFunc, command.mode = "name", Here \in Steady
    PROVE  printed' = IF /\ fs[Here].kind # "dir" /\ Len(Here) > 1
                         /\ <<Last(Here)>> = command.names[argi]
                      THEN Append(printed, fullpath) ELSE printed
<1>1. at = "func" /\ Visiting /\ WalkTypes /\ CalledKnown /\ BufKnown
    BY DEF CallFunc, BaseInv, Visiting
<1>2. printed' = IF called.type = "FTW_F" /\ FileName(fullpath) = command.names[argi]
                 THEN Append(printed, fullpath) ELSE printed
    BY DEF CallFunc, findStat, findComp, findName
<1>3. Here \in Prefixes(Here) /\ Start \in Prefixes(Here)
    BY <1>1, StemsKnown, PrefixLaws DEF Steady, Start
<1>4. Here \in Places /\ Here \notin touched /\ fs[Here] # NoNode
    BY <1>3, SteadyAbove
<1>5. called.node = fs[Here]
    BY <1>1, <1>4 DEF CalledKnown, NodeAt
<1>6. called.type = "FTW_F" <=> fs[Here].kind # "dir"
    BY <1>1, <1>4, <1>5 DEF CalledKnown, IsDir
<1>7. CASE dirs = <<>>
    <2>1. Here = Start
        BY <1>1, <1>7, StemsKnown
    <2>2. command.prog = "myfind" /\ at \notin {"main", "quit"}
        BY <1>1, CommandAssumption DEF WalkTypes
    <2>3. IsDir(fs[Here])
        BY <1>4, <2>1, <2>2 DEF CanonKnown
    <2> QED
        BY <1>2, <1>6, <2>3 DEF IsDir
<1>8. CASE dirs # <<>>
    <2>1. FileName(fullpath) = command.names[argi] <=>
             Len(Here) > 1 /\ <<Last(Here)>> = command.names[argi]
        BY <1>1, <1>8, NameMeets
    <2> QED
        BY <1>2, <1>6, <2>1
<1> QED
    BY <1>7, <1>8

\* When a walk begins nothing has been printed, and everything is to be visited.
LEMMA Begun ==
    ASSUME BaseInv, BaseInv', at' = "doPath", dirs' = <<>>, fullpath' = in_path', printed' = <<>>
    PROVE  Steady' \subseteq Todo' /\ \A p \in Places : TimesPrinted(p)' = 0
<1>1. Here' = Start'
    BY DEF Here, Start
<1>2. Todo' = {p \in Places : Here' \in Prefixes(p)}
    BY DEF Todo, Visiting
<1>3. Steady' \subseteq {p \in Places : Start' \in Prefixes(p)}
    BY DEF Steady, Start
<1>4. \A p \in Places : {i \in DOMAIN printed' : Place(printed'[i]) = p} = {}
    BY EmptySeq
<1>5. \A p \in Places : TimesPrinted(p)' = Cardinality({})
    BY <1>4 DEF TimesPrinted
<1> QED
    BY <1>1, <1>2, <1>3, <1>5, FS_EmptySet

LEMMA PrintNext ==
    BaseInv /\ StackKnown /\ CanonKnown /\ SourceKnown /\ PrintKnown /\ [DirNext]_dirVars => PrintKnown'
<1> SUFFICES ASSUME BaseInv, StackKnown, CanonKnown, SourceKnown, PrintKnown, [DirNext]_dirVars,
                    Walking' \/ at' = "reported"
             PROVE  /\ \A p \in Steady' \cap Todo' : TimesPrinted(p)' = 0
                    /\ command'.mode = "comp" =>
                          /\ \A p \in (Steady' \ Todo') \ {Place(command'.source)} : CompRight(p)'
                          /\ Len(Place(command'.source)) # 1 \/ Head(command'.source) # "/" =>
                                TimesPrinted(Place(command.source))' = 0
                    /\ command'.mode = "name" => \A p \in Steady' \ Todo' : NameRight(p)'
    BY DEF PrintKnown
<1>1. WalkTypes /\ BufKnown /\ CalledKnown /\ BaseInv' /\ at' # "quit" /\ Todo' \subseteq Places
    BY BaseNext DEF BaseInv, Walking, Visiting, Todo
\* A walk begins.
<1>2. ASSUME at' = "doPath", dirs' = <<>>, fullpath' = in_path', printed' = <<>>
      PROVE  /\ \A p \in Places : TimesPrinted(p)' = 0
             /\ Steady' \ Todo' = {}
             /\ command'.mode = "comp" => TimesPrinted(Place(command.source))' = 0
    <2>1. {i \in DOMAIN printed' : Place(printed'[i]) = Place(command'.source)} = {}
        BY <1>2, EmptySeq
    <2>2. TimesPrinted(Place(command.source))' = Cardinality({})
        BY <2>1 DEF TimesPrinted
    <2> QED
        BY <1>1, <1>2, <2>2, Begun, FS_EmptySet
<1>3. CASE DirMain
    <2>1. printed' = <<>> /\ at' = "doPath" /\ dirs' = <<>> /\ fullpath' = in_path'
        BY <1>1, <1>3, MainDoes DEF WalkTypes, Walking, Visiting
    <2> QED
        BY <1>1, <1>2, <2>1
<1>4. CASE NextName
    <2>1. printed' = <<>> /\ at' = "doPath" /\ dirs' = <<>> /\ fullpath' = in_path'
        BY <1>1, <1>4, NextDoes DEF Walking, Visiting
    <2> QED
        BY <1>1, <1>2, <2>1
<1>5. CASE ~DirMain /\ ~NextName /\ ~CallFunc
    <2>1. /\ Steady' \cap Todo' \subseteq Todo /\ Steady' \cap Todo \subseteq Todo' /\ (Walking \/ at = "reported")
          /\ UNCHANGED <<command, filebuf, argi, printed, counts, seen>>
          /\ Start' = Start /\ touched \subseteq touched' /\ \A q \in Places \ touched' : fs'[q] = fs[q]
        BY <1>5, TodoKept
    <2>2. Steady' \subseteq Steady /\ \A p \in Steady' : fs'[p] = fs[p]
        BY <2>1, SteadyKept
    <2>3. Steady' \ Todo' \subseteq Steady \ Todo /\ Steady' \cap Todo' \subseteq Steady \cap Todo
        BY <2>1, <2>2
    <2>4. \A p : TimesPrinted(p)' = TimesPrinted(p)
        BY <2>1 DEF TimesPrinted
    <2>5. \A p \in Steady' : (CompRight(p)' <=> CompRight(p)) /\ (NameRight(p)' <=> NameRight(p))
        BY <2>1, <2>2, <2>4 DEF CompRight, NameRight, SameText, Start
    <2> QED
        BY <2>1, <2>2, <2>3, <2>4, <2>5 DEF PrintKnown
<1>6. CASE CallFunc
    <2>1. /\ at = "func" /\ Visiting /\ Walking
          /\ UNCHANGED <<command, fs, touched, filebuf, in_path, in_filepath, argi, fullpath, dirs>>
          /\ printed' = printed \/ printed' = Append(printed, fullpath)
          /\ command.mode = "stat" => printed' = printed
        BY <1>6, FuncDoes DEF Visiting, Walking
    <2>2. /\ Todo' \subseteq Todo /\ (Here \in Places => Here \in Todo) /\ Here \notin Steady \cap Todo'
          /\ Steady \cap Todo \subseteq Todo' \cup {Here}
        BY <1>1, <1>6, TodoFunc
    <2>3. Steady' = Steady
        BY <2>1 DEF Steady
    <2>4. \A p : /\ TimesPrinted(p) \in Nat
                 /\ p # Here \/ printed' = printed => TimesPrinted(p)' = TimesPrinted(p)
                 /\ p = Here /\ printed' # printed => TimesPrinted(p)' = TimesPrinted(p) + 1
                 /\ p = Here /\ printed' = Append(printed, fullpath) => TimesPrinted(p)' = TimesPrinted(p) + 1
        <3> TAKE p
        <3>1. /\ TimesPrinted(p) \in Nat
              /\ printed' = printed => TimesPrinted(p)' = TimesPrinted(p)
              /\ printed' = Append(printed, fullpath) =>
                    TimesPrinted(p)' = TimesPrinted(p) + IF p = Here THEN 1 ELSE 0
            BY <1>1, PrintOne
        <3>2. p # Here /\ printed' = Append(printed, fullpath) => TimesPrinted(p)' = TimesPrinted(p)
            BY <3>1
        <3> QED
            BY <2>1, <3>1, <3>2
    <2>5. Here \in Steady => TimesPrinted(Here) = 0
        BY <2>1, <2>2 DEF PrintKnown, Steady
    <2>6. \A p \in Steady \cap Todo' : TimesPrinted(p)' = 0
        <3> TAKE p \in Steady \cap Todo'
        <3>1. TimesPrinted(p) = 0 /\ p # Here
            BY <2>1, <2>2 DEF PrintKnown
        <3> QED
            BY <2>4, <3>1
    <2>7. \A p \in Steady \ Todo' : p # Here => p \in Steady \ Todo
        BY <2>2
    <2>8. ASSUME command.mode = "comp"
          PROVE  /\ \A p \in (Steady \ Todo') \ {Place(command.source)} : CompRight(p)'
                 /\ Len(Place(command.source)) # 1 \/ Head(command.source) # "/" =>
                       TimesPrinted(Place(command.source))' = 0
        <3>1. ASSUME NEW p \in (Steady \ Todo') \ {Place(command.source)} PROVE CompRight(p)'
            <4>1. CASE p # Here
                <5>1. CompRight(p)
                    BY <2>1, <2>7, <2>8, <3>1, <4>1 DEF PrintKnown
                <5> QED
                    BY <2>1, <2>4, <4>1, <5>1 DEF CompRight, SameText
            <4>2. CASE p = Here
                <5>1. /\ ~SameText(Here) => printed' = printed
                      /\ SameText(Here) /\ HasEnd(filebuf) => printed' = Append(printed, fullpath)
                    BY <1>1, <1>6, <2>8, <3>1, <4>2, CompDoes
                <5>2. TimesPrinted(p) = 0
                    BY <2>5, <3>1, <4>2
                <5>3. TimesPrinted(p)' <= 1 /\ (printed' = printed => TimesPrinted(p)' = 0)
                      /\ (printed' = Append(printed, fullpath) => TimesPrinted(p)' = 1)
                    BY <2>4, <4>2, <5>2
                <5>4. SameText(p)' <=> SameText(p)
                    BY <2>1 DEF SameText
                <5> QED
                    BY <2>1, <4>2, <5>1, <5>3, <5>4 DEF CompRight
            <4> QED
                BY <4>1, <4>2
        <3>2. ASSUME Len(Place(command.source)) # 1 \/ Head(command.source) # "/"
              PROVE  TimesPrinted(Place(command.source))' = 0
            <4>1. TimesPrinted(Place(command.source)) = 0
                BY <2>1, <2>8, <3>2 DEF PrintKnown
            <4>2. Here = Place(command.source) => printed' = printed
                BY <1>1, <1>6, <2>8, <3>2, CompDoes
            <4>3. TimesPrinted(Place(command.source))' = TimesPrinted(Place(command.source))
                <5>1. PICK source : source = Place(command.source)
                    OBVIOUS
                <5>2. TimesPrinted(source)' = TimesPrinted(source)
                    BY <2>4, <4>2, <5>1
                <5> QED
                    BY <2>1, <5>1, <5>2 DEF TimesPrinted
            <4> QED
                BY <4>1, <4>3
        <3> QED
            BY <3>1, <3>2
    <2>9. ASSUME command.mode = "name", NEW p \in Steady \ Todo' PROVE NameRight(p)'
        <3>1. CASE p # Here
            <4>1. NameRight(p)
                BY <2>1, <2>7, <2>9, <3>1 DEF PrintKnown
            <4> QED
                BY <2>1, <2>4, <3>1, <4>1 DEF NameRight
        <3>2. CASE p = Here
            <4>1. printed' = IF /\ fs[Here].kind # "dir" /\ Len(Here) > 1
                                /\ <<Last(Here)>> = command.names[argi]
                             THEN Append(printed, fullpath) ELSE printed
                BY <1>6, <2>9, <3>2, NameDoes
            <4>2. TimesPrinted(p) = 0
                BY <2>5, <2>9, <3>2
            <4>3. (printed' = printed => TimesPrinted(p)' = 0)
                  /\ (printed' = Append(printed, fullpath) => TimesPrinted(p)' = 1)
                BY <2>4, <3>2, <4>2
            <4>4. TimesPrinted(p)' = IF /\ fs[p].kind # "dir" /\ Len(p) > 1
                                        /\ <<Last(p)>> = command.names[argi] THEN 1 ELSE 0
                BY <3>2, <4>1, <4>3
            <4> QED
                BY <2>1, <4>4 DEF NameRight
        <3> QED
            BY <3>1, <3>2
    <2>10. command' = command
        BY <2>1
    <2> QED
        BY <2>3, <2>6, <2>8, <2>9, <2>10
<1> QED
    BY <1>3, <1>4, <1>5, <1>6

-----------------------------------------------------------------------------
(* What is counted. *)

\* One more in the list of what was counted.
LEMMA SeenOne ==
    ASSUME WalkTypes, BufKnown, NEW node \in Files, seen' = Append(seen, [path |-> fullpath, node |-> node])
    PROVE  /\ Len(seen) \in Nat /\ DOMAIN seen = 1 .. Len(seen) /\ DOMAIN seen' = 1 .. Len(seen) + 1
           /\ seen'[Len(seen) + 1].node = node /\ \A i \in DOMAIN seen : i \in DOMAIN seen' /\ seen'[i] = seen[i]
           /\ \A place : SeenAt(place)' = SeenAt(place) \cup (IF place = Here THEN {Len(seen) + 1} ELSE {})
           /\ \A G \in SUBSET Files :
                 /\ Cardinality({i \in DOMAIN seen : seen[i].node \in G}) \in Nat
                 /\ Cardinality({i \in DOMAIN seen' : seen'[i].node \in G}) =
                       Cardinality({i \in DOMAIN seen : seen[i].node \in G}) + IF node \in G THEN 1 ELSE 0
<1> DEFINE n == Len(seen)
           R == [path : Seq(Texts), node : Files]
           r == [path |-> fullpath, node |-> node]
<1>1. seen \in Seq(R) /\ r \in R /\ r.path = fullpath /\ r.node = node
    BY DEF WalkTypes, BufKnown
<1> HIDE DEF r
<1>2. n \in Nat /\ DOMAIN seen = 1 .. n
    BY <1>1, LenProperties
<1>3. /\ Len(seen') = n + 1 /\ seen' \in Seq(R)
      /\ (\A i \in 1 .. n : seen'[i] = seen[i]) /\ seen'[n + 1] = r
    <2>1. seen' = Append(seen, r)
        BY DEF r
    <2> QED
        BY <1>1, <2>1, AppendProperties
<1>4. DOMAIN seen' = 1 .. n + 1
    BY <1>3, LenProperties
<1>5. n + 1 \notin 1 .. n /\ n + 1 \in 1 .. n + 1 /\ (\A i \in 1 .. n : i \in 1 .. n + 1)
      /\ \A i \in 1 .. n + 1 : i \in 1 .. n \/ i = n + 1
    BY <1>2
<1> HIDE DEF n
<1>6. ASSUME NEW place PROVE SeenAt(place)' = SeenAt(place) \cup (IF place = Here THEN {n + 1} ELSE {})
    <2>1. Place(seen'[n + 1].path) = Here
        BY <1>1, <1>3 DEF Here
    <2>2. SeenAt(place)' = {i \in DOMAIN seen' : Place(seen'[i].path) = place}
        BY DEF SeenAt
    <2> QED
        BY <1>2, <1>3, <1>4, <1>5, <2>1, <2>2 DEF SeenAt
<1>7. ASSUME NEW G \in SUBSET Files
      PROVE  /\ Cardinality({i \in DOMAIN seen : seen[i].node \in G}) \in Nat
             /\ Cardinality({i \in DOMAIN seen' : seen'[i].node \in G}) =
                   Cardinality({i \in DOMAIN seen : seen[i].node \in G}) + IF node \in G THEN 1 ELSE 0
    <2> DEFINE A == {i \in DOMAIN seen : seen[i].node \in G}
               B == {i \in DOMAIN seen' : seen'[i].node \in G}
    <2>1. IsFiniteSet(A) /\ Cardinality(A) \in Nat /\ n + 1 \notin A
        <3>1. A \subseteq 1 .. n /\ IsFiniteSet(1 .. n)
            BY <1>2, FS_Interval
        <3> QED
            BY <1>5, <3>1, FS_Subset, FS_CardinalityType
    <2>2. B = A \cup (IF node \in G THEN {n + 1} ELSE {})
        BY <1>1, <1>2, <1>3, <1>4, <1>5
    <2> HIDE DEF A, B
    <2>3. CASE node \in G
        <3>1. Cardinality(A \cup {n + 1}) = Cardinality(A) + 1
            BY <2>1, FS_AddElement
        <3>2. Cardinality(B) = Cardinality(A) + 1
            BY <2>2, <2>3, <3>1
        <3> QED
            BY <2>1, <2>3, <3>2 DEF A, B
    <2>4. CASE node \notin G
        <3>1. B = A
            BY <2>2, <2>4
        <3>2. Cardinality(B) = Cardinality(A) + 0
            BY <2>1, <3>1
        <3> QED
            BY <2>1, <2>4, <3>2 DEF A, B
    <2> QED
        BY <2>3, <2>4
<1> QED
    BY <1>1, <1>2, <1>3, <1>4, <1>5, <1>6, <1>7 DEF n

\* findStat counts a file where the walk is, for the first time if it is steady.
LEMMA CountOne ==
    ASSUME BaseInv, StackKnown, CountKnown, CallFunc, command.mode = "stat", at' # "quit"
    PROVE  CountKnown'
<1>1. /\ at = "func" /\ Visiting /\ Walking /\ WalkTypes /\ CalledKnown /\ BufKnown
      /\ UNCHANGED <<command, fs, touched, in_path, fullpath>>
    BY FuncDoes DEF BaseInv, Visiting, Walking
<1>2. /\ Todo' \subseteq Todo /\ (Here \in Places => Here \in Todo) /\ Here \notin Steady \cap Todo'
      /\ Steady \cap Todo \subseteq Todo' \cup {Here}
    BY TodoFunc
<1>3. Steady' = Steady
    BY <1>1 DEF Steady
<1>4. /\ \A p \in Steady \cap Todo : SeenAt(p) = {}
      /\ \A p \in Steady \ Todo : \E i \in DOMAIN seen : SeenAt(p) = {i} /\ seen[i].node = fs[p]
      /\ \A x \in Kinds : counts[x] = Cardinality({i \in DOMAIN seen : seen[i].node.kind = x})
      /\ counts["small"] = Cardinality({i \in DOMAIN seen : SmallReg(seen[i].node)})
    BY <1>1 DEF CountKnown
<1>5. Here \in Seq(Names) /\ Here \in Prefixes(Here) /\ Start \in Prefixes(Here)
    BY <1>1, StemsKnown, PrefixLaws DEF StackKnown
<1>6. Here \in Steady => Here \in Places /\ called.node = fs[Here] /\ called.type # "FTW_NS"
    <2>1. ASSUME Here \in Steady PROVE Here \in Places /\ Here \notin touched /\ fs[Here] # NoNode
        BY <1>5, <2>1, SteadyAbove
    <2> QED
        BY <1>1, <2>1, CalledNode DEF CalledKnown, NodeAt
<1>7. CASE called.type = "FTW_NS"
    <2>1. counts' = counts /\ seen' = seen
        BY <1>1, <1>7, StatDoes
    <2>2. Steady \ Todo' \subseteq Steady \ Todo /\ Steady \cap Todo' \subseteq Steady \cap Todo
        BY <1>2, <1>6, <1>7
    <2>3. \A p : SeenAt(p)' = SeenAt(p)
        BY <2>1 DEF SeenAt
    <2> QED
        BY <1>1, <1>3, <1>4, <2>1, <2>2, <2>3 DEF CountKnown
<1>8. CASE called.type # "FTW_NS"
    <2> DEFINE node == called.node
               n == Len(seen)
    <2>1. /\ node \in Files /\ Here \in Places /\ seen' = Append(seen, [path |-> fullpath, node |-> node])
          /\ \A x \in Kinds : counts'[x] = counts[x] + IF x = node.kind THEN 1 ELSE 0
          /\ counts'["small"] = counts["small"] + IF SmallReg(node) THEN 1 ELSE 0
        BY <1>1, <1>8, CalledNode, StatDoes
    <2> HIDE DEF node
    <2>2. /\ n \in Nat /\ DOMAIN seen' = 1 .. n + 1 /\ seen'[n + 1].node = node
          /\ \A i \in DOMAIN seen : i \in DOMAIN seen' /\ seen'[i] = seen[i]
          /\ \A place : SeenAt(place)' = SeenAt(place) \cup (IF place = Here THEN {n + 1} ELSE {})
          /\ \A G \in SUBSET Files :
                Cardinality({i \in DOMAIN seen' : seen'[i].node \in G}) =
                   Cardinality({i \in DOMAIN seen : seen[i].node \in G}) + IF node \in G THEN 1 ELSE 0
        BY <1>1, <2>1, SeenOne
    <2>3. n + 1 \in DOMAIN seen'
        BY <2>2
    <2> HIDE DEF n
    <2>4. ASSUME NEW p \in Steady \cap Todo' PROVE SeenAt(p)' = {}
        <3>1. p \in Todo /\ p # Here
            BY <1>2
        <3> QED
            BY <1>4, <2>2, <3>1
    <2>5. ASSUME NEW p \in Steady \ Todo' PROVE \E i \in DOMAIN seen' : SeenAt(p)' = {i} /\ seen'[i].node = fs[p]
        <3>1. CASE p = Here
            <4>1. SeenAt(p) = {} /\ node = fs[p]
                BY <1>2, <1>4, <1>6, <2>1, <2>5, <3>1 DEF node
            <4>2. SeenAt(p)' = {n + 1}
                BY <2>2, <3>1, <4>1
            <4> QED
                BY <2>2, <2>3, <4>1, <4>2
        <3>2. CASE p # Here
            <4>1. p \in Steady \ Todo
                BY <1>2, <2>5, <3>2
            <4>2. PICK i \in DOMAIN seen : SeenAt(p) = {i} /\ seen[i].node = fs[p]
                BY <1>4, <4>1
            <4>3. SeenAt(p)' = {i}
                BY <2>2, <3>2, <4>2
            <4> QED
                BY <2>2, <4>2, <4>3
        <3> QED
            BY <3>1, <3>2
    <2> DEFINE R == [path : Seq(Texts), node : Files]
    <2>a. \A r \in R : r.node \in Files
        OBVIOUS
    <2>b. seen \in Seq(R) /\ seen' \in Seq(R)
        BY <1>1, StatDoes DEF WalkTypes
    <2> HIDE DEF R
    <2>6. \A i \in DOMAIN seen : seen[i].node \in Files
        BY <2>a, <2>b, LenProperties
    <2>7. \A i \in DOMAIN seen' : seen'[i].node \in Files
        BY <2>a, <2>b, LenProperties
    <2>8. ASSUME NEW x \in Kinds PROVE counts'[x] = Cardinality({i \in DOMAIN seen' : seen'[i].node.kind = x})
        <3> DEFINE G == {f \in Files : f.kind = x}
        <3>1. /\ {i \in DOMAIN seen : seen[i].node \in G} = {i \in DOMAIN seen : seen[i].node.kind = x}
              /\ {i \in DOMAIN seen' : seen'[i].node \in G} = {i \in DOMAIN seen' : seen'[i].node.kind = x}
              /\ (node \in G <=> x = node.kind) /\ G \in SUBSET Files
            BY <2>1, <2>6, <2>7
        <3>2. Cardinality({i \in DOMAIN seen' : seen'[i].node \in G}) =
                 Cardinality({i \in DOMAIN seen : seen[i].node \in G}) + IF node \in G THEN 1 ELSE 0
            BY <2>2, <3>1
        <3>3. counts'[x] = counts[x] + IF x = node.kind THEN 1 ELSE 0
            BY <2>1
        <3>4. counts[x] = Cardinality({i \in DOMAIN seen : seen[i].node.kind = x})
            BY <1>4
        <3> HIDE DEF G
        <3> QED
            BY <3>1, <3>2, <3>3, <3>4
    <2>9. counts'["small"] = Cardinality({i \in DOMAIN seen' : SmallReg(seen'[i].node)})
        <3> DEFINE G == {f \in Files : SmallReg(f)}
        <3>1. /\ {i \in DOMAIN seen : seen[i].node \in G} = {i \in DOMAIN seen : SmallReg(seen[i].node)}
              /\ {i \in DOMAIN seen' : seen'[i].node \in G} = {i \in DOMAIN seen' : SmallReg(seen'[i].node)}
              /\ (node \in G <=> SmallReg(node)) /\ G \in SUBSET Files
            BY <2>1, <2>6, <2>7
        <3>2. Cardinality({i \in DOMAIN seen' : seen'[i].node \in G}) =
                 Cardinality({i \in DOMAIN seen : seen[i].node \in G}) + IF node \in G THEN 1 ELSE 0
            BY <2>2, <3>1
        <3> HIDE DEF G
        <3> QED
            BY <1>4, <2>1, <3>1, <3>2
    <2>10. CountKnown' <=>
              (Walking' \/ at' = "reported" =>
                 /\ \A p \in Steady' \cap Todo' : SeenAt(p)' = {}
                 /\ \A p \in Steady' \ Todo' : \E i \in DOMAIN seen' : SeenAt(p)' = {i} /\ seen'[i].node = fs'[p]
                 /\ \A x \in Kinds : counts'[x] = Cardinality({i \in DOMAIN seen' : seen'[i].node.kind = x})
                 /\ counts'["small"] = Cardinality({i \in DOMAIN seen' : SmallReg(seen'[i].node)}))
        BY <1>1 DEF CountKnown, SmallReg
    <2> QED
        BY <1>1, <1>3, <2>4, <2>5, <2>8, <2>9, <2>10
<1> QED
    BY <1>7, <1>8

LEMMA CountNext ==
    BaseInv /\ StackKnown /\ CountKnown /\ [DirNext]_dirVars => CountKnown'
<1> SUFFICES ASSUME BaseInv, StackKnown, CountKnown, [DirNext]_dirVars,
                    command'.mode = "stat", Walking' \/ at' = "reported"
             PROVE  CountKnown'
    BY DEF CountKnown
<1>1. WalkTypes /\ BaseInv' /\ at' # "quit"
    BY BaseNext DEF BaseInv, Walking, Visiting
<1>2. CASE DirMain
    <2>1. /\ at = "main" /\ printed' = <<>> /\ at' = "doPath" /\ dirs' = <<>> /\ fullpath' = in_path'
          /\ counts' = [x \in Kinds \cup {"small"} |-> 0] /\ seen' = <<>>
        BY <1>1, <1>2, MainDoes DEF WalkTypes, Walking, Visiting
    <2>2. Steady' \ Todo' = {}
        BY <1>1, <2>1, Begun
    <2>3. DOMAIN seen' = {}
        BY <2>1, EmptySeq
    <2>4. \A p : SeenAt(p)' = {}
        BY <2>3 DEF SeenAt
    <2>5. /\ \A x \in Kinds : counts'[x] = Cardinality({i \in DOMAIN seen' : seen'[i].node.kind = x})
          /\ counts'["small"] = Cardinality({i \in DOMAIN seen' : SmallReg(seen'[i].node)})
        <3>1. {i \in DOMAIN seen' : SmallReg(seen'[i].node)} = {} /\ counts'["small"] = 0
            BY <2>1, <2>3
        <3>2. \A x \in Kinds : {i \in DOMAIN seen' : seen'[i].node.kind = x} = {} /\ counts'[x] = 0
            BY <2>1, <2>3
        <3> QED
            BY <3>1, <3>2, FS_EmptySet
    <2> QED
        BY <2>2, <2>4, <2>5 DEF CountKnown, SmallReg
<1>3. CASE NextName
    BY <1>1, <1>3, NextDoes
<1>4. CASE CallFunc
    BY <1>1, <1>4, FuncDoes, CountOne
<1>5. CASE ~DirMain /\ ~NextName /\ ~CallFunc
    <2>1. /\ Steady' \cap Todo' \subseteq Todo /\ Steady' \cap Todo \subseteq Todo' /\ (Walking \/ at = "reported")
          /\ UNCHANGED <<command, filebuf, argi, printed, counts, seen>>
          /\ Start' = Start /\ touched \subseteq touched' /\ \A q \in Places \ touched' : fs'[q] = fs[q]
        BY <1>5, TodoKept
    <2>2. Steady' \subseteq Steady /\ \A p \in Steady' : fs'[p] = fs[p]
        BY <2>1, SteadyKept
    <2>3. Steady' \ Todo' \subseteq Steady \ Todo /\ Steady' \cap Todo' \subseteq Steady \cap Todo
        BY <2>1, <2>2
    <2>4. \A p : SeenAt(p)' = SeenAt(p)
        BY <2>1 DEF SeenAt
    <2> QED
        BY <2>1, <2>2, <2>3, <2>4 DEF CountKnown, SmallReg
<1> QED
    BY <1>2, <1>3, <1>4, <1>5

-----------------------------------------------------------------------------
(* What a walk reports. *)

LEMMA WalkInit == DirInit => WalkInv
<1> SUFFICES ASSUME DirInit PROVE WalkInv
    OBVIOUS
<1>1. /\ at = "main" /\ dirs = <<>> /\ fullpath = <<>> /\ in_path = <<>> /\ printed = <<>> /\ filebuf = <<>>
      /\ seen = <<>> /\ command \in Commands /\ fs = Tree /\ touched = {} /\ counts = [x \in Kinds \cup {"small"} |-> 0]
    BY DEF DirInit
<1>2. \A S : <<>> \in Seq(S) /\ DOMAIN <<>> = {}
    BY EmptySeq
<1>3. ~Visiting /\ ~Walking
    BY <1>1 DEF Visiting, Walking
<1>4. WalkTypes
    BY <1>1, <1>2, <1>3, TreeAssumption DEF WalkTypes, Bytes
<1>5. BufKnown
    BY <1>1, <1>2, <1>3 DEF BufKnown
<1>6. StackKnown
    BY <1>1, <1>2, <1>3 DEF StackKnown
<1> QED
    BY <1>1, <1>3, <1>4, <1>5, <1>6 DEF WalkInv, CalledKnown, CanonKnown, SourceKnown, PrintKnown, CountKnown

LEMMA WalkNext == WalkInv /\ [DirNext]_dirVars => WalkInv'
BY BaseNext, StackNext, CanonNext, SourceNext, PrintNext, CountNext DEF WalkInv, BaseInv

LEMMA WalkSafe == WalkInv => WalkExact
<1> SUFFICES ASSUME WalkInv, at = "reported"
             PROVE  CASE command.mode = "stat" -> StatExact
                      [] command.mode = "comp" -> CompExact
                      [] command.mode = "name" -> NameExact
    BY DEF WalkExact
<1>1. WalkTypes /\ PrintKnown /\ CountKnown /\ dirs = <<>> /\ ~Visiting /\ DOMAIN dirs = {}
    BY EmptySeq DEF WalkInv, WalkTypes, Visiting
<1>2. Todo = {}
    BY <1>1 DEF Todo
<1>3. command.mode \in {"stat", "comp", "name"}
    BY <1>1, CommandAssumption DEF WalkTypes
<1>4. ASSUME command.mode = "stat" PROVE StatExact
    BY <1>1, <1>2, <1>4 DEF CountKnown, StatExact
<1>5. ASSUME command.mode = "comp" PROVE CompExact
    <2>1. /\ \A p \in Steady \ {Place(command.source)} : CompRight(p)
          /\ Len(Place(command.source)) # 1 \/ Head(command.source) # "/" =>
                TimesPrinted(Place(command.source)) = 0
        BY <1>1, <1>2, <1>5 DEF PrintKnown
    <2> QED
        BY <2>1 DEF CompExact, CompRight
<1>6. ASSUME command.mode = "name" PROVE NameExact
    <2>1. \A p \in Steady : NameRight(p)
        BY <1>1, <1>2, <1>6 DEF PrintKnown
    <2> QED
        BY <2>1 DEF NameExact, NameRight
<1> QED
    BY <1>3, <1>4, <1>5, <1>6

\* Whatever other processes remove, replace, create and make again while the
\* buffer that all the activations share goes up and down the tree, and
\* whichever of those names readdir returns, a walk reports every file that
\* nobody changed and that lies no deeper than there are descriptors exactly
\* once: findStat counts it as what it is, findComp and findName print it when
\* they should.
THEOREM WalksAreExact == DirSpec => []WalkExact
BY WalkInit, WalkNext, WalkSafe, PTL DEF DirSpec

=============================================================================
