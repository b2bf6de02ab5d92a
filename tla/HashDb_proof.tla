---------------------------- MODULE HashDb_proof ----------------------------
(***************************************************************************)
(* The hash database, for any number of processes, keys, chains and calls: *)
(* the locks that each process holds and what they exclude, the ranges of  *)
(* all pointers and offsets, and, from these, what the lists of the index   *)
(* file, its keys and the data records are at every moment; then that the  *)
(* calls act on one map at one moment each (HashDbKV), and what a whole    *)
(* scan returns (DbScan).                                                  *)
(***************************************************************************)
EXTENDS DbScan, NatSets, FiniteSetTheorems, TLAPS

Types ==
    /\ rd \in [Regions -> SUBSET Procs]
    /\ wr \in [Regions -> SUBSET Procs]
    /\ pc \in [Procs -> AllLabels]
    /\ call \in [Procs -> Requests \cup {NoCall}]

\* fcntl's rule: a write lock is the only lock on its region.
Exclusive ==
    \A b \in Regions : \A q \in wr[b] : wr[b] \cup rd[b] \subseteq {q}

Storing == {"overwrite", "reread", "locknewdat", "newdat", "locknewidx", "newidx",
            "freewalk", "freetake", "reusedat", "reuseidx", "link"}
Deleting == {"deldat", "delidx", "delfree", "delunlink"}

\* The locks a process holds, and its call, from where it is in it.
Owns(p) ==
    /\ pc[p] \in AllOps => call[p].op = pc[p] /\ call[p] \in Requests
    /\ pc[p] \in InChain => /\ call[p].op \in Writes \cup {"fetch"}
                            /\ call[p] \in Requests
                            /\ p \in IF call[p].op \in Writes THEN wr[Chain(p)] ELSE rd[Chain(p)]
    /\ pc[p] \in Storing => call[p].op \in Stores
    /\ pc[p] \in Deleting => call[p].op \in Writes
    /\ pc[p] \in InFree => p \in wr[FREE_OFF]
    /\ pc[p] \in InScan => p \in rd[FREE_OFF]
    /\ At(p, "newdat") => p \in wr[DatFile]
    /\ At(p, "newidx") => p \in wr[IdxTail]

LockInv == Types /\ Exclusive /\ \A p \in Procs : Owns(p)

\* What a step of p does to the locks and to the other processes.
LockStep(p) ==
    \/ UNCHANGED locks
    \/ \E b \in Regions : ReadLock(p, b) \/ WriteLock(p, b)
    \/ \E B \in SUBSET Regions : Unlock(p, B)

OthersStay(p) ==
    \A q \in Procs \ {p} : pc'[q] = pc[q] /\ call'[q] = call[q]

-----------------------------------------------------------------------------
\* The regions that _db_find_and_lock, _db_findfree, _db_writedat and
\* _db_writeidx lock are different regions.
LEMMA RegionsDistinct ==
    /\ Chains \subseteq Regions /\ {FREE_OFF, IdxTail, DatFile} \subseteq Regions
    /\ FREE_OFF \notin Chains /\ IdxTail \notin Chains /\ DatFile \notin Chains
    /\ FREE_OFF # IdxTail /\ FREE_OFF # DatFile /\ IdxTail # DatFile
BY ParamAssumption
DEF Chains, Regions, FREE_OFF, IdxTail, DatFile, FirstRec

\* A write lock of p stays the only lock on its region whoever steps.
LEMMA ExclusivePreserved ==
    ASSUME Types, Exclusive, NEW p \in Procs, LockStep(p)
    PROVE  Exclusive'
<1>1. CASE UNCHANGED locks
    BY <1>1 DEF Exclusive, locks
<1>2. ASSUME NEW b \in Regions, ReadLock(p, b) PROVE Exclusive'
    BY <1>2 DEF Exclusive, ReadLock, CanRead, Types
<1>3. ASSUME NEW b \in Regions, WriteLock(p, b) PROVE Exclusive'
    BY <1>3 DEF Exclusive, WriteLock, CanWrite, Types
<1>4. ASSUME NEW B \in SUBSET Regions, Unlock(p, B) PROVE Exclusive'
    BY <1>4 DEF Exclusive, Unlock, Types
<1> QED
    BY <1>1, <1>2, <1>3, <1>4 DEF LockStep

\* A step of p takes away no lock of another process.
LEMMA OthersKeepLocks ==
    ASSUME Types, NEW p \in Procs, LockStep(p)
    PROVE  \A q \in Procs \ {p}, b \in Regions :
              /\ q \in wr[b] => q \in wr'[b]
              /\ q \in rd[b] => q \in rd'[b]
BY DEF LockStep, ReadLock, WriteLock, Unlock, Types, locks

\* The chain of a call that looks for a key is a chain of the hash table.
LEMMA ChainIsRegion ==
    ASSUME NEW p \in Procs, call[p] \in Requests, call[p].op \in Writes \cup {"fetch"}
    PROVE  Chain(p) \in Chains
BY ParamAssumption DEF Chain, Requests, Writes, Stores

\* A process keeps the locks it needs while another one steps.
LEMMA OthersOwn ==
    ASSUME Types, NEW p \in Procs, LockStep(p), OthersStay(p),
           NEW q \in Procs \ {p}, Owns(q)
    PROVE  Owns(q)'
<1> USE RegionsDistinct
<1>1. /\ \A b \in Regions : (q \in wr[b] => q \in wr'[b]) /\ (q \in rd[b] => q \in rd'[b])
      /\ pc'[q] = pc[q] /\ call'[q] = call[q]
    BY OthersKeepLocks DEF OthersStay
<1>2. pc[q] \in InChain => Chain(q) \in Regions /\ Chain(q)' = Chain(q)
    BY <1>1, ChainIsRegion DEF Owns, Chain
<1> QED
    BY <1>1, <1>2 DEF Owns, At

\* un_lock gives up the named regions and no others.
LEMMA UnlockKeeps ==
    ASSUME Types, NEW p \in Procs, NEW B \in SUBSET Regions, Unlock(p, B)
    PROVE  /\ LockStep(p)
           /\ rd' \in [Regions -> SUBSET Procs] /\ wr' \in [Regions -> SUBSET Procs]
           /\ \A b \in Regions \ B : wr'[b] = wr[b] /\ rd'[b] = rd[b]
BY DEF LockStep, Unlock, Types

\* A lock that was waited for is held, and no lock is lost by taking it.
LEMMA LockTakes ==
    ASSUME Types, NEW p \in Procs, NEW b \in Regions, ReadLock(p, b) \/ WriteLock(p, b)
    PROVE  /\ LockStep(p)
           /\ rd' \in [Regions -> SUBSET Procs] /\ wr' \in [Regions -> SUBSET Procs]
           /\ ReadLock(p, b) => p \in rd'[b] /\ wr' = wr
           /\ WriteLock(p, b) => p \in wr'[b] /\ rd' = rd
           /\ \A c \in Regions : wr[c] \subseteq wr'[c] /\ rd[c] \subseteq rd'[c]
BY DEF LockStep, ReadLock, WriteLock, Types

\* Each step of p takes and gives up the locks it should.
LEMMA StepOwns ==
    ASSUME Types, NEW p \in Procs, Owns(p), Begin(p) \/ Step(p)
    PROVE  Types' /\ LockStep(p) /\ OthersStay(p) /\ Owns(p)'
<1> USE RegionsDistinct
<1> USE DEF OthersStay, At, Goto, SameCall
<1>1. /\ pc \in [Procs -> AllLabels]
      /\ call \in [Procs -> Requests \cup {NoCall}]
    BY DEF Types
<1>2. pc[p] \in InChain => Chain(p) \in Chains
    BY ChainIsRegion DEF Owns
<1> USE DEF AllLabels, InChain, InFree, InScan, AllOps, Writes, Stores, Storing, Deleting
<1>3. CASE Begin(p)
    <2>1. PICK r \in Requests : r.op \in Ops[p] /\ call' = [call EXCEPT ![p] = r] /\ pc' = [pc EXCEPT ![p] = r.op]
        BY <1>3 DEF Begin
    <2>2. r.op \in AllOps
        BY DEF Requests
    <2>3. UNCHANGED <<files, locks>>
        BY <1>3 DEF Begin
    <2> QED
        BY <1>1, <2>1, <2>2, <2>3 DEF Types, locks, LockStep, Owns
<1>4. CASE WalkOn(p) \/ Found(p) \/ DelIdx(p) \/ DelFree(p) \/ Reread(p)
          \/ FreeWalkOn(p) \/ FreeFound(p) \/ ReuseDat(p) \/ ReuseIdx(p) \/ Rewind(p) \/ ScanOn(p)
    <2>1. UNCHANGED locks
        BY <1>4 DEF WalkOn, Found, DelIdx, DelFree, Reread, FreeWalkOn, FreeFound, ReuseDat, ReuseIdx,
           Rewind, ScanOn
    <2>2. LockStep(p)
        BY <2>1 DEF LockStep
    <2>3. /\ OthersStay(p) /\ pc' \in [Procs -> AllLabels]
          /\ call' \in [Procs -> Requests \cup {NoCall}]
        BY <1>1, <1>4 DEF WalkOn, Found, DelIdx, DelFree, Reread, FreeWalkOn, FreeFound, ReuseDat,
           ReuseIdx, Rewind, ScanOn
    <2>4. Owns(p)'
        BY <1>1, <1>2, <1>4, <2>1 DEF Owns, Chain, locks, WalkOn, Found, DelIdx, DelFree, Reread,
           FreeWalkOn, FreeFound, ReuseDat, ReuseIdx, Rewind, ScanOn
    <2> QED
        BY <2>1, <2>2, <2>3, <2>4 DEF Types, locks
<1>5. CASE LockChain(p)
    <2>1. call[p] \in Requests /\ Chain(p) \in Chains /\ call[p].op = pc[p]
        BY <1>5, ChainIsRegion DEF LockChain, Owns
    <2>2. IF pc[p] = "fetch" THEN ReadLock(p, Chain(p)) ELSE WriteLock(p, Chain(p))
        BY <1>5 DEF LockChain
    <2>3. pc' = [pc EXCEPT ![p] = "walk"] /\ call' = call
        BY <1>5 DEF LockChain
    <2> HIDE DEF AllLabels
    <2> QED
        BY <1>1, <1>5, <2>1, <2>2, <2>3, LockTakes DEF LockChain, Types, Owns, Chain, AllLabels
<1>6. CASE StartFree(p)
    <2>1. LockStep(p)
        BY <1>6, LockTakes DEF StartFree
    <2> QED
        BY <1>1, <1>2, <1>6, <2>1, LockTakes DEF StartFree, Types, Owns, Chain
<1>7. CASE DelDat(p)
    <2>1. LockStep(p)
        BY <1>7, LockTakes DEF DelDat
    <2> QED
        BY <1>1, <1>2, <1>7, <2>1, LockTakes DEF DelDat, Types, Owns, Chain
<1>8. CASE LockNewDat(p)
    <2>1. LockStep(p)
        BY <1>8, LockTakes DEF LockNewDat
    <2> QED
        BY <1>1, <1>2, <1>8, <2>1, LockTakes DEF LockNewDat, Types, Owns, Chain
<1>9. CASE LockNewIdx(p)
    <2>1. LockStep(p)
        BY <1>9, LockTakes DEF LockNewIdx
    <2> QED
        BY <1>1, <1>2, <1>9, <2>1, LockTakes DEF LockNewIdx, Types, Owns, Chain
<1>10. CASE NextRec(p)
    <2>1. LockStep(p)
        BY <1>10, LockTakes DEF NextRec
    <2> QED
        BY <1>1, <1>2, <1>10, <2>1, LockTakes DEF NextRec, Types, Owns, Chain
<1>11. CASE FoundInsert(p) \/ NotFound(p) \/ ReadDat(p) \/ Overwrite(p) \/ Link(p)
           \/ ScanEnd(p) \/ ScanDat(p) \/ LinkInvalid(p) \/ ScanLost(p)
    <2>1. PICK B \in SUBSET Regions : Unlock(p, B)
        BY <1>2, <1>11 DEF Return, Exit, FoundInsert, NotFound, ReadDat, Overwrite, Link, ScanEnd, ScanDat,
           LinkInvalid, ScanLost
    <2>2. LockStep(p)
        BY <2>1, UnlockKeeps
    <2>3. /\ pc' = [pc EXCEPT ![p] = "idle"] \/ pc' = [pc EXCEPT ![p] = "exited"]
          /\ call' = call \/ call' = [call EXCEPT ![p] = NoCall]
        BY <1>11 DEF Return, Exit, FoundInsert, NotFound, ReadDat, Overwrite, Link, ScanEnd, ScanDat,
           LinkInvalid, ScanLost
    <2> QED
        BY <1>1, <2>1, <2>2, <2>3, UnlockKeeps DEF Types, Owns
<1>12. CASE DelUnlink(p)
    <2>1. PICK B \in SUBSET Regions :
              /\ Unlock(p, B)
              /\ \/ pc' = [pc EXCEPT ![p] = "idle"] /\ call' = [call EXCEPT ![p] = NoCall]
                 \/ /\ B = {FREE_OFF} /\ call[p].op # "delete"
                    /\ pc' = [pc EXCEPT ![p] = "reread"] /\ call' = call
        BY <1>2, <1>12 DEF DelUnlink, Return
    <2>2. pc[p] = "delunlink"
        BY <1>12 DEF DelUnlink
    <2> QED
        BY <1>1, <1>2, <2>1, <2>2, UnlockKeeps DEF Types, Owns, Chain
<1>13. CASE FreeTake(p)
    <2>1. {FREE_OFF} \in SUBSET Regions /\ Unlock(p, {FREE_OFF})
        BY <1>13 DEF FreeTake
    <2> QED
        BY <1>1, <1>2, <1>13, <2>1, UnlockKeeps DEF FreeTake, Types, Owns, Chain
<1>14. CASE NoneFree(p)
    <2>1. {FREE_OFF} \in SUBSET Regions /\ Unlock(p, {FREE_OFF})
        BY <1>14 DEF NoneFree
    <2> QED
        BY <1>1, <1>2, <1>14, <2>1, UnlockKeeps DEF NoneFree, Types, Owns, Chain
<1>15. CASE NewDat(p)
    <2>1. {DatFile} \in SUBSET Regions /\ Unlock(p, {DatFile})
        BY <1>15 DEF NewDat
    <2> QED
        BY <1>1, <1>2, <1>15, <2>1, UnlockKeeps DEF NewDat, Types, Owns, Chain
<1>16. CASE NewIdx(p)
    <2>1. {IdxTail} \in SUBSET Regions /\ Unlock(p, {IdxTail})
        BY <1>16 DEF NewIdx
    <2> QED
        BY <1>1, <1>2, <1>16, <2>1, UnlockKeeps DEF NewIdx, Types, Owns, Chain
<1> QED
    BY <1>3, <1>4, <1>5, <1>6, <1>7, <1>8, <1>9, <1>10, <1>11, <1>12, <1>13, <1>14, <1>15, <1>16 DEF Step,
       Find, Delete, FindFree, Store, Scan

\* No process needs a lock when the database has just been opened.
LEMMA LockInvInit == Init => LockInv
<1> SUFFICES ASSUME Init PROVE LockInv
    OBVIOUS
<1>1. Types
    BY DEF Init, Types, AllLabels, NoCall
<1>2. Exclusive
    BY DEF Init, Exclusive
<1>3. \A p \in Procs : Owns(p)
    BY DEF Init, Owns, At, AllOps, InChain, InFree, InScan, Writes, Stores, Storing, Deleting
<1> QED
    BY <1>1, <1>2, <1>3 DEF LockInv

\* Every file operation keeps the locks right.
LEMMA LockInvNext == LockInv /\ [Next]_vars => LockInv'
<1> SUFFICES ASSUME LockInv, [Next]_vars PROVE LockInv'
    OBVIOUS
<1>1. ASSUME NEW p \in Procs, Begin(p) \/ Step(p) PROVE LockInv'
    <2>1. Types' /\ LockStep(p) /\ OthersStay(p) /\ Owns(p)'
        BY <1>1, StepOwns DEF LockInv
    <2>2. \A q \in Procs \ {p} : Owns(q)'
        BY <2>1, OthersOwn DEF LockInv
    <2>3. Exclusive'
        BY <2>1, ExclusivePreserved DEF LockInv
    <2> QED
        BY <2>1, <2>2, <2>3 DEF LockInv
<1>2. CASE UNCHANGED vars
    BY <1>2 DEF LockInv, Types, Exclusive, Owns, At, Chain, vars, locks
<1> QED
    BY <1>1, <1>2 DEF Next

\* At every step of every call the process holds the locks that step needs:
\* the chain from _db_find_and_lock to the un_lock of db_fetch, db_store or
\* db_delete, the free list in _db_findfree and _db_dodelete, the end of a file
\* between lseek and write.
THEOREM LocksHeld == Spec => []LockInv
BY LockInvInit, LockInvNext, PTL DEF Spec

\* The locks exclude what they must, at one moment.
LEMMA Exclusion == LockInv => ChainExclusive /\ FreeExclusive /\ AppendExclusive
<1> SUFFICES ASSUME LockInv PROVE ChainExclusive /\ FreeExclusive /\ AppendExclusive
    OBVIOUS
<1>1. ChainExclusive
    <2> SUFFICES ASSUME NEW p \in Procs, NEW q \in Procs, p # q,
                        pc[p] \in InChain, call[p].op \in Writes, pc[q] \in InChain,
                        Chain(p) = Chain(q)
                 PROVE  FALSE
        BY DEF ChainExclusive
    <2>1. Chain(p) \in Regions
        BY ChainIsRegion, RegionsDistinct DEF LockInv, Owns
    <2> QED
        BY <2>1 DEF LockInv, Owns, Exclusive
<1>2. FreeExclusive
    BY RegionsDistinct DEF LockInv, Owns, Exclusive, FreeExclusive
<1>3. AppendExclusive
    BY RegionsDistinct DEF LockInv, Owns, Exclusive, AppendExclusive, At
<1> QED
    BY <1>1, <1>2, <1>3

\* db_delete, db_store and db_fetch keep out of each other's way on a chain.
THEOREM ChainsExcluded == Spec => []ChainExclusive
<1> QED
    BY Exclusion, LocksHeld, PTL

\* A change of the free list excludes every other use of it, db_nextrec's too.
THEOREM FreeListExcluded == Spec => []FreeExclusive
<1> QED
    BY Exclusion, LocksHeld, PTL

\* Two processes never append to the same file at the same place.
THEOREM AppendsExcluded == Spec => []AppendExclusive
<1> QED
    BY Exclusion, LocksHeld, PTL

-----------------------------------------------------------------------------
(* Types.  Only the exclusion of appends keeps "the end of the file" true    *)
(* between the lseek and the write, so TypeOK rests on LockInv.              *)

\* A write at most at the end of a file changes one record of it.
LEMMA PutSeq ==
    ASSUME NEW S, NEW s \in Seq(S), NEW x \in S, NEW i \in 1 .. Len(s) + 1
    PROVE  /\ Put(s, i, x) \in Seq(S)
           /\ Len(Put(s, i, x)) = IF i = Len(s) + 1 THEN Len(s) + 1 ELSE Len(s)
           /\ Put(s, i, x)[i] = x
           /\ \A j \in 1 .. Len(s) : j # i => Put(s, i, x)[j] = s[j]
<1>1. CASE i = Len(s) + 1
    BY <1>1 DEF Put
<1>2. CASE i # Len(s) + 1
    <2>1. Put(s, i, x) = [s EXCEPT ![i] = x] /\ i \in 1 .. Len(s)
        BY <1>2 DEF Put
    <2> QED
        BY <1>2, <2>1
<1> QED
    BY <1>1, <1>2

\* Offsets as numbers: where the records are, and what a record contains.
LEMMA FileFacts ==
    ASSUME FilesOK
    PROVE  /\ NHash \in Nat /\ FirstRec = NHash + 1
           /\ Len(idx) \in Nat /\ DOMAIN idx = 1 .. Len(idx)
           /\ Len(dat) \in Nat /\ DOMAIN dat = 1 .. Len(dat)
           /\ Records = FirstRec .. FirstRec + Len(idx) - 1
           /\ IdxEnd = FirstRec + Len(idx) /\ DatEnd = Len(dat) + 1
           /\ Ptrs \subseteq Nat /\ Header \cap Records = {}
           /\ \A o \in Records : RecAt(o) = idx[o - NHash] /\ o - NHash \in 1 .. Len(idx) /\ RecAt(o) \in IdxRecord
           /\ \A i \in DOMAIN dat : dat[i] \in DatRecord
<1>1. NHash \in Nat /\ FirstRec = NHash + 1
    BY ParamAssumption DEF FirstRec
<1>2. Len(idx) \in Nat /\ DOMAIN idx = 1 .. Len(idx) /\ Len(dat) \in Nat /\ DOMAIN dat = 1 .. Len(dat)
    BY DEF FilesOK
<1>3. IdxEnd = FirstRec + Len(idx) /\ DatEnd = Len(dat) + 1
    BY <1>2 DEF IdxEnd, DatEnd
<1>4. Records = FirstRec .. FirstRec + Len(idx) - 1
    BY <1>1, <1>2, <1>3 DEF Records
<1>5. Ptrs \subseteq Nat /\ Header \cap Records = {}
    BY <1>1, <1>2, <1>4 DEF Ptrs, Header
<1>6. \A o \in Records : o - NHash \in 1 .. Len(idx)
    BY <1>1, <1>2, <1>4
<1>7. (\A i \in 1 .. Len(idx) : idx[i] \in IdxRecord) /\ \A i \in 1 .. Len(dat) : dat[i] \in DatRecord
    BY DEF FilesOK
<1> QED
    BY <1>1, <1>2, <1>3, <1>4, <1>5, <1>6, <1>7 DEF RecAt

\* The files grow: what was a record, or an offset, stays one.
Grown == /\ Ptrs \subseteq Ptrs' /\ Records \subseteq Records' /\ DOMAIN dat \subseteq DOMAIN dat'
         /\ Len(idx) <= Len(idx') /\ Len(dat) <= Len(dat')

\* Files that got no shorter have the offsets they had.
LEMMA GrownByLen ==
    ASSUME FilesOK, Len(idx') \in Nat, Len(dat') \in Nat, DOMAIN dat' = 1 .. Len(dat'),
           Len(idx) <= Len(idx'), Len(dat) <= Len(dat')
    PROVE  Grown
BY FileFacts DEF Grown, Ptrs, Records, IdxEnd, FirstRec

\* Writing an index record inside the file or at its end leaves a good file.
LEMMA WriteIdxAt ==
    ASSUME FilesOK, NEW i \in 1 .. Len(idx) + 1, NEW r \in IdxRecord, r.ptr \in Ptrs,
           r.datoff \in DOMAIN dat, idx' = Put(idx, i, r), UNCHANGED <<hdr, dat>>
    PROVE  /\ FilesOK' /\ Grown
           /\ Len(idx') = IF i = Len(idx) + 1 THEN Len(idx) + 1 ELSE Len(idx)
<1>1. idx \in Seq(IdxRecord)
    BY DEF FilesOK
<1>2. /\ idx' \in Seq(IdxRecord)
      /\ Len(idx') = IF i = Len(idx) + 1 THEN Len(idx) + 1 ELSE Len(idx)
      /\ idx'[i] = r
      /\ \A j \in 1 .. Len(idx) : j # i => idx'[j] = idx[j]
    BY <1>1, PutSeq
<1>3. Grown
    BY <1>2, FileFacts, GrownByLen
<1>4. ASSUME NEW j \in DOMAIN idx' PROVE idx'[j].ptr \in Ptrs /\ idx'[j].datoff \in DOMAIN dat
    <2>1. j = i \/ (j \in DOMAIN idx /\ j # i)
        BY <1>2, <1>4, FileFacts
    <2> QED
        BY <1>2, <2>1, FileFacts DEF FilesOK
<1> QED
    BY <1>2, <1>3, <1>4 DEF FilesOK, Grown

\* _db_writeptr of a good pointer to a good field leaves a good file.
LEMMA WritePtrOK ==
    ASSUME FilesOK, NEW o \in Header \cup Records, NEW v \in Ptrs, WritePtr(o, v)
    PROVE  FilesOK' /\ Grown /\ Len(idx') = Len(idx) /\ dat' = dat
<1>1. CASE o \in Header
    <2>1. idx' = idx /\ dat' = dat /\ hdr' = [hdr EXCEPT ![o] = v] /\ Ptrs' = Ptrs
        BY <1>1 DEF WritePtr, Ptrs, Records, IdxEnd
    <2> QED
        BY <1>1, <2>1, FileFacts, GrownByLen DEF FilesOK
<1>2. CASE o \in Records
    <2> DEFINE i == o - NHash
               r == [idx[i] EXCEPT !.ptr = v]
    <2>1. i \in 1 .. Len(idx) /\ idx[i] \in IdxRecord /\ v \in Nat /\ o \notin Header
        BY <1>2, FileFacts
    <2>2. hdr' = hdr /\ dat' = dat /\ idx' = [idx EXCEPT ![i].ptr = v]
        BY <2>1 DEF WritePtr
    <2>3. idx' = Put(idx, i, r) /\ i # Len(idx) + 1
        <3>1. i # Len(idx) + 1
            BY <2>1, FileFacts
        <3>2. idx' = [idx EXCEPT ![i] = r]
            BY <2>2
        <3> QED
            BY <3>1, <3>2 DEF Put
    <2>4. r \in IdxRecord /\ r.ptr = v /\ r.datoff = idx[i].datoff
        BY <2>1 DEF IdxRecord
    <2>5. r.datoff \in DOMAIN dat
        BY <2>1, <2>4, FileFacts DEF FilesOK
    <2>6. i \in 1 .. Len(idx) + 1
        BY <2>1, FileFacts
    <2> HIDE DEF r, i
    <2> QED
        BY <2>2, <2>3, <2>4, <2>5, <2>6, WriteIdxAt
<1> QED
    BY <1>1, <1>2

\* _db_writedat inside the data file or at its end leaves good files.
LEMMA WriteDatOK ==
    ASSUME FilesOK, NEW f, f.datoff \in DOMAIN dat \/ f.datoff = DatEnd, f.datlen \in Nat,
           NEW v \in Vals \cup {Blank}, WriteDat(f, v)
    PROVE  /\ FilesOK' /\ Grown /\ idx' = idx
           /\ Len(dat') = IF f.datoff = DatEnd THEN Len(dat) + 1 ELSE Len(dat)
<1> DEFINE r == [val |-> v, len |-> f.datlen]
<1>1. dat' = Put(dat, f.datoff, r) /\ hdr' = hdr /\ idx' = idx
    BY DEF WriteDat
<1>2. r \in DatRecord /\ dat \in Seq(DatRecord) /\ f.datoff \in 1 .. Len(dat) + 1
    BY FileFacts DEF DatRecord, FilesOK
<1> HIDE DEF r
<1>3. /\ dat' \in Seq(DatRecord)
      /\ Len(dat') = IF f.datoff = Len(dat) + 1 THEN Len(dat) + 1 ELSE Len(dat)
    BY <1>1, <1>2, PutSeq
<1>4. Grown
    BY <1>1, <1>3, FileFacts, GrownByLen
<1> QED
    BY <1>1, <1>3, <1>4, FileFacts DEF FilesOK, Grown, Ptrs, Records, IdxEnd

\* _db_writeidx inside the index file or at its end leaves good files.
LEMMA WriteIdxOK ==
    ASSUME FilesOK, NEW f, f.idxoff \in Records \/ f.idxoff = IdxEnd,
           f.datoff \in DOMAIN dat, f.datlen \in Nat,
           NEW k \in Keys \cup {Blank}, NEW n \in Nat, NEW ptr \in Ptrs, WriteIdx(f, k, n, ptr)
    PROVE  /\ FilesOK' /\ Grown /\ dat' = dat
           /\ Len(idx') = IF f.idxoff = IdxEnd THEN Len(idx) + 1 ELSE Len(idx)
<1> DEFINE r == [key |-> k, klen |-> n, datoff |-> f.datoff, datlen |-> f.datlen, ptr |-> ptr]
           i == f.idxoff - NHash
<1>1. r \in IdxRecord /\ r.ptr \in Ptrs /\ r.datoff \in DOMAIN dat
    <2>1. f.datoff \in Nat /\ ptr \in Nat
        BY FileFacts
    <2> QED
        BY <2>1 DEF IdxRecord
<1>2. i \in 1 .. Len(idx) + 1 /\ (i = Len(idx) + 1 <=> f.idxoff = IdxEnd)
    <2>1. /\ NHash \in Nat /\ Len(idx) \in Nat /\ IdxEnd = NHash + 1 + Len(idx)
          /\ Records = NHash + 1 .. NHash + Len(idx)
        BY FileFacts
    <2> QED
        BY <2>1
<1>3. idx' = Put(idx, i, r) /\ UNCHANGED <<hdr, dat>>
    BY DEF WriteIdx
<1> HIDE DEF r, i
<1> QED
    BY <1>1, <1>2, <1>3, WriteIdxAt

\* Offsets that were good in a file are good in a longer one.
LEMMA HandlesGrow ==
    ASSUME FilesOK, FilesOK', Grown
    PROVE  Handles \subseteq Handles' /\ IdxEnd <= IdxEnd'
<1>1. IdxEnd \in Nat /\ IdxEnd' \in Nat /\ IdxEnd <= IdxEnd'
    <2>1. NHash \in Nat /\ FirstRec = NHash + 1 /\ Len(idx) \in Nat
        BY FileFacts
    <2>2. Len(idx') \in Nat
        BY DEF FilesOK
    <2> QED
        BY <2>1, <2>2 DEF Grown, IdxEnd
<1>2. FirstRec .. IdxEnd \subseteq FirstRec .. IdxEnd'
    <2>1. FirstRec \in Nat
        BY FileFacts
    <2> QED
        BY <1>1, <2>1
<1> QED
    BY <1>1, <1>2 DEF Grown, Handles

\* The handle of a process stays good as others step, except that nobody may
\* move the end of a file from under a process that has found it.
LEMMA HandleStays ==
    ASSUME FilesOK, FilesOK', Grown, NEW q \in Procs, HandleOK(q),
           pc'[q] = pc[q], h'[q] = h[q],
           At(q, "newdat") => Len(dat') = Len(dat),
           At(q, "newidx") => Len(idx') = Len(idx)
    PROVE  HandleOK(q)'
BY HandlesGrow DEF HandleOK, At, Grown, DatEnd, IdxEnd

\* What a step of p does to the files and the other handles.
FileStep(p) ==
    /\ FilesOK' /\ Grown
    /\ Len(dat') # Len(dat) => At(p, "newdat")
    /\ Len(idx') # Len(idx) => At(p, "newidx")
    /\ DOMAIN h' = Procs
    /\ \A q \in Procs \ {p} : h'[q] = h[q]
    /\ left' \in [Procs -> Nat]

\* Steps that write nothing leave the files as they are.
LEMMA FilesStay ==
    ASSUME FilesOK, UNCHANGED files
    PROVE  FilesOK' /\ Grown /\ Len(idx') = Len(idx) /\ Len(dat') = Len(dat)
BY FileFacts, GrownByLen DEF files, FilesOK, Ptrs, Records, IdxEnd

\* A returned call leaves a good handle.
LEMMA ReturnOK ==
    ASSUME FilesOK, FilesOK', Grown, NEW p \in Procs, HandleOK(p), DOMAIN h = Procs,
           NEW x \in Seq(Vals \cup Keys \cup {Blank, -1, 0, 1}),
           NEW pos \in {0} \cup (FirstRec .. IdxEnd), NEW B, pc \in [Procs -> AllLabels],
           Return(p, x, pos, B)
    PROVE  HandleOK(p)'
<1>1. h'[p] = [NewHandle EXCEPT !.pos = pos, !.rc = x]
    BY DEF Return
<1>2. h'[p] \in Handles
    <2>1. 0 \in Ptrs /\ 0 \in Header
        BY ParamAssumption DEF Ptrs, Header
    <2>2. h'[p] = [off |-> 0, ptroff |-> 0, ptrval |-> 0, idxoff |-> 0, datoff |-> 0,
                   datlen |-> 0, key |-> Blank, pos |-> pos, head |-> 0, rc |-> x]
        BY <1>1 DEF NewHandle
    <2> QED
        BY <2>1, <2>2 DEF Handles
<1>3. pc'[p] = "idle"
    BY DEF Return, Goto
<1> QED
    BY <1>2, <1>3, HandlesGrow DEF HandleOK, At, HasDat, HasIdx

\* _db_readidx of a record leaves a good handle.
LEMMA LoadedOK ==
    ASSUME FilesOK, NEW f \in Handles, NEW o \in Records
    PROVE  /\ Loaded(f, o) \in Handles
           /\ Loaded(f, o).idxoff = o /\ Loaded(f, o).datoff \in DOMAIN dat
           /\ Loaded(f, o).off = f.off /\ Loaded(f, o).ptrval \in Ptrs
<1>1. RecAt(o) \in IdxRecord /\ RecAt(o).ptr \in Ptrs /\ RecAt(o).datoff \in DOMAIN dat
    BY FileFacts DEF FilesOK
<1>2. o \in Nat /\ o + 1 \in FirstRec .. IdxEnd
    BY FileFacts
<1> QED
    BY <1>1, <1>2 DEF Loaded, Handles, IdxRecord

\* Each step of p leaves good files and a good handle of its own, and moves
\* the end of a file only as the one process that may.
LEMMA StepTypes ==
    ASSUME Types, TypeOK, NEW p \in Procs, Owns(p), Begin(p) \/ Step(p)
    PROVE  FileStep(p) /\ HandleOK(p)'
<1> USE DEF At, Goto, SameCall, SetHandle
<1>1. /\ FilesOK /\ HandleOK(p) /\ h[p] \in Handles
      /\ pc \in [Procs -> AllLabels] /\ DOMAIN h = Procs
      /\ left \in [Procs -> Nat]
    BY DEF TypeOK, HandleOK
<1>2. pc[p] \in InChain \cup Writes \cup {"fetch"} => call[p] \in Requests /\ Chain(p) \in Header
    BY ChainIsRegion DEF Owns, Chains, Header, AllOps, InChain, InFree
<1>3. /\ pc[p] \in Storing => call[p].val \in Vals /\ DatLen[call[p].val] \in Nat
      /\ pc[p] \in Storing \cup Deleting => call[p].key \in Keys /\ KeyLen[call[p].key] \in Nat
    BY <1>2, ParamAssumption
    DEF Owns, Requests, Storing, Deleting, Writes, Stores, InChain, InFree
<1>4. \A o \in Header : ReadPtr(o) \in Ptrs
    BY <1>1 DEF ReadPtr, FilesOK
<1>5. h[p].off # 0 => h[p].off \in Records
    BY <1>1 DEF Handles, Ptrs
<1>6. FREE_OFF \in Header /\ 0 \in Header
    BY ParamAssumption DEF FREE_OFF, Header
<1>7. \A x \in Keys \cup Vals \cup {Blank, -1, 0, 1} : <<x>> \in Seq(Vals \cup Keys \cup {Blank, -1, 0, 1})
    OBVIOUS
<1> USE DEF HasIdx, HasDat
\* Steps that leave the files and the handle alone.
<1>8. CASE NoneFree(p) \/ NextRec(p) \/ LinkInvalid(p) \/ ScanLost(p)
    <2>1. UNCHANGED <<files, h, left>> /\ pc' \in [Procs -> AllLabels]
          /\ pc'[p] \in {"locknewdat", "scan", "exited"}
        BY <1>1, <1>8 DEF NoneFree, NextRec, LinkInvalid, ScanLost, Exit, AllLabels, InChain, InScan
    <2> QED
        BY <1>1, <2>1, FilesStay DEF FileStep, HandleOK, Handles, Grown, files, Ptrs, Records, IdxEnd
\* Steps that leave the files alone and set the handle.
<1>9. ASSUME UNCHANGED files, NEW f, f \in Handles, h' = [h EXCEPT ![p] = f], left' \in [Procs -> Nat],
             pc'[p] \in HasDat => f.datoff \in DOMAIN dat,
             pc'[p] \in HasIdx => f.idxoff \in Records,
             pc'[p] = "newdat" => f.datoff = DatEnd,
             pc'[p] = "newidx" => f.idxoff = IdxEnd
      PROVE  FileStep(p) /\ HandleOK(p)'
    BY <1>1, <1>9, FilesStay, HandlesGrow DEF FileStep, HandleOK, Grown, files, DatEnd, IdxEnd
<1>10. CASE Begin(p)
    <2>1. /\ h' = [h EXCEPT ![p] = [h[p] EXCEPT !.rc = <<>>]] /\ UNCHANGED files
          /\ left' \in [Procs -> Nat] /\ pc'[p] \in AllOps
        BY <1>1, <1>10 DEF Begin, Requests
    <2>2. [h[p] EXCEPT !.rc = <<>>] \in Handles
        <3>1. <<>> \in Seq(Vals \cup Keys \cup {Blank, -1, 0, 1})
            OBVIOUS
        <3> QED
            BY <1>1, <3>1 DEF Handles
    <2> QED
        BY <1>9, <2>1, <2>2 DEF AllOps, Writes, Stores
<1>11. CASE LockChain(p)
    <2>1. [h[p] EXCEPT !.ptroff = Chain(p), !.off = ReadPtr(Chain(p)), !.pos = 0] \in Handles
        BY <1>1, <1>2, <1>4, <1>11 DEF LockChain, Handles
    <2> QED
        BY <1>1, <1>9, <1>11, <2>1 DEF LockChain
<1>12. CASE WalkOn(p) \/ FreeWalkOn(p)
    <2> DEFINE f == Loaded(h[p], h[p].off)
    <2>1. h[p].off \in Records
        BY <1>5, <1>12 DEF WalkOn, FreeWalkOn
    <2>2. f \in Handles /\ f.off \in Records /\ f.ptrval \in Ptrs
        BY <1>1, <2>1, LoadedOK
    <2>3. [f EXCEPT !.ptroff = f.off, !.off = f.ptrval] \in Handles
        BY <2>2 DEF Handles
    <2> QED
        BY <1>1, <1>9, <1>12, <2>3 DEF WalkOn, FreeWalkOn
<1>13. CASE Found(p) \/ FreeFound(p) \/ ScanOn(p)
    <2>1. PICK o \in Records : h' = [h EXCEPT ![p] = Loaded(h[p], o)]
        <3>1. CASE Found(p) \/ FreeFound(p)
            BY <1>5, <3>1 DEF Found, FreeFound, Matches, Fits
        <3>2. CASE ScanOn(p)
            <4>1. h[p].pos \in {0} \cup (FirstRec .. IdxEnd) /\ h[p].pos # 0 /\ h[p].pos # IdxEnd
                BY <1>1, <3>2 DEF ScanOn, Handles
            <4>2. /\ FirstRec \in Nat /\ Len(idx) \in Nat /\ IdxEnd = FirstRec + Len(idx)
                  /\ Records = FirstRec .. FirstRec + Len(idx) - 1
                BY <1>1, FileFacts
            <4>3. h[p].pos \in Records
                BY <4>1, <4>2
            <4> QED
                BY <3>2, <4>3 DEF ScanOn
        <3> QED
            BY <1>13, <3>1, <3>2
    <2>2. /\ Loaded(h[p], o) \in Handles /\ Loaded(h[p], o).idxoff \in Records
          /\ Loaded(h[p], o).datoff \in DOMAIN dat
        BY <1>1, LoadedOK
    <2>3. UNCHANGED <<files, left>> /\ pc'[p] \notin {"newdat", "newidx"}
        BY <1>1, <1>13 DEF Found, FreeFound, ScanOn
    <2> QED
        BY <1>1, <1>9, <2>1, <2>2, <2>3
<1>14. CASE StartFree(p) \/ Reread(p)
    <2>1. /\ [h[p] EXCEPT !.head = ReadPtr(Chain(p)), !.ptroff = FREE_OFF, !.off = ReadPtr(FREE_OFF)] \in Handles
          /\ [h[p] EXCEPT !.head = ReadPtr(Chain(p))] \in Handles
        BY <1>1, <1>2, <1>4, <1>6, <1>14 DEF StartFree, Reread, Handles, InChain
    <2> QED
        BY <1>1, <1>9, <1>14, <2>1 DEF StartFree, Reread
<1>15. CASE LockNewDat(p)
    <2>1. DatEnd \in Nat /\ DatLen[call[p].val] \in Nat
        BY <1>1, <1>3, <1>15, FileFacts DEF LockNewDat, Storing
    <2>2. [h[p] EXCEPT !.datoff = DatEnd, !.datlen = DatLen[call[p].val]] \in Handles
        BY <1>1, <2>1 DEF Handles
    <2> QED
        BY <1>1, <1>9, <1>15, <2>2 DEF LockNewDat, Handles
<1>16. CASE LockNewIdx(p)
    <2>1. IdxEnd \in Nat /\ h[p].datoff \in DOMAIN dat
        BY <1>1, <1>16, FileFacts DEF LockNewIdx, HandleOK
    <2>2. [h[p] EXCEPT !.idxoff = IdxEnd] \in Handles
        BY <1>1, <2>1 DEF Handles
    <2> QED
        BY <1>1, <1>9, <1>16, <2>1, <2>2 DEF LockNewIdx, Handles
<1>17. CASE Rewind(p)
    <2>1. FirstRec \in FirstRec .. IdxEnd
        BY <1>1, FileFacts
    <2>2. [h[p] EXCEPT !.pos = FirstRec] \in Handles
        BY <1>1, <2>1 DEF Handles
    <2> QED
        BY <1>1, <1>9, <1>17, <2>2 DEF Rewind
\* Steps that end a call.
<1>18. ASSUME FilesOK', Grown, NEW x \in Seq(Vals \cup Keys \cup {Blank, -1, 0, 1}),
              NEW pos \in {0} \cup (FirstRec .. IdxEnd), NEW B, Return(p, x, pos, B),
              Len(idx') = Len(idx), Len(dat') = Len(dat)
       PROVE  FileStep(p) /\ HandleOK(p)'
    BY <1>1, <1>18, ReturnOK DEF FileStep, Return
<1>19. h[p].pos \in {0} \cup (FirstRec .. IdxEnd)
    BY <1>1 DEF Handles
<1>20. CASE FoundInsert(p)
    <2>1. h[p].off + 1 \in FirstRec .. IdxEnd
        BY <1>1, <1>5, <1>20, FileFacts DEF FoundInsert, Matches
    <2> QED
        BY <1>1, <1>7, <1>18, <1>20, <2>1, FilesStay DEF FoundInsert
<1>21. CASE NotFound(p)
    BY <1>1, <1>7, <1>18, <1>19, <1>21, FilesStay DEF NotFound
<1>22. CASE ReadDat(p)
    <2>1. dat[h[p].datoff].val \in Vals \cup {Blank}
        BY <1>1, <1>22, FileFacts DEF ReadDat, HandleOK, DatRecord
    <2> QED
        BY <1>1, <1>7, <1>18, <1>19, <1>22, <2>1, FilesStay DEF ReadDat
<1>23. CASE ScanEnd(p)
    BY <1>1, <1>7, <1>18, <1>19, <1>23, FilesStay DEF ScanEnd
<1>24. CASE ScanDat(p)
    <2>1. dat[h[p].datoff].val \in Vals \cup {Blank} /\ h[p].key \in Keys \cup {Blank}
        BY <1>1, <1>24, FileFacts DEF ScanDat, HandleOK, Handles, DatRecord
    <2>2. <<h[p].key, dat[h[p].datoff].val>> \in Seq(Vals \cup Keys \cup {Blank, -1, 0, 1})
        BY <2>1
    <2> QED
        BY <1>1, <1>18, <1>19, <1>24, <2>2, FilesStay DEF ScanDat
\* Writes to the data file.
<1>25. CASE DelDat(p) \/ ReuseDat(p) \/ Overwrite(p) \/ NewDat(p)
    <2>1. /\ h[p].datlen \in Nat
          /\ IF pc[p] = "newdat" THEN h[p].datoff = DatEnd ELSE h[p].datoff \in DOMAIN dat
        BY <1>1, <1>25 DEF DelDat, ReuseDat, Overwrite, NewDat, HandleOK, Handles
    <2>2. PICK v \in Vals \cup {Blank} : WriteDat(h[p], v)
        BY <1>3, <1>25 DEF DelDat, ReuseDat, Overwrite, NewDat, Storing
    <2>3. /\ FilesOK' /\ Grown /\ idx' = idx
          /\ Len(dat') = IF h[p].datoff = DatEnd THEN Len(dat) + 1 ELSE Len(dat)
        BY <1>1, <2>1, <2>2, WriteDatOK
    <2>4. pc[p] # "newdat" => Len(dat') = Len(dat)
        <3>1. h[p].datoff \in DOMAIN dat => h[p].datoff # DatEnd
            BY <1>1, FileFacts
        <3> QED
            BY <2>1, <2>3, <3>1
    <2>5. CASE Overwrite(p)
        BY <1>7, <1>18, <1>19, <2>3, <2>4, <2>5 DEF Overwrite
    <2>6. CASE ~Overwrite(p)
        <3>1. /\ UNCHANGED <<h, left>>
              /\ \/ pc[p] = "newdat" /\ pc'[p] = "locknewidx"
                 \/ pc[p] = "deldat" /\ pc'[p] = "delidx"
                 \/ pc[p] = "reusedat" /\ pc'[p] = "reuseidx"
            BY <1>1, <1>25, <2>6 DEF DelDat, ReuseDat, NewDat
        <3>2. h[p].datoff \in DOMAIN dat'
            BY <1>1, <2>1, <2>3, FileFacts DEF Grown, FilesOK
        <3> QED
            BY <1>1, <2>3, <2>4, <3>1, <3>2, HandlesGrow DEF FileStep, HandleOK, Grown
    <2> QED
        BY <2>5, <2>6
\* Writes of a record to the index file.
<1>26. CASE DelIdx(p) \/ ReuseIdx(p) \/ NewIdx(p)
    <2>1. /\ h[p].datlen \in Nat /\ h[p].head \in Ptrs /\ h[p].key \in Keys \cup {Blank}
          /\ h[p].datoff \in DOMAIN dat
          /\ IF pc[p] = "newidx" THEN h[p].idxoff = IdxEnd ELSE h[p].idxoff \in Records
        BY <1>1, <1>26 DEF DelIdx, ReuseIdx, NewIdx, HandleOK, Handles
    <2>2. PICK k \in Keys \cup {Blank}, n \in Nat, ptr \in Ptrs : WriteIdx(h[p], k, n, ptr)
        BY <1>3, <1>4, <1>6, <1>26, <2>1 DEF DelIdx, ReuseIdx, NewIdx, Storing, Deleting
    <2>3. /\ FilesOK' /\ Grown /\ dat' = dat
          /\ Len(idx') = IF h[p].idxoff = IdxEnd THEN Len(idx) + 1 ELSE Len(idx)
        BY <1>1, <2>1, <2>2, WriteIdxOK
    <2>4. pc[p] # "newidx" => Len(idx') = Len(idx)
        <3>1. h[p].idxoff \in Records => h[p].idxoff # IdxEnd
            BY <1>1, FileFacts
        <3> QED
            BY <2>1, <2>3, <3>1
    <2>5. /\ UNCHANGED <<h, left>>
          /\ \/ pc[p] = "newidx" /\ pc'[p] = "link"
             \/ pc[p] = "delidx" /\ pc'[p] = "delfree"
             \/ pc[p] = "reuseidx" /\ pc'[p] = "link"
        BY <1>1, <1>26 DEF DelIdx, ReuseIdx, NewIdx
    <2>6. h[p].idxoff \in Records'
        BY <1>1, <2>1, <2>3, FileFacts DEF Grown, Records, IdxEnd
    <2> QED
        BY <1>1, <2>1, <2>3, <2>4, <2>5, <2>6, HandlesGrow DEF FileStep, HandleOK, Grown
\* Writes of a pointer field.
<1>27. CASE DelFree(p) \/ DelUnlink(p) \/ FreeTake(p) \/ Link(p)
    <2>1. /\ h[p].ptroff \in Header \cup Records /\ h[p].ptrval \in Ptrs
          /\ h[p].idxoff \in Records /\ h[p].idxoff \in Ptrs
        BY <1>1, <1>27 DEF DelFree, DelUnlink, FreeTake, Link, HandleOK, Handles, Ptrs
    <2>2. PICK o \in Header \cup Records, v \in Ptrs : WritePtr(o, v)
        BY <1>2, <1>6, <1>27, <2>1 DEF DelFree, DelUnlink, FreeTake, Link, InChain
    <2>3. FilesOK' /\ Grown /\ Len(idx') = Len(idx) /\ dat' = dat
        BY <1>1, <2>2, WritePtrOK
    <2>4. CASE \E B : Return(p, <<0>>, 0, B)
        BY <1>7, <1>18, <2>3, <2>4
    <2>5. CASE ~\E B : Return(p, <<0>>, 0, B)
        <3>1. /\ UNCHANGED <<h, left>>
              /\ \/ pc[p] = "delfree" /\ pc'[p] = "delunlink"
                 \/ pc[p] = "delunlink" /\ pc'[p] = "reread"
                 \/ pc[p] = "freetake" /\ pc'[p] = "reusedat"
            BY <1>1, <1>27, <2>5 DEF DelFree, DelUnlink, FreeTake, Link
        <3> QED
            BY <1>1, <2>1, <2>3, <3>1, HandlesGrow DEF FileStep, HandleOK, Grown
    <2> QED
        BY <2>4, <2>5
<1> QED
    BY <1>8, <1>10, <1>11, <1>12, <1>13, <1>14, <1>15, <1>16, <1>17, <1>20, <1>21, <1>22, <1>23,
       <1>24, <1>25, <1>26, <1>27
    DEF Step, Find, Delete, FindFree, Store, Scan

\* The files that db_open finds are good.
LEMMA TypeInit == Init => TypeOK
<1> SUFFICES ASSUME Init PROVE TypeOK
    OBVIOUS
<1>1. Len(Preload) \in Nat /\ DOMAIN Preload = 1 .. Len(Preload) /\ NHash \in Nat \ {0}
    BY ParamAssumption
<1>2. /\ DOMAIN idx = 1 .. Len(Preload) /\ DOMAIN dat = 1 .. Len(Preload)
      /\ Len(idx) = Len(Preload)
    BY <1>1 DEF Init
<1>3. Ptrs = {0} \cup (NHash + 1 .. NHash + Len(Preload))
    BY <1>1, <1>2 DEF Ptrs, Records, IdxEnd, FirstRec
<1>4. ASSUME NEW S \in SUBSET DOMAIN Preload PROVE LastRec(S) \in Ptrs
    BY <1>1, <1>3 DEF LastRec
<1>5. \A i \in DOMAIN Preload : /\ Preload[i].key \in Keys /\ Preload[i].val \in Vals
                                /\ KeyLen[Preload[i].key] \in Nat /\ DatLen[Preload[i].val] \in Nat
    <2>1. \A i \in DOMAIN Preload : Preload[i] \in [key : Keys, val : Vals, deleted : BOOLEAN]
        <3> DEFINE R == [key : Keys, val : Vals, deleted : BOOLEAN]
        <3>1. Preload \in Seq(R)
            BY ParamAssumption
        <3> HIDE DEF R
        <3>2. \A i \in DOMAIN Preload : Preload[i] \in R
            BY <3>1
        <3> QED
            BY <3>2 DEF R
    <2> QED
        BY <2>1, ParamAssumption
<1>6. hdr \in [Header -> Ptrs]
    BY <1>4 DEF Init
<1>7. \A i \in DOMAIN idx : idx[i] \in IdxRecord /\ idx[i].ptr \in Ptrs /\ idx[i].datoff \in DOMAIN dat
    <2> SUFFICES ASSUME NEW i \in DOMAIN Preload
                 PROVE  idx[i] \in IdxRecord /\ idx[i].ptr \in Ptrs /\ idx[i].datoff \in DOMAIN dat
        BY <1>1, <1>2
    <2> DEFINE S == {j \in 1 .. i - 1 : ListOf(j) = ListOf(i)}
    <2>1. S \in SUBSET DOMAIN Preload
        BY <1>1
    <2>2. LastRec(S) \in Ptrs /\ LastRec(S) \in Nat
        BY <1>1, <1>3, <1>4, <2>1
    <2>3. idx[i] = [key |-> IF Preload[i].deleted THEN Blank ELSE Preload[i].key,
                    klen |-> KeyLen[Preload[i].key], datoff |-> i,
                    datlen |-> DatLen[Preload[i].val], ptr |-> LastRec(S)]
        BY DEF Init
    <2> HIDE DEF S
    <2> QED
        BY <1>1, <1>2, <1>5, <2>2, <2>3 DEF IdxRecord
<1>8. \A i \in DOMAIN dat : dat[i] \in DatRecord
    BY <1>1, <1>2, <1>5 DEF Init, DatRecord
<1>9. FilesOK
    <2>1. idx \in Seq(IdxRecord)
        BY <1>1, <1>2, <1>7 DEF Init
    <2>2. dat \in Seq(DatRecord)
        BY <1>1, <1>2, <1>8 DEF Init
    <2> QED
        BY <1>6, <1>7, <2>1, <2>2 DEF FilesOK
<1>10. \A p \in Procs : HandleOK(p)
    <2>1. FirstRec \in FirstRec .. IdxEnd
        BY <1>9, FileFacts
    <2>2. NewHandle \in Handles
        <3>1. 0 \in Ptrs /\ 0 \in Header /\ <<>> \in Seq(Vals \cup Keys \cup {Blank, -1, 0, 1})
            BY <1>1 DEF Ptrs, Header
        <3> QED
            BY <2>1, <3>1 DEF NewHandle, Handles
    <2> QED
        BY <2>2 DEF Init, HandleOK, At, HasDat, HasIdx
<1> QED
    BY <1>9, <1>10, LockInvInit, ParamAssumption DEF Init, TypeOK, LockInv, Types

\* Every file operation keeps the types, given the locks.
LEMMA TypeNext == LockInv /\ TypeOK /\ [Next]_vars => TypeOK'
<1> SUFFICES ASSUME LockInv, TypeOK, [Next]_vars PROVE TypeOK'
    OBVIOUS
<1>1. ASSUME NEW p \in Procs, Begin(p) \/ Step(p) PROVE TypeOK'
    <2>1. Types' /\ OthersStay(p)
        BY <1>1, StepOwns DEF LockInv
    <2>2. FileStep(p) /\ HandleOK(p)'
        BY <1>1, StepTypes DEF LockInv
    <2>3. ASSUME NEW q \in Procs \ {p} PROVE HandleOK(q)'
        <3>1. pc'[q] = pc[q] /\ h'[q] = h[q]
            BY <2>1, <2>2 DEF OthersStay, FileStep
        <3>2. /\ At(q, "newdat") => ~At(p, "newdat")
              /\ At(q, "newidx") => ~At(p, "newidx")
            BY <2>3, RegionsDistinct DEF LockInv, Owns, Exclusive, At
        <3> QED
            BY <2>2, <3>1, <3>2, HandleStays DEF FileStep, TypeOK
    <2> QED
        BY <2>1, <2>2, <2>3 DEF TypeOK, Types, FileStep
<1>2. CASE UNCHANGED vars
    BY <1>2 DEF TypeOK, FilesOK, HandleOK, Handles, At, Ptrs, Records, IdxEnd, DatEnd, vars, files, locks
<1> QED
    BY <1>1, <1>2 DEF Next

\* Every pointer, offset and position in the files and in the handles stays in
\* its range: no access is ever outside the files or between their records.
THEOREM TypesCorrect == Spec => []TypeOK
<1>1. Init => LockInv /\ TypeOK
    BY LockInvInit, TypeInit
<1>2. LockInv /\ TypeOK /\ [Next]_vars => (LockInv /\ TypeOK)'
    BY LockInvNext, TypeNext
<1> QED
    BY <1>1, <1>2, PTL DEF Spec

-----------------------------------------------------------------------------
(* Lists in the files. *)

Dying(p)     == pc[p] \in {"delfree", "delunlink"}
Holding(p)   == pc[p] \in {"reusedat", "reuseidx", "link"}
Killed(o, p) == Dying(p) /\ h[p].idxoff = o

\* A record is on the chain of its key, the one that is being deleted until it
\* is unlinked; the free list has the deleted records.
Belongs(o, c) ==
    /\ ~InHand(o)
    /\ IF RecAt(o).key # Blank THEN Hash[RecAt(o).key] = c
       ELSE IF c = FREE_OFF THEN \A p \in Procs : At(p, "delfree") => h[p].idxoff # o
       ELSE \E p \in Procs : Killed(o, p) /\ Chain(p) = c

\* l is what the files have from header field c.
IsList(c, l) ==
    /\ l.set = {o \in Records : Belongs(o, c)}
    /\ \A o \in l.set :
          /\ c = FREE_OFF \/ RecAt(o).key # Blank => l.next[o] = RecAt(o).ptr
          /\ \A p \in Procs : Killed(o, p) /\ Chain(p) = c => l.next[o] = h[p].ptrval
    /\ Ranked(hdr[c], l)

Lists(L) == L \in [Header -> ListShape] /\ \A c \in Header : IsList(c, L[c])

\* The pointer field a of list l, from header field c, is the one that leads to o.
Leads(c, l, a, o) == a \in {c} \cup (l.set \ {o}) /\ ReadPtr(a) = o

HasRecord(p) ==
    /\ h[p].datoff = RecAt(h[p].idxoff).datoff
    /\ h[p].datlen = RecAt(h[p].idxoff).datlen

\* What a process knows of the chain l that it has locked.
OnChain(p, l) ==
    LET c == Chain(p)  o == h[p].idxoff  lb == pc[p]  IN
    /\ lb = "walk" =>
          /\ h[p].off \in {0} \cup l.set /\ Leads(c, l, h[p].ptroff, h[p].off)
          /\ \A q \in l.set :
                RecAt(q).key = call[p].key => h[p].off # 0 /\ l.rank[q] <= l.rank[h[p].off]
    /\ lb \in {"readdat", "overwrite", "deldat", "delidx"} =>
          o \in l.set /\ RecAt(o).key = call[p].key /\ HasRecord(p)
    /\ lb = "overwrite" => h[p].datlen = DatLen[call[p].val]
    /\ lb \in {"deldat", "delidx"} => h[p].ptrval = RecAt(o).ptr
    /\ lb \in {"deldat", "delidx", "delfree", "delunlink"} => Leads(c, l, h[p].ptroff, o)
    /\ lb \in {"delfree", "delunlink"} => o \in l.set /\ RecAt(o).key = Blank
    /\ lb \in (Storing \ {"overwrite"}) \cup {"delfree", "delunlink"} =>
          \A q \in l.set : RecAt(q).key # call[p].key
    /\ lb \in Storing \ {"overwrite", "reread", "link"} => h[p].head = hdr[c]
    /\ lb = "link" => RecAt(o).ptr = hdr[c]

\* What it knows of the free list l.
OnFree(p, l) ==
    LET o == h[p].idxoff  lb == pc[p]  IN
    /\ lb = "delfree" => RecAt(o).ptr = hdr[FREE_OFF]
    /\ lb = "delunlink" => hdr[FREE_OFF] = o
    /\ lb = "freewalk" => h[p].off \in {0} \cup l.set /\ Leads(FREE_OFF, l, h[p].ptroff, h[p].off)
    /\ lb = "freetake" =>
          /\ o \in l.set /\ h[p].ptrval = RecAt(o).ptr /\ Leads(FREE_OFF, l, h[p].ptroff, o)
          /\ HasRecord(p) /\ h[p].datlen = DatLen[call[p].val]

\* What it has in its hands: a record out of all lists, or new data.
OwnRecord(p) ==
    LET o == h[p].idxoff  lb == pc[p]  IN
    /\ lb \in {"reusedat", "reuseidx"} =>
          /\ o <= PtrMax /\ RecAt(o).key = Blank /\ HasRecord(p)
          /\ h[p].datlen = DatLen[call[p].val]
    /\ lb = "reuseidx" => dat[h[p].datoff].val = call[p].val
    /\ lb = "link" => RecAt(o).key = call[p].key

OwnData(p) ==
    /\ pc[p] \in {"newdat", "locknewidx", "newidx"} => h[p].datlen = DatLen[call[p].val]
    /\ pc[p] \in {"locknewidx", "newidx"} =>
          /\ dat[h[p].datoff] = [val |-> call[p].val, len |-> DatLen[call[p].val]]
          /\ \A i \in DOMAIN idx : idx[i].datoff # h[p].datoff

\* What db_nextrec has read.
Scanned(p) ==
    At(p, "scandat") =>
        /\ h[p].idxoff \in Records /\ h[p].key # Blank
        /\ RecAt(h[p].idxoff).key = h[p].key /\ RecAt(h[p].idxoff).datoff = h[p].datoff

Knows(p, L) ==
    /\ pc[p] \in InChain => OnChain(p, L[Chain(p)])
    /\ OnFree(p, L[FREE_OFF]) /\ OwnRecord(p) /\ OwnData(p) /\ Scanned(p)

\* No two processes have the same record, or the same new data, in their hands.
Hands ==
    \A p, q \in Procs :
        /\ Holding(p) /\ Holding(q) /\ h[p].idxoff = h[q].idxoff => p = q
        /\ {pc[p], pc[q]} \subseteq {"locknewidx", "newidx"} /\ h[p].datoff = h[q].datoff => p = q

Files == LockInv /\ TypeOK /\ KeysUnique /\ DataOwned /\ Hands /\ ScanSound

Listed(L) == Lists(L) /\ \A p \in Procs : Knows(p, L)

HashInv == Files /\ \E L \in [Header -> ListShape] : Listed(L)

-----------------------------------------------------------------------------
(* The lists as they are read. *)

\* The elements of a list of the file, one by one.
LEMMA NthDefined ==
    ASSUME FilesOK, NEW c \in Header
    PROVE  /\ Nth(c)[0] = hdr[c]
           /\ \A n \in 0 .. Len(idx) - 1 :
                 Nth(c)[n + 1] = IF Nth(c)[n] = 0 THEN 0 ELSE RecAt(Nth(c)[n]).ptr
<1> DEFINE Follow(x) == IF x = 0 THEN 0 ELSE RecAt(x).ptr
           Is(f, N) == f = [n \in 0 .. N |-> IF n = 0 THEN hdr[c] ELSE Follow(f[n - 1])]
           T == {N \in Nat : \E f : Is(f, N)}
<1>1. Nth(c) = CHOOSE f : Is(f, Len(idx))
    BY DEF Nth
<1> HIDE DEF Follow
<1>2. 0 \in T
    <2>1. Is([n \in 0 .. 0 |-> hdr[c]], 0)
        OBVIOUS
    <2> QED
        BY <2>1
<1>3. ASSUME NEW N \in Nat, N \in T PROVE N + 1 \in T
    <2>1. PICK f : Is(f, N)
        BY <1>3
    <2> DEFINE g == [n \in 0 .. N + 1 |-> IF n = N + 1 THEN Follow(f[N]) ELSE f[n]]
    <2>2. ASSUME NEW n \in 0 .. N + 1
          PROVE  g[n] = IF n = 0 THEN hdr[c] ELSE Follow(g[n - 1])
        <3>1. CASE n = 0
            <4>1. n # N + 1 /\ n \in 0 .. N
                BY <3>1
            <4> QED
                BY <2>1, <3>1, <4>1
        <3>2. CASE n # 0
            <4>1. n - 1 \in 0 .. N /\ n - 1 # N + 1 /\ n - 1 \in 0 .. N + 1
                BY <3>2
            <4>2. g[n - 1] = f[n - 1]
                BY <4>1
            <4>3. CASE n = N + 1
                <5>1. n - 1 = N
                    BY <4>3
                <5> QED
                    BY <3>2, <4>2, <4>3, <5>1
            <4>4. CASE n # N + 1
                <5>1. n \in 0 .. N
                    BY <4>4
                <5> QED
                    BY <2>1, <3>2, <4>2, <4>4, <5>1
            <4> QED
                BY <4>3, <4>4
        <3> QED
            BY <3>1, <3>2
    <2>3. g = [n \in 0 .. N + 1 |-> g[n]]
        OBVIOUS
    <2> HIDE DEF g
    <2>4. [n \in 0 .. N + 1 |-> g[n]] = [n \in 0 .. N + 1 |-> IF n = 0 THEN hdr[c] ELSE Follow(g[n - 1])]
        BY <2>2
    <2>5. Is(g, N + 1)
        BY <2>3, <2>4
    <2> QED
        BY <2>5
<1>4. \A N \in Nat : N \in T
    <2> HIDE DEF T
    <2> QED
        BY <1>2, <1>3, Induction
<1>5. Len(idx) \in Nat
    BY FileFacts
<1>6. \E f : Is(f, Len(idx))
    BY <1>4, <1>5
<1> DEFINE w == Nth(c)
<1>7. Is(w, Len(idx))
    BY <1>1, <1>6
<1> HIDE DEF w
<1>8. \A n \in 0 .. Len(idx) : w[n] = IF n = 0 THEN hdr[c] ELSE Follow(w[n - 1])
    BY <1>7
<1>9. w[0] = hdr[c]
    BY <1>5, <1>8
<1>10. ASSUME NEW n \in 0 .. Len(idx) - 1 PROVE w[n + 1] = Follow(w[n])
    <2>1. n + 1 \in 0 .. Len(idx) /\ n + 1 # 0 /\ (n + 1) - 1 = n
        BY <1>5
    <2> QED
        BY <1>8, <2>1
<1> QED
    BY <1>9, <1>10 DEF w, Follow

-----------------------------------------------------------------------------
(* What the invariant says. *)

\* The header's fields: the free list's and the chains'.
LEMMA HeaderFacts ==
    /\ FREE_OFF = 0 /\ FREE_OFF \in Header /\ Chains \subseteq Header /\ FREE_OFF \notin Chains
    /\ \A c \in Header : c \in Nat /\ c \in Regions /\ (c = FREE_OFF \/ c \in Chains)
    /\ \A k \in Keys : Hash[k] \in Chains
BY ParamAssumption DEF FREE_OFF, Header, Chains, Regions, DatFile, FirstRec

\* A list of the file and its records.
LEMMA ListFacts ==
    ASSUME TypeOK, NEW L, Lists(L), NEW c \in Header
    PROVE  /\ L[c] \in ListShape /\ L[c].set \subseteq Records /\ 0 \notin Records /\ 0 \notin L[c].set
           /\ \A o \in Records : o \in L[c].set <=> Belongs(o, c)
           /\ Ranked(hdr[c], L[c]) /\ (hdr[c] = 0 \/ hdr[c] \in L[c].set)
           /\ \A o \in L[c].set :
                 /\ c = FREE_OFF \/ RecAt(o).key # Blank => L[c].next[o] = RecAt(o).ptr
                 /\ \A p \in Procs : Killed(o, p) /\ Chain(p) = c => L[c].next[o] = h[p].ptrval
<1>1. L[c] \in ListShape /\ IsList(c, L[c])
    BY DEF Lists
<1>2. L[c].set = {o \in Records : Belongs(o, c)} /\ Ranked(hdr[c], L[c])
    BY <1>1 DEF IsList
<1>3. 0 \notin Records
    BY FileFacts DEF TypeOK
<1>4. hdr[c] = 0 \/ hdr[c] \in L[c].set
    BY <1>2 DEF Ranked
<1> QED
    BY <1>1, <1>2, <1>3, <1>4 DEF IsList

\* A process in the middle of a delete has its chain and the free list locked.
LEMMA DyingLocks ==
    ASSUME LockInv, NEW p \in Procs, pc[p] \in Deleting
    PROVE  /\ pc[p] \in InChain /\ call[p] \in Requests /\ call[p].op \in Writes
           /\ Chain(p) \in Chains /\ p \in wr[Chain(p)]
           /\ pc[p] \in InFree => p \in wr[FREE_OFF]
BY ChainIsRegion DEF LockInv, Owns, Deleting, InChain, InFree

\* Lists that nobody changes are as they should be.
LEMMA SoundLists ==
    ASSUME LockInv, TypeOK, NEW L, Lists(L)
    PROVE  ListsSound
<1> SUFFICES ASSUME NEW c \in Header, wr[c] = {}
             PROVE  Nth(c)[Len(idx)] = 0 /\ OnList(c) = Members(c)
    BY DEF ListsSound
<1> DEFINE l == L[c]
<1>1. /\ FilesOK /\ Len(idx) \in Nat /\ NHash \in Nat
      /\ Records = NHash + 1 .. NHash + Len(idx)
    <2>1. NHash \in Nat /\ FirstRec = NHash + 1 /\ Len(idx) \in Nat /\ Records = FirstRec .. FirstRec + Len(idx) - 1
        BY FileFacts DEF TypeOK
    <2> QED
        BY <2>1 DEF TypeOK
<1>2. ASSUME NEW p \in Procs, Dying(p) PROVE Chain(p) # c /\ (At(p, "delfree") => c # FREE_OFF)
    BY <1>2, DyingLocks DEF Dying, Deleting, InFree, At
<1>3. \A o \in l.set : l.next[o] = RecAt(o).ptr
    <2> TAKE o \in l.set
    <2>1. o \in Records /\ Belongs(o, c)
        BY ListFacts
    <2>2. c = FREE_OFF \/ RecAt(o).key # Blank
        BY <1>2, <2>1 DEF Belongs, Killed
    <2> QED
        BY <2>2, ListFacts
<1>4. ASSUME NEW o \in Records PROVE Belongs(o, c) <=> o \in Members(c)
    <2>1. RecAt(o).key # Blank => Hash[RecAt(o).key] # FREE_OFF
        <3>1. RecAt(o) \in IdxRecord
            BY <1>1, FileFacts
        <3> QED
            BY <3>1, HeaderFacts DEF IdxRecord
    <2>2. CASE c = FREE_OFF
        BY <1>2, <2>1, <2>2 DEF Belongs, Members, Dying, At
    <2>3. CASE c # FREE_OFF
        BY <1>2, <2>3 DEF Belongs, Members, Killed
    <2> QED
        BY <2>2, <2>3
<1>5. l.set = Members(c)
    <2>1. Members(c) \subseteq Records
        BY DEF Members
    <2> QED
        BY <1>4, <2>1, ListFacts
<1>6. /\ l \in ListShape /\ Ranked(hdr[c], l) /\ 0 \notin l.set
      /\ l.set \subseteq NHash + 1 .. NHash + Len(idx)
    BY <1>1, ListFacts
<1> DEFINE w == Nth(c)
<1>7. /\ w[0] = hdr[c]
      /\ \A n \in 0 .. Len(idx) - 1 : w[n + 1] = IF w[n] = 0 THEN 0 ELSE RecAt(w[n]).ptr
    BY <1>1, NthDefined
<1>8. \A n \in 0 .. Len(idx) - 1 : w[n] = 0 \/ w[n] \in l.set
    <2> DEFINE T == {n \in Nat : n <= Len(idx) - 1 => w[n] = 0 \/ w[n] \in l.set}
    <2> HIDE DEF l, w
    <2>1. 0 \in T
        BY <1>6, <1>7 DEF Ranked
    <2>2. ASSUME NEW n \in Nat, n \in T PROVE n + 1 \in T
        <3> SUFFICES ASSUME n + 1 <= Len(idx) - 1 PROVE w[n + 1] = 0 \/ w[n + 1] \in l.set
            OBVIOUS
        <3>1. n \in 0 .. Len(idx) - 1 /\ (w[n] = 0 \/ w[n] \in l.set)
            BY <1>1, <2>2
        <3>2. w[n] \in l.set => l.next[w[n]] = 0 \/ l.next[w[n]] \in l.set
            BY <1>6 DEF Ranked
        <3> QED
            BY <1>3, <1>7, <3>1, <3>2
    <2> HIDE DEF T
    <2>3. \A n \in Nat : n \in T
        BY <2>1, <2>2, Induction
    <2> QED
        BY <1>1, <2>3 DEF T
<1> HIDE DEF l, w
<1>9. Follows(w, hdr[c], l, Len(idx))
    BY <1>3, <1>7, <1>8 DEF Follows
<1>10. Visits(w, l, Len(idx))
    BY <1>1, <1>6, <1>9, RankedWalk
<1>11. w[Len(idx)] = 0 /\ {w[n] : n \in 0 .. Len(idx)} \ {0} = l.set
    BY <1>6, <1>10 DEF Visits
<1> QED
    BY <1>5, <1>11 DEF w, OnList

-----------------------------------------------------------------------------
(* The processes that do not step. *)

\* A step leaves list l from field c alone.
Untouched(c, l) == hdr'[c] = hdr[c] /\ \A o \in l.set : RecAt(o)' = RecAt(o)

\* It leaves alone all that q relies on.
Frame(q, L, L1) ==
    /\ pc'[q] = pc[q] /\ call'[q] = call[q] /\ h'[q] = h[q] /\ Records \subseteq Records'
    /\ pc[q] \in InChain => L1[Chain(q)] = L[Chain(q)] /\ Untouched(Chain(q), L[Chain(q)])
    /\ pc[q] \in InFree => L1[FREE_OFF] = L[FREE_OFF] /\ Untouched(FREE_OFF, L[FREE_OFF])
    /\ Holding(q) \/ At(q, "scandat") => RecAt(h[q].idxoff)' = RecAt(h[q].idxoff)
    /\ pc[q] \in {"reuseidx", "locknewidx", "newidx"} => dat'[h[q].datoff] = dat[h[q].datoff]
    /\ pc[q] \in {"locknewidx", "newidx"} => \A i \in DOMAIN idx' : idx'[i].datoff # h[q].datoff

\* What a process knows stays true.
LEMMA FrameKnows ==
    ASSUME LockInv, TypeOK, NEW L, Lists(L), NEW L1, NEW q \in Procs, Knows(q, L), Frame(q, L, L1)
    PROVE  Knows(q, L1)'
<1>1. pc'[q] = pc[q] /\ call'[q] = call[q] /\ h'[q] = h[q] /\ Chain(q)' = Chain(q)
    BY DEF Frame, Chain
<1> USE <1>1 DEF InChain, InFree, At, Holding
<1>2. pc[q] \in InChain => Chain(q) \in Header
    BY ChainIsRegion, HeaderFacts DEF LockInv, Owns
<1>3. ASSUME NEW c \in Header, Untouched(c, L[c]), NEW a, NEW o, Leads(c, L[c], a, o)
      PROVE  Leads(c, L[c], a, o)'
    <2>1. \A x \in L[c].set : x \notin Header
        BY ListFacts, FileFacts DEF TypeOK
    <2> QED
        BY <1>3, <2>1 DEF Leads, Untouched, ReadPtr
<1>4. ASSUME pc[q] \in InChain PROVE OnChain(q, L1[Chain(q)])'
    <2>1. PICK c, l : c = Chain(q) /\ l = L[Chain(q)]
        OBVIOUS
    <2>2. c \in Header /\ L1[c] = l /\ Untouched(c, l) /\ OnChain(q, l) /\ l = L[c]
        BY <1>2, <1>4, <2>1 DEF Knows, Frame
    <2>3. hdr'[c] = hdr[c] /\ \A x \in l.set : RecAt(x)' = RecAt(x)
        BY <2>2 DEF Untouched
    <2>4. pc[q] = "link" => RecAt(h[q].idxoff)' = RecAt(h[q].idxoff)
        BY DEF Frame
    <2>5. \A a, x : Leads(c, l, a, x) => Leads(c, l, a, x)'
        BY <1>3, <2>2
    <2>6. Chain(q)' = c
        BY <1>1, <2>1
    <2>7. OnChain(q, l)'
        BY <1>1, <2>1, <2>2, <2>3, <2>4, <2>5, <2>6 DEF OnChain, HasRecord, Storing
    <2> QED
        BY <2>2, <2>6, <2>7
<1>5. OnFree(q, L1[FREE_OFF])'
    <2>1. CASE pc[q] \in InFree
        <3> DEFINE l == L[FREE_OFF]
        <3>1. L1[FREE_OFF] = l /\ Untouched(FREE_OFF, l) /\ OnFree(q, l) /\ FREE_OFF \in Header
            BY <2>1, HeaderFacts DEF Frame, Knows
        <3>2. hdr'[FREE_OFF] = hdr[FREE_OFF] /\ \A x \in l.set : RecAt(x)' = RecAt(x)
            BY <3>1 DEF Untouched
        <3>3. pc[q] = "delfree" => RecAt(h[q].idxoff)' = RecAt(h[q].idxoff)
            BY DEF Knows, OnChain, Frame, Untouched
        <3>4. \A a, x : Leads(FREE_OFF, l, a, x) => Leads(FREE_OFF, l, a, x)'
            BY <1>3, <3>1
        <3> HIDE DEF l
        <3>5. OnFree(q, l)'
            BY <1>1, <3>1, <3>2, <3>3, <3>4 DEF OnFree, HasRecord
        <3> QED
            BY <3>1, <3>5
    <2>2. CASE pc[q] \notin InFree
        BY <2>2 DEF OnFree
    <2> QED
        BY <2>1, <2>2
<1>6. OwnRecord(q)'
    BY DEF Knows, OwnRecord, Frame, HasRecord
<1>7. OwnData(q)'
    BY DEF Knows, OwnData, Frame
<1>8. Scanned(q)'
    BY DEF Knows, Scanned, Frame
<1> QED
    BY <1>1, <1>4, <1>5, <1>6, <1>7, <1>8 DEF Knows

-----------------------------------------------------------------------------
(* Steps that do not write in the index file. *)

\* What is known of each step already.
LEMMA StepFacts ==
    ASSUME LockInv, TypeOK, NEW p \in Procs, Begin(p) \/ Step(p)
    PROVE  /\ LockInv' /\ TypeOK' /\ Records \subseteq Records' /\ DOMAIN dat \subseteq DOMAIN dat'
           /\ \A q \in Procs \ {p} : pc'[q] = pc[q] /\ call'[q] = call[q] /\ h'[q] = h[q]
           /\ DOMAIN h = Procs /\ pc \in [Procs -> AllLabels] /\ call \in [Procs -> Requests \cup {NoCall}]
<1>1. Next
    BY DEF Next
<1>2. LockInv' /\ TypeOK'
    BY <1>1, LockInvNext, TypeNext
<1>3. OthersStay(p) /\ FileStep(p)
    BY StepOwns, StepTypes DEF LockInv
<1> QED
    BY <1>2, <1>3 DEF OthersStay, FileStep, Grown, TypeOK

\* A step that writes no pointer and takes no record leaves the lists alone.
LEMMA QuietLists ==
    ASSUME TypeOK, NEW L, Lists(L), NEW p \in Procs, hdr' = hdr, idx' = idx,
           \A q \in Procs \ {p} : pc'[q] = pc[q] /\ call'[q] = call[q] /\ h'[q] = h[q],
           ~Dying(p), pc'[p] \notin {"delfree", "delunlink"},
           \A o \in Records : InHand(o)' <=> InHand(o)
    PROVE  Lists(L)'
<1>1. /\ Records' = Records /\ \A o : RecAt(o)' = RecAt(o)
    BY DEF Records, IdxEnd, RecAt
<1>2. \A o \in Records : \A q \in Procs :
          /\ Killed(o, q)' <=> Killed(o, q)
          /\ Killed(o, q) => Chain(q)' = Chain(q) /\ h'[q] = h[q]
    BY DEF Killed, Dying, Chain
<1>3. \A q \in Procs : At(q, "delfree")' <=> At(q, "delfree")
    BY DEF At, Dying
<1>4. \A q \in Procs : At(q, "delfree") => h'[q] = h[q]
    BY DEF At, Dying
<1>5. ASSUME NEW c \in Header, NEW o \in Records PROVE Belongs(o, c)' <=> Belongs(o, c)
    <2>1. (\E q \in Procs : Killed(o, q)' /\ Chain(q)' = c) <=> \E q \in Procs : Killed(o, q) /\ Chain(q) = c
        BY <1>2
    <2>2. (\A q \in Procs : At(q, "delfree")' => h'[q].idxoff # o)
          <=> \A q \in Procs : At(q, "delfree") => h[q].idxoff # o
        BY <1>3, <1>4
    <2>3. (InHand(o)' <=> InHand(o)) /\ RecAt(o)' = RecAt(o)
        BY <1>1
    <2> QED
        BY <2>1, <2>2, <2>3 DEF Belongs
<1>6. ASSUME NEW c \in Header PROVE IsList(c, L[c])'
    <2>1. L[c].set = {o \in Records' : Belongs(o, c)'}
        BY <1>1, <1>5, ListFacts
    <2>2. \A o \in L[c].set :
              /\ c = FREE_OFF \/ RecAt(o)'.key # Blank => L[c].next[o] = RecAt(o)'.ptr
              /\ \A q \in Procs : Killed(o, q)' /\ Chain(q)' = c => L[c].next[o] = h'[q].ptrval
        <3> TAKE o \in L[c].set
        <3>1. /\ c = FREE_OFF \/ RecAt(o).key # Blank => L[c].next[o] = RecAt(o).ptr
              /\ \A q \in Procs : Killed(o, q) /\ Chain(q) = c => L[c].next[o] = h[q].ptrval
            BY ListFacts
        <3>2. \A q \in Procs : Killed(o, q)' /\ Chain(q)' = c => L[c].next[o] = h'[q].ptrval
            BY <1>2, <3>1, ListFacts
        <3>3. RecAt(o)' = RecAt(o)
            BY <1>1
        <3> QED
            BY <3>1, <3>2, <3>3
    <2>3. Ranked(hdr'[c], L[c])
        BY ListFacts
    <2> QED
        BY <2>1, <2>2, <2>3 DEF IsList
<1> QED
    BY <1>6 DEF Lists

\* The list of a header field and a list that is walked, with no record that is
\* being deleted: after the record at off comes the rest.
LEMMA WalkLists ==
    ASSUME TypeOK, NEW L, Lists(L), NEW c \in Header,
           \A o \in L[c].set : L[c].next[o] = RecAt(o).ptr
    PROVE  /\ hdr[c] \in {0} \cup L[c].set /\ Leads(c, L[c], c, hdr[c])
           /\ \A q \in L[c].set : hdr[c] # 0 /\ L[c].rank[q] <= L[c].rank[hdr[c]]
           /\ \A o \in L[c].set :
                 /\ RecAt(o).ptr \in {0} \cup L[c].set /\ Leads(c, L[c], o, RecAt(o).ptr)
                 /\ \A q \in L[c].set :
                       q # o /\ L[c].rank[q] <= L[c].rank[o]
                       => RecAt(o).ptr # 0 /\ L[c].rank[q] <= L[c].rank[RecAt(o).ptr]
<1> DEFINE l == L[c]
<1>1. /\ l \in ListShape /\ Ranked(hdr[c], l) /\ l.set \subseteq Records /\ c \notin Records
      /\ \A o \in l.set : o \notin Header
    BY ListFacts, FileFacts DEF TypeOK
<1>2. \A o \in l.set : l.next[o] = RecAt(o).ptr /\ ReadPtr(o) = RecAt(o).ptr
    BY <1>1 DEF ReadPtr
<1>3. \A o \in l.set : l.rank[o] \in Nat
    BY <1>1 DEF ListShape
<1> HIDE DEF l
<1>4. /\ hdr[c] \in {0} \cup l.set /\ c \notin l.set
      /\ \A q \in l.set : hdr[c] # 0 /\ l.rank[q] <= l.rank[hdr[c]]
    BY <1>1 DEF Ranked
<1>5. Leads(c, l, c, hdr[c])
    BY DEF Leads, ReadPtr
<1>6. ASSUME NEW o \in l.set
      PROVE  /\ RecAt(o).ptr \in {0} \cup l.set /\ Leads(c, l, o, RecAt(o).ptr)
             /\ \A q \in l.set : q # o /\ l.rank[q] <= l.rank[o]
                                 => RecAt(o).ptr # 0 /\ l.rank[q] <= l.rank[RecAt(o).ptr]
    <2>1. l.next[o] = RecAt(o).ptr /\ RecAt(o).ptr # o
        BY <1>1, <1>2, RankedInjects
    <2>2. RecAt(o).ptr \in {0} \cup l.set
        BY <1>1, <2>1 DEF Ranked
    <2>3. Leads(c, l, o, RecAt(o).ptr)
        BY <1>2, <2>1 DEF Leads
    <2>4. ASSUME NEW q \in l.set, q # o, l.rank[q] <= l.rank[o]
          PROVE  RecAt(o).ptr # 0 /\ l.rank[q] <= l.rank[RecAt(o).ptr]
        <3>1. l.rank[q] < l.rank[o]
            <4>1. l.rank[q] # l.rank[o]
                BY <1>1, <2>4 DEF Ranked
            <4> QED
                BY <1>3, <2>4, <4>1
        <3>2. ~(l.rank[o] <= l.rank[q])
            BY <1>3, <3>1
        <3> QED
            BY <1>1, <2>1, <3>1, <3>2 DEF Ranked
    <2> QED
        BY <2>2, <2>3, <2>4
<1> QED
    BY <1>4, <1>5, <1>6 DEF l

\* On a chain that a process has locked for itself, and in the free list, the
\* pointers in the file are the list.
LEMMA LockedLists ==
    ASSUME LockInv, TypeOK, NEW L, Lists(L), NEW p \in Procs
    PROVE  /\ pc[p] \in InChain /\ ~Dying(p) =>
                 \A o \in L[Chain(p)].set : /\ RecAt(o).key # Blank
                                            /\ L[Chain(p)].next[o] = RecAt(o).ptr
           /\ \A o \in L[FREE_OFF].set : RecAt(o).key = Blank /\ L[FREE_OFF].next[o] = RecAt(o).ptr
<1>1. ASSUME pc[p] \in InChain, ~Dying(p), NEW o \in L[Chain(p)].set
      PROVE  RecAt(o).key # Blank /\ L[Chain(p)].next[o] = RecAt(o).ptr
    <2>1. Chain(p) \in Chains /\ Chain(p) \in Header /\ Chain(p) # FREE_OFF
        BY <1>1, ChainIsRegion, HeaderFacts DEF LockInv, Owns
    <2>2. o \in Records /\ Belongs(o, Chain(p))
        BY <1>1, <2>1, ListFacts
    <2>3. ASSUME NEW q \in Procs, Killed(o, q) PROVE Chain(q) # Chain(p)
        <3>1. p # q /\ pc[q] \in InChain /\ call[q].op \in Writes
            BY <1>1, <2>3, DyingLocks DEF Killed, Dying, Deleting
        <3> QED
            BY <1>1, <3>1, Exclusion DEF ChainExclusive
    <2>4. RecAt(o).key # Blank
        BY <2>1, <2>2, <2>3 DEF Belongs
    <2> QED
        BY <1>1, <2>1, <2>4, ListFacts
<1>2. ASSUME NEW o \in L[FREE_OFF].set
      PROVE  RecAt(o).key = Blank /\ L[FREE_OFF].next[o] = RecAt(o).ptr
    <2>1. o \in Records /\ Belongs(o, FREE_OFF) /\ L[FREE_OFF].next[o] = RecAt(o).ptr
        BY <1>2, HeaderFacts, ListFacts
    <2>2. RecAt(o) \in IdxRecord
        BY <2>1, FileFacts DEF TypeOK
    <2>3. RecAt(o).key = Blank
        BY <2>1, <2>2, HeaderFacts DEF Belongs, IdxRecord
    <2> QED
        BY <2>1, <2>3
<1> QED
    BY <1>1, <1>2

\* The steps that write nothing.
Reads(p) ==
    \/ Begin(p) \/ LockChain(p) \/ WalkOn(p) \/ Found(p) \/ FoundInsert(p) \/ NotFound(p) \/ ReadDat(p)
    \/ StartFree(p) \/ FreeWalkOn(p) \/ FreeFound(p) \/ NoneFree(p) \/ Reread(p) \/ LockNewDat(p)
    \/ LockNewIdx(p) \/ LinkInvalid(p) \/ Scan(p)

\* What they do, but for the handle that they leave.
LEMMA ReadsQuietly ==
    ASSUME TypeOK, NEW p \in Procs, Reads(p)
    PROVE  /\ Begin(p) \/ Step(p)
           /\ hdr' = hdr /\ idx' = idx /\ dat' = dat
           /\ Records' = Records /\ (\A o : RecAt(o)' = RecAt(o) /\ ReadPtr(o)' = ReadPtr(o))
           /\ ~Dying(p) /\ pc'[p] \notin {"delfree", "delunlink", "reusedat", "reuseidx", "link"}
           /\ Holding(p) => h[p].idxoff > PtrMax
<1> USE DEF At, Goto
<1>1. pc \in [Procs -> AllLabels] /\ DOMAIN h = Procs
    BY DEF TypeOK
<1>2. Begin(p) \/ Step(p)
    BY DEF Reads, Step, Find, FindFree, Store
<1>3. UNCHANGED files
    BY DEF Reads, Begin, LockChain, WalkOn, Found, FoundInsert, NotFound, ReadDat, StartFree,
           FreeWalkOn, FreeFound, NoneFree, Reread, LockNewDat, LockNewIdx, LinkInvalid, Exit,
           Scan, Rewind, NextRec, ScanEnd, ScanOn, ScanDat, ScanLost
<1>4. hdr' = hdr /\ idx' = idx /\ dat' = dat
    BY <1>3 DEF files
<1>5. Records' = Records /\ (\A o : RecAt(o)' = RecAt(o) /\ ReadPtr(o)' = ReadPtr(o))
    BY <1>4 DEF Records, IdxEnd, RecAt, ReadPtr
<1>6. /\ pc[p] \notin {"delfree", "delunlink", "reusedat", "reuseidx"}
      /\ pc[p] = "link" => h[p].idxoff > PtrMax
    BY DEF Reads, Begin, LockChain, WalkOn, Found, FoundInsert, NotFound, ReadDat, StartFree,
           FreeWalkOn, FreeFound, NoneFree, Reread, LockNewDat, LockNewIdx, LinkInvalid,
           Scan, Rewind, NextRec, ScanEnd, ScanOn, ScanDat, ScanLost, Writes, Stores
<1>7. pc'[p] \notin {"delfree", "delunlink", "reusedat", "reuseidx", "link"}
    <2>1. CASE Begin(p)
        BY <1>1, <2>1 DEF Begin, Requests, AllOps, Writes, Stores
    <2>2. CASE WalkOn(p) \/ FreeWalkOn(p) \/ ScanOn(p)
        BY <1>1, <1>6, <2>2 DEF WalkOn, FreeWalkOn, ScanOn
    <2>3. CASE ~(Begin(p) \/ WalkOn(p) \/ FreeWalkOn(p) \/ ScanOn(p))
        BY <1>1, <2>3
        DEF Reads, LockChain, Found, FoundInsert, NotFound, ReadDat, StartFree,
            FreeFound, NoneFree, Reread, LockNewDat, LockNewIdx, LinkInvalid, Exit, Return,
            Scan, Rewind, NextRec, ScanEnd, ScanDat, ScanLost
    <2> QED
        BY <2>1, <2>2, <2>3
<1> QED
    BY <1>2, <1>4, <1>5, <1>6, <1>7 DEF Dying, Holding

\* No record comes into, or goes from, the hands of p.
LEMMA QuietHands ==
    ASSUME NEW p \in Procs,
           \A q \in Procs \ {p} : pc'[q] = pc[q] /\ h'[q] = h[q],
           Holding(p) => h[p].idxoff > PtrMax \/ (Holding(p)' /\ h'[p].idxoff = h[p].idxoff),
           Holding(p)' => Holding(p) /\ h'[p].idxoff = h[p].idxoff
    PROVE  \A o : InHand(o)' <=> InHand(o)
<1> TAKE o
<1>1. \A q \in Procs \ {p} : (Holding(q)' <=> Holding(q)) /\ h'[q] = h[q]
    BY DEF Holding
<1>2. InHand(o) <=> o > PtrMax \/ \E q \in Procs : Holding(q) /\ h[q].idxoff = o
    BY DEF InHand, Holding
<1>3. InHand(o)' <=> o > PtrMax \/ \E q \in Procs : Holding(q)' /\ h'[q].idxoff = o
    BY DEF InHand, Holding
<1>4. ASSUME InHand(o) PROVE InHand(o)'
    BY <1>1, <1>2, <1>3, <1>4
<1>5. ASSUME InHand(o)' PROVE InHand(o)
    BY <1>1, <1>2, <1>3, <1>5
<1> QED
    BY <1>4, <1>5

\* The others know what they knew when the index file is left alone.
LEMMA QuietFrame ==
    ASSUME NEW L, NEW p \in Procs, NEW q \in Procs, Knows(q, L),
           pc'[q] = pc[q] /\ call'[q] = call[q] /\ h'[q] = h[q], hdr' = hdr, idx' = idx,
           pc[q] \in {"reuseidx", "locknewidx", "newidx"} => dat'[h[q].datoff] = dat[h[q].datoff]
    PROVE  Frame(q, L, L)
<1>1. Records' = Records /\ \A o : RecAt(o)' = RecAt(o)
    BY DEF Records, IdxEnd, RecAt
<1>2. \A c, l : Untouched(c, l)
    BY <1>1 DEF Untouched
<1>3. pc[q] \in {"locknewidx", "newidx"} => \A i \in DOMAIN idx' : idx'[i].datoff # h[q].datoff
    BY DEF Knows, OwnData
<1> QED
    BY <1>1, <1>2, <1>3 DEF Frame

\* A process that is in none of these places needs to know nothing.
LEMMA KnowsNothing ==
    ASSUME NEW L, NEW p \in Procs, pc'[p] \in AllOps \cup {"idle", "exited", "scan"}
    PROVE  Knows(p, L)'
BY DEF Knows, OnFree, OwnRecord, OwnData, Scanned, At, AllOps, Writes, Stores, InChain, InFree

\* What a process knows after a step that writes nothing.
LEMMA ReadsKnow ==
    ASSUME LockInv, TypeOK, NEW L, Lists(L), NEW p \in Procs, Knows(p, L), Reads(p)
    PROVE  Knows(p, L)'
<1> USE DEF At, Goto, SameCall, SetHandle
<1>1. pc \in [Procs -> AllLabels] /\ DOMAIN h = Procs /\ DOMAIN call = Procs /\ HandleOK(p) /\ h[p] \in Handles
    BY DEF TypeOK, HandleOK
<1>2. /\ hdr' = hdr /\ idx' = idx /\ dat' = dat /\ Records' = Records
      /\ (\A o : RecAt(o)' = RecAt(o) /\ ReadPtr(o)' = ReadPtr(o)) /\ ~Dying(p)
    BY ReadsQuietly
<1>3. \A c, l, a, o : Leads(c, l, a, o) => Leads(c, l, a, o)'
    BY <1>2 DEF Leads
<1>4. PICK c, l, f : c = Chain(p) /\ l = L[Chain(p)] /\ f = L[FREE_OFF]
    OBVIOUS
<1>5. ASSUME pc[p] \in InChain \cup Writes \cup {"fetch"}
      PROVE  /\ c \in Header /\ c \in Chains /\ l = L[c] /\ \A o \in l.set : o \in Records
             /\ call[p] \in Requests /\ call[p].key \in Keys
    <2>1. call[p] \in Requests /\ call[p].op \in Writes \cup {"fetch"}
        BY <1>5 DEF LockInv, Owns, AllOps, Writes, Stores
    <2>2. c \in Header /\ c \in Chains
        BY <1>4, <2>1, ChainIsRegion, HeaderFacts
    <2>3. call[p].key \in Keys
        BY <2>1 DEF Requests, Writes, Stores
    <2> QED
        BY <1>4, <2>1, <2>2, <2>3, ListFacts
<1>6. f.set \subseteq Records /\ FREE_OFF \in Header
    BY <1>4, HeaderFacts, ListFacts
<1>7. CASE Begin(p) \/ FoundInsert(p) \/ NotFound(p) \/ ReadDat(p) \/ LinkInvalid(p)
          \/ Rewind(p) \/ NextRec(p) \/ ScanEnd(p) \/ ScanDat(p) \/ ScanLost(p)
    <2>1. CASE Begin(p)
        BY <1>1, <2>1, KnowsNothing DEF Begin, Requests
    <2>2. CASE ~Begin(p)
        BY <1>1, <1>7, <2>2, KnowsNothing
        DEF FoundInsert, NotFound, ReadDat, LinkInvalid, Rewind, NextRec, ScanEnd, ScanDat, ScanLost,
        Return, Exit
    <2> QED
        BY <2>1, <2>2
\* Steps on the chain.
<1>8. ASSUME pc'[p] \in InChain, call' = call, OnChain(p, l)', OnFree(p, f)', OwnRecord(p)', OwnData(p)'
      PROVE  Knows(p, L)'
    <2>1. Chain(p)' = c
        BY <1>4, <1>8 DEF Chain
    <2>2. Scanned(p)'
        BY <1>8 DEF Scanned, InChain, InFree
    <2> QED
        BY <1>4, <1>8, <2>1, <2>2 DEF Knows
<1>9. CASE LockChain(p)
    <2>1. /\ pc'[p] = "walk" /\ call' = call /\ Chain(p)' = c
          /\ h'[p].ptroff = c /\ h'[p].off = hdr[c]
        BY <1>1, <1>4, <1>5, <1>9 DEF LockChain, Chain, ReadPtr, Handles
    <2>2. \A o \in l.set : RecAt(o).key # Blank
        <3>1. ASSUME NEW o \in l.set, RecAt(o).key = Blank PROVE FALSE
            <4>1. PICK q \in Procs : Killed(o, q) /\ Chain(q) = c
                BY <1>4, <1>5, <1>9, <3>1, ListFacts, HeaderFacts DEF Belongs, LockChain
            <4>2. c \in Regions /\ q \in wr[c] /\ p # q
                BY <1>2, <1>5, <4>1, DyingLocks, HeaderFacts DEF Killed, Dying, Deleting
            <4>3. CanRead(p, c) \/ CanWrite(p, c)
                BY <1>4, <1>9 DEF LockChain, ReadLock, WriteLock
            <4> QED
                BY <4>2, <4>3 DEF CanRead, CanWrite
        <3> QED
            BY <3>1
    <2>3. \A o \in l.set : l.next[o] = RecAt(o).ptr
        BY <1>5, <1>9, <2>2, ListFacts DEF LockChain
    <2>4. /\ hdr[c] \in {0} \cup l.set /\ Leads(c, l, c, hdr[c])
          /\ \A q \in l.set : hdr[c] # 0 /\ l.rank[q] <= l.rank[hdr[c]]
        BY <1>5, <1>9, <2>3, WalkLists DEF LockChain
    <2>5. OnChain(p, l)'
        BY <1>2, <1>3, <2>1, <2>4 DEF OnChain, Storing
    <2>6. OnFree(p, f)' /\ OwnRecord(p)' /\ OwnData(p)'
        BY <2>1 DEF OnFree, OwnRecord, OwnData
    <2> QED
        BY <1>8, <2>1, <2>5, <2>6 DEF InChain
<1>10. CASE WalkOn(p)
    <2> DEFINE o == h[p].off
    <2>1. /\ pc[p] = "walk" /\ pc' = pc /\ call' = call /\ Chain(p)' = c
          /\ h'[p].ptroff = o /\ h'[p].off = RecAt(o).ptr
          /\ o # 0 /\ RecAt(o).key # call[p].key
        BY <1>1, <1>4, <1>10 DEF WalkOn, Loaded, Matches, Handles, Chain
    <2>2. OnChain(p, l)
        BY <1>4, <2>1 DEF Knows, InChain
    <2>3. o \in l.set
        BY <2>1, <2>2 DEF OnChain
    <2>4. \A x \in l.set : l.next[x] = RecAt(x).ptr
        BY <1>2, <1>4, <2>1, LockedLists DEF InChain
    <2>5. /\ RecAt(o).ptr \in {0} \cup l.set /\ Leads(c, l, o, RecAt(o).ptr)
          /\ \A q \in l.set : q # o /\ l.rank[q] <= l.rank[o]
                              => RecAt(o).ptr # 0 /\ l.rank[q] <= l.rank[RecAt(o).ptr]
        BY <1>5, <2>1, <2>3, <2>4, WalkLists DEF InChain
    <2>6. \A q \in l.set : RecAt(q).key = call[p].key => q # o /\ l.rank[q] <= l.rank[o]
        BY <2>1, <2>2 DEF OnChain
    <2>7. OnChain(p, l)'
        BY <1>2, <1>3, <2>1, <2>5, <2>6 DEF OnChain, Storing
    <2>8. OnFree(p, f)' /\ OwnRecord(p)' /\ OwnData(p)'
        BY <2>1 DEF OnFree, OwnRecord, OwnData
    <2> QED
        BY <1>8, <2>1, <2>7, <2>8 DEF InChain
<1>11. CASE Found(p)
    <2> DEFINE o == h[p].off
    <2>1. /\ pc[p] = "walk" /\ call' = call /\ Chain(p)' = c
          /\ h'[p].idxoff = o /\ h'[p].ptrval = RecAt(o).ptr /\ h'[p].ptroff = h[p].ptroff
          /\ h'[p].datoff = RecAt(o).datoff /\ h'[p].datlen = RecAt(o).datlen
          /\ o # 0 /\ RecAt(o).key = call[p].key
          /\ pc'[p] \in {"readdat", "overwrite", "deldat"}
          /\ pc'[p] = "overwrite" => DatLen[call[p].val] = RecAt(o).datlen
        BY <1>1, <1>4, <1>11 DEF Found, Loaded, Matches, Handles, Chain
    <2>2. o \in l.set /\ Leads(c, l, h[p].ptroff, o)
        BY <1>4, <2>1 DEF Knows, InChain, OnChain
    <2>3. OnChain(p, l)'
        BY <1>2, <1>3, <2>1, <2>2 DEF OnChain, HasRecord, Storing
    <2>4. OnFree(p, f)' /\ OwnRecord(p)' /\ OwnData(p)'
        BY <2>1 DEF OnFree, OwnRecord, OwnData
    <2> QED
        BY <1>8, <2>1, <2>3, <2>4 DEF InChain
<1>12. CASE StartFree(p)
    <2>1. /\ pc[p] = "walk" /\ pc'[p] = "freewalk" /\ call' = call /\ Chain(p)' = c
          /\ h'[p].head = hdr[c] /\ h'[p].ptroff = FREE_OFF /\ h'[p].off = hdr[FREE_OFF]
          /\ h[p].off = 0
        BY <1>1, <1>4, <1>5, <1>6, <1>12 DEF StartFree, Handles, Chain, ReadPtr, InChain
    <2>2. \A q \in l.set : RecAt(q).key # call[p].key
        BY <1>4, <2>1 DEF Knows, InChain, OnChain
    <2>3. OnChain(p, l)'
        BY <1>2, <2>1, <2>2 DEF OnChain, Storing
    <2>4. hdr[FREE_OFF] \in {0} \cup f.set /\ Leads(FREE_OFF, f, FREE_OFF, hdr[FREE_OFF])
        BY <1>4, <1>6, LockedLists, WalkLists
    <2>5. OnFree(p, f)' /\ OwnRecord(p)' /\ OwnData(p)'
        BY <1>3, <2>1, <2>4 DEF OnFree, OwnRecord, OwnData
    <2> QED
        BY <1>8, <2>1, <2>3, <2>5 DEF InChain, InFree
\* Steps on the free list; those after "walk" know all keys of the chain.
<1>13. ASSUME pc[p] \in Storing \ {"overwrite", "reread", "link"}, call' = call,
              pc'[p] \in Storing \ {"overwrite", "reread", "link"}, h'[p].head = h[p].head
       PROVE  OnChain(p, l)'
    <2>1. /\ \A q \in l.set : RecAt(q).key # call[p].key
          /\ h[p].head = hdr[c] /\ Chain(p)' = c
        BY <1>4, <1>13 DEF Knows, InChain, InFree, OnChain, Storing, Chain
    <2> QED
        BY <1>2, <1>13, <2>1 DEF OnChain, Storing
<1>14. CASE FreeWalkOn(p)
    <2> DEFINE o == h[p].off
    <2>1. /\ pc[p] = "freewalk" /\ pc' = pc /\ call' = call
          /\ h'[p].ptroff = o /\ h'[p].off = RecAt(o).ptr /\ h'[p].head = h[p].head /\ o # 0
        BY <1>1, <1>14 DEF FreeWalkOn, Loaded, Handles
    <2>2. o \in f.set
        BY <1>4, <2>1 DEF Knows, OnFree
    <2>3. RecAt(o).ptr \in {0} \cup f.set /\ Leads(FREE_OFF, f, o, RecAt(o).ptr)
        BY <1>4, <1>6, <2>2, LockedLists, WalkLists
    <2>4. OnFree(p, f)' /\ OwnRecord(p)' /\ OwnData(p)'
        BY <1>3, <2>1, <2>3 DEF OnFree, OwnRecord, OwnData
    <2> QED
        BY <1>8, <1>13, <2>1, <2>4 DEF InChain, InFree, Storing
<1>15. CASE FreeFound(p)
    <2> DEFINE o == h[p].off
    <2>1. /\ pc[p] = "freewalk" /\ pc'[p] = "freetake" /\ call' = call /\ o # 0
          /\ h'[p].ptroff = h[p].ptroff /\ h'[p].ptrval = RecAt(o).ptr /\ h'[p].head = h[p].head
          /\ h'[p].idxoff = o /\ h'[p].datoff = RecAt(o).datoff /\ h'[p].datlen = RecAt(o).datlen
          /\ RecAt(o).datlen = DatLen[call[p].val]
        BY <1>1, <1>15 DEF FreeFound, Loaded, Handles, Fits
    <2>2. o \in f.set /\ Leads(FREE_OFF, f, h[p].ptroff, o)
        BY <1>4, <2>1 DEF Knows, OnFree
    <2>3. OnFree(p, f)' /\ OwnRecord(p)' /\ OwnData(p)'
        BY <1>2, <1>3, <2>1, <2>2 DEF OnFree, OwnRecord, OwnData, HasRecord
    <2> QED
        BY <1>8, <1>13, <2>1, <2>3 DEF InChain, InFree, Storing
<1>16. CASE NoneFree(p)
    <2>1. pc[p] = "freewalk" /\ pc'[p] = "locknewdat" /\ call' = call /\ h' = h
        BY <1>1, <1>16 DEF NoneFree
    <2>2. OnFree(p, f)' /\ OwnRecord(p)' /\ OwnData(p)'
        BY <2>1 DEF OnFree, OwnRecord, OwnData
    <2> QED
        BY <1>8, <1>13, <2>1, <2>2 DEF InChain, InFree, Storing
<1>17. CASE Reread(p)
    <2>1. pc[p] = "reread" /\ pc'[p] = "locknewdat" /\ call' = call /\ Chain(p)' = c /\ h'[p].head = hdr[c]
        BY <1>1, <1>4, <1>5, <1>17 DEF Reread, Handles, Chain, ReadPtr, InChain
    <2>2. \A q \in l.set : RecAt(q).key # call[p].key
        BY <1>4, <2>1 DEF Knows, InChain, OnChain, Storing
    <2>3. OnChain(p, l)'
        BY <1>2, <2>1, <2>2 DEF OnChain, Storing
    <2>4. OnFree(p, f)' /\ OwnRecord(p)' /\ OwnData(p)'
        BY <2>1 DEF OnFree, OwnRecord, OwnData
    <2> QED
        BY <1>8, <2>1, <2>3, <2>4 DEF InChain
<1>18. CASE LockNewDat(p)
    <2>1. /\ pc[p] = "locknewdat" /\ pc'[p] = "newdat" /\ call' = call
          /\ h'[p].head = h[p].head /\ h'[p].datlen = DatLen[call[p].val]
        BY <1>1, <1>18 DEF LockNewDat, Handles
    <2>2. OnFree(p, f)' /\ OwnRecord(p)' /\ OwnData(p)'
        BY <2>1 DEF OnFree, OwnRecord, OwnData
    <2> QED
        BY <1>8, <1>13, <2>1, <2>2 DEF InChain, Storing
<1>19. CASE LockNewIdx(p)
    <2>1. /\ pc[p] = "locknewidx" /\ pc'[p] = "newidx" /\ call' = call
          /\ h'[p].head = h[p].head /\ h'[p].datlen = h[p].datlen /\ h'[p].datoff = h[p].datoff
        BY <1>1, <1>19 DEF LockNewIdx, Handles
    <2>2. OwnData(p)
        BY DEF Knows
    <2>3. OnFree(p, f)' /\ OwnRecord(p)' /\ OwnData(p)'
        BY <1>2, <2>1, <2>2 DEF OnFree, OwnRecord, OwnData
    <2> QED
        BY <1>8, <1>13, <2>1, <2>3 DEF InChain, Storing
<1>20. CASE ScanOn(p)
    <2>1. /\ pc[p] = "scan" /\ h'[p] = Loaded(h[p], h[p].pos)
          /\ pc'[p] = "scan" \/ (pc'[p] = "scandat" /\ RecAt(h[p].pos).key # Blank)
        BY <1>1, <1>20 DEF ScanOn
    <2>2. CASE pc'[p] = "scan"
        BY <2>2, KnowsNothing
    <2>3. CASE pc'[p] = "scandat"
        <3>1. h[p].pos \in Records
            <4>1. h[p].pos \in {0} \cup (FirstRec .. IdxEnd) /\ h[p].pos # 0 /\ h[p].pos # IdxEnd
                BY <1>1, <1>20 DEF ScanOn, Handles
            <4>2. /\ FirstRec \in Nat /\ Len(idx) \in Nat /\ IdxEnd = FirstRec + Len(idx)
                  /\ Records = FirstRec .. FirstRec + Len(idx) - 1
                BY FileFacts DEF TypeOK
            <4> QED
                BY <4>1, <4>2
        <3>2. /\ h'[p].idxoff = h[p].pos /\ h'[p].key = RecAt(h[p].pos).key
              /\ h'[p].datoff = RecAt(h[p].pos).datoff
            BY <1>1, <2>1 DEF Loaded, Handles
        <3>3. Scanned(p)'
            BY <1>2, <2>1, <2>3, <3>1, <3>2 DEF Scanned
        <3> QED
            BY <2>3, <3>3 DEF Knows, OnFree, OwnRecord, OwnData, InChain, InFree
    <2> QED
        BY <2>1, <2>2, <2>3
<1> QED
    BY <1>7, <1>9, <1>10, <1>11, <1>12, <1>14, <1>15, <1>16, <1>17, <1>18, <1>19, <1>20 DEF Reads, Scan

\* Only db_nextrec returns two things.
LEMMA ResultStep ==
    ASSUME TypeOK, NEW p \in Procs, Begin(p) \/ Step(p)
    PROVE  h'[p].rc = h[p].rc \/ Len(h'[p].rc) < 2 \/ ScanDat(p)
<1> USE DEF SetHandle
<1>1. DOMAIN h = Procs /\ h[p] \in Handles
    BY DEF TypeOK, HandleOK
<1>2. ASSUME NEW x, NEW pos, NEW B, Return(p, <<x>>, pos, B) PROVE Len(h'[p].rc) < 2
    <2>1. h'[p].rc = <<x>>
        BY <1>1, <1>2 DEF Return, NewHandle
    <2> QED
        BY <2>1
<1>3. CASE \/ FoundInsert(p) \/ NotFound(p) \/ ReadDat(p) \/ Overwrite(p) \/ Link(p) \/ ScanEnd(p)
           \/ (DelUnlink(p) /\ call[p].op = "delete")
    <2>1. \E x, pos, B : Return(p, <<x>>, pos, B)
        <3>1. CASE NotFound(p)
            BY <3>1 DEF NotFound
        <3>2. CASE ~NotFound(p)
            BY <1>3, <3>2 DEF FoundInsert, ReadDat, Overwrite, Link, ScanEnd, DelUnlink
        <3> QED
            BY <3>1, <3>2
    <2> QED
        BY <1>2, <2>1
<1>4. CASE \/ DelDat(p) \/ DelIdx(p) \/ DelFree(p) \/ (DelUnlink(p) /\ call[p].op # "delete")
           \/ FreeTake(p) \/ NoneFree(p) \/ ReuseDat(p) \/ ReuseIdx(p) \/ NewDat(p) \/ NewIdx(p)
           \/ LinkInvalid(p) \/ NextRec(p) \/ ScanLost(p)
    <2>1. CASE DelDat(p) \/ DelIdx(p) \/ DelFree(p) \/ (DelUnlink(p) /\ call[p].op # "delete")
        BY <2>1 DEF DelDat, DelIdx, DelFree, DelUnlink
    <2>2. CASE FreeTake(p) \/ NoneFree(p) \/ ReuseDat(p) \/ ReuseIdx(p)
        BY <2>2 DEF FreeTake, NoneFree, ReuseDat, ReuseIdx
    <2>3. CASE NewDat(p) \/ NewIdx(p) \/ LinkInvalid(p) \/ NextRec(p) \/ ScanLost(p)
        BY <2>3 DEF NewDat, NewIdx, LinkInvalid, NextRec, ScanLost, Exit
    <2> QED
        BY <1>4, <2>1, <2>2, <2>3
<1>5. CASE \/ LockChain(p) \/ WalkOn(p) \/ Found(p) \/ StartFree(p) \/ FreeWalkOn(p) \/ FreeFound(p)
           \/ Reread(p) \/ LockNewDat(p) \/ LockNewIdx(p) \/ Rewind(p) \/ ScanOn(p)
    <2>1. CASE LockChain(p) \/ StartFree(p)
        BY <1>1, <2>1 DEF LockChain, StartFree, Handles
    <2>4. CASE Reread(p) \/ Rewind(p)
        BY <1>1, <2>4 DEF Reread, Rewind, Handles
    <2>5. CASE LockNewDat(p) \/ LockNewIdx(p)
        BY <1>1, <2>5 DEF LockNewDat, LockNewIdx, Handles
    <2>2. CASE Found(p) \/ FreeFound(p) \/ ScanOn(p)
        <3>1. \E o : h'[p] = Loaded(h[p], o)
            BY <1>1, <2>2 DEF Found, FreeFound, ScanOn
        <3> QED
            BY <1>1, <3>1 DEF Loaded, Handles
    <2>3. CASE WalkOn(p) \/ FreeWalkOn(p)
        <3> DEFINE f == Loaded(h[p], h[p].off)
        <3>1. h'[p] = [f EXCEPT !.ptroff = f.off, !.off = f.ptrval]
            BY <1>1, <2>3 DEF WalkOn, FreeWalkOn
        <3> QED
            BY <1>1, <3>1 DEF Loaded, Handles
    <2> QED
        BY <1>5, <2>1, <2>2, <2>3, <2>4, <2>5
<1>6. CASE Begin(p)
    <2>1. h'[p].rc = <<>>
        BY <1>1, <1>6 DEF Begin, Handles
    <2> QED
        BY <2>1
<1> QED
    BY <1>3, <1>4, <1>5, <1>6 DEF Step, Find, Delete, FindFree, Store, Scan

\* What db_nextrec returns is sound.
LEMMA ScanSoundNext ==
    ASSUME LockInv, TypeOK, DataOwned, ScanSound, NEW L, NEW p \in Procs, Knows(p, L), Begin(p) \/ Step(p)
    PROVE  ScanSound'
<1>1. \A q \in Procs \ {p} : h'[q] = h[q]
    BY StepFacts
<1>2. Len(h'[p].rc) = 2 => h'[p].rc[1] \in Keys /\ h'[p].rc[2] \in Data[h'[p].rc[1]]
    <2>1. CASE ScanDat(p)
        <3> DEFINE o == h[p].idxoff
        <3>1. /\ o \in Records /\ h[p].key # Blank /\ RecAt(o).key = h[p].key
              /\ RecAt(o).datoff = h[p].datoff
            BY <2>1 DEF Knows, Scanned, ScanDat
        <3>2. RecAt(o) \in IdxRecord
            BY <3>1, FileFacts DEF TypeOK
        <3>3. ~\E q \in Procs : At(q, "delidx") /\ h[q].idxoff = o
            <4>1. \A q \in Procs : At(q, "delidx") => p = q
                BY <2>1, Exclusion DEF FreeExclusive, ScanDat, At, InFree, InScan
            <4> QED
                BY <2>1, <4>1 DEF ScanDat, At
        <3>4. h[p].key \in Keys /\ dat[h[p].datoff].val \in Data[h[p].key]
            BY <3>1, <3>2, <3>3 DEF DataOwned, IdxRecord
        <3>5. h'[p].rc = <<h[p].key, dat[h[p].datoff].val>>
            <4>1. DOMAIN h = Procs
                BY DEF TypeOK
            <4> QED
                BY <2>1, <4>1 DEF ScanDat, Return, NewHandle
        <3> QED
            BY <3>4, <3>5
    <2>2. CASE ~ScanDat(p)
        BY <2>2, ResultStep DEF ScanSound
    <2> QED
        BY <2>1, <2>2
<1> QED
    BY <1>1, <1>2 DEF ScanSound

\* A step that writes nothing keeps the invariant.
LEMMA ReadsKeep ==
    ASSUME Files, NEW L, Listed(L), NEW p \in Procs, Reads(p)
    PROVE  Listed(L)' /\ KeysUnique' /\ DataOwned' /\ Hands'
<1>1. /\ Begin(p) \/ Step(p)
      /\ hdr' = hdr /\ idx' = idx /\ dat' = dat
      /\ Records' = Records /\ (\A o : RecAt(o)' = RecAt(o) /\ ReadPtr(o)' = ReadPtr(o))
      /\ ~Dying(p) /\ pc'[p] \notin {"delfree", "delunlink", "reusedat", "reuseidx", "link"}
      /\ Holding(p) => h[p].idxoff > PtrMax
    BY ReadsQuietly DEF Files
<1>2. \A q \in Procs \ {p} : pc'[q] = pc[q] /\ call'[q] = call[q] /\ h'[q] = h[q]
    BY <1>1, StepFacts DEF Files
<1>3. \A o : InHand(o)' <=> InHand(o)
    BY <1>1, <1>2, QuietHands DEF Holding
<1>4. Lists(L)'
    BY <1>1, <1>2, <1>3, QuietLists DEF Files, Listed
<1>5. ASSUME NEW q \in Procs PROVE Knows(q, L)'
    <2>1. CASE q = p
        BY <2>1, ReadsKnow DEF Files, Listed
    <2>2. CASE q # p
        <3>1. Frame(q, L, L)
            BY <1>1, <1>2, <2>2, QuietFrame DEF Listed
        <3> QED
            BY <3>1, FrameKnows DEF Files, Listed
    <2> QED
        BY <2>1, <2>2
<1>6. KeysUnique'
    BY <1>1, <1>3 DEF KeysUnique, Files
<1>7. DataOwned'
    <2>1. \A q \in Procs : At(q, "delidx") => At(q, "delidx")' /\ h'[q] = h[q]
        <3>1. pc[p] # "delidx"
            BY DEF Reads, Begin, LockChain, WalkOn, Found, FoundInsert, NotFound, ReadDat, StartFree,
                   FreeWalkOn, FreeFound, NoneFree, Reread, LockNewDat, LockNewIdx, LinkInvalid,
                   Scan, Rewind, NextRec, ScanEnd, ScanOn, ScanDat, ScanLost, Writes, Stores, At
        <3> QED
            BY <1>2, <3>1 DEF At
    <2> QED
        BY <1>1, <2>1 DEF DataOwned, Files
<1>8. Hands'
    <2>1. \A q \in Procs : Holding(q)' => Holding(q) /\ h'[q] = h[q]
        BY <1>1, <1>2 DEF Holding
    <2>2. \A q \in Procs : pc'[q] \in {"locknewidx", "newidx"} =>
              pc[q] \in {"locknewidx", "newidx"} /\ h'[q].datoff = h[q].datoff
        <3>1. pc \in [Procs -> AllLabels] /\ DOMAIN h = Procs /\ h[p] \in Handles
            BY DEF Files, TypeOK, HandleOK
        <3>2. CASE LockNewIdx(p)
            BY <1>2, <3>1, <3>2 DEF LockNewIdx, SetHandle, Handles, At
        <3>3. CASE ~LockNewIdx(p)
            <4>1. pc'[p] \notin {"locknewidx", "newidx"}
                <5>1. CASE Begin(p)
                    BY <3>1, <5>1 DEF Begin, Requests, AllOps, Writes, Stores, Goto
                <5>2. CASE WalkOn(p) \/ FreeWalkOn(p) \/ ScanOn(p)
                    BY <3>1, <5>2 DEF WalkOn, FreeWalkOn, ScanOn, Goto, At
                <5>3. CASE ~(Begin(p) \/ WalkOn(p) \/ FreeWalkOn(p) \/ ScanOn(p))
                    BY <3>1, <3>3, <5>3
                    DEF Reads, LockChain, Found, FoundInsert, NotFound, ReadDat, StartFree, Goto,
                        FreeFound, NoneFree, Reread, LockNewDat, LinkInvalid, Exit, Return,
                        Scan, Rewind, NextRec, ScanEnd, ScanDat, ScanLost
                <5> QED
                    BY <5>1, <5>2, <5>3
            <4> QED
                BY <1>2, <4>1
        <3> QED
            BY <3>2, <3>3
    <2>3. ASSUME NEW q \in Procs, NEW r \in Procs
          PROVE  /\ Holding(q)' /\ Holding(r)' /\ h'[q].idxoff = h'[r].idxoff => q = r
                 /\ {pc'[q], pc'[r]} \subseteq {"locknewidx", "newidx"} /\ h'[q].datoff = h'[r].datoff => q = r
        BY <2>1, <2>2 DEF Hands, Files
    <2> QED
        BY <2>3 DEF Hands
<1> QED
    BY <1>4, <1>5, <1>6, <1>7, <1>8 DEF Listed

-----------------------------------------------------------------------------
(* Steps that write in the data file. *)

\* A store stores what its caller gave it under its key.
LEMMA StoredValue ==
    ASSUME LockInv, NEW p \in Procs, pc[p] \in Storing
    PROVE  /\ pc[p] \in InChain /\ call[p] \in Requests /\ call[p].key \in Keys
           /\ call[p].val \in Data[call[p].key] /\ Chain(p) \in Chains /\ Chain(p) \in Header
           /\ call[p].op \in Writes
<1>1. call[p].op \in Stores /\ call[p] \in Requests /\ pc[p] \in InChain
    BY DEF LockInv, Owns, Storing, InChain, InFree
<1>2. call[p].op \in Writes
    BY <1>1 DEF Writes
<1>3. call[p].key \in Keys /\ call[p].val \in Data[call[p].key]
    BY <1>1 DEF Requests, Stores
<1> QED
    BY <1>1, <1>2, <1>3, ChainIsRegion, HeaderFacts

\* A data record is written, and no other.
LEMMA DatPut ==
    ASSUME dat \in Seq(DatRecord), NEW i \in 1 .. Len(dat) + 1, NEW x \in DatRecord, dat' = Put(dat, i, x)
    PROVE  /\ dat' \in Seq(DatRecord) /\ Len(dat') = (IF i = Len(dat) + 1 THEN Len(dat) + 1 ELSE Len(dat))
           /\ dat'[i] = x /\ \A j \in 1 .. Len(dat) : j # i => dat'[j] = dat[j]
BY PutSeq

\* The record whose data is written, and what the write leaves alone.
LEMMA DataWritten ==
    ASSUME Files, NEW L, Listed(L), NEW p \in Procs, NEW v,
           pc[p] \in {"deldat", "overwrite", "reusedat", "newdat"}, v \in Vals \cup {Blank},
           WriteDat(h[p], v)
    PROVE  /\ hdr' = hdr /\ idx' = idx
           /\ h[p].datoff \in DOMAIN dat' /\ dat'[h[p].datoff] = [val |-> v, len |-> h[p].datlen]
           /\ \A j \in DOMAIN dat : j # h[p].datoff => dat'[j] = dat[j]
           /\ IF pc[p] = "newdat" THEN h[p].datoff \notin DOMAIN dat
              ELSE /\ h[p].idxoff \in Records /\ RecAt(h[p].idxoff).datoff = h[p].datoff
                   /\ RecAt(h[p].idxoff).datlen = h[p].datlen
                   /\ \A o \in Records : RecAt(o).datoff = h[p].datoff => o = h[p].idxoff
<1> DEFINE o == h[p].idxoff
           d == h[p].datoff
           x == [val |-> v, len |-> h[p].datlen]
<1>1. FilesOK /\ HandleOK(p) /\ h[p].datlen \in Nat
    BY DEF Files, TypeOK, HandleOK, Handles
<1>2. /\ DOMAIN dat = 1 .. Len(dat) /\ Len(dat) \in Nat /\ DatEnd = Len(dat) + 1
      /\ NHash \in Nat /\ DOMAIN idx = 1 .. Len(idx) /\ dat \in Seq(DatRecord)
      /\ \A r \in Records : RecAt(r) = idx[r - NHash] /\ r - NHash \in 1 .. Len(idx) /\ r \in Nat
    <2>1. \A r \in Records : r \in Nat
        BY <1>1, FileFacts
    <2> QED
        BY <1>1, <2>1, FileFacts DEF FilesOK
<1>3. IF pc[p] = "newdat" THEN d = Len(dat) + 1 ELSE d \in 1 .. Len(dat)
    BY <1>1, <1>2 DEF HandleOK, HasDat, HasIdx, At
<1>4. hdr' = hdr /\ idx' = idx /\ dat' = Put(dat, d, x) /\ x \in DatRecord /\ d \in 1 .. Len(dat) + 1
    BY <1>1, <1>2, <1>3 DEF WriteDat, DatRecord
<1> HIDE DEF x
<1>5. /\ dat' \in Seq(DatRecord) /\ Len(dat') = (IF d = Len(dat) + 1 THEN Len(dat) + 1 ELSE Len(dat))
      /\ dat'[d] = x /\ \A j \in 1 .. Len(dat) : j # d => dat'[j] = dat[j]
    BY <1>2, <1>4, DatPut
<1>6. d \in DOMAIN dat'
    BY <1>2, <1>3, <1>5
<1>7. CASE pc[p] = "newdat"
    BY <1>2, <1>3, <1>4, <1>5, <1>6, <1>7 DEF x
<1>8. CASE pc[p] # "newdat"
    <2>1. o \in Records
        <3>1. CASE pc[p] = "overwrite"
            <4>1. Chain(p) \in Header
                BY <3>1, StoredValue DEF Files, Storing
            <4>2. o \in L[Chain(p)].set
                BY <3>1 DEF Listed, Knows, OnChain, InChain
            <4> QED
                BY <4>1, <4>2, ListFacts DEF Files, Listed
        <3>2. CASE pc[p] # "overwrite"
            BY <1>1, <1>8, <3>2 DEF HandleOK, HasIdx
        <3> QED
            BY <3>1, <3>2
    <2>2. HasRecord(p)
        BY <1>8 DEF Listed, Knows, OnChain, OwnRecord, InChain
    <2>3. RecAt(o).datoff = d /\ RecAt(o).datlen = h[p].datlen
        BY <2>2 DEF HasRecord
    <2>4. ASSUME NEW r \in Records, RecAt(r).datoff = d PROVE r = o
        <3>1. /\ RecAt(r) = idx[r - NHash] /\ r - NHash \in DOMAIN idx /\ r \in Nat
              /\ RecAt(o) = idx[o - NHash] /\ o - NHash \in DOMAIN idx /\ o \in Nat
            BY <1>2, <2>1
        <3>2. r - NHash = o - NHash
            BY <2>3, <2>4, <3>1 DEF Files, DataOwned
        <3> QED
            BY <1>2, <3>1, <3>2
    <2> QED
        BY <1>2, <1>4, <1>5, <1>6, <1>8, <2>1, <2>3, <2>4 DEF x
<1> QED
    BY <1>7, <1>8

\* A write of data keeps the invariant.
LEMMA DataKeeps ==
    ASSUME Files, NEW L, Listed(L), NEW p \in Procs,
           DelDat(p) \/ Overwrite(p) \/ ReuseDat(p) \/ NewDat(p)
    PROVE  Listed(L)' /\ KeysUnique' /\ DataOwned' /\ Hands'
<1> USE DEF At, Goto, SameCall
<1> DEFINE o == h[p].idxoff
           d == h[p].datoff
<1>1. /\ DOMAIN h = Procs /\ DOMAIN pc = Procs /\ FilesOK /\ FilesOK' /\ DOMAIN dat \subseteq DOMAIN dat'
      /\ \A q \in Procs \ {p} : pc'[q] = pc[q] /\ call'[q] = call[q] /\ h'[q] = h[q]
      /\ \A q \in Procs : HandleOK(q)
    BY StepFacts DEF Files, TypeOK, Step, Find, Delete, FindFree, Store
<1>2. PICK v \in Vals \cup {Blank} :
        /\ WriteDat(h[p], v)
        /\ \/ /\ pc[p] = "deldat" /\ pc'[p] = "delidx" /\ h' = h /\ call' = call /\ v = Blank
           \/ /\ pc[p] = "overwrite" /\ pc'[p] = "idle" /\ v = call[p].val
           \/ /\ pc[p] = "reusedat" /\ pc'[p] = "reuseidx" /\ h' = h /\ call' = call /\ v = call[p].val
           \/ /\ pc[p] = "newdat" /\ pc'[p] = "locknewidx" /\ h' = h /\ call' = call /\ v = call[p].val
    <2>1. CASE DelDat(p)
        BY <1>1, <2>1 DEF DelDat
    <2>2. CASE Overwrite(p) \/ ReuseDat(p) \/ NewDat(p)
        <3>1. pc[p] \in Storing
            BY <2>2 DEF Overwrite, ReuseDat, NewDat, Storing
        <3>2. call[p].val \in Vals
            BY <3>1, StoredValue, ParamAssumption DEF Files
        <3> QED
            BY <1>1, <2>2, <3>2 DEF Overwrite, ReuseDat, NewDat, Return
    <2> QED
        BY <2>1, <2>2
<1>3. /\ hdr' = hdr /\ idx' = idx
      /\ d \in DOMAIN dat' /\ dat'[d] = [val |-> v, len |-> h[p].datlen]
      /\ \A j \in DOMAIN dat : j # d => dat'[j] = dat[j]
      /\ IF pc[p] = "newdat" THEN d \notin DOMAIN dat
         ELSE /\ o \in Records /\ RecAt(o).datoff = d
              /\ RecAt(o).datlen = h[p].datlen
              /\ \A r \in Records : RecAt(r).datoff = d => r = o
    BY <1>2, DataWritten
<1>4. /\ Records' = Records /\ (\A r : RecAt(r)' = RecAt(r) /\ ReadPtr(r)' = ReadPtr(r))
      /\ \A r \in Records : RecAt(r) = idx[r - NHash] /\ r - NHash \in DOMAIN idx /\ RecAt(r).datoff \in DOMAIN dat
    BY <1>1, <1>3, FileFacts DEF Records, IdxEnd, RecAt, ReadPtr, FilesOK
<1>5. \A r : InHand(r)' <=> InHand(r)
    BY <1>1, <1>2, QuietHands DEF Holding
<1>6. Lists(L)'
    BY <1>1, <1>2, <1>3, <1>5, QuietLists DEF Files, Listed, Dying
<1>7. pc[p] \in {"deldat", "overwrite"} => ~InHand(o) /\ RecAt(o).key = call[p].key
    <2> SUFFICES ASSUME pc[p] \in {"deldat", "overwrite"} PROVE ~InHand(o) /\ RecAt(o).key = call[p].key
        OBVIOUS
    <2>1. Chain(p) \in Header
        BY DyingLocks, StoredValue, HeaderFacts DEF Files, Storing, Deleting
    <2>2. o \in L[Chain(p)].set /\ RecAt(o).key = call[p].key
        BY DEF Listed, Knows, OnChain, InChain
    <2>3. Belongs(o, Chain(p))
        BY <1>3, <2>1, <2>2, ListFacts DEF Files, Listed
    <2> QED
        BY <2>2, <2>3 DEF Belongs
\* The data in other hands is other data.
<1>8. ASSUME NEW q \in Procs \ {p}, pc[q] \in {"reuseidx", "locknewidx", "newidx"}
      PROVE  h[q].datoff \in DOMAIN dat /\ h[q].datoff # d
    <2>1. h[q].datoff \in DOMAIN dat
        BY <1>1, <1>8 DEF HandleOK, HasDat, HasIdx
    <2>2. CASE pc[p] = "newdat"
        BY <1>3, <2>1, <2>2
    <2>3. CASE pc[p] # "newdat" /\ pc[q] \in {"locknewidx", "newidx"}
        <3>1. \A i \in DOMAIN idx : idx[i].datoff # h[q].datoff
            BY <2>3 DEF Listed, Knows, OwnData
        <3> QED
            BY <1>3, <1>4, <2>1, <2>3, <3>1
    <2>4. CASE pc[p] # "newdat" /\ pc[q] = "reuseidx"
        <3>1. h[q].idxoff \in Records /\ RecAt(h[q].idxoff).datoff = h[q].datoff
            BY <1>1, <2>4 DEF HandleOK, HasIdx, Listed, Knows, OwnRecord, HasRecord
        <3>2. h[q].idxoff # o
            <4>1. InHand(h[q].idxoff)
                BY <2>4 DEF InHand
            <4>2. pc[p] = "reusedat" => h[q].idxoff # o
                BY <1>8, <2>4 DEF Files, Hands, Holding
            <4> QED
                BY <1>2, <1>7, <2>4, <4>1, <4>2
        <3> QED
            BY <1>3, <2>1, <2>4, <3>1, <3>2
    <2> QED
        BY <1>8, <2>2, <2>3, <2>4
<1>9. ASSUME NEW q \in Procs \ {p} PROVE Knows(q, L)'
    <2>1. pc[q] \in {"reuseidx", "locknewidx", "newidx"} => dat'[h[q].datoff] = dat[h[q].datoff]
        BY <1>3, <1>8
    <2>2. Frame(q, L, L)
        BY <1>1, <1>3, <2>1, QuietFrame DEF Listed
    <2> QED
        BY <2>2, FrameKnows DEF Files, Listed
<1>10. Knows(p, L)'
    <2>1. CASE pc[p] = "overwrite"
        BY <1>2, <2>1, KnowsNothing
    <2>2. CASE pc[p] # "overwrite"
        <3>1. PICK c, l : c = Chain(p) /\ l = L[Chain(p)]
            OBVIOUS
        <3>2. h' = h /\ call' = call /\ Chain(p)' = c /\ pc[p] \in InChain /\ pc'[p] \in InChain
            BY <1>2, <2>2, <3>1 DEF Chain, InChain, InFree
        <3>3. OnChain(p, l) /\ OwnRecord(p) /\ OwnData(p)
            BY <3>1, <3>2 DEF Listed, Knows
        <3>4. \A x, y, z, w : Leads(x, y, z, w) => Leads(x, y, z, w)'
            BY <1>4 DEF Leads
        <3>5. OnChain(p, l)'
            BY <1>2, <1>3, <1>4, <2>2, <3>1, <3>2, <3>3, <3>4 DEF OnChain, HasRecord, Storing
        <3>6. OwnRecord(p)'
            BY <1>2, <1>3, <1>4, <3>2, <3>3 DEF OwnRecord, HasRecord
        <3>7. OwnData(p)'
            <4>1. CASE pc[p] = "newdat"
                <5>1. \A i \in DOMAIN idx : idx[i].datoff # d
                    BY <1>1, <1>3, <4>1 DEF FilesOK
                <5> QED
                    BY <1>2, <1>3, <3>2, <3>3, <4>1, <5>1 DEF OwnData
            <4>2. CASE pc[p] # "newdat"
                BY <1>2, <4>2 DEF OwnData
            <4> QED
                BY <4>1, <4>2
        <3>8. OnFree(p, L[FREE_OFF])' /\ Scanned(p)'
            BY <1>2 DEF OnFree, Scanned
        <3> QED
            BY <3>1, <3>2, <3>5, <3>6, <3>7, <3>8 DEF Knows
    <2> QED
        BY <2>1, <2>2
<1>11. KeysUnique'
    BY <1>4, <1>5 DEF KeysUnique, Files
<1>12. DataOwned'
    <2>1. \A q \in Procs : pc[q] = "delidx" => pc'[q] = "delidx" /\ h'[q] = h[q]
        BY <1>1, <1>2
    <2>2. ASSUME NEW r \in Records, pc[p] = "newdat" \/ r # o
          PROVE  dat'[RecAt(r).datoff] = dat[RecAt(r).datoff]
        BY <1>3, <1>4, <2>2
    <2>3. ASSUME NEW r \in Records
          PROVE  /\ dat'[RecAt(r).datoff].len = RecAt(r).datlen
                 /\ RecAt(r).key # Blank =>
                       \/ /\ dat'[RecAt(r).datoff].val \in Data[RecAt(r).key]
                          /\ DatLen[dat'[RecAt(r).datoff].val] = dat'[RecAt(r).datoff].len
                       \/ \E q \in Procs : pc'[q] = "delidx" /\ h'[q].idxoff = r
        <3>1. CASE pc[p] = "newdat" \/ r # o
            BY <2>1, <2>2, <3>1 DEF DataOwned, Files
        <3>2. CASE pc[p] # "newdat" /\ r = o
            <4>1. dat'[RecAt(r).datoff].len = RecAt(r).datlen /\ dat'[RecAt(r).datoff].val = v
                BY <1>3, <3>2
            <4>2. CASE pc[p] = "deldat"
                BY <1>2, <3>2, <4>1, <4>2
            <4>3. CASE pc[p] = "overwrite"
                <5>1. v = call[p].val /\ v \in Data[call[p].key] /\ RecAt(o).key = call[p].key
                    BY <1>2, <1>7, <4>3, StoredValue DEF Files, Storing
                <5>2. h[p].datlen = DatLen[call[p].val]
                    BY <4>3 DEF Listed, Knows, OnChain, InChain
                <5> QED
                    BY <1>3, <3>2, <4>1, <5>1, <5>2
            <4>4. CASE pc[p] = "reusedat"
                <5>1. RecAt(o).key = Blank
                    BY <4>4 DEF Listed, Knows, OwnRecord
                <5> QED
                    BY <3>2, <4>1, <5>1
            <4> QED
                BY <1>2, <3>2, <4>2, <4>3, <4>4
        <3> QED
            BY <3>1, <3>2
    <2>4. \A i, j \in DOMAIN idx' : idx'[i].datoff = idx'[j].datoff => i = j
        BY <1>3 DEF DataOwned, Files
    <2> QED
        BY <1>4, <2>3, <2>4 DEF DataOwned
<1>13. Hands'
    <2>1. \A q \in Procs : Holding(q)' => Holding(q) /\ h'[q].idxoff = h[q].idxoff
        BY <1>1, <1>2 DEF Holding
    <2>2. \A q \in Procs : pc'[q] \in {"locknewidx", "newidx"} =>
              \/ q = p /\ h'[q].datoff = d
              \/ /\ q # p /\ pc[q] \in {"locknewidx", "newidx"}
                 /\ h'[q].datoff = h[q].datoff /\ h[q].datoff # d
        BY <1>1, <1>2, <1>8
    <2>3. ASSUME NEW q \in Procs, NEW r \in Procs
          PROVE  /\ Holding(q)' /\ Holding(r)' /\ h'[q].idxoff = h'[r].idxoff => q = r
                 /\ {pc'[q], pc'[r]} \subseteq {"locknewidx", "newidx"} /\ h'[q].datoff = h'[r].datoff => q = r
        BY <2>1, <2>2 DEF Hands, Files
    <2> QED
        BY <2>3 DEF Hands
<1> QED
    BY <1>6, <1>9, <1>10, <1>11, <1>12, <1>13 DEF Listed

-----------------------------------------------------------------------------
(* Steps that write in the index file. *)

Writing == {"delidx", "delfree", "delunlink", "freetake", "reuseidx", "newidx", "link"}

\* A process that writes in the index file has its chain for itself, and the
\* free list when it changes that.
LEMMA WriterAlone ==
    ASSUME LockInv, NEW p \in Procs, pc[p] \in Writing
    PROVE  /\ pc[p] \in InChain /\ call[p] \in Requests /\ call[p].key \in Keys /\ call[p].key # Blank
           /\ call[p].op \in Writes
           /\ Chain(p) = Hash[call[p].key] /\ Chain(p) \in Chains /\ Chain(p) \in Header
           /\ Chain(p) # FREE_OFF /\ FREE_OFF \in Header
           /\ \A q \in Procs \ {p} :
                 /\ pc[q] \in InChain => Chain(q) # Chain(p) /\ Chain(q) \in Chains /\ Chain(q) \in Header
                 /\ pc[p] \in InFree => pc[q] \notin InFree \cup InScan /\ ~Dying(q)
<1>1. /\ pc[p] \in InChain /\ call[p] \in Requests /\ call[p].op \in Writes
    BY DEF LockInv, Owns, Writing, Storing, Deleting, InChain, InFree, Writes
<1>2. call[p].key \in Keys /\ call[p].key # Blank
    BY <1>1, ParamAssumption DEF Requests, Writes, Stores
<1>3. \A q \in Procs : pc[q] \in InChain => Chain(q) \in Chains /\ Chain(q) \in Header
    BY ChainIsRegion, HeaderFacts DEF LockInv, Owns
<1>4. \A q \in Procs \ {p} : pc[q] \in InChain => Chain(q) # Chain(p)
    BY <1>1, Exclusion DEF ChainExclusive
<1>5. \A q \in Procs \ {p} : pc[p] \in InFree => pc[q] \notin InFree \cup InScan /\ ~Dying(q)
    BY Exclusion DEF FreeExclusive, Dying, InFree
<1>6. Chain(p) = Hash[call[p].key]
    BY DEF Chain
<1> QED
    BY <1>1, <1>2, <1>3, <1>4, <1>5, <1>6, HeaderFacts

\* _db_writeidx writes one record, perhaps a new one.
LEMMA RecWritten ==
    ASSUME TypeOK, NEW f, f.idxoff \in Records \/ f.idxoff = IdxEnd,
           f.datoff \in DOMAIN dat, f.datlen \in Nat,
           NEW k \in Keys \cup {Blank}, NEW n \in Nat, NEW ptr \in Ptrs, WriteIdx(f, k, n, ptr)
    PROVE  /\ hdr' = hdr /\ dat' = dat /\ Records' = Records \cup {f.idxoff}
           /\ RecAt(f.idxoff)' = [key |-> k, klen |-> n, datoff |-> f.datoff, datlen |-> f.datlen, ptr |-> ptr]
           /\ \A x \in Records : x # f.idxoff => RecAt(x)' = RecAt(x)
           /\ IdxEnd \notin Records
<1> DEFINE r == [key |-> k, klen |-> n, datoff |-> f.datoff, datlen |-> f.datlen, ptr |-> ptr]
           i == f.idxoff - NHash
<1>1. /\ FilesOK /\ FirstRec = NHash + 1 /\ NHash \in Nat /\ Len(idx) \in Nat
      /\ Records = FirstRec .. FirstRec + Len(idx) - 1 /\ IdxEnd = FirstRec + Len(idx)
      /\ Ptrs \subseteq Nat
    BY FileFacts DEF TypeOK
<1>2. r \in IdxRecord /\ idx \in Seq(IdxRecord)
    BY <1>1, FileFacts DEF IdxRecord, FilesOK
<1>3. i \in 1 .. Len(idx) + 1 /\ (i = Len(idx) + 1 <=> f.idxoff = IdxEnd) /\ f.idxoff = NHash + i
    <2>1. PICK o : o = f.idxoff
        OBVIOUS
    <2>2. o \in NHash + 1 .. NHash + 1 + Len(idx)
        BY <1>1, <2>1
    <2>3. o - NHash \in 1 .. Len(idx) + 1 /\ o = NHash + (o - NHash)
        BY <1>1, <2>2
    <2>4. o - NHash = Len(idx) + 1 <=> o = NHash + 1 + Len(idx)
        BY <1>1, <2>2
    <2> QED
        BY <1>1, <2>1, <2>3, <2>4
<1>4. idx' = Put(idx, i, r) /\ hdr' = hdr /\ dat' = dat
    BY DEF WriteIdx
<1> HIDE DEF r, i
<1>5. /\ Len(idx') = IF i = Len(idx) + 1 THEN Len(idx) + 1 ELSE Len(idx)
      /\ idx'[i] = r
      /\ \A j \in 1 .. Len(idx) : j # i => idx'[j] = idx[j]
    BY <1>2, <1>3, <1>4, PutSeq
<1>6. Records' = FirstRec .. FirstRec + Len(idx') - 1
    BY <1>1, <1>5 DEF Records, IdxEnd
<1>7. Records' = Records \cup {f.idxoff}
    <2>1. CASE i = Len(idx) + 1
        <3>1. /\ Records' = FirstRec .. FirstRec + Len(idx) + 1 - 1 /\ f.idxoff = FirstRec + Len(idx)
            BY <1>1, <1>3, <1>5, <1>6, <2>1
        <3> QED
            BY <1>1, <3>1
    <2>2. CASE i # Len(idx) + 1
        BY <1>1, <1>3, <1>5, <1>6, <2>2
    <2> QED
        BY <2>1, <2>2
<1>8. RecAt(f.idxoff)' = r
    <2>1. RecAt(f.idxoff)' = idx'[f.idxoff' - NHash] \/ f.idxoff - NHash = i
        BY DEF i
    <2> QED
        BY <1>5 DEF RecAt, i
<1>9. ASSUME NEW x \in Records, x # f.idxoff PROVE RecAt(x)' = RecAt(x)
    <2>1. x - NHash \in 1 .. Len(idx) /\ x - NHash # i
        BY <1>1, <1>3, <1>9
    <2> QED
        BY <1>5, <2>1 DEF RecAt
<1> QED
    BY <1>1, <1>4, <1>7, <1>8, <1>9 DEF r

\* _db_writeptr writes one pointer field.
LEMMA PtrWritten ==
    ASSUME TypeOK, NEW a \in Header \cup Records, NEW v \in Ptrs, WritePtr(a, v)
    PROVE  /\ dat' = dat /\ Records' = Records
           /\ \A c \in Header : hdr'[c] = IF c = a THEN v ELSE hdr[c]
           /\ \A x \in Records : /\ x # a => RecAt(x)' = RecAt(x)
                                 /\ RecAt(x)' = [RecAt(x) EXCEPT !.ptr = IF x = a THEN v ELSE @]
<1>1. /\ FilesOK /\ DOMAIN hdr = Header /\ Header \cap Records = {}
      /\ \A x \in Records : RecAt(x) = idx[x - NHash] /\ x - NHash \in DOMAIN idx /\ RecAt(x) \in IdxRecord /\ x \in Nat
      /\ NHash \in Nat
    <2>1. \A x \in Records : x \in Nat
        BY FileFacts DEF TypeOK
    <2> QED
        BY <2>1, FileFacts DEF TypeOK, FilesOK
<1>2. CASE a \in Header
    <2>1. hdr' = [hdr EXCEPT ![a] = v] /\ idx' = idx /\ dat' = dat
        BY <1>2 DEF WritePtr
    <2>2. Records' = Records /\ \A x : RecAt(x)' = RecAt(x)
        BY <2>1 DEF Records, IdxEnd, RecAt
    <2>3. \A x \in Records : x # a /\ RecAt(x) = [RecAt(x) EXCEPT !.ptr = @]
        BY <1>1, <1>2 DEF IdxRecord
    <2> QED
        BY <1>1, <1>2, <2>1, <2>2, <2>3
<1>3. CASE a \in Records
    <2>1. hdr' = hdr /\ idx' = [idx EXCEPT ![a - NHash].ptr = v] /\ dat' = dat
        BY <1>1, <1>3 DEF WritePtr
    <2>2. Len(idx') = Len(idx)
        BY <1>1, <2>1 DEF FilesOK
    <2>3. Records' = Records
        BY <2>2 DEF Records, IdxEnd
    <2>4. ASSUME NEW x \in Records, x # a PROVE RecAt(x)' = RecAt(x)
        <3>1. x - NHash # a - NHash
            BY <1>1, <1>3, <2>4
        <3> QED
            BY <1>1, <2>1, <3>1 DEF RecAt
    <2>5. RecAt(a)' = [RecAt(a) EXCEPT !.ptr = v]
        <3>1. RecAt(a)' = idx'[a - NHash]
            BY DEF RecAt
        <3> QED
            BY <1>1, <1>3, <2>1, <3>1
    <2>6. \A x \in Records : RecAt(x) = [RecAt(x) EXCEPT !.ptr = @]
        BY <1>1 DEF IdxRecord
    <2> QED
        BY <1>1, <1>3, <2>1, <2>3, <2>4, <2>5, <2>6
<1> QED
    BY <1>2, <1>3

\* The records after a step, by number and by offset.
LEMMA RecNumbers ==
    ASSUME FilesOK'
    PROVE  /\ \A i \in DOMAIN idx' : i + NHash \in Records' /\ RecAt(i + NHash)' = idx'[i]
           /\ \A x \in Records' : x - NHash \in DOMAIN idx' /\ RecAt(x)' = idx'[x - NHash]
           /\ \A i, j \in DOMAIN idx' : i + NHash = j + NHash => i = j
<1>1. /\ NHash \in Nat /\ FirstRec = NHash + 1 /\ Len(idx') \in Nat /\ DOMAIN idx' = 1 .. Len(idx')
      /\ Records' = FirstRec .. FirstRec + Len(idx') - 1
    <2>1. NHash \in Nat /\ FirstRec = NHash + 1
        BY ParamAssumption DEF FirstRec
    <2>2. Len(idx') \in Nat /\ DOMAIN idx' = 1 .. Len(idx')
        BY DEF FilesOK
    <2>3. Records' = FirstRec .. FirstRec + Len(idx') - 1
        BY <2>1, <2>2 DEF Records, IdxEnd
    <2> QED
        BY <2>1, <2>2, <2>3
<1>2. ASSUME NEW i \in DOMAIN idx' PROVE i + NHash \in Records' /\ RecAt(i + NHash)' = idx'[i]
    <2>1. i + NHash \in Records' /\ (i + NHash) - NHash = i
        BY <1>1
    <2>2. RecAt(i + NHash)' = idx'[(i + NHash) - NHash]
        BY DEF RecAt
    <2> QED
        BY <2>1, <2>2
<1>3. ASSUME NEW x \in Records' PROVE x - NHash \in DOMAIN idx' /\ RecAt(x)' = idx'[x - NHash]
    BY <1>1 DEF RecAt
<1> QED
    BY <1>1, <1>2, <1>3

\* A step of p that writes index record w, or none, and pointer fields of its
\* chain or of the free list, leaves to the others what they know.
LEMMA WriterFrame ==
    ASSUME Files, NEW L, Listed(L), NEW L1, NEW p \in Procs, pc[p] \in Writing, Begin(p) \/ Step(p),
           NEW w, dat' = dat,
           \A x \in Records : x # w => RecAt(x)' = RecAt(x),
           \A c \in Header : c # Chain(p) /\ (c = FREE_OFF => pc[p] \notin InFree)
                             => L1[c] = L[c] /\ hdr'[c] = hdr[c] /\ w \notin L[c].set,
           \A q \in Procs \ {p} : Holding(q) \/ At(q, "scandat") => h[q].idxoff # w,
           \A x \in Records' : \/ x \in Records /\ RecAt(x)'.datoff = RecAt(x).datoff
                               \/ pc[p] = "newidx" /\ RecAt(x)'.datoff = h[p].datoff,
           NEW q \in Procs \ {p}
    PROVE  Knows(q, L1)'
<1>1. /\ pc'[q] = pc[q] /\ call'[q] = call[q] /\ h'[q] = h[q] /\ Records \subseteq Records'
      /\ FilesOK' /\ LockInv /\ TypeOK /\ Lists(L) /\ Knows(q, L)
    BY StepFacts DEF Files, TypeOK, Listed
<1>2. ASSUME NEW c \in Header, c # Chain(p), c = FREE_OFF => pc[p] \notin InFree
      PROVE  L1[c] = L[c] /\ Untouched(c, L[c])
    <2>1. L1[c] = L[c] /\ hdr'[c] = hdr[c] /\ w \notin L[c].set
        BY <1>2
    <2>2. \A x \in L[c].set : RecAt(x)' = RecAt(x)
        BY <1>1, <2>1, ListFacts
    <2> QED
        BY <2>1, <2>2 DEF Untouched
<1>3. pc[q] \in InChain => L1[Chain(q)] = L[Chain(q)] /\ Untouched(Chain(q), L[Chain(q)])
    BY <1>1, <1>2, WriterAlone, HeaderFacts
<1>4. pc[q] \in InFree => L1[FREE_OFF] = L[FREE_OFF] /\ Untouched(FREE_OFF, L[FREE_OFF])
    BY <1>1, <1>2, WriterAlone
<1>5. Holding(q) \/ At(q, "scandat") => RecAt(h[q].idxoff)' = RecAt(h[q].idxoff)
    <2>1. Holding(q) => h[q].idxoff \in Records
        BY DEF Files, TypeOK, HandleOK, HasIdx, Holding
    <2>2. At(q, "scandat") => h[q].idxoff \in Records
        BY <1>1 DEF Knows, Scanned
    <2>3. PICK x : x = h[q].idxoff
        OBVIOUS
    <2>4. Holding(q) \/ At(q, "scandat") => RecAt(x)' = RecAt(x)
        BY <2>1, <2>2, <2>3
    <2>5. RecAt(h[q].idxoff)' = RecAt(x)'
        BY <1>1, <2>3 DEF RecAt
    <2> QED
        BY <2>3, <2>4, <2>5
<1>6. pc[q] \in {"locknewidx", "newidx"} => \A i \in DOMAIN idx' : idx'[i].datoff # h[q].datoff
    <2> SUFFICES ASSUME pc[q] \in {"locknewidx", "newidx"}, NEW i \in DOMAIN idx' PROVE idx'[i].datoff # h[q].datoff
        OBVIOUS
    <2>1. i + NHash \in Records' /\ RecAt(i + NHash)' = idx'[i]
        BY <1>1, RecNumbers
    <2>2. \A j \in DOMAIN idx : idx[j].datoff # h[q].datoff
        BY <1>1 DEF Knows, OwnData
    <2>3. \A x \in Records : RecAt(x) = idx[x - NHash] /\ x - NHash \in DOMAIN idx
        BY <1>1, FileFacts DEF TypeOK
    <2>4. pc[p] = "newidx" => h[p].datoff # h[q].datoff
        BY DEF Files, Hands
    <2> QED
        BY <2>1, <2>2, <2>3, <2>4
<1>7. Frame(q, L, L1)
    BY <1>1, <1>3, <1>4, <1>5, <1>6 DEF Frame
<1> QED
    BY <1>1, <1>7, FrameKnows

\* A record other than the one that p has in its handle stays where it was.
LEMMA BelongsStays ==
    ASSUME NEW p \in Procs, NEW o, o = h[p].idxoff, NEW x, x # o, RecAt(x)'.key = RecAt(x).key,
           \A q \in Procs \ {p} : pc'[q] = pc[q] /\ call'[q] = call[q] /\ h'[q] = h[q],
           Dying(p)' \/ Holding(p)' => h'[p].idxoff = o
    PROVE  /\ \A q \in Procs : Killed(x, q)' <=> Killed(x, q)
           /\ \A q \in Procs : Killed(x, q) => Chain(q)' = Chain(q) /\ h'[q] = h[q]
           /\ (\A d : Belongs(x, d)' <=> Belongs(x, d)) /\ (InHand(x)' <=> InHand(x))
<1>1. \A q \in Procs \ {p} : pc'[q] = pc[q] /\ h'[q] = h[q] /\ Chain(q)' = Chain(q)
    BY DEF Chain
<1>2. ASSUME NEW q \in Procs
      PROVE  (Killed(x, q)' <=> Killed(x, q)) /\ (Killed(x, q) => Chain(q)' = Chain(q) /\ h'[q] = h[q])
    <2>1. CASE q = p
        BY <2>1 DEF Killed
    <2>2. CASE q # p
        <3>1. pc'[q] = pc[q] /\ h'[q] = h[q] /\ Chain(q)' = Chain(q)
            BY <1>1, <2>2
        <3> QED
            BY <3>1 DEF Killed, Dying
    <2> QED
        BY <2>1, <2>2
<1>3. InHand(x)' <=> InHand(x)
    <2>1. InHand(x) <=> x > PtrMax \/ \E q \in Procs : Holding(q) /\ h[q].idxoff = x
        BY DEF InHand, Holding
    <2>2. InHand(x)' <=> x > PtrMax \/ \E q \in Procs : Holding(q)' /\ h'[q].idxoff = x
        BY DEF InHand, Holding
    <2>3. \A q \in Procs : Holding(q)' /\ h'[q].idxoff = x <=> Holding(q) /\ h[q].idxoff = x
        <3> TAKE q \in Procs
        <3>1. CASE q = p
            BY <3>1
        <3>2. CASE q # p
            BY <1>1, <3>2 DEF Holding
        <3> QED
            BY <3>1, <3>2
    <2> QED
        BY <2>1, <2>2, <2>3
<1>4. (\A q \in Procs : At(q, "delfree")' => h'[q].idxoff # x)
      <=> \A q \in Procs : At(q, "delfree") => h[q].idxoff # x
    BY DEF At, Dying
<1>5. ASSUME NEW d PROVE Belongs(x, d)' <=> Belongs(x, d)
    <2>1. (\E q \in Procs : Killed(x, q)' /\ Chain(q)' = d) <=> \E q \in Procs : Killed(x, q) /\ Chain(q) = d
        BY <1>2
    <2> QED
        BY <1>3, <1>4, <2>1 DEF Belongs
<1> QED
    BY <1>2, <1>3, <1>5

\* A step in which record o changes, and perhaps one pointer to it, makes l1 of
\* list l from field d.
Edited(o, d, l, l1) ==
    /\ l1 \in ListShape /\ Ranked(hdr'[d], l1) /\ l1.set \ {o} = l.set \ {o}
    /\ \A x \in l1.set \ {o} : \/ l1.next[x] = l.next[x] /\ RecAt(x)'.ptr = RecAt(x).ptr
                               \/ l1.next[x] = RecAt(x)'.ptr /\ \A q \in Procs : ~Killed(x, q)
    /\ o \in l1.set <=> Belongs(o, d)'
    /\ o \in l1.set =>
          /\ d = FREE_OFF \/ RecAt(o)'.key # Blank => l1.next[o] = RecAt(o)'.ptr
          /\ \A q \in Procs : Killed(o, q)' /\ Chain(q)' = d => l1.next[o] = h'[q].ptrval

\* What all steps of p that write in the index file have in common.
Rewrites(p, o) ==
    /\ o = h[p].idxoff /\ o \in Records' /\ Records \subseteq Records' /\ Records' \subseteq Records \cup {o}
    /\ Dying(p)' \/ Holding(p)' => h'[p].idxoff = o
    /\ \A x \in Records \ {o} : /\ RecAt(x)'.key = RecAt(x).key /\ RecAt(x)'.datoff = RecAt(x).datoff
                                /\ RecAt(x)'.datlen = RecAt(x).datlen
    /\ dat' = dat
    /\ \A q \in Procs \ {p} : pc'[q] = pc[q] /\ call'[q] = call[q] /\ h'[q] = h[q]

\* The edited list is what the files have then.
LEMMA EditedList ==
    ASSUME TypeOK, NEW L, Lists(L), NEW d \in Header, NEW p \in Procs, NEW o, Rewrites(p, o),
           NEW l1, Edited(o, d, L[d], l1)
    PROVE  IsList(d, l1)'
<1> DEFINE l == L[d]
<1>1. /\ \A x \in Records : x \in l.set <=> Belongs(x, d)
      /\ l.set \subseteq Records
      /\ \A x \in l.set : /\ d = FREE_OFF \/ RecAt(x).key # Blank => l.next[x] = RecAt(x).ptr
                          /\ \A q \in Procs : Killed(x, q) /\ Chain(q) = d => l.next[x] = h[q].ptrval
    BY ListFacts
<1>2. ASSUME NEW x \in Records \ {o}
      PROVE  /\ Belongs(x, d)' <=> Belongs(x, d)
             /\ \A q \in Procs : Killed(x, q)' => Killed(x, q) /\ Chain(q)' = Chain(q) /\ h'[q] = h[q]
    BY BelongsStays DEF Rewrites
<1> HIDE DEF l
<1>3. Edited(o, d, l, l1)
    BY DEF l
<1>4. ASSUME NEW x \in Records' PROVE x \in l1.set <=> Belongs(x, d)'
    <2>1. CASE x = o
        BY <1>3, <2>1 DEF Edited
    <2>2. CASE x # o
        <3>1. x \in Records \ {o}
            BY <2>2 DEF Rewrites
        <3> QED
            BY <1>1, <1>2, <1>3, <3>1 DEF Edited
    <2> QED
        BY <2>1, <2>2
<1>5. l1.set \subseteq Records'
    BY <1>1, <1>3 DEF Edited, Rewrites
<1>6. ASSUME NEW x \in l1.set
      PROVE  /\ d = FREE_OFF \/ RecAt(x)'.key # Blank => l1.next[x] = RecAt(x)'.ptr
             /\ \A q \in Procs : Killed(x, q)' /\ Chain(q)' = d => l1.next[x] = h'[q].ptrval
    <2>1. CASE x = o
        BY <1>3, <2>1 DEF Edited
    <2>2. CASE x # o
        <3>1. x \in Records \ {o} /\ x \in l.set /\ x \in l1.set \ {o}
            BY <1>1, <1>3, <2>2 DEF Edited
        <3>2. RecAt(x)'.key = RecAt(x).key
            BY <3>1 DEF Rewrites
        <3>3. CASE l1.next[x] = l.next[x] /\ RecAt(x)'.ptr = RecAt(x).ptr
            BY <1>1, <1>2, <3>1, <3>2, <3>3
        <3>4. CASE l1.next[x] = RecAt(x)'.ptr /\ \A q \in Procs : ~Killed(x, q)
            BY <1>2, <3>1, <3>4
        <3> QED
            BY <1>3, <3>1, <3>3, <3>4 DEF Edited
    <2> QED
        BY <2>1, <2>2
<1>7. l1.set = {x \in Records' : Belongs(x, d)'}
    BY <1>4, <1>5
<1>8. Ranked(hdr'[d], l1)
    BY <1>3 DEF Edited
<1> QED
    BY <1>6, <1>7, <1>8 DEF IsList

\* A list that has no record more or less, and no other pointer.
LEMMA SameList ==
    ASSUME TypeOK, NEW L, Lists(L), NEW d \in Header, NEW o, hdr'[d] = hdr[d],
           \A x \in L[d].set \ {o} : RecAt(x)'.ptr = RecAt(x).ptr,
           o \in L[d].set <=> Belongs(o, d)',
           o \in L[d].set =>
              /\ d = FREE_OFF \/ RecAt(o)'.key # Blank => L[d].next[o] = RecAt(o)'.ptr
              /\ \A q \in Procs : Killed(o, q)' /\ Chain(q)' = d => L[d].next[o] = h'[q].ptrval
    PROVE  Edited(o, d, L[d], L[d])
BY ListFacts DEF Edited

\* The lists of p's step, once each is edited as it should.
LEMMA WriterLists ==
    ASSUME Files, NEW L, Listed(L), NEW p \in Procs, pc[p] \in Writing, Begin(p) \/ Step(p),
           NEW o, Rewrites(p, o), NEW w,
           \A x \in Records : x # w => RecAt(x)' = RecAt(x),
           NEW L1 \in [Header -> ListShape], \A d \in Header : Edited(o, d, L[d], L1[d]),
           \A c \in Header : c # Chain(p) /\ (c = FREE_OFF => pc[p] \notin InFree)
                             => L1[c] = L[c] /\ hdr'[c] = hdr[c] /\ w \notin L[c].set,
           \A q \in Procs \ {p} : Holding(q) \/ At(q, "scandat") => h[q].idxoff # w,
           \/ o \in Records /\ RecAt(o)'.datoff = RecAt(o).datoff
           \/ pc[p] = "newidx" /\ RecAt(o)'.datoff = h[p].datoff,
           Knows(p, L1)'
    PROVE  Listed(L1)'
<1>1. \A d \in Header : IsList(d, L1[d])'
    BY EditedList DEF Files, Listed
<1>2. \A x \in Records' : \/ x \in Records /\ RecAt(x)'.datoff = RecAt(x).datoff
                          \/ pc[p] = "newidx" /\ RecAt(x)'.datoff = h[p].datoff
    BY DEF Rewrites
<1>3. dat' = dat
    BY DEF Rewrites
<1>4. \A q \in Procs \ {p} : Knows(q, L1)'
    BY <1>2, <1>3, WriterFrame
<1>5. Lists(L1)'
    BY <1>1 DEF Lists
<1>6. \A q \in Procs : Knows(q, L1)'
    <2> TAKE q \in Procs
    <2>1. CASE q = p
        BY <2>1
    <2>2. CASE q # p
        BY <1>4, <2>2
    <2> QED
        BY <2>1, <2>2
<1> QED
    BY <1>5, <1>6 DEF Listed

\* Keys stay unique if the record that changes is out of the lists, is deleted,
\* or is the only one with its key.
LEMMA WriterKeys ==
    ASSUME Files, NEW p \in Procs, NEW o, Rewrites(p, o),
           \/ InHand(o)' \/ RecAt(o)'.key = Blank
           \/ \A x \in Records \ {o} : RecAt(x).key = RecAt(o)'.key => InHand(x)
    PROVE  KeysUnique'
<1>1. ASSUME NEW x \in Records \ {o}
      PROVE  x \in Records /\ RecAt(x)'.key = RecAt(x).key /\ (InHand(x)' <=> InHand(x))
    BY BelongsStays DEF Rewrites
<1>2. \A x \in Records' : x = o \/ x \in Records \ {o}
    BY DEF Rewrites
<1>3. ASSUME NEW x \in Records', NEW y \in Records', RecAt(x)'.key = RecAt(y)'.key, RecAt(x)'.key # Blank,
             ~InHand(x)', ~InHand(y)'
      PROVE  x = y
    <2>1. CASE x = o
        BY <1>1, <1>2, <1>3, <2>1
    <2>2. CASE y = o
        BY <1>1, <1>2, <1>3, <2>2
    <2>3. CASE x # o /\ y # o
        BY <1>1, <1>2, <1>3, <2>3 DEF Files, KeysUnique
    <2> QED
        BY <2>1, <2>2, <2>3
<1> QED
    BY <1>3 DEF KeysUnique

\* Each record keeps its data for itself if the one that changes does.
LEMMA WriterData ==
    ASSUME Files, TypeOK', NEW p \in Procs, NEW o, Rewrites(p, o), pc'[p] # "delidx",
           \/ o \in Records /\ RecAt(o)'.datoff = RecAt(o).datoff
           \/ \A i \in DOMAIN idx : idx[i].datoff # RecAt(o)'.datoff,
           dat[RecAt(o)'.datoff].len = RecAt(o)'.datlen,
           RecAt(o)'.key # Blank => LET d == dat[RecAt(o)'.datoff]
                                    IN  d.val \in Data[RecAt(o)'.key] /\ DatLen[d.val] = d.len,
           \A q \in Procs : At(q, "delidx") /\ q # p => h[q].idxoff # o
    PROVE  DataOwned'
<1>1. ASSUME NEW x \in Records', x # o
      PROVE  /\ x \in Records /\ RecAt(x)'.key = RecAt(x).key /\ RecAt(x)'.datoff = RecAt(x).datoff
             /\ RecAt(x)'.datlen = RecAt(x).datlen /\ dat'[RecAt(x).datoff] = dat[RecAt(x).datoff]
    BY <1>1 DEF Rewrites
<1>2. dat' = dat
    BY DEF Rewrites
<1>3. ASSUME NEW x \in Records', NEW y \in Records', RecAt(x)'.datoff = RecAt(y)'.datoff PROVE x = y
    <2>1. \A i, j \in DOMAIN idx : idx[i].datoff = idx[j].datoff => i = j
        BY DEF Files, DataOwned
    <2>2. \A z \in Records : RecAt(z) = idx[z - NHash] /\ z - NHash \in DOMAIN idx /\ z \in Nat
        BY FileFacts DEF Files, TypeOK
    <2>3. NHash \in Nat
        BY FileFacts DEF Files, TypeOK
    <2>4. \A a, b \in Records : RecAt(a).datoff = RecAt(b).datoff => a = b
        BY <2>1, <2>2, <2>3
    <2>5. CASE x = o \/ y = o
        BY <1>1, <1>3, <2>2, <2>4, <2>5
    <2>6. CASE x # o /\ y # o
        BY <1>1, <1>3, <2>4, <2>6
    <2> QED
        BY <2>5, <2>6
<1>4. \A i, j \in DOMAIN idx' : idx'[i].datoff = idx'[j].datoff => i = j
    <2>1. FilesOK'
        BY DEF TypeOK
    <2>2. /\ \A i \in DOMAIN idx' : i + NHash \in Records' /\ RecAt(i + NHash)' = idx'[i]
          /\ \A i, j \in DOMAIN idx' : i + NHash = j + NHash => i = j
        BY <2>1, RecNumbers
    <2> QED
        BY <1>3, <2>2
<1>5. ASSUME NEW x \in Records'
      PROVE  LET d == dat'[RecAt(x)'.datoff]
             IN  /\ d.len = RecAt(x)'.datlen
                 /\ RecAt(x)'.key # Blank =>
                       \/ d.val \in Data[RecAt(x)'.key] /\ DatLen[d.val] = d.len
                       \/ \E q \in Procs : At(q, "delidx")' /\ h'[q].idxoff = x
    <2>1. CASE x = o
        BY <1>2, <2>1
    <2>2. CASE x # o
        <3>1. LET d == dat[RecAt(x).datoff]
              IN  /\ d.len = RecAt(x).datlen
                  /\ RecAt(x).key # Blank =>
                        \/ d.val \in Data[RecAt(x).key] /\ DatLen[d.val] = d.len
                        \/ \E q \in Procs : At(q, "delidx") /\ h[q].idxoff = x
            BY <1>1, <2>2 DEF Files, DataOwned
        <3>2. ASSUME NEW q \in Procs, At(q, "delidx"), h[q].idxoff = x
              PROVE  At(q, "delidx")' /\ h'[q].idxoff = x
            BY <2>2, <3>2 DEF Rewrites, At
        <3> QED
            BY <1>1, <2>2, <3>1, <3>2
    <2> QED
        BY <2>1, <2>2
<1> QED
    BY <1>4, <1>5 DEF DataOwned

\* No record comes into the hands of two.
LEMMA WriterHands ==
    ASSUME Files, NEW p \in Procs, NEW o, Rewrites(p, o), pc'[p] \notin {"locknewidx", "newidx"},
           Holding(p)' => \A q \in Procs \ {p} : Holding(q) => h[q].idxoff # o
    PROVE  Hands'
<1>1. \A q \in Procs \ {p} : pc'[q] = pc[q] /\ h'[q] = h[q] /\ (Holding(q)' <=> Holding(q))
    BY DEF Rewrites, Holding
<1>2. Holding(p)' => h'[p].idxoff = o
    BY DEF Rewrites
<1>3. ASSUME NEW q \in Procs, NEW r \in Procs, Holding(q)', Holding(r)', h'[q].idxoff = h'[r].idxoff PROVE q = r
    <2>1. CASE q = p \/ r = p
        BY <1>1, <1>2, <1>3, <2>1
    <2>2. CASE q # p /\ r # p
        BY <1>1, <1>3, <2>2 DEF Files, Hands
    <2> QED
        BY <2>1, <2>2
<1>4. ASSUME NEW q \in Procs, NEW r \in Procs, {pc'[q], pc'[r]} \subseteq {"locknewidx", "newidx"},
             h'[q].datoff = h'[r].datoff
      PROVE  q = r
    BY <1>1, <1>4 DEF Files, Hands
<1> QED
    BY <1>3, <1>4 DEF Hands

Kept == (\E L1 \in [Header -> ListShape] : Listed(L1)') /\ KeysUnique' /\ DataOwned' /\ Hands'

\* The others have other records in their hands than one on a list.
LEMMA HandsOff ==
    ASSUME TypeOK, NEW L, Lists(L), NEW d \in Header, NEW o \in L[d].set
    PROVE  ~InHand(o) /\ o <= PtrMax /\ \A q \in Procs : Holding(q) => h[q].idxoff # o
<1>1. o \in Records /\ Belongs(o, d)
    BY ListFacts
<1>2. ~InHand(o)
    BY <1>1 DEF Belongs
<1>3. o \in Nat /\ PtrMax \in Nat
    BY <1>1, FileFacts, ParamAssumption DEF TypeOK
<1> QED
    BY <1>2, <1>3 DEF InHand, Holding

\* _db_dodelete's second write: the record is blank, with its chain's lock.
LEMMA DelIdxKeeps ==
    ASSUME Files, NEW L \in [Header -> ListShape], Listed(L), NEW p \in Procs, DelIdx(p)
    PROVE  Kept
<1>1. PICK o, c, f : o = h[p].idxoff /\ c = Chain(p) /\ f = h[p]
    OBVIOUS
<1>2. LockInv /\ TypeOK /\ Lists(L) /\ Knows(p, L) /\ (Begin(p) \/ Step(p)) /\ TypeOK'
    BY StepFacts DEF Files, Listed, Step, Delete
<1>3. /\ pc[p] = "delidx" /\ pc'[p] = "delfree" /\ h' = h /\ call' = call /\ Chain(p)' = c
      /\ \A q \in Procs \ {p} : pc'[q] = pc[q] /\ call'[q] = call[q] /\ h'[q] = h[q]
    BY <1>1, <1>2, StepFacts DEF DelIdx, At, Goto, SameCall, Chain
<1>4. /\ c \in Header /\ c # FREE_OFF /\ FREE_OFF \in Header /\ c = Hash[call[p].key]
      /\ call[p].key \in Keys /\ call[p].key # Blank /\ pc[p] \in InChain
      /\ \A q \in Procs \ {p} : pc[q] \notin InFree \cup InScan /\ ~Dying(q)
    BY <1>1, <1>2, <1>3, WriterAlone DEF Writing, InFree
<1>5. /\ o \in L[c].set /\ RecAt(o).key = call[p].key /\ HasRecord(p)
      /\ f.ptrval = RecAt(o).ptr /\ Leads(c, L[c], f.ptroff, o)
    BY <1>1, <1>2, <1>3, <1>4 DEF Knows, OnChain
<1>6. /\ o \in Records /\ f.datoff \in DOMAIN dat /\ f.datlen \in Nat /\ hdr[FREE_OFF] \in Ptrs
      /\ KeyLen[call[p].key] \in Nat
    <2>1. h[p] \in Handles /\ h[p].datoff \in DOMAIN dat
        BY <1>2, <1>3 DEF TypeOK, HandleOK, HasDat, HasIdx
    <2>2. hdr[FREE_OFF] \in Ptrs
        BY <1>2, <1>4 DEF TypeOK, FilesOK
    <2> QED
        BY <1>1, <1>2, <1>4, <1>5, <2>1, <2>2, ListFacts, ParamAssumption DEF Handles
<1>7. /\ hdr' = hdr /\ dat' = dat /\ Records' = Records
      /\ RecAt(o)' = [key |-> Blank, klen |-> KeyLen[call[p].key], datoff |-> f.datoff,
                      datlen |-> f.datlen, ptr |-> hdr[FREE_OFF]]
      /\ \A x \in Records : x # o => RecAt(x)' = RecAt(x)
    <2>1. WriteIdx(f, Blank, KeyLen[call[p].key], hdr[FREE_OFF])
        BY <1>1, <1>4 DEF DelIdx, WriteIdx, ReadPtr
    <2>2. f.idxoff = o
        BY <1>1
    <2> QED
        BY <1>2, <1>6, <2>1, <2>2, RecWritten
<1>8. RecAt(o)'.datoff = RecAt(o).datoff /\ RecAt(o)'.datlen = RecAt(o).datlen /\ RecAt(o)'.key = Blank
    BY <1>1, <1>5, <1>7 DEF HasRecord
<1>9. Rewrites(p, o)
    BY <1>1, <1>3, <1>6, <1>7 DEF Rewrites
<1>10. ~InHand(o) /\ \A q \in Procs : Holding(q) => h[q].idxoff # o
    BY <1>2, <1>4, <1>5, HandsOff
<1>11. ~InHand(o)'
    <2>1. \A q \in Procs : Holding(q)' => Holding(q)
        BY <1>3 DEF Holding
    <2> QED
        BY <1>3, <1>10, <2>1 DEF InHand, Holding
<1>12. Killed(o, p)' /\ At(p, "delfree")' /\ \A q \in Procs : Killed(o, q)' => q = p
    BY <1>1, <1>3, <1>4 DEF Killed, Dying, At
<1>13. \A d \in Header : (o \in L[d].set <=> d = c) /\ (Belongs(o, d)' <=> d = c)
    <2> TAKE d \in Header
    <2>1. o \in L[d].set <=> d = c
        BY <1>2, <1>4, <1>5, <1>6, <1>10, ListFacts DEF Belongs
    <2>2. Belongs(o, d)' <=> d = c
        BY <1>1, <1>3, <1>4, <1>8, <1>11, <1>12 DEF Belongs
    <2> QED
        BY <2>1, <2>2
<1>14. \A d \in Header : Edited(o, d, L[d], L[d])
    <2> TAKE d \in Header
    <2>1. \A x \in L[d].set \ {o} : RecAt(x)'.ptr = RecAt(x).ptr
        BY <1>2, <1>7, ListFacts
    <2>2. L[c].next[o] = RecAt(o).ptr
        BY <1>2, <1>4, <1>5, ListFacts
    <2>3. o \in L[d].set =>
              /\ d = FREE_OFF \/ RecAt(o)'.key # Blank => L[d].next[o] = RecAt(o)'.ptr
              /\ \A q \in Procs : Killed(o, q)' /\ Chain(q)' = d => L[d].next[o] = h'[q].ptrval
        BY <1>1, <1>3, <1>4, <1>5, <1>8, <1>12, <1>13, <2>2
    <2> QED
        BY <1>2, <1>7, <1>13, <2>1, <2>3, SameList
<1>15. Knows(p, L)'
    <2>1. \A q \in L[c].set : RecAt(q)'.key # call[p].key
        <3> TAKE q \in L[c].set
        <3>1. CASE q = o
            BY <1>4, <1>8, <3>1
        <3>2. CASE q # o
            <4>1. q \in Records /\ ~InHand(q)
                BY <1>2, <1>4, HandsOff, ListFacts
            <4>2. RecAt(q).key # call[p].key
                BY <1>4, <1>5, <1>6, <1>10, <3>2, <4>1 DEF Files, KeysUnique
            <4> QED
                BY <1>7, <3>2, <4>1, <4>2
        <3> QED
            BY <3>1, <3>2
    <2>2. Leads(c, L[c], f.ptroff, o)'
        <3>1. \A a \in Records \ {o} : ReadPtr(a)' = ReadPtr(a)
            BY <1>7 DEF ReadPtr
        <3>2. ReadPtr(c)' = ReadPtr(c)
            BY <1>4, <1>7 DEF ReadPtr
        <3>3. L[c].set \subseteq Records
            BY <1>2, <1>4, ListFacts
        <3> QED
            BY <1>5, <3>1, <3>2, <3>3 DEF Leads
    <2>3. OnChain(p, L[c])'
        BY <1>1, <1>3, <1>5, <1>8, <2>1, <2>2 DEF OnChain, Storing
    <2>4. RecAt(o)'.ptr = hdr'[FREE_OFF]
        BY <1>7
    <2>5. OnFree(p, L[FREE_OFF])' /\ OwnRecord(p)' /\ OwnData(p)' /\ Scanned(p)'
        BY <1>1, <1>3, <2>4 DEF OnFree, OwnRecord, OwnData, Scanned, At
    <2> QED
        BY <1>3, <2>3, <2>5 DEF Knows
<1>16. Listed(L)'
    <2>1. \A d \in Header : d # c => o \notin L[d].set
        BY <1>13
    <2>2. \A q \in Procs \ {p} : Holding(q) \/ At(q, "scandat") => h[q].idxoff # o
        BY <1>4, <1>10 DEF At, InScan
    <2>3. pc[p] \in Writing
        BY <1>3 DEF Writing
    <2> QED
        BY <1>1, <1>2, <1>6, <1>7, <1>8, <1>9, <1>14, <1>15, <2>1, <2>2, <2>3, WriterLists
<1>17. KeysUnique'
    BY <1>8, <1>9, WriterKeys
<1>18. DataOwned'
    <2>1. dat[RecAt(o).datoff].len = RecAt(o).datlen
        BY <1>6 DEF Files, DataOwned
    <2>2. \A q \in Procs : At(q, "delidx") => q = p
        BY <1>4 DEF At, InFree
    <2> QED
        BY <1>2, <1>3, <1>6, <1>8, <1>9, <2>1, <2>2, WriterData
<1>19. Hands'
    BY <1>3, <1>9, WriterHands DEF Holding
<1> QED
    BY <1>16, <1>17, <1>18, <1>19 DEF Kept

\* Its third: the record goes to the front of the free list.
LEMMA DelFreeKeeps ==
    ASSUME Files, NEW L \in [Header -> ListShape], Listed(L), NEW p \in Procs, DelFree(p)
    PROVE  Kept
<1>1. PICK o, c, f : o = h[p].idxoff /\ c = Chain(p) /\ f = h[p]
    OBVIOUS
<1>2. LockInv /\ TypeOK /\ Lists(L) /\ Knows(p, L) /\ (Begin(p) \/ Step(p)) /\ TypeOK'
    BY StepFacts DEF Files, Listed, Step, Delete
<1>3. /\ pc[p] = "delfree" /\ pc'[p] = "delunlink" /\ h' = h /\ call' = call /\ Chain(p)' = c
      /\ \A q \in Procs \ {p} : pc'[q] = pc[q] /\ call'[q] = call[q] /\ h'[q] = h[q]
    BY <1>1, <1>2, StepFacts DEF DelFree, At, Goto, SameCall, Chain
<1>4. /\ c \in Header /\ c # FREE_OFF /\ FREE_OFF \in Header /\ pc[p] \in InChain
      /\ \A q \in Procs \ {p} : pc[q] \notin InFree \cup InScan /\ ~Dying(q)
    BY <1>1, <1>2, <1>3, WriterAlone DEF Writing, InFree
<1>5. /\ o \in L[c].set /\ RecAt(o).key = Blank /\ Leads(c, L[c], f.ptroff, o)
      /\ \A q \in L[c].set : RecAt(q).key # call[p].key
      /\ RecAt(o).ptr = hdr[FREE_OFF]
    BY <1>1, <1>2, <1>3, <1>4 DEF Knows, OnChain, OnFree
<1>6. o \in Records /\ o \in Nat \ {0} /\ \A x \in Records : x \notin Header
    BY <1>2, <1>4, <1>5, ListFacts, FileFacts DEF TypeOK
<1>7. /\ dat' = dat /\ Records' = Records
      /\ \A d \in Header : hdr'[d] = IF d = FREE_OFF THEN o ELSE hdr[d]
      /\ \A x \in Records : RecAt(x)' = RecAt(x)
    <2>1. WritePtr(FREE_OFF, o) /\ o \in Ptrs /\ FREE_OFF \in Header \cup Records
        BY <1>1, <1>4, <1>6 DEF DelFree, WritePtr, Ptrs
    <2> QED
        BY <1>2, <1>4, <1>6, <2>1, PtrWritten
<1>8. Rewrites(p, o)
    BY <1>1, <1>3, <1>6, <1>7 DEF Rewrites
<1>9. ~InHand(o) /\ \A q \in Procs : Holding(q) => h[q].idxoff # o
    BY <1>2, <1>4, <1>5, HandsOff
<1>10. ~InHand(o)'
    <2>1. \A q \in Procs : Holding(q)' => Holding(q)
        BY <1>3 DEF Holding
    <2> QED
        BY <1>3, <1>9, <2>1 DEF InHand, Holding
<1>11. /\ Killed(o, p) /\ Killed(o, p)' /\ At(p, "delfree")
       /\ (\A q \in Procs : Killed(o, q)' => q = p) /\ \A q \in Procs : Killed(o, q) => q = p
       /\ \A q \in Procs : ~At(q, "delfree")'
    BY <1>1, <1>3, <1>4 DEF Killed, Dying, At, InFree
<1>12. \A d \in Header : /\ o \in L[d].set <=> d = c
                         /\ Belongs(o, d)' <=> d = c \/ d = FREE_OFF
    <2> TAKE d \in Header
    <2>1. o \in L[d].set <=> d = c
        <3>1. Belongs(o, d) <=> d = c
            BY <1>1, <1>4, <1>5, <1>9, <1>11 DEF Belongs
        <3> QED
            BY <1>2, <1>6, <3>1, ListFacts
    <2>2. Belongs(o, d)' <=> d = c \/ d = FREE_OFF
        BY <1>3, <1>4, <1>5, <1>6, <1>7, <1>10, <1>11 DEF Belongs
    <2> QED
        BY <2>1, <2>2
<1>13. PICK m, L1 : m = AddFront(L[FREE_OFF], hdr[FREE_OFF], o) /\ L1 = [L EXCEPT ![FREE_OFF] = m]
    OBVIOUS
<1>14. /\ m \in ListShape /\ Ranked(o, m)
       /\ m.set = L[FREE_OFF].set \cup {o} /\ m.next[o] = hdr[FREE_OFF]
       /\ \A q \in L[FREE_OFF].set : m.next[q] = L[FREE_OFF].next[q]
    <2>1. L[FREE_OFF] \in ListShape /\ Ranked(hdr[FREE_OFF], L[FREE_OFF])
        BY <1>2, <1>4, ListFacts
    <2>2. o \in (Nat \ {0}) \ L[FREE_OFF].set
        BY <1>4, <1>6, <1>12
    <2> QED
        BY <1>13, <2>1, <2>2, RankedInsert
<1>15. /\ L1 \in [Header -> ListShape] /\ L1[FREE_OFF] = m
       /\ \A d \in Header : d # FREE_OFF => L1[d] = L[d]
    BY <1>4, <1>13, <1>14
<1>16. \A d \in Header : Edited(o, d, L[d], L1[d])
    <2>1. Edited(o, FREE_OFF, L[FREE_OFF], m)
        <3>1. hdr'[FREE_OFF] = o /\ \A x \in L[FREE_OFF].set : RecAt(x)' = RecAt(x)
            BY <1>2, <1>4, <1>7, ListFacts
        <3>2. RecAt(o)'.ptr = hdr[FREE_OFF] /\ Belongs(o, FREE_OFF)'
            BY <1>4, <1>5, <1>6, <1>7, <1>12
        <3>3. \A q \in Procs : Killed(o, q)' => Chain(q)' # FREE_OFF
            BY <1>3, <1>4, <1>11
        <3> QED
            BY <1>14, <3>1, <3>2, <3>3 DEF Edited
    <2>2. ASSUME NEW d \in Header, d # FREE_OFF PROVE Edited(o, d, L[d], L[d])
        <3>1. \A x \in L[d].set \ {o} : RecAt(x)'.ptr = RecAt(x).ptr
            BY <1>2, <1>7, ListFacts
        <3>2. o \in L[d].set =>
                  /\ d = FREE_OFF \/ RecAt(o)'.key # Blank => L[d].next[o] = RecAt(o)'.ptr
                  /\ \A q \in Procs : Killed(o, q)' /\ Chain(q)' = d => L[d].next[o] = h'[q].ptrval
            <4>1. L[c].next[o] = h[p].ptrval
                BY <1>1, <1>2, <1>4, <1>5, <1>11, ListFacts
            <4> QED
                BY <1>3, <1>5, <1>6, <1>7, <1>11, <1>12, <2>2, <4>1
        <3> QED
            BY <1>2, <1>7, <1>12, <2>2, <3>1, <3>2, SameList
    <2> QED
        BY <1>15, <2>1, <2>2
<1>17. Knows(p, L1)'
    <2>1. L[c].set \subseteq Records
        BY <1>2, <1>4, ListFacts
    <2>2. Leads(c, L[c], f.ptroff, o)'
        <3>1. \A a \in Records : ReadPtr(a)' = ReadPtr(a)
            BY <1>6, <1>7 DEF ReadPtr
        <3>2. ReadPtr(c)' = ReadPtr(c)
            BY <1>4, <1>7 DEF ReadPtr
        <3> QED
            BY <1>5, <2>1, <3>1, <3>2 DEF Leads
    <2>3. OnChain(p, L[c])'
        BY <1>1, <1>3, <1>5, <1>6, <1>7, <2>1, <2>2 DEF OnChain, Storing
    <2>4. hdr'[FREE_OFF] = o
        BY <1>4, <1>7
    <2>5. OnFree(p, m)' /\ OwnRecord(p)' /\ OwnData(p)' /\ Scanned(p)'
        BY <1>1, <1>3, <2>4 DEF OnFree, OwnRecord, OwnData, Scanned, At
    <2> QED
        BY <1>3, <1>4, <1>15, <2>3, <2>5 DEF Knows
<1>18. Listed(L1)'
    <2>1. \A d \in Header : 0 \notin L[d].set
        BY <1>2, ListFacts
    <2>2. \A q \in Procs \ {p} : Holding(q) \/ At(q, "scandat") => h[q].idxoff # 0
        <3>1. \A q \in Procs : Holding(q) => h[q].idxoff \in Records
            BY <1>2 DEF TypeOK, HandleOK, HasIdx, Holding
        <3>2. 0 \notin Records
            BY <1>2, <1>4, ListFacts
        <3> QED
            BY <1>4, <3>1, <3>2 DEF At, InScan
    <2>3. pc[p] \in Writing /\ pc[p] \in InFree
        BY <1>3 DEF Writing, InFree
    <2>4. RecAt(o)'.datoff = RecAt(o).datoff /\ \A x \in Records : x # 0 => RecAt(x)' = RecAt(x)
        BY <1>6, <1>7
    <2>5. \A d \in Header : d # Chain(p) /\ (d = FREE_OFF => pc[p] \notin InFree)
                             => L1[d] = L[d] /\ hdr'[d] = hdr[d] /\ 0 \notin L[d].set
        BY <1>7, <1>15, <2>1, <2>3
    <2> QED
        BY <1>2, <1>6, <1>8, <1>15, <1>16, <1>17, <2>2, <2>3, <2>4, <2>5, WriterLists
<1>19. RecAt(o)' = RecAt(o)
    BY <1>6, <1>7
<1>20. KeysUnique'
    BY <1>5, <1>8, <1>19, WriterKeys
<1>21. DataOwned'
    <2>1. dat[RecAt(o).datoff].len = RecAt(o).datlen
        BY <1>6 DEF Files, DataOwned
    <2>2. \A q \in Procs : q # p => ~At(q, "delidx")
        BY <1>4 DEF At, InFree
    <2> QED
        BY <1>2, <1>3, <1>5, <1>6, <1>8, <1>19, <2>1, <2>2, WriterData
<1>22. Hands'
    BY <1>3, <1>8, WriterHands DEF Holding
<1> QED
    BY <1>15, <1>18, <1>20, <1>21, <1>22 DEF Kept

\* The pointers in the file are those of the list, but perhaps for o's.
InFile(l, o) == \A x \in l.set \ {o} : l.next[x] = RecAt(x).ptr

\* The pointer field a, that led to o, now leads to o's successor, and so m is
\* list l without o.
Unlinks(d, l, o, a, m) ==
    /\ m \in ListShape /\ Ranked(hdr'[d], m) /\ m.set = l.set \ {o}
    /\ \A x \in m.set : \/ m.next[x] = l.next[x] /\ RecAt(x)'.ptr = RecAt(x).ptr
                        \/ m.next[x] = RecAt(x)'.ptr
    /\ dat' = dat /\ Records' = Records /\ \A e \in Header : e # d => hdr'[e] = hdr[e]
    /\ \A x \in Records : /\ x # a => RecAt(x)' = RecAt(x)
                          /\ RecAt(x)'.key = RecAt(x).key
                          /\ RecAt(x)'.datoff = RecAt(x).datoff
                          /\ RecAt(x)'.datlen = RecAt(x).datlen
    /\ RecAt(o)' = RecAt(o)

\* The pointer field that led to a record of the file now leads to its successor:
\* the list without the record.
LEMMA Unlinked ==
    ASSUME TypeOK, NEW L, Lists(L), NEW d \in Header, NEW o \in L[d].set,
           NEW a, Leads(d, L[d], a, o), InFile(L[d], o), WritePtr(a, L[d].next[o])
    PROVE  Unlinks(d, L[d], o, a, TakeOut(L[d], o))
<1>1. PICK m, v : m = TakeOut(L[d], o) /\ v = L[d].next[o]
    OBVIOUS
<1> DEFINE l == L[d]
<1>2. /\ l \in ListShape /\ Ranked(hdr[d], l) /\ l.set \subseteq Records
      /\ o \in Records /\ o # 0 /\ \A x \in Records : x \notin Header
    BY ListFacts, FileFacts DEF TypeOK
<1>3. /\ a \in {d} \cup (l.set \ {o}) /\ ReadPtr(a) = o /\ a \in Header \cup Records /\ a # o
      /\ v \in Ptrs
    <2>1. l.next[o] = 0 \/ l.next[o] \in l.set
        BY <1>2 DEF Ranked
    <2> QED
        BY <1>1, <1>2, <2>1 DEF Leads, Ptrs
<1>4. /\ dat' = dat /\ Records' = Records
      /\ \A c \in Header : hdr'[c] = IF c = a THEN v ELSE hdr[c]
      /\ \A x \in Records : /\ x # a => RecAt(x)' = RecAt(x)
                            /\ RecAt(x)' = [RecAt(x) EXCEPT !.ptr = IF x = a THEN v ELSE @]
    BY <1>1, <1>3, PtrWritten
<1>5. \A x \in Records : RecAt(x) \in IdxRecord
    BY FileFacts DEF TypeOK
<1>6. \A x \in Records : /\ RecAt(x)'.key = RecAt(x).key
                         /\ RecAt(x)'.datoff = RecAt(x).datoff
                         /\ RecAt(x)'.datlen = RecAt(x).datlen
                         /\ x = a => RecAt(x)'.ptr = v
    BY <1>4, <1>5 DEF IdxRecord
<1>7. a # d => l.next[a] = o /\ a \in l.set
    <2>1. a # d => a \in l.set \ {o} /\ a \notin Header
        BY <1>2, <1>3
    <2> QED
        BY <1>3, <2>1 DEF ReadPtr, InFile
<1>8. a = d => hdr[d] = o
    BY <1>3 DEF ReadPtr
<1>9. hdr'[d] = IF hdr[d] = o THEN l.next[o] ELSE hdr[d]
    <2>1. CASE a = d
        BY <1>1, <1>4, <1>8, <2>1
    <2>2. CASE a # d
        <3>1. hdr[d] # o
            BY <1>2, <1>7, <2>2, RankedInjects
        <3> QED
            BY <1>4, <2>2, <3>1
    <2> QED
        BY <2>1, <2>2
<1>10. /\ m \in ListShape /\ Ranked(hdr'[d], m) /\ m.set = l.set \ {o}
       /\ \A x \in l.set : m.next[x] = IF l.next[x] = o THEN l.next[o] ELSE l.next[x]
    BY <1>1, <1>2, <1>9, RankedRemove
<1> HIDE DEF l
<1>11. ASSUME NEW x \in m.set
       PROVE  \/ m.next[x] = l.next[x] /\ RecAt(x)'.ptr = RecAt(x).ptr
              \/ m.next[x] = RecAt(x)'.ptr
    <2>1. x \in l.set /\ x # o /\ x \in Records
        BY <1>2, <1>10
    <2>2. CASE x = a
        <3>1. x # d
            BY <1>2, <2>1
        <3> QED
            BY <1>1, <1>6, <1>7, <1>10, <2>1, <2>2, <3>1 DEF l
    <2>3. CASE x # a
        <3>1. l.next[x] # o
            <4>1. CASE a = d
                BY <1>2, <1>8, <2>1, <4>1, RankedInjects
            <4>2. CASE a # d
                BY <1>2, <1>7, <2>1, <2>3, <4>2, RankedInjects
            <4> QED
                BY <4>1, <4>2
        <3> QED
            BY <1>4, <1>10, <2>1, <2>3, <3>1
    <2> QED
        BY <2>2, <2>3
<1>12. \A e \in Header : e # d => hdr'[e] = hdr[e]
    <2>1. \A e \in Header : e # d => e # a
        BY <1>2, <1>3
    <2> QED
        BY <1>4, <2>1
<1> QED
    BY <1>1, <1>2, <1>3, <1>4, <1>6, <1>10, <1>11, <1>12 DEF l, Unlinks

\* Its last: the record goes from its chain.
LEMMA DelUnlinkKeeps ==
    ASSUME Files, NEW L \in [Header -> ListShape], Listed(L), NEW p \in Procs, DelUnlink(p)
    PROVE  Kept
<1>1. PICK o, c, a, v : o = h[p].idxoff /\ c = Chain(p) /\ a = h[p].ptroff /\ v = h[p].ptrval
    OBVIOUS
<1>2. LockInv /\ TypeOK /\ Lists(L) /\ Knows(p, L) /\ (Begin(p) \/ Step(p)) /\ TypeOK'
    BY StepFacts DEF Files, Listed, Step, Delete
<1>3. /\ pc[p] = "delunlink" /\ WritePtr(a, v)
      /\ pc'[p] = "idle" \/ (pc'[p] = "reread" /\ call' = call /\ h' = h /\ Chain(p)' = c)
      /\ \A q \in Procs \ {p} : pc'[q] = pc[q] /\ call'[q] = call[q] /\ h'[q] = h[q]
    <2>1. pc[p] = "delunlink" /\ WritePtr(a, v)
        BY <1>1 DEF DelUnlink, At, WritePtr
    <2>2. pc'[p] = "idle" \/ (pc'[p] = "reread" /\ call' = call /\ h' = h)
        BY <1>2, StepFacts DEF DelUnlink, Goto, SameCall, Return
    <2> QED
        BY <1>1, <1>2, <2>1, <2>2, StepFacts DEF Chain
<1>4. /\ c \in Header /\ c # FREE_OFF /\ FREE_OFF \in Header /\ pc[p] \in InChain
      /\ \A q \in Procs \ {p} : pc[q] \notin InFree \cup InScan /\ ~Dying(q)
    BY <1>1, <1>2, <1>3, WriterAlone DEF Writing, InFree
<1>5. /\ o \in L[c].set /\ RecAt(o).key = Blank /\ Leads(c, L[c], a, o)
      /\ \A q \in L[c].set : RecAt(q).key # call[p].key
    BY <1>1, <1>2, <1>3, <1>4 DEF Knows, OnChain
<1>6. o \in Records /\ o \in Nat \ {0} /\ \A x \in Records : x \notin Header
    BY <1>2, <1>4, <1>5, ListFacts, FileFacts DEF TypeOK
<1>7. /\ Killed(o, p) /\ \A q \in Procs : ~At(q, "delfree")
      /\ \A q \in Procs : \A x : Killed(x, q) => q = p /\ x = o
      /\ \A q \in Procs : ~Dying(q)' /\ ~At(q, "delfree")'
    BY <1>1, <1>3, <1>4 DEF Killed, Dying, At, InFree
<1>8. ~InHand(o) /\ \A q \in Procs : Holding(q) => h[q].idxoff # o
    BY <1>2, <1>4, <1>5, HandsOff
<1>9. ~InHand(o)'
    <2>1. \A q \in Procs : Holding(q)' => Holding(q) /\ h'[q].idxoff = h[q].idxoff
        BY <1>3 DEF Holding
    <2> QED
        BY <1>8, <2>1 DEF InHand, Holding
<1>10. /\ \A x \in L[c].set \ {o} : RecAt(x).key # Blank /\ L[c].next[x] = RecAt(x).ptr
       /\ L[c].next[o] = v
    <2>1. \A x \in L[c].set \ {o} : RecAt(x).key # Blank
        BY <1>2, <1>4, <1>7, ListFacts DEF Belongs
    <2>2. L[c].next[o] = v
        BY <1>1, <1>2, <1>4, <1>5, <1>7, ListFacts
    <2> QED
        BY <1>2, <1>4, <2>1, <2>2, ListFacts
<1>11. PICK m, L1 : m = TakeOut(L[c], o) /\ L1 = [L EXCEPT ![c] = m]
    OBVIOUS
<1>12. /\ m \in ListShape /\ Ranked(hdr'[c], m) /\ m.set = L[c].set \ {o}
       /\ \A x \in m.set : \/ m.next[x] = L[c].next[x] /\ RecAt(x)'.ptr = RecAt(x).ptr
                           \/ m.next[x] = RecAt(x)'.ptr
       /\ dat' = dat /\ Records' = Records
       /\ \A e \in Header : e # c => hdr'[e] = hdr[e]
       /\ \A x \in Records : /\ x # a => RecAt(x)' = RecAt(x)
                             /\ RecAt(x)'.key = RecAt(x).key
                             /\ RecAt(x)'.datoff = RecAt(x).datoff
                             /\ RecAt(x)'.datlen = RecAt(x).datlen
       /\ RecAt(o)' = RecAt(o)
    <2>1. InFile(L[c], o) /\ WritePtr(a, L[c].next[o])
        BY <1>3, <1>10 DEF InFile
    <2>2. Unlinks(c, L[c], o, a, TakeOut(L[c], o))
        BY <1>2, <1>4, <1>5, <2>1, Unlinked
    <2> QED
        BY <1>11, <2>2 DEF Unlinks
<1>13. /\ L1 \in [Header -> ListShape] /\ L1[c] = m
       /\ \A d \in Header : d # c => L1[d] = L[d]
    BY <1>4, <1>11, <1>12
<1>14. Rewrites(p, o)
    <2>1. ~Holding(p)'
        BY <1>3 DEF Holding
    <2> QED
        BY <1>1, <1>3, <1>6, <1>7, <1>12, <2>1 DEF Rewrites
\* The pointer field is the chain's own.
<1>15. \A d \in Header : d # c => a \notin L[d].set
    <2>1. a = c \/ a \in L[c].set \ {o}
        BY <1>5 DEF Leads
    <2>2. ASSUME NEW d \in Header, d # c, a \in L[d].set PROVE FALSE
        <3>1. a \in Records /\ Belongs(a, d)
            BY <1>2, <2>2, ListFacts
        <3>2. a \in L[c].set \ {o}
            BY <1>4, <1>6, <2>1, <3>1
        <3>3. Belongs(a, c) /\ RecAt(a).key # Blank
            BY <1>2, <1>4, <1>10, <3>1, <3>2, ListFacts
        <3> QED
            BY <2>2, <3>1, <3>3 DEF Belongs
    <2> QED
        BY <2>2
<1>16. \A d \in Header : Belongs(o, d)' <=> d = FREE_OFF
    <2>1. RecAt(o)'.key = Blank /\ \A q \in Procs : ~Killed(o, q)'
        BY <1>5, <1>7, <1>12 DEF Killed
    <2> QED
        BY <1>7, <1>9, <2>1 DEF Belongs
<1>17. \A d \in Header : d # c => (o \in L[d].set <=> d = FREE_OFF)
    <2>1. \A d \in Header : d # c => (Belongs(o, d) <=> d = FREE_OFF)
        BY <1>1, <1>5, <1>7, <1>8 DEF Belongs
    <2> QED
        BY <1>2, <1>6, <2>1, ListFacts
<1>18. \A d \in Header : Edited(o, d, L[d], L1[d])
    <2>1. Edited(o, c, L[c], m)
        <3>1. \A x \in m.set \ {o} : \A q \in Procs : ~Killed(x, q)
            BY <1>7
        <3> QED
            BY <1>4, <1>12, <1>16, <3>1 DEF Edited
    <2>2. ASSUME NEW d \in Header, d # c PROVE Edited(o, d, L[d], L[d])
        <3>1. \A x \in L[d].set \ {o} : RecAt(x)'.ptr = RecAt(x).ptr
            BY <1>2, <1>12, <1>15, <2>2, ListFacts
        <3>2. o \in L[d].set =>
                  /\ d = FREE_OFF \/ RecAt(o)'.key # Blank => L[d].next[o] = RecAt(o)'.ptr
                  /\ \A q \in Procs : Killed(o, q)' /\ Chain(q)' = d => L[d].next[o] = h'[q].ptrval
            <4>1. o \in L[d].set => d = FREE_OFF /\ L[d].next[o] = RecAt(o).ptr
                BY <1>2, <1>17, <2>2, ListFacts
            <4>2. \A q \in Procs : ~Killed(o, q)'
                BY <1>7 DEF Killed
            <4> QED
                BY <1>12, <4>1, <4>2
        <3> QED
            BY <1>2, <1>12, <1>16, <1>17, <2>2, <3>1, <3>2, SameList
    <2> QED
        BY <1>13, <2>1, <2>2
<1>19. Knows(p, L1)'
    <2>1. CASE pc'[p] = "idle"
        BY <2>1, KnowsNothing
    <2>2. CASE pc'[p] = "reread" /\ call' = call /\ h' = h /\ Chain(p)' = c
        <3>1. \A q \in m.set : RecAt(q)'.key # call[p].key
            BY <1>2, <1>4, <1>5, <1>12, ListFacts
        <3>2. OnChain(p, m)'
            BY <2>2, <3>1 DEF OnChain, Storing
        <3>3. OnFree(p, L1[FREE_OFF])' /\ OwnRecord(p)' /\ OwnData(p)' /\ Scanned(p)'
            BY <2>2 DEF OnFree, OwnRecord, OwnData, Scanned, At
        <3> QED
            BY <1>13, <2>2, <3>2, <3>3 DEF Knows
    <2> QED
        BY <1>3, <2>1, <2>2
<1>20. Listed(L1)'
    <2>1. \A q \in Procs \ {p} : Holding(q) \/ At(q, "scandat") => h[q].idxoff # a
        <3>1. \A q \in Procs : Holding(q) => h[q].idxoff \in Records
            BY <1>2 DEF TypeOK, HandleOK, HasIdx, Holding
        <3>2. a = c \/ a \in L[c].set
            BY <1>5 DEF Leads
        <3>3. a \in L[c].set => \A q \in Procs : Holding(q) => h[q].idxoff # a
            BY <1>2, <1>4, HandsOff
        <3> QED
            BY <1>4, <1>6, <3>1, <3>2, <3>3 DEF At, InScan
    <2>2. pc[p] \in Writing
        BY <1>3 DEF Writing
    <2>3. RecAt(o)'.datoff = RecAt(o).datoff /\ \A x \in Records : x # a => RecAt(x)' = RecAt(x)
        BY <1>6, <1>12
    <2>4. \A d \in Header : d # Chain(p) /\ (d = FREE_OFF => pc[p] \notin InFree)
                             => L1[d] = L[d] /\ hdr'[d] = hdr[d] /\ a \notin L[d].set
        BY <1>1, <1>12, <1>13, <1>15
    <2> QED
        BY <1>2, <1>6, <1>13, <1>14, <1>18, <1>19, <2>1, <2>2, <2>3, <2>4, WriterLists
<1>21. KeysUnique'
    BY <1>5, <1>12, <1>14, WriterKeys
<1>22. DataOwned'
    <2>1. dat[RecAt(o).datoff].len = RecAt(o).datlen
        BY <1>6 DEF Files, DataOwned
    <2>2. \A q \in Procs : q # p => ~At(q, "delidx")
        BY <1>4 DEF At, InFree
    <2>3. pc'[p] # "delidx"
        BY <1>3
    <2> QED
        BY <1>2, <1>5, <1>6, <1>12, <1>14, <2>1, <2>2, <2>3, WriterData
<1>23. Hands'
    <2>1. ~Holding(p)' /\ pc'[p] \notin {"locknewidx", "newidx"}
        BY <1>3 DEF Holding
    <2> QED
        BY <1>14, <2>1, WriterHands
<1> QED
    BY <1>13, <1>20, <1>21, <1>22, <1>23 DEF Kept

\* _db_findfree takes a record out of the free list.
LEMMA FreeTakeKeeps ==
    ASSUME Files, NEW L \in [Header -> ListShape], Listed(L), NEW p \in Procs, FreeTake(p)
    PROVE  Kept
<1>1. PICK o, c, a, v : o = h[p].idxoff /\ c = Chain(p) /\ a = h[p].ptroff /\ v = h[p].ptrval
    OBVIOUS
<1>2. LockInv /\ TypeOK /\ Lists(L) /\ Knows(p, L) /\ (Begin(p) \/ Step(p)) /\ TypeOK'
    BY StepFacts DEF Files, Listed, Step, FindFree
<1>3. /\ pc[p] = "freetake" /\ WritePtr(a, v) /\ pc'[p] = "reusedat"
      /\ call' = call /\ h' = h /\ Chain(p)' = c
      /\ \A q \in Procs \ {p} : pc'[q] = pc[q] /\ call'[q] = call[q] /\ h'[q] = h[q]
    <2>1. pc[p] = "freetake" /\ WritePtr(a, v)
        BY <1>1 DEF FreeTake, At, WritePtr
    <2>2. pc'[p] = "reusedat" /\ call' = call /\ h' = h
        BY <1>2, StepFacts DEF FreeTake, Goto, SameCall
    <2> QED
        BY <1>1, <1>2, <2>1, <2>2, StepFacts DEF Chain
<1>4. /\ c \in Header /\ c # FREE_OFF /\ FREE_OFF \in Header /\ pc[p] \in InChain
      /\ \A q \in Procs : ~Dying(q)
      /\ \A q \in Procs \ {p} : pc[q] \notin InFree \cup InScan
    BY <1>1, <1>2, <1>3, WriterAlone DEF Writing, InFree, Dying
<1>5. /\ o \in L[FREE_OFF].set /\ v = RecAt(o).ptr /\ Leads(FREE_OFF, L[FREE_OFF], a, o)
      /\ HasRecord(p) /\ h[p].datlen = DatLen[call[p].val]
      /\ h[p].head = hdr[c] /\ \A q \in L[c].set : RecAt(q).key # call[p].key
    BY <1>1, <1>2, <1>3, <1>4 DEF Knows, OnChain, OnFree, Storing
<1>6. o \in Records /\ o \in Nat \ {0} /\ \A x \in Records : x \notin Header
    BY <1>2, <1>4, <1>5, ListFacts, FileFacts DEF TypeOK
<1>7. \A q \in Procs : \A x : ~Killed(x, q) /\ ~Killed(x, q)'
    BY <1>3, <1>4 DEF Killed, Dying
<1>8. /\ ~InHand(o) /\ o <= PtrMax /\ \A q \in Procs : Holding(q) => h[q].idxoff # o
    BY <1>2, <1>4, <1>5, HandsOff
<1>9. Holding(p)' /\ InHand(o)'
    BY <1>1, <1>3 DEF InHand, Holding
<1>10. \A x \in L[FREE_OFF].set : RecAt(x).key = Blank /\ L[FREE_OFF].next[x] = RecAt(x).ptr
    BY <1>2, LockedLists
<1>11. PICK m, L1 : m = TakeOut(L[FREE_OFF], o) /\ L1 = [L EXCEPT ![FREE_OFF] = m]
    OBVIOUS
<1>12. /\ m \in ListShape /\ Ranked(hdr'[FREE_OFF], m) /\ m.set = L[FREE_OFF].set \ {o}
       /\ \A x \in m.set : \/ m.next[x] = L[FREE_OFF].next[x] /\ RecAt(x)'.ptr = RecAt(x).ptr
                           \/ m.next[x] = RecAt(x)'.ptr
       /\ dat' = dat /\ Records' = Records
       /\ \A e \in Header : e # FREE_OFF => hdr'[e] = hdr[e]
       /\ \A x \in Records : /\ x # a => RecAt(x)' = RecAt(x)
                             /\ RecAt(x)'.key = RecAt(x).key
                             /\ RecAt(x)'.datoff = RecAt(x).datoff
                             /\ RecAt(x)'.datlen = RecAt(x).datlen
       /\ RecAt(o)' = RecAt(o)
    <2>1. InFile(L[FREE_OFF], o) /\ WritePtr(a, L[FREE_OFF].next[o])
        BY <1>3, <1>5, <1>10 DEF InFile
    <2>2. Unlinks(FREE_OFF, L[FREE_OFF], o, a, TakeOut(L[FREE_OFF], o))
        BY <1>2, <1>4, <1>5, <2>1, Unlinked
    <2> QED
        BY <1>11, <2>2 DEF Unlinks
<1>13. /\ L1 \in [Header -> ListShape] /\ L1[FREE_OFF] = m
       /\ \A d \in Header : d # FREE_OFF => L1[d] = L[d]
    BY <1>4, <1>11, <1>12
<1>14. Rewrites(p, o)
    BY <1>1, <1>3, <1>6, <1>12 DEF Rewrites
\* The pointer field is the free list's own.
<1>15. \A d \in Header : d # FREE_OFF => a \notin L[d].set /\ o \notin L[d].set
    <2>1. ASSUME NEW d \in Header, d # FREE_OFF, NEW x \in L[d].set PROVE x \notin L[FREE_OFF].set
        <3>1. Belongs(x, d)
            BY <1>2, <2>1, ListFacts
        <3>2. RecAt(x).key # Blank
            BY <1>7, <2>1, <3>1 DEF Belongs
        <3> QED
            BY <1>10, <3>2
    <2>2. a = FREE_OFF \/ a \in L[FREE_OFF].set
        BY <1>5 DEF Leads
    <2>3. \A d \in Header : FREE_OFF \notin L[d].set
        BY <1>2, <1>4, <1>6, ListFacts
    <2> QED
        BY <1>5, <2>1, <2>2, <2>3
<1>16. \A d \in Header : ~Belongs(o, d)'
    BY <1>9 DEF Belongs
<1>17. \A d \in Header : Edited(o, d, L[d], L1[d])
    <2>1. Edited(o, FREE_OFF, L[FREE_OFF], m)
        BY <1>4, <1>7, <1>12, <1>16 DEF Edited
    <2>2. ASSUME NEW d \in Header, d # FREE_OFF PROVE Edited(o, d, L[d], L[d])
        <3>1. \A x \in L[d].set \ {o} : RecAt(x)'.ptr = RecAt(x).ptr
            BY <1>2, <1>12, <1>15, <2>2, ListFacts
        <3> QED
            BY <1>2, <1>12, <1>15, <1>16, <2>2, <3>1, SameList
    <2> QED
        BY <1>13, <2>1, <2>2
<1>18. Knows(p, L1)'
    <2>1. \A q \in L[c].set : RecAt(q)'.key # call[p].key
        BY <1>2, <1>4, <1>5, <1>12, ListFacts
    <2>2. OnChain(p, L[c])'
        BY <1>3, <1>4, <1>5, <1>12, <2>1 DEF OnChain, Storing
    <2>3. OwnRecord(p)'
        <3>1. RecAt(o)'.key = Blank /\ RecAt(o)'.datoff = h[p].datoff /\ RecAt(o)'.datlen = h[p].datlen
            <4>1. RecAt(o).key = Blank /\ o \in Records
                BY <1>5, <1>6, <1>10
            <4>2. RecAt(o).datoff = h[p].datoff /\ RecAt(o).datlen = h[p].datlen
                BY <1>1, <1>5 DEF HasRecord
            <4> QED
                BY <1>12, <4>1, <4>2
        <3>2. h'[p] = h[p] /\ call'[p] = call[p]
            BY <1>3
        <3> QED
            BY <1>1, <1>3, <1>5, <1>8, <3>1, <3>2 DEF OwnRecord, HasRecord
    <2>4. OnFree(p, m)' /\ OwnData(p)' /\ Scanned(p)'
        BY <1>3 DEF OnFree, OwnData, Scanned, At
    <2> QED
        BY <1>3, <1>4, <1>13, <2>2, <2>3, <2>4 DEF Knows
<1>19. Listed(L1)'
    <2>1. \A q \in Procs \ {p} : Holding(q) \/ At(q, "scandat") => h[q].idxoff # a
        <3>1. \A q \in Procs : Holding(q) => h[q].idxoff \in Records
            BY <1>2 DEF TypeOK, HandleOK, HasIdx, Holding
        <3>2. a = FREE_OFF \/ a \in L[FREE_OFF].set
            BY <1>5 DEF Leads
        <3>3. a \in L[FREE_OFF].set => \A q \in Procs : Holding(q) => h[q].idxoff # a
            BY <1>2, <1>4, HandsOff
        <3> QED
            BY <1>4, <1>6, <3>1, <3>2, <3>3 DEF At, InScan
    <2>2. pc[p] \in Writing /\ pc[p] \in InFree
        BY <1>3 DEF Writing, InFree
    <2>3. RecAt(o)'.datoff = RecAt(o).datoff /\ \A x \in Records : x # a => RecAt(x)' = RecAt(x)
        BY <1>6, <1>12
    <2>4. \A d \in Header : d # Chain(p) /\ (d = FREE_OFF => pc[p] \notin InFree)
                             => L1[d] = L[d] /\ hdr'[d] = hdr[d] /\ a \notin L[d].set
        BY <1>12, <1>13, <1>15, <2>2
    <2> QED
        BY <1>2, <1>6, <1>13, <1>14, <1>17, <1>18, <2>1, <2>2, <2>3, <2>4, WriterLists
<1>20. KeysUnique'
    BY <1>9, <1>14, WriterKeys
<1>21. DataOwned'
    <2>1. dat[RecAt(o).datoff].len = RecAt(o).datlen
        BY <1>6 DEF Files, DataOwned
    <2>2. \A q \in Procs : q # p => ~At(q, "delidx")
        BY <1>4 DEF At, InFree
    <2>3. pc'[p] # "delidx" /\ RecAt(o).key = Blank
        BY <1>3, <1>5, <1>10
    <2> QED
        BY <1>2, <1>6, <1>12, <1>14, <2>1, <2>2, <2>3, WriterData
<1>22. Hands'
    BY <1>3, <1>8, <1>14, WriterHands
<1> QED
    BY <1>13, <1>19, <1>20, <1>21, <1>22 DEF Kept

\* db_store writes its index record, a free one or a new one, out of the lists.
LEMMA StoreIdxKeeps ==
    ASSUME Files, NEW L \in [Header -> ListShape], Listed(L), NEW p \in Procs, ReuseIdx(p) \/ NewIdx(p)
    PROVE  Kept
<1>1. PICK o, c, f : o = h[p].idxoff /\ c = Chain(p) /\ f = h[p]
    OBVIOUS
<1>2. LockInv /\ TypeOK /\ Lists(L) /\ Knows(p, L) /\ (Begin(p) \/ Step(p)) /\ TypeOK'
    BY StepFacts DEF Files, Listed, Step, Store
<1>3. /\ pc[p] \in {"reuseidx", "newidx"} /\ pc'[p] = "link" /\ h' = h /\ call' = call /\ Chain(p)' = c
      /\ \A q \in Procs \ {p} : pc'[q] = pc[q] /\ call'[q] = call[q] /\ h'[q] = h[q]
    <2>1. pc[p] \in {"reuseidx", "newidx"} /\ pc'[p] = "link" /\ h' = h /\ call' = call
        BY <1>2, StepFacts DEF ReuseIdx, NewIdx, At, Goto, SameCall
    <2> QED
        BY <1>1, <1>2, <2>1, StepFacts DEF Chain
<1>4. /\ c \in Header /\ c # FREE_OFF /\ FREE_OFF \in Header /\ pc[p] \in InChain
      /\ call[p].key \in Keys /\ call[p].key # Blank /\ call[p].val \in Data[call[p].key]
      /\ KeyLen[call[p].key] \in Nat
    <2>1. pc[p] \in Writing /\ pc[p] \in Storing
        BY <1>3 DEF Writing, Storing
    <2> QED
        BY <1>1, <1>2, <2>1, WriterAlone, StoredValue, ParamAssumption
<1>5. /\ f.head = hdr[c] /\ \A q \in L[c].set : RecAt(q).key # call[p].key
    BY <1>1, <1>2, <1>3, <1>4 DEF Knows, OnChain, Storing
<1>6. /\ f.datoff \in DOMAIN dat /\ f.datlen = DatLen[call[p].val] /\ f.datlen \in Nat
      /\ f.head \in Ptrs /\ dat[f.datoff].val = call[p].val /\ dat[f.datoff].len = f.datlen
    <2>1. h[p] \in Handles /\ h[p].datoff \in DOMAIN dat
        BY <1>2, <1>3 DEF TypeOK, HandleOK, HasDat, HasIdx
    <2>2. CASE pc[p] = "reuseidx"
        <3>1. /\ HasRecord(p) /\ h[p].datlen = DatLen[call[p].val] /\ dat[h[p].datoff].val = call[p].val
            BY <1>2, <2>2 DEF Knows, OwnRecord
        <3>2. h[p].idxoff \in Records
            BY <1>2, <2>2 DEF TypeOK, HandleOK, HasIdx
        <3>3. dat[h[p].datoff].len = h[p].datlen
            BY <3>1, <3>2 DEF Files, DataOwned, HasRecord
        <3> QED
            BY <1>1, <2>1, <3>1, <3>3 DEF Handles
    <2>3. CASE pc[p] = "newidx"
        BY <1>1, <1>2, <2>1, <2>3 DEF Knows, OwnData, Handles
    <2> QED
        BY <1>3, <2>2, <2>3
<1>7. /\ pc[p] = "reuseidx" => /\ o \in Records /\ o <= PtrMax /\ RecAt(o).key = Blank
                               /\ RecAt(o).datoff = f.datoff /\ InHand(o)
                               /\ \A q \in Procs \ {p} : Holding(q) => h[q].idxoff # o
      /\ pc[p] = "newidx" => /\ o = IdxEnd /\ o \notin Records
                             /\ \A i \in DOMAIN idx : idx[i].datoff # f.datoff
    <2>1. pc[p] = "reuseidx" => o \in Records /\ o <= PtrMax /\ RecAt(o).key = Blank /\ RecAt(o).datoff = f.datoff
        BY <1>1, <1>2 DEF Knows, OwnRecord, HasRecord, TypeOK, HandleOK, HasIdx
    <2>2. pc[p] = "reuseidx" => InHand(o) /\ \A q \in Procs \ {p} : Holding(q) => h[q].idxoff # o
        BY <1>1 DEF InHand, Files, Hands, Holding
    <2>3. pc[p] = "newidx" => o = IdxEnd /\ \A i \in DOMAIN idx : idx[i].datoff # f.datoff
        BY <1>1, <1>2 DEF Knows, OwnData, TypeOK, HandleOK, At
    <2>4. IdxEnd \notin Records
        <3>1. /\ Records = FirstRec .. FirstRec + Len(idx) - 1 /\ IdxEnd = FirstRec + Len(idx)
              /\ FirstRec \in Nat /\ Len(idx) \in Nat
            BY <1>2, FileFacts DEF TypeOK
        <3> QED
            BY <3>1
    <2> QED
        BY <2>1, <2>2, <2>3, <2>4
<1>8. /\ hdr' = hdr /\ dat' = dat /\ Records' = Records \cup {o}
      /\ RecAt(o)' = [key |-> call[p].key, klen |-> KeyLen[call[p].key], datoff |-> f.datoff,
                      datlen |-> f.datlen, ptr |-> f.head]
      /\ \A x \in Records : x # o => RecAt(x)' = RecAt(x)
    <2>1. WriteIdx(f, call[p].key, KeyLen[call[p].key], f.head)
        BY <1>1 DEF ReuseIdx, NewIdx, WriteIdx
    <2>2. f.idxoff = o /\ (o \in Records \/ o = IdxEnd)
        BY <1>1, <1>3, <1>7
    <2> QED
        BY <1>2, <1>4, <1>6, <2>1, <2>2, RecWritten
<1>9. /\ RecAt(o)'.key = call[p].key /\ RecAt(o)'.datoff = f.datoff /\ RecAt(o)'.datlen = f.datlen
      /\ RecAt(o)'.ptr = f.head
    BY <1>8
<1>10. Rewrites(p, o)
    BY <1>1, <1>3, <1>8 DEF Rewrites
<1>11. InHand(o)' /\ ~Dying(p)' /\ \A d : ~Belongs(o, d)'
    BY <1>1, <1>3 DEF InHand, Belongs, Dying
<1>12. \A d \in Header : o \notin L[d].set
    <2>1. \A d \in Header : L[d].set \subseteq Records /\ \A x \in L[d].set : ~InHand(x)
        BY <1>2, HandsOff, ListFacts
    <2> QED
        BY <1>3, <1>7, <2>1
<1>13. \A d \in Header : Edited(o, d, L[d], L[d])
    <2> TAKE d \in Header
    <2>1. \A x \in L[d].set \ {o} : RecAt(x)'.ptr = RecAt(x).ptr
        BY <1>2, <1>8, ListFacts
    <2> QED
        BY <1>2, <1>8, <1>11, <1>12, <2>1, SameList
<1>14. \A q \in Procs \ {p} : Holding(q) \/ At(q, "scandat") => h[q].idxoff # o
    <2> TAKE q \in Procs \ {p}
    <2>1. Holding(q) => h[q].idxoff \in Records
        BY <1>2 DEF TypeOK, HandleOK, HasIdx, Holding
    <2>2. At(q, "scandat") => h[q].idxoff \in Records /\ RecAt(h[q].idxoff).key # Blank
        BY DEF Listed, Knows, Scanned
    <2> QED
        BY <1>3, <1>7, <2>1, <2>2
<1>15. Knows(p, L)'
    <2>1. \A q \in L[c].set : RecAt(q)'.key # call[p].key
        BY <1>2, <1>4, <1>5, <1>8, <1>12, ListFacts
    <2>2. OnChain(p, L[c])'
        BY <1>1, <1>3, <1>5, <1>8, <1>9, <2>1 DEF OnChain, Storing
    <2>3. OwnRecord(p)'
        BY <1>1, <1>3, <1>9 DEF OwnRecord
    <2>4. OnFree(p, L[FREE_OFF])' /\ OwnData(p)' /\ Scanned(p)'
        BY <1>3 DEF OnFree, OwnData, Scanned, At
    <2> QED
        BY <1>3, <2>2, <2>3, <2>4 DEF Knows
<1>16. \/ o \in Records /\ RecAt(o)'.datoff = RecAt(o).datoff
       \/ /\ pc[p] = "newidx" /\ RecAt(o)'.datoff = h[p].datoff
          /\ \A i \in DOMAIN idx : idx[i].datoff # RecAt(o)'.datoff
    BY <1>1, <1>3, <1>7, <1>9
<1>17. Listed(L)'
    <2>1. pc[p] \in Writing
        BY <1>3 DEF Writing
    <2> QED
        BY <1>2, <1>8, <1>10, <1>12, <1>13, <1>14, <1>15, <1>16, <2>1, WriterLists
<1>18. KeysUnique'
    BY <1>10, <1>11, WriterKeys
<1>19. DataOwned'
    <2>1. \A q \in Procs : At(q, "delidx") /\ q # p => h[q].idxoff # o
        <3> TAKE q \in Procs
        <3> SUFFICES ASSUME At(q, "delidx") PROVE h[q].idxoff # o
            OBVIOUS
        <3>1. pc[q] \in Deleting /\ pc[q] \in InChain
            BY DEF At, Deleting, InChain, InFree
        <3>2. Chain(q) \in Header
            BY <1>2, <3>1, DyingLocks, HeaderFacts
        <3>3. h[q].idxoff \in L[Chain(q)].set
            BY <3>1 DEF Listed, Knows, OnChain, At
        <3> QED
            BY <1>12, <3>2, <3>3
    <2> QED
        BY <1>2, <1>3, <1>4, <1>6, <1>9, <1>10, <1>16, <2>1, WriterData
<1>20. Hands'
    BY <1>3, <1>10, <1>14, WriterHands
<1> QED
    BY <1>17, <1>18, <1>19, <1>20 DEF Kept

\* The record goes to the front of its chain.
LEMMA LinkKeeps ==
    ASSUME Files, NEW L \in [Header -> ListShape], Listed(L), NEW p \in Procs, Link(p)
    PROVE  Kept
<1>1. PICK o, c : o = h[p].idxoff /\ c = Chain(p)
    OBVIOUS
<1>2. LockInv /\ TypeOK /\ Lists(L) /\ Knows(p, L) /\ (Begin(p) \/ Step(p)) /\ TypeOK'
    BY StepFacts DEF Files, Listed, Step, Store
<1>3. /\ pc[p] = "link" /\ o <= PtrMax /\ pc'[p] = "idle"
      /\ \A q \in Procs \ {p} : pc'[q] = pc[q] /\ call'[q] = call[q] /\ h'[q] = h[q]
    BY <1>1, <1>2, StepFacts DEF Link, At, Goto, Return
<1>4. /\ c \in Header /\ c # FREE_OFF /\ FREE_OFF \in Header /\ pc[p] \in InChain
      /\ call[p].key \in Keys /\ call[p].key # Blank /\ Hash[call[p].key] = c
      /\ \A q \in Procs \ {p} : pc[q] \in InChain => Chain(q) # c
    BY <1>1, <1>2, <1>3, WriterAlone DEF Writing
<1>5. /\ RecAt(o).key = call[p].key /\ RecAt(o).ptr = hdr[c]
      /\ \A q \in L[c].set : RecAt(q).key # call[p].key
    BY <1>1, <1>2, <1>3, <1>4 DEF Knows, OnChain, OwnRecord, Storing
<1>6. o \in Records /\ o \in Nat \ {0} /\ \A x \in Records : x \notin Header
    BY <1>1, <1>2, <1>3, FileFacts DEF TypeOK, HandleOK, HasIdx
<1>7. /\ dat' = dat /\ Records' = Records
      /\ \A d \in Header : hdr'[d] = IF d = c THEN o ELSE hdr[d]
      /\ \A x \in Records : RecAt(x)' = RecAt(x)
    <2>1. WritePtr(c, o) /\ o \in Ptrs /\ c \in Header \cup Records
        BY <1>1, <1>4, <1>6 DEF Link, WritePtr, Ptrs
    <2> QED
        BY <1>2, <1>4, <1>6, <2>1, PtrWritten
<1>8. ~Holding(p)' /\ ~Dying(p)' /\ \A q \in Procs \ {p} : Holding(q) => h[q].idxoff # o
    BY <1>1, <1>3 DEF Holding, Dying, Files, Hands
<1>9. Rewrites(p, o)
    BY <1>1, <1>3, <1>6, <1>7, <1>8 DEF Rewrites
<1>10. InHand(o) /\ ~InHand(o)'
    <2>1. InHand(o)
        BY <1>1, <1>3 DEF InHand
    <2>2. \A q \in Procs : ~(Holding(q)' /\ h'[q].idxoff = o)
        <3> TAKE q \in Procs
        <3>1. CASE q = p
            BY <1>8, <3>1
        <3>2. CASE q # p
            <4>1. pc'[q] = pc[q] /\ h'[q] = h[q]
                BY <1>3, <3>2
            <4> QED
                BY <1>8, <3>2, <4>1 DEF Holding
        <3> QED
            BY <3>1, <3>2
    <2>3. ~(o > PtrMax)
        BY <1>3, <1>6, ParamAssumption
    <2> QED
        BY <2>1, <2>2, <2>3 DEF InHand, Holding
<1>11. \A d \in Header : o \notin L[d].set
    BY <1>2, <1>10, HandsOff
<1>12. \A d : Belongs(o, d)' <=> d = c
    BY <1>4, <1>5, <1>6, <1>7, <1>10 DEF Belongs
<1>13. PICK m, L1 : m = AddFront(L[c], hdr[c], o) /\ L1 = [L EXCEPT ![c] = m]
    OBVIOUS
<1>14. /\ m \in ListShape /\ Ranked(o, m)
       /\ m.set = L[c].set \cup {o} /\ m.next[o] = hdr[c]
       /\ \A q \in L[c].set : m.next[q] = L[c].next[q]
    <2>1. L[c] \in ListShape /\ Ranked(hdr[c], L[c])
        BY <1>2, <1>4, ListFacts
    <2>2. o \in (Nat \ {0}) \ L[c].set
        BY <1>4, <1>6, <1>11
    <2> QED
        BY <1>13, <2>1, <2>2, RankedInsert
<1>15. /\ L1 \in [Header -> ListShape] /\ L1[c] = m
       /\ \A d \in Header : d # c => L1[d] = L[d]
    BY <1>4, <1>13, <1>14
<1>16. \A d \in Header : Edited(o, d, L[d], L1[d])
    <2>1. Edited(o, c, L[c], m)
        <3>1. hdr'[c] = o /\ \A x \in L[c].set : RecAt(x)' = RecAt(x)
            BY <1>2, <1>4, <1>7, ListFacts
        <3>2. RecAt(o)'.ptr = hdr[c] /\ Belongs(o, c)'
            BY <1>5, <1>6, <1>7, <1>12
        <3>3. \A q \in Procs : Killed(o, q)' => Chain(q)' # c
            <4> TAKE q \in Procs
            <4>1. CASE q = p
                BY <1>8, <4>1 DEF Killed
            <4>2. CASE q # p
                <5>1. pc'[q] = pc[q] /\ Chain(q)' = Chain(q)
                    BY <1>3, <4>2 DEF Chain
                <5> QED
                    BY <1>4, <4>2, <5>1 DEF Killed, Dying, InChain, InFree
            <4> QED
                BY <4>1, <4>2
        <3> QED
            BY <1>14, <3>1, <3>2, <3>3 DEF Edited
    <2>2. ASSUME NEW d \in Header, d # c PROVE Edited(o, d, L[d], L[d])
        <3>1. \A x \in L[d].set \ {o} : RecAt(x)'.ptr = RecAt(x).ptr
            BY <1>2, <1>7, ListFacts
        <3> QED
            BY <1>2, <1>7, <1>11, <1>12, <2>2, <3>1, SameList
    <2> QED
        BY <1>15, <2>1, <2>2
<1>17. Knows(p, L1)'
    BY <1>3, KnowsNothing
<1>18. Listed(L1)'
    <2>1. \A d \in Header : 0 \notin L[d].set
        BY <1>2, ListFacts
    <2>2. \A q \in Procs \ {p} : Holding(q) \/ At(q, "scandat") => h[q].idxoff # 0
        <3>1. \A q \in Procs : Holding(q) => h[q].idxoff \in Records
            BY <1>2 DEF TypeOK, HandleOK, HasIdx, Holding
        <3>2. \A q \in Procs : At(q, "scandat") => h[q].idxoff \in Records
            BY DEF Listed, Knows, Scanned
        <3>3. 0 \notin Records
            BY <1>2, <1>4, ListFacts
        <3> QED
            BY <3>1, <3>2, <3>3
    <2>3. pc[p] \in Writing
        BY <1>3 DEF Writing
    <2>4. RecAt(o)'.datoff = RecAt(o).datoff /\ \A x \in Records : x # 0 => RecAt(x)' = RecAt(x)
        BY <1>6, <1>7
    <2>5. \A d \in Header : d # Chain(p) /\ (d = FREE_OFF => pc[p] \notin InFree)
                             => L1[d] = L[d] /\ hdr'[d] = hdr[d] /\ 0 \notin L[d].set
        BY <1>1, <1>7, <1>15, <2>1
    <2> QED
        BY <1>2, <1>6, <1>9, <1>15, <1>16, <1>17, <2>2, <2>3, <2>4, <2>5, WriterLists
<1>19. RecAt(o)' = RecAt(o)
    BY <1>6, <1>7
<1>20. KeysUnique'
    <2>1. ASSUME NEW x \in Records \ {o}, RecAt(x).key = call[p].key PROVE InHand(x)
        <3>1. Belongs(x, c) \/ InHand(x)
            BY <1>4, <2>1 DEF Belongs
        <3>2. ~Belongs(x, c)
            BY <1>2, <1>4, <1>5, <2>1, ListFacts
        <3> QED
            BY <3>1, <3>2
    <2> QED
        BY <1>5, <1>9, <1>19, <2>1, WriterKeys
<1>21. DataOwned'
    <2>1. \A q \in Procs : At(q, "delidx") => h[q].idxoff # o
        <3> TAKE q \in Procs
        <3> SUFFICES ASSUME At(q, "delidx") PROVE h[q].idxoff # o
            OBVIOUS
        <3>1. pc[q] \in Deleting /\ pc[q] \in InChain
            BY DEF At, Deleting, InChain, InFree
        <3>2. Chain(q) \in Header
            BY <1>2, <3>1, DyingLocks, HeaderFacts
        <3>3. h[q].idxoff \in L[Chain(q)].set
            BY <3>1 DEF Listed, Knows, OnChain, At
        <3> QED
            BY <1>11, <3>2, <3>3
    <2>2. LET d == dat[RecAt(o).datoff]
          IN  d.len = RecAt(o).datlen /\ d.val \in Data[RecAt(o).key] /\ DatLen[d.val] = d.len
        BY <1>4, <1>5, <1>6, <2>1 DEF Files, DataOwned
    <2>3. pc'[p] # "delidx"
        BY <1>3
    <2> QED
        BY <1>2, <1>6, <1>9, <1>19, <2>1, <2>2, <2>3, WriterData
<1>22. Hands'
    BY <1>3, <1>8, <1>9, WriterHands
<1> QED
    BY <1>15, <1>18, <1>20, <1>21, <1>22 DEF Kept

-----------------------------------------------------------------------------
(* The invariant. *)

\* The greatest of a set of numbers of preloaded records.
LEMMA LastRecIs ==
    ASSUME NEW n \in Nat, NEW S \in SUBSET (1 .. n)
    PROVE  /\ S = {} => LastRec(S) = 0
           /\ S # {} => \E m \in S : LastRec(S) = NHash + m /\ \A j \in S : j <= m
<1> DEFINE last == {i \in S : \A j \in S : j <= i}
<1>1. LastRec(S) = IF last = {} THEN 0 ELSE NHash + (CHOOSE i \in last : TRUE)
    BY DEF LastRec
<1>2. ASSUME S # {} PROVE last # {}
    <2> DEFINE T == {i \in Nat : \A j \in S : j <= i}
    <2>1. T \in SUBSET Nat /\ T # {}
        <3>1. n \in T
            OBVIOUS
        <3> QED
            BY <3>1
    <2>2. Min(T) \in T /\ \A i \in T : Min(T) <= i
        BY <2>1, MinOf
    <2>3. PICK m : m = Min(T)
        OBVIOUS
    <2>4. m \in Nat /\ (\A j \in S : j <= m) /\ \A i \in T : m <= i
        BY <2>2, <2>3
    <2>5. m \in S
        <3> SUFFICES ASSUME m \notin S PROVE FALSE
            OBVIOUS
        <3>1. \A j \in S : j \in Nat /\ 1 <= j /\ j <= m - 1
            BY <2>4
        <3>2. m - 1 \in Nat
            <4>1. PICK j \in S : j \in Nat /\ 1 <= j /\ j <= m - 1
                BY <1>2, <3>1
            <4> QED
                BY <2>4, <4>1
        <3>3. m - 1 \in T
            BY <3>1, <3>2
        <3>4. m <= m - 1
            BY <2>4, <3>3
        <3> QED
            BY <2>4, <3>4
    <2> QED
        BY <2>4, <2>5
<1>3. ASSUME last # {} PROVE \E m \in S : LastRec(S) = NHash + m /\ \A j \in S : j <= m
    BY <1>1, <1>3
<1>4. S = {} => last = {}
    OBVIOUS
<1> QED
    BY <1>1, <1>2, <1>3, <1>4

\* The files as they are stored before are sound.
LEMMA HashInit == Init => HashInv
<1> SUFFICES ASSUME Init PROVE HashInv
    OBVIOUS
<1> DEFINE n == Len(Preload)
<1>1. /\ n \in Nat /\ DOMAIN Preload = 1 .. n /\ NHash \in Nat \ {0} /\ PtrMax \in Nat /\ NHash + n <= PtrMax
      /\ DOMAIN idx = 1 .. n /\ Len(idx) = n
    BY ParamAssumption DEF Init
<1>2. LockInv /\ TypeOK
    BY LockInvInit, TypeInit
<1>3. Records = NHash + 1 .. NHash + n
    BY <1>1 DEF Records, IdxEnd, FirstRec
<1>4. \A i \in 1 .. n : Preload[i].key \in Keys /\ Preload[i].key # Blank /\ Preload[i].val \in Data[Preload[i].key]
                        /\ Preload[i].deleted \in BOOLEAN
    <2> DEFINE R == [key : Keys, val : Vals, deleted : BOOLEAN]
    <2>1. Preload \in Seq(R)
        BY ParamAssumption
    <2> HIDE DEF R
    <2>2. \A i \in DOMAIN Preload : Preload[i] \in R
        BY <2>1
    <2>3. \A i \in 1 .. n : Preload[i].key \in Keys /\ Preload[i].deleted \in BOOLEAN
        BY <1>1, <2>2 DEF R
    <2>4. \A i \in 1 .. n : Preload[i].val \in Data[Preload[i].key]
        BY <1>1, ParamAssumption
    <2> QED
        BY <2>3, <2>4, ParamAssumption
<1>5. \A i \in 1 .. n : /\ RecAt(NHash + i) = idx[i]
                        /\ idx[i].key = IF Preload[i].deleted THEN Blank ELSE Preload[i].key
                        /\ idx[i].datoff = i /\ idx[i].datlen = DatLen[Preload[i].val]
                        /\ idx[i].ptr = LastRec({j \in 1 .. i - 1 : ListOf(j) = ListOf(i)})
                        /\ dat[i].val = (IF Preload[i].deleted THEN Blank ELSE Preload[i].val)
                        /\ dat[i].len = DatLen[Preload[i].val]
    <2> TAKE i \in 1 .. n
    <2>1. (NHash + i) - NHash = i
        BY <1>1
    <2> QED
        BY <1>1, <2>1 DEF RecAt, Init
<1>6. \A p \in Procs : pc[p] = "idle" /\ h[p] = NewHandle
    BY DEF Init
<1>7. \A o \in Records : o - NHash \in 1 .. n /\ o = NHash + (o - NHash) /\ RecAt(o) = idx[o - NHash]
    BY <1>1, <1>3 DEF RecAt
<1> HIDE DEF n
<1>8. KeysUnique
    <2>1. ASSUME NEW i \in 1 .. n, NEW j \in 1 .. n, idx[i].key = idx[j].key, idx[i].key # Blank PROVE i = j
        <3>1. ~Preload[i].deleted /\ ~Preload[j].deleted /\ Preload[i].key = Preload[j].key
            BY <1>4, <1>5, <2>1
        <3> QED
            BY <1>1, <3>1, ParamAssumption
    <2>2. ASSUME NEW o \in Records, NEW q \in Records, RecAt(o).key = RecAt(q).key, RecAt(o).key # Blank PROVE o = q
        <3>1. o - NHash = q - NHash
            BY <1>7, <2>1, <2>2
        <3> QED
            BY <1>7, <3>1
    <2> QED
        BY <2>2 DEF KeysUnique
<1>9. DataOwned
    <2>1. \A i \in 1 .. n : LET d == dat[idx[i].datoff]
                            IN  /\ d.len = idx[i].datlen
                                /\ idx[i].key # Blank => d.val \in Data[idx[i].key] /\ DatLen[d.val] = d.len
        <3> TAKE i \in 1 .. n
        <3>1. idx[i].datoff = i
            BY <1>5
        <3>2. dat[idx[i].datoff].len = idx[i].datlen
            BY <1>5, <3>1
        <3>3. idx[i].key # Blank => /\ dat[i].val = Preload[i].val /\ idx[i].key = Preload[i].key
                                    /\ dat[i].len = DatLen[Preload[i].val]
            BY <1>5
        <3> QED
            BY <1>4, <3>1, <3>2, <3>3
    <2>2. \A i, j \in 1 .. n : idx[i].datoff = idx[j].datoff => i = j
        <3> TAKE i, j \in 1 .. n
        <3>1. idx[i].datoff = i /\ idx[j].datoff = j
            BY <1>5
        <3> QED
            BY <3>1
    <2>3. \A o \in Records :
              LET d == dat[RecAt(o).datoff]
              IN  /\ d.len = RecAt(o).datlen
                  /\ RecAt(o).key # Blank => d.val \in Data[RecAt(o).key] /\ DatLen[d.val] = d.len
        BY <1>7, <2>1
    <2> QED
        BY <1>1, <2>2, <2>3 DEF DataOwned
<1>10. Hands /\ ScanSound
    BY <1>6 DEF Hands, Holding, ScanSound, NewHandle
<1>11. PICK N, K : /\ N = [o \in Nat |-> IF o \in Records THEN RecAt(o).ptr ELSE 0]
                   /\ K = [o \in Nat |-> o]
    OBVIOUS
<1>12. PICK L : L = [c \in Header |-> [set |-> {o \in Records : ListOf(o - NHash) = c}, next |-> N, rank |-> K]]
    OBVIOUS
<1>13. \A o \in Records : RecAt(o).ptr \in Nat
    <2>1. FilesOK
        BY <1>2 DEF TypeOK
    <2>2. \A o \in Records : RecAt(o) \in IdxRecord
        BY <2>1, FileFacts
    <2> QED
        BY <2>2 DEF IdxRecord
<1>14. N \in [Nat -> Nat] /\ K \in [Nat -> Nat] /\ Records \subseteq Nat \ {0}
    BY <1>1, <1>3, <1>11, <1>13
<1>15. ASSUME NEW c \in Header
       PROVE  /\ L[c] \in ListShape /\ L[c].set = {o \in Records : ListOf(o - NHash) = c}
              /\ L[c].next = N /\ L[c].rank = K
    BY <1>12, <1>14 DEF ListShape
<1>16. L \in [Header -> ListShape]
    BY <1>12, <1>15
<1>17. ASSUME NEW c \in Header PROVE Ranked(hdr[c], L[c])
    <2> DEFINE H == {j \in 1 .. n : ListOf(j) = c}
    <2>1. hdr[c] = LastRec(H) /\ H \in SUBSET (1 .. n) /\ n \in Nat
        BY <1>1, <1>17 DEF Init
    <2>2. L[c].set = {o \in Records : o - NHash \in H}
        BY <1>7, <1>15
    <2>3. IF hdr[c] = 0 THEN L[c].set = {} ELSE hdr[c] \in L[c].set /\ \A o \in L[c].set : K[o] <= K[hdr[c]]
        <3> HIDE DEF H
        <3>1. CASE H = {}
            BY <2>1, <2>2, <3>1, LastRecIs
        <3>2. CASE H # {}
            <4>1. PICK m \in H : LastRec(H) = NHash + m /\ \A j \in H : j <= m
                BY <2>1, <3>2, LastRecIs
            <4>2. NHash + m \in Records /\ (NHash + m) - NHash = m /\ NHash + m # 0
                BY <1>1, <1>3, <2>1, <4>1
            <4>3. \A o \in L[c].set : o \in Nat /\ o <= NHash + m
                <5> TAKE o \in L[c].set
                <5>1. o \in Nat /\ o - NHash \in H
                    BY <1>14, <2>2
                <5>2. o - NHash <= m
                    BY <4>1, <5>1
                <5>3. m \in Nat /\ NHash \in Nat
                    BY <1>1, <2>1
                <5> QED
                    BY <5>1, <5>2, <5>3
            <4> QED
                BY <1>11, <1>14, <2>1, <2>2, <4>1, <4>2, <4>3
        <3> QED
            BY <3>1, <3>2
    <2>4. ASSUME NEW o \in L[c].set
          PROVE  IF N[o] = 0 THEN \A q \in L[c].set : K[o] <= K[q]
                 ELSE /\ N[o] \in L[c].set /\ K[N[o]] < K[o]
                      /\ \A q \in L[c].set : K[q] < K[o] => K[q] <= K[N[o]]
        <3>1. PICK i \in 1 .. n : o = NHash + i /\ o - NHash = i /\ o \in Records /\ ListOf(i) = c
            BY <1>7, <1>15
        <3> DEFINE S == {j \in 1 .. i - 1 : ListOf(j) = c}
        <3>2. N[o] = LastRec(S)
            BY <1>5, <1>11, <1>14, <3>1
        <3>3. S \in SUBSET (1 .. n) /\ \A j \in S : j < i /\ j \in H
            BY <1>1, <3>1
        <3>4. \A q \in L[c].set : q \in Nat /\ K[q] = q /\ (q < o => q - NHash \in S)
            <4> TAKE q \in L[c].set
            <4>1. q \in Records /\ q \in Nat /\ q - NHash \in 1 .. n /\ ListOf(q - NHash) = c
                BY <1>7, <1>14, <1>15
            <4>2. q < o => q - NHash \in 1 .. i - 1
                BY <1>1, <3>1, <4>1
            <4> QED
                BY <1>11, <4>1, <4>2
        <3>5. \A j \in S : NHash + j \in L[c].set /\ NHash + j # 0 /\ NHash + j < o /\ NHash + j \in Nat
            <4> TAKE j \in S
            <4>1. /\ NHash + j \in Records /\ (NHash + j) - NHash = j
                  /\ NHash + j < o /\ NHash + j \in Nat /\ NHash + j # 0
                BY <1>1, <1>3, <3>1, <3>3
            <4> QED
                BY <2>2, <3>3, <4>1
        <3> HIDE DEF S, H
        <3>6. CASE S = {}
            <4>1. N[o] = 0
                BY <2>1, <3>2, <3>3, <3>6, LastRecIs
            <4>2. \A q \in L[c].set : ~(q < o)
                BY <3>4, <3>6
            <4> QED
                BY <3>4, <4>1, <4>2
        <3>7. CASE S # {}
            <4>1. PICK m \in S : LastRec(S) = NHash + m /\ \A j \in S : j <= m
                BY <2>1, <3>3, <3>7, LastRecIs
            <4>2. N[o] = NHash + m /\ N[o] # 0 /\ N[o] \in L[c].set /\ N[o] < o
                BY <3>2, <3>5, <4>1
            <4>3. ASSUME NEW q \in L[c].set, q < o PROVE q <= N[o]
                <5>1. q - NHash \in S /\ q \in Nat
                    BY <3>4, <4>3
                <5>2. q - NHash <= m /\ m \in Nat /\ NHash \in Nat
                    BY <1>1, <3>3, <4>1, <5>1
                <5> QED
                    BY <4>2, <5>1, <5>2
            <4> QED
                BY <3>4, <4>2, <4>3
        <3> QED
            BY <3>6, <3>7
    <2>5. \A o, q \in L[c].set : K[o] = K[q] => o = q
        BY <1>11, <1>14, <1>15
    <2> QED
        BY <1>15, <2>3, <2>4, <2>5 DEF Ranked
<1>18. \A o \in Records : ~InHand(o)
    <2> TAKE o \in Records
    <2>1. ~(o > PtrMax)
        BY <1>1, <1>3
    <2> QED
        BY <1>6, <2>1 DEF InHand
<1>19. \A o, p : p \in Procs => ~Killed(o, p) /\ ~At(p, "delfree")
    BY <1>6 DEF Killed, Dying, At
<1>20. ASSUME NEW c \in Header PROVE IsList(c, L[c])
    <2>1. ASSUME NEW o \in Records PROVE ListOf(o - NHash) = c <=> Belongs(o, c)
        <3>1. PICK i \in 1 .. n : i = o - NHash /\ RecAt(o) = idx[i]
            BY <1>7
        <3>2. ListOf(i) = IF Preload[i].deleted THEN FREE_OFF ELSE Hash[Preload[i].key]
            BY DEF ListOf
        <3>3. RecAt(o).key = IF Preload[i].deleted THEN Blank ELSE Preload[i].key
            BY <1>5, <3>1
        <3> QED
            BY <1>4, <1>18, <1>19, <3>1, <3>2, <3>3 DEF Belongs
    <2>2. L[c].set = {o \in Records : Belongs(o, c)}
        BY <1>15, <2>1
    <2>3. \A o \in L[c].set : L[c].next[o] = RecAt(o).ptr
        BY <1>11, <1>14, <1>15
    <2> QED
        BY <1>17, <1>19, <2>2, <2>3 DEF IsList
<1>21. \A p \in Procs : Knows(p, L)
    BY <1>6 DEF Knows, OnFree, OwnRecord, OwnData, Scanned, At, InChain, InFree
<1> QED
    BY <1>2, <1>8, <1>9, <1>10, <1>16, <1>20, <1>21 DEF HashInv, Files, Listed, Lists

\* A step that changes nothing keeps it.
LEMMA HashInvStutters == HashInv /\ UNCHANGED vars => HashInv'
<1> SUFFICES ASSUME HashInv, UNCHANGED vars PROVE HashInv'
    OBVIOUS
<1>1. /\ hdr' = hdr /\ idx' = idx /\ dat' = dat /\ rd' = rd /\ wr' = wr /\ pc' = pc /\ call' = call
      /\ h' = h /\ left' = left
    BY DEF vars, files, locks
<1>2. LockInv' /\ TypeOK'
    BY LockInvNext, TypeNext DEF HashInv, Files
<1>3. Records' = Records /\ \A o : RecAt(o)' = RecAt(o) /\ (InHand(o)' <=> InHand(o))
    BY <1>1 DEF Records, IdxEnd, RecAt, InHand
<1>4. KeysUnique' /\ DataOwned' /\ Hands' /\ ScanSound'
    <2>1. KeysUnique'
        BY <1>3 DEF HashInv, Files, KeysUnique
    <2>2. DataOwned'
        BY <1>1, <1>3 DEF HashInv, Files, DataOwned, At
    <2>3. Hands' /\ ScanSound'
        BY <1>1 DEF HashInv, Files, Hands, ScanSound, Holding
    <2> QED
        BY <2>1, <2>2, <2>3
<1>5. PICK L \in [Header -> ListShape] : Listed(L)
    BY DEF HashInv
<1>6. Lists(L)'
    <2>1. \A o, c : Belongs(o, c)' <=> Belongs(o, c)
        BY <1>1, <1>3 DEF Belongs, Killed, Dying, Chain, At
    <2>2. \A o, q : (Killed(o, q)' <=> Killed(o, q)) /\ Chain(q)' = Chain(q)
        BY <1>1 DEF Killed, Dying, Chain
    <2>3. ASSUME NEW c \in Header PROVE IsList(c, L[c])'
        <3>1. IsList(c, L[c])
            BY <1>5 DEF Listed, Lists
        <3> QED
            BY <1>1, <1>3, <2>1, <2>2, <3>1 DEF IsList
    <2> QED
        BY <2>3 DEF Lists
<1>7. ASSUME NEW q \in Procs PROVE Knows(q, L)'
    <2>1. Knows(q, L) /\ Lists(L)
        BY <1>5 DEF Listed
    <2>2. Frame(q, L, L)
        BY <1>1, <2>1, QuietFrame
    <2> QED
        BY <2>1, <2>2, FrameKnows DEF HashInv, Files
<1> QED
    BY <1>2, <1>4, <1>5, <1>6, <1>7 DEF HashInv, Files, Listed

\* Every file operation keeps the files sound.
LEMMA HashInvNext == HashInv /\ [Next]_vars => HashInv'
<1> SUFFICES ASSUME HashInv, [Next]_vars PROVE HashInv'
    OBVIOUS
<1>1. ASSUME NEW p \in Procs, Begin(p) \/ Step(p) PROVE HashInv'
    <2>1. PICK L \in [Header -> ListShape] : Listed(L)
        BY DEF HashInv
    <2>2. Files /\ LockInv /\ TypeOK /\ Knows(p, L)
        BY <2>1 DEF HashInv, Files, Listed
    <2>3. LockInv' /\ TypeOK' /\ ScanSound'
        BY <1>1, <2>2, StepFacts, ScanSoundNext DEF Files
    <2>4. Kept
        <3>1. CASE Reads(p)
            BY <2>1, <2>2, <3>1, ReadsKeep DEF Kept
        <3>2. CASE DelDat(p) \/ Overwrite(p) \/ ReuseDat(p) \/ NewDat(p)
            BY <2>1, <2>2, <3>2, DataKeeps DEF Kept
        <3>3. CASE DelIdx(p)
            BY <2>1, <2>2, <3>3, DelIdxKeeps
        <3>4. CASE DelFree(p)
            BY <2>1, <2>2, <3>4, DelFreeKeeps
        <3>5. CASE DelUnlink(p)
            BY <2>1, <2>2, <3>5, DelUnlinkKeeps
        <3>6. CASE FreeTake(p)
            BY <2>1, <2>2, <3>6, FreeTakeKeeps
        <3>7. CASE ReuseIdx(p) \/ NewIdx(p)
            BY <2>1, <2>2, <3>7, StoreIdxKeeps
        <3>8. CASE Link(p)
            BY <2>1, <2>2, <3>8, LinkKeeps
        <3> QED
            BY <1>1, <3>1, <3>2, <3>3, <3>4, <3>5, <3>6, <3>7, <3>8
            DEF Reads, Step, Find, Delete, FindFree, Store
    <2> QED
        BY <2>3, <2>4 DEF HashInv, Files, Kept
<1>2. CASE UNCHANGED vars
    BY <1>2, HashInvStutters
<1> QED
    BY <1>1, <1>2 DEF Next

\* Locks, types, lists, keys and data, and what each process knows of them.
LEMMA HashInvariant == Spec => []HashInv
<1> QED
    BY HashInit, HashInvNext, PTL DEF Spec

\* At every moment between the file operations of all processes, each list that
\* nobody is changing ends and has exactly its records, no key is there twice,
\* and each key has data of its own: what _db_dodelete, db_store and _db_findfree
\* write, in the order in which they write it, never loses a record.
THEOREM FilesStaySound == Spec => []FilesSound
<1>1. HashInv => FilesSound
    BY SoundLists DEF HashInv, Files, Listed, FilesSound
<1> QED
    BY <1>1, HashInvariant, PTL

\* db_nextrec returns a key with data that was stored under that key.
THEOREM ScansSound == Spec => []ScanSound
<1>1. HashInv => ScanSound
    BY DEF HashInv, Files
<1> QED
    BY <1>1, HashInvariant, PTL

-----------------------------------------------------------------------------
(* The calls act at one moment each: the refinement of KVStore. *)

\* The pc of a call that has acted in KVStore if its handle still has the key.
ActedAt == {"delidx", "delfree", "delunlink", "reread", "locknewdat", "newdat",
            "locknewidx", "newidx", "link"}

\* What a call has read, and which call it is, from where it is in it.
Reading(p) ==
    LET lb == pc[p]  k == call[p].key  op == call[p].op  IN
    /\ lb # "idle" => h[p].rc = <<>>
    /\ lb \in AllOps \cup {"idle"} => h[p].key = Blank
    /\ lb \in {"walk", "freewalk", "freetake", "reusedat", "reuseidx"} => h[p].key # k
    /\ lb \in Deleting \cup {"reread"} => h[p].key = k
    /\ lb \in Deleting => op # "insert"
    /\ lb = "overwrite" => op \in {"replace", "store"}
    /\ lb = "readdat" => op = "fetch"
    /\ lb \in InScan => op = "nextrec"
    /\ lb \in {"freewalk", "freetake", "reusedat", "reuseidx"} => op \in {"insert", "store"}
    /\ lb \in ActedAt \ Deleting => op \in IF h[p].key = k THEN {"replace", "store"} ELSE {"insert", "store"}

\* The data of a record in the middle of its deletion, or about to be linked.
Written(p) ==
    /\ At(p, "delidx") => dat[h[p].datoff].val = Blank
    /\ At(p, "link") => dat[RecAt(h[p].idxoff).datoff].val = call[p].val

CallInv == HashInv /\ \A p \in Procs : Reading(p) /\ Written(p)

\* A process in a call of the database has a key.
LEMMA ChainKey ==
    ASSUME LockInv, NEW p \in Procs, pc[p] \in InChain \/ pc[p] \in Writes \cup {"fetch"}
    PROVE  /\ call[p] \in Requests /\ call[p].key \in Keys /\ call[p].key # Blank
           /\ Chain(p) = Hash[call[p].key] /\ Chain(p) \in Chains /\ Chain(p) \in Header
           /\ call[p].op \in Writes \cup {"fetch"}
<1>1. call[p] \in Requests /\ call[p].op \in Writes \cup {"fetch"}
    BY DEF LockInv, Owns, AllOps
<1>2. call[p].key \in Keys \cup {Blank} /\ call[p].key # Blank
    BY <1>1 DEF Requests, Writes, Stores
<1> QED
    BY <1>1, <1>2, HeaderFacts DEF Chain

\* What _db_readidx leaves in the handle.
LEMMA LoadedHas ==
    ASSUME NEW f \in Handles, NEW o
    PROVE  /\ Loaded(f, o).key = RecAt(o).key /\ Loaded(f, o).rc = f.rc /\ Loaded(f, o).off = f.off
           /\ Loaded(f, o).ptrval = RecAt(o).ptr /\ Loaded(f, o).datoff = RecAt(o).datoff
           /\ Loaded(f, o).idxoff = o /\ DOMAIN Loaded(f, o) = DOMAIN f
           /\ {"off", "ptroff", "key", "rc", "head"} \subseteq DOMAIN f
BY DEF Loaded, Handles

\* The reading of a step of p.
LEMMA ReadingStep ==
    ASSUME Files, NEW L, Listed(L), NEW p \in Procs, Reading(p), Begin(p) \/ Step(p)
    PROVE  Reading(p)'
<1> USE DEF At, Goto, SetHandle, SameCall
<1>1. /\ LockInv /\ TypeOK /\ Knows(p, L) /\ Lists(L) /\ Owns(p)
      /\ DOMAIN h = Procs /\ pc \in [Procs -> AllLabels] /\ call \in [Procs -> Requests \cup {NoCall}]
      /\ h[p] \in Handles /\ call[p].op \in AllOps \cup {"none"}
    BY StepFacts DEF Files, Listed, TypeOK, HandleOK, LockInv, Requests, NoCall
<1>2. CASE Begin(p)
    <2>1. PICK r \in Requests : call' = [call EXCEPT ![p] = r] /\ pc' = [pc EXCEPT ![p] = r.op]
        BY <1>2 DEF Begin
    <2>2. pc'[p] \in AllOps /\ h'[p].rc = <<>> /\ h'[p].key = h[p].key
        BY <1>1, <1>2, <2>1 DEF Begin, Requests, Handles
    <2> QED
        BY <1>2, <2>2 DEF Begin, Reading, AllOps, Writes, Stores, Deleting, InScan, ActedAt
<1>3. CASE LockChain(p)
    <2>1. call[p].key # Blank
        BY <1>1, <1>3, ChainKey DEF LockChain
    <2>2. h'[p].key = h[p].key /\ h'[p].rc = h[p].rc /\ pc'[p] = "walk" /\ call'[p] = call[p]
        BY <1>1, <1>3, LoadedHas DEF LockChain
    <2>3. pc[p] \in AllOps /\ pc[p] # "idle"
        BY <1>3 DEF LockChain, AllOps, Writes, Stores
    <2> QED
        BY <2>1, <2>2, <2>3 DEF Reading, AllOps, Writes, Stores, Deleting, InScan, ActedAt
<1>4. CASE WalkOn(p)
    <2>1. h'[p].key = RecAt(h[p].off).key /\ h'[p].rc = h[p].rc /\ pc'[p] = "walk" /\ call'[p] = call[p]
        BY <1>1, <1>4, LoadedHas DEF WalkOn
    <2> QED
        BY <1>4, <2>1 DEF WalkOn, Matches, Reading, AllOps, Writes, Stores, Deleting, InScan, ActedAt
<1>5. CASE Found(p)
    <2>1. call[p].op \in Writes \cup {"fetch"}
        BY <1>1, <1>5, ChainKey DEF Found, InChain
    <2>2. /\ pc[p] = "walk" /\ RecAt(h[p].off).key = call[p].key
          /\ call[p].op # "insert" /\ h'[p] = Loaded(h[p], h[p].off) /\ call' = call
        BY <1>1, <1>5 DEF Found, Matches
    <2>3. \/ pc'[p] = "readdat" /\ call[p].op = "fetch"
          \/ pc'[p] = "overwrite" /\ call[p].op \in Stores
          \/ pc'[p] = "deldat" /\ call[p].op # "fetch"
        BY <1>1, <1>5 DEF Found
    <2>4. h'[p].key = call[p].key /\ h'[p].rc = h[p].rc
        BY <1>1, <2>2, LoadedHas
    <2>5. h'[p].rc = <<>>
        BY <2>2, <2>4 DEF Reading
    <2> QED
        BY <2>1, <2>2, <2>3, <2>4, <2>5 DEF Reading, AllOps, Writes, Stores, Deleting, InScan, ActedAt
<1>6. CASE FoundInsert(p) \/ NotFound(p) \/ ReadDat(p) \/ Overwrite(p) \/ Link(p) \/ ScanEnd(p) \/ ScanDat(p)
    <2>1. PICK x, pos, B : Return(p, x, pos, B)
        <3>1. CASE NotFound(p) \/ ReadDat(p) \/ FoundInsert(p)
            BY <3>1 DEF NotFound, ReadDat, FoundInsert
        <3>2. CASE Overwrite(p) \/ Link(p) \/ ScanEnd(p) \/ ScanDat(p)
            BY <3>2 DEF Overwrite, Link, ScanEnd, ScanDat
        <3> QED
            BY <1>6, <3>1, <3>2
    <2>2. pc'[p] = "idle" /\ h'[p].key = Blank
        BY <1>1, <2>1 DEF Return, NewHandle
    <2> QED
        BY <2>2 DEF Reading, AllOps, Deleting, InScan, ActedAt
<1>7. CASE StartFree(p)
    <2>1. h'[p].key = h[p].key /\ h'[p].rc = h[p].rc /\ pc'[p] = "freewalk" /\ call'[p] = call[p]
        BY <1>1, <1>7, LoadedHas DEF StartFree
    <2> QED
        BY <1>7, <2>1 DEF StartFree, Reading, AllOps, Writes, Stores, Deleting, InScan, ActedAt
<1>8. CASE FreeWalkOn(p) \/ FreeFound(p)
    <2>1. h[p].off \in L[FREE_OFF].set
        BY <1>1, <1>8 DEF FreeWalkOn, FreeFound, Fits, Knows, OnFree
    <2>2. RecAt(h[p].off).key = Blank
        BY <1>1, <2>1, LockedLists
    <2>3. call[p].key # Blank
        BY <1>1, <1>8, ChainKey DEF FreeWalkOn, FreeFound, InChain, InFree
    <2>4. h'[p].key = Blank /\ h'[p].rc = h[p].rc /\ call'[p] = call[p]
        <3>1. CASE FreeWalkOn(p)
            BY <1>1, <2>2, <3>1, LoadedHas DEF FreeWalkOn
        <3>2. CASE FreeFound(p)
            BY <1>1, <2>2, <3>2, LoadedHas DEF FreeFound
        <3> QED
            BY <1>8, <3>1, <3>2
    <2>5. pc[p] = "freewalk" /\ pc'[p] \in {"freewalk", "freetake"}
        BY <1>1, <1>8 DEF FreeWalkOn, FreeFound
    <2> QED
        BY <2>3, <2>4, <2>5 DEF Reading, AllOps, Writes, Stores, Deleting, InScan, ActedAt
<1>9. CASE \/ DelDat(p) \/ DelIdx(p) \/ DelFree(p) \/ (DelUnlink(p) /\ call[p].op # "delete") \/ FreeTake(p)
           \/ NoneFree(p) \/ ReuseDat(p) \/ ReuseIdx(p) \/ NewDat(p) \/ NewIdx(p)
    <2>1. h'[p] = h[p] /\ call'[p] = call[p]
        BY <1>9 DEF DelDat, DelIdx, DelFree, DelUnlink, FreeTake, NoneFree, ReuseDat, ReuseIdx, NewDat,
           NewIdx
    <2>2. <<pc[p], pc'[p]>> \in
              {<<"deldat", "delidx">>, <<"delidx", "delfree">>, <<"delfree", "delunlink">>, <<"delunlink", "reread">>,
               <<"freetake", "reusedat">>, <<"freewalk", "locknewdat">>, <<"reusedat", "reuseidx">>,
               <<"reuseidx", "link">>, <<"newdat", "locknewidx">>, <<"newidx", "link">>}
        BY <1>1, <1>9 DEF DelDat, DelIdx, DelFree, DelUnlink, FreeTake, NoneFree, ReuseDat, ReuseIdx,
           NewDat, NewIdx
    <2>3. pc[p] = "delunlink" => call[p].op \in {"replace", "store"}
        <3>1. pc[p] = "delunlink" => call[p].op \in Writes /\ call[p].op # "delete"
            BY <1>1, <1>9 DEF Owns, Deleting, DelDat, DelIdx, DelFree, FreeTake, NoneFree, ReuseDat,
               ReuseIdx, NewDat, NewIdx
        <3> QED
            BY <3>1 DEF Reading, Deleting, Writes, Stores
    <2> QED
        BY <2>1, <2>2, <2>3 DEF Reading, AllOps, Writes, Stores, Deleting, InScan, ActedAt
<1>10. CASE DelUnlink(p) /\ call[p].op = "delete"
    <2>1. pc'[p] = "idle" /\ h'[p].key = Blank
        BY <1>1, <1>10 DEF DelUnlink, Return, NewHandle
    <2> QED
        BY <2>1 DEF Reading, AllOps, Deleting, InScan, ActedAt
<1>11. CASE Reread(p) \/ LockNewDat(p) \/ LockNewIdx(p)
    <2>1. h'[p].key = h[p].key /\ h'[p].rc = h[p].rc /\ call'[p] = call[p]
        <3>1. CASE Reread(p)
            BY <1>1, <3>1 DEF Reread, Handles
        <3>2. CASE LockNewDat(p)
            BY <1>1, <3>2 DEF LockNewDat, Handles
        <3>3. CASE LockNewIdx(p)
            BY <1>1, <3>3 DEF LockNewIdx, Handles
        <3> QED
            BY <1>11, <3>1, <3>2, <3>3
    <2>2. <<pc[p], pc'[p]>> \in {<<"reread", "locknewdat">>, <<"locknewdat", "newdat">>, <<"locknewidx", "newidx">>}
        BY <1>1, <1>11 DEF Reread, LockNewDat, LockNewIdx
    <2> QED
        BY <2>1, <2>2 DEF Reading, AllOps, Writes, Stores, Deleting, InScan, ActedAt
<1>12. CASE LinkInvalid(p) \/ ScanLost(p)
    <2>1. pc'[p] = "exited" /\ h'[p] = h[p] /\ pc[p] # "idle"
        BY <1>1, <1>12 DEF LinkInvalid, ScanLost, Exit
    <2> QED
        BY <2>1 DEF Reading, AllOps, Writes, Stores, Deleting, InScan, ActedAt
<1>13. CASE Rewind(p)
    <2>1. pc'[p] = "idle" /\ h'[p].key = h[p].key /\ pc[p] \in AllOps
        BY <1>1, <1>13 DEF Rewind, Handles, AllOps
    <2> QED
        BY <2>1 DEF Reading, AllOps, Deleting, InScan, ActedAt
<1>14. CASE NextRec(p) \/ ScanOn(p)
    <2>1. pc'[p] \in InScan /\ h'[p].rc = h[p].rc /\ call'[p] = call[p] /\ pc[p] # "idle"
        <3>1. CASE NextRec(p)
            BY <1>1, <3>1 DEF NextRec, InScan
        <3>2. CASE ScanOn(p)
            <4>1. h'[p] = Loaded(h[p], h[p].pos) /\ call' = call /\ pc[p] = "scan"
                BY <1>1, <3>2 DEF ScanOn
            <4>2. h'[p].rc = h[p].rc
                BY <1>1, <4>1, LoadedHas
            <4>3. pc'[p] \in InScan
                BY <1>1, <3>2 DEF ScanOn, InScan
            <4> QED
                BY <4>1, <4>2, <4>3
        <3> QED
            BY <1>14, <3>1, <3>2
    <2>2. call[p].op = "nextrec"
        BY <1>1, <1>14 DEF NextRec, ScanOn, Reading, Owns, AllOps, InScan
    <2> QED
        BY <2>1, <2>2 DEF Reading, AllOps, Writes, Stores, Deleting, InScan, ActedAt
<1> QED
    BY <1>2, <1>3, <1>4, <1>5, <1>6, <1>7, <1>8, <1>9, <1>10, <1>11, <1>12, <1>13, <1>14
    DEF Step, Find, Delete, FindFree, Store, Scan

\* What a step of p does to the data of the files, as the record and the data
\* that it has in its handle tell.
DataStep(p) ==
    /\ Records' = Records \/ (At(p, "newidx") /\ Records' = Records \cup {h[p].idxoff})
    /\ \A x \in Records :
          /\ RecAt(x)'.datoff = RecAt(x).datoff /\ RecAt(x).datoff \in DOMAIN dat
          /\ x # h[p].idxoff \/ pc[p] \notin {"delidx", "reuseidx"} => RecAt(x)'.key = RecAt(x).key
    /\ \A j \in DOMAIN dat :
          j # h[p].datoff \/ pc[p] \notin {"deldat", "overwrite", "reusedat"} => dat'[j] = dat[j]

\* Every step is one of those.
LEMMA StepData ==
    ASSUME Files, NEW L, Listed(L), NEW p \in Procs, Begin(p) \/ Step(p)
    PROVE  DataStep(p)
<1>1. PICK o, f : o = h[p].idxoff /\ f = h[p]
    OBVIOUS
<1>2. /\ LockInv /\ TypeOK /\ TypeOK' /\ Lists(L) /\ Knows(p, L) /\ HandleOK(p) /\ FilesOK
      /\ f \in Handles /\ (pc[p] \in HasIdx => o \in Records)
    BY <1>1, StepFacts DEF Files, Listed, TypeOK, HandleOK
<1>3. \A x \in Records : RecAt(x) = idx[x - NHash] /\ x - NHash \in DOMAIN idx /\ RecAt(x).datoff \in DOMAIN dat
    BY <1>2, FileFacts DEF FilesOK
<1>4. CASE Reads(p)
    <2>1. dat' = dat /\ Records' = Records /\ \A x : RecAt(x)' = RecAt(x)
        BY <1>2, <1>4, ReadsQuietly
    <2> QED
        BY <1>3, <2>1 DEF DataStep
<1>5. CASE DelDat(p) \/ Overwrite(p) \/ ReuseDat(p) \/ NewDat(p)
    <2>1. PICK v \in Vals \cup {Blank} : WriteDat(h[p], v)
        <3>1. CASE DelDat(p)
            BY <3>1 DEF DelDat
        <3>2. CASE Overwrite(p) \/ ReuseDat(p) \/ NewDat(p)
            <4>1. pc[p] \in Storing
                BY <3>2 DEF Overwrite, ReuseDat, NewDat, Storing, At
            <4>2. call[p].val \in Vals
                BY <1>2, <4>1, StoredValue, ParamAssumption
            <4> QED
                BY <3>2, <4>2 DEF Overwrite, ReuseDat, NewDat
        <3> QED
            BY <1>5, <3>1, <3>2
    <2>2. pc[p] \in {"deldat", "overwrite", "reusedat", "newdat"}
        BY <1>5 DEF DelDat, Overwrite, ReuseDat, NewDat, At
    <2>3. /\ hdr' = hdr /\ idx' = idx
          /\ h[p].datoff \in DOMAIN dat' /\ dat'[h[p].datoff] = [val |-> v, len |-> h[p].datlen]
          /\ \A j \in DOMAIN dat : j # h[p].datoff => dat'[j] = dat[j]
          /\ IF pc[p] = "newdat" THEN h[p].datoff \notin DOMAIN dat
             ELSE /\ h[p].idxoff \in Records /\ RecAt(h[p].idxoff).datoff = h[p].datoff
                  /\ RecAt(h[p].idxoff).datlen = h[p].datlen
                  /\ \A r \in Records : RecAt(r).datoff = h[p].datoff => r = h[p].idxoff
        BY <2>1, <2>2, DataWritten
    <2>4. Records' = Records /\ \A x : RecAt(x)' = RecAt(x)
        BY <2>3 DEF Records, IdxEnd, RecAt
    <2> QED
        BY <1>1, <1>3, <2>2, <2>3, <2>4 DEF DataStep
<1>6. CASE DelIdx(p) \/ ReuseIdx(p) \/ NewIdx(p)
    <2>1. PICK k \in Keys \cup {Blank}, n \in Nat, ptr \in Ptrs : WriteIdx(f, k, n, ptr)
        <3>1. call[p].key \in Keys /\ KeyLen[call[p].key] \in Nat
            BY <1>2, <1>6, WriterAlone, ParamAssumption DEF DelIdx, ReuseIdx, NewIdx, At, Writing
        <3>2. ReadPtr(FREE_OFF) \in Ptrs /\ f.head \in Ptrs
            BY <1>2, HeaderFacts DEF ReadPtr, FilesOK, Handles
        <3> QED
            BY <1>1, <1>6, <3>1, <3>2 DEF DelIdx, ReuseIdx, NewIdx
    <2>2. pc[p] \in {"delidx", "reuseidx", "newidx"} /\ (pc[p] = "newidx" => o = IdxEnd)
        BY <1>1, <1>2, <1>6 DEF DelIdx, ReuseIdx, NewIdx, At, HandleOK
    <2>3. /\ f.datoff \in DOMAIN dat /\ f.datlen \in Nat /\ (o \in Records \/ o = IdxEnd)
          /\ f.idxoff = o /\ (pc[p] # "newidx" => o \in Records)
        BY <1>1, <1>2, <2>2 DEF HandleOK, HasDat, HasIdx, Handles
    <2>4. pc[p] \in {"delidx", "reuseidx"} => f.datoff = RecAt(o).datoff
        BY <1>1, <1>2 DEF Knows, OnChain, OwnRecord, HasRecord, InChain, InFree
    <2>5. f.idxoff \in Records \/ f.idxoff = IdxEnd
        BY <2>3
    <2>6. /\ dat' = dat /\ Records' = Records \cup {f.idxoff} /\ IdxEnd \notin Records
          /\ RecAt(f.idxoff)' = [key |-> k, klen |-> n, datoff |-> f.datoff, datlen |-> f.datlen, ptr |-> ptr]
          /\ \A x \in Records : x # f.idxoff => RecAt(x)' = RecAt(x)
        BY <1>2, <2>1, <2>3, <2>5, RecWritten
    <2>7. ASSUME NEW x \in Records
          PROVE  RecAt(x)'.datoff = RecAt(x).datoff /\ (x # o => RecAt(x)'.key = RecAt(x).key)
        <3>1. CASE x = f.idxoff
            BY <1>1, <2>2, <2>3, <2>4, <2>6, <3>1 DEF RecAt
        <3>2. CASE x # f.idxoff
            BY <2>6, <3>2
        <3> QED
            BY <3>1, <3>2
    <2> QED
        BY <1>1, <1>3, <2>2, <2>3, <2>6, <2>7 DEF DataStep, At
<1>7. CASE DelFree(p) \/ DelUnlink(p) \/ FreeTake(p) \/ Link(p)
    <2>1. PICK a \in Header \cup Records, v \in Ptrs : WritePtr(a, v)
        <3>1. o \in Ptrs
            BY <1>2, <1>7 DEF DelFree, DelUnlink, FreeTake, Link, At, HasIdx, Ptrs
        <3>2. f.ptroff \in Header \cup Records /\ f.ptrval \in Ptrs
            BY <1>2 DEF Handles
        <3>3. Link(p) => Chain(p) \in Header
            BY <1>2, WriterAlone DEF Link, At, Writing
        <3> QED
            BY <1>1, <1>7, <3>1, <3>2, <3>3, HeaderFacts DEF DelFree, DelUnlink, FreeTake, Link
    <2>2. dat' = dat /\ Records' = Records
        BY <1>2, <2>1, PtrWritten
    <2>3. \A x \in Records : RecAt(x)' = [RecAt(x) EXCEPT !.ptr = IF x = a THEN v ELSE @]
        BY <1>2, <2>1, PtrWritten
    <2>4. \A x \in Records : RecAt(x)'.datoff = RecAt(x).datoff /\ RecAt(x)'.key = RecAt(x).key
        BY <1>2, <2>3, FileFacts DEF IdxRecord
    <2> QED
        BY <1>3, <2>2, <2>4 DEF DataStep
<1> QED
    BY <1>4, <1>5, <1>6, <1>7 DEF Reads, Step, Find, Delete, FindFree, Store

\* A record that a process of a chain has found, written or taken.
LEMMA RecordOf ==
    ASSUME Files, NEW L, Listed(L), NEW p \in Procs
    PROVE  /\ pc[p] \in {"readdat", "overwrite", "deldat", "delidx"} =>
                 /\ h[p].idxoff \in Linked(call[p].key) /\ h[p].datoff = RecAt(h[p].idxoff).datoff
           /\ At(p, "walk") /\ Matches(p) => h[p].off \in Linked(call[p].key)
           /\ pc[p] \in {"freetake", "reusedat"} => RecAt(h[p].idxoff).key = Blank
           /\ pc[p] \in {"reusedat", "reuseidx"} => h[p].datoff = RecAt(h[p].idxoff).datoff
           /\ At(p, "link") => RecAt(h[p].idxoff).key = call[p].key
           /\ At(p, "walk") /\ h[p].off = 0 => Linked(call[p].key) = {}
           /\ pc[p] \in (Storing \ {"overwrite"}) \cup {"delfree", "delunlink"} => Linked(call[p].key) = {}
<1> USE DEF At
<1>1. PICK c, l : c = Chain(p) /\ l = L[Chain(p)]
    OBVIOUS
<1>2. LockInv /\ TypeOK /\ Lists(L) /\ Knows(p, L)
    BY DEF Files, Listed
<1>3. /\ pc[p] \in {"readdat", "overwrite", "deldat", "delidx", "walk", "delfree", "delunlink"} \cup Storing
            => pc[p] \in InChain
      /\ pc[p] \in InChain => OnChain(p, l) /\ c \in Header /\ call[p].key \in Keys /\ Hash[call[p].key] = c
    BY <1>1, <1>2, ChainKey DEF InChain, InFree, Storing, Knows
<1>4. ASSUME pc[p] \in InChain
      PROVE  \A x \in Records : /\ x \in l.set => ~InHand(x)
                                /\ RecAt(x).key = call[p].key /\ ~InHand(x) => x \in l.set
    <2>1. call[p].key # Blank /\ c \in Header /\ call[p].key \in Keys /\ Hash[call[p].key] = c
        BY <1>2, <1>3, <1>4, ChainKey
    <2>2. \A x \in Records : x \in l.set <=> Belongs(x, c)
        BY <1>1, <1>2, <2>1, ListFacts
    <2> QED
        BY <2>1, <2>2 DEF Belongs
<1>5. l.set \subseteq Records \/ pc[p] \notin InChain
    BY <1>1, <1>2, <1>3, ListFacts
<1>6. pc[p] \in {"readdat", "overwrite", "deldat", "delidx"} =>
         h[p].idxoff \in Linked(call[p].key) /\ h[p].datoff = RecAt(h[p].idxoff).datoff
    BY <1>1, <1>3, <1>4, <1>5 DEF Linked, OnChain, HasRecord
<1>7. pc[p] = "walk" /\ Matches(p) => h[p].off \in Linked(call[p].key)
    BY <1>1, <1>3, <1>4, <1>5 DEF Linked, OnChain, Matches
<1>8. pc[p] \in {"freetake", "reusedat"} => RecAt(h[p].idxoff).key = Blank
    BY <1>2, LockedLists DEF Knows, OnFree, OwnRecord
<1>9. pc[p] \in {"reusedat", "reuseidx"} => h[p].datoff = RecAt(h[p].idxoff).datoff
    BY <1>2 DEF Knows, OwnRecord, HasRecord
<1>10. pc[p] = "link" => RecAt(h[p].idxoff).key = call[p].key
    BY <1>2 DEF Knows, OwnRecord
<1>11. pc[p] = "walk" /\ h[p].off = 0 => Linked(call[p].key) = {}
    BY <1>3, <1>4, <1>5 DEF Linked, OnChain
<1>12. pc[p] \in (Storing \ {"overwrite"}) \cup {"delfree", "delunlink"} => Linked(call[p].key) = {}
    BY <1>3, <1>4, <1>5 DEF Linked, OnChain
<1> QED
    BY <1>6, <1>7, <1>8, <1>9, <1>10, <1>11, <1>12

\* The place of p, and the one step that it can take from there.
LEMMA StepFrom ==
    ASSUME NEW p \in Procs, Begin(p) \/ Step(p)
    PROVE  /\ pc[p] # "exited"
           /\ pc[p] = "delidx" => DelIdx(p)
           /\ pc[p] = "newidx" => NewIdx(p)
           /\ pc[p] = "scandat" => ScanDat(p)
           /\ pc[p] = "rewind" => Rewind(p)
BY DEF Begin, Step, Find, Delete, FindFree, Store, Scan, At, LockChain, WalkOn, Found, FoundInsert,
   NotFound, ReadDat, DelDat, DelIdx, DelFree, DelUnlink, StartFree, FreeWalkOn, FreeFound, FreeTake,
   NoneFree, Reread, Overwrite, ReuseDat, ReuseIdx, LockNewDat, NewDat, LockNewIdx, NewIdx, Link,
   LinkInvalid, Rewind, NextRec, ScanEnd, ScanOn, ScanDat, ScanLost, Writes, Stores

\* Where a step of p leads, when it begins or ends what counts as acting.
LEMMA PcStep ==
    ASSUME Files, NEW p \in Procs, Begin(p) \/ Step(p)
    PROVE  /\ pc'[p] = "delidx" => DelDat(p)
           /\ pc'[p] = "link" => ReuseIdx(p) \/ NewIdx(p)
           /\ pc[p] = "link" => Link(p) \/ LinkInvalid(p)
           /\ pc'[p] \in ActedAt =>
                 \/ DelDat(p) \/ NoneFree(p) \/ ReuseIdx(p)
                 \/ (pc[p] \in ActedAt /\ call'[p] = call[p] /\ h'[p].key = h[p].key)
           /\ pc[p] \in ActedAt =>
                 \/ (DelUnlink(p) /\ call[p].op = "delete") \/ Link(p) \/ LinkInvalid(p)
                 \/ (pc'[p] \in ActedAt /\ call'[p] = call[p] /\ h'[p].key = h[p].key)
<1> USE DEF At, Goto, SetHandle, SameCall
<1>1. /\ DOMAIN h = Procs /\ pc \in [Procs -> AllLabels] /\ call \in [Procs -> Requests \cup {NoCall}]
      /\ h[p] \in Handles
    BY StepFacts DEF Files, TypeOK, HandleOK
<1>2. CASE Begin(p)
    <2>1. pc[p] = "idle" /\ pc'[p] \in AllOps
        BY <1>1, <1>2 DEF Begin, Requests
    <2> QED
        BY <2>1 DEF AllOps, Writes, Stores, ActedAt
<1>3. CASE \/ LockChain(p) \/ WalkOn(p) \/ Found(p) \/ StartFree(p) \/ FreeWalkOn(p) \/ FreeFound(p)
           \/ FreeTake(p) \/ ReuseDat(p) \/ NextRec(p) \/ ScanOn(p) \/ Rewind(p) \/ ScanLost(p)
    <2>1. /\ pc[p] \in AllOps \cup {"walk", "freewalk", "freetake", "reusedat", "scan"}
          /\ pc'[p] \in {"walk", "readdat", "overwrite", "deldat", "freewalk", "freetake", "reusedat",
                         "reuseidx", "scan", "scandat", "idle", "exited"}
        BY <1>1, <1>3 DEF LockChain, WalkOn, Found, StartFree, FreeWalkOn, FreeFound, FreeTake, ReuseDat,
           NextRec,
           ScanOn, Rewind, ScanLost, Exit, AllOps
    <2> QED
        BY <2>1 DEF AllOps, Writes, Stores, ActedAt
<1>4. CASE FoundInsert(p) \/ NotFound(p) \/ ReadDat(p) \/ Overwrite(p) \/ ScanEnd(p) \/ ScanDat(p)
    <2>1. pc[p] \in {"walk", "readdat", "overwrite", "scan", "scandat"} /\ pc'[p] = "idle"
        BY <1>1, <1>4 DEF FoundInsert, NotFound, ReadDat, Overwrite, ScanEnd, ScanDat, Return
    <2> QED
        BY <2>1 DEF ActedAt
<1>5. CASE DelDat(p) \/ NoneFree(p) \/ ReuseIdx(p)
    <2>1. pc[p] \in {"deldat", "freewalk", "reuseidx"} /\ pc'[p] \in {"delidx", "locknewdat", "link"}
        BY <1>1, <1>5 DEF DelDat, NoneFree, ReuseIdx
    <2>2. (pc'[p] = "delidx" => DelDat(p)) /\ (pc'[p] = "link" => ReuseIdx(p))
        BY <1>1, <1>5 DEF DelDat, NoneFree, ReuseIdx
    <2> QED
        BY <1>5, <2>1, <2>2 DEF ActedAt
<1>6. CASE \/ DelIdx(p) \/ DelFree(p) \/ (DelUnlink(p) /\ call[p].op # "delete")
           \/ NewDat(p) \/ Reread(p) \/ LockNewDat(p) \/ LockNewIdx(p)
    <2>1. pc'[p] \in ActedAt \ {"delidx", "link"} /\ pc[p] \in ActedAt \ {"link"}
        BY <1>1, <1>6 DEF DelIdx, DelFree, DelUnlink, NewDat, Reread, LockNewDat, LockNewIdx, ActedAt
    <2>2. call'[p] = call[p]
        BY <1>6 DEF DelIdx, DelFree, DelUnlink, NewDat, Reread, LockNewDat, LockNewIdx
    <2>3. h'[p].key = h[p].key
        <3>1. CASE Reread(p)
            BY <1>1, <3>1 DEF Reread, Handles
        <3>2. CASE LockNewDat(p)
            BY <1>1, <3>2 DEF LockNewDat, Handles
        <3>3. CASE LockNewIdx(p)
            BY <1>1, <3>3 DEF LockNewIdx, Handles
        <3> QED
            BY <1>6, <3>1, <3>2, <3>3 DEF DelIdx, DelFree, DelUnlink, NewDat
    <2> QED
        BY <2>1, <2>2, <2>3
<1>7. CASE NewIdx(p)
    BY <1>1, <1>7 DEF NewIdx, ActedAt
<1>8. CASE (DelUnlink(p) /\ call[p].op = "delete") \/ Link(p) \/ LinkInvalid(p)
    <2>1. pc'[p] \in {"idle", "exited"}
        BY <1>1, <1>8 DEF DelUnlink, Link, LinkInvalid, Return, Exit
    <2> QED
        BY <1>8, <2>1 DEF ActedAt, DelUnlink
<1> QED
    BY <1>2, <1>3, <1>4, <1>5, <1>6, <1>7, <1>8 DEF Step, Find, Delete, FindFree, Store, Scan

\* Two records have two data records.
LEMMA RecordsApart ==
    ASSUME FilesOK, DataOwned, NEW x \in Records, NEW y \in Records, RecAt(x).datoff = RecAt(y).datoff
    PROVE  x = y
<1>1. x - NHash \in DOMAIN idx /\ y - NHash \in DOMAIN idx /\ x \in Int /\ y \in Int /\ NHash \in Int
    BY FileFacts DEF Records
<1>2. idx[x - NHash].datoff = idx[y - NHash].datoff
    BY DEF RecAt
<1>3. x - NHash = y - NHash
    BY <1>1, <1>2 DEF DataOwned
<1> QED
    BY <1>1, <1>3

\* Two processes that write data write it in two records.
LEMMA WritersApart ==
    ASSUME Files, NEW L, Listed(L), NEW p \in Procs, NEW q \in Procs \ {p},
           pc[p] \in {"deldat", "overwrite", "reusedat"}, pc[q] \in {"delidx", "link"}
    PROVE  h[p].datoff # RecAt(h[q].idxoff).datoff
<1>1. LockInv /\ TypeOK /\ FilesOK /\ HandleOK(p) /\ HandleOK(q)
    BY DEF Files, TypeOK
<1>2. h[q].idxoff \in Records /\ h[p].datoff \in DOMAIN dat
    BY <1>1 DEF HandleOK, HasIdx, HasDat
<1>3. \A x, y \in Records : RecAt(x).datoff = RecAt(y).datoff => x = y
    BY <1>1, RecordsApart DEF Files
<1>4. h[p].idxoff \in Records /\ RecAt(h[p].idxoff).datoff = h[p].datoff
    <2>1. pc[p] = "reusedat" => h[p].idxoff \in Records
        BY <1>1 DEF HandleOK, HasIdx
    <2>2. pc[p] # "reusedat" => h[p].idxoff \in Linked(call[p].key)
        BY RecordOf
    <2> QED
        BY <2>1, <2>2, RecordOf DEF Linked
<1>5. h[p].idxoff # h[q].idxoff
    <2>1. pc[p] = "reusedat" \/ (~InHand(h[p].idxoff) /\ RecAt(h[p].idxoff).key = call[p].key)
        BY RecordOf DEF Linked
    <2>2. pc[q] = "link" \/ (~InHand(h[q].idxoff) /\ RecAt(h[q].idxoff).key = call[q].key)
        BY RecordOf DEF Linked
    <2>3. pc[p] = "reusedat" => InHand(h[p].idxoff)
        BY DEF InHand
    <2>4. pc[q] = "link" => InHand(h[q].idxoff)
        BY DEF InHand
    <2>5. CASE pc[p] = "reusedat" /\ pc[q] = "link"
        BY <2>5 DEF Files, Hands, Holding
    <2>6. CASE pc[p] # "reusedat" /\ pc[q] # "link"
        <3>1. Chain(q) # Chain(p)
            <4>1. pc[p] \in InChain /\ pc[q] \in InChain /\ pc[q] \in Writing
                BY <2>6 DEF InChain, InFree, Writing
            <4> QED
                BY <1>1, <4>1, WriterAlone
        <3> QED
            BY <2>1, <2>2, <2>6, <3>1 DEF Chain
    <2> QED
        BY <2>1, <2>2, <2>3, <2>4, <2>5, <2>6
<1> QED
    BY <1>2, <1>3, <1>4, <1>5

\* A process that is deleting a record has overwritten its data, and one that
\* links a record has written it, whatever others do in between.
LEMMA WrittenStep ==
    ASSUME Files, NEW L, Listed(L), NEW p \in Procs, Begin(p) \/ Step(p), NEW q \in Procs, Written(q)
    PROVE  Written(q)'
<1> USE DEF At
<1>1. /\ LockInv /\ TypeOK /\ FilesOK /\ Knows(p, L) /\ HandleOK(p) /\ HandleOK(q)
      /\ \A r \in Procs \ {p} : pc'[r] = pc[r] /\ call'[r] = call[r] /\ h'[r] = h[r]
      /\ DataStep(p)
    BY StepFacts, StepData DEF Files, Listed, TypeOK
<1>2. CASE q # p
    <2>1. pc[q] \in {"delidx", "link"} => h[q].idxoff \in Records
        BY <1>1 DEF HandleOK, HasIdx
    <2>2. pc[q] = "delidx" => RecAt(h[q].idxoff).datoff = h[q].datoff
        BY RecordOf
    <2>3. ASSUME pc[q] \in {"delidx", "link"}
          PROVE  /\ dat'[RecAt(h[q].idxoff).datoff] = dat[RecAt(h[q].idxoff).datoff]
                 /\ RecAt(h[q].idxoff)'.datoff = RecAt(h[q].idxoff).datoff
        <3>1. PICK o : o = h[q].idxoff
            OBVIOUS
        <3>2. h[p].datoff # RecAt(o).datoff \/ pc[p] \notin {"deldat", "overwrite", "reusedat"}
            BY <1>2, <2>3, <3>1, WritersApart
        <3>3. dat'[RecAt(o).datoff] = dat[RecAt(o).datoff] /\ RecAt(o)'.datoff = RecAt(o).datoff
            BY <1>1, <2>1, <2>3, <3>1, <3>2 DEF DataStep
        <3> QED
            BY <1>1, <1>2, <3>1, <3>3 DEF RecAt
    <2> QED
        BY <1>1, <1>2, <2>2, <2>3 DEF Written, RecAt
<1>3. CASE q = p
    <2>1. ASSUME pc'[p] = "delidx" PROVE dat'[h'[p].datoff].val = Blank
        <3>1. DelDat(p)
            BY <2>1, PcStep
        <3>2. pc[p] \in {"deldat", "overwrite", "reusedat", "newdat"} /\ WriteDat(h[p], Blank) /\ h' = h
            BY <3>1 DEF DelDat
        <3>3. Blank \in Vals \cup {Blank}
            OBVIOUS
        <3>4. dat'[h[p].datoff] = [val |-> Blank, len |-> h[p].datlen]
            BY <3>2, <3>3, DataWritten
        <3> QED
            BY <3>2, <3>4
    <2>2. ASSUME pc'[p] = "link" PROVE dat'[RecAt(h[p].idxoff)'.datoff].val = call'[p].val /\ h'[p] = h[p]
        <3>1. ReuseIdx(p) \/ NewIdx(p)
            BY <2>2, PcStep
        <3>2. /\ pc[p] \in {"reuseidx", "newidx"} /\ h' = h /\ call' = call /\ dat' = dat
              /\ (pc[p] = "newidx" => h[p].idxoff = IdxEnd)
            BY <1>1, <3>1 DEF ReuseIdx, NewIdx, SameCall, WriteIdx, HandleOK
        <3>3. dat[h[p].datoff].val = call[p].val
            BY <1>1, <3>2 DEF Knows, OwnRecord, OwnData
        <3>4. PICK f : f = h[p]
            OBVIOUS
        <3>5. RecAt(f.idxoff)'.datoff = f.datoff
            <4>1. PICK k \in Keys \cup {Blank}, n \in Nat, ptr \in Ptrs : WriteIdx(f, k, n, ptr)
                <5>1. call[p].key \in Keys /\ KeyLen[call[p].key] \in Nat
                    BY <1>1, <3>2, WriterAlone, ParamAssumption DEF Writing
                <5>2. f.head \in Ptrs
                    BY <1>1, <3>4 DEF HandleOK, Handles
                <5> QED
                    BY <3>1, <3>4, <5>1, <5>2 DEF ReuseIdx, NewIdx
            <4>2. /\ f.datoff \in DOMAIN dat /\ f.datlen \in Nat
                  /\ (f.idxoff \in Records \/ f.idxoff = IdxEnd)
                BY <1>1, <3>2, <3>4 DEF HandleOK, HasDat, HasIdx, Handles
            <4>3. RecAt(f.idxoff)' = [key |-> k, klen |-> n, datoff |-> f.datoff, datlen |-> f.datlen, ptr |-> ptr]
                BY <1>1, <4>1, <4>2, RecWritten
            <4> QED
                BY <4>3
        <3> QED
            BY <3>2, <3>3, <3>4, <3>5 DEF RecAt
    <2> QED
        BY <1>3, <2>1, <2>2 DEF Written, RecAt
<1> QED
    BY <1>2, <1>3

\* A step puts at most one record in p's hands, or links the one it has.
LEMMA InHandStep ==
    ASSUME Files, NEW L, Listed(L), NEW p \in Procs, Begin(p) \/ Step(p)
    PROVE  /\ \A x : x # h[p].idxoff \/ pc[p] \notin {"freetake", "newidx", "link"} \/ LinkInvalid(p)
                     => (InHand(x)' <=> InHand(x))
           /\ \A x : x = h[p].idxoff /\ pc[p] \in {"freetake", "newidx"} => InHand(x)'
           /\ \A x : x = h[p].idxoff /\ Link(p) => ~InHand(x)'
<1> USE DEF At, Goto, SameCall
<1>1. /\ LockInv /\ TypeOK /\ DOMAIN h = Procs /\ DOMAIN pc = Procs
      /\ \A q \in Procs \ {p} : pc'[q] = pc[q] /\ h'[q] = h[q]
    BY StepFacts DEF Files
<1>2. CASE Reads(p)
    <2>1. /\ pc'[p] \notin {"reusedat", "reuseidx", "link"}
          /\ Holding(p) => h[p].idxoff > PtrMax
        BY <1>1, <1>2, ReadsQuietly
    <2>2. \A x : InHand(x)' <=> InHand(x)
        BY <1>1, <2>1, QuietHands DEF Holding
    <2>3. pc[p] \notin {"freetake", "newidx"}
        BY <1>2 DEF Reads, Begin, LockChain, WalkOn, Found, FoundInsert, NotFound, ReadDat, StartFree,
           FreeWalkOn,
           FreeFound, NoneFree, Reread, LockNewDat, LockNewIdx, LinkInvalid, Scan, Rewind, NextRec,
           ScanEnd, ScanOn,
           ScanDat, ScanLost, Writes, Stores
    <2>4. ~Link(p)
        <3>1. h[p].idxoff \in Nat /\ PtrMax \in Nat
            BY <1>1, ParamAssumption DEF TypeOK, HandleOK, Handles
        <3>2. pc[p] # "link" \/ LinkInvalid(p)
            BY <1>2 DEF Reads, Begin, LockChain, WalkOn, Found, FoundInsert, NotFound, ReadDat, StartFree,
               FreeWalkOn,
               FreeFound, NoneFree, Reread, LockNewDat, LockNewIdx, Scan, Rewind, NextRec, ScanEnd, ScanOn,
               ScanDat, ScanLost, Writes, Stores
        <3> QED
            BY <3>1, <3>2 DEF Link, LinkInvalid
    <2> QED
        BY <2>2, <2>3, <2>4
<1>3. CASE DelDat(p) \/ Overwrite(p) \/ NewDat(p) \/ DelIdx(p) \/ DelFree(p) \/ DelUnlink(p)
    <2>1. /\ pc[p] \notin {"freetake", "newidx", "link", "reusedat", "reuseidx"}
          /\ pc'[p] \notin {"reusedat", "reuseidx", "link"}
        BY <1>1, <1>3 DEF DelDat, Overwrite, NewDat, DelIdx, DelFree, DelUnlink, Return
    <2>2. \A x : InHand(x)' <=> InHand(x)
        BY <1>1, <2>1, QuietHands DEF Holding
    <2> QED
        BY <2>1, <2>2 DEF Link
<1>4. CASE ReuseDat(p) \/ ReuseIdx(p)
    <2>1. pc[p] \in {"reusedat", "reuseidx"} /\ pc'[p] \in {"reuseidx", "link"} /\ h'[p] = h[p]
        BY <1>1, <1>4 DEF ReuseDat, ReuseIdx
    <2>2. \A x : InHand(x)' <=> InHand(x)
        BY <1>1, <2>1, QuietHands DEF Holding
    <2> QED
        BY <2>1, <2>2 DEF Link
<1>5. CASE FreeTake(p) \/ NewIdx(p)
    <2>1. pc[p] \in {"freetake", "newidx"} /\ pc'[p] \in {"reusedat", "link"} /\ h'[p] = h[p]
        BY <1>1, <1>5 DEF FreeTake, NewIdx
    <2>2. \A x : x # h[p].idxoff => (InHand(x)' <=> InHand(x))
        BY <1>1, <2>1 DEF InHand
    <2>3. \A x : x = h[p].idxoff => InHand(x)'
        BY <2>1 DEF InHand
    <2> QED
        BY <2>1, <2>2, <2>3 DEF Link, LinkInvalid
<1>6. CASE Link(p)
    <2>1. pc[p] = "link" /\ pc'[p] = "idle" /\ h[p].idxoff <= PtrMax /\ h[p].idxoff \in Nat /\ PtrMax \in Nat
        BY <1>1, <1>6, ParamAssumption DEF Link, Return, TypeOK, HandleOK, Handles
    <2>2. \A x : x # h[p].idxoff => (InHand(x)' <=> InHand(x))
        BY <1>1, <2>1 DEF InHand
    <2>3. \A x : x = h[p].idxoff => ~InHand(x)'
        <3>1. \A q \in Procs \ {p} : Holding(q) => h[q].idxoff # h[p].idxoff
            BY <2>1 DEF Files, Hands, Holding
        <3> QED
            BY <1>1, <2>1, <3>1 DEF InHand, Holding
    <2> QED
        BY <1>6, <2>1, <2>2, <2>3 DEF LinkInvalid
<1> QED
    BY <1>2, <1>3, <1>4, <1>5, <1>6 DEF Reads, Step, Find, Delete, FindFree, Store

\* The records of a key on its chain, and their data, after a step of p.
LEMMA LinkedStep ==
    ASSUME Files, NEW L, Listed(L), NEW p \in Procs, Begin(p) \/ Step(p), NEW k \in Keys
    PROVE  /\ pc[p] \notin {"delidx", "link"} \/ LinkInvalid(p) => Linked(k)' = Linked(k)
           /\ pc[p] = "delidx" => Linked(k)' = Linked(k) \ {h[p].idxoff}
           /\ Link(p) => Linked(k)' = IF k = call[p].key THEN Linked(k) \cup {h[p].idxoff} ELSE Linked(k)
           /\ \A x \in Linked(k) : x # h[p].idxoff \/ pc[p] \notin {"deldat", "overwrite"}
                                   => dat'[RecAt(x)'.datoff] = dat[RecAt(x).datoff]
<1> USE DEF At
<1>1. PICK o, d : o = h[p].idxoff /\ d = h[p].datoff
    OBVIOUS
<1>2. k # Blank
    BY ParamAssumption
<1>3. /\ LockInv /\ TypeOK /\ HandleOK(p) /\ DataStep(p) /\ FilesOK
      /\ (pc[p] \in HasIdx => o \in Records) /\ (pc[p] = "newidx" => o = IdxEnd)
      /\ IdxEnd \notin Records
      /\ \A x, y \in Records : RecAt(x).datoff = RecAt(y).datoff => x = y
    <2>1. /\ LockInv /\ TypeOK /\ HandleOK(p) /\ DataStep(p) /\ FilesOK /\ DataOwned
        BY StepData DEF Files, TypeOK
    <2>2. (pc[p] \in HasIdx => o \in Records) /\ (pc[p] = "newidx" => o = IdxEnd)
        BY <1>1, <2>1 DEF HandleOK
    <2>3. IdxEnd \notin Records
        BY <2>1, FileFacts
    <2>4. \A x, y \in Records : RecAt(x).datoff = RecAt(y).datoff => x = y
        BY <2>1, RecordsApart
    <2> QED
        BY <2>1, <2>2, <2>3, <2>4
<1>4. ASSUME NEW x
      PROVE  /\ x \in Linked(k) <=> x \in Records /\ RecAt(x).key = k /\ ~InHand(x)
             /\ x \in Linked(k)' <=> x \in Records' /\ RecAt(x)'.key = k /\ ~InHand(x)'
    BY DEF Linked
<1>5. ASSUME NEW x, x # o PROVE x \in Linked(k)' <=> x \in Linked(k)
    <2>1. x \in Records' <=> x \in Records
        BY <1>1, <1>3, <1>5 DEF DataStep
    <2>2. x \in Records => RecAt(x)'.key = RecAt(x).key
        BY <1>1, <1>3, <1>5 DEF DataStep
    <2>3. InHand(x)' <=> InHand(x)
        BY <1>1, <1>5, InHandStep
    <2> QED
        BY <1>4, <2>1, <2>2, <2>3
<1>6. ASSUME pc[p] \notin {"delidx", "link"} \/ LinkInvalid(p) PROVE o \in Linked(k)' <=> o \in Linked(k)
    <2>1. CASE pc[p] = "freetake"
        <3>1. RecAt(o).key = Blank /\ RecAt(o)'.key = RecAt(o).key
            BY <1>1, <1>3, <2>1, RecordOf DEF HasIdx, DataStep
        <3> QED
            BY <1>2, <1>4, <3>1
    <2>2. CASE pc[p] = "newidx"
        <3>1. o \notin Records
            BY <1>3, <2>2
        <3>2. InHand(o)'
            <4>1. pc[p] \in {"freetake", "newidx"}
                BY <2>2
            <4>2. \A x : x = h[p].idxoff /\ pc[p] \in {"freetake", "newidx"} => InHand(x)'
                BY InHandStep
            <4> QED
                BY <1>1, <4>1, <4>2
        <3> QED
            BY <1>4, <3>1, <3>2
    <2>3. CASE pc[p] \notin {"freetake", "newidx"}
        <3>1. (InHand(o)' <=> InHand(o)) /\ (o \in Records' <=> o \in Records)
            BY <1>3, <1>6, <2>3, InHandStep DEF DataStep
        <3>2. pc[p] = "reuseidx" => InHand(o)
            BY <1>1 DEF InHand
        <3>3. o \in Records /\ pc[p] # "reuseidx" => RecAt(o)'.key = RecAt(o).key
            <4>1. pc[p] # "delidx"
                BY <1>6 DEF LinkInvalid
            <4> QED
                BY <1>3, <4>1 DEF DataStep
        <3> QED
            BY <1>4, <3>1, <3>2, <3>3
    <2> QED
        BY <2>1, <2>2, <2>3
<1>7. ASSUME pc[p] = "delidx" PROVE o \notin Linked(k)'
    <2>1. PICK f : f = h[p]
        OBVIOUS
    <2>2. DelIdx(p)
        BY <1>7, StepFrom
    <2>3. PICK n \in Nat, ptr \in Ptrs : WriteIdx(f, Blank, n, ptr)
        <3>1. KeyLen[call[p].key] \in Nat
            BY <1>3, <1>7, WriterAlone, ParamAssumption DEF Writing
        <3>2. ReadPtr(FREE_OFF) \in Ptrs
            BY <1>3, HeaderFacts DEF ReadPtr, FilesOK
        <3> QED
            BY <2>1, <2>2, <3>1, <3>2 DEF DelIdx
    <2>4. /\ f.datoff \in DOMAIN dat /\ f.datlen \in Nat /\ (f.idxoff \in Records \/ f.idxoff = IdxEnd)
          /\ Blank \in Keys \cup {Blank}
        BY <1>3, <1>7, <2>1 DEF HandleOK, HasDat, HasIdx, Handles
    <2>5. RecAt(f.idxoff)' = [key |-> Blank, klen |-> n, datoff |-> f.datoff, datlen |-> f.datlen, ptr |-> ptr]
        BY <1>3, <2>3, <2>4, RecWritten
    <2>6. RecAt(o)'.key = Blank
        BY <1>1, <2>1, <2>5 DEF RecAt
    <2> QED
        BY <1>2, <1>4, <2>6
<1>8. ASSUME Link(p) PROVE o \in Linked(k)' <=> k = call[p].key
    <2>1. /\ pc[p] = "link" /\ o \in Records /\ o \in Records' /\ RecAt(o)'.key = RecAt(o).key
        BY <1>1, <1>3, <1>8 DEF Link, HasIdx, DataStep
    <2>2. RecAt(o).key = call[p].key /\ ~InHand(o)'
        BY <1>1, <1>8, <2>1, RecordOf, InHandStep
    <2> QED
        BY <1>4, <2>1, <2>2
<1>9. Link(p) => o \notin Linked(k)
    BY <1>1, <1>4 DEF Link, InHand
<1>10. ASSUME NEW x \in Linked(k), x # o \/ pc[p] \notin {"deldat", "overwrite"}
       PROVE  dat'[RecAt(x)'.datoff] = dat[RecAt(x).datoff]
    <2>1. x \in Records /\ ~InHand(x)
        BY DEF Linked
    <2>2. RecAt(x)'.datoff = RecAt(x).datoff /\ RecAt(x).datoff \in DOMAIN dat
        BY <1>3, <2>1 DEF DataStep
    <2>3. ASSUME pc[p] \in {"deldat", "overwrite", "reusedat"} PROVE RecAt(x).datoff # d
        <3>1. o \in Records /\ RecAt(o).datoff = d
            BY <1>1, <1>3, <2>3, RecordOf DEF HasIdx, Linked
        <3>2. x # o
            BY <1>1, <1>10, <2>1, <2>3 DEF InHand
        <3> QED
            BY <1>3, <2>1, <3>1, <3>2
    <2> QED
        BY <1>1, <1>3, <2>2, <2>3 DEF DataStep
<1>11. pc[p] \notin {"delidx", "link"} \/ LinkInvalid(p) => Linked(k)' = Linked(k)
    BY <1>5, <1>6
<1>12. pc[p] = "delidx" => Linked(k)' = Linked(k) \ {o}
    BY <1>5, <1>7
<1>13. Link(p) => Linked(k)' = IF k = call[p].key THEN Linked(k) \cup {o} ELSE Linked(k)
    BY <1>5, <1>8, <1>9
<1> QED
    BY <1>1, <1>10, <1>11, <1>12, <1>13

\* A call of the database acts in KVStore when it overwrites the old data, and
\* no longer counts as having acted when it ends.
LEMMA ActedStep ==
    ASSUME Files, NEW p \in Procs, Reading(p), Begin(p) \/ Step(p)
    PROVE  /\ Acted(p) => pc[p] \in InChain
           /\ Acted(p)' => call'[p] = call[p] /\ pc[p] \in InChain
           /\ Acted(p)' /\ ~Acted(p) => DelDat(p)
           /\ Acted(p) /\ ~Acted(p)' =>
                 (DelUnlink(p) /\ call[p].op = "delete") \/ Link(p) \/ LinkInvalid(p)
           /\ DelDat(p) => ~Acted(p) /\ Acted(p)'
           /\ Acted(p) <=> pc[p] \in ActedAt /\ h[p].key = call[p].key
           /\ \A q \in Procs \ {p} : Acted(q)' <=> Acted(q)
<1> USE DEF At, Goto, SameCall
<1>1. /\ Acted(p) <=> pc[p] \in ActedAt /\ h[p].key = call[p].key
      /\ Acted(p)' <=> pc'[p] \in ActedAt /\ h'[p].key = call'[p].key
    BY DEF Acted, ActedAt
<1>2. /\ pc[p] \in ActedAt => pc[p] \in InChain
      /\ DOMAIN pc = Procs /\ \A q \in Procs \ {p} : pc'[q] = pc[q] /\ h'[q] = h[q] /\ call'[q] = call[q]
    BY StepFacts DEF Files, ActedAt, InChain, InFree
<1>3. DelDat(p) \/ NoneFree(p) \/ ReuseIdx(p) => /\ pc[p] \in {"deldat", "freewalk", "reuseidx"}
                                                 /\ h' = h /\ call' = call
    BY DEF DelDat, NoneFree, ReuseIdx
<1>4. DelDat(p) => pc[p] = "deldat" /\ pc'[p] = "delidx"
    BY <1>2 DEF DelDat
<1>5. NoneFree(p) \/ ReuseIdx(p) => h[p].key # call[p].key
    BY DEF NoneFree, ReuseIdx, Reading
<1>6. pc[p] = "deldat" => h[p].key = call[p].key
    BY DEF Reading, Deleting
<1>7. {"deldat", "freewalk", "reuseidx"} \subseteq InChain \ ActedAt /\ "delidx" \in ActedAt
    BY DEF InChain, InFree, ActedAt
<1>8. pc'[p] \in ActedAt => \/ DelDat(p) \/ NoneFree(p) \/ ReuseIdx(p)
                            \/ (pc[p] \in ActedAt /\ call'[p] = call[p] /\ h'[p].key = h[p].key)
    BY PcStep
<1>9. pc[p] \in ActedAt => \/ (DelUnlink(p) /\ call[p].op = "delete") \/ Link(p) \/ LinkInvalid(p)
                           \/ (pc'[p] \in ActedAt /\ call'[p] = call[p] /\ h'[p].key = h[p].key)
    BY PcStep
<1>10. \A q \in Procs \ {p} : Acted(q)' <=> Acted(q)
    BY <1>2 DEF Acted
<1>11. Acted(p)' => call'[p] = call[p] /\ pc[p] \in InChain
    BY <1>1, <1>2, <1>3, <1>7, <1>8
<1>12. Acted(p)' /\ ~Acted(p) => DelDat(p)
    BY <1>1, <1>3, <1>5, <1>8
<1>13. DelDat(p) => ~Acted(p) /\ Acted(p)'
    BY <1>1, <1>3, <1>4, <1>6, <1>7
<1>14. Acted(p) /\ ~Acted(p)' => (DelUnlink(p) /\ call[p].op = "delete") \/ Link(p) \/ LinkInvalid(p)
    BY <1>1, <1>9
<1> QED
    BY <1>1, <1>2, <1>10, <1>11, <1>12, <1>13, <1>14

\* The choice from a set of one.
LEMMA OneChosen ==
    ASSUME NEW S, NEW x \in S, \A y \in S : y = x
    PROVE  (CHOOSE y \in S : TRUE) = x
OBVIOUS

\* The moving process of a key is alone on its chain.
LEMMA NoMover ==
    ASSUME LockInv, NEW p \in Procs, pc[p] \in InChain
    PROVE  Moving(call[p].key) \subseteq {p}
<1> SUFFICES ASSUME NEW q \in Moving(call[p].key), q # p PROVE FALSE
    OBVIOUS
<1>1. q \in Procs /\ Acted(q) /\ call[q].op \in Stores /\ Chain(q) = Chain(p)
    BY DEF Moving, Chain
<1>2. pc[q] \in InChain /\ call[q].op \in Writes
    BY <1>1 DEF Acted, InChain, InFree, Writes
<1> QED
    BY <1>1, <1>2, Exclusion DEF ChainExclusive

\* What the map has: the data of a process that is moving the record, the data
\* of the record on the chain, or nothing.
KvMeans ==
    \A k \in Keys :
        /\ \A p \in Moving(k) : kvBar[k] = call[p].val
        /\ Moving(k) = {} => \A o \in Linked(k) : kvBar[k] = dat[RecAt(o).datoff].val
        /\ Moving(k) = {} /\ Linked(k) = {} => kvBar[k] = Blank

\* Locks and keys make the mapping's choices unique.
LEMMA KvIs == LockInv /\ KeysUnique => KvMeans
<1> SUFFICES ASSUME LockInv, KeysUnique, NEW k \in Keys
             PROVE  /\ \A p \in Moving(k) : kvBar[k] = call[p].val
                    /\ Moving(k) = {} => \A o \in Linked(k) : kvBar[k] = dat[RecAt(o).datoff].val
                    /\ Moving(k) = {} /\ Linked(k) = {} => kvBar[k] = Blank
    BY DEF KvMeans
<1>1. ASSUME NEW p \in Moving(k) PROVE kvBar[k] = call[p].val
    <2>1. p \in Procs /\ pc[p] \in InChain /\ call[p].key = k
        BY DEF Moving, Acted, InChain, InFree
    <2>2. \A q \in Moving(k) : q = p
        BY <2>1, NoMover
    <2>3. (CHOOSE q \in Moving(k) : TRUE) = p
        BY <2>2, OneChosen
    <2> QED
        BY <2>3 DEF kvBar
<1>2. ASSUME Moving(k) = {}, NEW o \in Linked(k) PROVE kvBar[k] = dat[RecAt(o).datoff].val
    <2>1. \A q \in Linked(k) : q = o
        BY ParamAssumption DEF Linked, KeysUnique
    <2>2. (CHOOSE q \in Linked(k) : TRUE) = o
        BY <2>1, OneChosen
    <2> QED
        BY <1>2, <2>2 DEF kvBar
<1>3. Moving(k) = {} /\ Linked(k) = {} => kvBar[k] = Blank
    BY DEF kvBar
<1> QED
    BY <1>1, <1>2, <1>3

\* A record on its chain has data, unless it is being deleted.
LEMMA DataThere ==
    ASSUME Files, NEW L, Listed(L), NEW p \in Procs, pc[p] \in InChain, pc[p] # "delidx",
           NEW o \in Linked(call[p].key)
    PROVE  dat[RecAt(o).datoff].val \in Vals
<1>1. LockInv /\ DataOwned /\ call[p].key \in Keys /\ call[p].key # Blank
    BY ChainKey DEF Files
<1>2. o \in Records /\ RecAt(o).key = call[p].key
    BY DEF Linked
<1>3. ASSUME NEW q \in Procs, At(q, "delidx"), h[q].idxoff = o PROVE FALSE
    <2>1. RecAt(o).key = call[q].key
        BY <1>3, RecordOf DEF Linked, At
    <2>2. Chain(p) # Chain(q)
        BY <1>1, <1>3, WriterAlone DEF Writing, At
    <2> QED
        BY <1>2, <2>1, <2>2 DEF Chain
<1>4. dat[RecAt(o).datoff].val \in Data[call[p].key]
    BY <1>1, <1>2, <1>3 DEF DataOwned
<1> QED
    BY <1>1, <1>4, ParamAssumption

\* The same of the next state.
LEMMA KvIsNext == LockInv' /\ KeysUnique' => KvMeans'
BY KvIs, PTL

\* The processes that move a key's record are the same if p is among them as before.
LEMMA MovingKept ==
    ASSUME Files, NEW p \in Procs, Begin(p) \/ Step(p), Reading(p), NEW k \in Keys,
           p \in Moving(k)' <=> p \in Moving(k)
    PROVE  Moving(k)' = Moving(k)
<1>1. \A q \in Procs \ {p} : q \in Moving(k)' <=> q \in Moving(k)
    BY ActedStep, StepFacts DEF Moving, Files
<1>2. Moving(k) \subseteq Procs /\ Moving(k)' \subseteq Procs
    BY DEF Moving
<1> QED
    BY <1>1, <1>2

\* A key whose mover, or whose record on the chain, is the same keeps its data.
LEMMA KvKept ==
    ASSUME Files, NEW L, Listed(L), NEW p \in Procs, Begin(p) \/ Step(p), Reading(p), NEW k \in Keys,
           p \in Moving(k)' <=> p \in Moving(k),
           \/ Moving(k) # {}
           \/ /\ Linked(k)' = Linked(k)
              /\ pc[p] \in {"deldat", "overwrite"} => h[p].idxoff \notin Linked(k)
    PROVE  kvBar'[k] = kvBar[k]
<1>1. Moving(k)' = Moving(k)
    BY MovingKept
<1>2. CASE Moving(k) # {}
    <2>1. PICK m : m = CHOOSE q \in Moving(k) : TRUE
        OBVIOUS
    <2>2. m \in Moving(k) /\ m \in Moving(k)' /\ m \in Procs
        BY <1>1, <1>2, <2>1 DEF Moving
    <2>3. call'[m] = call[m]
        <3>1. CASE m = p
            BY <2>2, <3>1, ActedStep DEF Moving
        <3>2. CASE m # p
            BY <2>2, <3>2, StepFacts DEF Files
        <3> QED
            BY <3>1, <3>2
    <2>4. kvBar[k] = call[m].val
        BY <1>2, <2>1 DEF kvBar
    <2>5. kvBar'[k] = call'[m].val
        BY <1>1, <1>2, <2>1 DEF kvBar
    <2> QED
        BY <1>1, <2>3, <2>4, <2>5
<1>3. CASE Moving(k) = {}
    <2>1. /\ Linked(k)' = Linked(k)
          /\ \A x \in Linked(k) : dat'[RecAt(x)'.datoff] = dat[RecAt(x).datoff]
        BY <1>3, LinkedStep
    <2>2. CASE Linked(k) = {}
        <3>1. kvBar[k] = Blank
            BY <1>3, <2>2 DEF kvBar
        <3>2. kvBar'[k] = Blank
            BY <1>1, <1>3, <2>1, <2>2 DEF kvBar
        <3> QED
            BY <1>1, <3>1, <3>2
    <2>3. CASE Linked(k) # {}
        <3>1. PICK o : o = CHOOSE x \in Linked(k) : TRUE
            OBVIOUS
        <3>2. o \in Linked(k) /\ dat'[RecAt(o)'.datoff] = dat[RecAt(o).datoff]
            BY <2>1, <2>3, <3>1
        <3>3. kvBar[k] = dat[RecAt(o).datoff].val
            BY <1>3, <2>3, <3>1 DEF kvBar
        <3>4. (CHOOSE x \in Linked(k)' : TRUE) = o
            BY <2>1, <3>1
        <3>5. kvBar'[k] = dat'[RecAt(o)'.datoff].val
            BY <1>1, <1>3, <2>1, <2>3, <3>4 DEF kvBar, RecAt
        <3> QED
            BY <1>1, <3>2, <3>3, <3>5
    <2> QED
        BY <2>2, <2>3
<1> QED
    BY <1>2, <1>3

\* A step changes the data of no key but that of its own call.
LEMMA KvElse ==
    ASSUME Files, NEW L, Listed(L), NEW p \in Procs, Begin(p) \/ Step(p), Reading(p), NEW k \in Keys,
           pc[p] \in InChain => call[p].key # k
    PROVE  kvBar'[k] = kvBar[k]
<1>1. p \notin Moving(k) /\ p \notin Moving(k)'
    <2>1. Acted(p) => pc[p] \in InChain
        BY ActedStep
    <2>2. Acted(p)' => pc[p] \in InChain /\ call'[p] = call[p]
        BY ActedStep
    <2> QED
        BY <2>1, <2>2 DEF Moving
<1>2. /\ pc[p] \in {"deldat", "overwrite", "delidx"} => h[p].idxoff \notin Linked(k)
      /\ pc[p] \in {"deldat", "overwrite", "delidx", "link"} => pc[p] \in InChain
    BY RecordOf DEF Linked, InChain, InFree
<1>3. Linked(k)' = Linked(k)
    <2>1. CASE pc[p] \notin {"delidx", "link"}
        BY <2>1, LinkedStep
    <2>2. CASE pc[p] = "delidx"
        <3>1. Linked(k)' = Linked(k) \ {h[p].idxoff}
            BY <2>2, LinkedStep
        <3> QED
            BY <1>2, <2>2, <3>1
    <2>3. CASE pc[p] = "link"
        <3>1. Link(p) \/ LinkInvalid(p)
            BY <2>3, PcStep
        <3> QED
            BY <1>2, <2>3, <3>1, LinkedStep
    <2> QED
        BY <2>1, <2>2, <2>3
<1> QED
    BY <1>1, <1>2, <1>3, KvKept

\* What a step does to the map: at most the data of the key of its call changes.
LEMMA KvChange ==
    ASSUME Files, NEW L, Listed(L), NEW p \in Procs, Begin(p) \/ Step(p), Reading(p)
    PROVE  /\ pc[p] \notin InChain => kvBar' = kvBar
           /\ pc[p] \in InChain /\ kvBar'[call[p].key] = kvBar[call[p].key] => kvBar' = kvBar
           /\ pc[p] \in InChain => kvBar' = [kvBar EXCEPT ![call[p].key] = kvBar'[call[p].key]]
<1>1. kvBar = [k \in Keys |-> kvBar[k]] /\ kvBar' = [k \in Keys |-> kvBar'[k]]
    BY DEF kvBar
<1>2. ASSUME NEW k \in Keys, pc[p] \in InChain => call[p].key # k PROVE kvBar'[k] = kvBar[k]
    BY <1>2, KvElse
<1> HIDE DEF kvBar
<1>3. PICK m, m1 : m = kvBar /\ m1 = kvBar'
    OBVIOUS
<1>4. m = [k \in Keys |-> m[k]] /\ m1 = [k \in Keys |-> m1[k]]
    BY <1>1, <1>3
<1>5. \A k \in Keys : pc[p] \notin InChain \/ call[p].key # k => m1[k] = m[k]
    BY <1>2, <1>3
<1>6. /\ pc[p] \notin InChain => m1 = m
      /\ pc[p] \in InChain /\ m1[call[p].key] = m[call[p].key] => m1 = m
      /\ pc[p] \in InChain => m1 = [m EXCEPT ![call[p].key] = m1[call[p].key]]
    BY <1>4, <1>5
<1> QED
    BY <1>3, <1>6

\* The phase and the result of a process in KVStore.
PhaseMeans ==
    \A p \in Procs :
        /\ pc[p] \in {"idle", "exited"} => ~Acted(p) /\ phaseBar[p] = pc[p] /\ rcBar[p] = h[p].rc
        /\ Acted(p) => phaseBar[p] = "acted" /\ rcBar[p] = <<0>>
        /\ pc[p] \notin {"idle", "exited"} /\ ~Acted(p) => phaseBar[p] = "called" /\ rcBar[p] = h[p].rc

\* By definition of the mapping.
LEMMA PhaseIs == PhaseMeans
<1> SUFFICES ASSUME NEW p \in Procs
             PROVE  /\ pc[p] \in {"idle", "exited"} => ~Acted(p) /\ phaseBar[p] = pc[p] /\ rcBar[p] = h[p].rc
                    /\ Acted(p) => phaseBar[p] = "acted" /\ rcBar[p] = <<0>>
                    /\ pc[p] \notin {"idle", "exited"} /\ ~Acted(p)
                       => phaseBar[p] = "called" /\ rcBar[p] = h[p].rc
    BY DEF PhaseMeans
<1>1. pc[p] \in {"idle", "exited"} => ~Acted(p)
    BY DEF Acted
<1> QED
    BY <1>1 DEF phaseBar, rcBar

\* The same of the next state.
LEMMA PhaseIsNext == PhaseMeans'
BY PhaseIs, PTL

\* In KVStore a step is a step of one process.
LEMMA OthersRest ==
    ASSUME Files, NEW p \in Procs, Begin(p) \/ Step(p), Reading(p)
    PROVE  /\ phaseBar' = [phaseBar EXCEPT ![p] = phaseBar'[p]]
           /\ rcBar' = [rcBar EXCEPT ![p] = rcBar'[p]]
           /\ phaseBar'[p] = phaseBar[p] => phaseBar' = phaseBar
           /\ rcBar'[p] = rcBar[p] => rcBar' = rcBar
<1>1. \A q \in Procs \ {p} : pc'[q] = pc[q] /\ h'[q] = h[q] /\ (Acted(q)' <=> Acted(q))
    BY ActedStep, StepFacts DEF Files
<1>2. ASSUME NEW q \in Procs \ {p} PROVE phaseBar'[q] = phaseBar[q] /\ rcBar'[q] = rcBar[q]
    BY <1>1, PhaseIs, PhaseIsNext DEF PhaseMeans
<1>3. PICK f, f1, g, g1 : f = phaseBar /\ f1 = phaseBar' /\ g = rcBar /\ g1 = rcBar'
    OBVIOUS
<1>4. /\ f = [q \in Procs |-> f[q]] /\ f1 = [q \in Procs |-> f1[q]]
      /\ g = [q \in Procs |-> g[q]] /\ g1 = [q \in Procs |-> g1[q]]
    BY <1>3 DEF phaseBar, rcBar
<1>5. \A q \in Procs \ {p} : f1[q] = f[q] /\ g1[q] = g[q]
    BY <1>2, <1>3
<1>6. /\ f1 = [f EXCEPT ![p] = f1[p]] /\ (f1[p] = f[p] => f1 = f)
      /\ g1 = [g EXCEPT ![p] = g1[p]] /\ (g1[p] = g[p] => g1 = g)
    BY <1>4, <1>5
<1> QED
    BY <1>3, <1>6

\* What the map has of the key of a call.
LEMMA KeyOfCall ==
    ASSUME Files, NEW L, Listed(L), NEW p \in Procs, pc[p] \in InChain, ~Acted(p), Reading(p)
    PROVE  /\ call[p].key \in Keys /\ Moving(call[p].key) = {}
           /\ \A o \in Linked(call[p].key) :
                 kvBar[call[p].key] = dat[RecAt(o).datoff].val /\ kvBar[call[p].key] # Blank
           /\ Linked(call[p].key) = {} => kvBar[call[p].key] = Blank
<1>1. PICK k : k = call[p].key
    OBVIOUS
<1>2. LockInv /\ KeysUnique /\ k \in Keys
    BY <1>1, ChainKey DEF Files
<1>3. Moving(k) = {}
    BY <1>1, <1>2, NoMover DEF Moving
<1>4. pc[p] # "delidx"
    BY DEF Acted, Reading, Deleting
<1>5. /\ Linked(k) = {} => kvBar[k] = Blank
      /\ \A o \in Linked(k) : kvBar[k] = dat[RecAt(o).datoff].val
    BY <1>2, <1>3, KvIs DEF KvMeans
<1>6. ASSUME NEW o \in Linked(k) PROVE kvBar[k] # Blank
    <2>1. dat[RecAt(o).datoff].val \in Vals
        BY <1>1, <1>4, <1>6, DataThere
    <2> QED
        BY <1>5, <2>1, ParamAssumption
<1> QED
    BY <1>1, <1>2, <1>3, <1>5, <1>6

\* Steps that KVStore does not see.
LEMMA QuietStep ==
    ASSUME Files, Files', NEW L, Listed(L), NEW p \in Procs, Begin(p) \/ Step(p), Reading(p), Written(p),
           call' = call, h'[p].rc = h[p].rc,
           pc[p] \notin {"idle", "exited", "deldat", "overwrite", "link"}, pc'[p] \notin {"idle", "exited"}
    PROVE  UNCHANGED Abstract!vars
<1>1. Acted(p)' <=> Acted(p)
    <2>1. ~DelDat(p) /\ ~Link(p) /\ ~LinkInvalid(p)
        BY DEF DelDat, Link, LinkInvalid, At
    <2>2. DelUnlink(p) /\ call[p].op = "delete" => pc'[p] = "idle"
        BY StepFacts DEF Files, DelUnlink, Return, Goto
    <2> QED
        BY <2>1, <2>2, ActedStep
<1>2. phaseBar' = phaseBar /\ rcBar' = rcBar
    <2>1. phaseBar'[p] = phaseBar[p] /\ rcBar'[p] = rcBar[p]
        BY <1>1, PhaseIs, PhaseIsNext DEF PhaseMeans
    <2> QED
        BY <2>1, OthersRest
<1>3. ASSUME pc[p] \in InChain PROVE kvBar'[call[p].key] = kvBar[call[p].key]
    <2>1. PICK k, o : k = call[p].key /\ o = h[p].idxoff
        OBVIOUS
    <2>2. k \in Keys /\ LockInv /\ LockInv' /\ KeysUnique /\ KeysUnique'
        BY <1>3, <2>1, ChainKey DEF Files
    <2>3. p \in Moving(k)' <=> p \in Moving(k)
        BY <1>1 DEF Moving
    <2>4. CASE pc[p] # "delidx"
        <3>1. Linked(k)' = Linked(k)
            BY <2>2, <2>4, LinkedStep
        <3> QED
            BY <2>1, <2>2, <2>3, <3>1, KvKept
    <2>5. CASE Moving(k) # {}
        BY <2>1, <2>2, <2>3, <2>5, KvKept
    <2>6. CASE pc[p] = "delidx" /\ Moving(k) = {}
        <3>1. o \in Linked(k) /\ h[p].datoff = RecAt(o).datoff
            BY <2>1, <2>6, RecordOf
        <3>2. kvBar[k] = Blank
            BY <2>2, <2>6, <3>1, KvIs DEF KvMeans, Written, At
        <3>3. Linked(k)' = {}
            <4>1. \A x \in Linked(k) : x = o
                BY <2>2, <3>1, ParamAssumption DEF Linked, KeysUnique
            <4>2. Linked(k)' = Linked(k) \ {h[p].idxoff}
                BY <2>2, <2>6, LinkedStep
            <4> QED
                BY <2>1, <4>1, <4>2
        <3>4. Moving(k)' = {}
            BY <2>2, <2>3, <2>6, MovingKept
        <3>5. kvBar'[k] = Blank
            BY <2>2, <3>3, <3>4, KvIsNext DEF KvMeans
        <3> QED
            BY <2>1, <3>2, <3>5
    <2> QED
        BY <2>4, <2>5, <2>6
<1>4. kvBar' = kvBar
    BY <1>3, KvChange
<1> QED
    BY <1>2, <1>4 DEF Abstract!vars

\* A call begins.
LEMMA BeginStep ==
    ASSUME Files, NEW L, Listed(L), NEW p \in Procs, Begin(p), Reading(p)
    PROVE  Abstract!Invoke(p)
<1>1. /\ pc[p] = "idle" /\ DOMAIN h = Procs /\ h[p] \in Handles
      /\ \A q \in Procs \ {p} : pc'[q] = pc[q]
    BY StepFacts DEF Begin, At, Files, TypeOK, HandleOK
<1>2. PICK r \in Requests : call' = [call EXCEPT ![p] = r] /\ pc' = [pc EXCEPT ![p] = r.op]
    BY DEF Begin, Goto
<1>3. pc'[p] \in AllOps /\ h'[p].rc = <<>>
    BY <1>1, <1>2, StepFacts DEF Begin, SetHandle, Requests, Handles, Files
<1>4. phaseBar[p] = "idle" /\ phaseBar'[p] = "called" /\ rcBar'[p] = <<>>
    <2>1. pc'[p] \notin {"idle", "exited"} /\ ~Acted(p)'
        BY <1>3 DEF AllOps, Writes, Stores, Acted
    <2> QED
        BY <1>1, <1>3, <2>1, PhaseIs, PhaseIsNext DEF PhaseMeans
<1>5. kvBar' = kvBar
    <2>1. pc[p] \notin InChain
        BY <1>1 DEF InChain, InFree
    <2> QED
        BY <2>1, KvChange
<1> QED
    BY <1>2, <1>4, <1>5, OthersRest DEF Abstract!Invoke

\* A call that returns at the moment at which it acts.
LEMMA ActsAtReturn ==
    ASSUME Files, NEW p \in Procs, Begin(p) \/ Step(p), Reading(p), ~Acted(p), pc[p] \notin {"idle", "exited"},
           kvBar' = Abstract!Result(call[p]), h'[p].rc \in Abstract!Answers(call[p]),
           pc'[p] = "idle", call' = [call EXCEPT ![p] = NoCall]
    PROVE  Abstract!Act(p)
<1>1. phaseBar[p] = "called" /\ phaseBar'[p] = "idle" /\ rcBar'[p] = h'[p].rc
    BY PhaseIs, PhaseIsNext DEF PhaseMeans
<1>2. /\ phaseBar' = [phaseBar EXCEPT ![p] = "idle"]
      /\ rcBar' = [rcBar EXCEPT ![p] = h'[p].rc]
    BY <1>1, OthersRest
<1>3. PICK x \in Abstract!Answers(call[p]) : x = h'[p].rc
    OBVIOUS
<1>4. \E y \in Abstract!Answers(call[p]) : rcBar' = [rcBar EXCEPT ![p] = y]
    BY <1>2, <1>3
<1> QED
    BY <1>1, <1>2, <1>4 DEF Abstract!Act

\* What Return does.
LEMMA ReturnDoes ==
    ASSUME Files, NEW p \in Procs, NEW x, NEW pos, NEW B, Return(p, x, pos, B)
    PROVE  pc'[p] = "idle" /\ h'[p].rc = x /\ call' = [call EXCEPT ![p] = NoCall]
<1>1. DOMAIN h = Procs /\ DOMAIN pc = Procs
    BY DEF Files, TypeOK
<1> QED
    BY <1>1 DEF Return, Goto, NewHandle

\* A call that has written no data ends: the map is the same.
LEMMA SameMap ==
    ASSUME Files, NEW L, Listed(L), NEW p \in Procs, Begin(p) \/ Step(p), Reading(p),
           ~Acted(p), ~Acted(p)', pc[p] \notin {"deldat", "overwrite", "delidx", "link"}
    PROVE  kvBar' = kvBar
<1>1. CASE pc[p] \in InChain
    <2>1. PICK k : k = call[p].key
        OBVIOUS
    <2>2. k \in Keys
        BY <1>1, <2>1, ChainKey DEF Files
    <2>3. p \notin Moving(k) /\ p \notin Moving(k)'
        BY DEF Moving
    <2>4. Linked(k)' = Linked(k)
        BY <2>2, LinkedStep
    <2>5. kvBar'[k] = kvBar[k]
        BY <2>2, <2>3, <2>4, KvKept
    <2> QED
        BY <1>1, <2>1, <2>5, KvChange
<1>2. CASE pc[p] \notin InChain
    BY <1>2, KvChange
<1> QED
    BY <1>1, <1>2

\* The calls that only read, and the insertion of a key that is there.
LEMMA ReadingCallActs ==
    ASSUME Files, Files', NEW L, Listed(L), NEW p \in Procs, Reading(p),
           FoundInsert(p) \/ NotFound(p) \/ ReadDat(p)
    PROVE  Abstract!Act(p)
<1>1. Step(p)
    BY DEF Step, Find
<1>2. pc[p] \in {"walk", "readdat"}
    BY DEF FoundInsert, NotFound, ReadDat, At
<1>3. ~Acted(p) /\ pc[p] \in InChain
    BY <1>2 DEF Acted, InChain
<1>4. pc'[p] = "idle" /\ call' = [call EXCEPT ![p] = NoCall]
    BY ReturnDoes DEF FoundInsert, NotFound, ReadDat
<1>5. kvBar' = kvBar
    <2>1. ~Acted(p)'
        BY <1>4 DEF Acted
    <2> QED
        BY <1>1, <1>2, <1>3, <2>1, SameMap
<1>6. PICK c, k, m : c = call[p] /\ k = call[p].key /\ m = kvBar
    OBVIOUS
<1>7. /\ c \in Requests /\ k \in Keys /\ k = c.key
      /\ Linked(k) = {} => m[k] = Blank
      /\ \A o \in Linked(k) : m[k] = dat[RecAt(o).datoff].val /\ m[k] # Blank
    BY <1>3, <1>6, ChainKey, KeyOfCall DEF Files
<1>8. m = [j \in Keys |-> m[j]]
    BY <1>6 DEF kvBar
<1>9. m = Abstract!Result(c) /\ h'[p].rc \in Abstract!Answers(c)
    <2>1. CASE FoundInsert(p)
        <3>1. c.op = "insert" /\ h'[p].rc = <<1>>
            BY <1>6, <2>1, ReturnDoes DEF FoundInsert
        <3>2. m[k] # Blank
            BY <1>6, <1>7, <2>1, RecordOf DEF FoundInsert
        <3> QED
            BY <1>6, <1>7, <3>1, <3>2 DEF Abstract!Result, Abstract!Answers, Abstract!Has
    <2>2. CASE NotFound(p)
        <3>1. c.op \in {"fetch", "delete", "replace"} /\ h'[p].rc = IF c.op = "fetch" THEN <<Blank>> ELSE <<-1>>
            BY <1>6, <2>2, ReturnDoes DEF NotFound
        <3>2. m[k] = Blank
            BY <1>6, <1>7, <2>2, RecordOf DEF NotFound
        <3>3. c.op = "delete" => c.val = Blank
            BY <1>7 DEF Requests, Stores
        <3>4. [m EXCEPT ![k] = Blank] = m
            BY <1>7, <1>8, <3>2
        <3> QED
            BY <1>6, <1>7, <3>1, <3>2, <3>3, <3>4 DEF Abstract!Result, Abstract!Answers, Abstract!Has
    <2>3. CASE ReadDat(p)
        <3>1. c.op = "fetch" /\ h'[p].rc = <<dat[h[p].datoff].val>>
            BY <1>6, <2>3, ReturnDoes DEF ReadDat, Reading, At
        <3>2. m[k] = dat[h[p].datoff].val
            BY <1>6, <1>7, <2>3, RecordOf DEF ReadDat, At
        <3> QED
            BY <1>6, <1>7, <3>1, <3>2 DEF Abstract!Result, Abstract!Answers, Abstract!Has
    <2> QED
        BY <2>1, <2>2, <2>3
<1> QED
    BY <1>1, <1>2, <1>3, <1>4, <1>5, <1>6, <1>9, ActsAtReturn


\* A record is overwritten: the store acts and returns.
LEMMA OverwriteActs ==
    ASSUME Files, Files', NEW L, Listed(L), NEW p \in Procs, Reading(p), Overwrite(p)
    PROVE  Abstract!Act(p)
<1>1. Step(p)
    BY DEF Step, Store
<1>2. pc[p] = "overwrite" /\ pc[p] \in InChain /\ pc[p] \in Storing /\ ~Acted(p)
    BY DEF Overwrite, At, Acted, InChain, Storing
<1>3. pc'[p] = "idle" /\ call' = [call EXCEPT ![p] = NoCall] /\ h'[p].rc = <<0>> /\ ~Acted(p)'
    <2>1. pc'[p] = "idle" /\ call' = [call EXCEPT ![p] = NoCall] /\ h'[p].rc = <<0>>
        BY ReturnDoes DEF Overwrite
    <2> QED
        BY <2>1 DEF Acted
<1>4. PICK c, k, m, m1, o, d : /\ c = call[p] /\ k = call[p].key /\ m = kvBar /\ m1 = kvBar'
                               /\ o = h[p].idxoff /\ d = h[p].datoff
    OBVIOUS
<1>5. /\ c.op \in {"replace", "store"} /\ c.key = k /\ c.val \in Vals /\ k \in Keys
      /\ KeysUnique' /\ LockInv' /\ LockInv
    <2>1. LockInv /\ KeysUnique' /\ LockInv'
        BY DEF Files
    <2>2. c.val \in Vals /\ k \in Keys
        BY <1>2, <1>4, <2>1, StoredValue, ParamAssumption
    <2> QED
        BY <1>2, <1>4, <2>1, <2>2 DEF Reading
<1>6. o \in Linked(k) /\ RecAt(o).datoff = d
    BY <1>2, <1>4, RecordOf
<1>7. m[k] # Blank
    BY <1>2, <1>4, <1>6, KeyOfCall
<1>8. m1[k] = c.val
    <2>1. Moving(k)' = {}
        <3>1. Moving(k) = {}
            BY <1>2, <1>4, KeyOfCall
        <3>2. p \in Moving(k)' <=> p \in Moving(k)
            BY <1>3, <3>1 DEF Moving
        <3> QED
            BY <1>1, <1>5, <3>1, <3>2, MovingKept
    <2>2. o \in Linked(k)'
        BY <1>1, <1>2, <1>5, <1>6, LinkedStep
    <2>3. dat'[RecAt(o)'.datoff].val = c.val
        <3>1. WriteDat(h[p], c.val)
            BY <1>4 DEF Overwrite
        <3>2. idx' = idx /\ dat'[d] = [val |-> c.val, len |-> h[p].datlen]
            BY <1>2, <1>4, <1>5, <3>1, DataWritten
        <3> QED
            BY <1>6, <3>2 DEF RecAt
    <2>4. kvBar'[k] = dat'[RecAt(o)'.datoff].val
        BY <1>5, <2>1, <2>2, KvIsNext DEF KvMeans
    <2> QED
        BY <1>4, <2>3, <2>4
<1>9. m1 = [m EXCEPT ![k] = c.val]
    BY <1>1, <1>2, <1>4, <1>8, KvChange
<1>10. m1 = Abstract!Result(c) /\ h'[p].rc \in Abstract!Answers(c)
    BY <1>3, <1>4, <1>5, <1>7, <1>9 DEF Abstract!Result, Abstract!Answers, Abstract!Has
<1> QED
    BY <1>1, <1>2, <1>3, <1>4, <1>10, ActsAtReturn

\* The old data of a record is overwritten with blanks: the delete, or the
\* store that must move the record, acts.
LEMMA DelDatActs ==
    ASSUME Files, Files', NEW L, Listed(L), NEW p \in Procs, Reading(p), DelDat(p)
    PROVE  Abstract!Act(p)
<1>1. Step(p)
    BY DEF Step, Delete
<1>2. /\ pc[p] = "deldat" /\ pc[p] \in InChain /\ ~Acted(p) /\ Acted(p)' /\ call' = call
      /\ pc[p] \in Deleting
    <2>1. ~Acted(p) /\ Acted(p)'
        BY <1>1, ActedStep
    <2> QED
        BY <2>1 DEF DelDat, At, SameCall, InChain, InFree, Deleting
<1>3. PICK c, k, m, m1, o, d : /\ c = call[p] /\ k = call[p].key /\ m = kvBar /\ m1 = kvBar'
                               /\ o = h[p].idxoff /\ d = h[p].datoff
    OBVIOUS
<1>4. /\ c.op \in {"replace", "store", "delete"} /\ c.key = k /\ k \in Keys
      /\ (c.op = "delete" => c.val = Blank) /\ KeysUnique' /\ LockInv' /\ LockInv
    <2>1. LockInv /\ KeysUnique' /\ LockInv'
        BY DEF Files
    <2>2. c \in Requests /\ k \in Keys /\ c.op \in Writes
        BY <1>2, <1>3, <2>1, ChainKey DEF LockInv, Owns
    <2>3. c.op # "insert"
        BY <1>2, <1>3 DEF Reading
    <2> QED
        BY <1>3, <2>1, <2>2, <2>3 DEF Requests, Writes, Stores
<1>5. o \in Linked(k) /\ RecAt(o).datoff = d
    BY <1>2, <1>3, RecordOf
<1>6. m[k] # Blank
    BY <1>2, <1>3, <1>5, KeyOfCall
<1>7. m1[k] = c.val
    <2>1. CASE c.op = "delete"
        <3>1. Moving(k)' = {}
            <4>1. Moving(k) = {}
                BY <1>2, <1>3, KeyOfCall
            <4>2. p \in Moving(k)' <=> p \in Moving(k)
                BY <1>2, <1>3, <2>1, <4>1 DEF Moving, Stores
            <4> QED
                BY <1>1, <1>4, <4>1, <4>2, MovingKept
        <3>2. o \in Linked(k)'
            BY <1>1, <1>2, <1>4, <1>5, LinkedStep
        <3>3. dat'[RecAt(o)'.datoff].val = Blank
            <4>1. WriteDat(h[p], Blank) /\ Blank \in Vals \cup {Blank}
                BY DEF DelDat
            <4>2. idx' = idx /\ dat'[d] = [val |-> Blank, len |-> h[p].datlen]
                BY <1>2, <1>3, <4>1, DataWritten
            <4> QED
                BY <1>5, <4>2 DEF RecAt
        <3>4. kvBar'[k] = dat'[RecAt(o)'.datoff].val
            BY <1>4, <3>1, <3>2, KvIsNext DEF KvMeans
        <3> QED
            BY <1>3, <1>4, <2>1, <3>3, <3>4
    <2>2. CASE c.op \in Stores
        <3>1. p \in Moving(k)'
            BY <1>2, <1>3, <2>2 DEF Moving
        <3>2. kvBar'[k] = call'[p].val
            BY <1>4, <3>1, KvIsNext DEF KvMeans
        <3> QED
            BY <1>2, <1>3, <3>2
    <2> QED
        BY <1>4, <2>1, <2>2 DEF Stores
<1>8. m1 = [m EXCEPT ![k] = c.val]
    BY <1>1, <1>2, <1>3, <1>7, KvChange
<1>9. m1 = Abstract!Result(c) /\ <<0>> \in Abstract!Answers(c)
    BY <1>3, <1>4, <1>6, <1>8 DEF Abstract!Result, Abstract!Answers, Abstract!Has
<1>10. phaseBar[p] = "called" /\ phaseBar'[p] = "acted" /\ rcBar'[p] = <<0>>
    BY <1>2, PhaseIs, PhaseIsNext DEF PhaseMeans
<1>11. phaseBar' = [phaseBar EXCEPT ![p] = "acted"] /\ rcBar' = [rcBar EXCEPT ![p] = <<0>>]
    BY <1>1, <1>10, OthersRest
<1> QED
    BY <1>2, <1>3, <1>9, <1>10, <1>11 DEF Abstract!Act

\* After its step, only the process of a chain may be moving the record of its key.
LEMMA MovingNext ==
    ASSUME Files, NEW p \in Procs, Begin(p) \/ Step(p), Reading(p), pc[p] \in InChain,
           NEW k \in Keys, k = call[p].key
    PROVE  Moving(k)' \subseteq {p}
<1>1. Moving(k) \subseteq {p}
    BY NoMover DEF Files
<1>2. \A q \in Procs \ {p} : q \in Moving(k)' <=> q \in Moving(k)
    BY ActedStep, StepFacts DEF Moving, Files
<1>3. Moving(k)' \subseteq Procs
    BY DEF Moving
<1> QED
    BY <1>1, <1>2, <1>3

\* A call that acted before returns: its data is in the map already.
LEMMA ReturnsActed ==
    ASSUME Files, NEW p \in Procs, Begin(p) \/ Step(p), Reading(p), Acted(p), kvBar' = kvBar,
           pc'[p] = "idle", h'[p].rc = rcBar[p], call' = [call EXCEPT ![p] = NoCall]
    PROVE  Abstract!Return(p)
<1>1. phaseBar[p] = "acted" /\ phaseBar'[p] = "idle" /\ rcBar'[p] = rcBar[p]
    BY PhaseIs, PhaseIsNext DEF PhaseMeans
<1>2. phaseBar' = [phaseBar EXCEPT ![p] = "idle"] /\ rcBar' = rcBar
    BY <1>1, OthersRest
<1> QED
    BY <1>1, <1>2 DEF Abstract!Return

\* The store of a new key acts when its record is linked to the chain; the store
\* that has moved a record returns.
LEMMA LinkEnds ==
    ASSUME Files, Files', NEW L, Listed(L), NEW p \in Procs, Reading(p), Written(p), Link(p)
    PROVE  Abstract!Act(p) \/ Abstract!Return(p)
<1>1. Step(p)
    BY DEF Step, Store
<1>2. /\ pc[p] = "link" /\ pc[p] \in InChain /\ pc[p] \in Storing \ {"overwrite"}
      /\ pc[p] \in ActedAt \ Deleting
    BY DEF Link, At, InChain, Storing, ActedAt, Deleting
<1>3. pc'[p] = "idle" /\ call' = [call EXCEPT ![p] = NoCall] /\ h'[p].rc = <<0>> /\ ~Acted(p)'
    <2>1. pc'[p] = "idle" /\ call' = [call EXCEPT ![p] = NoCall] /\ h'[p].rc = <<0>>
        BY ReturnDoes DEF Link
    <2> QED
        BY <2>1 DEF Acted
<1>4. PICK c, k, m, m1, o : /\ c = call[p] /\ k = call[p].key /\ m = kvBar /\ m1 = kvBar'
                            /\ o = h[p].idxoff
    OBVIOUS
<1>5. k \in Keys /\ c.key = k /\ c.op \in Stores /\ KeysUnique' /\ LockInv' /\ LockInv /\ KeysUnique
    <2>1. LockInv /\ KeysUnique' /\ LockInv' /\ KeysUnique
        BY DEF Files
    <2> QED
        BY <1>2, <1>4, <2>1, StoredValue DEF LockInv, Owns
<1>6. Linked(k) = {} /\ o \in Linked(k)'
    <2>1. Linked(k) = {}
        BY <1>2, <1>4, RecordOf
    <2> QED
        BY <1>1, <1>4, <1>5, <2>1, LinkedStep
<1>7. m1[k] = c.val
    <2>1. Moving(k)' = {}
        BY <1>1, <1>2, <1>3, <1>4, <1>5, MovingNext DEF Moving
    <2>2. kvBar'[k] = dat'[RecAt(o)'.datoff].val
        BY <1>5, <1>6, <2>1, KvIsNext DEF KvMeans
    <2>3. dat'[RecAt(o)'.datoff] = dat[RecAt(o).datoff]
        <3>1. dat' = dat
            BY DEF Link, WritePtr
        <3>2. o \in Records
            BY <1>2, <1>4 DEF Files, TypeOK, HandleOK, HasIdx
        <3>3. RecAt(o)'.datoff = RecAt(o).datoff
            BY <1>1, <3>2, StepData DEF DataStep
        <3> QED
            BY <3>1, <3>3
    <2>4. dat[RecAt(o).datoff].val = c.val
        BY <1>2, <1>4 DEF Written, At
    <2> QED
        BY <1>4, <2>2, <2>3, <2>4
<1>8. m1 = [m EXCEPT ![k] = c.val] /\ (m[k] = c.val => m1 = m)
    BY <1>1, <1>2, <1>4, <1>7, KvChange
<1>9. CASE Acted(p)
    <2>1. p \in Moving(k)
        BY <1>4, <1>5, <1>9 DEF Moving
    <2>2. m[k] = c.val
        BY <1>4, <1>5, <2>1, KvIs DEF KvMeans
    <2>3. kvBar' = kvBar
        BY <1>4, <1>8, <2>2
    <2>4. h'[p].rc = rcBar[p]
        BY <1>3, <1>9, PhaseIs DEF PhaseMeans
    <2> QED
        BY <1>1, <1>3, <1>9, <2>3, <2>4, ReturnsActed
<1>10. CASE ~Acted(p)
    <2>1. c.op \in {"insert", "store"}
        BY <1>1, <1>2, <1>4, <1>10, ActedStep DEF Reading
    <2>2. m[k] = Blank
        BY <1>2, <1>4, <1>6, <1>10, KeyOfCall
    <2>3. m1 = Abstract!Result(c) /\ h'[p].rc \in Abstract!Answers(c)
        BY <1>3, <1>4, <1>5, <1>8, <2>1, <2>2 DEF Abstract!Result, Abstract!Answers, Abstract!Has
    <2> QED
        BY <1>1, <1>2, <1>3, <1>4, <1>10, <2>3, ActsAtReturn
<1> QED
    BY <1>9, <1>10

\* A delete returns when it has unlinked the record.
LEMMA DeleteEnds ==
    ASSUME Files, NEW L, Listed(L), NEW p \in Procs, Reading(p), DelUnlink(p), call[p].op = "delete"
    PROVE  Abstract!Return(p)
<1>1. Step(p)
    BY DEF Step, Delete
<1>2. pc[p] = "delunlink" /\ pc[p] \in InChain /\ pc[p] \in Deleting /\ pc[p] \in ActedAt
    BY DEF DelUnlink, At, InChain, InFree, Deleting, ActedAt
<1>3. pc'[p] = "idle" /\ call' = [call EXCEPT ![p] = NoCall] /\ h'[p].rc = <<0>>
    BY ReturnDoes DEF DelUnlink
<1>4. Acted(p) /\ ~Acted(p)'
    <2>1. h[p].key = call[p].key
        BY <1>2 DEF Reading
    <2>2. Acted(p)
        BY <1>1, <1>2, <2>1, ActedStep
    <2> QED
        BY <1>3, <2>2 DEF Acted
<1>5. kvBar' = kvBar
    <2>1. PICK k : k = call[p].key
        OBVIOUS
    <2>2. k \in Keys
        BY <1>2, <2>1, ChainKey DEF Files
    <2>3. p \notin Moving(k) /\ p \notin Moving(k)'
        BY <1>4 DEF Moving, Stores
    <2>4. Linked(k)' = Linked(k)
        BY <1>1, <1>2, <2>2, LinkedStep
    <2>5. kvBar'[k] = kvBar[k]
        BY <1>1, <1>2, <2>2, <2>3, <2>4, KvKept
    <2> QED
        BY <1>1, <1>2, <2>1, <2>5, KvChange
<1>6. h'[p].rc = rcBar[p]
    BY <1>3, <1>4, PhaseIs DEF PhaseMeans
<1> QED
    BY <1>1, <1>3, <1>4, <1>5, <1>6, ReturnsActed

\* A process that ends in a call: in db_store it has lost the key whose record
\* it was replacing, and no other.
LEMMA ExitQuits ==
    ASSUME Files, Files', NEW L, Listed(L), NEW p \in Procs, Reading(p), LinkInvalid(p) \/ ScanLost(p)
    PROVE  Abstract!Quit(p)
<1>1. Step(p)
    BY DEF Step, Store, Scan
<1>2. /\ pc[p] \in {"link", "scan"} /\ pc'[p] = "exited" /\ h' = h /\ call' = call /\ h[p].rc = <<>>
      /\ ~Acted(p)'
    <2>1. pc[p] \in {"link", "scan"} /\ pc'[p] = "exited" /\ h' = h /\ call' = call
        BY StepFacts DEF LinkInvalid, ScanLost, Exit, Goto, At, Files, TypeOK
    <2> QED
        BY <2>1 DEF Reading, Acted
<1>3. PICK k : k = call[p].key
    OBVIOUS
<1>4. CASE Acted(p)
    <2>1. /\ pc[p] = "link" /\ LinkInvalid(p) /\ pc[p] \in InChain /\ pc[p] \in Storing \ {"overwrite"}
        BY <1>2, <1>4 DEF Acted, ScanLost, At, InChain, Storing
    <2>2. k \in Keys
        BY <1>3, <2>1, ChainKey DEF Files
    <2>3. Moving(k)' = {}
        BY <1>1, <1>2, <1>3, <2>1, <2>2, MovingNext DEF Moving
    <2>4. Linked(k)' = {}
        <3>1. Linked(k) = {}
            BY <1>3, <2>1, RecordOf
        <3> QED
            BY <1>1, <2>1, <2>2, <3>1, LinkedStep
    <2>5. kvBar'[k] = Blank
        BY <2>2, <2>3, <2>4, KvIsNext DEF KvMeans, Files
    <2>6. kvBar' = [kvBar EXCEPT ![k] = Blank]
        BY <1>1, <1>3, <2>1, <2>5, KvChange
    <2>7. phaseBar[p] = "acted" /\ phaseBar'[p] = "exited" /\ rcBar'[p] = <<>>
        BY <1>2, <1>4, PhaseIs, PhaseIsNext DEF PhaseMeans
    <2>8. phaseBar' = [phaseBar EXCEPT ![p] = "exited"] /\ rcBar' = [rcBar EXCEPT ![p] = <<>>]
        BY <1>1, <2>7, OthersRest
    <2> QED
        BY <1>2, <1>3, <2>6, <2>7, <2>8 DEF Abstract!Quit
<1>5. CASE ~Acted(p)
    <2>1. kvBar' = kvBar
        <3>1. CASE pc[p] = "scan"
            BY <1>1, <1>2, <1>5, <3>1, SameMap
        <3>2. CASE pc[p] = "link"
            <4>1. LinkInvalid(p) /\ pc[p] \in InChain
                BY <3>2 DEF ScanLost, At, InChain
            <4>2. k \in Keys
                BY <1>3, <4>1, ChainKey DEF Files
            <4>3. p \notin Moving(k) /\ p \notin Moving(k)'
                BY <1>2, <1>5 DEF Moving
            <4>4. Linked(k)' = Linked(k)
                BY <1>1, <4>1, <4>2, LinkedStep
            <4>5. kvBar'[k] = kvBar[k]
                BY <1>1, <3>2, <4>2, <4>3, <4>4, KvKept
            <4> QED
                BY <1>1, <1>3, <4>1, <4>5, KvChange
        <3> QED
            BY <1>2, <3>1, <3>2
    <2>2. phaseBar[p] = "called" /\ phaseBar'[p] = "exited" /\ rcBar'[p] = <<>>
        BY <1>2, <1>5, PhaseIs, PhaseIsNext DEF PhaseMeans
    <2>3. phaseBar' = [phaseBar EXCEPT ![p] = "exited"] /\ rcBar' = [rcBar EXCEPT ![p] = <<>>]
        BY <1>1, <2>2, OthersRest
    <2> QED
        BY <1>2, <2>1, <2>2, <2>3 DEF Abstract!Quit
<1> QED
    BY <1>4, <1>5

\* db_rewind, and db_nextrec when it returns.
LEMMA ScanActs ==
    ASSUME Files, Files', NEW L, Listed(L), NEW p \in Procs, Reading(p),
           ScanEnd(p) \/ ScanDat(p) \/ Rewind(p)
    PROVE  Abstract!Act(p)
<1>1. Step(p)
    BY DEF Step, Scan
<1>2. pc[p] \in {"scan", "scandat", "rewind"}
    BY DEF ScanEnd, ScanDat, Rewind, At
<1>3. ~Acted(p) /\ pc[p] \notin InChain
    BY <1>2 DEF Acted, InChain, InFree
<1>4. pc'[p] = "idle" /\ call' = [call EXCEPT ![p] = NoCall]
    <2>1. CASE ScanEnd(p) \/ ScanDat(p)
        BY <2>1, ReturnDoes DEF ScanEnd, ScanDat
    <2>2. CASE Rewind(p)
        BY <2>2 DEF Rewind, Goto, Files, TypeOK
    <2> QED
        BY <2>1, <2>2
<1>5. kvBar' = kvBar
    BY <1>1, <1>3, KvChange
<1>6. PICK c, m : c = call[p] /\ m = kvBar
    OBVIOUS
<1>7. m = Abstract!Result(c) /\ h'[p].rc \in Abstract!Answers(c)
    <2>1. CASE ScanEnd(p)
        <3>1. c.op = "nextrec" /\ h'[p].rc = <<Blank>>
            BY <1>6, <2>1, ReturnDoes DEF ScanEnd, Reading, At, InScan
        <3> QED
            BY <1>6, <3>1 DEF Abstract!Result, Abstract!Answers
    <2>2. CASE ScanDat(p)
        <3>1. PICK a, b : c.op = "nextrec" /\ h'[p].rc = <<a, b>>
            BY <1>6, <2>2, ReturnDoes DEF ScanDat, Reading, At, InScan
        <3>2. Len(h'[p].rc) = 2 => h'[p].rc[1] \in Keys /\ h'[p].rc[2] \in Data[h'[p].rc[1]]
            BY DEF Files, ScanSound
        <3>3. a \in Keys /\ b \in Vals
            BY <3>1, <3>2, ParamAssumption
        <3> QED
            BY <1>6, <3>1, <3>3 DEF Abstract!Result, Abstract!Answers
    <2>3. CASE Rewind(p)
        <3>1. c.op = "rewind"
            BY <1>6, <2>3 DEF Rewind, At, Files, LockInv, Owns, AllOps
        <3>2. h[p].rc = <<>>
            BY <2>3 DEF Rewind, At, Reading
        <3>3. h'[p].rc = h[p].rc
            BY <2>3 DEF Rewind, SetHandle, Files, TypeOK, HandleOK, Handles
        <3> QED
            BY <1>6, <3>1, <3>2, <3>3 DEF Abstract!Result, Abstract!Answers
    <2> QED
        BY <2>1, <2>2, <2>3
<1> QED
    BY <1>1, <1>2, <1>3, <1>4, <1>5, <1>6, <1>7, ActsAtReturn

\* The steps in the middle of a call are QuietStep's.
LEMMA MiddleStep ==
    ASSUME Files, NEW p \in Procs, Reading(p),
           \/ LockChain(p) \/ WalkOn(p) \/ Found(p) \/ StartFree(p) \/ FreeWalkOn(p) \/ FreeFound(p)
           \/ FreeTake(p) \/ NoneFree(p) \/ ReuseDat(p) \/ ReuseIdx(p) \/ LockNewDat(p) \/ NewDat(p)
           \/ LockNewIdx(p) \/ NewIdx(p) \/ DelIdx(p) \/ DelFree(p)
           \/ (DelUnlink(p) /\ call[p].op # "delete") \/ Reread(p) \/ NextRec(p) \/ ScanOn(p)
    PROVE  /\ call' = call /\ h'[p].rc = h[p].rc
           /\ pc[p] \notin {"idle", "exited", "deldat", "overwrite", "link"}
           /\ pc'[p] \notin {"idle", "exited"}
<1> USE DEF At, Goto, SetHandle, SameCall
<1>1. /\ DOMAIN h = Procs /\ DOMAIN pc = Procs /\ h[p] \in Handles
    BY DEF Files, TypeOK, HandleOK
<1>2. CASE LockChain(p) \/ NextRec(p)
    <2>1. call' = call /\ pc[p] \in AllOps /\ pc'[p] \in {"walk", "scan"}
        BY <1>1, <1>2 DEF LockChain, NextRec, AllOps
    <2>2. h'[p].rc = h[p].rc
        <3>1. CASE LockChain(p)
            BY <1>1, <3>1 DEF LockChain, Handles
        <3>2. CASE NextRec(p)
            BY <3>2 DEF NextRec
        <3> QED
            BY <1>2, <3>1, <3>2
    <2> QED
        BY <2>1, <2>2 DEF AllOps, Writes, Stores
<1>3. CASE WalkOn(p) \/ FreeWalkOn(p) \/ ScanOn(p)
    <2>1. /\ call' = call
          /\ pc[p] \in {"walk", "freewalk", "scan"} /\ pc'[p] \in {"walk", "freewalk", "scan", "scandat"}
        BY <1>1, <1>3 DEF WalkOn, FreeWalkOn, ScanOn
    <2>2. h'[p].rc = h[p].rc
        <3>1. CASE WalkOn(p)
            BY <1>1, <3>1, LoadedHas DEF WalkOn
        <3>2. CASE FreeWalkOn(p)
            BY <1>1, <3>2, LoadedHas DEF FreeWalkOn
        <3>3. CASE ScanOn(p)
            BY <1>1, <3>3, LoadedHas DEF ScanOn
        <3> QED
            BY <1>3, <3>1, <3>2, <3>3
    <2> QED
        BY <2>1, <2>2
<1>4. CASE Found(p) \/ FreeFound(p)
    BY <1>1, <1>4, LoadedHas DEF Found, FreeFound
<1>5. CASE StartFree(p) \/ Reread(p) \/ LockNewDat(p) \/ LockNewIdx(p)
    <2>1. h'[p].rc = h[p].rc
        <3>1. CASE StartFree(p)
            BY <1>1, <3>1 DEF StartFree, Handles
        <3>2. CASE Reread(p)
            BY <1>1, <3>2 DEF Reread, Handles
        <3>3. CASE LockNewDat(p)
            BY <1>1, <3>3 DEF LockNewDat, Handles
        <3>4. CASE LockNewIdx(p)
            BY <1>1, <3>4 DEF LockNewIdx, Handles
        <3> QED
            BY <1>5, <3>1, <3>2, <3>3, <3>4
    <2> QED
        BY <1>1, <1>5, <2>1 DEF StartFree, Reread, LockNewDat, LockNewIdx
<1>6. CASE \/ FreeTake(p) \/ NoneFree(p) \/ ReuseDat(p) \/ ReuseIdx(p) \/ NewDat(p) \/ NewIdx(p)
           \/ DelIdx(p) \/ DelFree(p) \/ (DelUnlink(p) /\ call[p].op # "delete")
    BY <1>1, <1>6 DEF FreeTake, NoneFree, ReuseDat, ReuseIdx, NewDat, NewIdx, DelIdx, DelFree, DelUnlink
<1> QED
    BY <1>2, <1>3, <1>4, <1>5, <1>6

\* Every step of a process is one of KVStore, or KVStore does not see it.
LEMMA StepMaps ==
    ASSUME CallInv, Files', NEW p \in Procs, Begin(p) \/ Step(p)
    PROVE  Abstract!Next \/ UNCHANGED Abstract!vars
<1>1. PICK L \in [Header -> ListShape] : Listed(L)
    BY DEF CallInv, HashInv
<1>2. Files /\ Reading(p) /\ Written(p)
    BY DEF CallInv, HashInv
<1>3. CASE Begin(p)
    BY <1>1, <1>2, <1>3, BeginStep DEF Abstract!Next
<1>4. CASE FoundInsert(p) \/ NotFound(p) \/ ReadDat(p)
    BY <1>1, <1>2, <1>4, ReadingCallActs DEF Abstract!Next
<1>5. CASE Overwrite(p)
    BY <1>1, <1>2, <1>5, OverwriteActs DEF Abstract!Next
<1>6. CASE DelDat(p)
    BY <1>1, <1>2, <1>6, DelDatActs DEF Abstract!Next
<1>7. CASE Link(p)
    BY <1>1, <1>2, <1>7, LinkEnds DEF Abstract!Next
<1>8. CASE DelUnlink(p) /\ call[p].op = "delete"
    BY <1>1, <1>2, <1>8, DeleteEnds DEF Abstract!Next
<1>9. CASE LinkInvalid(p) \/ ScanLost(p)
    BY <1>1, <1>2, <1>9, ExitQuits DEF Abstract!Next
<1>10. CASE ScanEnd(p) \/ ScanDat(p) \/ Rewind(p)
    BY <1>1, <1>2, <1>10, ScanActs DEF Abstract!Next
<1>11. CASE \/ LockChain(p) \/ WalkOn(p) \/ Found(p) \/ StartFree(p) \/ FreeWalkOn(p) \/ FreeFound(p)
            \/ FreeTake(p) \/ NoneFree(p) \/ ReuseDat(p) \/ ReuseIdx(p) \/ LockNewDat(p) \/ NewDat(p)
            \/ LockNewIdx(p) \/ NewIdx(p) \/ DelIdx(p) \/ DelFree(p)
            \/ (DelUnlink(p) /\ call[p].op # "delete") \/ Reread(p) \/ NextRec(p) \/ ScanOn(p)
    <2>1. /\ call' = call /\ h'[p].rc = h[p].rc
          /\ pc[p] \notin {"idle", "exited", "deldat", "overwrite", "link"}
          /\ pc'[p] \notin {"idle", "exited"}
        BY <1>2, <1>11, MiddleStep
    <2> QED
        BY <1>1, <1>2, <2>1, QuietStep
<1> QED
    BY <1>3, <1>4, <1>5, <1>6, <1>7, <1>8, <1>9, <1>10, <1>11 DEF Step, Find, Delete, FindFree, Store, Scan

\* A step that changes nothing changes nothing in KVStore.
LEMMA StutterMaps == UNCHANGED vars => UNCHANGED Abstract!vars
<1> SUFFICES ASSUME UNCHANGED vars PROVE UNCHANGED Abstract!vars
    OBVIOUS
<1>1. hdr' = hdr /\ idx' = idx /\ dat' = dat /\ pc' = pc /\ call' = call /\ h' = h
    BY DEF vars, files
<1>2. \A p : Acted(p)' <=> Acted(p)
    BY <1>1 DEF Acted
<1>3. \A o : InHand(o)' <=> InHand(o)
    BY <1>1 DEF InHand
<1>4. \A k : Moving(k)' = Moving(k)
    BY <1>1, <1>2 DEF Moving
<1>5. \A k : Linked(k)' = Linked(k)
    BY <1>1, <1>3 DEF Linked, Records, IdxEnd, RecAt
<1>6. kvBar' = kvBar
    <2>1. ASSUME NEW k \in Keys PROVE kvBar'[k] = kvBar[k]
        <3>1. PICK m, o : m = (CHOOSE q \in Moving(k) : TRUE) /\ o = (CHOOSE x \in Linked(k) : TRUE)
            OBVIOUS
        <3>2. m = (CHOOSE q \in Moving(k)' : TRUE) /\ o = (CHOOSE x \in Linked(k)' : TRUE)
            BY <1>4, <1>5, <3>1
        <3>3. kvBar[k] = IF Moving(k) # {} THEN call[m].val
                         ELSE IF Linked(k) # {} THEN dat[RecAt(o).datoff].val ELSE Blank
            BY <3>1 DEF kvBar
        <3>4. kvBar'[k] = IF Moving(k)' # {} THEN call'[m].val
                          ELSE IF Linked(k)' # {} THEN dat'[RecAt(o)'.datoff].val ELSE Blank
            BY <3>2 DEF kvBar, RecAt
        <3> QED
            BY <1>1, <1>4, <1>5, <3>3, <3>4 DEF RecAt
    <2> QED
        BY <2>1 DEF kvBar
<1>7. phaseBar' = phaseBar /\ rcBar' = rcBar
    BY <1>1, <1>2 DEF phaseBar, rcBar
<1> QED
    BY <1>1, <1>6, <1>7 DEF Abstract!vars

\* At first no call is made, and the map has what was stored before.
LEMMA InitMaps == Init => CallInv /\ Abstract!Init
<1> SUFFICES ASSUME Init PROVE CallInv /\ Abstract!Init
    OBVIOUS
<1>1. HashInv
    BY HashInit
<1>2. \A p \in Procs : pc[p] = "idle" /\ h[p].rc = <<>> /\ h[p].key = Blank
    BY DEF Init, NewHandle
<1>3. \A p \in Procs : Reading(p) /\ Written(p)
    BY <1>2 DEF Reading, Written, At, AllOps, Writes, Stores, Deleting, InScan, ActedAt
<1>4. phaseBar = [p \in Procs |-> "idle"] /\ rcBar = [p \in Procs |-> <<>>]
    <2>1. \A p \in Procs : phaseBar[p] = "idle" /\ rcBar[p] = <<>>
        BY <1>2, PhaseIs DEF PhaseMeans
    <2> QED
        BY <2>1 DEF phaseBar, rcBar
<1>5. kvBar \in [Keys -> Vals \cup {Blank}]
    <2>1. LockInv /\ KeysUnique /\ FilesOK
        BY <1>1 DEF HashInv, Files, TypeOK
    <2>2. ASSUME NEW k \in Keys PROVE kvBar[k] \in Vals \cup {Blank}
        <3>1. Moving(k) = {}
            BY <1>2 DEF Moving, Acted
        <3>2. CASE Linked(k) = {}
            BY <2>1, <3>1, <3>2, KvIs DEF KvMeans
        <3>3. CASE Linked(k) # {}
            <4>1. PICK o \in Linked(k) : TRUE
                BY <3>3
            <4>2. kvBar[k] = dat[RecAt(o).datoff].val
                BY <2>1, <3>1, KvIs DEF KvMeans
            <4>3. RecAt(o).datoff \in DOMAIN dat
                <5>1. o \in Records
                    BY DEF Linked
                <5> QED
                    BY <2>1, <5>1, FileFacts DEF FilesOK
            <4>4. dat \in Seq(DatRecord)
                BY <2>1 DEF FilesOK
            <4>5. dat[RecAt(o).datoff] \in DatRecord
                BY <4>3, <4>4
            <4> QED
                BY <4>2, <4>5 DEF DatRecord
        <3> QED
            BY <3>2, <3>3
    <2> QED
        BY <2>2 DEF kvBar
<1> QED
    BY <1>1, <1>3, <1>4, <1>5 DEF CallInv, Abstract!Init, Init

\* What is written and read in the middle of the calls, in every state.
LEMMA CallInvNext == CallInv /\ [Next]_vars => CallInv'
<1> SUFFICES ASSUME CallInv, [Next]_vars PROVE CallInv'
    OBVIOUS
<1>1. HashInv'
    BY HashInvNext DEF CallInv
<1>2. ASSUME NEW p \in Procs, Begin(p) \/ Step(p), NEW q \in Procs PROVE Reading(q)' /\ Written(q)'
    <2>1. PICK L \in [Header -> ListShape] : Listed(L)
        BY DEF CallInv, HashInv
    <2>2. Files /\ Reading(p) /\ Reading(q) /\ Written(q)
        BY DEF CallInv, HashInv
    <2>3. Written(q)'
        BY <1>2, <2>1, <2>2, WrittenStep
    <2>4. CASE q = p
        BY <1>2, <2>1, <2>2, <2>3, <2>4, ReadingStep
    <2>5. CASE q # p
        <3>1. pc'[q] = pc[q] /\ call'[q] = call[q] /\ h'[q] = h[q]
            BY <1>2, <2>2, <2>5, StepFacts DEF Files
        <3> QED
            BY <2>2, <2>3, <3>1 DEF Reading
    <2> QED
        BY <2>3, <2>4, <2>5
<1>3. ASSUME UNCHANGED vars, NEW q \in Procs PROVE Reading(q)' /\ Written(q)'
    <2>1. idx' = idx /\ dat' = dat /\ pc' = pc /\ call' = call /\ h' = h
        BY <1>3 DEF vars, files
    <2> QED
        BY <2>1 DEF CallInv, Reading, Written, At, RecAt
<1>4. \A q \in Procs : Reading(q)' /\ Written(q)'
    BY <1>2, <1>3 DEF Next
<1> QED
    BY <1>1, <1>4 DEF CallInv

\* Fetches, stores and deletes of any number of processes behave as if each took
\* place at one moment on one map: the locks of db_fetch, db_store and db_delete
\* make them atomic, although db_store and _db_dodelete write the files in four
\* steps and other processes run in between.
THEOREM ImplementsMap == Spec => ImplementsKVStore
<1>1. Init => CallInv /\ Abstract!Init
    BY InitMaps
<1>2. CallInv /\ [Next]_vars => CallInv'
    BY CallInvNext
<1>3. CallInv /\ CallInv' /\ [Next]_vars => [Abstract!Next]_Abstract!vars
    <2> SUFFICES ASSUME CallInv, CallInv', [Next]_vars PROVE Abstract!Next \/ UNCHANGED Abstract!vars
        OBVIOUS
    <2>1. Files'
        BY DEF CallInv, HashInv
    <2> QED
        BY <2>1, StepMaps, StutterMaps DEF Next
<1> QED
    BY <1>1, <1>2, <1>3, PTL DEF Spec, ImplementsKVStore, Abstract!Spec

-----------------------------------------------------------------------------
(* A whole scan: ScanComplete. *)

\* An index record beyond what a pointer field can hold was appended by a store
\* that ends its process, or has ended it.
Overflown ==
    \A o \in Records : o > PtrMax =>
        \E q \in Procs : /\ pc[q] \in {"link", "exited"} /\ h[q].idxoff = o
                         /\ call[q].op \in Stores /\ call[q].key = RecAt(o).key

\* The scan of p has read record o and returned it.
Passed(p, o) == o < h[p].pos /\ ~(At(p, "scandat") /\ h[p].idxoff = o)

\* Of a key that nobody writes, what the scan of p has returned are the records
\* that it has passed.
Scanning(p) ==
    LET s == scan[p]  IN
    s.phase # "off" =>
        /\ call[p].op \notin Writes \cup {"fetch"}
        /\ BeingWritten \subseteq s.touched
        /\ s.phase = "eof" \/ call[p].op # "rewind" =>
              \A k \in Keys \ s.touched :
                  s.seen[k] = IF \E o \in Linked(k) : Passed(p, o) THEN 1 ELSE 0
        /\ s.phase = "eof" =>
              \A k \in Keys \ s.touched : \A o \in Linked(k) : Passed(p, o)

\* The call and the position of a process that is not in a call, or reads.
Placed(p) ==
    /\ At(p, "idle") => call[p] = NoCall
    /\ At(p, "scandat") => h[p].pos = h[p].idxoff + 1

\* What a scan records, and its invariant.
Scans == [phase : {"on", "off", "eof"}, seen : [Keys -> Nat], touched : SUBSET Keys]

ScanKept == scan \in [Procs -> Scans] /\ \A p \in Procs : Placed(p) /\ Scanning(p)

ScanInv == CallInv /\ Overflown /\ ScanKept

\* A process that changes a record of a key, or has one in hand, writes that key.
LEMMA WriterWrites ==
    ASSUME Files, NEW q \in Procs,
           pc[q] \in Storing \cup Deleting \/ call[q].op \in Stores \cup Writes
    PROVE  call[q].key \in BeingWritten
<1>1. call[q].op \in Writes
    BY DEF Files, LockInv, Owns, Writes, Stores
<1> QED
    BY <1>1 DEF BeingWritten

\* The records of a key that nobody writes stay on its chain.
LEMMA UnwrittenStays ==
    ASSUME Files, NEW L, Listed(L), NEW q \in Procs, Begin(q) \/ Step(q),
           NEW k \in Keys, k \notin BeingWritten
    PROVE  Linked(k)' = Linked(k)
<1>1. CASE pc[q] \notin {"delidx", "link"}
    BY <1>1, LinkedStep
<1>2. CASE pc[q] = "delidx"
    <2>1. call[q].key # k
        BY <1>2, WriterWrites DEF Deleting
    <2>2. h[q].idxoff \notin Linked(k)
        BY <1>2, <2>1, RecordOf DEF Linked
    <2>3. Linked(k)' = Linked(k) \ {h[q].idxoff}
        BY <1>2, LinkedStep
    <2> QED
        BY <2>2, <2>3
<1>3. CASE pc[q] = "link"
    <2>1. call[q].key # k
        BY <1>3, WriterWrites DEF Storing
    <2>2. Link(q) \/ LinkInvalid(q)
        BY <1>3, PcStep
    <2> QED
        BY <2>1, <2>2, LinkedStep
<1> QED
    BY <1>1, <1>2, <1>3

\* A record with a key that nobody writes is on the chain of the key.
LEMMA UnwrittenLinked ==
    ASSUME Files, NEW L, Listed(L), Overflown, NEW o \in Records,
           RecAt(o).key \in Keys, RecAt(o).key \notin BeingWritten
    PROVE  o \in Linked(RecAt(o).key)
<1>1. RecAt(o).key # Blank
    BY ParamAssumption
<1>2. ASSUME o > PtrMax PROVE FALSE
    BY <1>2, WriterWrites DEF Overflown
<1>3. ASSUME NEW q \in Procs, pc[q] \in {"reusedat", "reuseidx", "link"}, h[q].idxoff = o PROVE FALSE
    <2>1. CASE pc[q] = "link"
        BY <1>3, <2>1, RecordOf, WriterWrites DEF Storing, At
    <2>2. CASE pc[q] \in {"reusedat", "reuseidx"}
        BY <1>1, <1>3, <2>2 DEF Listed, Knows, OwnRecord
    <2> QED
        BY <1>3, <2>1, <2>2
<1> QED
    BY <1>2, <1>3 DEF InHand, Linked

\* A key that nobody writes has data in the map exactly if it has a record.
LEMMA UnwrittenData ==
    ASSUME Files, NEW L, Listed(L), NEW k \in Keys, k \notin BeingWritten
    PROVE  kvBar[k] = Blank <=> Linked(k) = {}
<1>1. LockInv /\ KeysUnique /\ DataOwned
    BY DEF Files
<1>2. Moving(k) = {}
    BY WriterWrites DEF Moving
<1>3. Linked(k) = {} => kvBar[k] = Blank
    BY <1>1, <1>2, KvIs DEF KvMeans
<1>4. ASSUME NEW o \in Linked(k) PROVE kvBar[k] # Blank
    <2>1. o \in Records /\ RecAt(o).key = k /\ k # Blank
        BY ParamAssumption DEF Linked
    <2>2. ASSUME NEW q \in Procs, At(q, "delidx"), h[q].idxoff = o PROVE FALSE
        <3>1. RecAt(o).key = call[q].key
            BY <2>2, RecordOf DEF Linked, At
        <3> QED
            BY <2>1, <2>2, <3>1, WriterWrites DEF Deleting, At
    <2>3. dat[RecAt(o).datoff].val \in Data[k]
        BY <1>1, <2>1, <2>2 DEF DataOwned
    <2>4. kvBar[k] = dat[RecAt(o).datoff].val
        BY <1>1, <1>2, KvIs DEF KvMeans
    <2> QED
        BY <2>3, <2>4, ParamAssumption
<1> QED
    BY <1>3, <1>4

\* Records beyond the pointer fields, after a step.
LEMMA OverflownNext ==
    ASSUME Files, NEW L, Listed(L), Files', NEW L1, Listed(L1)', Overflown,
           NEW p \in Procs, Begin(p) \/ Step(p)
    PROVE  Overflown'
<1> USE DEF At
<1>1. /\ DataStep(p) /\ TypeOK /\ LockInv /\ DOMAIN pc = Procs /\ DOMAIN h = Procs
      /\ \A q \in Procs \ {p} : pc'[q] = pc[q] /\ call'[q] = call[q] /\ h'[q] = h[q]
    BY StepData, StepFacts DEF Files, TypeOK
<1> SUFFICES ASSUME NEW o \in Records', o > PtrMax
             PROVE  \E q \in Procs : /\ pc'[q] \in {"link", "exited"} /\ h'[q].idxoff = o
                                     /\ call'[q].op \in Stores /\ call'[q].key = RecAt(o)'.key
    BY DEF Overflown
<1>2. CASE o \in Records
    <2>1. PICK q \in Procs : /\ pc[q] \in {"link", "exited"} /\ h[q].idxoff = o
                             /\ call[q].op \in Stores /\ call[q].key = RecAt(o).key
        BY <1>2 DEF Overflown
    <2>2. RecAt(o)'.key = RecAt(o).key
        <3>1. ASSUME o = h[p].idxoff, pc[p] \in {"delidx", "reuseidx"} PROVE FALSE
            <4>1. CASE pc[p] = "delidx"
                BY <3>1, <4>1, RecordOf DEF Linked, InHand
            <4>2. CASE pc[p] = "reuseidx"
                <5>1. o <= PtrMax
                    BY <3>1, <4>2 DEF Listed, Knows, OwnRecord
                <5>2. o \in Nat /\ PtrMax \in Nat
                    BY <1>1, <1>2, FileFacts, ParamAssumption DEF TypeOK
                <5> QED
                    BY <5>1, <5>2
            <4> QED
                BY <3>1, <4>1, <4>2
        <3> QED
            BY <1>1, <1>2, <3>1 DEF DataStep
    <2>3. /\ pc'[q] \in {"link", "exited"} /\ h'[q] = h[q] /\ call'[q] = call[q]
        <3>1. CASE q # p
            BY <1>1, <2>1, <3>1
        <3>2. CASE q = p
            <4>1. pc[p] = "link"
                BY <2>1, <3>2, StepFrom
            <4>2. LinkInvalid(p)
                <5>1. Link(p) \/ LinkInvalid(p)
                    BY <4>1, PcStep
                <5>2. o \in Nat /\ PtrMax \in Nat
                    BY <1>1, <1>2, FileFacts, ParamAssumption DEF TypeOK
                <5> QED
                    BY <2>1, <3>2, <5>1, <5>2 DEF Link
            <4> QED
                BY <1>1, <3>2, <4>2 DEF LinkInvalid, Exit, Goto
        <3> QED
            BY <3>1, <3>2
    <2> QED
        BY <2>1, <2>2, <2>3
<1>3. CASE o \notin Records
    <2>1. pc[p] = "newidx" /\ o = h[p].idxoff
        BY <1>1, <1>3 DEF DataStep
    <2>2. NewIdx(p)
        BY <2>1, StepFrom
    <2>3. pc'[p] = "link" /\ h'[p] = h[p] /\ call'[p] = call[p]
        BY <1>1, <2>2 DEF NewIdx, Goto, SameCall
    <2>4. call[p].op \in Stores
        BY <1>1, <2>1 DEF LockInv, Owns, Storing
    <2>5. OwnRecord(p)'
        BY DEF Listed, Knows
    <2>6. RecAt(o)'.key = call'[p].key
        BY <2>1, <2>3, <2>5 DEF OwnRecord, RecAt
    <2> QED
        BY <2>1, <2>3, <2>4, <2>6
<1> QED
    BY <1>2, <1>3

\* What a scan has met, when another process steps.
LEMMA OtherScans ==
    ASSUME Files, NEW L, Listed(L), NEW q \in Procs, Begin(q) \/ Step(q), NEW p \in Procs \ {q},
           scan[p] \in Scans, Placed(p), Scanning(p), scan'[p] = After(p)
    PROVE  Placed(p)' /\ Scanning(p)'
<1> USE DEF At
<1>1. pc'[p] = pc[p] /\ h'[p] = h[p] /\ call'[p] = call[p]
    BY StepFacts DEF Files
<1>2. Placed(p)'
    BY <1>1 DEF Placed
<1>3. PICK s, t : s = scan[p] /\ t = scan'[p]
    OBVIOUS
<1>4. CASE call[p].op = "rewind"
    <2>1. t = [NewScan EXCEPT !.touched = BeingWritten']
        BY <1>3, <1>4 DEF After
    <2>2. t.phase = "on" /\ t.touched = BeingWritten'
        BY <2>1 DEF NewScan
    <2>3. call'[p].op \notin Writes \cup {"fetch"}
        BY <1>1, <1>4 DEF Writes, Stores
    <2> QED
        BY <1>1, <1>2, <1>3, <1>4, <2>2, <2>3 DEF Scanning
<1>5. CASE call[p].op # "rewind" /\ s.phase = "off"
    BY <1>2, <1>3, <1>5 DEF After, Scanning
<1>6. CASE call[p].op # "rewind" /\ s.phase # "off"
    <2>1. call[p].op \notin Writes \cup {"fetch"} /\ BeingWritten \subseteq s.touched
        BY <1>3, <1>6 DEF Scanning
    <2>2. t.phase = s.phase /\ t.seen = s.seen /\ t.touched = s.touched \cup BeingWritten'
        BY <1>1, <1>3, <1>6, <2>1 DEF After
    <2>3. ASSUME NEW k \in Keys \ t.touched
          PROVE  /\ k \notin s.touched /\ Linked(k)' = Linked(k)
                 /\ \A o : Passed(p, o)' <=> Passed(p, o)
        <3>1. k \notin s.touched /\ k \notin BeingWritten
            BY <2>1, <2>2, <2>3
        <3>2. Linked(k)' = Linked(k)
            BY <2>3, <3>1, UnwrittenStays
        <3> QED
            BY <1>1, <3>1, <3>2 DEF Passed
    <2>4. /\ \A k \in Keys \ s.touched : s.seen[k] = IF \E o \in Linked(k) : Passed(p, o) THEN 1 ELSE 0
          /\ s.phase = "eof" => \A k \in Keys \ s.touched : \A o \in Linked(k) : Passed(p, o)
        BY <1>3, <1>6 DEF Scanning
    <2>5. \A k \in Keys \ t.touched : t.seen[k] = IF \E o \in Linked(k)' : Passed(p, o)' THEN 1 ELSE 0
        BY <2>2, <2>3, <2>4
    <2>6. t.phase = "eof" => \A k \in Keys \ t.touched : \A o \in Linked(k)' : Passed(p, o)'
        BY <2>2, <2>3, <2>4
    <2> QED
        BY <1>1, <1>2, <1>3, <2>1, <2>2, <2>5, <2>6 DEF Scanning
<1> QED
    BY <1>4, <1>5, <1>6

\* What it has met, when its own process steps: the call that begins or ends, the
\* record that is read or returned.
LEMMA OwnScans ==
    ASSUME Files, NEW L, Listed(L), NEW p \in Procs, Begin(p) \/ Step(p), Reading(p), Overflown,
           scan[p] \in Scans, Placed(p), Scanning(p), scan'[p] = After(p),
           call[p].op # "rewind", scan[p].phase # "off", scan'[p].phase # "off"
    PROVE  \A k \in Keys \ scan'[p].touched :
              /\ scan'[p].seen[k] = IF \E o \in Linked(k)' : Passed(p, o)' THEN 1 ELSE 0
              /\ scan'[p].phase = "eof" => \A o \in Linked(k)' : Passed(p, o)'
<1> USE DEF At
<1>1. PICK s, t, o1, n : s = scan[p] /\ t = scan'[p] /\ o1 = h[p].idxoff /\ n = h[p].pos
    OBVIOUS
<1>2. /\ BeingWritten \subseteq s.touched /\ call[p].op \notin Writes \cup {"fetch"}
      /\ t.touched = s.touched \cup BeingWritten'
      /\ pc[p] \notin InChain
      /\ LockInv /\ FilesOK /\ h[p] \in Handles /\ DOMAIN h = Procs /\ DOMAIN pc = Procs
      /\ n \in {0} \cup (FirstRec .. IdxEnd)
    <2>1. BeingWritten \subseteq s.touched /\ call[p].op \notin Writes \cup {"fetch"}
        BY <1>1 DEF Scanning
    <2>2. LockInv /\ FilesOK /\ h[p] \in Handles /\ DOMAIN h = Procs /\ DOMAIN pc = Procs
        BY DEF Files, TypeOK, HandleOK
    <2>3. t.touched = s.touched \cup BeingWritten'
        BY <1>1 DEF After
    <2> QED
        BY <1>1, <2>1, <2>2, <2>3, ChainKey DEF Handles
<1> SUFFICES ASSUME NEW k \in Keys \ t.touched
             PROVE  /\ t.seen[k] = IF \E o \in Linked(k)' : Passed(p, o)' THEN 1 ELSE 0
                    /\ t.phase = "eof" => \A o \in Linked(k)' : Passed(p, o)'
    BY <1>1
<1>3. /\ k \notin s.touched /\ k \notin BeingWritten /\ Linked(k)' = Linked(k)
      /\ s.seen[k] = IF \E o \in Linked(k) : Passed(p, o) THEN 1 ELSE 0
      /\ s.phase = "eof" => \A o \in Linked(k) : Passed(p, o)
    <2>1. k \notin s.touched /\ k \notin BeingWritten
        BY <1>2
    <2>2. /\ s.seen[k] = IF \E o \in Linked(k) : Passed(p, o) THEN 1 ELSE 0
          /\ s.phase = "eof" => \A o \in Linked(k) : Passed(p, o)
        BY <1>1, <2>1 DEF Scanning
    <2> QED
        BY <2>1, <2>2, UnwrittenStays
<1>4. /\ \A o \in Linked(k) : o \in Records /\ RecAt(o).key = k /\ o \in Nat /\ o < IdxEnd /\ k # Blank
      /\ IdxEnd \in Nat /\ FirstRec \in Nat
    <2>1. \A o \in Records : o \in Nat /\ o < IdxEnd
        BY <1>2, FileFacts DEF Records
    <2> QED
        BY <1>2, <2>1, FileFacts, ParamAssumption DEF Linked
<1>5. CASE Begin(p) \/ NextRec(p) \/ ScanLost(p)
    <2>1. /\ h'[p].pos = n /\ pc[p] # "scandat" /\ pc'[p] # "scandat" /\ pc'[p] # "idle"
        <3>1. CASE Begin(p)
            <4>1. PICK r \in Requests : pc' = [pc EXCEPT ![p] = r.op]
                BY <3>1 DEF Begin, Goto
            <4>2. pc'[p] \in AllOps
                BY <1>2, <4>1 DEF Requests
            <4> QED
                BY <1>1, <1>2, <3>1, <4>2 DEF Begin, SetHandle, Handles, AllOps, Writes, Stores
        <3>2. CASE NextRec(p) \/ ScanLost(p)
            BY <1>1, <1>2, <3>2 DEF NextRec, ScanLost, Exit, Goto
        <3> QED
            BY <1>5, <3>1, <3>2
    <2>2. t.seen = s.seen /\ t.phase = s.phase
        BY <1>1, <2>1 DEF After
    <2>3. \A o : Passed(p, o)' <=> Passed(p, o)
        BY <1>1, <2>1 DEF Passed
    <2> QED
        BY <1>3, <2>2, <2>3
<1>6. CASE ScanOn(p)
    <2>1. /\ pc[p] = "scan" /\ n \in Records /\ n \in Nat /\ h'[p].pos = n + 1 /\ h'[p].idxoff = n
          /\ pc'[p] = IF RecAt(n).key = Blank THEN "scan" ELSE "scandat"
        <3>1. pc[p] = "scan" /\ n \notin {0, IdxEnd} /\ h' = [h EXCEPT ![p] = Loaded(h[p], n)]
            BY <1>1, <1>6 DEF ScanOn, SetHandle
        <3>2. n \in Records
            BY <1>2, <1>4, <3>1 DEF Records
        <3>3. h'[p] = Loaded(h[p], n)
            BY <1>2, <3>1
        <3>4. Loaded(h[p], n).pos = n + 1 /\ Loaded(h[p], n).idxoff = n
            BY <1>2 DEF Loaded, Handles
        <3>5. pc'[p] = IF RecAt(n).key = Blank THEN "scan" ELSE "scandat"
            BY <1>1, <1>2, <1>6, <3>1 DEF ScanOn, Goto
        <3> QED
            BY <1>2, <3>1, <3>2, <3>3, <3>4, <3>5, FileFacts
    <2>2. t.seen = s.seen /\ t.phase = s.phase
        BY <1>1, <2>1 DEF After
    <2>3. \A o \in Linked(k) : Passed(p, o)' <=> Passed(p, o)
        <3>1. ASSUME NEW o \in Linked(k) PROVE Passed(p, o)' <=> Passed(p, o)
            <4>1. Passed(p, o) <=> o < n
                BY <1>1, <2>1 DEF Passed
            <4>2. Passed(p, o)' <=> o < n + 1 /\ ~(RecAt(n).key # Blank /\ n = o)
                BY <2>1 DEF Passed
            <4>3. o \in Nat /\ (o = n => RecAt(n).key # Blank)
                BY <1>4
            <4> QED
                BY <2>1, <4>1, <4>2, <4>3
        <3> QED
            BY <3>1
    <2> QED
        BY <1>3, <2>2, <2>3
<1>7. CASE ScanEnd(p)
    <2>1. pc[p] = "scan" /\ pc'[p] = "idle" /\ n = IdxEnd /\ h'[p].pos = n
        BY <1>1, <1>2, <1>7 DEF ScanEnd, Return, Goto, NewHandle
    <2>2. t.seen = s.seen
        BY <1>1, <2>1 DEF After
    <2>3. \A o \in Linked(k) : Passed(p, o)' /\ Passed(p, o)
        BY <1>1, <1>4, <2>1 DEF Passed
    <2> QED
        BY <1>3, <2>2, <2>3
<1>8. CASE ScanDat(p)
    <2>1. PICK j, v : j = h[p].key /\ h'[p].rc = <<j, v>>
        BY <1>8, ReturnDoes DEF ScanDat
    <2>2. /\ pc[p] = "scandat" /\ pc'[p] = "idle" /\ h'[p].pos = n /\ n = o1 + 1
        BY <1>1, <1>2, <1>8 DEF ScanDat, Return, Goto, NewHandle, Placed
    <2>3. o1 \in Records /\ RecAt(o1).key = j /\ j \in Keys /\ o1 \in Nat
        <3>1. Scanned(p)
            BY DEF Listed, Knows
        <3> QED
            BY <1>1, <1>2, <2>1, <2>2, <3>1, FileFacts DEF Scanned, Handles
    <2>4. t.phase = s.phase /\ t.seen = [s.seen EXCEPT ![j] = @ + 1] /\ s.seen \in [Keys -> Nat]
        <3>1. ~(pc[p] = "scan") /\ h'[p].rc[1] = j
            BY <2>1, <2>2
        <3>2. t.phase = s.phase
            BY <1>1, <2>2, <3>1 DEF After
        <3>3. t.seen = [s.seen EXCEPT ![j] = @ + 1]
            BY <1>1, <2>2, <3>1 DEF After
        <3> QED
            BY <1>1, <3>2, <3>3 DEF Scans
    <2>5. \A o \in Linked(k) : /\ Passed(p, o) <=> o < o1
                               /\ Passed(p, o)' <=> o < o1 + 1
        <3>1. ASSUME NEW o \in Linked(k) PROVE /\ Passed(p, o) <=> o < o1
                                               /\ Passed(p, o)' <=> o < o1 + 1
            <4>1. Passed(p, o) <=> o < o1 + 1 /\ o1 # o
                BY <1>1, <2>2 DEF Passed
            <4>2. Passed(p, o)' <=> o < o1 + 1
                BY <2>2 DEF Passed
            <4>3. o \in Nat
                BY <1>4
            <4> QED
                BY <2>3, <4>1, <4>2, <4>3
        <3> QED
            BY <3>1
    <2>6. CASE k # j
        <3>1. \A o \in Linked(k) : o # o1 /\ o \in Nat
            BY <1>4, <2>3, <2>6
        <3>2. \A o \in Linked(k) : Passed(p, o)' <=> Passed(p, o)
            BY <2>3, <2>5, <3>1
        <3>3. t.seen[k] = s.seen[k]
            BY <2>4, <2>6
        <3> QED
            BY <1>3, <2>4, <3>2, <3>3
    <2>7. CASE k = j
        <3>1. o1 \in Linked(k)
            BY <1>3, <2>3, <2>7, UnwrittenLinked
        <3>2. \A o \in Linked(k) : o = o1
            BY <1>4, <3>1 DEF Files, KeysUnique, Linked
        <3>3. ~(\E o \in Linked(k) : Passed(p, o)) /\ Passed(p, o1)'
            BY <2>3, <2>5, <3>1, <3>2
        <3>4. s.seen[k] = 0 /\ s.phase # "eof"
            BY <1>3, <3>1, <3>3
        <3>5. t.seen[k] = 1
            BY <2>4, <2>7, <3>4
        <3> QED
            BY <1>3, <2>4, <3>1, <3>3, <3>4, <3>5
    <2> QED
        BY <2>6, <2>7
<1>9. Begin(p) \/ NextRec(p) \/ ScanLost(p) \/ ScanOn(p) \/ ScanEnd(p) \/ ScanDat(p)
    <2>1. ~Rewind(p)
        BY <1>2 DEF Rewind, LockInv, Owns, AllOps
    <2>2. pc[p] \notin Writes \cup {"fetch"}
        BY <1>2 DEF LockInv, Owns, AllOps
    <2> QED
        BY <1>2, <2>1, <2>2
        DEF Step, Find, Delete, FindFree, Store, Scan, LockChain, WalkOn, Found,
            FoundInsert, NotFound, ReadDat, DelDat, DelIdx, DelFree, DelUnlink, StartFree, FreeWalkOn,
            FreeFound, FreeTake, NoneFree, Reread, Overwrite, ReuseDat, ReuseIdx, LockNewDat, NewDat,
            LockNewIdx, NewIdx, Link, LinkInvalid, InChain, InFree
<1> QED
    BY <1>5, <1>6, <1>7, <1>8, <1>9

\* What it has met after a step of its own process.
LEMMA OwnStep ==
    ASSUME Files, NEW L, Listed(L), NEW p \in Procs, Begin(p) \/ Step(p), Reading(p), Overflown,
           scan[p] \in Scans, Placed(p), Scanning(p), scan'[p] = After(p)
    PROVE  Placed(p)' /\ Scanning(p)'
<1> USE DEF At, Goto
<1>1. /\ LockInv /\ FilesOK /\ h[p] \in Handles /\ DOMAIN h = Procs /\ DOMAIN pc = Procs
      /\ DOMAIN call = Procs
    BY StepFacts DEF Files, TypeOK, HandleOK
<1>2. Placed(p)'
    <2>1. pc'[p] = "idle" => call'[p] = NoCall
        <3>1. CASE Begin(p)
            <4>1. PICK r \in Requests : pc' = [pc EXCEPT ![p] = r.op]
                BY <3>1 DEF Begin
            <4>2. pc'[p] \in AllOps
                BY <1>1, <4>1 DEF Requests
            <4> QED
                BY <4>2 DEF AllOps, Writes, Stores
        <3>2. CASE \/ LockChain(p) \/ WalkOn(p) \/ Found(p) \/ StartFree(p) \/ FreeWalkOn(p) \/ FreeFound(p)
                   \/ FreeTake(p) \/ NoneFree(p) \/ ReuseDat(p) \/ ReuseIdx(p) \/ LockNewDat(p) \/ NewDat(p)
                   \/ LockNewIdx(p) \/ NewIdx(p) \/ DelIdx(p) \/ DelFree(p)
                   \/ (DelUnlink(p) /\ call[p].op # "delete") \/ Reread(p) \/ NextRec(p) \/ ScanOn(p)
            BY <3>2, MiddleStep
        <3>3. CASE DelDat(p) \/ LinkInvalid(p) \/ ScanLost(p)
            BY <1>1, <3>3 DEF DelDat, LinkInvalid, ScanLost, Exit
        <3>4. CASE \/ FoundInsert(p) \/ NotFound(p) \/ ReadDat(p) \/ Overwrite(p) \/ Link(p) \/ ScanEnd(p)
                   \/ ScanDat(p) \/ (DelUnlink(p) /\ call[p].op = "delete")
            BY <1>1, <3>4 DEF FoundInsert, NotFound, ReadDat, Overwrite, Link, ScanEnd, ScanDat, DelUnlink,
               Return
        <3>5. CASE Rewind(p)
            BY <1>1, <3>5 DEF Rewind
        <3> QED
            BY <3>1, <3>2, <3>3, <3>4, <3>5 DEF Step, Find, Delete, FindFree, Store, Scan
    <2>2. pc'[p] = "scandat" => h'[p].pos = h'[p].idxoff + 1
        <3>1. ASSUME pc'[p] = "scandat" PROVE ScanOn(p)
            <4>1. CASE Begin(p)
                <5>1. PICK r \in Requests : pc' = [pc EXCEPT ![p] = r.op]
                    BY <4>1 DEF Begin
                <5>2. pc'[p] \in AllOps
                    BY <1>1, <5>1 DEF Requests
                <5> QED
                    BY <3>1, <5>2 DEF AllOps, Writes, Stores
            <4>2. CASE Find(p) \/ Delete(p) \/ FindFree(p)
                BY <1>1, <3>1, <4>2 DEF Find, Delete, FindFree, LockChain, WalkOn, Found, FoundInsert,
                   NotFound,
                   ReadDat, DelDat, DelIdx, DelFree, DelUnlink, StartFree, FreeWalkOn, FreeFound, FreeTake,
                   NoneFree, Return
            <4>3. CASE Store(p)
                BY <1>1, <3>1, <4>3 DEF Store, Reread, Overwrite, ReuseDat, ReuseIdx, LockNewDat, NewDat,
                   LockNewIdx, NewIdx, Link, LinkInvalid, Return, Exit
            <4>4. CASE Scan(p)
                BY <1>1, <3>1, <4>4 DEF Scan, Rewind, NextRec, ScanEnd, ScanDat, ScanLost, Return, Exit
            <4> QED
                BY <4>1, <4>2, <4>3, <4>4 DEF Step
        <3>2. ScanOn(p) => h'[p] = Loaded(h[p], h[p].pos)
            BY <1>1 DEF ScanOn, SetHandle
        <3>3. Loaded(h[p], h[p].pos).pos = Loaded(h[p], h[p].pos).idxoff + 1
            BY <1>1 DEF Loaded, Handles
        <3> QED
            BY <3>1, <3>2, <3>3
    <2> QED
        BY <2>1, <2>2 DEF Placed
<1>3. PICK s, t : s = scan[p] /\ t = scan'[p]
    OBVIOUS
<1>4. CASE call[p].op = "rewind"
    <2>1. t = [NewScan EXCEPT !.touched = BeingWritten']
        BY <1>3, <1>4 DEF After
    <2>2. t.phase = "on" /\ t.touched = BeingWritten' /\ \A k \in Keys : t.seen[k] = 0
        BY <2>1 DEF NewScan
    <2>3. pc[p] = "rewind"
        <3>1. pc[p] \notin InChain \cup InScan \cup {"idle"}
            BY <1>1, <1>4, ChainKey DEF Reading, Placed, NoCall, InScan, Writes, Stores
        <3>2. pc[p] # "exited"
            BY StepFrom
        <3>3. pc[p] \in AllOps
            BY <1>1, <3>1, <3>2, StepFacts DEF Files, AllLabels
        <3> QED
            BY <1>1, <1>4, <3>3 DEF LockInv, Owns
    <2>4. Rewind(p)
        BY <2>3, StepFrom
    <2>5. h'[p].pos = FirstRec /\ call'[p] = NoCall
        BY <1>1, <2>4 DEF Rewind, SetHandle, Handles
    <2>6. ASSUME NEW k \in Keys, NEW o \in Linked(k)' PROVE ~Passed(p, o)'
        <3>1. o \in Records'
            BY DEF Linked
        <3>2. Records' = Records
            <4>1. DataStep(p)
                BY StepData
            <4> QED
                BY <2>3, <4>1 DEF DataStep
        <3>3. o \in Nat /\ o >= FirstRec /\ FirstRec \in Nat
            BY <1>1, <2>3, <3>1, <3>2, FileFacts DEF Records
        <3> QED
            BY <2>5, <3>3 DEF Passed
    <2>7. call'[p].op \notin Writes \cup {"fetch"}
        BY <2>5 DEF NoCall, Writes, Stores
    <2> QED
        BY <1>2, <1>3, <2>2, <2>6, <2>7 DEF Scanning
<1>5. CASE call[p].op # "rewind" /\ (s.phase = "off" \/ t.phase = "off")
    BY <1>2, <1>3, <1>5 DEF After, Scanning
<1>6. CASE call[p].op # "rewind" /\ s.phase # "off" /\ t.phase # "off"
    <2>1. \A k \in Keys \ scan'[p].touched :
             /\ scan'[p].seen[k] = IF \E o \in Linked(k)' : Passed(p, o)' THEN 1 ELSE 0
             /\ scan'[p].phase = "eof" => \A o \in Linked(k)' : Passed(p, o)'
        BY <1>3, <1>6, OwnScans
    <2>2. call'[p].op \notin Writes \cup {"fetch"} /\ BeingWritten' \subseteq t.touched
        BY <1>3, <1>6 DEF After
    <2> QED
        BY <1>2, <1>3, <2>1, <2>2 DEF Scanning
<1> QED
    BY <1>3, <1>4, <1>5, <1>6

\* The keys that are being written are keys.
LEMMA WrittenKeys == TypeOK => BeingWritten \subseteq Keys
<1> SUFFICES ASSUME TypeOK, NEW q \in Procs, call[q].op \in Writes PROVE call[q].key \in Keys
    BY DEF BeingWritten
<1>1. call[q] \in Requests
    BY DEF TypeOK, NoCall, Writes, Stores
<1> QED
    BY <1>1 DEF Requests, Writes, Stores

\* The same of the next state.
LEMMA WrittenKeysNext == TypeOK' => (BeingWritten \subseteq Keys)'
BY WrittenKeys, PTL

\* What a scan records has its type.
LEMMA ScanTypes ==
    ASSUME TypeOK', NEW p \in Procs, scan[p] \in Scans,
           At(p, "scandat") /\ pc'[p] = "idle" => h'[p].rc[1] \in Keys
    PROVE  After(p) \in Scans
<1>1. PICK s, b, j : s = scan[p] /\ b = BeingWritten' /\ j = h'[p].rc[1]
    OBVIOUS
<1>2. b \subseteq Keys
    BY <1>1, WrittenKeysNext
<1>3. [NewScan EXCEPT !.touched = b] \in Scans
    BY <1>2 DEF NewScan, Scans
<1>4. [s.seen EXCEPT ![j] = @ + 1] \in [Keys -> Nat] \/ j \notin Keys
    BY <1>1 DEF Scans
<1> QED
    BY <1>1, <1>2, <1>3, <1>4 DEF After, Scans

\* Scans, in every state.
LEMMA ScanInvNext ==
    ASSUME ScanInv, [Next /\ scan' = [p \in Procs |-> After(p)]]_<<vars, scan>>
    PROVE  ScanInv'
<1>1. PICK L \in [Header -> ListShape] : Listed(L)
    BY DEF ScanInv, CallInv, HashInv
<1>2. /\ CallInv /\ Files /\ Overflown /\ scan \in [Procs -> Scans]
      /\ \A p \in Procs : Reading(p) /\ Placed(p) /\ Scanning(p) /\ scan[p] \in Scans
    BY DEF ScanInv, ScanKept, CallInv, HashInv
<1>3. CallInv' /\ Files'
    <2>1. [Next]_vars
        OBVIOUS
    <2>2. CallInv'
        BY <1>2, <2>1, CallInvNext
    <2> QED
        BY <2>2 DEF CallInv, HashInv
<1>4. ASSUME UNCHANGED vars PROVE Overflown'
    <2>1. idx' = idx /\ pc' = pc /\ call' = call /\ h' = h
        BY <1>4 DEF vars, files
    <2> QED
        BY <1>2, <2>1 DEF Overflown, Records, IdxEnd, RecAt
<1>5. ASSUME UNCHANGED vars, NEW p \in Procs
      PROVE  /\ Placed(p)' /\ BeingWritten' = BeingWritten /\ call'[p] = call[p] /\ pc'[p] = pc[p]
             /\ \A o : Passed(p, o)' <=> Passed(p, o)
             /\ \A k : Linked(k)' = Linked(k)
    <2>1. idx' = idx /\ pc' = pc /\ call' = call /\ h' = h
        BY <1>5 DEF vars, files
    <2>2. \A o : InHand(o)' <=> InHand(o)
        BY <2>1 DEF InHand
    <2> QED
        BY <1>2, <2>1, <2>2 DEF Placed, BeingWritten, Passed, Linked, Records, IdxEnd, RecAt, At
<1>6. CASE UNCHANGED <<vars, scan>>
    <2>1. UNCHANGED vars /\ scan' = scan
        BY <1>6
    <2>2. ASSUME NEW p \in Procs PROVE Placed(p)' /\ Scanning(p)'
        BY <1>2, <1>5, <2>1 DEF Scanning
    <2> QED
        BY <1>2, <1>3, <1>4, <2>1, <2>2 DEF ScanInv, ScanKept
<1>7. CASE Next /\ scan' = [p \in Procs |-> After(p)]
    <2>1. \A p \in Procs : scan'[p] = After(p)
        BY <1>7
    <2>2. CASE UNCHANGED vars
        <3>1. ASSUME NEW p \in Procs PROVE After(p) \in Scans
            <4>1. ~(At(p, "scandat") /\ pc'[p] = "idle")
                BY <2>2 DEF vars, At
            <4> QED
                BY <1>2, <1>3, <4>1, ScanTypes DEF Files
        <3>2. ASSUME NEW p \in Procs PROVE Placed(p)' /\ Scanning(p)'
            <4>1. PICK s, t : s = scan[p] /\ t = scan'[p]
                OBVIOUS
            <4>2. t = After(p)
                BY <2>1, <4>1
            <4>3. CASE call[p].op = "rewind"
                <5>1. t = [NewScan EXCEPT !.touched = BeingWritten']
                    BY <4>2, <4>3 DEF After
                <5>2. t.phase = "on" /\ t.touched = BeingWritten'
                    BY <5>1 DEF NewScan
                <5>3. call'[p].op = "rewind" /\ "rewind" \notin Writes \cup {"fetch"}
                    BY <1>5, <2>2, <4>3 DEF Writes, Stores
                <5> QED
                    BY <1>5, <2>2, <4>1, <5>2, <5>3 DEF Scanning
            <4>4. CASE call[p].op # "rewind" /\ s.phase = "off"
                BY <1>5, <2>2, <4>1, <4>2, <4>4 DEF After, Scanning
            <4>5. CASE call[p].op # "rewind" /\ s.phase # "off"
                <5>1. call[p].op \notin Writes \cup {"fetch"} /\ BeingWritten \subseteq s.touched
                    <6>1. Scanning(p)
                        BY <1>2
                    <6>2. scan[p].phase # "off"
                        BY <4>1, <4>5
                    <6>3. call[p].op \notin Writes \cup {"fetch"} /\ BeingWritten \subseteq scan[p].touched
                        BY <6>1, <6>2 DEF Scanning
                    <6> QED
                        BY <4>1, <6>3
                <5>2. t.phase = s.phase /\ t.seen = s.seen /\ t.touched = s.touched \cup BeingWritten'
                    <6>1. pc'[p] = pc[p] /\ call'[p] = call[p]
                        BY <1>5, <2>2
                    <6>2. ~(At(p, "scan") /\ pc'[p] = "idle") /\ ~(At(p, "scandat") /\ pc'[p] = "idle")
                        BY <6>1 DEF At
                    <6>3. call'[p].op \notin Writes \cup {"fetch"} /\ call[p].op # "rewind" /\ scan[p].phase # "off"
                        BY <4>1, <4>5, <5>1, <6>1
                    <6>4. After(p) = [phase |-> scan[p].phase, seen |-> scan[p].seen,
                                      touched |-> scan[p].touched \cup BeingWritten']
                        BY <6>2, <6>3 DEF After
                    <6> QED
                        BY <4>1, <4>2, <6>4
                <5>3. t.touched = s.touched
                    BY <1>5, <2>2, <5>1, <5>2
                <5> QED
                    BY <1>2, <1>5, <2>2, <4>1, <4>5, <5>2, <5>3 DEF Scanning
            <4> QED
                BY <4>1, <4>3, <4>4, <4>5
        <3> QED
            BY <1>2, <1>3, <1>4, <1>7, <2>2, <3>1, <3>2 DEF ScanInv, ScanKept
    <2>3. ASSUME NEW q \in Procs, Begin(q) \/ Step(q) PROVE ScanInv'
        <3>1. \A p \in Procs : At(p, "scandat") /\ pc'[p] = "idle" => h'[p].rc[1] \in Keys
            <4> SUFFICES ASSUME NEW p \in Procs, At(p, "scandat"), pc'[p] = "idle"
                         PROVE  h'[p].rc[1] \in Keys
                OBVIOUS
            <4>1. p = q
                BY <1>2, <2>3, StepFacts DEF Files, At
            <4>2. ScanDat(p)
                BY <2>3, <4>1, StepFrom DEF At
            <4>3. PICK a, b : h'[p].rc = <<a, b>>
                BY <1>2, <4>2, ReturnDoes DEF ScanDat
            <4>4. Len(h'[p].rc) = 2 => h'[p].rc[1] \in Keys
                BY <1>3 DEF Files, ScanSound
            <4> QED
                BY <4>3, <4>4
        <3>2. \A p \in Procs : After(p) \in Scans
            BY <1>2, <1>3, <3>1, ScanTypes DEF Files
        <3>3. ASSUME NEW p \in Procs PROVE Placed(p)' /\ Scanning(p)'
            <4>1. scan'[p] = After(p)
                BY <2>1
            <4>2. CASE p = q
                BY <1>1, <1>2, <2>3, <4>1, <4>2, OwnStep
            <4>3. CASE p # q
                BY <1>1, <1>2, <2>3, <4>1, <4>3, OtherScans
            <4> QED
                BY <4>2, <4>3
        <3>4. Overflown'
            <4>1. PICK L1 \in [Header -> ListShape] : Listed(L1)'
                BY <1>3 DEF CallInv, HashInv
            <4> QED
                BY <1>1, <1>2, <1>3, <2>3, <4>1, OverflownNext
        <3> QED
            BY <1>3, <1>7, <3>2, <3>3, <3>4 DEF ScanInv, ScanKept
    <2> QED
        BY <1>7, <2>2, <2>3 DEF Next
<1> QED
    BY <1>6, <1>7

\* Scans before the first call.
LEMMA ScanInvInit == ScanInit => ScanInv
<1> SUFFICES ASSUME ScanInit PROVE ScanInv
    OBVIOUS
<1>1. Init /\ CallInv /\ scan = [p \in Procs |-> NewScan] /\ FilesOK
    BY InitMaps DEF ScanInit, CallInv, HashInv, Files, TypeOK
<1>2. \A p \in Procs : call[p] = NoCall /\ pc[p] = "idle" /\ h[p].pos = FirstRec
    BY <1>1 DEF Init, NewHandle
<1>3. Overflown
    <2> SUFFICES ASSUME NEW o \in Records, o > PtrMax PROVE FALSE
        BY DEF Overflown
    <2>1. Len(idx) = Len(Preload)
        BY <1>1, ParamAssumption DEF Init
    <2> QED
        BY <1>1, <2>1, FileFacts, ParamAssumption DEF Records, IdxEnd, FirstRec
<1>4. NewScan \in Scans /\ NewScan.phase = "on" /\ NewScan.touched = {} /\ \A k \in Keys : NewScan.seen[k] = 0
    BY DEF NewScan, Scans
<1>5. BeingWritten = {}
    BY <1>2 DEF BeingWritten, NoCall, Writes, Stores
<1>6. ASSUME NEW p \in Procs PROVE Placed(p) /\ Scanning(p)
    <2>1. \A k \in Keys : \A o \in Linked(k) : ~Passed(p, o)
        <3> SUFFICES ASSUME NEW k \in Keys, NEW o \in Linked(k) PROVE ~Passed(p, o)
            OBVIOUS
        <3>1. o \in Nat /\ o >= FirstRec /\ FirstRec \in Nat
            BY <1>1, FileFacts DEF Linked, Records
        <3> QED
            BY <1>2, <3>1 DEF Passed
    <2>2. call[p].op \notin Writes \cup {"fetch"}
        BY <1>2 DEF NoCall, Writes, Stores
    <2> QED
        BY <1>1, <1>2, <1>4, <1>5, <2>1, <2>2 DEF Placed, Scanning, At
<1> QED
    BY <1>1, <1>3, <1>4, <1>6 DEF ScanInv, ScanKept

\* A whole scan returns exactly once each key that is in the database and that
\* nobody writes meanwhile, and no key that is not: db_nextrec's read lock on the
\* free list is enough, although it lets deletions, reuse and appends go on
\* between its calls.
THEOREM ScansComplete == ScanSpec => []ScanComplete
<1>1. ScanInv => ScanComplete
    <2> SUFFICES ASSUME ScanInv, NEW p \in Procs, scan[p].phase = "eof", NEW k \in Keys \ scan[p].touched
                 PROVE  scan[p].seen[k] = IF kvBar[k] = Blank THEN 0 ELSE 1
        BY DEF ScanComplete
    <2>1. PICK L \in [Header -> ListShape] : Listed(L)
        BY DEF ScanInv, CallInv, HashInv
    <2>2. Files /\ Scanning(p)
        BY DEF ScanInv, ScanKept, CallInv, HashInv
    <2>3. /\ k \notin BeingWritten
          /\ scan[p].seen[k] = IF \E o \in Linked(k) : Passed(p, o) THEN 1 ELSE 0
          /\ \A o \in Linked(k) : Passed(p, o)
        BY <2>2 DEF Scanning
    <2>4. kvBar[k] = Blank <=> Linked(k) = {}
        BY <2>1, <2>2, <2>3, UnwrittenData
    <2> QED
        BY <2>3, <2>4
<1> QED
    BY <1>1, ScanInvInit, ScanInvNext, PTL DEF ScanSpec

=============================================================================
