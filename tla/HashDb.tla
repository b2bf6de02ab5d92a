------------------------------- MODULE HashDb -------------------------------
(***************************************************************************)
(* The hash database library of apue.2e/db/db.c as several processes use   *)
(* it at once.  One step is one file operation on the shared index or data *)
(* file; a lock taken just before an operation, or given up just after it, *)
(* is part of that operation's step.                                       *)
(*                                                                         *)
(* The index file starts with a header of pointer fields, named by small   *)
(* integers in file order: 0 is the free list pointer and 1..NHash are the *)
(* hash table.  Its records follow, at offsets FirstRec, FirstRec+1, ...   *)
(* As in the file, pointer 0 ends a list.  Blank stands for a key or a     *)
(* data record overwritten with spaces, and for a NULL result.             *)
(***************************************************************************)
EXTENDS Integers, Sequences

CONSTANTS
    Procs,      \* processes, each with one open handle
    Keys,
    Vals,       \* data records
    Data,       \* Data[k]: the data records that callers store under key k
    Blank,
    NHash,      \* length of the hash table (nhash)
    Hash,       \* Hash[k]: the chain of key k
    KeyLen,     \* KeyLen[k] and DatLen[v]: their lengths
    DatLen,
    PtrMax,     \* the largest offset a pointer field can hold (PTR_MAX)
    Ops,        \* Ops[p]: the operations that process p calls
    MaxCalls,   \* MaxCalls[p]: bound on the calls it makes
    Preload     \* stored before: a sequence of [key, val, deleted]

FREE_OFF == 0
Chains   == 1 .. NHash
Header   == 0 .. NHash
FirstRec == NHash + 1

\* Regions that are locked: a header field, the records of the index file
\* (from FirstRec to the end), the whole data file.
IdxTail == FirstRec
DatFile == FirstRec + 1
Regions == 0 .. DatFile

Stores == {"insert", "replace", "store"}
Writes == Stores \cup {"delete"}
AllOps == Writes \cup {"fetch", "rewind", "nextrec"}

ASSUME ParamAssumption ==
    /\ NHash \in Nat \ {0}
    /\ PtrMax \in Nat
    /\ Hash \in [Keys -> Chains]
    /\ KeyLen \in [Keys -> Nat]
    /\ DatLen \in [Vals -> Nat]
    /\ Data \in [Keys -> SUBSET Vals]
    /\ Blank \notin Keys \cup Vals
    /\ MaxCalls \in [Procs -> Nat]
    /\ Ops \in [Procs -> SUBSET AllOps]
    /\ Preload \in Seq([key : Keys, val : Vals, deleted : BOOLEAN])
    /\ \A i, j \in DOMAIN Preload :
          /\ Preload[i].val \in Data[Preload[i].key]
          /\ Preload[i].key = Preload[j].key => i = j \/ Preload[i].deleted \/ Preload[j].deleted
    /\ NHash + Len(Preload) <= PtrMax

VARIABLES
    hdr,    \* hdr[c]: the pointer fields of the index file's header
    idx,    \* the index records, in file order
    dat,    \* the data records, in file order
    rd, wr, \* rd[b], wr[b]: the processes with a read or write lock on region b
    pc,     \* where each process is
    call,   \* the call each process is making
    h,      \* each process's DB structure and local variables
    left    \* calls each process may still make

files == <<hdr, idx, dat>>
locks == <<rd, wr>>
vars  == <<files, locks, pc, call, h, left>>

NoCall == [op |-> "none", key |-> Blank, val |-> Blank]

\* The calls of db_fetch, db_delete, db_store, db_rewind and db_nextrec.
Requests ==
    {r \in [op : AllOps, key : Keys \cup {Blank}, val : Vals \cup {Blank}] :
        /\ r.key = Blank <=> r.op \in {"rewind", "nextrec"}
        /\ IF r.op \in Stores THEN r.val \in Data[r.key] ELSE r.val = Blank}

\* A handle: fields of DB, and the locals of its caller.  off is the offset
\* a walk reads next and ptroff the pointer field that led there; pos is the
\* position of idxfd between calls, 0 when not at the start of a record; head is the chain's
\* first record, as db_store read it; rc is the result.
NewHandle == [off |-> 0, ptroff |-> 0, ptrval |-> 0, idxoff |-> 0, datoff |-> 0,
              datlen |-> 0, key |-> Blank, pos |-> FirstRec, head |-> 0, rc |-> <<>>]

-----------------------------------------------------------------------------
(* File contents. *)

RecAt(o) == idx[o - NHash]
IdxEnd   == FirstRec + Len(idx)
DatEnd   == 1 + Len(dat)

ReadPtr(o) == IF o \in Header THEN hdr[o] ELSE RecAt(o).ptr

WritePtr(o, v) ==
    /\ hdr' = IF o \in Header THEN [hdr EXCEPT ![o] = v] ELSE hdr
    /\ idx' = IF o \in Header THEN idx ELSE [idx EXCEPT ![o - NHash].ptr = v]
    /\ UNCHANGED dat

\* A write at the end of a file extends it; anywhere else it overwrites.
Put(file, i, x) == IF i = Len(file) + 1 THEN Append(file, x) ELSE [file EXCEPT ![i] = x]

\* _db_writedat and _db_writeidx write what the handle f says, at its offsets.
WriteDat(f, v) ==
    /\ dat' = Put(dat, f.datoff, [val |-> v, len |-> f.datlen])
    /\ UNCHANGED <<hdr, idx>>

WriteIdx(f, k, len, ptr) ==
    /\ idx' = Put(idx, f.idxoff - NHash,
                  [key |-> k, klen |-> len, datoff |-> f.datoff, datlen |-> f.datlen, ptr |-> ptr])
    /\ UNCHANGED <<hdr, dat>>

\* The handle after _db_readidx at offset o.
Loaded(f, o) ==
    [f EXCEPT !.idxoff = o, !.pos = o + 1, !.ptrval = RecAt(o).ptr, !.key = RecAt(o).key,
              !.datoff = RecAt(o).datoff, !.datlen = RecAt(o).datlen]

-----------------------------------------------------------------------------
(* Record locks: fcntl grants one when no other process holds a conflicting *)
(* lock, and exit drops every lock of the process.                          *)

CanRead(p, b)  == wr[b] \subseteq {p}
CanWrite(p, b) == wr[b] \cup rd[b] \subseteq {p}

ReadLock(p, b)  == CanRead(p, b)  /\ rd' = [rd EXCEPT ![b] = @ \cup {p}] /\ UNCHANGED wr
WriteLock(p, b) == CanWrite(p, b) /\ wr' = [wr EXCEPT ![b] = @ \cup {p}] /\ UNCHANGED rd

Unlock(p, B) ==
    /\ rd' = [b \in Regions |-> IF b \in B THEN rd[b] \ {p} ELSE rd[b]]
    /\ wr' = [b \in Regions |-> IF b \in B THEN wr[b] \ {p} ELSE wr[b]]

-----------------------------------------------------------------------------
(* Control. *)

Chain(p)        == Hash[call[p].key]
At(p, l)        == pc[p] = l
Goto(p, l)      == pc' = [pc EXCEPT ![p] = l]
SetHandle(p, f) == h' = [h EXCEPT ![p] = f]
SameCall        == UNCHANGED <<call, left>>

\* The end of a call: its result x, where it leaves idxfd, and the regions it
\* unlocks.
Return(p, x, pos, B) ==
    /\ Goto(p, "idle")
    /\ h' = [h EXCEPT ![p] = [NewHandle EXCEPT !.pos = pos, !.rc = x]]
    /\ call' = [call EXCEPT ![p] = NoCall]
    /\ UNCHANGED left
    /\ Unlock(p, B)

\* err_dump and err_quit end the process.
Exit(p) ==
    /\ Goto(p, "exited")
    /\ Unlock(p, Regions)
    /\ UNCHANGED <<files, h, call, left>>

-----------------------------------------------------------------------------
(* Finding a record: _db_find_and_lock, then what its callers do. *)

Begin(p) ==
    /\ At(p, "idle") /\ left[p] > 0
    /\ \E r \in Requests :
          /\ r.op \in Ops[p]
          /\ call' = [call EXCEPT ![p] = r]
          /\ Goto(p, r.op)
    /\ left' = [left EXCEPT ![p] = @ - 1]
    /\ SetHandle(p, [h[p] EXCEPT !.rc = <<>>])
    /\ UNCHANGED <<files, locks>>

MutReadLockOnly(p) ==
    /\ pc[p] \in Writes \cup {"fetch"}
    /\ ReadLock(p, Chain(p))
    /\ SetHandle(p, [h[p] EXCEPT !.ptroff = Chain(p), !.off = ReadPtr(Chain(p)), !.pos = 0])
    /\ Goto(p, "walk")
    /\ UNCHANGED files /\ SameCall

LockChain(p) ==
    /\ pc[p] \in Writes \cup {"fetch"}
    /\ IF At(p, "fetch") THEN ReadLock(p, Chain(p)) ELSE WriteLock(p, Chain(p))
    /\ SetHandle(p, [h[p] EXCEPT !.ptroff = Chain(p), !.off = ReadPtr(Chain(p)), !.pos = 0])
    /\ Goto(p, "walk")
    /\ UNCHANGED files /\ SameCall

Matches(p) == h[p].off # 0 /\ RecAt(h[p].off).key = call[p].key

MutOffsetNotMoved(p) ==
    /\ At(p, "walk") /\ h[p].off # 0 /\ ~Matches(p)
    /\ SetHandle(p, [Loaded(h[p], h[p].off) EXCEPT !.ptroff = h[p].off])
    /\ UNCHANGED <<files, locks, pc>> /\ SameCall

WalkOn(p) ==
    /\ At(p, "walk") /\ h[p].off # 0 /\ ~Matches(p)
    /\ LET f == Loaded(h[p], h[p].off)
       IN  SetHandle(p, [f EXCEPT !.ptroff = f.off, !.off = f.ptrval])
    /\ UNCHANGED <<files, locks, pc>> /\ SameCall

Found(p) ==
    /\ At(p, "walk") /\ Matches(p) /\ call[p].op # "insert"
    /\ LET f == Loaded(h[p], h[p].off)
       IN  /\ SetHandle(p, f)
           /\ Goto(p, CASE call[p].op = "fetch" -> "readdat"
                        [] call[p].op \in Stores /\ DatLen[call[p].val] = f.datlen -> "overwrite"
                        [] OTHER -> "deldat")
    /\ UNCHANGED <<files, locks>> /\ SameCall

FoundInsert(p) ==
    /\ At(p, "walk") /\ Matches(p) /\ call[p].op = "insert"
    /\ Return(p, <<1>>, h[p].off + 1, {Chain(p)})
    /\ UNCHANGED files

NotFound(p) ==
    /\ At(p, "walk") /\ h[p].off = 0 /\ call[p].op \in {"fetch", "delete", "replace"}
    /\ Return(p, IF call[p].op = "fetch" THEN <<Blank>> ELSE <<-1>>, h[p].pos, {Chain(p)})
    /\ UNCHANGED files

MutFindFreeUnlocked(p) ==
    /\ At(p, "walk") /\ h[p].off = 0 /\ call[p].op \in {"insert", "store"}
    /\ SetHandle(p, [h[p] EXCEPT !.head = ReadPtr(Chain(p)), !.ptroff = FREE_OFF,
                                 !.off = ReadPtr(FREE_OFF)])
    /\ Goto(p, "freewalk")
    /\ UNCHANGED <<files, locks>> /\ SameCall

\* db_store of a new key reads the head of its chain; _db_findfree locks the
\* free list and starts a walk of it.
StartFree(p) ==
    /\ At(p, "walk") /\ h[p].off = 0 /\ call[p].op \in {"insert", "store"}
    /\ WriteLock(p, FREE_OFF)
    /\ SetHandle(p, [h[p] EXCEPT !.head = ReadPtr(Chain(p)), !.ptroff = FREE_OFF,
                                 !.off = ReadPtr(FREE_OFF)])
    /\ Goto(p, "freewalk")
    /\ UNCHANGED files /\ SameCall

ReadDat(p) ==
    /\ At(p, "readdat")
    /\ Return(p, <<dat[h[p].datoff].val>>, h[p].pos, {Chain(p)})
    /\ UNCHANGED files

-----------------------------------------------------------------------------
(* _db_dodelete: the write of the data starts it, under the free list's lock. *)

MutDeleteUnlocked(p) ==
    /\ At(p, "deldat")
    /\ WriteDat(h[p], Blank)
    /\ Goto(p, "delidx")
    /\ UNCHANGED <<locks, h>> /\ SameCall

DelDat(p) ==
    /\ At(p, "deldat")
    /\ WriteLock(p, FREE_OFF)
    /\ WriteDat(h[p], Blank)
    /\ Goto(p, "delidx")
    /\ UNCHANGED h /\ SameCall

MutKeyNotBlanked(p) ==
    /\ At(p, "delidx")
    /\ WriteIdx(h[p], call[p].key, KeyLen[call[p].key], ReadPtr(FREE_OFF))
    /\ Goto(p, "delfree")
    /\ UNCHANGED <<locks, h>> /\ SameCall

\* The record's pointer field now points into the free list; h[p].ptrval
\* still has its successor on the chain (saveptr).
DelIdx(p) ==
    /\ At(p, "delidx")
    /\ WriteIdx(h[p], Blank, KeyLen[call[p].key], ReadPtr(FREE_OFF))
    /\ Goto(p, "delfree")
    /\ UNCHANGED <<locks, h>> /\ SameCall

DelFree(p) ==
    /\ At(p, "delfree")
    /\ WritePtr(FREE_OFF, h[p].idxoff)
    /\ Goto(p, "delunlink")
    /\ UNCHANGED <<locks, h>> /\ SameCall

DelUnlink(p) ==
    /\ At(p, "delunlink")
    /\ WritePtr(h[p].ptroff, h[p].ptrval)
    /\ IF call[p].op = "delete"
       THEN Return(p, <<0>>, 0, {FREE_OFF, Chain(p)})
       ELSE Unlock(p, {FREE_OFF}) /\ Goto(p, "reread") /\ UNCHANGED h /\ SameCall

MutHeadNotReread(p) ==
    /\ At(p, "reread")
    /\ Goto(p, "locknewdat")
    /\ UNCHANGED <<files, locks, h>> /\ SameCall

\* db_store rereads the head of the chain after deleting the old record.
Reread(p) ==
    /\ At(p, "reread")
    /\ SetHandle(p, [h[p] EXCEPT !.head = ReadPtr(Chain(p))])
    /\ Goto(p, "locknewdat")
    /\ UNCHANGED <<files, locks>> /\ SameCall

-----------------------------------------------------------------------------
(* The rest of db_store. *)

Overwrite(p) ==
    /\ At(p, "overwrite")
    /\ WriteDat(h[p], call[p].val)
    /\ Return(p, <<0>>, h[p].pos, {Chain(p)})

\* _db_findfree compares the sizes of a free record with those it wants.
Fits(p) ==
    /\ h[p].off # 0
    /\ RecAt(h[p].off).klen = KeyLen[call[p].key]
    /\ RecAt(h[p].off).datlen = DatLen[call[p].val]

FreeWalkOn(p) ==
    /\ At(p, "freewalk") /\ h[p].off # 0 /\ ~Fits(p)
    /\ LET f == Loaded(h[p], h[p].off)
       IN  SetHandle(p, [f EXCEPT !.ptroff = f.off, !.off = f.ptrval])
    /\ UNCHANGED <<files, locks, pc>> /\ SameCall

FreeFound(p) ==
    /\ At(p, "freewalk") /\ Fits(p)
    /\ SetHandle(p, Loaded(h[p], h[p].off))
    /\ Goto(p, "freetake")
    /\ UNCHANGED <<files, locks>> /\ SameCall

FreeTake(p) ==
    /\ At(p, "freetake")
    /\ WritePtr(h[p].ptroff, h[p].ptrval)
    /\ Unlock(p, {FREE_OFF})
    /\ Goto(p, "reusedat")
    /\ UNCHANGED h /\ SameCall

NoneFree(p) ==
    /\ At(p, "freewalk") /\ h[p].off = 0
    /\ Unlock(p, {FREE_OFF})
    /\ Goto(p, "locknewdat")
    /\ UNCHANGED <<files, h>> /\ SameCall

ReuseDat(p) ==
    /\ At(p, "reusedat")
    /\ WriteDat(h[p], call[p].val)
    /\ Goto(p, "reuseidx")
    /\ UNCHANGED <<locks, h>> /\ SameCall

ReuseIdx(p) ==
    /\ At(p, "reuseidx")
    /\ WriteIdx(h[p], call[p].key, KeyLen[call[p].key], h[p].head)
    /\ Goto(p, "link")
    /\ UNCHANGED <<locks, h>> /\ SameCall

\* To append is to lock, to find the end of the file, and to write there.
LockNewDat(p) ==
    /\ At(p, "locknewdat")
    /\ WriteLock(p, DatFile)
    /\ SetHandle(p, [h[p] EXCEPT !.datoff = DatEnd, !.datlen = DatLen[call[p].val]])
    /\ Goto(p, "newdat")
    /\ UNCHANGED files /\ SameCall

NewDat(p) ==
    /\ At(p, "newdat")
    /\ WriteDat(h[p], call[p].val)
    /\ Unlock(p, {DatFile})
    /\ Goto(p, "locknewidx")
    /\ UNCHANGED h /\ SameCall

MutAppendIdxUnlocked(p) ==
    /\ At(p, "locknewidx")
    /\ SetHandle(p, [h[p] EXCEPT !.idxoff = IdxEnd])
    /\ Goto(p, "newidx")
    /\ UNCHANGED <<files, locks>> /\ SameCall

LockNewIdx(p) ==
    /\ At(p, "locknewidx")
    /\ WriteLock(p, IdxTail)
    /\ SetHandle(p, [h[p] EXCEPT !.idxoff = IdxEnd])
    /\ Goto(p, "newidx")
    /\ UNCHANGED files /\ SameCall

NewIdx(p) ==
    /\ At(p, "newidx")
    /\ WriteIdx(h[p], call[p].key, KeyLen[call[p].key], h[p].head)
    /\ Unlock(p, {IdxTail})
    /\ Goto(p, "link")
    /\ UNCHANGED h /\ SameCall

\* Reused or appended, the record goes to the front of its chain.
Link(p) ==
    /\ At(p, "link") /\ h[p].idxoff <= PtrMax
    /\ WritePtr(Chain(p), h[p].idxoff)
    /\ Return(p, <<0>>, 0, {Chain(p)})

LinkInvalid(p) ==
    /\ At(p, "link") /\ h[p].idxoff > PtrMax
    /\ Exit(p)

-----------------------------------------------------------------------------
(* db_rewind and db_nextrec. *)

Rewind(p) ==
    /\ At(p, "rewind")
    /\ Goto(p, "idle")
    /\ SetHandle(p, [h[p] EXCEPT !.pos = FirstRec])
    /\ call' = [call EXCEPT ![p] = NoCall]
    /\ UNCHANGED <<files, locks, left>>

MutScanUnlocked(p) ==
    /\ At(p, "nextrec")
    /\ Goto(p, "scan")
    /\ UNCHANGED <<files, locks, h>> /\ SameCall

NextRec(p) ==
    /\ At(p, "nextrec")
    /\ ReadLock(p, FREE_OFF)
    /\ Goto(p, "scan")
    /\ UNCHANGED <<files, h>> /\ SameCall

ScanEnd(p) ==
    /\ At(p, "scan") /\ h[p].pos = IdxEnd
    /\ Return(p, <<Blank>>, h[p].pos, {FREE_OFF})
    /\ UNCHANGED files

ScanOn(p) ==
    /\ At(p, "scan") /\ h[p].pos \notin {0, IdxEnd}
    /\ SetHandle(p, Loaded(h[p], h[p].pos))
    /\ IF RecAt(h[p].pos).key = Blank THEN UNCHANGED pc ELSE Goto(p, "scandat")
    /\ UNCHANGED <<files, locks>> /\ SameCall

ScanDat(p) ==
    /\ At(p, "scandat")
    /\ Return(p, <<h[p].key, dat[h[p].datoff].val>>, h[p].pos, {FREE_OFF})
    /\ UNCHANGED files

\* What follows a pointer field does not read as a record: err_dump.
ScanLost(p) ==
    /\ At(p, "scan") /\ h[p].pos = 0
    /\ Exit(p)

-----------------------------------------------------------------------------
Find(p)   == LockChain(p) \/ WalkOn(p) \/ Found(p) \/ FoundInsert(p) \/ NotFound(p) \/ ReadDat(p)
Delete(p) == DelDat(p) \/ DelIdx(p) \/ DelFree(p) \/ DelUnlink(p)
FindFree(p) == StartFree(p) \/ FreeWalkOn(p) \/ FreeFound(p) \/ FreeTake(p) \/ NoneFree(p)
Store(p)  == \/ Reread(p) \/ Overwrite(p) \/ ReuseDat(p) \/ ReuseIdx(p) \/ LockNewDat(p)
             \/ NewDat(p) \/ LockNewIdx(p) \/ NewIdx(p) \/ Link(p) \/ LinkInvalid(p)
Scan(p)   == Rewind(p) \/ NextRec(p) \/ ScanEnd(p) \/ ScanOn(p) \/ ScanDat(p) \/ ScanLost(p)

Step(p) == Find(p) \/ Delete(p) \/ FindFree(p) \/ Store(p) \/ Scan(p)

Done == \A p \in Procs : At(p, "exited") \/ (At(p, "idle") /\ left[p] = 0)

\* The records of Preload, stored in that order and some of them deleted then,
\* each record at the front of its list.
ListOf(i)    == IF Preload[i].deleted THEN FREE_OFF ELSE Hash[Preload[i].key]
LastRec(S)   == LET last == {i \in S : \A j \in S : j <= i}
                IN  IF last = {} THEN 0 ELSE NHash + (CHOOSE i \in last : TRUE)

Init ==
    /\ hdr = [c \in Header |-> LastRec({j \in DOMAIN Preload : ListOf(j) = c})]
    /\ idx = [i \in DOMAIN Preload |->
                [key |-> IF Preload[i].deleted THEN Blank ELSE Preload[i].key,
                 klen |-> KeyLen[Preload[i].key], datoff |-> i,
                 datlen |-> DatLen[Preload[i].val],
                 ptr |-> LastRec({j \in 1 .. i - 1 : ListOf(j) = ListOf(i)})]]
    /\ dat = [i \in DOMAIN Preload |->
                [val |-> IF Preload[i].deleted THEN Blank ELSE Preload[i].val,
                 len |-> DatLen[Preload[i].val]]]
    /\ rd = [b \in Regions |-> {}]
    /\ wr = [b \in Regions |-> {}]
    /\ pc = [p \in Procs |-> "idle"]
    /\ call = [p \in Procs |-> NoCall]
    /\ h = [p \in Procs |-> NewHandle]
    /\ left = MaxCalls

Next == (\E p \in Procs : Begin(p) \/ Step(p)) \/ (Done /\ UNCHANGED vars)

\* A call, once made, goes on.
Fairness == \A p \in Procs : WF_vars(Step(p))

Spec == Init /\ [][Next]_vars /\ Fairness

-----------------------------------------------------------------------------
(* Properties. *)

Records    == FirstRec .. (IdxEnd - 1)
InFree     == {"freewalk", "freetake", "delidx", "delfree", "delunlink"}
InScan     == {"scan", "scandat"}
InChain    == InFree \cup {"walk", "readdat", "deldat", "overwrite", "reread", "locknewdat", "newdat",
                           "locknewidx", "newidx", "reusedat", "reuseidx", "link"}
HasIdx     == {"deldat", "delidx", "delfree", "delunlink", "freetake", "reusedat", "reuseidx", "link"}
HasDat     == (HasIdx \ {"link"}) \cup {"readdat", "overwrite", "scandat", "locknewidx", "newidx"}
AllLabels  == InChain \cup InScan \cup AllOps \cup {"idle", "exited"}

Ptrs == {0} \cup Records

IdxRecord == [key : Keys \cup {Blank}, klen : Nat, datoff : Nat, datlen : Nat, ptr : Nat]
DatRecord == [val : Vals \cup {Blank}, len : Nat]

FilesOK ==
    /\ hdr \in [Header -> Ptrs]
    /\ idx \in Seq(IdxRecord)
    /\ dat \in Seq(DatRecord)
    /\ \A i \in DOMAIN idx : idx[i].ptr \in Ptrs /\ idx[i].datoff \in DOMAIN dat

Handles ==
    [off : Ptrs, ptroff : Header \cup Records, ptrval : Ptrs, idxoff : Nat, datoff : Nat,
     datlen : Nat, key : Keys \cup {Blank}, head : Ptrs, pos : {0} \cup (FirstRec .. IdxEnd),
     rc : Seq(Vals \cup Keys \cup {Blank, -1, 0, 1})]

HandleOK(p) ==
    /\ h[p] \in Handles
    /\ At(p, "newdat") => h[p].datoff = DatEnd
    /\ pc[p] \in HasDat => h[p].datoff \in DOMAIN dat
    /\ At(p, "newidx") => h[p].idxoff = IdxEnd
    /\ pc[p] \in HasIdx => h[p].idxoff \in Records

\* Types of the variables, and the ranges of all offsets: a pointer field has
\* 0 or the offset of a record, a process that is about to append has the end
\* of the file, and no other write is outside the file.
TypeOK ==
    /\ FilesOK
    /\ rd \in [Regions -> SUBSET Procs]
    /\ wr \in [Regions -> SUBSET Procs]
    /\ pc \in [Procs -> AllLabels]
    /\ call \in [Procs -> Requests \cup {NoCall}]
    /\ left \in [Procs -> Nat]
    /\ DOMAIN h = Procs /\ \A p \in Procs : HandleOK(p)

\* While a process works on a chain to change it, no other process is on that
\* chain, to change it or to fetch from it (_db_find_and_lock "returns with
\* the hash chain locked" until its caller unlocks it).
ChainExclusive ==
    \A p, q \in Procs :
        /\ p # q
        /\ pc[p] \in InChain /\ call[p].op \in Writes
        /\ pc[q] \in InChain
        => Chain(p) # Chain(q)

\* A process in the middle of changing the free list is there alone: no other
\* changes it, and no db_nextrec reads a record in the middle of its deletion.
FreeExclusive ==
    \A p, q \in Procs : pc[p] \in InFree /\ pc[q] \in InFree \cup InScan => p = q

\* Between finding the end of a file and writing there, a process is alone:
\* "lseek and write" are "an atomic operation".
AppendExclusive ==
    \A p, q \in Procs :
        \A l \in {"newdat", "newidx"} : At(p, l) /\ At(q, l) => p = q

\* The list from pointer field c: its n-th element, 0 once it has ended.
Nth(c) ==
    LET nth[n \in 0 .. Len(idx)] == IF n = 0 THEN hdr[c]
                                    ELSE IF nth[n - 1] = 0 THEN 0 ELSE RecAt(nth[n - 1]).ptr
    IN  nth

OnList(c) == {Nth(c)[n] : n \in 0 .. Len(idx)} \ {0}

\* Records out of every list: being reused or not linked yet, or left behind by
\* LinkInvalid.
InHand(o) ==
    \/ o > PtrMax
    \/ \E p \in Procs : pc[p] \in {"reusedat", "reuseidx", "link"} /\ h[p].idxoff = o

Members(c) ==
    {o \in Records : ~InHand(o) /\ IF RecAt(o).key = Blank THEN c = FREE_OFF
                                   ELSE c = Hash[RecAt(o).key]}

\* Whenever nobody is changing it, a list ends and holds exactly its records:
\* a chain those of its keys, the free list the deleted ones.  No record is
\* lost, none is on two lists, and no list is a loop.
ListsSound ==
    \A c \in Header : wr[c] = {} => Nth(c)[Len(idx)] = 0 /\ OnList(c) = Members(c)

\* At no time are there two records with the same key on the chains, although
\* db_store looks for the key and adds it in many steps.
KeysUnique ==
    \A o, q \in Records :
        RecAt(o).key = RecAt(q).key /\ RecAt(o).key # Blank /\ ~InHand(o) /\ ~InHand(q) => o = q

\* No two index records share a data record, and the data record of a key has
\* data that was stored under that key, in the length the index says, except
\* while the process that deletes the record is between its two writes.
DataOwned ==
    /\ \A i, j \in DOMAIN idx : idx[i].datoff = idx[j].datoff => i = j
    /\ \A o \in Records :
          LET d == dat[RecAt(o).datoff]
          IN  /\ d.len = RecAt(o).datlen
              /\ RecAt(o).key # Blank =>
                    \/ d.val \in Data[RecAt(o).key] /\ DatLen[d.val] = d.len
                    \/ \E p \in Procs : At(p, "delidx") /\ h[p].idxoff = o

\* The files are sound: lists, keys and data, at every moment of every call.
FilesSound == ListsSound /\ KeysUnique /\ DataOwned

\* What db_nextrec returns is a key with data stored under that key, whatever
\* is deleted, replaced or reused around it.
ScanSound ==
    \A p \in Procs : Len(h[p].rc) = 2 => h[p].rc[1] \in Keys /\ h[p].rc[2] \in Data[h[p].rc[1]]

\* Every call ends: no lost lock, no deadlock between the locks of a chain,
\* the free list and the files' ends, no endless walk of a list.
EveryCallEnds == \A p \in Procs : (call[p] # NoCall) ~> (pc[p] \in {"idle", "exited"})

=============================================================================
