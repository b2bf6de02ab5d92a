# APUE_Course in TLA+

The repository holds the sources of *Advanced Programming in the UNIX
Environment* (`src/apue.2e`), a library, four larger programs and some two
hundred small ones, and five course experiments written on top of them
(`src/Exp_1` to `src/Exp_5`). This directory is a verification development
beside that code: TLA+ modules translated from it, TLC configurations that check
them on small instances, and proofs checked by TLAPS. `PROJECT.json` is its index: components, runs,
mutants (a plausible bug for every property, which the run must catch), the map from
definitions to source lines, findings, hazards and theorems.

## 1. Inventory

What matters here is what several processes, threads or signal handlers do to
shared files, locks and tables. The programs that only show one system call are
listed at the end and left aside.

| Component | State | Operations | What is hard | What makes it correct |
|---|---|---|---|---|
| **Hash database** `db/db.c` | index file (free list, hash chains, records), data file, per-process handle and file position, record locks | `db_open`, `db_close`, `db_fetch`, `db_store`, `db_delete`, `db_rewind`, `db_nextrec` | every call is many file operations under record locks of three kinds (chain, free list, file end); scans take no chain lock; pointer fields are finite; a crash drops the locks and keeps the half-done writes | lists are never corrupted, calls are atomic on a map, no key twice, scans miss nothing, every call ends |
| **Print spooler** `ipp/printd.c`, `print.c`, `util.c` | spool directory (data and control files, job ID file), job queue, worker list, flag `reread` | accept, receive and spool a job, queue it, print, defer, rebuild the queue at start, SIGHUP, SIGTERM | client threads against the printer thread; stop and restart between any two writes; printer failures and lost answers; timeouts as end of file | an accepted job is kept, held once, printed in turn and in the end; a refused one is not printed |
| **Dining philosophers** `Exp_4` | lock files, one per fork | `initlock`, `lock`, `unlock`, the loop of a philosopher | polling, killed processes, files left by earlier runs | no fork in two hands, no deadlock, (no starvation) |
| **Shell with signals** `Exp_5/myshell.c` | pid of the child, alarm, jump buffer | read, alarm, fork, exec, wait; SIGQUIT, SIGALRM | handlers between any two statements, in parent and child | the right process is killed, the shell survives |
| **calld / call** | clients table, device locks, dialing children; call's escape and file transfer | requests, dialing in a child, `sig_chld`, close | `SIGCHLD` between any two statements, a client that goes while its child dials | a device has one user, every child is collected, clients get their own answer |
| **opend / open** (daemon and fork/exec forms) | client table, poll array, stream pipes | connect, request, pass a descriptor, hang up | entries freed and reused while the loop walks over them, requests longer than a read | each client gets its own descriptors |
| **Semaphores** `lib/semaph.c` | one System V set of three: value, process count, lock | `sem_create`, `sem_open`, `sem_close`, `sem_rm`, `sem_op` | creation racing removal, undo at exit | the last user removes it, nobody uses a removed or half-made one |
| **tellwait, popen, system, sleep** (`lib`, `ipc`, `signals`) | pipes or signal flags, child table, masks | `TELL_*`/`WAIT_*`, `popen`/`pclose`, `system`, `sleep` | signals before the wait, other children's status | no lost wakeup, right exit status |
| **Threads** `threads`, `threadctl` | reference-counted hash table, job queue under a rwlock, message queue under a condition, timers, fork handlers | hold/release, append/remove, enqueue/process | lock order, recheck after relock, cancel, fork with locks held | no use after free, no lost or doubled job, no deadlock |
| **Daemons** `daemons`, `lib/daemonize.c` | lock file, configuration | start once, reread on SIGHUP | two starts at once, signal and thread | one daemon |
| **Record-lock examples** `lock`, `advio/pendlock.c` | byte locks | lock, wait, unlock | deadlock detection, starved writer | one of two deadlocked waiters gets an error |
| **pty**, **ipc** coprocesses, **sockets** ruptime | two copying processes, pipes, connections | copy loops, request and answer | termination of both halves, buffering deadlock | all data is copied, both ends stop |
| **Directory walk** `Exp_2/myfind.c`, `file/ftw4.c`; **argv split** `Exp_3/myshell.c` | path buffer, counters; token array | recursion over a tree; splitting | pure algorithms with boundaries | each file visited once, argv well formed |
| Library helpers, `Exp_1` timing, `std`, `file`, `mycat`, `stdio`, `datafiles`, `environ`, `termios`, `streams`, `sess`, `exercises`, parts of `proc` and `advio` | none of their own | straight-line calls | nothing concurrent | not modelled: pure I/O or generated |

Interactions: all components use the wrappers in `lib` (`lock_reg` for record
locks, `err_*` to print and exit). The database, the spooler's job ID file, the
daemons' and the record-lock examples meet only in the kernel's record locks: granted
when no *other process* holds a conflicting lock, dropped when a process exits.
The spooler's threads call each other through the queue and its condition variable;
its client and the printer through sockets; its past and future selves through the spool.

## 2. Modules

| Module | Models | Composed from |
|---|---|---|
| `HashDb` | `db.c`, one step per file operation, for any number of processes | |
| `KVStore` | what the database promises: one map, calls that act at one moment | |
| `HashDbKV` | refinement mapping of `HashDb` to `KVStore` | `HashDb`, `KVStore` |
| `DbScan` | history of a scan (`db_rewind`, then `db_nextrec` to the end) beside writers | `HashDbKV` |
| `HashDb_proof` | theorems about the three | `HashDb`, `HashDbKV`, `DbScan` |
| `Printd_proof`, `Calld_proof`, `Opend_proof` | theorems about the module of that name | that module |
| `Terminal_proof` | theorems about the four, and lemmas on sequences put together from pieces | `Myshell`, `CallLoop`, `Expect`, `DirWalk` |
| `Threads_proof` | theorems about the three | `Semaph`, `FooRef`, `JobQueue` |
| `NatSets` | lemmas: least element of a set of numbers, induction in the form of sets, linked lists | |
| `Printd` | `printd.c`: main, client threads, printer thread, spool, restarts | |
| `Philosopher`, `Philosopher_proof` | `Exp_4`, and a theorem about it | |
| `Conn` | connections and passed descriptors: `cli_conn`, `serv_accept`, `send_fd`, `send_err`, `recv_fd` | |
| `Calld` | `calld`: loop, requests, device locks, dialling children, `SIGCHLD`; `call` as its client | `Conn` |
| `Opend` | `opend` with `poll`, with `select`, and the private server of `opend.fe`; `open` as client | `Conn` |
| `Expect` | `calld`'s chat with the modem: `tty_dial`, `expect_str`, `send_str` | |
| `CallLoop` | `call` once it has its line: loop, escapes, `take`, `put`, `lib/ttymodes.c` | |
| `Pty` | `pty`: its two copiers, their signals, the driver, the program on the slave | |
| `Myshell` | `Exp_5`'s shell and its two signal handlers | |
| `DirWalk` | `Exp_2/myfind.c` and `file/ftw4.c` over a tree that changes | |
| `Popen` | `lib/popen.c` and `signals/system.c` | |
| `Semaph` | `lib/semaph.c` and the kernel's sets with undo | |
| `FooRef`, `JobQueue`, `CondWait` | `threads/mutex1.c` to `mutex3.c`; `threads/rwlock.c`; `threads/condvar.c` and `threadctl/suspend.c` | |
| `MCHashDb`, `MCDbScan`, `MCPrintd`, `MCCalld`, `MCOpend` | instances for TLC | |
| `MCThreads` | runs `FooRef`, `JobQueue`, `CondWait` and `Semaph`, one chosen at the start | |
| `MCTerminal` | runs `Expect`, `CallLoop`, `Pty`, `Myshell`, `DirWalk` and `Popen`, one chosen at the start | |

### HashDb

State: `hdr` (free list pointer and hash table), `idx` and `dat` (records of the
two files), `rd`/`wr` (lock owners of each region), and for each process where it is
(`pc`), its call, its `DB` structure with the locals of the caller (`h`), and
the calls left. Offsets are small integers: header fields `0..NHash`, then record numbers,
so that 0 is both the free list and the end of a list, as in the file. A record's key
and data are model values, `Blank` is a string of spaces; lengths are kept, because
`_db_findfree` and `db_store` compare them.

`pc` follows the call graph: `Begin`; `_db_find_and_lock` is `LockChain`,
`WalkOn`, `Found`/`FoundInsert`/`NotFound`; `_db_dodelete` is `DelDat`,
`DelIdx`, `DelFree`, `DelUnlink`; `_db_findfree` is `StartFree`, `FreeWalkOn`,
`FreeFound`, `FreeTake`, `NoneFree`; the rest of `db_store` is `Overwrite`, `ReuseDat`,
`ReuseIdx`, `Reread`, `LockNewDat`, `NewDat`, `LockNewIdx`, `NewIdx`, `Link`, `LinkInvalid`;
`db_nextrec` is `NextRec`, `ScanOn`, `ScanDat`, `ScanEnd`, `ScanLost`. A lock
is taken in the step that follows it and given up in the step before it: between
lock and operation nothing is visible to others. The `lseek` and the write of an append *are* two steps.
`pos` is the position of the index descriptor, 0 when it is not at the start of a record; a
`db_nextrec` from there ends in `err_dump` (a pointer field or the inside of a record does
not parse as a record).

`KVStore` lets a call act once between call and return. `HashDbKV` maps a delete to act
at `DelDat`, a store of a new key at `Link`, a store that moves the record at `DelDat`
(from then on `kvBar` has the new data, because nobody else can look before the
chain is unlocked), and every other call at its last step. `db_nextrec` is promised nothing there;
`DbScan` says what a whole scan promises.

### Printd

State: the spool (`data`, `req`: functions on the numbers of existing files; `jobno`),
the daemon's memory (`nextjob`, `queue`, `reread`), the main thread, the
printer thread with the job in its hand, one thread per client, the responses
(`told`), and a history of what was printed (`out`), acknowledged (`done`) and dropped
(`lost`). `Stop` ends all threads at any point: SIGTERM, a crash, or `log_sys`/`log_quit`
in any thread. `Start` is `init_request`; `build_qonstart` is `BuildQueue`, `BuildSignal`,
`BuildShort`, `BuildUnlink`, `BuildSkip`, `BuildEnd`, and runs beside the printer thread, as in the
code. `client_thread` is `ReadHeader` to `Signal`, with `RespondRefused` and `Undo` for its
error paths in their order; `printer_thread` is `CondWait` to `Wake`. Abstracted: the IPP and HTTP
text, user and job names, and the parsing in `printer_status`: it returns the one or the other, or never (`StatusSpins`);
also the worker list (its only use is to cancel threads that `exit` ends anyway). The record lock on
the job ID file is modelled by there being one daemon. Job numbers do not wrap.

### Philosopher

State: the lock files that exist, and for each run of the program in their directory where each of its
philosophers is, who is asleep in `lock()`, and the parent. `lock()` is `Lock` or `LockFails` then `Wake`: the retry after
`sleep(1)` is a new attempt at a moment of the scheduler's choice. `putFork`
is two steps. The first run may find any lock files. The environment kills single philosophers and parents,
interrupts a parent with its children (Ctrl-C), and runs the program again at any moment, be earlier ones
alive or not: a parent is gone as soon as one child has died, and the others go on without it. The history `beside` is set
when a run is started while a process of an earlier one lives, and cleared by a start when none does.

### Conn, Calld and Opend

A connection is two streams with what each side has not read; `backlog` is the
queue of `listen`. `Conn` gives the state of all connections after a call
(`SendFd(conn, c, x)`), so that the servers' actions compose them.

`Calld`: `spc` walks through `loop` (`Top`, `Select`, `Eintr`, `Accept`, `Ready`,
`ReadRequest`, `ReadEof`, `ScanNext`), through `child_done` (`Cd*`, entered before
`select` or after it was interrupted) and through the parent's half of
`request` (`SetLock`, `TellChild`: the child waits for its device's lock, as with
`TELL_WAIT`). `SigChld` runs between any two of them. A child is `TtyOpen`, `TtyDial`,
`SendLine`, `ExitOK`; it may fail with a message, fail without, be killed, or spin
(what `Expect` shows of a timeout). Entries of `client[]` keep their old pid
when they are freed, as in the code. The Systems, Devices and Dialers files
are sequences of records.

`Opend`: `watched` is what `poll` or `select` is asked about, `revents` what it
reported, and the two loops differ as in the code: the one accepts *and* walks, the other
accepts *or* walks. The `revents` of an entry that `poll` has never seen is
arbitrary (`malloc`). A request is one message, or two parts if it is longer than
`MAXLINE`; the error message about such a part is longer than `errmsg` (`Overflows`), after which the server goes on or is no more.

### Expect, CallLoop, Pty, Popen, Myshell

`Expect` reads one character a step; `exp_read` separates the test of
`caught_alrm` from the read, so that the alarm may come between them. A negative result of
`exp_read`, which returns `size_t`, is not noticed: `Spin` and `Overrun`. `send_str` calls itself for
the phone number, hence `frames`.

`CallLoop` keeps the bytes on the line both ways, `rem_read`'s buffer, the
state of `ttymodes.c` (`ttystate`, `ttysavefd`, `save_termios`) and the terminal itself. The
remote host echoes, runs `cat` and `echo`. `rem_read` gives out seven bits of each character (`High` says what
becomes of one with eight), and `take` ends at a zero as at a line that has dropped. `call` catches no signal: `CallKilled` ends it
between any two steps and runs no function of `atexit`. `tcsetattr` may refuse the raw mode and the user's (`ttybad`, `ttyfault`).

`Pty`: `Install` of the handler, `ReadMaster` and the delivery of `SIGTERM` are separate
steps. The exit handler `tty_atexit` runs in whichever process exits; a signal without a handler, SIGPIPE at the
write to a standard output that nobody reads included, runs none (`PtyKilled`).

`Popen`: a child has all ends of pipes that its parent had at the fork,
and the parent's table; `KeepsEnds` is what it still has when it executes the command.
A command behind a pipe must end only when nobody else has the other end. The
caller may have a `SIGCHLD` handler that waits for any child; `system` blocks it.

`Myshell`: a signal that is not blocked is handled before main's next step; a handler is
`KillChild`, `StopClock` (SIGQUIT only), `Discard`, `Longjmp`. A forked child before its
`exec` still has the shell's handlers (`twin`).

### DirWalk

`fullpath` is the shared buffer, `dirs` the activations of `doPath` with their `ptr`. Each
`lstat`, `opendir`, `readdir` and `open` is a step, and between them others
remove, replace and create files (`MaxChanges`). `left` is what an activation's `readdir` is still going to return. A
name that stays is returned once; what comes, goes or comes again while the directory is open is returned or not, and again
although it has been (`Change` chooses, for each activation that reads the directory). `opendir` and `open` fail when `OpenMax` streams
are open, which in a deep tree is the depth.

### Semaph, FooRef, JobQueue, CondWait

`Semaph`: one step is one system call; `adj` is what the kernel undoes when a process
exits, and a set that is removed has its waiters wake with an error. `FooRef`,
`JobQueue`, `CondWait`: what runs under one mutex is one step. Before `foo_rele` of
`mutex2.c` takes its locks again is a step boundary (`Relock`), and so is `Free`. `JobQueue` keeps the
pointers as they are in memory, stale ones included. `pthread_cond_wait` may return without reason.

## 3. Runs

| Run | Instance | Shows |
|---|---|---|
| `db_calls` | 2 processes, 2 calls of any kind each; keys a, b on one chain, c on another; a deleted record to reuse; pointer fields hold one append and not two | `TypeOK`, `ChainExclusive`, `FreeExclusive`, `AppendExclusive`, `FilesSound` (lists, keys, data records), `ScanSound`, the refinement `ImplementsKVStore`, and `EveryCallEnds` |
| `db_scan` | a scanner and a writer with 3 changes, 3 keys | `ScanComplete` |
| `phil` | 5 philosophers; 2 runs, started at any moment; at most 1 philosopher killed; parents killed or interrupted | `ForksExclusive`, `FilesAreForks`, `Progress` |
| `phil_starve` | violation, 3 philosophers | a philosopher starves |
| `printd` | 2 clients, 2 starts, stops anywhere, 1 printer failure | `AcceptedKept`, `QueueSound`, `PrintsAccepted`, `PrintedOnce`, `AllPrinted` |
| `printd_numbers` | violation | a job number is given twice after a restart, and the older job's data is overwritten |
| `calld` | 2 clients, one of which may be killed; 2 systems with 2 entries each, 2 devices | `LinesSafe`, `OwnAnswer`, `LinesFreed` |
| `opend` | 3 clients, one may be killed; the three servers; names good, missing, malformed, too long | `OwnFile`, `WatchesAll`, `EveryOpenEnds` |
| `threads` | 3 threads, 2 objects, 3 versions; 3 jobs; 2 workers, 3 messages; 3 processes with the semaphore, one may die | `RefsCounted`, `WalkSound`, `NoLostWakeup`, `SemSound`, `SemCallsEnd` |
| `semaph_open` | violation | `sem_open` is left with a set that is being removed |
| `terminal` | 5 chats with the modem; 2 keys and a take or put of files with 8-bit and zero characters; 8 kinds of `pty`; 3 commands and 3 quits; 10 walks of a tree of 7 files with 2 changes and 2 descriptors; 3 commands of `popen` and `system` | `ChatExact`, `TakeExact`, `TtyRestored`, `PtyEnds`, `AlarmIsOwn`, `WaitEnds`, `WalkExact`, `ChildrenAwaited` |
| `expect_timeout` | violation | `expect_str` does not end when its alarm has gone off |

Bounds. Two processes suffice to interleave any two calls on a chain, the free list or a
file end; two keys and two lengths give every path of `db_store` (insert, same length, other length,
reuse, append), and two calls each let one process delete, and reuse or append,
during the other's single walk. With `PtrMax = 6` the first append can be linked and the second cannot: that
process exits, and the other one goes on with what it left. In
`db_scan` the writer can delete a record before the scanner, reuse it
behind it, and append one ahead of it. For the spooler, two starts let a job be accepted by one daemon and printed, or printed
again, by the next; two clients show order and collision. A collision of job numbers
(the finding) voids a guarantee only for the clients concerned: the other
properties assume `OwnNumber(c)`. The philosophers are checked at the
program's own size. TLC does not go on from a state with `beside` (`CONSTRAINT NotBeside`): with two runs nothing clears it any more, and
the three properties promise nothing there, as they must not (section 6). In `calld` the two systems share the first device, so that one client finds it
locked and goes on to its next entry, with a device or without one. In
`opend` three clients make the table grow, have a hole and fill it; the client with two names can ask one that is
too long. Three threads let one take a reference while another is between its two looks and a
third frees; three processes let two race to make the set while the third closes it.
The tree is one level deeper than the descriptors reach from `/`, and not from a directory of the root; two changes take a
file away and bring it back while the walk is in its directory. The remote files have a character with an eighth bit and a zero.
The chats have strings whose beginning repeats, every escape and a phone number; five heard characters contain a failed
match and a good one. Three commands of `popen` let the second inherit the first's pipe
while a third is `system`'s.

`threads` and `terminal` check programs that do not interact: `program` is chosen in `Init` and never changes. They and
the two violations beside them say `CHECK_DEADLOCK FALSE`, because these programs end, or wait for a user who
may type no more.

Fairness. `HashDb`: `WF` of each process's steps, once in a call. `fcntl`
with `F_SETLKW` wakes a waiter when the lock is free; with bounded calls no waiter can be
passed for ever, so weak fairness is enough and nothing stronger is claimed. `Printd`: `WF` of
each thread; reads from a client time out (`tread`), failures of the printer are bounded by `MaxFails` (a
printer that refuses one job for ever holds up all others: `replace_job` puts it back at the
head), `StatusSpins` may catch the printer thread for good (`AllPrinted` ends with that), and nobody is obliged to start or stop the daemon. `Philosopher`: `WF` of each process, where a failed
`open` is a step: no promise that an attempt comes while the fork is free. That is
why `Progress` holds and `NoStarvation` does not. `Calld` and `Opend`: the server, the
children and a client in the middle of a call go on; a connected user need not hang up, a client between two names
need not ask again, and a child that spins need not end. `MCThreads`: threads and
processes in a call go on (`semop` wakes its waiters in some order; the uses are bounded). `MCTerminal`: the programs and
clocks run and signals are delivered; modem, user, standard input, the program on the slave and
the shell's command owe nothing, a command behind a pipe only its end when the pipe is closed, and one of
`system` its end.

## 4. Proofs

Every theorem holds for all values of the constants that satisfy the module's `ASSUME`: any
number of processes, keys, chains, philosophers, threads, clients, jobs, starts, failures, and
any configuration files and directory trees. Those assumptions, and why the code justifies them:

| Module | Assumption | Why |
|---|---|---|
| `HashDb` | a hash of every key, lengths are numbers | `_db_hash`, `strlen` |
| `Philosopher` | at least two, a run, bounds are numbers | the program's `N` is 5 |
| `Printd` | bounds are numbers | |
| `Calld` | finitely many clients; `Systems` and `Devices` are sequences of records; `Want` is a set of requests | text files with those fields |
| `Opend` | finitely many clients; a name is good, missing, malformed or too long, and only one of them | what `request` can find |
| `Semaph` | fewer processes than `BIGCOUNT`; a process creates or opens, not both; the initial value is not 0 | `BIGCOUNT` is 10000 (semaph.c:43), and the counter, counted down by each user, must not reach 0, which means uninitialised; creating or opening, and the value, are the caller's choice, and a semaphore of 0 would admit nobody |
| `FooRef` | `NoFoo` is no object | a null pointer |
| `JobQueue` | `NULL` is no job | a null pointer |
| `Myshell` | bounds are numbers, `Time` a Boolean | |
| `CallLoop` | files are sequences; the characters that the remote host itself sends (prompt, `cat`, ^A, ends of lines) have no eighth bit | ASCII |
| `DirWalk` | a descriptor is free at the start; places are finitely many, and what leads to one is one; what is there is a file or nothing; the program is started in a directory; a command line has a mode, a path to start from and for `-comp` a source path that ends in a name | a file system; `main`'s check of the arguments (myfind.c:34), and a source that ends in a slash is no regular file |
| `Expect` | strings are sequences of items, and those of a chat are not empty; there is one; no `\T` in the phone number | `strtok` (ttydial.c) returns no empty string; a phone number that asks for itself is written without end |

### The arguments

* `HashDb`: `LocksHeld`, `ChainsExcluded`, `FreeListExcluded`, `AppendsExcluded`. The
  invariant `LockInv` has three parts: where a process may be and what call it
  is making (`Types`), a write lock is the only lock on its region
  (`Exclusive`), and each process owns the locks its `pc` needs (`Owns`). The
  exclusions are not inductive: they follow from the locks. Lemmas say that
  a step of one process takes no lock from another and leaves its `pc` alone;
  `StepOwns` goes through the actions. `TypesCorrect` is `TypeOK`, with the ranges of all offsets. It needs `LockInv`: a process that has
  found the end of a file will write there one step later, and only the lock keeps
  the end where it was. Lemmas on `Put`, `WriteIdx`, `WritePtr`, `WriteDat` say that
  good writes leave good files; `HandleStays` carries another process's handle over a step.
  `FilesStaySound`, `ScansSound`. `FilesSound` speaks of a list only while nobody is changing it, so it is not
  inductive. `HashInv` adds, for each header field, a list as it is meant (`Lists`): the set of its
  records, the one each leads to, and ranks that go down along it. A record that is being
  deleted stays on the list of its chain until `DelUnlink`, and its successor there is
  `ptrval` of the process that deletes it (`saveptr` in `_db_dodelete`), since its own pointer
  already leads into the free list; it joins the free list at `DelFree`. `Knows` says what a process may rely on
  of the lists that it has locked, by its `pc`: the pointer field that leads to
  the record it has found, that the records it has passed have other keys, that the head it read is still
  the head when it links. `Hands` says that no two processes have one record in hand. The proof goes by what a step writes: nothing in the
  index file (`ReadsKeep`), data (`DataKeeps`), or one index record or pointer; for the last
  `Edited` and `WriterLists` reduce the step to one list with a record put in front (`AddFront`) or
  taken out (`TakeOut`), for which `NatSets` has the lemmas. `SoundLists` is the way back, from a list as it is meant
  to the walk `Nth`.
  `ImplementsMap` is the refinement of `KVStore`. `CallInv` adds to `HashInv` what the mapping depends on: which call a process can be in,
  and whether the key in its handle is that of the call, by its `pc` (`Reading`: this is how `Acted` tells a store that has deleted the old
  record from one of a new key, whose walk of the free list has left a blank there); that the data of a record is blank from the first write of
  `_db_dodelete`; and that a record about to be linked has the data of the call (`Written`). `KvIs` says what the map has: at most one process moves a key, because it
  has the chain locked, and at most one linked record has it (`KeysUnique`), so the mapping's choices are unique.
  `LinkedStep`, `ActedStep` say what a step does to records, data and movers, `KvChange` that it touches one key at
  most, its call's. Then there is one lemma for each kind of step: `Invoke` at `Begin`; `Act` where section 3 says; `Return`
  at the `Link` or the `DelUnlink` of a call that has acted; `Quit` at an exit; and `QuietStep` for the twenty actions that `KVStore` does not see.
  `ScansComplete` follows each scan (`Scanning`): of a key that nobody writes, what has been returned are
  the linked records that lie before the position, less the one just read (`Passed`). Its record is not touched by
  anyone (`UnwrittenStays`), and a record with such a key that the scan meets is linked (`UnwrittenLinked`): that needs `Overflown`, which
  accounts for the records appended beyond the reach of a pointer field, whose writers end in `err_quit` with their call unfinished.
* `Philosopher`: `ForksSafe`, `FilesTruthful`. For any number of runs that are started, killed and interrupted at any moment,
  until one is started beside a living process (`beside`). `IInv` adds to the two properties their types and `Arrivals`, which
  says how far each parent's loops have come, and `Alone`: without `beside` only the latest run has living processes: then a
  philosopher exists only if the forks are laid out, and `initlock` unlinks no held fork. Beside another run it does, so the condition is needed.
* `Printd`: `SpoolKeeps`, `PaperSound`, `QueueKept`, and `NeverTwice`, an action property. One invariant for
  all four, because none is inductive: what `AcceptedKept` says of a job on disk depends on who may unlink its
  files, and that is the printer thread with the job in its hand, `Undo` of a refused client, or
  `build_qonstart` over a data file with no request. `PrintInv` says of the whole
  system that every number kept anywhere is that of the client it names (`Numbered`), which threads exist in which phase of
  the main thread (`Stages`), and that turns increase along the queue (`Turns`); and of each client, by the place of its thread, what the spool has of its job
  (`Spooled`) and what memory and paper have of it (`Held`). The last two hold of clients whose number nobody else has:
  the finding of `printd_numbers` is the reason, and `OwnBefore` says that a number which is somebody's own
  after a step was so before.
* `Calld`: `DevicesExclusive`, `OwnAnswerHolds`. `CalldInv` follows each attempt to dial from `fork` to the
  answer: while it is under way its client waits, its entry is the one with its pid, and the line is locked for it
  (`Attempt`); an entry is its client's own, or has the old pid of a client that is gone (`Own`, `Entry`); each lock belongs to
  an entry of a connected client (`Locks`); what a client finds in its connection is one message, from a
  child of its own that has passed the line, or an error that nobody will follow (`Caller`). `Reported` is about `select`: what it has reported
  is still there when the walk reaches the entry, though entries change in between. The condition
  `NoneLeftDialing` is part of the two properties and needed, see section 6.
* `Opend`: `OwnFileHolds`, `WatchesAllHolds`. `Table` ties the connections to the entries, both ways, and the
  set that is watched to the table; `OneRequest` says what a connection can have in both directions while its client
  waits. That `client_add` finds an entry at all is a counting argument (`FreeEntry`): as many entries as
  clients, no two for one.
* `Semaph`: `SemaphoreSound`, `MembersCount`. `SemInv` says what the kernel's numbers mean: the lock is 1
  exactly when somebody is between `op_lock` and its release, `BIGCOUNT` less member [1] is the number of users, and what `SEM_UNDO` would
  take back is what the process has done (`LockHeld`, `Undo`, `Counting`); and what the holder of the lock may conclude
  from what it has read (`Knows`), `sem_open`'s count without the lock included. `Kept` carries the last conjunct of `SemSound`: a set
  that exists has somebody who will close it, or a process has died.
* `FooRef`: `CountsTruthful`. `RefsTo(o)` is the set of references, so that a count is a cardinality: a reference taken or
  given up is one element, and two threads with one each are two. `ObjectSound` says what a thread may rely on between
  its two locks: in `mutex2.c`'s `foo_rele` (`relock`) its own reference, before `free` that nobody has one.
* `JobQueue`: `QueueWalks`. `Linked` is the shape of the list; each action keeps it or sets `mark`. `Walk` is a recursive function:
  that it has its own equation is `WalkDefined`, and that it follows `order` for queues of any length is an induction over
  their positions.
* `Myshell`: `AlarmsOwn`, with `AlarmWhere`: the clock is off wherever a handler can jump to the prompt from.
  `CallLoop`: `TtyGivenBack`, with `TtyKnown`: `ttystate` tells the mode, and what is saved is the user's. It speaks of every exit
  of `call` by its own doing, with `tcsetattr` refusing either mode at any time (`ttyfault` says which refusal has not been made good); a signal is not such an exit.
* `CallLoop`: `TakeCopies`. `TakeKnown` divides what the remote host sends for a file: so many characters are done (`Copied`), and the
  rest is in `rem_read`'s buffer and on the line together (`Pending`), so that where a read cuts it does not matter. The copy is
  the file with seven bits of each character and without returns, if no character of it is, so stripped, a ^A or a zero. A newline is two
  characters on the line, hence the second disjunct of `Copied`; the sign of the end is met only when all is done.
* `Expect`: `ChatIsExact`. For `expect_str`, `ExpectKnown`: the string has not occurred in what was heard, and `inbuf` is what was heard since
  some point before which its first character did not come (`Skipped`), so it can miss no occurrence (`MissedWhileShort`) and report none too
  early. For `send_str`, `SendKnown`: what was written is the text of the items before the next one (`Said`), for a call
  inside a `\T` behind what its caller had written (`Inner`); a call that returns has completed its text (`CallReturns`).
  What a text of any length is built from is induction over data; `FlattenParts` does it with sets of positions.
* `DirWalk`: `WalksAreExact`: whatever happens to other files, and whether `readdir` returns them or not, again or not, each file that nobody changed and that
  is not deeper than there are descriptors is dealt with once, and the counts are those of what was counted. A recursion that has become a stack, over one buffer, while the tree changes. `BufKnown` and `StackKnown` say what the
  buffer is for each activation: the pathname of its directory (`Home`) ends at its `ptr`, so cutting there never takes away from the ones
  below it; the directories are nested; and no name of an unchanged file that is left to one of them leads to where the walk is. `Todo` is then
  what is still to be visited: below where the walk is, or below a name that is left to an activation. Of what nobody changes (`Steady`), a step takes nothing out of
  `Todo` but the place that `func` is called for (`TodoKept`, `TodoFunc`): `opendir` has all of it still before it, and a
  directory that is skipped, or for which no descriptor is free, has nothing steady below it. So what `func` has done is right for each steady place that is not in `Todo`, and
  nothing has been done in `Todo` (`PrintKnown`); for the counts there is a set of places that have been counted, and as what (`CountKnown`).
  `CanonKnown` and `SourceKnown` are about names: the walk's pathnames are the shortest ones, so that the comparison with the source file's
  pathname tells which file it is (`SourceMeets`), but for a file of the root directory.

`NatSets` proves, from the well-foundedness of <, that `Min` of a nonempty set of numbers is its least element (for the
first free entry and the first entry that suits) and induction over a *set* of numbers. The library's
own induction theorems have a predicate as parameter. It also has the theory of lists that `HashDb_proof` needs: a list with
ranks is still one with a record in front (`RankedInsert`) or without one of its records
(`RankedRemove`), and following it from the head visits all of it and ends within as many steps as the file has
records (`RankedWalk`, by induction and the pigeonhole principle).

### Model-checked only

* All liveness (`EveryCallEnds`, `Progress`, `AllPrinted`, `LinesFreed`, `EveryOpenEnds`, `NoLostWakeup`, `SemCallsEnd`, `PtyEnds`,
  `WaitEnds`, `ChildrenAwaited`): liveness under fairness and `ENABLED` are out of the prover's reach.

## 5. Plan

Done: the modules of section 2 and the proofs of section 4. Next, in this order:

1. `DbCrash`: a process killed between the writes of `_db_dodelete` and `db_store`, and what
   the survivors find; `DbOpen`: creation under `O_CREAT|O_TRUNC` beside users.
2. `Sleep` (the races of `sleep1`, `sleep2`), `Timeout`, `AtFork`, `AlreadyRunning`, `Reread`, `RecordLocks` with deadlock
   detection, `Coprocess`, `Ruptime`.
3. Pure algorithms: `ReadnWriten`, `ArgvSplit` (`Exp_3`), the parsing of `printer_status`, of which `Printd` has only the three outcomes.

Abstract specifications worth stating: a spooler as a bag of accepted jobs printed at
least once (`Printd` implements it as long as numbers are not reused); an object table with atomic
hold and release, which the three programs of `FooRef` implement as far as counts go.

## 6. Not modelled, and why

`PROJECT.json` lists every component with its status. Left out for good: programs that only
show one system call (most of `file`, `environ`, `termios`, `stdio`, `datafiles`, `mycat`,
`sess`, `exercises`), generated code (`std`), timing (`Exp_1`), the STREAMS variants of code modelled
elsewhere. Left out of the modelled components: failures of system calls on
the database files (`err_dump`), short reads and writes, the statistics counters, `db_t4`;
in the spooler the formats of requests and answers; in the dialler the grammar of its
files, and the end of `expect_str`'s `inbuf` (MAXLINE bytes filled without a check, expectstr.c:92), so that `Expect` tells the truth of chats that
stay below it; in the walks pathnames longer than the buffer (PATH_MAX); in `system` the keyboard's signals; and what a
write behind a buffer does other than end the program (`Overflows`: what it may leave in the server's other variables is not followed).

Facts about the code which the models contain without a run of their own:

* `db_store` beyond `PTR_MAX` does not return -1 (db.c:636) but exits, in a replacement after the
  old record is gone (`LinkInvalid`). `db_nextrec` continues at the file position, so after another
  call on the handle it ends the process (`ScanLost`).
* The philosophers eat with one fork when a run is started beside another: `initlock` (lock.c:10) unlinks whatever is there. It takes no
  second user: one philosopher that is killed makes `wait` return (philosopher.c:84), main exits, its other children go on as orphans, and
  the program seems to have ended. `ForksExclusive`, `FilesAreForks` and `Progress` except that.
* `printer_status` goes round for ever when the first read does not hold the end of the header: the loop of printd.c:954 stops at `nr - 2`
  and line 965 asks for more only at `nr`. The printer thread is lost, with no failure of the printer, until the daemon is restarted (`StatusSpins`).
* A client of the spooler that pauses for 20 seconds has the beginning of its file accepted (`SpoolData`); a job
  whose data file cannot be opened once is dropped until the next start (`OpenFails`).
* `calld` ends itself (client.c:83) when a child ends whose pid is in no entry any more, because its client has
  gone and the entry was used again, although main.c:38 says that `loop` never returns. Before that, the entry
  of a client that goes while its child dials is reused with the old pid, and the old child's end is then taken for the new client's:
  the server may dial for it by the old request, and release by the old pid a line that is in use. It takes four clients;
  `LinesSafe` and `OwnAnswer` speak of behaviours where nobody goes while its child dials (`NoneLeftDialing`; clients
  may go before and after). A child that is
  killed by a signal leaves its client waiting: the handler only logs it.
* `opend` answers a request longer than `MAXLINE` twice, so the client's next `csopen` gets an answer that is not its own, and writes
  the answer beyond its `errmsg` (opend/request.c:10, opend.fe/request.c:10; a name of almost that length that cannot be opened does the same at line 26); it dies of SIGPIPE when it answers a client that has gone.
* `foo_alloc` of `mutex2.c` (line 34) and `mutex3.c` (line 33) assigns `fh[idx] = fp->f_next`: the object is not in the
  table, `foo_find` never finds it, and the last `foo_rele` follows a null pointer (`segv`), so the second look of `foo_rele` in
  `mutex2.c` (line 76), made for a reference taken by `foo_find` in between, is never needed. `mutex3.c` moreover
  never unlocks the `f_lock` of a new object (line 34), which nobody else can reach.
* `job_remove` of the tail in `rwlock.c` leaves the `j_next` of the job before it: `WalkSound` speaks of
  queues where that has not happened (`mark`).
* A process asleep in `op_lock` when the set is removed gets `EIDRM` and ends, although the comment at semaph.c:115 only
  speaks of a set that is invalid.
* `myshell`: a child that gets SIGQUIT before its `exec` jumps to the prompt as a second shell; a signal
  between `fork` and the assignment of `pid` leaves the child unkilled and not waited for.
* `take` counts on silence: if output is under way it takes that line for the echo, and copies the echo; a ^A or a zero in the file
  ends the copy, and so does a character that is one of them without its eighth bit (`TakeExact` excludes these); the eighth bit is lost of all characters (take.c:95).
  A signal ends `call` with the terminal raw: there is no handler (`CallKilled`). `bol` of `call`'s loop is used uninitialised.
* `pty`: a SIGTERM before the handler is installed kills the parent, and it is the copier's exit that resets the
  terminal. The copier's own errors do not reach the parent, although the comment at loop.c:62 says so; an error
  of the parent leaves the copier behind. With its standard output a pipe that nobody reads any more the parent dies of SIGPIPE at loop.c:45: the terminal
  stays raw and the copier is not told (`PtyKilled`; `PtyEnds` excepts it).
* `myfind`: `getFilenamePos` returns 0 for a file of the root directory, so `-name` never finds one and
  `-comp /x` lists `x` itself; `-comp` compares with `strcmp` buffers that nothing ends, and its `strncpy` into
  `in_dir` (line 103) relies on the zeros of memory that `malloc` gives for the first time.
* `popen` leaves its pipe open when `fork` fails, and commands of `system` inherit the pipes of `popen`.
