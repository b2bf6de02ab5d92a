--------------------------------- MODULE Pty --------------------------------
(***************************************************************************)
(* The program pty: it runs a program on a pseudo terminal and copies, in  *)
(* two processes, its own standard input to the master and the master to   *)
(* its standard output.  Standard input is the user's terminal, a file, or *)
(* a driver program behind a stream pipe.                                  *)
(***************************************************************************)
EXTENDS Naturals, Sequences

CONSTANTS
    MaxInput,    \* how much is typed or read (a bound)
    MaxOutput    \* how much the program writes (a bound)

VARIABLES
    opt,         \* the options: interactive, a driver, ignoreeof
    slave,       \* the program on the slave: "forked", "running", "ended"
    parent,      \* pty itself
    child,       \* its child that copies standard input
    driver,      \* the driver: "none", "running", "ended"
    term,        \* the user's terminal, "cooked" or "raw"
    input,       \* "open", or "eof" when standard input is at its end
    ptym,        \* output of the program that is not read from the master
    sigterm,     \* SIGTERM is pending for the parent
    sigcaught,
    handler,     \* is sig_term installed?
    ins, outs    \* how much was typed and written

ptyVars == <<opt, slave, parent, child, driver, term, input, ptym, sigterm, sigcaught, handler, ins, outs>>

Gone(p) == p \in {"exited", "killed", "failed", "broken"}

-----------------------------------------------------------------------------
(* main. *)

\* pty_fork: the child of the fork has the slave as its terminal and executes
\* the program.
PtyFork ==
    /\ parent = "start"
    /\ slave' = "forked" /\ parent' = "setup"
    /\ UNCHANGED <<opt, child, driver, term, input, ptym, sigterm, sigcaught, handler, ins, outs>>

\* setsid, ptys_open, the terminal's modes, three dup2, and execvp, which may
\* fail.
ExecSlave ==
    /\ slave = "forked" /\ \E l \in {"running", "ended"} : slave' = l
    /\ UNCHANGED <<opt, parent, child, driver, term, input, ptym, sigterm, sigcaught, handler, ins, outs>>

\* tty_raw if the input is the user's, and do_driver.
Setup ==
    /\ parent = "setup" /\ parent' = "fork"
    /\ term' = IF opt.interactive /\ ~opt.driver THEN "raw" ELSE term
    /\ driver' = IF opt.driver THEN "running" ELSE driver
    /\ UNCHANGED <<opt, slave, child, input, ptym, sigterm, sigcaught, handler, ins, outs>>

\* err_sys, with tty_atexit if tty_raw has worked: in main, in the fork of loop, or
\* for standard output, when nobody tells the copier.
ErrSysPty ==
    /\ parent \in {"setup", "fork"} \/ (parent = "read" /\ ptym > 0)
    /\ parent' = "failed" /\ term' = "cooked"
    /\ UNCHANGED <<opt, slave, child, driver, input, ptym, sigterm, sigcaught, handler, ins, outs>>

-----------------------------------------------------------------------------
(* loop. *)

ForkCopier ==
    /\ parent = "fork" /\ parent' = "install" /\ child' = "copy"
    /\ UNCHANGED <<opt, slave, driver, term, input, ptym, sigterm, sigcaught, handler, ins, outs>>

\* signal_intr.
Install ==
    /\ parent = "install" /\ parent' = "loop" /\ handler' = TRUE
    /\ UNCHANGED <<opt, slave, child, driver, term, input, ptym, sigterm, sigcaught, ins, outs>>

\* The copier takes what is there and gives it to the program.
CopyIn ==
    /\ child = "copy" /\ input = "open" /\ ins < MaxInput
    /\ ins' = ins + 1
    /\ UNCHANGED <<opt, slave, parent, child, driver, term, input, ptym, sigterm, sigcaught, handler, outs>>

\* exit runs tty_atexit in this process too.
CopyEof ==
    /\ child = "copy" /\ input = "eof"
    /\ IF opt.ignoreeof THEN child' = "exited" /\ term' = "cooked"
                        ELSE child' = "tell" /\ UNCHANGED term
    /\ UNCHANGED <<opt, slave, parent, driver, input, ptym, sigterm, sigcaught, handler, ins, outs>>

\* err_sys for standard input or the master: the parent is not told.
CopyFails ==
    /\ child = "copy" /\ child' = "exited" /\ term' = "cooked"
    /\ UNCHANGED <<opt, slave, parent, driver, input, ptym, sigterm, sigcaught, handler, ins, outs>>

\* kill(getppid(), SIGTERM), which is another process if the parent has gone.
TellParent ==
    /\ child = "tell" /\ child' = "exited" /\ term' = "cooked"
    /\ sigterm' = (sigterm \/ ~Gone(parent))
    /\ UNCHANGED <<opt, slave, parent, driver, input, ptym, sigcaught, handler, ins, outs>>

\* read of the master: output of the program.
CopyOut ==
    /\ parent = "read" /\ ptym > 0
    /\ ptym' = ptym - 1 /\ parent' = "loop"
    /\ UNCHANGED <<opt, slave, child, driver, term, input, sigterm, sigcaught, handler, ins, outs>>

ReadMaster ==
    /\ parent = "loop" /\ parent' = "read"
    /\ UNCHANGED <<opt, slave, child, driver, term, input, ptym, sigterm, sigcaught, handler, ins, outs>>

\* No process has the slave any more, and all output is read.
MasterEof ==
    /\ parent = "read" /\ ptym = 0 /\ slave = "ended"
    /\ parent' = "notify"
    /\ UNCHANGED <<opt, slave, child, driver, term, input, ptym, sigterm, sigcaught, handler, ins, outs>>

\* SIGPIPE at the write to a standard output that nobody reads any more, or a
\* signal from outside that has no handler: there is no tty_atexit, and a copier
\* that is left is not told.
PtyKilled ==
    /\ \/ ~Gone(parent) /\ parent' = "broken" /\ UNCHANGED child
       \/ child \in {"copy", "tell"} /\ child' = "killed" /\ UNCHANGED parent
    /\ UNCHANGED <<opt, slave, driver, term, input, ptym, sigterm, sigcaught, handler, ins, outs>>

\* SIGTERM: it ends the process before the handler is there.  The handler sets
\* a flag, and ends a read that waits.
Sigterm ==
    /\ sigterm /\ ~Gone(parent) /\ sigterm' = FALSE
    /\ IF ~handler THEN parent' = "killed" /\ UNCHANGED sigcaught
       ELSE /\ sigcaught' = TRUE
            /\ parent' = IF parent = "read" /\ ptym = 0 THEN "notify" ELSE parent
    /\ UNCHANGED <<opt, slave, child, driver, term, input, ptym, handler, ins, outs>>

MutNoNotify ==
    /\ parent = "notify" /\ parent' = "exit"
    /\ UNCHANGED <<opt, slave, child, driver, term, input, ptym, sigterm, sigcaught, handler, ins, outs>>

\* The copier is stopped, unless it has sent a signal itself.
Notify ==
    /\ parent = "notify" /\ parent' = "exit"
    /\ child' = IF ~sigcaught /\ ~Gone(child) THEN "killed" ELSE child
    /\ UNCHANGED <<opt, slave, driver, term, input, ptym, sigterm, sigcaught, handler, ins, outs>>

\* exit, with tty_atexit.
ParentExit ==
    /\ parent = "exit" /\ parent' = "exited" /\ term' = "cooked"
    /\ UNCHANGED <<opt, slave, child, driver, input, ptym, sigterm, sigcaught, handler, ins, outs>>

-----------------------------------------------------------------------------
(* The program on the slave, and the source of the input. *)

Write ==
    /\ slave = "running" /\ outs < MaxOutput
    /\ outs' = outs + 1 /\ ptym' = ptym + 1
    /\ UNCHANGED <<opt, slave, parent, child, driver, term, input, sigterm, sigcaught, handler, ins>>

ProgramEnds ==
    /\ slave = "running" /\ slave' = "ended"
    /\ UNCHANGED <<opt, parent, child, driver, term, input, ptym, sigterm, sigcaught, handler, ins, outs>>

\* When all copies of the master are closed the program's terminal hangs up.
SlaveHangup ==
    /\ slave = "running" /\ Gone(parent) /\ Gone(child) /\ slave' = "ended"
    /\ UNCHANGED <<opt, parent, child, driver, term, input, ptym, sigterm, sigcaught, handler, ins, outs>>

InputEnds ==
    /\ input = "open" /\ ~opt.driver /\ input' = "eof"
    /\ UNCHANGED <<opt, slave, parent, child, driver, term, ptym, sigterm, sigcaught, handler, ins, outs>>

DriverEnds ==
    /\ driver = "running" /\ driver' = "ended" /\ input' = "eof"
    /\ UNCHANGED <<opt, slave, parent, child, term, ptym, sigterm, sigcaught, handler, ins, outs>>

-----------------------------------------------------------------------------
PtyInit ==
    /\ opt \in [interactive : BOOLEAN, driver : BOOLEAN, ignoreeof : BOOLEAN]
    /\ slave = "none" /\ parent = "start" /\ child = "none" /\ driver = "none"
    /\ term = "cooked" /\ input = "open" /\ ptym = 0
    /\ sigterm = FALSE /\ sigcaught = FALSE /\ handler = FALSE /\ ins = 0 /\ outs = 0

Parent == \/ PtyFork \/ Setup \/ ForkCopier \/ Install \/ ReadMaster \/ CopyOut \/ MasterEof
          \/ Notify \/ ParentExit
Child  == CopyIn \/ CopyEof \/ TellParent

PtyNext == \/ Parent \/ Child \/ Sigterm \/ ExecSlave \/ SlaveHangup
           \/ ErrSysPty \/ PtyKilled \/ CopyFails \/ Write \/ ProgramEnds \/ InputEnds \/ DriverEnds

-----------------------------------------------------------------------------
\* When the program has ended, so do both copiers, though one of them may wait
\* for input that never comes, and however their signals cross; and the user has
\* his terminal back, even if the parent dies of a signal that was so early that
\* it found no handler.  Only an error of the parent leaves the other copier,
\* and a death by SIGPIPE or by a signal from outside the terminal as well.
PtyEnds ==
    slave = "ended" ~> /\ Gone(parent)
                       /\ parent = "broken" \/ term = "cooked"
                       /\ Gone(child) \/ parent \in {"failed", "broken"}

=============================================================================
