------------------------------ MODULE CallLoop ------------------------------
(***************************************************************************)
(* The program call after it has its line: main, loop, the commands behind *)
(* the escape character (take, put, suspend, break, terminate) and the     *)
(* terminal's mode (lib/ttymodes.c).  The remote host is modelled from the *)
(* commands that take and put send it: it echoes what it gets, when it     *)
(* gets to it.                                                             *)
(***************************************************************************)
EXTENDS Naturals, Sequences, SequencesExt

CONSTANTS
    Keys,        \* what the user types
    MaxKeys,     \* how much (a bound)
    RemFiles,    \* contents of remote files, for take
    LocFiles,    \* contents of local files, for put
    High         \* the characters with an eighth bit: what they are without it

FileChars == UNION {ToSet(f) : f \in RemFiles \cup LocFiles}

\* What the remote host sends of its own accord.
OwnChars == {"a", "NL", "CR", "~", "$", "cat", "CTRLA"}

\* The files are sequences, and the remote host's own characters have seven bits.
ASSUME FilesAssumption == RemFiles \cup LocFiles \subseteq Seq(FileChars)
ASSUME HighAssumption == OwnChars \cap DOMAIN High = {}

VARIABLES
    cpc,         \* where call is
    bol,         \* at the beginning of a line?
    typed,       \* how many keys were typed
    tty,         \* the terminal's mode
    ttystate, save_termios, ttysavefd,
    ttybad,      \* history: the terminal refused the raw mode
    ttyfault,    \* history: what failed when the user's mode was to be set again,
                 \* "none", the last tty_"reset", or tty_raw's own, which has "lost" it
    toRem,       \* written to the line, and not read by the remote host
    fromRem,     \* sent by the remote host, and not read
    dropped,     \* the line is down
    rem_buf,     \* the characters that rem_read has not given out
    fpout,       \* take: what is in the local file
    src,         \* take or put: the content of the source file
    clean,       \* history: nothing was under way when take sent its command
    fpin,        \* put: what is still to be sent
    remote       \* the remote host: at its "shell", or a "cat" takes a file

ttyVars  == <<tty, ttystate, save_termios, ttysavefd, ttybad, ttyfault>>
lineVars == <<toRem, fromRem, dropped, remote>>
fileVars == <<rem_buf, fpout, src, clean, fpin>>
callVars == <<cpc, bol, typed, ttyVars, lineVars, fileVars>>

Goto(l) == cpc' = l

-----------------------------------------------------------------------------
(* The terminal. *)

\* tty_raw may find that not all of the changes were made, and takes them back,
\* which may fail as well.
TtyRaw(ok) ==
    IF ttystate # "RESET" THEN UNCHANGED ttyVars
    ELSE /\ save_termios' = tty
         /\ \/ ok /\ tty' = "raw" /\ ttystate' = "RAW" /\ ttysavefd' = TRUE /\ UNCHANGED <<ttybad, ttyfault>>
            \/ ~ok /\ ttybad' = TRUE /\ UNCHANGED <<tty, ttystate, ttysavefd, ttyfault>>
            \/ ~ok /\ ttybad' = TRUE /\ tty' = "raw" /\ ttyfault' = "lost" /\ UNCHANGED <<ttystate, ttysavefd>>

\* tcsetattr with save_termios, done or refused.
SetBack ==
    /\ tty' = save_termios
    /\ ttyfault' = IF ttyfault = "reset" THEN "none" ELSE ttyfault

NotSetBack ==
    /\ ttyfault' = IF ttyfault = "none" THEN "reset" ELSE ttyfault
    /\ UNCHANGED <<tty, ttystate, save_termios, ttysavefd, ttybad>>

MutStateKept ==
    IF ttystate = "RESET" THEN UNCHANGED ttyVars
    ELSE (SetBack /\ UNCHANGED <<ttystate, save_termios, ttysavefd, ttybad>>) \/ NotSetBack

TtyReset ==
    IF ttystate = "RESET" THEN UNCHANGED ttyVars
    ELSE (SetBack /\ ttystate' = "RESET" /\ UNCHANGED <<save_termios, ttysavefd, ttybad>>) \/ NotSetBack

\* exit, with tty_atexit.
Exit == Goto("end") /\ (IF ttysavefd THEN TtyReset ELSE UNCHANGED ttyVars)

-----------------------------------------------------------------------------
(* main and loop. *)

Main ==
    /\ cpc = "start"
    /\ \E ok \in BOOLEAN : TtyRaw(ok) /\ Goto(IF ok THEN "loop" ELSE "end")
    /\ UNCHANGED <<bol, typed, lineVars, fileVars>>

\* A character for the remote host.
Send(x) ==
    /\ bol' = (x = "NL")
    /\ toRem' = Append(toRem, x)
    /\ UNCHANGED <<fromRem, dropped, remote>>

Key(x) ==
    /\ cpc = "loop" /\ typed < MaxKeys /\ typed' = typed + 1
    /\ IF x = "~" /\ bol THEN Goto("escape") /\ UNCHANGED <<bol, lineVars>>
                         ELSE Send(x) /\ UNCHANGED cpc
    /\ UNCHANGED <<ttyVars, fileVars>>

\* doescape.
EscapeTerminate ==
    /\ cpc = "escape" /\ Exit
    /\ UNCHANGED <<bol, typed, lineVars, fileVars>>

EscapeSuspend ==
    /\ cpc = "escape" /\ TtyReset /\ Goto("stopped")
    /\ UNCHANGED <<bol, typed, lineVars, fileVars>>

EscapeBreak ==
    /\ cpc = "escape" /\ Goto("loop")
    /\ UNCHANGED <<bol, typed, ttyVars, lineVars, fileVars>>

\* take or put: prompt_read resets the terminal to read its line.
EscapeCopy(l) ==
    /\ cpc = "escape" /\ TtyReset /\ Goto(l)
    /\ UNCHANGED <<bol, typed, lineVars, fileVars>>

EscapeOther(x) ==
    /\ cpc = "escape" /\ x \notin {".", "#", "t", "p", "susp"}
    /\ Send(x) /\ Goto("loop")
    /\ UNCHANGED <<typed, ttyVars, fileVars>>

\* The user continues the stopped program.
Continue ==
    /\ cpc = "stopped" /\ Goto("loop")
    /\ \E ok \in BOOLEAN : TtyRaw(ok)
    /\ UNCHANGED <<bol, typed, lineVars, fileVars>>

ReadRemote ==
    /\ cpc = "loop" /\ fromRem # <<>>
    /\ fromRem' = <<>>
    /\ UNCHANGED <<cpc, bol, typed, ttyVars, toRem, dropped, remote, fileVars>>

\* End of file or hangup, of the line or of standard input; or err_sys.
LoopEnds ==
    /\ cpc = "loop" /\ Exit
    /\ UNCHANGED <<bol, typed, lineVars, fileVars>>

\* A signal ends call, which catches none: no function of atexit runs.
CallKilled ==
    /\ cpc \notin {"end", "killed"} /\ Goto("killed")
    /\ UNCHANGED <<bol, typed, ttyVars, lineVars, fileVars>>

-----------------------------------------------------------------------------
(* take. *)

\* The end of prompt_read when its arguments or the local file are no good.
Refused ==
    /\ cpc \in {"take", "put"} /\ Goto("loop")
    /\ \E ok \in BOOLEAN : TtyRaw(ok)
    /\ UNCHANGED <<bol, typed, lineVars, fileVars>>

MutBufKept ==
    /\ cpc = "take" /\ Goto("echo")
    /\ \E ok \in BOOLEAN : TtyRaw(ok)
    /\ \E f \in RemFiles : src' = f
    /\ toRem' = Append(toRem, "take")
    /\ fpout' = <<>>
    /\ clean' = (toRem = <<>> /\ fromRem = <<>>)
    /\ UNCHANGED <<bol, typed, fromRem, dropped, remote, fpin, rem_buf>>

\* The command, and rem_read begins anew.
TakeCommand ==
    /\ cpc = "take" /\ Goto("echo")
    /\ \E ok \in BOOLEAN : TtyRaw(ok)
    /\ \E f \in RemFiles : src' = f
    /\ toRem' = Append(toRem, "take")
    /\ rem_buf' = <<>> /\ fpout' = <<>>
    /\ clean' = (toRem = <<>> /\ fromRem = <<>>)
    /\ UNCHANGED <<bol, typed, fromRem, dropped, remote, fpin>>

\* The next character of rem_read's buffer, or of a new read of any length.
NextByte(b) ==
    \/ /\ rem_buf # <<>> /\ b = Head(rem_buf)
       /\ rem_buf' = Tail(rem_buf) /\ UNCHANGED fromRem
    \/ /\ rem_buf = <<>> /\ fromRem # <<>> /\ b = Head(fromRem)
       /\ \E n \in 1 .. Len(fromRem) : /\ rem_buf' = SubSeq(fromRem, 2, n)
                                       /\ fromRem' = SubSeq(fromRem, n + 1, Len(fromRem))

Heard == FileChars \cup OwnChars

\* rem_read gives out the lower seven bits, c.
Low(b) == IF b \in DOMAIN High THEN High[b] ELSE b
Read7 == {Low(b) : b \in Heard}
RemRead(c) == \E b \in Heard : c = Low(b) /\ NextByte(b)

\* A zero is taken for the end of the line, here and in the file.
TakeEcho ==
    /\ cpc = "echo"
    /\ \E c \in Read7 :
          /\ RemRead(c)
          /\ Goto(CASE c = "NUL" -> "loop" [] c = "NL" -> "file" [] OTHER -> "echo")
    /\ UNCHANGED <<bol, typed, ttyVars, toRem, dropped, remote, fpout, src, clean, fpin>>

TakeFile ==
    /\ cpc = "file"
    /\ \E c \in Read7 :
          /\ RemRead(c)
          /\ Goto(IF c \in {"NUL", "CTRLA"} THEN "taken" ELSE "file")
          /\ fpout' = IF c \in {"NUL", "CTRLA", "CR"} THEN fpout ELSE Append(fpout, c)
    /\ UNCHANGED <<bol, typed, ttyVars, toRem, dropped, remote, src, clean, fpin>>

\* The line has dropped.
TakeDropped ==
    /\ cpc \in {"echo", "file"} /\ dropped /\ rem_buf = <<>> /\ fromRem = <<>>
    /\ Goto("loop")
    /\ toRem' = IF cpc = "file" THEN Append(toRem, "NL") ELSE toRem
    /\ UNCHANGED <<bol, typed, ttyVars, fromRem, dropped, remote, fileVars>>

\* The local file cannot be written: the rest of the remote one is left to come.
TakeError ==
    /\ cpc = "file" /\ Goto("loop")
    /\ \E c \in Read7 \ {"NUL", "CTRLA", "CR"} : RemRead(c)
    /\ toRem' = Append(toRem, "NL")
    /\ UNCHANGED <<bol, typed, ttyVars, dropped, remote, fpout, src, clean, fpin>>

Taken ==
    /\ cpc = "taken" /\ Goto("loop")
    /\ toRem' = Append(toRem, "NL")
    /\ UNCHANGED <<bol, typed, ttyVars, fromRem, dropped, remote, fileVars>>

-----------------------------------------------------------------------------
(* put. *)

PutCommand ==
    /\ cpc = "put" /\ Goto("sending")
    /\ \E ok \in BOOLEAN : TtyRaw(ok)
    /\ \E f \in LocFiles : src' = f /\ fpin' = f
    /\ toRem' = Append(toRem, "put")
    /\ UNCHANGED <<bol, typed, fromRem, dropped, remote, rem_buf, fpout, clean>>

PutChar ==
    /\ cpc = "sending" /\ fpin # <<>> /\ ~dropped
    /\ toRem' = Append(toRem, Head(fpin)) /\ fpin' = Tail(fpin)
    /\ UNCHANGED <<cpc, bol, typed, ttyVars, fromRem, dropped, remote, rem_buf, fpout, src, clean>>

PutEof ==
    /\ cpc = "sending" /\ (fpin = <<>> \/ dropped)
    /\ toRem' = Append(toRem, "EOF") /\ Goto("flush")
    /\ UNCHANGED <<bol, typed, ttyVars, fromRem, dropped, remote, fileVars>>

\* tcflush throws away what the remote host has sent.
PutFlush ==
    /\ cpc = "flush" /\ Goto("loop")
    /\ fromRem' = <<>> /\ toRem' = Append(toRem, "NL")
    /\ UNCHANGED <<bol, typed, ttyVars, dropped, remote, fileVars>>

\* err_sys: in doescape, prompt_read or rem_read, or for a command to the line.
ErrSys ==
    /\ cpc \in {"escape", "take", "put", "echo", "file"} /\ Exit
    /\ UNCHANGED <<bol, typed, lineVars, fileVars>>

-----------------------------------------------------------------------------
(* The remote host. *)

\* What it sends for one character of a file.
Line(c) == IF c = "NL" THEN <<"CR", "NL">> ELSE <<c>>

\* What it sends for one thing that it reads at its shell.
Output(x) ==
    CASE x = "NL"         -> <<"CR", "NL", "$">>
      [] x \in {"a", "~"} -> <<x>>
      [] x = "take"       ->
            <<"cat", "CTRLA", "CR", "NL">>
            \o FlattenSeq([i \in DOMAIN src |-> Line(src[i])])
            \o <<"CTRLA", "CR", "NL", "$">>
      [] OTHER            -> <<>>

RemoteReads ==
    /\ toRem # <<>> /\ ~dropped
    /\ toRem' = Tail(toRem)
    /\ LET x == Head(toRem)
       IN  /\ fromRem' = IF remote = "cat" THEN fromRem ELSE fromRem \o Output(x)
           /\ remote' = IF x = "put" THEN "cat" ELSE IF x = "EOF" THEN "shell" ELSE remote
    /\ UNCHANGED <<cpc, bol, typed, ttyVars, dropped, fileVars>>

LineDrops ==
    /\ ~dropped /\ dropped' = TRUE
    /\ UNCHANGED <<cpc, bol, typed, ttyVars, toRem, fromRem, remote, fileVars>>

-----------------------------------------------------------------------------
\* loop does not initialise bol.
CallInit ==
    /\ cpc = "start" /\ bol \in BOOLEAN /\ typed = 0
    /\ tty = "cooked" /\ ttystate = "RESET" /\ save_termios = "cooked" /\ ttysavefd = FALSE
    /\ ttybad = FALSE /\ ttyfault = "none"
    /\ toRem = <<>> /\ fromRem = <<>> /\ dropped = FALSE /\ remote = "shell"
    /\ rem_buf = <<>> /\ fpout = <<>> /\ src = <<>> /\ clean = FALSE /\ fpin = <<>>

CallNext ==
    \/ Main \/ EscapeTerminate \/ EscapeSuspend \/ EscapeBreak \/ Continue \/ ReadRemote \/ LoopEnds \/ CallKilled
    \/ EscapeCopy("take") \/ EscapeCopy("put") \/ Refused
    \/ TakeCommand \/ TakeEcho \/ TakeFile \/ TakeDropped \/ TakeError \/ Taken
    \/ PutCommand \/ PutChar \/ PutEof \/ PutFlush \/ ErrSys
    \/ RemoteReads \/ LineDrops
    \/ \E x \in Keys : Key(x) \/ EscapeOther(x)

-----------------------------------------------------------------------------
(* Properties. *)

\* take copies every character of the remote file, in order, without its eighth
\* bit and without the returns, so that the copy of a text file of seven bits is
\* exact, however the reads cut the remote host's output and whatever an earlier
\* take has left in its buffer; but only if the file has no character that it
\* takes for the end, and nothing else was on its way when it sent its command,
\* for then it takes another line for the echo, and the echo for the file.
TakeExact ==
    cpc = "taken" /\ clean /\ (\A i \in DOMAIN src : Low(src[i]) \notin {"NUL", "CTRLA"}) =>
        fpout = FlattenSeq([i \in DOMAIN src |-> IF Low(src[i]) = "CR" THEN <<>> ELSE <<Low(src[i])>>])

\* The user's terminal has its own mode when call has ended by its own doing, is
\* stopped or reads a line, by whichever way it came there, unless the terminal
\* refused that mode; in particular a tty_reset that failed is made good at the
\* exit.  It is raw otherwise unless it refused that.  A signal may end call with
\* the terminal as it is.
TtyRestored ==
    /\ cpc \in {"end", "stopped", "take", "put"} => tty = "cooked" \/ ttyfault # "none"
    /\ cpc \in {"loop", "escape", "echo", "file", "taken", "sending", "flush"} => tty = "raw" \/ ttybad

=============================================================================
