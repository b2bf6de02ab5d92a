------------------------------- MODULE Myshell ------------------------------
(***************************************************************************)
(* Exp_5/myshell.c: a shell that runs a command with a time limit and can  *)
(* be told to give it up with SIGQUIT.  Both handlers kill the command and *)
(* jump back to the prompt; each blocks the other signal and discards it   *)
(* if it is pending.  A signal that is not blocked is handled before the   *)
(* shell's next step.  A SIGQUIT of the terminal goes to the shell and to  *)
(* the commands.                                                           *)
(***************************************************************************)
EXTENDS Naturals, FiniteSets

CONSTANTS
    Time,        \* is there a time limit (-t)?
    MaxCmds,     \* how many commands the user types (a bound)
    MaxQuits     \* how often he types the quit character (a bound)

VARIABLES
    pc,          \* where the shell is, in main or in a handler
    pid,         \* the variable: 0, or the number of a child
    timer,       \* alarm is armed
    pend,        \* pending signals
    kid,         \* kid[n]: the n-th child
    cmds,        \* commands typed
    quits        \* SIGQUITs sent

shellVars == <<pc, pid, timer, pend, kid, cmds, quits>>

ASSUME ParamAssumption == Time \in BOOLEAN /\ MaxCmds \in Nat /\ MaxQuits \in Nat

Kids == 1 .. MaxCmds
InHandler == pc \in {"alrm1", "alrm2", "quit1", "quit2", "quit3", "jump"}

\* main goes on: no signal is to be delivered first.
At(l) == pc = l /\ pend = {}

-----------------------------------------------------------------------------
(* main. *)

ReadCommand ==
    /\ At("prompt") /\ cmds < MaxCmds
    /\ cmds' = cmds + 1 /\ pc' = "alarm"
    /\ UNCHANGED <<pid, timer, pend, kid, quits>>

Eof == At("prompt") /\ pc' = "end" /\ UNCHANGED <<pid, timer, pend, kid, cmds, quits>>

MutAlarmOnce ==
    /\ At("alarm")
    /\ timer' = (Time /\ cmds = 1) /\ pc' = "fork"
    /\ UNCHANGED <<pid, pend, kid, cmds, quits>>

Alarm ==
    /\ At("alarm")
    /\ timer' = Time /\ pc' = "fork"
    /\ UNCHANGED <<pid, pend, kid, cmds, quits>>

\* fork, then the assignment of its result; the child has execlp before it.
Fork ==
    /\ At("fork")
    /\ kid' = [kid EXCEPT ![cmds] = "fresh"] /\ pc' = "assign"
    /\ UNCHANGED <<pid, timer, pend, cmds, quits>>

Assign ==
    /\ At("assign")
    /\ pid' = cmds /\ pc' = "wait"
    /\ UNCHANGED <<timer, pend, kid, cmds, quits>>

\* waitpid; pid becomes its result, the number of the child that is no more.
Waitpid ==
    /\ At("wait") /\ kid[pid] = "zombie"
    /\ kid' = [kid EXCEPT ![pid] = "reaped"] /\ pc' = "off"
    /\ UNCHANGED <<pid, timer, pend, cmds, quits>>

AlarmOff ==
    /\ At("off")
    /\ timer' = FALSE /\ pc' = "prompt"
    /\ UNCHANGED <<pid, pend, kid, cmds, quits>>

-----------------------------------------------------------------------------
(* The handlers. *)

Deliver(s, l) ==
    /\ s \in pend /\ ~InHandler /\ pc # "end"
    /\ pend' = pend \ {s} /\ pc' = l
    /\ UNCHANGED <<pid, timer, kid, cmds, quits>>

\* kill(pid, SIGKILL): a child that is gone is not there to be killed.
Killed == IF pid > 0 /\ kid[pid] \in {"fresh", "running", "twin"}
          THEN [kid EXCEPT ![pid] = "zombie"] ELSE kid

KillChild(l, next) ==
    /\ pc = l
    /\ kid' = Killed /\ pid' = 0 /\ pc' = next
    /\ UNCHANGED <<timer, pend, cmds, quits>>

MutNotStopped ==
    /\ pc = "quit2" /\ pc' = "quit3"
    /\ UNCHANGED <<pid, timer, pend, kid, cmds, quits>>

\* sig_quit stops the clock before it looks for a pending SIGALRM.
StopClock ==
    /\ pc = "quit2" /\ timer' = FALSE /\ pc' = "quit3"
    /\ UNCHANGED <<pid, pend, kid, cmds, quits>>

\* The other signal is ignored for a moment, if it is pending.
Discard(l, s) ==
    /\ pc = l /\ pend' = pend \ {s} /\ pc' = "jump"
    /\ UNCHANGED <<pid, timer, kid, cmds, quits>>

\* siglongjmp, to the prompt.
Longjmp ==
    /\ pc = "jump" /\ pc' = "prompt"
    /\ UNCHANGED <<pid, timer, pend, kid, cmds, quits>>

-----------------------------------------------------------------------------
(* The clock, the user and the commands. *)

Expire ==
    /\ timer /\ timer' = FALSE /\ pend' = pend \cup {"alrm"}
    /\ UNCHANGED <<pc, pid, kid, cmds, quits>>

\* A child that has not called execlp has the shell's handler: it jumps to the
\* prompt and is a second shell.  A command may ignore the signal.
QuitKey ==
    /\ quits < MaxQuits /\ pc # "end"
    /\ quits' = quits + 1 /\ pend' = pend \cup {"quit"}
    /\ \E die \in SUBSET {n \in Kids : kid[n] = "running"} :
          kid' = [n \in Kids |-> IF kid[n] = "fresh" THEN "twin"
                                 ELSE IF n \in die THEN "zombie" ELSE kid[n]]
    /\ UNCHANGED <<pc, pid, timer, cmds>>

Exec(n) ==
    /\ kid[n] = "fresh" /\ kid' = [kid EXCEPT ![n] = "running"]
    /\ UNCHANGED <<pc, pid, timer, pend, cmds, quits>>

CommandEnds(n) ==
    /\ kid[n] = "running" /\ kid' = [kid EXCEPT ![n] = "zombie"]
    /\ UNCHANGED <<pc, pid, timer, pend, cmds, quits>>

-----------------------------------------------------------------------------
ShellInit ==
    /\ pc = "prompt" /\ pid = 0 /\ pend = {}
    /\ timer = FALSE /\ kid = [n \in Kids |-> "none"] /\ cmds = 0 /\ quits = 0

Shell ==
    \/ Alarm \/ Fork \/ Assign \/ Waitpid \/ AlarmOff
    \/ Deliver("alrm", "alrm1") \/ Deliver("quit", "quit1")
    \/ KillChild("alrm1", "alrm2") \/ KillChild("quit1", "quit2")
    \/ StopClock \/ Discard("alrm2", "quit") \/ Discard("quit3", "alrm") \/ Longjmp

ShellNext == Shell \/ ReadCommand \/ Eof \/ Expire \/ QuitKey \/ \E n \in Kids : Exec(n) \/ CommandEnds(n)

-----------------------------------------------------------------------------
(* Properties. *)

\* The time limit belongs to one command: no alarm of an earlier one is armed or
\* pending at the prompt or when the next command's is set, whichever
\* handler has run and whatever came while it ran.  And a handler that has
\* interrupted the wait for a command kills that command.
AlarmIsOwn ==
    /\ pc \in {"prompt", "alarm"} => ~timer /\ "alrm" \notin pend
    /\ pc = "wait" => pid = cmds

\* With a time limit the shell never waits for ever, although its command may
\* never end and may ignore SIGQUIT.
WaitEnds == (Time /\ pc = "wait") ~> pc # "wait"

=============================================================================
