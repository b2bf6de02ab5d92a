-------------------------------- MODULE Popen -------------------------------
(***************************************************************************)
(* lib/popen.c (popen, pclose) and signals/system.c: one process that runs *)
(* commands, some behind pipes, and waits for them.  Every child inherits  *)
(* the pipes of those before it; a command behind a pipe ends at the       *)
(* latest when nobody else has the other end.  The process may have a      *)
(* SIGCHLD handler that waits for any child.                               *)
(***************************************************************************)
EXTENDS Naturals

CONSTANT MaxRuns      \* how many commands it runs (a bound)

VARIABLES
    caller,       \* where the process is
    awaited,      \* the child that it makes or waits for
    made,         \* children made, or tried
    ends,         \* the pipe ends it has: <<n, "r">> and <<n, "w">> of child n's pipe
    childpid,     \* the children in the table, each at the descriptor of its pipe
    pchild,       \* pchild[n]: the n-th child [st, type, ends, table]
    catches,      \* is there a handler for SIGCHLD?
    chldmask,     \* SIGCHLD is blocked
    sigchld,      \* and pending
    result        \* what the last call returned: [call, value]

popVars == <<caller, awaited, made, ends, childpid, pchild, catches, chldmask, sigchld, result>>

Cmds == 1 .. MaxRuns
NoCmd == [st |-> "none", type |-> "", ends |-> {}, table |-> {}]

\* No signal is to be handled first.
Proceeds(l) == caller = l /\ ~(sigchld /\ ~chldmask)

Pipe(n) == {<<n, "r">>, <<n, "w">>}

\* The end that a child of this type uses, and the one of the caller.
ChildEnd(n, type)  == IF type = "r" THEN <<n, "w">> ELSE <<n, "r">>
CallerEnd(n, type) == IF type = "r" THEN <<n, "r">> ELSE <<n, "w">>

\* fork: the child has the caller's descriptors and its table.
Child0(n, type, all) == [st |-> "fresh", type |-> type, ends |-> all, table |-> childpid]

-----------------------------------------------------------------------------
(* popen. *)

PopenFork(type) ==
    /\ Proceeds("idle") /\ made < MaxRuns
    /\ made' = made + 1 /\ awaited' = made + 1 /\ ends' = ends \cup Pipe(made + 1)
    /\ pchild' = [pchild EXCEPT ![made + 1] = Child0(made + 1, type, ends \cup Pipe(made + 1))]
    /\ caller' = "popen"
    /\ UNCHANGED <<childpid, catches, chldmask, sigchld, result>>

\* fork fails: the pipe stays open.
PopenFails ==
    /\ Proceeds("idle") /\ made < MaxRuns
    /\ made' = made + 1 /\ ends' = ends \cup Pipe(made + 1)
    /\ UNCHANGED <<caller, awaited, childpid, pchild, catches, chldmask, sigchld, result>>

\* The caller closes the child's end, and fdopen works or not.
PopenReturns ==
    /\ Proceeds("popen") /\ caller' = "idle"
    /\ ends' = ends \ {ChildEnd(awaited, pchild[awaited].type)}
    /\ \E table \in {childpid, childpid \cup {awaited}} : childpid' = table
    /\ UNCHANGED <<awaited, made, pchild, catches, chldmask, sigchld, result>>

MutNotClosed(n) == pchild[n].ends \ {CallerEnd(n, pchild[n].type)}

\* What the child has when it executes the command: not the other end of its own
\* pipe, nor anything that is in the table.
KeepsEnds(n) ==
    pchild[n].ends \ ({CallerEnd(n, pchild[n].type)}
                        \cup {CallerEnd(m, pchild[m].type) : m \in pchild[n].table})

PopenExec(n) ==
    /\ pchild[n].st = "fresh" /\ pchild[n].type \in {"r", "w"}
    /\ pchild' = [pchild EXCEPT ![n].st = "running", ![n].ends = KeepsEnds(n)]
    /\ UNCHANGED <<caller, awaited, made, ends, childpid, catches, chldmask, sigchld, result>>

-----------------------------------------------------------------------------
(* pclose and system. *)

Pclose(n) ==
    /\ Proceeds("idle") /\ n \in childpid
    /\ childpid' = childpid \ {n} /\ ends' = ends \ {CallerEnd(n, pchild[n].type)}
    /\ awaited' = n /\ caller' = "pclose"
    /\ UNCHANGED <<made, pchild, catches, chldmask, sigchld, result>>

\* fclose cannot write what is in the buffer: nobody waits for the child.
PcloseFails ==
    /\ Proceeds("pclose") /\ pchild[awaited].type = "w"
    /\ caller' = "idle" /\ result' = [call |-> "pclose", value |-> "eof"]
    /\ UNCHANGED <<awaited, made, ends, childpid, pchild, catches, chldmask, sigchld>>

SystemFork ==
    /\ Proceeds("idle") /\ made < MaxRuns
    /\ chldmask' = TRUE /\ caller' = "system"
    /\ made' = made + 1 /\ awaited' = made + 1
    /\ pchild' = [pchild EXCEPT ![made + 1] = Child0(made + 1, "system", ends)]
    /\ UNCHANGED <<ends, childpid, catches, sigchld, result>>

SystemExec(n) ==
    /\ pchild[n].st = "fresh" /\ pchild[n].type = "system"
    /\ pchild' = [pchild EXCEPT ![n].st = "running"]
    /\ UNCHANGED <<caller, awaited, made, ends, childpid, catches, chldmask, sigchld, result>>

\* waitpid of the one child; there is none if the handler was faster.
Await(l) ==
    /\ Proceeds(l) /\ pchild[awaited].st \in {"zombie", "reaped"}
    /\ result' = [call |-> l, value |-> IF pchild[awaited].st = "zombie" THEN "status" ELSE "echild"]
    /\ pchild' = [pchild EXCEPT ![awaited].st = "reaped"]
    /\ chldmask' = FALSE /\ caller' = "idle"
    /\ UNCHANGED <<awaited, made, ends, childpid, catches, sigchld>>

PcloseReturns == Await("pclose")

\* Blocked, SIGCHLD cannot be faster here; the mask is put back at the end.
SystemReturns == Await("system")

-----------------------------------------------------------------------------
(* The handler, and the commands. *)

\* The handler waits for any child that has ended.
Sigchld ==
    /\ sigchld /\ ~chldmask /\ sigchld' = FALSE
    /\ pchild' = [n \in Cmds |-> IF pchild[n].st = "zombie" THEN [pchild[n] EXCEPT !.st = "reaped"]
                              ELSE pchild[n]]
    /\ UNCHANGED <<caller, awaited, made, ends, childpid, catches, chldmask, result>>

CommandExits(n) ==
    /\ pchild[n].st = "running"
    /\ pchild' = [pchild EXCEPT ![n].st = "zombie", ![n].ends = {}]
    /\ sigchld' = (sigchld \/ catches)
    /\ UNCHANGED <<caller, awaited, made, ends, childpid, catches, chldmask, result>>

\* Nobody has the other end of n's pipe: end of file, or SIGPIPE.
Alone(n) ==
    LET other == CallerEnd(n, pchild[n].type)
    IN  other \notin ends /\ \A m \in Cmds : other \notin pchild[m].ends

\* A command behind a pipe has to end then, one of system in any case.
CommandMustExit(n) ==
    /\ pchild[n].st = "running" /\ (pchild[n].type = "system" \/ Alone(n))
    /\ CommandExits(n)

CmdGoesOn(n) == PopenExec(n) \/ SystemExec(n) \/ CommandMustExit(n)

-----------------------------------------------------------------------------
PopInit ==
    /\ caller = "idle" /\ awaited = 0 /\ made = 0 /\ ends = {} /\ childpid = {}
    /\ pchild = [n \in Cmds |-> NoCmd]
    /\ catches \in BOOLEAN /\ chldmask = FALSE /\ sigchld = FALSE
    /\ result = [call |-> "none", value |-> "status"]

PopCaller == PopenReturns \/ PcloseReturns \/ SystemReturns \/ Sigchld

PopNext ==
    \/ PopCaller \/ PopenFork("r") \/ PopenFork("w") \/ PopenFails \/ PcloseFails \/ SystemFork
    \/ \E n \in Cmds : Pclose(n) \/ PopenExec(n) \/ SystemExec(n) \/ CommandExits(n)

-----------------------------------------------------------------------------
\* system returns the status of its command although a SIGCHLD handler waits for
\* any child, and pclose too if there is no such handler.  And every pclose and
\* system comes to an end: no other command, started before or after, keeps the
\* pipe of this one open.
ChildrenAwaited ==
    /\ [](result.value = "echild" => result.call = "pclose" /\ catches)
    /\ caller \in {"pclose", "system"} ~> caller = "idle"

=============================================================================
