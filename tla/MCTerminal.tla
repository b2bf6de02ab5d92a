----------------------------- MODULE MCTerminal -----------------------------
(* The single-user programs, one at a time, for TLC: the chat with the modem, *)
(* call, pty, the shell of Exp_5, the two that walk a directory tree, popen.   *)
EXTENDS Expect, CallLoop, Pty, Myshell, DirWalk, Popen

CONSTANT Programs    \* the ones to consider

VARIABLE program     \* the one that runs

vars == <<program, chatVars, callVars, ptyVars, shellVars, dirVars, popVars>>

-----------------------------------------------------------------------------
(* Expect: the dialler's strings. *)

MCPhone == <<Plain("5"), Plain("5")>>

MCChats == {
    <<Nothing, <<Plain("A"), Slash("T")>>, <<Plain("O"), Plain("K")>>>>,
    <<Nothing, <<Slash("E"), Plain("A"), Slash("e"), Slash("T"), Slash("c")>>,
      <<Plain("O"), Slash("r")>>, <<Slash("d"), Slash("s"), Slash("c"), Plain("A")>>>>,
    <<<<Plain("O"), Slash("q")>>>>,
    <<Nothing, <<Slash("q")>>>>, <<Nothing>> }

(* CallLoop: the files copied. *)

MCRemFiles == {<<"a8", "NL">>, <<"NUL">>}
MCLocFiles == {<<"a", "NL">>}
MCHigh     == [c \in {"a8"} |-> "a"]

(* DirWalk: the tree, what may become of it, and the command lines. *)

Reg(b)  == [kind |-> "reg", open |-> TRUE, bytes |-> b]
Dir(o)  == [kind |-> "dir", open |-> o, bytes |-> <<>>]
Link    == [kind |-> "lnk", open |-> FALSE, bytes |-> <<>>]

MCPlaces == {<<>>, <<"a">>, <<"d">>, <<"d", "a">>, <<"d", "b">>, <<"d", "e">>, <<"d", "e", "a">>}

MCTree == [p \in MCPlaces |->
    CASE p \in {<<>>, <<"d">>, <<"d", "e">>} -> Dir(TRUE)
      [] p \in {<<"a">>, <<"d", "a">>}       -> Reg(<<"x", "NUL">>)
      [] p = <<"d", "b">>                    -> Dir(FALSE)
      [] p = <<"d", "e", "a">>               -> Reg(<<"x", "y">>)]

MCNodes == {NoNode, Link, Reg(<<"x", "y">>), Reg(<<"x">>), Dir(TRUE)}
MCCwd   == <<"d">>

Stat(prog, start)   == [prog |-> prog, mode |-> "stat", start |-> start]
Comp(start, source) == [prog |-> "myfind", mode |-> "comp", start |-> start, source |-> source]
Name(start, names)  == [prog |-> "myfind", mode |-> "name", start |-> start, names |-> names]

MCCommands == {
    Stat("ftw4", <<"e", "/">>), Stat("ftw4", <<"a">>), Stat("myfind", <<"e", "/">>), Stat("myfind", <<"a">>),
    Comp(<<"/", "d">>, <<"a">>), Comp(<<"/", "d">>, <<"/", "a">>), Comp(<<"/">>, <<"e", "/", "a">>),
    Comp(<<"/">>, <<"/", "d", "/", "e">>),
    Name(<<"/">>, <<<<"a">>, <<"d", "/", "a">>>>), Name(<<"e">>, <<<<"b">>, <<"a">>>>) }

-----------------------------------------------------------------------------
Init ==
    /\ program \in Programs
    /\ ChatInit /\ CallInit /\ PtyInit /\ ShellInit /\ DirInit /\ PopInit
    /\ program # "chat" => chat = <<Nothing>>
    /\ program # "call" => bol
    /\ program # "pty"  => opt = [interactive |-> TRUE, driver |-> FALSE, ignoreeof |-> FALSE]
    /\ program # "walk" => command = Stat("ftw4", <<"a">>)
    /\ program # "popen" => ~catches

Next ==
    \/ program = "chat"  /\ ChatNext  /\ UNCHANGED <<program, callVars, ptyVars, shellVars, dirVars, popVars>>
    \/ program = "call"  /\ CallNext  /\ UNCHANGED <<program, chatVars, ptyVars, shellVars, dirVars, popVars>>
    \/ program = "pty"   /\ PtyNext   /\ UNCHANGED <<program, chatVars, callVars, shellVars, dirVars, popVars>>
    \/ program = "shell" /\ ShellNext /\ UNCHANGED <<program, chatVars, callVars, ptyVars, dirVars, popVars>>
    \/ program = "walk"  /\ DirNext   /\ UNCHANGED <<program, chatVars, callVars, ptyVars, shellVars, popVars>>
    \/ program = "popen" /\ PopNext   /\ UNCHANGED <<program, chatVars, callVars, ptyVars, shellVars, dirVars>>

\* The programs and the clock run and signals are delivered.  The modem may be
\* silent; the user need not type; standard input, the program on the slave and
\* the shell's command need not end, nor a command behind a pipe while the pipe
\* has another end.
Fairness ==
    /\ WF_chatVars(program = "chat" /\ TtyDial) /\ WF_chatVars(program = "chat" /\ SigAlrm)
    /\ WF_ptyVars(program = "pty" /\ Parent) /\ WF_ptyVars(program = "pty" /\ Child)
    /\ WF_ptyVars(program = "pty" /\ Sigterm) /\ WF_ptyVars(program = "pty" /\ ExecSlave)
    /\ WF_ptyVars(program = "pty" /\ SlaveHangup)
    /\ WF_shellVars(program = "shell" /\ Shell) /\ WF_shellVars(program = "shell" /\ Expire)
    /\ WF_popVars(program = "popen" /\ PopCaller)
    /\ \A n \in Cmds : WF_popVars(program = "popen" /\ CmdGoesOn(n))

Spec == Init /\ [][Next]_vars /\ Fairness

=============================================================================
