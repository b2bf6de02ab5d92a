------------------------------- MODULE Expect -------------------------------
(***************************************************************************)
(* The chat of calld's child with the modem: tty_dial, expect_str with its *)
(* time limit, and send_str.  A string of the Dialers file is a sequence   *)
(* of items, each a character or a backslash with what follows it.         *)
(***************************************************************************)
EXTENDS Naturals, Sequences, SequencesExt

CONSTANTS
    Chats,       \* the expect/send sequences to consider
    Phone,       \* the phone number, as a string of items
    Chars,       \* the characters that the modem sends
    MaxHeard     \* a bound on how many it sends

VARIABLES
    chat,        \* the expsend field of the dialer
    k,           \* the string of chat that is in use
    dial,        \* where tty_dial is
    inbuf,       \* inbuf[] of expect_str
    exp_read,    \* in exp_read: "no", caught_alrm was "tested", or "in" read
    caught_alrm,
    armed,       \* alarm is running
    frames,      \* the calls of send_str, the innermost last
    heard,       \* history: what the modem sent since expect_str began
    sent,        \* history: what was written since send_str began
    count        \* history: how much the modem has sent

chatVars == <<chat, k, dial, inbuf, exp_read, caught_alrm, armed, frames, heard, sent, count>>

Plain(c)  == [esc |-> FALSE, c |-> c]
Slash(c)  == [esc |-> TRUE,  c |-> c]
Nothing   == <<Plain("\"\"")>>

Items     == [esc : BOOLEAN, c : STRING]

\* strtok finds no empty string, and a phone number that asked for itself
\* would never be written out.
ASSUME ChatAssumption ==
    /\ \A ch \in Chats : ch \in Seq(Seq(Items) \ {<<>>}) /\ ch # <<>>
    /\ Phone \in Seq(Items) /\ \A i \in DOMAIN Phone : Phone[i] # Slash("T")

\* The character that an item stands for, in both functions.
Char(it) == IF ~it.esc THEN it.c ELSE IF it.c = "r" THEN "CR" ELSE "SP"
IsChar(it) == it.esc => it.c \in {"r", "s"}

\* Another escape than send_str knows, or a backslash at the end.
BadEscape(it) == it.esc /\ it.c \notin {"c", "d", "p", "e", "E", "T", "r", "s"}

Expstr == [i \in DOMAIN chat[k] |-> Char(chat[k][i])]

Go(l) == dial' = l

-----------------------------------------------------------------------------
(* expect_str. *)

ExpectNothing ==
    /\ dial = "expect" /\ chat[k] = Nothing
    /\ Go("got")
    /\ UNCHANGED <<chat, k, inbuf, exp_read, caught_alrm, armed, frames, heard, sent, count>>

BadExpect ==
    /\ dial = "expect" /\ chat[k] # Nothing /\ \E i \in DOMAIN chat[k] : ~IsChar(chat[k][i])
    /\ Go("failed")
    /\ UNCHANGED <<chat, k, inbuf, exp_read, caught_alrm, armed, frames, heard, sent, count>>

Expect ==
    /\ dial = "expect" /\ chat[k] # Nothing /\ \A i \in DOMAIN chat[k] : IsChar(chat[k][i])
    /\ Go("skip")
    /\ caught_alrm' = FALSE /\ armed' = TRUE /\ inbuf' = <<>> /\ heard' = <<>>
    /\ UNCHANGED <<chat, k, exp_read, frames, sent, count>>

Expecting == dial \in {"skip", "fill", "match"}

\* exp_read tests the flag, then it is in read.
TestFlag ==
    /\ Expecting /\ exp_read = "no" /\ ~caught_alrm
    /\ exp_read' = "tested"
    /\ UNCHANGED <<chat, k, dial, inbuf, caught_alrm, armed, frames, heard, sent, count>>

EnterRead ==
    /\ exp_read = "tested" /\ exp_read' = "in"
    /\ UNCHANGED <<chat, k, dial, inbuf, caught_alrm, armed, frames, heard, sent, count>>

MutNoOverlap(buf) ==
    CASE Len(buf) < Len(chat[k])     -> "fill"
      [] IsSuffix(Expstr, buf)       -> "got"
      [] OTHER                       -> "skip"

\* Where expect_str goes on when inbuf has become buf: fill it up to the length
\* of the string, then compare its end with the string.
Compare(buf) ==
    CASE Len(buf) < Len(chat[k])     -> "fill"
      [] IsSuffix(Expstr, buf)       -> "got"
      [] OTHER                       -> "match"

\* The modem sends x: characters are skipped up to the string's first one.  The
\* code's inbuf has MAXLINE bytes and no check (expectstr.c:92); here it has no end.
Hear(x) ==
    LET buf == IF dial = "skip" THEN <<x>> ELSE Append(inbuf, x)
    IN  /\ Expecting /\ exp_read = "in" /\ count < MaxHeard
        /\ exp_read' = "no" /\ heard' = Append(heard, x) /\ count' = count + 1
        /\ IF dial = "skip" /\ x # Expstr[1] THEN UNCHANGED <<dial, inbuf>>
           ELSE inbuf' = buf /\ Go(Compare(buf))
        /\ UNCHANGED <<chat, k, caught_alrm, armed, frames, sent>>

\* SIGALRM interrupts a read, but not the one that is just about to begin.
SigAlrm ==
    /\ armed /\ armed' = FALSE /\ caught_alrm' = TRUE
    /\ exp_read' = IF exp_read = "in" THEN "no" ELSE exp_read
    /\ UNCHANGED <<chat, k, dial, inbuf, frames, heard, sent, count>>

\* exp_read returns -1 as a size_t, which is never less than 0: nobody notices
\* that there is no new character.  The loop that skips goes round for ever.
Spin ==
    /\ dial = "skip" /\ exp_read = "no" /\ caught_alrm
    /\ UNCHANGED chatVars

\* And the others leave inbuf, until they meet the string in what is behind it,
\* or memory ends.
Overrun ==
    /\ dial \in {"fill", "match"} /\ exp_read = "no" /\ caught_alrm
    /\ \E l \in {"got", "segv"} : Go(l)
    /\ UNCHANGED <<chat, k, inbuf, exp_read, caught_alrm, armed, frames, heard, sent, count>>

\* alarm(0), and tty_dial goes on with a string to send, if there is one.
Got ==
    /\ dial = "got"
    /\ armed' = FALSE /\ sent' = <<>>
    /\ IF k = Len(chat) THEN Go("dialled") /\ UNCHANGED <<k, frames>>
       ELSE Go("send") /\ k' = k + 1 /\ frames' = <<[str |-> chat[k + 1], at |-> 1, echocheck |-> FALSE]>>
    /\ UNCHANGED <<chat, inbuf, exp_read, caught_alrm, heard, count>>

-----------------------------------------------------------------------------
(* send_str. *)

Top   == Last(frames)
Item  == Top.str[Top.at]
AtEnd == Top.at > Len(Top.str)
Step(f) == [f EXCEPT !.at = @ + 1]

\* The innermost call returns.
Return ==
    /\ frames' = Front(frames)
    /\ Go(IF Len(frames) = 1 THEN "sentall" ELSE "send")

Sending == dial = "send" /\ frames # <<>>

\* A character, then its echo if that is to be checked.
SendChar ==
    /\ Sending /\ ~AtEnd /\ IsChar(Item)
    /\ sent' = Append(sent, Char(Item))
    /\ IF Top.echocheck THEN Go("echo") /\ UNCHANGED frames
       ELSE frames' = Append(Front(frames), Step(Top)) /\ UNCHANGED dial
    /\ UNCHANGED <<chat, k, inbuf, exp_read, caught_alrm, armed, heard, count>>

Echo(x) ==
    /\ dial = "echo" /\ count < MaxHeard
    /\ count' = count + 1
    /\ IF x # Char(Item) THEN UNCHANGED <<dial, frames>>
       ELSE Go("send") /\ frames' = Append(Front(frames), Step(Top))
    /\ UNCHANGED <<chat, k, inbuf, exp_read, caught_alrm, armed, heard, sent>>

\* \d, \p, \e, \E and \T, and \c before the end.
SendSpecial ==
    /\ Sending /\ ~AtEnd /\ Item.esc /\ Item.c \in {"c", "d", "p", "e", "E", "T"}
    /\ ~(Item.c = "c" /\ Top.at = Len(Top.str))
    /\ LET f == CASE Item.c = "e" -> [Step(Top) EXCEPT !.echocheck = FALSE]
                  [] Item.c = "E" -> [Step(Top) EXCEPT !.echocheck = TRUE]
                  [] OTHER        -> Step(Top)
           call == IF Item.c = "T" THEN <<[str |-> Phone, at |-> 1, echocheck |-> Top.echocheck]>> ELSE <<>>
       IN  frames' = Append(Front(frames), f) \o call
    /\ UNCHANGED <<chat, k, dial, inbuf, exp_read, caught_alrm, armed, heard, sent, count>>

\* \c at the end: no CR.
NoCr ==
    /\ Sending /\ ~AtEnd /\ Item = Slash("c") /\ Top.at = Len(Top.str)
    /\ Return
    /\ UNCHANGED <<chat, k, inbuf, exp_read, caught_alrm, armed, heard, sent, count>>

Cr ==
    /\ Sending /\ AtEnd
    /\ sent' = Append(sent, "CR") /\ Return
    /\ UNCHANGED <<chat, k, inbuf, exp_read, caught_alrm, armed, heard, count>>

\* The outer call does not look at what the call for the phone number returns.
BadSend ==
    /\ Sending /\ ~AtEnd /\ BadEscape(Item)
    /\ IF Len(frames) > 1 THEN Return ELSE Go("failed") /\ UNCHANGED frames
    /\ UNCHANGED <<chat, k, inbuf, exp_read, caught_alrm, armed, heard, sent, count>>

SentAll ==
    /\ dial = "sentall"
    /\ IF k = Len(chat) THEN Go("dialled") /\ UNCHANGED k ELSE Go("expect") /\ k' = k + 1
    /\ UNCHANGED <<chat, inbuf, exp_read, caught_alrm, armed, frames, heard, sent, count>>

\* The line is gone: log_sys, for a read or a write.
Hangup ==
    /\ (Expecting /\ exp_read = "in") \/ dial = "echo" \/ Sending
    /\ Go("exit")
    /\ UNCHANGED <<chat, k, inbuf, exp_read, caught_alrm, armed, frames, heard, sent, count>>

-----------------------------------------------------------------------------
ChatInit ==
    /\ chat \in Chats /\ k = 1 /\ dial = "expect"
    /\ inbuf = <<>> /\ exp_read = "no" /\ caught_alrm = FALSE /\ armed = FALSE
    /\ frames = <<>> /\ heard = <<>> /\ sent = <<>> /\ count = 0

TtyDial ==
    \/ ExpectNothing \/ BadExpect \/ Expect \/ TestFlag \/ EnterRead \/ Spin \/ Overrun \/ Got
    \/ SendChar \/ SendSpecial \/ NoCr \/ Cr \/ BadSend \/ SentAll

ChatNext == TtyDial \/ SigAlrm \/ Hangup \/ \E x \in Chars : Hear(x) \/ Echo(x)

-----------------------------------------------------------------------------
(* Properties. *)

\* What an item is to send, with t for the phone number.
Piece(it, t) == IF it = Slash("T") THEN t ELSE IF IsChar(it) THEN <<Char(it)>> ELSE <<>>

\* What a string is to send: its items up to the first bad escape, or all of them
\* and a return, unless the last one is \c.
Text(str, t) ==
    LET n == Min({i \in DOMAIN str : BadEscape(str[i])} \cup {Len(str) + 1}) - 1
    IN  FlattenSeq([i \in 1 .. n |-> Piece(str[i], t)])
        \o (IF n < Len(str) \/ (str # <<>> /\ Last(str) = Slash("c")) THEN <<>> ELSE <<"CR">>)

\* expect_str, when it was in time, returns with the first occurrence of its
\* string and not a character later, although what it skips and what it
\* compares overlap; and send_str has by then written its string with the phone
\* number in it, each character once, with or without echo.
ChatExact ==
    /\ dial = "got" /\ ~caught_alrm /\ chat[k] # Nothing =>
          /\ IsSuffix(Expstr, heard)
          /\ \A n \in 0 .. Len(heard) - 1 : ~IsSuffix(Expstr, SubSeq(heard, 1, n))
    /\ dial = "sentall" => sent = Text(chat[k], Text(Phone, <<>>))

\* "return 0 if got it, -1 if not" (expectstr.c:32): with its alarm running
\* expect_str comes to an end.  But a timeout is not noticed.
ExpectReturns == armed ~> ~Expecting

=============================================================================
