------------------------------ MODULE CondWait ------------------------------
(***************************************************************************)
(* Condition variables: the message queue of threads/condvar.c, and        *)
(* threadctl/suspend.c, where main waits for a flag that a signal-handling *)
(* thread sets.  What runs under the mutex is one step; pthread_cond_wait  *)
(* gives it up and sleeps in one step, and may return for no reason.       *)
(***************************************************************************)
EXTENDS Naturals, Sequences, FiniteSets

CONSTANTS
    Workers,     \* threads in process_msg
    Msgs,        \* messages; each is enqueued once, by a thread of its own
    MaxInts      \* a bound on the SIGINTs

VARIABLES
    workq,       \* the messages in the queue, the newest first
    wpc,         \* wpc[w]: "look" at the queue, or "wait"
    mpc,         \* mpc[m]: where enqueue_msg(m) is
    done,        \* history: how often each message was processed
    sigs,        \* signals that are pending
    ints,        \* SIGINTs that were sent
    quitflag,
    tpc,         \* thr_fn
    main         \* main of suspend.c

condVars == <<workq, wpc, mpc, done, sigs, ints, quitflag, tpc, main>>
msgVars  == <<workq, wpc, mpc, done>>
sigVars  == <<sigs, ints, quitflag, tpc, main>>

-----------------------------------------------------------------------------
(* condvar.c. *)

\* process_msg: wait while the queue is empty; else take the first message.
ProcessMsg(w) ==
    /\ wpc[w] = "look"
    /\ IF workq = <<>> THEN wpc' = [wpc EXCEPT ![w] = "wait"] /\ UNCHANGED <<workq, done>>
       ELSE /\ workq' = Tail(workq)
            /\ done' = [done EXCEPT ![Head(workq)] = @ + 1]
            /\ UNCHANGED wpc
    /\ UNCHANGED <<mpc, sigVars>>

Spurious(w) ==
    /\ wpc[w] = "wait" /\ wpc' = [wpc EXCEPT ![w] = "look"]
    /\ UNCHANGED <<workq, mpc, done, sigVars>>

Enqueue(m) ==
    /\ mpc[m] = "start"
    /\ workq' = <<m>> \o workq
    /\ mpc' = [mpc EXCEPT ![m] = "signal"]
    /\ UNCHANGED <<wpc, done, sigVars>>

Wakes == {w \in Workers : wpc[w] = "wait"}

MutNoSignal(m) ==
    /\ mpc[m] = "signal" /\ mpc' = [mpc EXCEPT ![m] = "done"]
    /\ UNCHANGED <<workq, wpc, done, sigVars>>

\* pthread_cond_signal, after the unlock.
Signal(m) ==
    /\ mpc[m] = "signal" /\ mpc' = [mpc EXCEPT ![m] = "done"]
    /\ IF Wakes = {} THEN UNCHANGED wpc
       ELSE \E w \in Wakes : wpc' = [wpc EXCEPT ![w] = "look"]
    /\ UNCHANGED <<workq, done, sigVars>>

-----------------------------------------------------------------------------
(* suspend.c.  SIGINT and SIGQUIT are blocked in both threads. *)

Kill(s) ==
    /\ main # "end"
    /\ \/ s = "int" /\ ints < MaxInts /\ ints' = ints + 1
       \/ s = "quit" /\ UNCHANGED ints
    /\ sigs' = sigs \cup {s}
    /\ UNCHANGED <<quitflag, tpc, main, msgVars>>

\* sigwait takes one of the pending signals.
SigwaitInt ==
    /\ tpc = "sigwait" /\ "int" \in sigs
    /\ sigs' = sigs \ {"int"}
    /\ UNCHANGED <<ints, quitflag, tpc, main, msgVars>>

SigwaitQuit ==
    /\ tpc = "sigwait" /\ "quit" \in sigs
    /\ sigs' = sigs \ {"quit"} /\ tpc' = "set"
    /\ UNCHANGED <<ints, quitflag, main, msgVars>>

SetQuit ==
    /\ tpc = "set" /\ quitflag' = TRUE /\ tpc' = "signal"
    /\ UNCHANGED <<sigs, ints, main, msgVars>>

SignalMain ==
    /\ tpc = "signal" /\ tpc' = "return"
    /\ main' = IF main = "wait" THEN "look" ELSE main
    /\ UNCHANGED <<sigs, ints, quitflag, msgVars>>

LookAtFlag ==
    /\ main = "look" /\ main' = IF quitflag THEN "reset" ELSE "wait"
    /\ UNCHANGED <<sigs, ints, quitflag, tpc, msgVars>>

MainWakes ==
    /\ main = "wait" /\ main' = "look" /\ UNCHANGED <<sigs, ints, quitflag, tpc, msgVars>>

\* The old mask is back: a SIGQUIT or SIGINT that is still pending ends the
\* process, and so does exit.
Reset ==
    /\ main = "reset" /\ quitflag' = FALSE /\ main' = "end"
    /\ UNCHANGED <<sigs, ints, tpc, msgVars>>

-----------------------------------------------------------------------------
CondInit ==
    /\ workq = <<>> /\ wpc = [w \in Workers |-> "look"]
    /\ mpc = [m \in Msgs |-> "start"] /\ done = [m \in Msgs |-> 0]
    /\ sigs = {} /\ ints = 0 /\ quitflag = FALSE /\ tpc = "sigwait" /\ main = "look"

Thread == main # "end" /\ (SigwaitInt \/ SigwaitQuit \/ SetQuit \/ SignalMain)
Main   == LookAtFlag \/ Reset

MsgNext == \/ \E w \in Workers : ProcessMsg(w) \/ Spurious(w)
           \/ \E m \in Msgs : Enqueue(m) \/ Signal(m)
SigNext == Thread \/ Main \/ MainWakes \/ Kill("int") \/ Kill("quit")

-----------------------------------------------------------------------------
\* No wakeup is lost: each message that is enqueued is processed once, also if
\* its signal comes when nobody waits or wakes a thread for which the message
\* is gone; and main of suspend.c goes on after a SIGQUIT, among SIGINTs,
\* whether it was waiting or not.
NoLostWakeup ==
    /\ \A m \in Msgs : mpc[m] # "start" ~> done[m] = 1
    /\ "quit" \in sigs ~> main = "end"

=============================================================================
