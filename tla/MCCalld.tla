------------------------------- MODULE MCCalld ------------------------------
(* Two calls over two lines, for TLC. *)
EXTENDS Calld

CONSTANTS c1, c2

\* near has two entries; the second line is direct, and slow.  far shares the
\* first line, and its second entry has no device.
MCSystems == <<[name |-> "near", type |-> "ACU", class |-> "fast"],
               [name |-> "far",  type |-> "ACU", class |-> "fast"],
               [name |-> "near", type |-> "tty", class |-> "slow"],
               [name |-> "far",  type |-> "tty", class |-> "fast"]>>
MCDevices == <<[type |-> "ACU", class |-> "fast", line |-> "l1", dialer |-> "modem"],
               [type |-> "tty", class |-> "slow", line |-> "l2", dialer |-> "direct"]>>

MCWant == [c \in Clients |->
    IF c = c1 THEN {[sysname |-> "near", speed |-> AnySpeed], [sysname |-> "near", speed |-> "slow"]}
              ELSE {[sysname |-> "far", speed |-> AnySpeed], [sysname |-> "moon", speed |-> AnySpeed]}]

=============================================================================
