------------------------------- MODULE MCOpend ------------------------------
(* Three clients of the open server, for TLC. *)
EXTENDS Opend, TLC

CONSTANTS c1, c2, c3

MCAsks == (c1 :> {"f", "long"} @@ c2 :> {"m"} @@ c3 :> {"two words"})
MCMaxOpens == (c1 :> 2 @@ c2 :> 1 @@ c3 :> 1)

=============================================================================
