------------------------------ MODULE MCPrintd ------------------------------
(* Instances of the print spooler for TLC. *)
EXTENDS Printd

CONSTANTS c1, c2, c3

=============================================================================
