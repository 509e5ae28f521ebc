------------------------------ MODULE MCPiHost ------------------------------
(* PiHost on a small instance, given in the .cfg. *)
EXTENDS PiHost
=============================================================================
