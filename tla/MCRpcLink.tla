----------------------------- MODULE MCRpcLink -----------------------------
(* RpcLink on a small instance, given in the .cfg. *)
EXTENDS RpcLink
=============================================================================
