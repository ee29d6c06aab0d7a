----------------------------- MODULE MCRpcSession -----------------------------
(***************************************************************************)
(* Small settings for RpcSession: two device keys, one tracker.            *)
(***************************************************************************)
EXTENDS RpcSession
=============================================================================
