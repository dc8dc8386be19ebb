----------------------------- MODULE MCRpcAccept ------------------------------
(***************************************************************************)
(* RpcAccept for TLC: two clients of Accept and one over HTTP.             *)
(***************************************************************************)
EXTENDS RpcAccept

CONSTANTS c1, c2, h1
===============================================================================
