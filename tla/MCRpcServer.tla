---------------------------- MODULE MCRpcServer ----------------------------
(***************************************************************************)
(* RpcServer for TLC: two requests on one connection, so that a refused    *)
(* request, its goroutines and those of another one interleave.            *)
(***************************************************************************)
EXTENDS RpcServer

CONSTANTS r1, r2
==============================================================================
