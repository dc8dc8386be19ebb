---------------------------- MODULE MCRpcClient ----------------------------
(***************************************************************************)
(* RpcClient for TLC: one goroutine in Call and one that issues two Go     *)
(* calls on a shared Done channel with room for one.  While it is in its   *)
(* second Go the channel may be full of the first call, and call.done()    *)
(* blocks: in receive(), in terminateCalls or in send itself.              *)
(***************************************************************************)
EXTENDS RpcClient

CONSTANTS c1, a1, a2

\* One request is answered twice, as handleRequest may do.
MCMaxAnswers == [c \in Calls |-> IF c = a1 THEN 2 ELSE 1]
==============================================================================
