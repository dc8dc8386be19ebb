------------------------------ MODULE RpcAccept -------------------------------
(***************************************************************************)
(* The connections of one geeRpc server: Accept takes them one after the   *)
(* other from its listener, and ServeHTTP those that net/http was sent.    *)
(*                                                                         *)
(* Accept calls ServeConn and goes on when that returns.  What ServeConn   *)
(* does with a connection is the subject of RpcServer; here it returns     *)
(* when its peer has gone, or when it refuses the Option.                  *)
(***************************************************************************)
EXTENDS Sequences, SequencesExt

CONSTANTS
    Conns,   \* connections of clients that dial the listener of Accept
    Https,   \* connections of clients that dial net/http, with HTTP@addr
    None     \* Accept is waiting for a connection

VARIABLES
    peer,     \* where each client is: "away", "connected" or "gone"
    backlog,  \* the connections the listener has and Accept has not taken
    serving,  \* the connection whose ServeConn Accept is in, or None
    served,   \* the connections ServeConn was called for
    closed    \* the connections the server has closed

vars == <<peer, backlog, serving, served, closed>>

Init ==
    /\ peer = [c \in Conns \cup Https |-> "away"]
    /\ backlog = <<>>
    /\ serving = None
    /\ served = {} /\ closed = {}

Connect(c) ==
    /\ peer[c] = "away"
    /\ peer' = [peer EXCEPT ![c] = "connected"]
    /\ backlog' = IF c \in Conns THEN Append(backlog, c) ELSE backlog
    /\ UNCHANGED <<serving, served, closed>>

Leave(c) ==
    /\ peer[c] = "connected"
    /\ peer' = [peer EXCEPT ![c] = "gone"]
    /\ UNCHANGED <<backlog, serving, served, closed>>

\* lis.Accept returns a connection, and ServeConn is called with it.  When it returns
\* an error the loop goes on, and nothing has changed.
Accept ==
    /\ serving = None /\ backlog # <<>>
    /\ serving' = Head(backlog)
    /\ backlog' = Tail(backlog)
    /\ served' = served \cup {Head(backlog)}
    /\ UNCHANGED <<peer, closed>>

Return ==
    /\ closed' = closed \cup {serving}
    /\ serving' = None
    /\ UNCHANGED <<peer, backlog, served>>

\* ServeConn returns, its deferred Close closes the connection.
PeerEnds == serving # None /\ peer[serving] = "gone" /\ Return
OptionRefused == serving # None /\ Return

\* ServeHTTP waits for the method CONNECTED, and a client sends CONNECT: it is
\* answered 405, and NewHTTPClient fails.
ServeHTTP(c) ==
    /\ c \in Https \ closed /\ peer[c] = "connected"
    /\ closed' = closed \cup {c}
    /\ UNCHANGED <<peer, backlog, serving, served>>

Next ==
    \/ \E c \in Conns \cup Https : Connect(c) \/ Leave(c) \/ ServeHTTP(c)
    \/ Accept \/ PeerEnds \/ OptionRefused

Spec == Init /\ [][Next]_vars

(***************************************************************************)
(* Fairness: the goroutine of Accept runs when it can, and so does that of *)
(* an HTTP connection.  Clients need not come, nor leave; nor is an Option *)
(* ever refused by need.                                                   *)
(***************************************************************************)
FairSpec ==
    /\ Spec
    /\ WF_vars(Accept) /\ WF_vars(PeerEnds)
    /\ \A c \in Https : WF_vars(ServeHTTP(c))

\* server.go:117: a connection that is served does not keep Accept from the next.
AcceptGoesOn == \A c \in Conns : Contains(backlog, c) ~> c \in served
===============================================================================
