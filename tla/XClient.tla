------------------------------- MODULE XClient -------------------------------
(***************************************************************************)
(* The XClient of geeRpc/client.go: it keeps one Client per server address,*)
(* dials when it has none that is available, and sends a call to one       *)
(* server (Call) or to all of them (BroadCast).  Dialling runs NewClient   *)
(* in a goroutine that races with a time limit (dialTimeOut).              *)
(*                                                                         *)
(* x.clients is a plain map that dial uses without x.mu.  Every access is  *)
(* a step of its own.  Where two goroutines could make theirs at the same  *)
(* time and one of them writes, the Go runtime may also stop the program   *)
(* (MapThrow).                                                             *)
(*                                                                         *)
(* dial declares a second variable client (line 86) and returns the first, *)
(* nil, to the call it dialled for, which then panics.  A user's goroutine *)
(* may recover from this and the program goes on with the cached client;   *)
(* nobody can recover a goroutine of BroadCast, so that the program ends.  *)
(***************************************************************************)
EXTENDS Naturals, FiniteSets

CONSTANTS
    Users,        \* goroutines that run XClient.Call, once each
    Addrs,        \* addresses of servers; also BroadCast's goroutine for the address
    None          \* nil

Goroutines == Users \cup Addrs

ASSUME XClientAssumption ==
    /\ Users \cap Addrs = {}
    /\ None \notin Goroutines

VARIABLES
    crashed,    \* what ended the program: "no", "nil", "set" or "map"
    \* the XClient; a Client is named after the goroutine that dialled it
    clients,    \* x.clients: the Client of an address, or None
    http,       \* the addresses of the form HTTP@...
    \* the calls
    pc,         \* the point a goroutine has reached
    addr,       \* the address it calls, None before
    used,       \* the Client it is calling, or None
    result,     \* what its call returned: "none", "nil", "err" or "cancelled"
    \* dialTimeOut, per goroutine
    f,          \* the goroutine that creates the Client: "none", "running" or "sent"
    conn,       \* the connection: "none", "open" or "closed"
    status,     \* the Client: "none", "available" or "unavailable"
    \* BroadCast
    bc,         \* "idle", "running", "failed" or "returned"
    targets,    \* the servers it calls
    bcReply,    \* reply # nil
    e,          \* its variable e: "none", "err" or "cancelled"
    cancelled,  \* cancel() was called
    \* XClient.Close
    closer,     \* "idle", "visit", "delete" or "done"
    closing,    \* the address the loop is at, or None
    left        \* the addresses in the map at the start that it has not visited

xclient == <<clients, http>>
calls == <<pc, addr, used, result>>
dials == <<f, conn, status>>
broadcast == <<bc, targets, bcReply, e, cancelled>>
closes == <<closer, closing, left>>
vars == <<crashed, xclient, calls, dials, broadcast, closes>>

Init ==
    /\ crashed = "no"
    /\ clients = [a \in Addrs |-> None]
    /\ http \in SUBSET Addrs
    /\ pc = [g \in Goroutines |-> "idle"]
    /\ addr = [g \in Goroutines |-> None]
    /\ used = [g \in Goroutines |-> None]
    /\ result = [g \in Goroutines |-> "none"]
    /\ f = [g \in Goroutines |-> "none"]
    /\ conn = [g \in Goroutines |-> "none"]
    /\ status = [g \in Goroutines |-> "none"]
    /\ bc = "idle" /\ targets = {}
    /\ bcReply = FALSE
    /\ e = "none" /\ cancelled = FALSE
    /\ closer = "idle" /\ closing = None /\ left = {}

\* The call of g returns: to the user, or to the critical section in BroadCast.
Return(g, r) ==
    /\ result' = [result EXCEPT ![g] = r]
    /\ used' = [used EXCEPT ![g] = None]
    /\ pc' = [pc EXCEPT ![g] = IF g \in Users THEN "returned" ELSE "section"]

Go(g, from, to) == pc[g] = from /\ pc' = [pc EXCEPT ![g] = to]

-----------------------------------------------------------------------------
(* XClient.Call and XClient.dial.                                          *)

\* x.d.Get picks a server.
Select(u, a) ==
    /\ Go(u, "idle", "lookup")
    /\ addr' = [addr EXCEPT ![u] = a]
    /\ UNCHANGED <<crashed, xclient, used, result, dials, broadcast, closes>>

\* The list of servers is empty, or cannot be refreshed, or RoundRobinSelect's index
\* is beyond it; the user recovers this panic as well.
SelectFails(u) ==
    /\ pc[u] = "idle"
    /\ Return(u, "err")
    /\ UNCHANGED <<crashed, xclient, addr, dials, broadcast, closes>>

Cached(g) == clients[addr[g]]

LookupNone(g) ==
    /\ pc[g] = "lookup" /\ Cached(g) = None
    /\ Go(g, "lookup", "connect")
    /\ UNCHANGED <<crashed, xclient, addr, used, result, dials, broadcast, closes>>

LookupAvailable(g) ==
    /\ pc[g] = "lookup" /\ Cached(g) # None
    /\ status[Cached(g)] = "available"
    /\ Go(g, "lookup", "call")
    /\ used' = [used EXCEPT ![g] = Cached(g)]
    /\ UNCHANGED <<crashed, xclient, addr, result, dials, broadcast, closes>>

\* client.Close() changes nothing for a Client that is not available.
LookupUnavailable(g) ==
    /\ pc[g] = "lookup" /\ Cached(g) # None
    /\ status[Cached(g)] = "unavailable"
    /\ Go(g, "lookup", "drop")
    /\ UNCHANGED <<crashed, xclient, addr, used, result, dials, broadcast, closes>>

\* delete(x.clients, rpcAddr)
Drop(g) ==
    /\ Go(g, "drop", "connect")
    /\ clients' = [clients EXCEPT ![addr[g]] = None]
    /\ UNCHANGED <<crashed, http, addr, used, result, dials, broadcast, closes>>

\* MUTANT: the new Client is not put in the map.
StoreNothing(g) ==
    /\ pc[g] = "store"
    /\ IF g \in Users
       THEN pc' = [pc EXCEPT ![g] = "panicked"] /\ UNCHANGED crashed
       ELSE crashed' = "nil" /\ UNCHANGED pc
    /\ UNCHANGED <<xclient, addr, used, result, dials, broadcast, closes>>

\* x.clients[rpcAddr] = client; dial returns nil, and client.Call panics on it.
Store(g) ==
    /\ pc[g] = "store"
    /\ clients' = [clients EXCEPT ![addr[g]] = g]
    /\ IF g \in Users
       THEN pc' = [pc EXCEPT ![g] = "panicked"] /\ UNCHANGED crashed
       ELSE crashed' = "nil" /\ UNCHANGED pc
    /\ UNCHANGED <<http, addr, used, result, dials, broadcast, closes>>

-----------------------------------------------------------------------------
(* XDial and dialTimeOut.                                                  *)

\* The address is malformed, or net.DialTimeout fails.
ConnectFails(g) ==
    /\ pc[g] = "connect"
    /\ Return(g, "err")
    /\ UNCHANGED <<crashed, xclient, addr, dials, broadcast, closes>>

Connect(g) ==
    /\ Go(g, "connect", "await")
    /\ conn' = [conn EXCEPT ![g] = "open"]
    /\ f' = [f EXCEPT ![g] = "running"]
    /\ UNCHANGED <<crashed, xclient, addr, used, result, status, broadcast, closes>>

\* NewClient encodes the Option and starts the Client.
NewClient(g) ==
    /\ f[g] = "running"
    /\ conn[g] = "open" /\ addr[g] \notin http
    /\ f' = [f EXCEPT ![g] = "sent"]
    /\ status' = [status EXCEPT ![g] = "available"]
    /\ UNCHANGED <<crashed, xclient, calls, conn, broadcast, closes>>

\* NewClient cannot write the Option and closes the connection.  It does not for a
\* codec it does not know, nor does NewHTTPClient, which gets no answer it accepts
\* (the server answers CONNECT with 405): this is left to the deferred function.
NewClientFails(g) ==
    /\ f[g] = "running"
    /\ f' = [f EXCEPT ![g] = "sent"]
    /\ \/ UNCHANGED conn
       \/ addr[g] \notin http /\ conn' = [conn EXCEPT ![g] = "closed"]
    /\ UNCHANGED <<crashed, xclient, calls, status, broadcast, closes>>

\* result := <-ch with a Client.
DialReturns(g) ==
    /\ f[g] = "sent" /\ status[g] # "none"
    /\ Go(g, "await", "store")
    /\ UNCHANGED <<crashed, xclient, addr, used, result, dials, broadcast, closes>>

\* MUTANT: the deferred function does not close the connection.
DialFailsOpen(g) ==
    /\ pc[g] = "await"
    /\ Return(g, "err")
    /\ UNCHANGED <<crashed, xclient, addr, dials, broadcast, closes>>

\* An error from ch or, at any point, the time limit (without one there are fewer
\* behaviours): the deferred function closes the connection, also when the goroutine
\* has a Client for it by now or soon.
DialFails(g) ==
    /\ pc[g] = "await"
    /\ Return(g, "err")
    /\ conn' = [conn EXCEPT ![g] = "closed"]
    /\ UNCHANGED <<crashed, xclient, addr, f, status, broadcast, closes>>

-----------------------------------------------------------------------------
(* The Clients (see RpcClient).                                            *)

\* The connection was closed by DialFails, or is ended by the server or the network;
\* receive() ends and sets shutdown.
ReceiveEnds(g) ==
    /\ status[g] = "available"
    /\ status' = [status EXCEPT ![g] = "unavailable"]
    /\ conn' = [conn EXCEPT ![g] = "closed"]
    /\ UNCHANGED <<crashed, xclient, calls, f, broadcast, closes>>

\* registerCall refuses the call of a Client that is not available any more.
CallRefused(g) ==
    /\ pc[g] = "call" /\ status[used[g]] = "unavailable"
    /\ Return(g, "err")
    /\ UNCHANGED <<crashed, xclient, addr, dials, broadcast, closes>>

CallSent(g) ==
    /\ pc[g] = "call" /\ status[used[g]] = "available"
    /\ Go(g, "call", "sent")
    /\ UNCHANGED <<crashed, xclient, addr, used, result, dials, broadcast, closes>>

CallReturns(g) ==
    /\ pc[g] = "sent"
    /\ \E r \in {"nil", "err"} : Return(g, r)
    /\ UNCHANGED <<crashed, xclient, addr, dials, broadcast, closes>>

\* BroadCast's own cancel() ends the Call of another of its goroutines.
CallCancelled(g) ==
    /\ g \in Addrs /\ cancelled
    /\ pc[g] = "sent"
    /\ Return(g, "cancelled")
    /\ UNCHANGED <<crashed, xclient, addr, dials, broadcast, closes>>

-----------------------------------------------------------------------------
(* BroadCast.                                                              *)

\* GetAll, and a goroutine per server.
BroadCast ==
    /\ bc = "idle"
    /\ \E servers \in SUBSET Addrs :
        /\ targets' = servers
        /\ pc' = [g \in Goroutines |-> IF g \in servers THEN "lookup" ELSE pc[g]]
        /\ addr' = [g \in Goroutines |-> IF g \in servers THEN g ELSE addr[g]]
    /\ bcReply' \in BOOLEAN
    /\ bc' = "running"
    /\ UNCHANGED <<crashed, xclient, used, result, dials, e, cancelled, closes>>

\* GetAll cannot refresh its list.
BroadCastFails ==
    /\ bc = "idle"
    /\ bc' = "failed"
    /\ UNCHANGED <<crashed, xclient, calls, dials, targets, bcReply, e, cancelled, closes>>

\* MUTANT: cancel() is called before mu is locked to keep the error.
CancelFirst(a) ==
    /\ pc[a] = "section" /\ result[a] # "nil"
    /\ cancelled' = TRUE
    /\ IF cancelled
       THEN /\ e' = IF e = "none" THEN result[a] ELSE e
            /\ pc' = [pc EXCEPT ![a] = "returned"]
       ELSE UNCHANGED <<e, pc>>
    /\ UNCHANGED <<crashed, xclient, addr, used, result, dials, bc, targets, bcReply, closes>>

\* The call failed: the first error is kept and cancels the others.
SectionError(a) ==
    /\ result[a] # "nil"
    /\ Go(a, "section", "returned")
    /\ e' = IF e = "none" THEN result[a] ELSE e
    /\ cancelled' = TRUE
    /\ UNCHANGED <<crashed, xclient, addr, used, result, dials, bc, targets, bcReply, closes>>

SectionNoReply(a) ==
    /\ result[a] = "nil" /\ ~bcReply
    /\ Go(a, "section", "returned")
    /\ UNCHANGED <<crashed, xclient, addr, used, result, dials, broadcast, closes>>

\* reflect.ValueOf(reply) is the pointer itself, which cannot be Set.
SectionReply(a) ==
    /\ pc[a] = "section" /\ result[a] = "nil" /\ bcReply
    /\ crashed' = "set"
    /\ UNCHANGED <<xclient, calls, dials, broadcast, closes>>

\* wg.Wait()
BroadCastReturns ==
    /\ bc = "running"
    /\ \A a \in targets : pc[a] = "returned"
    /\ bc' = "returned"
    /\ UNCHANGED <<crashed, xclient, calls, dials, targets, bcReply, e, cancelled, closes>>

-----------------------------------------------------------------------------
(* XClient.Close: it holds x.mu, which nobody else takes.                  *)

Close ==
    /\ closer = "idle"
    /\ closer' = "visit"
    /\ left' = {a \in Addrs : clients[a] # None}
    /\ UNCHANGED <<crashed, xclient, calls, dials, broadcast, closing>>

\* A loop over a map may meet the entries that are added meanwhile, or not.
CloseVisit(a) ==
    /\ closer = "visit" /\ clients[a] # None
    /\ status' = [status EXCEPT ![clients[a]] = "unavailable"]
    /\ closing' = a
    /\ closer' = "delete"
    /\ left' = left \ {a}
    /\ UNCHANGED <<crashed, xclient, calls, f, conn, broadcast>>

CloseDelete ==
    /\ closer = "delete"
    /\ clients' = [clients EXCEPT ![closing] = None]
    /\ closer' = "visit" /\ closing' = None
    /\ UNCHANGED <<crashed, http, calls, dials, broadcast, left>>

CloseEnds ==
    /\ closer = "visit"
    /\ \A a \in left : clients[a] = None
    /\ closer' = "done" /\ left' = {}
    /\ UNCHANGED <<crashed, xclient, calls, dials, broadcast, closing>>

-----------------------------------------------------------------------------
(* The Go runtime ends a program in which a map is written while another   *)
(* goroutine reads or writes it, if it notices.                            *)
Writers ==
    {g \in Goroutines : pc[g] \in {"drop", "store"}}
        \cup (IF closer = "delete" THEN {None} ELSE {})
Accessing ==
    {g \in Goroutines : pc[g] \in {"lookup", "drop", "store"}}
        \cup (IF closer \in {"visit", "delete"} THEN {None} ELSE {})

MapThrow ==
    /\ \E g \in Writers, h \in Accessing : g # h
    /\ crashed' = "map"
    /\ UNCHANGED <<xclient, calls, dials, broadcast, closes>>

-----------------------------------------------------------------------------
Dial(g) ==
    \/ LookupNone(g) \/ LookupAvailable(g) \/ LookupUnavailable(g) \/ Drop(g)
    \/ ConnectFails(g) \/ Connect(g) \/ DialReturns(g) \/ DialFails(g) \/ Store(g)

CallStep(g) == CallRefused(g) \/ CallSent(g) \/ CallReturns(g) \/ CallCancelled(g)

Section(a) == SectionError(a) \/ SectionNoReply(a) \/ SectionReply(a)

CloseStep == CloseEnds \/ CloseDelete \/ \E a \in Addrs : CloseVisit(a)

\* The program has ended, or every goroutine in it has.
Terminated ==
    /\ \/ crashed # "no"
       \/ /\ \A u \in Users : pc[u] \in {"returned", "panicked"}
          /\ \A g \in Goroutines : f[g] # "running" /\ status[g] # "available"
          /\ bc \in {"failed", "returned"}
          /\ closer = "done"
    /\ UNCHANGED vars

Running ==
    /\ crashed = "no"
    /\ \/ \E u \in Users : SelectFails(u) \/ \E a \in Addrs : Select(u, a)
       \/ \E g \in Goroutines :
            \/ Dial(g) \/ CallStep(g)
            \/ NewClient(g) \/ NewClientFails(g) \/ ReceiveEnds(g)
       \/ BroadCast \/ BroadCastFails \/ BroadCastReturns
       \/ \E a \in Addrs : Section(a)
       \/ Close \/ CloseStep
       \/ MapThrow

Next == Running \/ Terminated

Spec == Init /\ [][Next]_vars

-----------------------------------------------------------------------------
(* Properties.                                                             *)

TypeOK ==
    /\ crashed \in {"no", "nil", "set", "map"}
    /\ clients \in [Addrs -> Goroutines \cup {None}]
    /\ http \subseteq Addrs
    /\ pc \in [Goroutines -> {"idle", "lookup", "drop", "connect", "await", "store", "call",
                             "sent", "section", "returned", "panicked"}]
    /\ addr \in [Goroutines -> Addrs \cup {None}]
    /\ used \in [Goroutines -> Goroutines \cup {None}]
    /\ \A g \in Goroutines : used[g] # None <=> pc[g] \in {"call", "sent"}
    /\ result \in [Goroutines -> {"none", "nil", "err", "cancelled"}]
    /\ f \in [Goroutines -> {"none", "running", "sent"}]
    /\ conn \in [Goroutines -> {"none", "open", "closed"}]
    /\ status \in [Goroutines -> {"none", "available", "unavailable"}]
    /\ bc \in {"idle", "running", "failed", "returned"} /\ targets \subseteq Addrs
    /\ bcReply \in BOOLEAN /\ cancelled \in BOOLEAN
    /\ e \in {"none", "err", "cancelled"}
    /\ closer \in {"idle", "visit", "delete", "done"}
    /\ closing \in Addrs \cup {None} /\ left \subseteq Addrs

\* Nothing is left of a dial that failed, however its time limit raced with the
\* goroutine that creates the Client: the connection is closed, and nobody uses
\* the Client that may have come too late (client.go:345).
FailedDialsVanish ==
    \A g \in Goroutines :
        f[g] # "none" /\ pc[g] \in {"section", "returned"} =>
            /\ conn[g] = "closed"
            /\ \A a \in Addrs : clients[a] # g
            /\ \A h \in Goroutines : used[h] # g

\* A Client that is available is in the map, where the next call and Close find it,
\* unless another dial to its address or Close got in its way.
AvailableIsCached ==
    \A g \in Goroutines :
        pc[g] = "panicked" /\ status[g] = "available" =>
            \/ clients[addr[g]] = g
            \/ closer # "idle"
            \/ \E h \in Goroutines \ {g} : addr[h] = addr[g] /\ f[h] # "none"

\* When BroadCast returns it reports an error if and only if one of its calls failed,
\* and never the cancellation that it caused itself.  This is the half of the promise
\* at client.go:114 that is about errors.  The other half, that a success returns its
\* result, the code does not keep: SectionReply ends the program (client.go:149).
FirstErrorReported ==
    /\ e # "cancelled"
    /\ bc = "returned" => (e = "none" <=> \A a \in targets : result[a] = "nil")

(***************************************************************************)
(* The inductive invariant behind the properties above.  A Client is in    *)
(* the map or in use only after its own dial has returned it; whoever      *)
(* found an unavailable one knows of a goroutine that dialled before; the  *)
(* first error is kept in the step that cancels the other calls.           *)
(***************************************************************************)
Dialled(c, a) == addr[c] = a /\ f[c] = "sent" /\ status[c] # "none"
                             /\ pc[c] \in {"store", "panicked"}

DialInv ==
    /\ \A g \in Goroutines :
        /\ f[g] = "none" <=> conn[g] = "none"
        /\ status[g] # "none" => f[g] = "sent"
        /\ pc[g] \in {"idle", "lookup", "drop", "connect", "call", "sent"} => f[g] = "none"
        /\ pc[g] \in {"await", "store", "panicked"} => f[g] # "none"
        /\ pc[g] \in {"lookup", "drop", "connect", "await", "store", "panicked"}
              => addr[g] # None
        /\ pc[g] \in {"store", "panicked"} => status[g] # "none"
        /\ pc[g] \in {"section", "returned"} => conn[g] # "open"
        /\ used[g] # None => Dialled(used[g], addr[used[g]])
        /\ pc[g] = "drop" =>
             \E c \in Goroutines : Dialled(c, addr[g]) /\ status[c] = "unavailable"
    /\ \A a \in Addrs : clients[a] # None => Dialled(clients[a], a)
    /\ closing # None <=> closer = "delete"
    /\ closer = "idle" => closing = None

TasksInv ==
    /\ e # "cancelled"
    /\ cancelled <=> e # "none"
    /\ bc = "returned" => \A a \in targets : pc[a] = "returned"
    /\ bc \in {"idle", "failed"} => targets = {}
    /\ \A u \in Users : pc[u] # "section"
    /\ \A g \in Goroutines : result[g] # "none" <=> pc[g] \in {"section", "returned"}
    /\ \A a \in Addrs :
        /\ pc[a] # "idle" <=> a \in targets
        /\ result[a] = "cancelled" => cancelled
        /\ e = "none" /\ pc[a] = "returned" => result[a] = "nil"
    /\ e # "none" => \E a \in targets : result[a] # "nil" /\ pc[a] = "returned"

IInv == TypeOK /\ DialInv /\ TasksInv /\ AvailableIsCached
==============================================================================
