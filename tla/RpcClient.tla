------------------------------ MODULE RpcClient ------------------------------
(***************************************************************************)
(* The RPC client of geeRpc/client.go: goroutines that call Call or Go on  *)
(* one Client, the goroutine that runs receive(), and the user's Close().  *)
(*                                                                         *)
(* A step of the model is what a goroutine does between two points where   *)
(* another one can interfere: a critical section of client.mu is one step  *)
(* (nothing inside it blocks), except in terminateCalls, which keeps mu    *)
(* locked while it sends on the calls' Done channels; client.sending is    *)
(* held over several steps.                                                *)
(*                                                                         *)
(* The connection and the server are the environment.  A request that was  *)
(* written can be answered up to MaxAnswers times, in any order and at any *)
(* time: handleRequest (geeRpc/server.go) answers a request more than once.*)
(***************************************************************************)
EXTENDS Naturals, FiniteSets

CONSTANTS
    SyncCalls,    \* goroutines in Call: a Done channel of their own (capacity 1) and a ctx
    AsyncCalls,   \* calls one user goroutine issues with Go, all on one Done channel
    DoneCap,      \* capacity of that shared channel
    MaxAnswers,   \* bound: responses the server sends to each request
    Receive,      \* the goroutine of receive()
    None          \* nil: no call, no lock holder, no reply

Calls == SyncCalls \cup AsyncCalls

\* Go() panics on an unbuffered channel, hence DoneCap > 0.
ASSUME ClientAssumption ==
    /\ SyncCalls \cap AsyncCalls = {}
    /\ Receive \notin Calls
    /\ None \notin Calls \cup {Receive}
    /\ DoneCap \in Nat \ {0}
    /\ MaxAnswers \in [Calls -> Nat]

VARIABLES
    \* the Client
    seq,        \* client.seq, the next sequence number
    header,     \* client.header.Seq, the header shared by all senders
    pending,    \* client.pending, a map from sequence numbers to calls
    closing,    \* client.closing
    shutdown,   \* client.shutdown
    sending,    \* the holder of client.sending, or None
    muHeld,     \* terminateCalls is between its Lock and its Unlock of client.mu
    \* the Calls
    callSeq,    \* call.Seq
    callErr,    \* call.Error: "nil" or "err"
    reply,      \* *call.Reply: the call whose answer was decoded into it, or None
    queued,     \* the calls that sit in their Done channel
    signals,    \* how often call.done() has completed
    \* the goroutines
    pc,         \* the point a caller has reached
    ret,        \* what the caller got: "none", "nil", "err" or "ctx"
    rcv,        \* the point receive() has reached
    rcvCall,    \* its variable call
    rcvErr,     \* its variable err
    rcvHdr,     \* the header being handled: whose request it answers, and h.Error # ""
    todo,       \* the entries of pending the loop in terminateCalls has not visited
    \* the connection
    conn,       \* "up", "lost" (by the network or the server) or "closed" (by this side)
    wire,       \* the sequence number a call's request was sent under, 0 before
    quota       \* answers the server may still send to the request

table  == <<seq, header, pending>>
flags  == <<closing, shutdown>>
client == <<table, flags, sending, muHeld>>
done   == <<queued, signals>>
calls  == <<callSeq, callErr, reply, done>>
users  == <<pc, ret>>
local  == <<rcvCall, rcvErr, rcvHdr>>
recvr  == <<rcv, local, todo>>
net    == <<conn, wire, quota>>
vars   == <<client, calls, users, recvr, net>>

NoHeader == [from |-> None, err |-> FALSE]

Init ==
    /\ seq = 1 /\ header = 0
    /\ pending = [s \in {} |-> None]
    /\ closing = FALSE /\ shutdown = FALSE
    /\ sending = None /\ muHeld = FALSE
    /\ callSeq = [c \in Calls |-> 0]
    /\ callErr = [c \in Calls |-> "nil"]
    /\ reply = [c \in Calls |-> None]
    /\ queued = {}
    /\ signals = [c \in Calls |-> 0]
    /\ pc = [c \in Calls |-> "idle"]
    /\ ret = [c \in Calls |-> "none"]
    /\ rcv = "header" /\ rcvCall = None /\ rcvErr = "nil"
    /\ rcvHdr = NoHeader
    /\ todo = {}
    /\ conn = "up"
    /\ wire = [c \in Calls |-> 0]
    /\ quota = [c \in Calls |-> 0]

-----------------------------------------------------------------------------
(* client.sending, and what the methods of Client do while they hold mu.   *)

\* MUTANT: the lock is taken whoever holds it.
SendingTaken == TRUE
SendingFree == sending = None

\* MUTANT: a way out of send or terminateCalls without Unlock.
KeepSending == UNCHANGED sending
UnlockSending == sending' = None

\* MUTANT: the flags are not looked at.
AlwaysAvailable == TRUE
IsAvailable == ~(shutdown \/ closing)

\* The call removeCall(s) returns, and the map it leaves.  Once the client is
\* closed or shut down nothing is looked up and nothing is deleted.
RemovedCall(s) ==
    IF IsAvailable /\ s \in DOMAIN pending THEN pending[s] ELSE None

\* MUTANT: the delete is forgotten.
PendingKept(s) == pending

PendingWithout(s) ==
    IF IsAvailable THEN [t \in DOMAIN pending \ {s} |-> pending[t]] ELSE pending

\* call.done() blocks while the Done channel of the call is full.
DoneFull(c) ==
    IF c \in SyncCalls THEN c \in queued
    ELSE Cardinality(queued \cap AsyncCalls) >= DoneCap

Done(c) ==
    /\ ~DoneFull(c)
    /\ queued' = queued \cup {c}
    /\ signals' = [signals EXCEPT ![c] = @ + 1]

-----------------------------------------------------------------------------
(* send(), run by a caller under client.sending.                           *)

\* The user goroutine is between two Go calls.
BetweenGoCalls == \A a \in AsyncCalls : pc[a] \in {"idle", "waiting", "returned"}

Begin(c) ==
    /\ pc[c] = "idle"
    /\ c \in AsyncCalls => BetweenGoCalls
    /\ pc' = [pc EXCEPT ![c] = "start"]
    /\ UNCHANGED <<client, calls, ret, recvr, net>>

LockSending(c) ==
    /\ pc[c] = "start"
    /\ SendingFree
    /\ sending' = c
    /\ pc' = [pc EXCEPT ![c] = "locked"]
    /\ UNCHANGED <<table, flags, muHeld, calls, ret, recvr, net>>

\* registerCall, and the assignments to client.header that follow it in send.
RegisterCall(c) ==
    /\ pc[c] = "locked"
    /\ ~muHeld
    /\ IsAvailable
    /\ callSeq' = [callSeq EXCEPT ![c] = seq]
    /\ pending' = [s \in DOMAIN pending \cup {seq} |->
                     IF s = seq THEN c ELSE pending[s]]
    /\ seq' = seq + 1
    /\ header' = seq
    /\ pc' = [pc EXCEPT ![c] = "registered"]
    /\ UNCHANGED <<flags, sending, muHeld, callErr, reply, done, ret, recvr, net>>

RegisterRefused(c) ==
    /\ pc[c] = "locked"
    /\ ~muHeld
    /\ ~IsAvailable
    /\ callErr' = [callErr EXCEPT ![c] = "err"]
    /\ pc' = [pc EXCEPT ![c] = "failed"]
    /\ UNCHANGED <<client, callSeq, reply, done, ret, recvr, net>>

\* cc.Write returns nil and send returns.  The codec drops the error of the
\* Flush, so this also happens on a dead connection: the request is then lost.
Write(c) ==
    /\ pc[c] = "registered"
    /\ wire' = [wire EXCEPT ![c] = header]
    /\ quota' = [quota EXCEPT ![c] = IF conn = "up" THEN MaxAnswers[c] ELSE 0]
    /\ UnlockSending
    /\ pc' = [pc EXCEPT ![c] = "waiting"]
    /\ UNCHANGED <<table, flags, muHeld, calls, ret, recvr, conn>>

\* cc.Write fails, because the arguments cannot be encoded or because an earlier
\* Flush failed, and closes the connection.  Its Flush may still send a header without
\* its body; what the server makes of it cannot come back on a closed connection.
WriteFails(c) ==
    /\ pc[c] = "registered"
    /\ conn' = "closed"
    /\ pc' = [pc EXCEPT ![c] = "writeFailed"]
    /\ UNCHANGED <<client, calls, ret, recvr, wire, quota>>

\* removeCall after a failed Write.  A nil call is left to whoever removed it.
RemoveUnsent(c) ==
    /\ pc[c] = "writeFailed"
    /\ ~muHeld
    /\ pending' = PendingWithout(callSeq[c])
    /\ IF RemovedCall(callSeq[c]) = None
       THEN /\ UnlockSending
            /\ pc' = [pc EXCEPT ![c] = "waiting"]
            /\ UNCHANGED callErr
       ELSE /\ callErr' = [callErr EXCEPT ![RemovedCall(callSeq[c])] = "err"]
            /\ pc' = [pc EXCEPT ![c] = "failed"]
            /\ UNCHANGED sending
    /\ UNCHANGED <<seq, header, flags, muHeld, callSeq, reply, done, ret, recvr, net>>

\* call.done() in send, after which send returns.
SendDone(c) ==
    /\ pc[c] = "failed"
    /\ Done(c)
    /\ UnlockSending
    /\ pc' = [pc EXCEPT ![c] = "waiting"]
    /\ UNCHANGED <<table, flags, muHeld, callSeq, callErr, reply, ret, recvr, net>>

-----------------------------------------------------------------------------
(* The user's side of the Done channels: the select of Call, the receive   *)
(* that follows a batch of Go calls, and Close.                            *)

TakeResult(c) ==
    /\ queued' = queued \ {c}
    /\ ret' = [ret EXCEPT ![c] = callErr[c]]
    /\ pc' = [pc EXCEPT ![c] = "returned"]
    /\ UNCHANGED <<client, callSeq, callErr, reply, signals, recvr, net>>

CallReturns(c) ==
    /\ c \in SyncCalls
    /\ pc[c] = "waiting" /\ c \in queued
    /\ TakeResult(c)

CtxDone(c) ==
    /\ c \in SyncCalls
    /\ pc[c] = "waiting"
    /\ pc' = [pc EXCEPT ![c] = "cancelled"]
    /\ UNCHANGED <<client, calls, ret, recvr, net>>

\* removeCall(call.Seq), and Call returns the context's error.
CancelCall(c) ==
    /\ pc[c] = "cancelled"
    /\ ~muHeld
    /\ pending' = PendingWithout(callSeq[c])
    /\ ret' = [ret EXCEPT ![c] = "ctx"]
    /\ pc' = [pc EXCEPT ![c] = "returned"]
    /\ UNCHANGED <<seq, header, flags, sending, muHeld, calls, recvr, net>>

Collect(c) ==
    /\ c \in AsyncCalls
    /\ BetweenGoCalls
    /\ c \in queued
    /\ TakeResult(c)

\* Close sets a flag; the connection stays open and receive keeps running.
Close ==
    /\ ~closing
    /\ ~muHeld
    /\ closing' = TRUE
    /\ UNCHANGED <<table, shutdown, sending, muHeld, calls, users, recvr, net>>

-----------------------------------------------------------------------------
(* receive().                                                              *)

\* ReadHeader returns an answer to the request of c; removeCall(h.Seq).
ReadHeader(c) ==
    /\ rcv = "header"
    /\ quota[c] > 0
    /\ ~muHeld
    /\ \E e \in BOOLEAN : rcvHdr' = [from |-> c, err |-> e]
    /\ quota' = [quota EXCEPT ![c] = @ - 1]
    /\ rcvCall' = RemovedCall(wire[c])
    /\ pending' = PendingWithout(wire[c])
    /\ rcv' = "body"
    /\ UNCHANGED <<seq, header, flags, sending, muHeld, calls, users, rcvErr, todo,
                   conn, wire>>

\* The err of the if statement hides receive's own err, which stays nil.
ReadHeaderFails ==
    /\ rcv = "header"
    /\ conn # "up"
    /\ rcv' = "exit"
    /\ UNCHANGED <<client, calls, users, local, todo, net>>

\* ReadBody succeeds: into nothing for a nil call and for an error response.
ReadBody ==
    /\ rcv = "body"
    /\ IF rcvCall = None
       THEN /\ rcv' = "header"
            /\ UNCHANGED <<callErr, reply>>
       ELSE /\ rcv' = "deliver"
            /\ IF rcvHdr.err
               THEN /\ callErr' = [callErr EXCEPT ![rcvCall] = "err"]
                    /\ UNCHANGED reply
               ELSE /\ reply' = [reply EXCEPT ![rcvCall] = rcvHdr.from]
                    /\ UNCHANGED callErr
    /\ rcvHdr' = NoHeader
    /\ UNCHANGED <<client, callSeq, done, users, rcvCall, rcvErr, todo, net>>

\* ReadBody fails, on the connection or because the body has another type.
ReadBodyFails ==
    /\ rcv = "body"
    /\ rcvErr' = "err"
    /\ IF rcvCall = None
       THEN rcv' = "exit" /\ UNCHANGED callErr
       ELSE rcv' = "deliver" /\ callErr' = [callErr EXCEPT ![rcvCall] = "err"]
    /\ rcvHdr' = NoHeader
    /\ UNCHANGED <<client, callSeq, reply, done, users, rcvCall, todo, net>>

\* call.done(), and the test of the for loop.
Deliver ==
    /\ rcv = "deliver"
    /\ Done(rcvCall)
    /\ rcvCall' = None
    /\ rcv' = IF rcvErr = "nil" THEN "header" ELSE "exit"
    /\ UNCHANGED <<client, callSeq, callErr, reply, users, rcvErr, rcvHdr, todo, net>>

(* terminateCalls(err): both locks, then every pending call.               *)

TerminateLockSending ==
    /\ rcv = "exit"
    /\ SendingFree
    /\ sending' = Receive
    /\ rcv' = "lockMu"
    /\ UNCHANGED <<table, flags, muHeld, calls, users, local, todo, net>>

TerminateLockMu ==
    /\ rcv = "lockMu"
    /\ muHeld' = TRUE
    /\ shutdown' = TRUE
    /\ todo' = DOMAIN pending
    /\ rcv' = "drain"
    /\ UNCHANGED <<table, closing, sending, calls, users, local, net>>

TerminateCall(s) ==
    /\ rcv = "drain"
    /\ s \in todo
    /\ callErr' = [callErr EXCEPT ![pending[s]] = rcvErr]
    /\ Done(pending[s])
    /\ todo' = todo \ {s}
    /\ UNCHANGED <<client, callSeq, reply, users, rcv, local, net>>

TerminateUnlock ==
    /\ rcv = "drain"
    /\ todo = {}
    /\ muHeld' = FALSE
    /\ UnlockSending
    /\ rcv' = "stopped"
    /\ UNCHANGED <<table, flags, calls, users, local, todo, net>>

-----------------------------------------------------------------------------
\* The server, the network or the operating system ends the connection.
ConnLost ==
    /\ conn = "up"
    /\ conn' = "lost"
    /\ UNCHANGED <<client, calls, users, recvr, wire, quota>>

\* Every goroutine has ended; the only state in which nothing can happen.
Terminated ==
    /\ \A c \in Calls : pc[c] = "returned"
    /\ rcv = "stopped"
    /\ closing
    /\ UNCHANGED vars

Send(c) ==
    \/ LockSending(c) \/ RegisterCall(c) \/ RegisterRefused(c)
    \/ Write(c) \/ WriteFails(c) \/ RemoveUnsent(c) \/ SendDone(c)

Terminate ==
    \/ TerminateLockSending \/ TerminateLockMu
    \/ \E s \in todo : TerminateCall(s)
    \/ TerminateUnlock

Next ==
    \/ \E c \in Calls :
        \/ Begin(c) \/ Send(c)
        \/ CallReturns(c) \/ CtxDone(c) \/ CancelCall(c) \/ Collect(c)
        \/ ReadHeader(c)
    \/ Close
    \/ ReadHeaderFails \/ ReadBody \/ ReadBodyFails \/ Deliver
    \/ Terminate
    \/ ConnLost
    \/ Terminated

Spec == Init /\ [][Next]_vars

(***************************************************************************)
(* Fairness: the Go scheduler runs every goroutine that can run.  Nothing  *)
(* is assumed of the user, who need not begin, close or read its shared    *)
(* Done channel (Begin, Close, Collect), of the server (ReadHeader) or of  *)
(* the network (ConnLost).  cc.Write ends, one way or the other; a context *)
(* has a deadline (main.go gives every Call one); a read ends once the     *)
(* connection is gone.                                                     *)
(***************************************************************************)
Fairness ==
    /\ \A c \in Calls :
        /\ WF_vars(Send(c))
        /\ WF_vars(CallReturns(c) \/ CtxDone(c))
        /\ WF_vars(CancelCall(c))
    /\ WF_vars(ReadHeaderFails)
    /\ WF_vars(conn # "up" /\ (ReadBody \/ ReadBodyFails))
    /\ WF_vars(Deliver)
    /\ WF_vars(Terminate)

FairSpec == Spec /\ Fairness

-----------------------------------------------------------------------------
(* Properties.                                                             *)

TypeOK ==
    /\ seq \in Nat \ {0} /\ header \in Nat
    /\ DOMAIN pending \subseteq Nat \ {0}
    /\ pending = [s \in DOMAIN pending |-> pending[s]]
    /\ \A s \in DOMAIN pending : pending[s] \in Calls
    /\ closing \in BOOLEAN /\ shutdown \in BOOLEAN /\ muHeld \in BOOLEAN
    /\ sending \in Calls \cup {Receive, None}
    /\ callSeq \in [Calls -> Nat]
    /\ callErr \in [Calls -> {"nil", "err"}]
    /\ reply \in [Calls -> Calls \cup {None}]
    /\ queued \subseteq Calls
    /\ signals \in [Calls -> Nat]
    /\ pc \in [Calls -> {"idle", "start", "locked", "registered", "writeFailed",
                         "failed", "waiting", "cancelled", "returned"}]
    /\ ret \in [Calls -> {"none", "nil", "err", "ctx"}]
    /\ rcv \in {"header", "body", "deliver", "exit", "lockMu", "drain", "stopped"}
    /\ rcvCall \in Calls \cup {None}
    /\ rcvErr \in {"nil", "err"}
    /\ rcvHdr \in [from : Calls \cup {None}, err : BOOLEAN]
    /\ todo \subseteq DOMAIN pending
    /\ conn \in {"up", "lost", "closed"}
    /\ wire \in [Calls -> Nat]
    /\ quota \in [Calls -> Nat]

\* No call is signalled twice, whoever races for it: its answer and a second
\* answer to it, its failed write, its expired context, terminateCalls.
DoneOnce == \A c \in Calls : signals[c] <= 1

\* An answer is decoded into the Reply of the call whose request it answers.
NoCrossedReplies == \A c \in Calls : reply[c] \in {c, None}

\* When receive() has ended nobody waits for a signal that will not come.
NoOrphan ==
    rcv = "stopped" =>
        \A c \in Calls : pc[c] = "waiting" => c \in queued

\* Once a call has returned its Reply is left alone, unless its context expired
\* while receive() was decoding the answer.
LateWriteOnlyAfterTimeout ==
    [][\A c \in Calls :
         pc[c] = "returned" /\ reply'[c] # reply[c] => ret[c] = "ctx"]_vars

\* The shared Done channel is full: its user does not read it, or is itself inside of
\* Go.  Whoever has to signal one of its calls waits: send with client.sending held,
\* receive(), or terminateCalls with both locks, on which every other call then waits.
DoneJam == Cardinality(queued \cap AsyncCalls) >= DoneCap

\* A call with a deadline returns, whatever the server and the connection do: the
\* only thing that stops it for good is a shared Done channel that stays full.
CallsReturn ==
    \A c \in SyncCalls : pc[c] = "start" ~> pc[c] = "returned" \/ []DoneJam

\* A dead connection ends receive() and every call in progress, with the same
\* exception: a Call returns, and what Go began is signalled for its user to read.
LostConnectionDrains ==
    conn # "up" ~> \/ /\ rcv = "stopped"
                      /\ \A c \in Calls : \/ pc[c] \in {"idle", "returned"}
                                          \/ c \in AsyncCalls \cap queued
                   \/ []DoneJam

(***************************************************************************)
(* The inductive invariant behind DoneOnce, NoOrphan, NoCrossedReplies and *)
(* LateWriteOnlyAfterTimeout.  The right to signal a call is a token: it   *)
(* is held by send, by the entry in pending or by receive(), or it is      *)
(* spent, and never held twice.                                            *)
(***************************************************************************)
Unregistered(c) == pc[c] \in {"idle", "start", "locked"}
HoldsSending(c) == pc[c] \in {"locked", "registered", "writeFailed", "failed"}
InPending(c) == callSeq[c] \in DOMAIN pending /\ pending[callSeq[c]] = c
ToSignal(c) == InPending(c) /\ (shutdown => callSeq[c] \in todo)

LockInv ==
    /\ \A c \in Calls : sending = c <=> HoldsSending(c)
    /\ sending = Receive <=> rcv \in {"lockMu", "drain"}
    /\ muHeld <=> rcv = "drain"
    /\ shutdown <=> rcv \in {"drain", "stopped"}
    /\ rcv # "drain" => todo = {}

SeqInv ==
    /\ \A c \in Calls : callSeq[c] < seq
    /\ \A c, d \in Calls : callSeq[c] = callSeq[d] /\ callSeq[c] # 0 => c = d
    /\ \A s \in DOMAIN pending : callSeq[pending[s]] = s
    /\ \A c \in Calls :
        /\ Unregistered(c) => callSeq[c] = 0
        /\ pc[c] = "registered" => header = callSeq[c]
        /\ quota[c] > 0 => wire[c] = callSeq[c] /\ ~Unregistered(c)

TokenInv ==
    /\ rcvCall # None => rcv \in {"body", "deliver"}
    /\ rcv = "deliver" => rcvCall # None
    /\ rcv = "body" /\ rcvCall # None => rcvHdr.from = rcvCall
    /\ \A c \in Calls :
        /\ ToSignal(c) \/ rcvCall = c \/ Unregistered(c) \/ pc[c] = "failed"
              => signals[c] = 0
        /\ rcvCall = c => ~InPending(c) /\ ~Unregistered(c) /\ pc[c] # "failed"
        /\ pc[c] = "failed" => ~InPending(c)
        /\ pc[c] \in {"registered", "writeFailed", "waiting"}
              => ToSignal(c) \/ rcvCall = c \/ signals[c] = 1
        /\ pc[c] = "returned" /\ ret[c] # "ctx" => signals[c] = 1
        /\ signals[c] = 1 => c \in queued \/ pc[c] = "returned"
        /\ c \in queued => signals[c] = 1

IInv == TypeOK /\ LockInv /\ SeqInv /\ TokenInv /\ DoneOnce /\ NoCrossedReplies

(***************************************************************************)
(* The abstract client.  A call is over when its Done channel got it; what *)
(* it ended with is what its Error and its Reply say then.                 *)
(***************************************************************************)
Outcome(c) ==
    IF callErr[c] = "err" THEN "error"
    ELSE IF reply[c] = c THEN "answer" ELSE "nothing"

AbstractCall(c) ==
    IF pc[c] = "idle" THEN "idle"
    ELSE IF signals[c] = 0 THEN "open" ELSE Outcome(c)

AbstractResult(c) ==
    IF ret[c] = "none" THEN "none"
    ELSE IF ret[c] = "ctx" THEN "timeout" ELSE Outcome(c)

Abstract == INSTANCE RpcCalls
    WITH Timed <- SyncCalls,
         call <- [c \in Calls |-> AbstractCall(c)],
         result <- [c \in Calls |-> AbstractResult(c)],
         up <- conn = "up"

\* The client keeps the promise of RpcCalls: whichever of the answer, a second
\* answer, a failed write, the context and the end of the connection comes first
\* decides a call, and nothing that comes later changes what its caller sees.
ImplementsRpcCalls == Abstract!Spec

\* The invariant that the implementation proof adds to IInv: only receive() after
\* a failed ReadHeader can end a call with neither an error nor a reply.
OutcomeInv ==
    /\ \A c \in Calls :
        /\ ret[c] # "none" <=> pc[c] = "returned"
        /\ pc[c] = "failed" => callErr[c] = "err"
        /\ pc[c] = "cancelled" \/ ret[c] = "ctx" => c \in SyncCalls
        /\ c \in queued /\ pc[c] = "returned" => ret[c] = "ctx"
    /\ rcv = "deliver" => callErr[rcvCall] = "err" \/ reply[rcvCall] = rcvCall
    /\ rcvErr = "nil" /\ rcv \in {"exit", "lockMu", "drain"} => conn # "up"

StrongInv == IInv /\ OutcomeInv

\* What a synchronous Call is documented to do (client.go:427): without a result
\* it blocks, so a nil error comes with the answer.
NilErrorMeansReply ==
    \A c \in Calls : ret[c] = "nil" => reply[c] = c
==============================================================================
