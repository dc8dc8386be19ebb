------------------------------ MODULE RpcServer ------------------------------
(***************************************************************************)
(* One connection served by geeRpc/server.go: ServeConn reads the Option,  *)
(* ServeCodec reads requests in a loop and starts handleRequest for each   *)
(* in a goroutine, which runs the method in a second goroutine.            *)
(*                                                                         *)
(* The goroutines share the codec (one cc.Write at a time, under sending), *)
(* the WaitGroup wg and, two per request, the channels called and sent of  *)
(* capacity 1 and the header req.h, which is written without a lock.       *)
(*                                                                         *)
(* The peer sends the requests and may go away at any time.                *)
(***************************************************************************)
EXTENDS Naturals, FiniteSets

CONSTANTS
    Requests,     \* the requests the peer may send on the connection
    Loop,         \* the goroutine of ServeConn
    None          \* nil

Goroutines == {Loop} \cup (Requests \X {"handler", "method"})

ASSUME ServerAssumption ==
    /\ IsFiniteSet(Requests)
    /\ Loop \notin Requests \X {"handler", "method"}
    /\ None \notin Requests \cup Goroutines

VARIABLES
    timeout,    \* option.ConnectTimeOut # 0: the limit handleRequest applies
    \* the connection and the peer
    conn,       \* "open", "eof" (the peer closed it), "reset" or "closed" (by this side)
    stage,      \* where each request is: "unsent", "inFlight", "lost", "refused", "served"
    skewed,     \* what the gob decoder meets next: "no", "body" or "types"
    answers,    \* the responses handed to cc.Write, on whatever is left of the connection,
                \* with who sent them: nobody sends two to one request (AnswerInv)
    \* ServeConn and ServeCodec
    loop,       \* the point the loop has reached
    loopReq,    \* the request it refuses, None for the header it got at EOF
    wg,         \* the WaitGroup's counter
    sending,    \* the holder of sending, or None
    \* handleRequest and its goroutine, per request
    handler,    \* the point handleRequest has reached
    method,     \* the point the goroutine that runs the method has reached
    fails,      \* the method returned an error
    hErr,       \* req.h.Error: "nil", "method" or "timeout"
    called,     \* the requests whose channel called is full
    sent        \* the requests whose channel sent is full

peer == <<timeout, conn, stage, skewed>>
serve == <<loop, loopReq, wg>>
request == <<fails, hErr, called, sent>>
vars == <<peer, answers, serve, sending, handler, method, request>>

Init ==
    /\ timeout \in BOOLEAN
    /\ conn = "open"
    /\ stage = [r \in Requests |-> "unsent"]
    /\ skewed = "no"
    /\ answers = {}
    /\ loop = "option" /\ loopReq = None
    /\ wg = 0
    /\ sending = None
    /\ handler = [r \in Requests |-> "none"]
    /\ method = [r \in Requests |-> "none"]
    /\ fails = [r \in Requests |-> FALSE]
    /\ hErr = [r \in Requests |-> "nil"]
    /\ called = {} /\ sent = {}

InFlight == {r \in Requests : stage[r] = "inFlight"}

-----------------------------------------------------------------------------
(* The peer.                                                               *)

ClientSends(r) ==
    /\ conn = "open" /\ stage[r] = "unsent"
    /\ stage' = [stage EXCEPT ![r] = "inFlight"]
    /\ UNCHANGED <<timeout, conn, skewed, answers, serve, sending, handler,
                   method, request>>

PeerCloses ==
    /\ conn = "open"
    /\ conn' = "eof"
    /\ UNCHANGED <<timeout, stage, skewed, answers, serve, sending, handler,
                   method, request>>

\* A peer that is gone answers what is written to it with a reset.
Reset ==
    /\ conn = "eof"
    /\ conn' = "reset"
    /\ UNCHANGED <<timeout, stage, skewed, answers, serve, sending, handler,
                   method, request>>

-----------------------------------------------------------------------------
(* sendResponse: Lock, then one cc.Write.  The goroutine is between the two *)
(* while its own action below says so.  A Write that fails closes the      *)
(* connection; it fails when the reply cannot be encoded or an earlier     *)
(* Flush failed.                                                           *)

\* MUTANT: sendResponse does not lock sending.
LockUnguarded(g) == sending' = g

Lock(g) == sending = None /\ sending' = g

WriteResponse(r, by, err, body) ==
    /\ sending' = None
    /\ answers' = answers \cup {[to |-> r, by |-> by, err |-> err, body |-> body]}
    /\ conn' \in {conn, "closed"}
    /\ UNCHANGED <<timeout, stage, skewed>>

-----------------------------------------------------------------------------
(* ServeConn and ServeCodec.                                               *)

\* A bad magic number, an unknown codec or a broken Option: ServeConn returns.
OptionRefused ==
    /\ loop = "option"
    /\ conn' = "closed"
    /\ loop' = "done"
    /\ UNCHANGED <<timeout, stage, skewed, answers, loopReq, wg, sending,
                   handler, method, request>>

\* The JSON decoder buffers what it reads: requests that arrive together with the
\* Option are gone, and with them the type descriptions gob sends only once.
OptionAccepted ==
    /\ loop = "option" /\ conn \in {"open", "eof"}
    /\ loop' = "read"
    /\ \/ UNCHANGED <<stage, skewed>>
       \/ /\ InFlight # {}
          /\ stage' = [r \in Requests |->
                         IF r \in InFlight THEN "lost" ELSE stage[r]]
          /\ skewed' = "types"
    /\ UNCHANGED <<timeout, conn, answers, loopReq, wg, sending, handler,
                   method, request>>

\* MUTANT: wg.Add is left to the goroutine, which would run it later.
SpawnWithoutAdd(r) ==
    /\ loop = "read" /\ conn \in {"open", "eof"} /\ skewed = "no"
    /\ stage[r] = "inFlight"
    /\ stage' = [stage EXCEPT ![r] = "served"]
    /\ handler' = [handler EXCEPT ![r] = "reply"]
    /\ method' = [method EXCEPT ![r] = "running"]
    /\ UNCHANGED <<timeout, conn, skewed, answers, serve, sending, request>>

\* readRequest returns a request; handleRequest and its goroutine start.
Spawn(r) ==
    /\ loop = "read" /\ conn \in {"open", "eof"} /\ skewed = "no"
    /\ stage[r] = "inFlight"
    /\ stage' = [stage EXCEPT ![r] = "served"]
    /\ wg' = wg + 1
    /\ handler' = [handler EXCEPT ![r] = "reply"]
    /\ method' = [method EXCEPT ![r] = "running"]
    /\ UNCHANGED <<timeout, conn, skewed, answers, loop, loopReq, sending, request>>

\* FindService fails: the request's body stays in the stream.
Refuse(r) ==
    /\ loop = "read" /\ conn \in {"open", "eof"} /\ skewed = "no"
    /\ stage[r] = "inFlight"
    /\ stage' = [stage EXCEPT ![r] = "refused"]
    /\ skewed' = "body"
    /\ loopReq' = r
    /\ loop' = "refuse"
    /\ UNCHANGED <<timeout, conn, answers, wg, sending, handler, method, request>>

\* At EOF readRequestHeader returns an empty header and no error, for which
\* FindService fails.
RefuseEOF ==
    /\ loop = "read" /\ conn = "eof" /\ InFlight = {} /\ skewed # "body"
    /\ loopReq' = None
    /\ loop' = "refuse"
    /\ UNCHANGED <<peer, answers, wg, sending, handler, method, request>>

\* readRequest returns nil: the connection is broken, the body of a request does
\* not decode, or the decoder meets something that is not a header.  That a body might
\* pass for a header, or that only a part of what the JSON decoder took is missed, is
\* left out.
ReadFails ==
    /\ loop = "read"
    /\ \/ conn \in {"reset", "closed"}
       \/ InFlight # {}
       \/ skewed = "body"
    /\ loop' = "wait"
    /\ UNCHANGED <<peer, answers, loopReq, wg, sending, handler, method, request>>

LockRefusal ==
    /\ loop = "refuse" /\ Lock(Loop)
    /\ loop' = "refusing"
    /\ UNCHANGED <<peer, answers, loopReq, wg, handler, method, request>>

SendRefusal ==
    /\ loop = "refusing"
    /\ WriteResponse(loopReq, "loop", "refused", "invalid")
    /\ loop' = "read" /\ loopReq' = None
    /\ UNCHANGED <<wg, handler, method, request>>

\* wg.Wait(), cc.Close() and the return from ServeConn.
Finish ==
    /\ loop = "wait" /\ wg = 0
    /\ conn' = "closed"
    /\ loop' = "done"
    /\ UNCHANGED <<timeout, stage, skewed, answers, loopReq, wg, sending,
                   handler, method, request>>

-----------------------------------------------------------------------------
(* handleRequest: it sends the reply first, whatever the method is doing.  *)

HandlerStep(r, from, to) ==
    /\ handler[r] = from
    /\ handler' = [handler EXCEPT ![r] = to]

LockReply(r) ==
    /\ HandlerStep(r, "reply", "replying")
    /\ Lock(<<r, "handler">>)
    /\ UNCHANGED <<peer, answers, serve, method, request>>

\* The method may be writing *reply meanwhile: what is encoded then is anything.
SendReply(r) ==
    /\ HandlerStep(r, "replying", "signal")
    /\ WriteResponse(r, "reply", hErr[r],
                     IF method[r] = "running" THEN "early" ELSE "final")
    /\ UNCHANGED <<serve, method, request>>

\* sent <- struct{}{}
SignalReply(r) ==
    /\ HandlerStep(r, "signal", IF timeout THEN "select" ELSE "called")
    /\ r \notin sent /\ sent' = sent \cup {r}
    /\ UNCHANGED <<peer, answers, serve, sending, method, fails, hErr, called>>

\* <-called, in the select or without a time limit.
TakeCalled(r) ==
    /\ handler[r] \in {"select", "called"}
    /\ r \in called /\ called' = called \ {r}
    /\ handler' = [handler EXCEPT ![r] = "sent"]
    /\ UNCHANGED <<peer, answers, serve, sending, method, fails, hErr, sent>>

\* <-sent, and wg.Done() on the way out.
TakeSent(r) ==
    /\ HandlerStep(r, "sent", "done")
    /\ r \in sent /\ sent' = sent \ {r}
    /\ wg' = wg - 1
    /\ UNCHANGED <<peer, answers, loop, loopReq, sending, method, fails, hErr, called>>

TimeUp(r) ==
    /\ HandlerStep(r, "select", "timedOut")
    /\ hErr' = [hErr EXCEPT ![r] = "timeout"]
    /\ UNCHANGED <<peer, answers, serve, sending, method, fails, called, sent>>

LockTimeout(r) ==
    /\ HandlerStep(r, "timedOut", "timingOut")
    /\ Lock(<<r, "handler">>)
    /\ UNCHANGED <<peer, answers, serve, method, request>>

\* MUTANT: wg.Done() is missed on the path of the time limit.
TimeoutWithoutDone(r) ==
    /\ HandlerStep(r, "timingOut", "done")
    /\ WriteResponse(r, "timeout", hErr[r], "invalid")
    /\ UNCHANGED <<serve, method, request>>

SendTimeout(r) ==
    /\ HandlerStep(r, "timingOut", "done")
    /\ WriteResponse(r, "timeout", hErr[r], "invalid")
    /\ wg' = wg - 1
    /\ UNCHANGED <<loop, loopReq, method, request>>

-----------------------------------------------------------------------------
(* The goroutine that runs the method.                                     *)

MethodStep(r, from, to) ==
    /\ method[r] = from
    /\ method' = [method EXCEPT ![r] = to]

\* MUTANT: the goroutine responds and signals whatever the method returned.
MethodReturnsAlike(r) ==
    /\ \E e \in BOOLEAN : fails' = [fails EXCEPT ![r] = e]
    /\ MethodStep(r, "running", "failed")
    /\ called' = called \cup {r}
    /\ UNCHANGED <<peer, answers, serve, sending, handler, hErr, sent>>

\* The method returns, and called <- struct{}{}, which never blocks.  A method that
\* panics ends the program (service.go:102).
MethodReturns(r) ==
    /\ \E e \in BOOLEAN :
        /\ fails' = [fails EXCEPT ![r] = e]
        /\ MethodStep(r, "running", IF e THEN "failed" ELSE "done")
    /\ called' = called \cup {r}
    /\ UNCHANGED <<peer, answers, serve, sending, handler, hErr, sent>>

\* MUTANT: req.h.Error is not set.
ErrorForgotten(r) ==
    /\ MethodStep(r, "failed", "error")
    /\ UNCHANGED <<peer, answers, serve, sending, handler, request>>

SetError(r) ==
    /\ MethodStep(r, "failed", "error")
    /\ hErr' = [hErr EXCEPT ![r] = "method"]
    /\ UNCHANGED <<peer, answers, serve, sending, handler, fails, called, sent>>

LockError(r) ==
    /\ MethodStep(r, "error", "erring")
    /\ Lock(<<r, "method">>)
    /\ UNCHANGED <<peer, answers, serve, handler, request>>

SendError(r) ==
    /\ MethodStep(r, "erring", "signal")
    /\ WriteResponse(r, "method", hErr[r], "invalid")
    /\ UNCHANGED <<serve, handler, request>>

\* sent <- struct{}{}
SignalError(r) ==
    /\ MethodStep(r, "signal", "done")
    /\ r \notin sent /\ sent' = sent \cup {r}
    /\ UNCHANGED <<peer, answers, serve, sending, handler, fails, hErr, called>>

-----------------------------------------------------------------------------
ReadOption == OptionRefused \/ OptionAccepted

ServeLoop ==
    \/ \E r \in Requests : Spawn(r) \/ Refuse(r)
    \/ RefuseEOF \/ ReadFails
    \/ LockRefusal \/ SendRefusal
    \/ Finish

HandleRequest(r) ==
    \/ LockReply(r) \/ SendReply(r) \/ SignalReply(r)
    \/ TakeCalled(r) \/ TakeSent(r)
    \/ TimeUp(r) \/ LockTimeout(r) \/ SendTimeout(r)

AfterMethod(r) == SetError(r) \/ LockError(r) \/ SendError(r) \/ SignalError(r)

Next ==
    \/ PeerCloses \/ Reset
    \/ ReadOption \/ ServeLoop
    \/ \E r \in Requests :
        ClientSends(r) \/ HandleRequest(r) \/ MethodReturns(r) \/ AfterMethod(r)

Spec == Init /\ [][Next]_vars

(***************************************************************************)
(* Fairness: every goroutine that can run does, methods return, and a peer *)
(* that has closed its end resets the connection in the end.  The peer     *)
(* need not send anything, not even the Option, nor ever close.            *)
(***************************************************************************)
Fairness ==
    /\ WF_vars(Reset)
    /\ WF_vars(conn # "open" /\ ReadOption)
    /\ WF_vars(ServeLoop)
    /\ \A r \in Requests :
        /\ WF_vars(HandleRequest(r))
        /\ WF_vars(MethodReturns(r))
        /\ WF_vars(AfterMethod(r))

FairSpec == Spec /\ Fairness

-----------------------------------------------------------------------------
(* Properties.                                                             *)

TypeOK ==
    /\ timeout \in BOOLEAN
    /\ conn \in {"open", "eof", "reset", "closed"}
    /\ stage \in [Requests -> {"unsent", "inFlight", "lost", "refused", "served"}]
    /\ skewed \in {"no", "body", "types"}
    /\ answers \subseteq [to : Requests \cup {None},
                          by : {"loop", "reply", "timeout", "method"},
                          err : {"nil", "refused", "method", "timeout"},
                          body : {"early", "final", "invalid"}]
    /\ loop \in {"option", "read", "refuse", "refusing", "wait", "done"}
    /\ loopReq \in Requests \cup {None}
    /\ wg \in Nat
    /\ sending \in Goroutines \cup {None}
    /\ handler \in [Requests -> {"none", "reply", "replying", "signal", "select", "called",
                                 "sent", "timedOut", "timingOut", "done"}]
    /\ method \in [Requests -> {"none", "running", "failed", "error", "erring",
                                "signal", "done"}]
    /\ fails \in [Requests -> BOOLEAN]
    /\ hErr \in [Requests -> {"nil", "method", "timeout"}]
    /\ called \subseteq Requests /\ sent \subseteq Requests

Writing ==
    {g \in Goroutines :
        IF g = Loop THEN loop = "refusing"
        ELSE IF g[2] = "handler" THEN handler[g[1]] \in {"replying", "timingOut"}
        ELSE method[g[1]] = "erring"}

\* The responses of one connection are written one at a time (server.go:171),
\* whichever of the goroutines of however many requests write them.
OneWriter == \A g, h \in Writing : g = h

\* select took the time limit: the token of called was left where it is.
TimedOut(r) ==
    /\ handler[r] \in {"timedOut", "timingOut", "done"}
    /\ method[r] = "running" \/ r \in called

\* No more responses to a request are handed to cc.Write than there are reasons: one for
\* the request, one more if its method failed and one more if its time was up; one
\* that was refused is not answered again.
AnswerBound ==
    \A r \in Requests :
        Cardinality({a \in answers : a.to = r})
            <= 1 + (IF fails[r] THEN 1 ELSE 0) + (IF TimedOut(r) THEN 1 ELSE 0)

\* When both goroutines of a request whose method failed have ended, a response with an
\* error was handed to cc.Write, although they overwrite each other's header.  It
\* may come too late for the peer: the connection may be closed by then, see
\* ClosesAfterHandlers.
FailureReported ==
    \A r \in Requests :
        fails[r] /\ handler[r] = "done" /\ method[r] = "done"
            => \E a \in answers : a.to = r /\ a.err # "nil"

\* server.go:174 wants all requests to have ended before ServeCodec closes the
\* connection.  It leaves no handleRequest behind; but wg does not count the goroutine
\* that runs a method, and that can outlive ServeConn: after its time limit, or when
\* the method failed, with the answer that says so.
ClosesAfterHandlers ==
    loop = "done" => \A r \in Requests :
        /\ handler[r] \in {"none", "done"}
        /\ method[r] \in {"none", "done"} \/ fails[r] \/ timeout

\* The goroutine of a failed method was the first to put its token into sent: handleRequest
\* waits for ever to put in its own (server.go:258).
StuckAtSent(r) == handler[r] = "signal" /\ r \in sent

\* A connection that ended is given up: its handlers end and ServeConn returns, so that
\* Accept can take the next one.  One thing alone prevents this, and the code can run
\* into it: a handler that blocks on sent.
ConnectionEnds ==
    conn # "open" ~> loop = "done" \/ \E r \in Requests : StuckAtSent(r)

(***************************************************************************)
(* The inductive invariant behind the properties above.  The holder of     *)
(* sending is the goroutine that writes; wg counts the handlers that run;  *)
(* an answer tells how far the goroutine that sent it has come, so that    *)
(* the answers to a request differ in who sent them.                       *)
(***************************************************************************)
Active == {r \in Requests : handler[r] \notin {"none", "done"}}

LockInv ==
    /\ sending = Loop <=> loop = "refusing"
    /\ \A r \in Requests :
        /\ sending = <<r, "handler">> <=> handler[r] \in {"replying", "timingOut"}
        /\ sending = <<r, "method">> <=> method[r] = "erring"

CountInv ==
    /\ wg = Cardinality(Active)
    /\ loop \in {"option", "done"} => Active = {}

RequestInv ==
    \A r \in Requests :
        /\ stage[r] # "served" => handler[r] = "none" /\ method[r] = "none"
        /\ handler[r] \in {"timedOut", "timingOut", "select"} => timeout
        /\ method[r] \in {"none", "running"} => ~fails[r]
        /\ method[r] \in {"failed", "error", "erring", "signal"} => fails[r]
        /\ method[r] \in {"error", "erring"} => hErr[r] # "nil"
        /\ r \in sent /\ handler[r] \in {"none", "reply", "replying", "signal"} => fails[r]
        /\ r \in called => method[r] \notin {"none", "running"}
        /\ handler[r] \notin {"none", "sent", "done"} => method[r] = "running" \/ r \in called
        /\ handler[r] \in {"sent", "done"} /\ method[r] = "running" => timeout
        /\ handler[r] = "none" => method[r] = "none"
        /\ loopReq = r /\ loop \in {"refuse", "refusing"} => stage[r] = "refused"

AnswerInv ==
    /\ \A a \in answers : a.to # None =>
        /\ a.by = "reply" =>
             stage[a.to] = "served" /\ handler[a.to] \notin {"reply", "replying"}
        /\ a.by = "timeout" => handler[a.to] = "done" /\ TimedOut(a.to)
                                 /\ stage[a.to] = "served"
        /\ a.by = "method" => method[a.to] \in {"signal", "done"} /\ fails[a.to]
                                /\ stage[a.to] = "served"
        /\ a.by = "loop" => stage[a.to] = "refused" /\ loopReq # a.to
    /\ \A a, b \in answers : a.to = b.to /\ a.to # None /\ a.by = b.by => a = b
    /\ \A r \in Requests : fails[r] /\ method[r] \in {"signal", "done"} =>
        \E a \in answers : a.to = r /\ a.err # "nil"

IInv == TypeOK /\ LockInv /\ CountInv /\ RequestInv /\ AnswerInv
==============================================================================
