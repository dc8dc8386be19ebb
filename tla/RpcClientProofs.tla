--------------------------- MODULE RpcClientProofs ---------------------------
(***************************************************************************)
(* Safety of the RPC client for every set of callers, every capacity of    *)
(* the Done channels and every number of answers: IInv is inductive, and   *)
(* the properties that RpcClient states follow from it.                    *)
(***************************************************************************)
EXTENDS RpcClient, TLAPS

\* Deleting an entry leaves a map of calls.  terminateCalls is not in its loop
\* then (it would hold mu), so that its todo set is empty.
LEMMA PendingTyped ==
    ASSUME TypeOK, todo = {}, todo' = {}, NEW s, pending' = PendingWithout(s)
    PROVE  /\ DOMAIN pending' \subseteq Nat \ {0}
           /\ pending' = [t \in DOMAIN pending' |-> pending'[t]]
           /\ \A t \in DOMAIN pending' : pending'[t] \in Calls
           /\ todo' \subseteq DOMAIN pending'
<1>1. CASE IsAvailable
  <2>1. pending' = [t \in DOMAIN pending \ {s} |-> pending[t]]
    BY <1>1 DEF PendingWithout
  <2> QED BY <2>1 DEF TypeOK
<1>2. CASE ~IsAvailable
  BY <1>2 DEF PendingWithout, TypeOK
<1> QED BY <1>1, <1>2

\* The initial state satisfies the inductive invariant.
LEMMA InitIInv == Init => IInv
<1>. SUFFICES ASSUME Init PROVE IInv
  OBVIOUS
<1>. USE ClientAssumption DEF Init
<1>1. TypeOK
  <2>1. /\ pending = [s \in DOMAIN pending |-> pending[s]]
        /\ DOMAIN pending = {}
    OBVIOUS
  <2>2. /\ callSeq \in [Calls -> Nat] /\ signals \in [Calls -> Nat]
        /\ wire \in [Calls -> Nat] /\ quota \in [Calls -> Nat]
    OBVIOUS
  <2>3. /\ pc \in [Calls -> {"idle", "start", "locked", "registered", "writeFailed",
                            "failed", "waiting", "cancelled", "returned"}]
        /\ ret \in [Calls -> {"none", "nil", "err", "ctx"}]
        /\ callErr \in [Calls -> {"nil", "err"}]
        /\ reply \in [Calls -> Calls \cup {None}]
    OBVIOUS
  <2>4. rcvHdr \in [from : Calls \cup {None}, err : BOOLEAN]
    BY DEF NoHeader
  <2>5. /\ DOMAIN pending \subseteq Nat \ {0} /\ todo \subseteq DOMAIN pending
        /\ \A s \in DOMAIN pending : pending[s] \in Calls
    BY <2>1
  <2>6. /\ seq \in Nat \ {0} /\ header \in Nat /\ queued \subseteq Calls
        /\ sending \in Calls \cup {Receive, None} /\ rcvCall \in Calls \cup {None}
    OBVIOUS
  <2>7. closing \in BOOLEAN /\ shutdown \in BOOLEAN /\ muHeld \in BOOLEAN
    OBVIOUS
  <2> QED BY <2>1, <2>2, <2>3, <2>4, <2>5, <2>6, <2>7 DEF TypeOK
<1>2. LockInv /\ SeqInv
  BY DEF LockInv, SeqInv, HoldsSending, Unregistered
<1>3. TokenInv /\ DoneOnce /\ NoCrossedReplies
  BY DEF TokenInv, DoneOnce, NoCrossedReplies, Unregistered
<1> QED BY <1>1, <1>2, <1>3 DEF IInv

\* Every step of a caller on its way through send().
LEMMA SendPreserves ==
    ASSUME IInv, NEW c \in Calls,
           Begin(c) \/ Send(c)
    PROVE  IInv'
<1>. USE ClientAssumption DEF client, calls, users, recvr, net, table, flags, done, local, SendingFree, UnlockSending
<1>1. CASE Begin(c)
  <2>1. TypeOK'
    BY <1>1 DEF IInv, TypeOK, LockInv, TokenInv, Begin
  <2>2. LockInv' /\ SeqInv'
    BY <1>1 DEF IInv, TypeOK, LockInv, SeqInv, HoldsSending, Unregistered,
                 Begin
  <2>3. TokenInv'
    BY <1>1 DEF IInv, TypeOK, LockInv, SeqInv, TokenInv, DoneOnce, HoldsSending,
                 Unregistered, InPending, ToSignal, Begin
  <2>4. DoneOnce' /\ NoCrossedReplies'
    BY <1>1 DEF IInv, TypeOK, SeqInv, TokenInv, DoneOnce, NoCrossedReplies,
                 Unregistered, InPending, ToSignal, Begin
  <2> QED BY <2>1, <2>2, <2>3, <2>4 DEF IInv
<1>2. CASE LockSending(c)
  <2>1. TypeOK'
    BY <1>2 DEF IInv, TypeOK, LockInv, TokenInv, LockSending
  <2>2. LockInv' /\ SeqInv'
    BY <1>2 DEF IInv, TypeOK, LockInv, SeqInv, HoldsSending, Unregistered,
                 LockSending
  <2>3. TokenInv'
    BY <1>2 DEF IInv, TypeOK, LockInv, SeqInv, TokenInv, DoneOnce, HoldsSending,
                 Unregistered, InPending, ToSignal, LockSending
  <2>4. DoneOnce' /\ NoCrossedReplies'
    BY <1>2 DEF IInv, TypeOK, SeqInv, TokenInv, DoneOnce, NoCrossedReplies,
                 Unregistered, InPending, ToSignal, LockSending
  <2> QED BY <2>1, <2>2, <2>3, <2>4 DEF IInv
<1>3. CASE RegisterCall(c)
  <2>1. TypeOK'
    BY <1>3 DEF IInv, TypeOK, LockInv, TokenInv, RegisterCall, IsAvailable
  <2>2. LockInv' /\ SeqInv'
    BY <1>3 DEF IInv, TypeOK, LockInv, SeqInv, HoldsSending, Unregistered,
                 RegisterCall, IsAvailable
  <2>3. TokenInv'
    BY <1>3 DEF IInv, TypeOK, LockInv, SeqInv, TokenInv, DoneOnce, HoldsSending,
                 Unregistered, InPending, ToSignal, RegisterCall, IsAvailable
  <2>4. DoneOnce' /\ NoCrossedReplies'
    BY <1>3 DEF IInv, TypeOK, SeqInv, TokenInv, DoneOnce, NoCrossedReplies,
                 Unregistered, InPending, ToSignal, RegisterCall, IsAvailable
  <2> QED BY <2>1, <2>2, <2>3, <2>4 DEF IInv
<1>4. CASE RegisterRefused(c)
  <2>1. TypeOK'
    BY <1>4 DEF IInv, TypeOK, LockInv, TokenInv, RegisterRefused
  <2>2. LockInv' /\ SeqInv'
    BY <1>4 DEF IInv, TypeOK, LockInv, SeqInv, HoldsSending, Unregistered,
                 RegisterRefused
  <2>3. TokenInv'
    BY <1>4 DEF IInv, TypeOK, LockInv, SeqInv, TokenInv, DoneOnce, HoldsSending,
                 Unregistered, InPending, ToSignal, RegisterRefused
  <2>4. DoneOnce' /\ NoCrossedReplies'
    BY <1>4 DEF IInv, TypeOK, SeqInv, TokenInv, DoneOnce, NoCrossedReplies,
                 Unregistered, InPending, ToSignal, RegisterRefused
  <2> QED BY <2>1, <2>2, <2>3, <2>4 DEF IInv
<1>5. CASE Write(c)
  <2>1. TypeOK'
    BY <1>5 DEF IInv, TypeOK, LockInv, TokenInv, Write
  <2>2. LockInv' /\ SeqInv'
    BY <1>5 DEF IInv, TypeOK, LockInv, SeqInv, HoldsSending, Unregistered,
                 Write
  <2>3. TokenInv'
    BY <1>5 DEF IInv, TypeOK, LockInv, SeqInv, TokenInv, DoneOnce, HoldsSending,
                 Unregistered, InPending, ToSignal, Write
  <2>4. DoneOnce' /\ NoCrossedReplies'
    BY <1>5 DEF IInv, TypeOK, SeqInv, TokenInv, DoneOnce, NoCrossedReplies,
                 Unregistered, InPending, ToSignal, Write
  <2> QED BY <2>1, <2>2, <2>3, <2>4 DEF IInv
<1>6. CASE WriteFails(c)
  <2>1. TypeOK'
    BY <1>6 DEF IInv, TypeOK, LockInv, TokenInv, WriteFails
  <2>2. LockInv' /\ SeqInv'
    BY <1>6 DEF IInv, TypeOK, LockInv, SeqInv, HoldsSending, Unregistered,
                 WriteFails
  <2>3. TokenInv'
    BY <1>6 DEF IInv, TypeOK, LockInv, SeqInv, TokenInv, DoneOnce, HoldsSending,
                 Unregistered, InPending, ToSignal, WriteFails
  <2>4. DoneOnce' /\ NoCrossedReplies'
    BY <1>6 DEF IInv, TypeOK, SeqInv, TokenInv, DoneOnce, NoCrossedReplies,
                 Unregistered, InPending, ToSignal, WriteFails
  <2> QED BY <2>1, <2>2, <2>3, <2>4 DEF IInv
<1>7. CASE RemoveUnsent(c)
  <2>1. TypeOK'
    <3>1. pending' = PendingWithout(callSeq[c]) /\ todo = {} /\ UNCHANGED todo
      BY <1>7 DEF IInv, LockInv, RemoveUnsent
    <3>2. RemovedCall(callSeq[c]) \in Calls \cup {None}
      BY DEF IInv, TypeOK, RemovedCall
    <3> QED BY <1>7, <3>1, <3>2, PendingTyped DEF IInv, TypeOK, RemoveUnsent
  <2>2. LockInv' /\ SeqInv'
    BY <1>7 DEF IInv, TypeOK, LockInv, SeqInv, HoldsSending, Unregistered,
                 RemoveUnsent, PendingWithout, RemovedCall, IsAvailable
  <2>3. TokenInv'
    BY <1>7 DEF IInv, TypeOK, LockInv, SeqInv, TokenInv, DoneOnce, HoldsSending,
                 Unregistered, InPending, ToSignal, RemoveUnsent, PendingWithout, RemovedCall, IsAvailable
  <2>4. DoneOnce' /\ NoCrossedReplies'
    BY <1>7 DEF IInv, TypeOK, SeqInv, TokenInv, DoneOnce, NoCrossedReplies,
                 Unregistered, InPending, ToSignal, RemoveUnsent, PendingWithout, RemovedCall, IsAvailable
  <2> QED BY <2>1, <2>2, <2>3, <2>4 DEF IInv
<1>8. CASE SendDone(c)
  <2>1. TypeOK'
    BY <1>8 DEF IInv, TypeOK, LockInv, TokenInv, SendDone, Done
  <2>2. LockInv' /\ SeqInv'
    BY <1>8 DEF IInv, TypeOK, LockInv, SeqInv, HoldsSending, Unregistered,
                 SendDone, Done
  <2>3. TokenInv'
    BY <1>8 DEF IInv, TypeOK, LockInv, SeqInv, TokenInv, DoneOnce, HoldsSending,
                 Unregistered, InPending, ToSignal, SendDone, Done
  <2>4. DoneOnce' /\ NoCrossedReplies'
    BY <1>8 DEF IInv, TypeOK, SeqInv, TokenInv, DoneOnce, NoCrossedReplies,
                 Unregistered, InPending, ToSignal, SendDone, Done
  <2> QED BY <2>1, <2>2, <2>3, <2>4 DEF IInv
<1> QED BY <1>1, <1>2, <1>3, <1>4, <1>5, <1>6, <1>7, <1>8 DEF Send

\* Every step of a caller that waits for its result.
LEMMA UserPreserves ==
    ASSUME IInv, NEW c \in Calls,
           CallReturns(c) \/ CtxDone(c) \/ CancelCall(c) \/ Collect(c)
    PROVE  IInv'
<1>. USE ClientAssumption DEF client, calls, users, recvr, net, table, flags, done, local, SendingFree, UnlockSending
<1>1. CASE CallReturns(c)
  <2>1. TypeOK'
    BY <1>1 DEF IInv, TypeOK, LockInv, TokenInv, CallReturns, TakeResult
  <2>2. LockInv' /\ SeqInv'
    BY <1>1 DEF IInv, TypeOK, LockInv, SeqInv, HoldsSending, Unregistered,
                 CallReturns, TakeResult
  <2>3. TokenInv'
    BY <1>1 DEF IInv, TypeOK, LockInv, SeqInv, TokenInv, DoneOnce, HoldsSending,
                 Unregistered, InPending, ToSignal, CallReturns, TakeResult
  <2>4. DoneOnce' /\ NoCrossedReplies'
    BY <1>1 DEF IInv, TypeOK, SeqInv, TokenInv, DoneOnce, NoCrossedReplies,
                 Unregistered, InPending, ToSignal, CallReturns, TakeResult
  <2> QED BY <2>1, <2>2, <2>3, <2>4 DEF IInv
<1>2. CASE CtxDone(c)
  <2>1. TypeOK'
    BY <1>2 DEF IInv, TypeOK, LockInv, TokenInv, CtxDone
  <2>2. LockInv' /\ SeqInv'
    BY <1>2 DEF IInv, TypeOK, LockInv, SeqInv, HoldsSending, Unregistered,
                 CtxDone
  <2>3. TokenInv'
    BY <1>2 DEF IInv, TypeOK, LockInv, SeqInv, TokenInv, DoneOnce, HoldsSending,
                 Unregistered, InPending, ToSignal, CtxDone
  <2>4. DoneOnce' /\ NoCrossedReplies'
    BY <1>2 DEF IInv, TypeOK, SeqInv, TokenInv, DoneOnce, NoCrossedReplies,
                 Unregistered, InPending, ToSignal, CtxDone
  <2> QED BY <2>1, <2>2, <2>3, <2>4 DEF IInv
<1>3. CASE CancelCall(c)
  <2>1. TypeOK'
    <3>1. pending' = PendingWithout(callSeq[c]) /\ todo = {} /\ UNCHANGED todo
      BY <1>3 DEF IInv, LockInv, CancelCall
    <3> QED BY <1>3, <3>1, PendingTyped DEF IInv, TypeOK, CancelCall
  <2>2. LockInv' /\ SeqInv'
    BY <1>3 DEF IInv, TypeOK, LockInv, SeqInv, HoldsSending, Unregistered,
                 CancelCall, PendingWithout, IsAvailable
  <2>3. TokenInv'
    BY <1>3 DEF IInv, TypeOK, LockInv, SeqInv, TokenInv, DoneOnce, HoldsSending,
                 Unregistered, InPending, ToSignal, CancelCall, PendingWithout, IsAvailable
  <2>4. DoneOnce' /\ NoCrossedReplies'
    BY <1>3 DEF IInv, TypeOK, SeqInv, TokenInv, DoneOnce, NoCrossedReplies,
                 Unregistered, InPending, ToSignal, CancelCall, PendingWithout, IsAvailable
  <2> QED BY <2>1, <2>2, <2>3, <2>4 DEF IInv
<1>4. CASE Collect(c)
  <2>1. TypeOK'
    BY <1>4 DEF IInv, TypeOK, LockInv, TokenInv, Collect, TakeResult, BetweenGoCalls
  <2>2. LockInv' /\ SeqInv'
    BY <1>4 DEF IInv, TypeOK, LockInv, SeqInv, HoldsSending, Unregistered,
                 Collect, TakeResult, BetweenGoCalls
  <2>3. TokenInv'
    BY <1>4 DEF IInv, TypeOK, LockInv, SeqInv, TokenInv, DoneOnce, HoldsSending,
                 Unregistered, InPending, ToSignal, Collect, TakeResult, BetweenGoCalls
  <2>4. DoneOnce' /\ NoCrossedReplies'
    BY <1>4 DEF IInv, TypeOK, SeqInv, TokenInv, DoneOnce, NoCrossedReplies,
                 Unregistered, InPending, ToSignal, Collect, TakeResult, BetweenGoCalls
  <2> QED BY <2>1, <2>2, <2>3, <2>4 DEF IInv
<1> QED BY <1>1, <1>2, <1>3, <1>4

\* Every step of the loop of receive().
LEMMA ReceivePreserves ==
    ASSUME IInv,
           \/ \E c \in Calls : ReadHeader(c)
           \/ ReadHeaderFails \/ ReadBody \/ ReadBodyFails \/ Deliver
    PROVE  IInv'
<1>. USE ClientAssumption DEF client, calls, users, recvr, net, table, flags, done, local, SendingFree, UnlockSending
<1>1. ASSUME NEW c \in Calls, ReadHeader(c) PROVE IInv'
  <2>1. TypeOK'
    <3>1. pending' = PendingWithout(wire[c]) /\ todo = {} /\ UNCHANGED todo
      BY <1>1 DEF IInv, LockInv, ReadHeader
    <3>2. RemovedCall(wire[c]) \in Calls \cup {None}
      BY DEF IInv, TypeOK, RemovedCall
    <3> QED BY <1>1, <3>1, <3>2, PendingTyped DEF IInv, TypeOK, ReadHeader
  <2>2. LockInv' /\ SeqInv'
    BY <1>1 DEF IInv, TypeOK, LockInv, SeqInv, HoldsSending, Unregistered,
                 ReadHeader, PendingWithout, RemovedCall, IsAvailable
  <2>3. TokenInv'
    BY <1>1 DEF IInv, TypeOK, LockInv, SeqInv, TokenInv, DoneOnce, HoldsSending,
                 Unregistered, InPending, ToSignal, ReadHeader, PendingWithout, RemovedCall, IsAvailable
  <2>4. DoneOnce' /\ NoCrossedReplies'
    BY <1>1 DEF IInv, TypeOK, SeqInv, TokenInv, DoneOnce, NoCrossedReplies,
                 Unregistered, InPending, ToSignal, ReadHeader, PendingWithout, RemovedCall, IsAvailable
  <2> QED BY <2>1, <2>2, <2>3, <2>4 DEF IInv
<1>2. CASE ReadHeaderFails
  <2>1. TypeOK'
    BY <1>2 DEF IInv, TypeOK, LockInv, TokenInv, ReadHeaderFails
  <2>2. LockInv' /\ SeqInv'
    BY <1>2 DEF IInv, TypeOK, LockInv, SeqInv, HoldsSending, Unregistered,
                 ReadHeaderFails
  <2>3. TokenInv'
    BY <1>2 DEF IInv, TypeOK, LockInv, SeqInv, TokenInv, DoneOnce, HoldsSending,
                 Unregistered, InPending, ToSignal, ReadHeaderFails
  <2>4. DoneOnce' /\ NoCrossedReplies'
    BY <1>2 DEF IInv, TypeOK, SeqInv, TokenInv, DoneOnce, NoCrossedReplies,
                 Unregistered, InPending, ToSignal, ReadHeaderFails
  <2> QED BY <2>1, <2>2, <2>3, <2>4 DEF IInv
<1>3. CASE ReadBody
  <2>1. TypeOK'
    BY <1>3 DEF IInv, TypeOK, LockInv, TokenInv, ReadBody, NoHeader
  <2>2. LockInv' /\ SeqInv'
    BY <1>3 DEF IInv, TypeOK, LockInv, SeqInv, HoldsSending, Unregistered,
                 ReadBody, NoHeader
  <2>3. TokenInv'
    BY <1>3 DEF IInv, TypeOK, LockInv, SeqInv, TokenInv, DoneOnce, HoldsSending,
                 Unregistered, InPending, ToSignal, ReadBody, NoHeader
  <2>4. DoneOnce' /\ NoCrossedReplies'
    BY <1>3 DEF IInv, TypeOK, SeqInv, TokenInv, DoneOnce, NoCrossedReplies,
                 Unregistered, InPending, ToSignal, ReadBody, NoHeader
  <2> QED BY <2>1, <2>2, <2>3, <2>4 DEF IInv
<1>4. CASE ReadBodyFails
  <2>1. TypeOK'
    BY <1>4 DEF IInv, TypeOK, LockInv, TokenInv, ReadBodyFails, NoHeader
  <2>2. LockInv' /\ SeqInv'
    BY <1>4 DEF IInv, TypeOK, LockInv, SeqInv, HoldsSending, Unregistered,
                 ReadBodyFails, NoHeader
  <2>3. TokenInv'
    BY <1>4 DEF IInv, TypeOK, LockInv, SeqInv, TokenInv, DoneOnce, HoldsSending,
                 Unregistered, InPending, ToSignal, ReadBodyFails, NoHeader
  <2>4. DoneOnce' /\ NoCrossedReplies'
    BY <1>4 DEF IInv, TypeOK, SeqInv, TokenInv, DoneOnce, NoCrossedReplies,
                 Unregistered, InPending, ToSignal, ReadBodyFails, NoHeader
  <2> QED BY <2>1, <2>2, <2>3, <2>4 DEF IInv
<1>5. CASE Deliver
  <2>1. TypeOK'
    BY <1>5 DEF IInv, TypeOK, LockInv, TokenInv, Deliver, Done
  <2>2. LockInv' /\ SeqInv'
    BY <1>5 DEF IInv, TypeOK, LockInv, SeqInv, HoldsSending, Unregistered,
                 Deliver, Done
  <2>3. TokenInv'
    BY <1>5 DEF IInv, TypeOK, LockInv, SeqInv, TokenInv, DoneOnce, HoldsSending,
                 Unregistered, InPending, ToSignal, Deliver, Done
  <2>4. DoneOnce' /\ NoCrossedReplies'
    BY <1>5 DEF IInv, TypeOK, SeqInv, TokenInv, DoneOnce, NoCrossedReplies,
                 Unregistered, InPending, ToSignal, Deliver, Done
  <2> QED BY <2>1, <2>2, <2>3, <2>4 DEF IInv
<1> QED BY <1>1, <1>2, <1>3, <1>4, <1>5

\* Every step of terminateCalls.
LEMMA TerminatePreserves ==
    ASSUME IInv,
           Terminate
    PROVE  IInv'
<1>. USE ClientAssumption DEF client, calls, users, recvr, net, table, flags, done, local, SendingFree, UnlockSending
<1>1. CASE TerminateLockSending
  <2>1. TypeOK'
    BY <1>1 DEF IInv, TypeOK, LockInv, TokenInv, TerminateLockSending
  <2>2. LockInv' /\ SeqInv'
    BY <1>1 DEF IInv, TypeOK, LockInv, SeqInv, HoldsSending, Unregistered,
                 TerminateLockSending
  <2>3. TokenInv'
    BY <1>1 DEF IInv, TypeOK, LockInv, SeqInv, TokenInv, DoneOnce, HoldsSending,
                 Unregistered, InPending, ToSignal, TerminateLockSending
  <2>4. DoneOnce' /\ NoCrossedReplies'
    BY <1>1 DEF IInv, TypeOK, SeqInv, TokenInv, DoneOnce, NoCrossedReplies,
                 Unregistered, InPending, ToSignal, TerminateLockSending
  <2> QED BY <2>1, <2>2, <2>3, <2>4 DEF IInv
<1>2. CASE TerminateLockMu
  <2>1. TypeOK'
    BY <1>2 DEF IInv, TypeOK, LockInv, TokenInv, TerminateLockMu
  <2>2. LockInv' /\ SeqInv'
    BY <1>2 DEF IInv, TypeOK, LockInv, SeqInv, HoldsSending, Unregistered,
                 TerminateLockMu
  <2>3. TokenInv'
    BY <1>2 DEF IInv, TypeOK, LockInv, SeqInv, TokenInv, DoneOnce, HoldsSending,
                 Unregistered, InPending, ToSignal, TerminateLockMu
  <2>4. DoneOnce' /\ NoCrossedReplies'
    BY <1>2 DEF IInv, TypeOK, SeqInv, TokenInv, DoneOnce, NoCrossedReplies,
                 Unregistered, InPending, ToSignal, TerminateLockMu
  <2> QED BY <2>1, <2>2, <2>3, <2>4 DEF IInv
<1>3. ASSUME NEW s \in todo, TerminateCall(s) PROVE IInv'
  <2>1. TypeOK'
    BY <1>3 DEF IInv, TypeOK, LockInv, TokenInv, TerminateCall, Done
  <2>2. LockInv' /\ SeqInv'
    BY <1>3 DEF IInv, TypeOK, LockInv, SeqInv, HoldsSending, Unregistered,
                 TerminateCall, Done
  <2>3. TokenInv'
    BY <1>3 DEF IInv, TypeOK, LockInv, SeqInv, TokenInv, DoneOnce, HoldsSending,
                 Unregistered, InPending, ToSignal, TerminateCall, Done
  <2>4. DoneOnce' /\ NoCrossedReplies'
    BY <1>3 DEF IInv, TypeOK, SeqInv, TokenInv, DoneOnce, NoCrossedReplies,
                 Unregistered, InPending, ToSignal, TerminateCall, Done
  <2> QED BY <2>1, <2>2, <2>3, <2>4 DEF IInv
<1>4. CASE TerminateUnlock
  <2>1. TypeOK'
    <3>1. /\ pending' = [s \in DOMAIN pending' |-> pending'[s]]
          /\ \A s \in DOMAIN pending' : pending'[s] \in Calls
          /\ DOMAIN pending' \subseteq Nat \ {0}
          /\ todo' \subseteq DOMAIN pending'
      BY <1>4 DEF IInv, TypeOK, TerminateUnlock
    <3> QED BY <1>4, <3>1 DEF IInv, TypeOK, TerminateUnlock
  <2>2. LockInv' /\ SeqInv'
    BY <1>4 DEF IInv, TypeOK, LockInv, SeqInv, HoldsSending, Unregistered,
                 TerminateUnlock
  <2>3. TokenInv'
    BY <1>4 DEF IInv, TypeOK, LockInv, SeqInv, TokenInv, DoneOnce, HoldsSending,
                 Unregistered, InPending, ToSignal, TerminateUnlock
  <2>4. DoneOnce' /\ NoCrossedReplies'
    BY <1>4 DEF IInv, TypeOK, SeqInv, TokenInv, DoneOnce, NoCrossedReplies,
                 Unregistered, InPending, ToSignal, TerminateUnlock
  <2> QED BY <2>1, <2>2, <2>3, <2>4 DEF IInv
<1> QED BY <1>1, <1>2, <1>3, <1>4 DEF Terminate

\* Close sets a flag that IInv does not mention beyond its type.
LEMMA ClosePreserves == IInv /\ Close => IInv'
BY DEF IInv, TypeOK, LockInv, SeqInv, TokenInv, DoneOnce, NoCrossedReplies,
       HoldsSending, Unregistered, InPending, ToSignal, Close,
       client, calls, users, recvr, net, table, flags, done, local

\* The loss of the connection changes none of the Client's state.
LEMMA ConnLostPreserves == IInv /\ ConnLost => IInv'
BY DEF IInv, TypeOK, LockInv, SeqInv, TokenInv, DoneOnce, NoCrossedReplies,
       HoldsSending, Unregistered, InPending, ToSignal, ConnLost,
       client, calls, users, recvr, net, table, flags, done, local

\* A step that changes nothing preserves everything.
LEMMA StutterPreserves == IInv /\ UNCHANGED vars => IInv'
BY DEF IInv, TypeOK, LockInv, SeqInv, TokenInv, DoneOnce, NoCrossedReplies,
       HoldsSending, Unregistered, InPending, ToSignal,
       vars, client, calls, users, recvr, net, table, flags, done, local

\* IInv holds in every reachable state: TypeOK, DoneOnce and NoCrossedReplies are
\* among its conjuncts.
THEOREM Invariant == Spec => []IInv
<1>1. IInv /\ [Next]_vars => IInv'
  BY SendPreserves, UserPreserves, ReceivePreserves, TerminatePreserves,
     ClosePreserves, ConnLostPreserves, StutterPreserves DEF Next, Terminated
<1> QED BY InitIInv, <1>1, PTL DEF Spec

\* The variables keep their types: in particular pending never holds a nil call,
\* which terminateCalls would dereference.
THEOREM TypeCorrect == Spec => []TypeOK
BY Invariant, PTL DEF IInv

\* call.done() runs at most once for a call, so that a Done channel never keeps
\* a second signal that nobody will read.
THEOREM SignalledOnce == Spec => []DoneOnce
BY Invariant, PTL DEF IInv

\* The pending map leads every answer to the call it belongs to.
THEOREM RepliesMatch == Spec => []NoCrossedReplies
BY Invariant, PTL DEF IInv

\* Once receive() has ended, every caller that waits has its signal.
THEOREM NobodyOrphaned == Spec => []NoOrphan
<1>1. IInv => NoOrphan
  BY ClientAssumption DEF IInv, TypeOK, LockInv, TokenInv, ToSignal, NoOrphan
<1> QED BY Invariant, <1>1, PTL

\* Only a call whose context expired can see its Reply change after it returned.
THEOREM RepliesSettled == Spec => LateWriteOnlyAfterTimeout
<1>1. ASSUME IInv, [Next]_vars, NEW c \in Calls,
             pc[c] = "returned", reply'[c] # reply[c]
      PROVE  ret[c] = "ctx"
  <2>1. CASE ReadBody
    <3>1. rcvCall = c
      BY <1>1, <2>1 DEF ReadBody, IInv, TypeOK
    <3> QED BY <1>1, <2>1, <3>1 DEF IInv, TokenInv, ReadBody
  <2>2. CASE ~ReadBody
    BY <1>1, <2>2 DEF Next, Send, Terminate, Terminated, vars, client, calls, users,
       recvr, net, table, flags, done, local, Begin, LockSending, RegisterCall, RegisterRefused, Write,
       WriteFails, RemoveUnsent, SendDone, CallReturns, Collect, TakeResult,
       CtxDone, CancelCall, ReadHeader, Close, ReadHeaderFails, ReadBodyFails,
       Deliver, TerminateLockSending, TerminateLockMu, TerminateCall,
       TerminateUnlock, ConnLost
  <2> QED BY <2>1, <2>2
<1>2. IInv /\ [Next]_vars
        => [\A c \in Calls :
              pc[c] = "returned" /\ reply'[c] # reply[c] => ret[c] = "ctx"]_vars
  BY <1>1
<1> QED BY Invariant, <1>2, PTL DEF Spec, LateWriteOnlyAfterTimeout

-----------------------------------------------------------------------------
(***************************************************************************)
(* The RPC client implements RpcCalls, for every set of callers: each step *)
(* of RpcClient is, through the mapping given there, a step of RpcCalls or *)
(* changes nothing that RpcCalls knows of.                                 *)
(***************************************************************************)
\* Every step keeps OutcomeInv; TokenInv says that nobody else touches the call
\* that receive() is about to signal.
LEMMA OutcomeInvStep ==
    ASSUME IInv, IInv', OutcomeInv, [Next]_vars
    PROVE  OutcomeInv'
<1>. USE ClientAssumption DEF client, calls, users, recvr, net, table, flags, done, local,
         UnlockSending, OutcomeInv
<1>1. CASE UNCHANGED vars
  BY <1>1 DEF vars
<1>2. ASSUME NEW c \in Calls, Begin(c) \/ Send(c) PROVE OutcomeInv'
  <2>1. CASE RemoveUnsent(c)
    <3>1. RemovedCall(callSeq[c]) # None
            => RemovedCall(callSeq[c]) \in Calls /\ InPending(RemovedCall(callSeq[c]))
      BY DEF RemovedCall, IInv, TypeOK, SeqInv, InPending
    <3>2. rcv = "deliver" => rcvCall \in Calls /\ RemovedCall(callSeq[c]) # rcvCall
      BY <3>1 DEF IInv, TypeOK, TokenInv
    <3>3. RemovedCall(callSeq[c]) # None => RemovedCall(callSeq[c]) = c
      BY <2>1 DEF RemovedCall, IInv, TypeOK, SeqInv, RemoveUnsent, Unregistered
    <3> QED BY <2>1, <3>1, <3>2, <3>3 DEF RemoveUnsent, IInv, TypeOK
  <2>2. CASE RegisterRefused(c)
    BY <2>2 DEF RegisterRefused, IInv, TypeOK, TokenInv
  <2>3. CASE ~RemoveUnsent(c) /\ ~RegisterRefused(c)
    BY <1>2, <2>3 DEF Send, Begin, LockSending, RegisterCall, Write, WriteFails, SendDone,
       Done, IInv, TypeOK
  <2> QED BY <2>1, <2>2, <2>3
<1>3. ASSUME NEW c \in Calls, CallReturns(c) \/ CtxDone(c) \/ CancelCall(c) \/ Collect(c)
      PROVE  OutcomeInv'
  <2>1. CASE CallReturns(c) \/ Collect(c)
    <3>1. /\ ret' = [ret EXCEPT ![c] = callErr[c]] /\ pc' = [pc EXCEPT ![c] = "returned"]
          /\ queued' = queued \ {c}
          /\ UNCHANGED <<callErr, reply, rcv, rcvCall, rcvErr, conn>>
      BY <2>1 DEF CallReturns, Collect, TakeResult
    <3>2. callErr[c] \in {"nil", "err"}
      BY DEF IInv, TypeOK
    <3> QED BY <3>1, <3>2 DEF IInv, TypeOK
  <2>2. CASE CtxDone(c)
    BY <2>2 DEF CtxDone, IInv, TypeOK
  <2>3. CASE CancelCall(c)
    BY <2>3 DEF CancelCall, IInv, TypeOK
  <2> QED BY <1>3, <2>1, <2>2, <2>3
<1>4. ASSUME NEW c \in Calls, ReadHeader(c) PROVE OutcomeInv'
  BY <1>4 DEF ReadHeader
<1>5. CASE ReadHeaderFails
  BY <1>5 DEF ReadHeaderFails
<1>6. CASE ReadBody
  BY <1>6 DEF ReadBody, IInv, TypeOK, TokenInv
<1>7. CASE ReadBodyFails
  BY <1>7 DEF ReadBodyFails, IInv, TypeOK, TokenInv
<1>8. CASE Deliver
  BY <1>8 DEF Deliver, Done, IInv, TypeOK, TokenInv
<1>9. CASE Terminate
  <2>1. ASSUME NEW s \in todo, TerminateCall(s) PROVE OutcomeInv'
    BY <2>1 DEF TerminateCall, Done, IInv, TypeOK, SeqInv, TokenInv, InPending
  <2>2. CASE TerminateLockSending \/ TerminateLockMu \/ TerminateUnlock
    BY <2>2 DEF TerminateLockSending, TerminateLockMu, TerminateUnlock
  <2> QED BY <1>9, <2>1, <2>2 DEF Terminate
<1>10. CASE Close \/ ConnLost
  BY <1>10 DEF Close, ConnLost
<1> QED BY <1>1, <1>2, <1>3, <1>4, <1>5, <1>6, <1>7, <1>8, <1>9, <1>10 DEF Next, Terminated

\* Only the end of the connection ends a call with neither an error nor a reply,
\* and only an answer or a failure ends it otherwise.
THEOREM StrongInvariant == Spec => []StrongInv
<1>1. Init => OutcomeInv
  BY ClientAssumption DEF Init, OutcomeInv
<1>2. StrongInv /\ IInv' /\ [Next]_vars => StrongInv'
  BY OutcomeInvStep DEF StrongInv
<1> QED BY InitIInv, Invariant, <1>1, <1>2, PTL DEF Spec, StrongInv

-----------------------------------------------------------------------------
\* What a call ended with, and what its caller got, stay as they are as long as
\* the call's own variables do, or while the call is not over.
LEMMA SameCall ==
    ASSUME IInv, NEW c \in Calls,
           signals'[c] = signals[c], ret'[c] = ret[c],
           pc'[c] = "idle" <=> pc[c] = "idle",
           signals[c] # 0 => callErr'[c] = callErr[c] /\ reply'[c] = reply[c],
           ret[c] \in {"nil", "err"} => signals[c] # 0
    PROVE  AbstractCall(c)' = AbstractCall(c) /\ AbstractResult(c)' = AbstractResult(c)
BY DEF Outcome, AbstractCall, AbstractResult, IInv, TypeOK

\* A step after which every call looks the same is a stutter of RpcCalls, or its
\* Disconnect if the connection went.
LEMMA SameCalls ==
    ASSUME \A c \in Calls : /\ AbstractCall(c)' = AbstractCall(c)
                            /\ AbstractResult(c)' = AbstractResult(c),
           conn' = "up" => conn = "up"
    PROVE  [Abstract!Next]_(Abstract!vars)
<1>1. /\ [c \in Calls |-> AbstractCall(c)]' = [c \in Calls |-> AbstractCall(c)]
      /\ [c \in Calls |-> AbstractResult(c)]' = [c \in Calls |-> AbstractResult(c)]
  OBVIOUS
<1>2. CASE (conn' = "up") = (conn = "up")
  BY <1>1, <1>2 DEF Abstract!vars
<1>3. CASE conn = "up" /\ conn' # "up"
  BY <1>1, <1>3 DEF Abstract!Next, Abstract!Disconnect
<1> QED BY <1>2, <1>3

\* A step that ends one call and leaves the others alone.
LEMMA OneEnds ==
    ASSUME NEW c \in Calls, AbstractCall(c) = "open",
           AbstractCall(c)' \in {"answer", "error", "nothing"},
           AbstractCall(c)' = "nothing" => conn # "up",
           \A d \in Calls \ {c} : AbstractCall(d)' = AbstractCall(d),
           \A d \in Calls : AbstractResult(d)' = AbstractResult(d),
           conn' = conn
    PROVE  Abstract!Next
<1>1. [d \in Calls |-> AbstractCall(d)]'
        = [[d \in Calls |-> AbstractCall(d)] EXCEPT ![c] = AbstractCall(c)']
  OBVIOUS
<1>2. [d \in Calls |-> AbstractResult(d)]' = [d \in Calls |-> AbstractResult(d)]
  OBVIOUS
<1>3. Abstract!End(c, AbstractCall(c)')
  BY <1>1, <1>2 DEF Abstract!End
<1> QED BY <1>3 DEF Abstract!Next, Abstract!Outcomes

\* A step that gives one caller its result and leaves the others alone.
LEMMA OneReturns ==
    ASSUME NEW c \in Calls, AbstractResult(c) = "none",
           \A d \in Calls : AbstractCall(d)' = AbstractCall(d),
           \A d \in Calls \ {c} : AbstractResult(d)' = AbstractResult(d),
           conn' = conn,
           \/ /\ AbstractCall(c) \in {"answer", "error", "nothing"}
              /\ AbstractResult(c)' = AbstractCall(c)
           \/ /\ c \in SyncCalls /\ AbstractCall(c) # "idle"
              /\ AbstractResult(c)' = "timeout"
    PROVE  Abstract!Next
<1>1. [d \in Calls |-> AbstractResult(d)]'
        = [[d \in Calls |-> AbstractResult(d)] EXCEPT ![c] = AbstractResult(c)']
  OBVIOUS
<1>2. [d \in Calls |-> AbstractCall(d)]' = [d \in Calls |-> AbstractCall(d)]
  OBVIOUS
<1>3. Abstract!Return(c) \/ Abstract!GiveUp(c)
  BY <1>1, <1>2 DEF Abstract!Return, Abstract!GiveUp, Abstract!Outcomes
<1> QED BY <1>3 DEF Abstract!Next

\* A caller's steps in Call and Go: its first step issues the call, call.done() in
\* send ends it with an error, the rest is invisible.
LEMMA CallerMaps ==
    ASSUME StrongInv, NEW c \in Calls,
           \/ Begin(c) \/ Send(c)
           \/ CallReturns(c) \/ CtxDone(c) \/ CancelCall(c) \/ Collect(c)
    PROVE  [Abstract!Next]_(Abstract!vars)
<1>. USE ClientAssumption DEF client, calls, users, recvr, net, table, flags, done, local,
         UnlockSending
<1>0. \A d \in Calls : ret[d] \in {"nil", "err"} => signals[d] # 0
  BY DEF StrongInv, OutcomeInv, IInv, TokenInv
<1>1. CASE Begin(c)
  <2>1. \A d \in Calls : AbstractResult(d)' = AbstractResult(d)
    BY <1>1 DEF Begin, AbstractResult, Outcome
  <2>2. \A d \in Calls \ {c} : AbstractCall(d)' = AbstractCall(d)
    BY <1>1 DEF Begin, AbstractCall, Outcome, StrongInv, IInv, TypeOK
  <2>3. AbstractCall(c) = "idle" /\ AbstractCall(c)' = "open"
    BY <1>1 DEF Begin, AbstractCall, StrongInv, IInv, TypeOK, TokenInv, Unregistered
  <2>4. [d \in Calls |-> AbstractCall(d)]'
          = [[d \in Calls |-> AbstractCall(d)] EXCEPT ![c] = "open"]
    BY <2>2, <2>3
  <2>5. [d \in Calls |-> AbstractResult(d)]' = [d \in Calls |-> AbstractResult(d)]
    BY <2>1
  <2>6. Abstract!Issue(c)
    BY <1>1, <2>3, <2>4, <2>5 DEF Abstract!Issue, Begin
  <2> QED BY <2>6 DEF Abstract!Next
<1>2. CASE LockSending(c) \/ RegisterCall(c) \/ Write(c) \/ WriteFails(c) \/ CtxDone(c)
  <2>1. \A d \in Calls : /\ signals'[d] = signals[d] /\ ret'[d] = ret[d]
                         /\ callErr'[d] = callErr[d] /\ reply'[d] = reply[d]
                         /\ pc'[d] = "idle" <=> pc[d] = "idle"
    BY <1>2 DEF LockSending, RegisterCall, Write, WriteFails, CtxDone, StrongInv, IInv, TypeOK
  <2>2. conn' = "up" => conn = "up"
    BY <1>2 DEF LockSending, RegisterCall, Write, WriteFails, CtxDone
  <2>3. \A d \in Calls : /\ AbstractCall(d)' = AbstractCall(d)
                         /\ AbstractResult(d)' = AbstractResult(d)
    BY <1>0, <2>1, SameCall DEF StrongInv
  <2> QED BY <2>2, <2>3, SameCalls
<1>3. CASE RegisterRefused(c) \/ RemoveUnsent(c)
  <2>1. \A d \in Calls : /\ signals'[d] = signals[d] /\ ret'[d] = ret[d]
                         /\ pc'[d] = "idle" <=> pc[d] = "idle"
                         /\ reply'[d] = reply[d]
    BY <1>3 DEF RegisterRefused, RemoveUnsent, StrongInv, IInv, TypeOK
  <2>2. \A d \in Calls : callErr'[d] # callErr[d] => signals[d] = 0
    <3>1. CASE RegisterRefused(c)
      BY <3>1 DEF RegisterRefused, StrongInv, IInv, TypeOK, TokenInv, Unregistered
    <3>2. CASE RemoveUnsent(c)
      BY <3>2 DEF RemoveUnsent, RemovedCall, IsAvailable, ToSignal, InPending,
         StrongInv, IInv, TypeOK, SeqInv, TokenInv
    <3> QED BY <1>3, <3>1, <3>2
  <2>3. \A d \in Calls : /\ AbstractCall(d)' = AbstractCall(d)
                         /\ AbstractResult(d)' = AbstractResult(d)
    BY <1>0, <2>1, <2>2, SameCall DEF StrongInv
  <2>4. conn' = conn
    BY <1>3 DEF RegisterRefused, RemoveUnsent
  <2> QED BY <2>3, <2>4, SameCalls
<1>4. CASE SendDone(c)
  <2>1. \A d \in Calls : /\ ret'[d] = ret[d] /\ callErr'[d] = callErr[d]
                         /\ reply'[d] = reply[d]
                         /\ pc'[d] = "idle" <=> pc[d] = "idle"
                         /\ d # c => signals'[d] = signals[d]
    BY <1>4 DEF SendDone, Done, StrongInv, IInv, TypeOK
  <2>2. \A d \in Calls \ {c} : AbstractCall(d)' = AbstractCall(d)
    BY <1>0, <2>1, SameCall DEF StrongInv
  <2>3. \A d \in Calls : AbstractResult(d)' = AbstractResult(d)
    BY <2>1 DEF AbstractResult, Outcome
  <2>4. AbstractCall(c) = "open" /\ AbstractCall(c)' = "error"
    BY <1>4 DEF SendDone, Done, AbstractCall, Outcome, StrongInv, OutcomeInv, IInv,
       TypeOK, TokenInv
  <2> QED BY <1>4, <2>2, <2>3, <2>4, OneEnds DEF SendDone
<1>5. CASE CallReturns(c) \/ CancelCall(c) \/ Collect(c)
  <2>1. \A d \in Calls : /\ signals'[d] = signals[d] /\ callErr'[d] = callErr[d]
                         /\ reply'[d] = reply[d]
                         /\ pc'[d] = "idle" <=> pc[d] = "idle"
                         /\ d # c => ret'[d] = ret[d]
    BY <1>5 DEF CallReturns, CancelCall, Collect, TakeResult, StrongInv, IInv, TypeOK,
       TokenInv, Unregistered
  <2>2. \A d \in Calls \ {c} : AbstractResult(d)' = AbstractResult(d)
    BY <2>1 DEF AbstractResult, Outcome
  <2>3. \A d \in Calls : AbstractCall(d)' = AbstractCall(d)
    BY <2>1 DEF AbstractCall, Outcome
  <2>4. conn' = conn /\ pc[c] # "idle"
    BY <1>5 DEF CallReturns, CancelCall, Collect, TakeResult, StrongInv, IInv, TypeOK,
       TokenInv, Unregistered
  <2>5. AbstractResult(c) = "none"
    BY <1>5 DEF CallReturns, CancelCall, Collect, TakeResult, AbstractResult,
       StrongInv, OutcomeInv, BetweenGoCalls, IInv, TypeOK
  <2>6. CASE CancelCall(c)
    <3>1. c \in SyncCalls
      BY <2>6 DEF CancelCall, StrongInv, OutcomeInv
    <3>2. AbstractCall(c) # "idle" /\ AbstractResult(c)' = "timeout"
      BY <2>4, <2>6 DEF CancelCall, AbstractCall, AbstractResult, Outcome, StrongInv, IInv,
         TypeOK
    <3> QED BY <2>2, <2>3, <2>4, <2>5, <3>1, <3>2, OneReturns
  <2>7. CASE CallReturns(c) \/ Collect(c)
    <3>1. signals[c] = 1 /\ ret'[c] = callErr[c]
      BY <2>7 DEF CallReturns, Collect, TakeResult, StrongInv, IInv, TypeOK, TokenInv
    <3>2. /\ AbstractCall(c) \in {"answer", "error", "nothing"}
          /\ AbstractResult(c)' = AbstractCall(c)
      BY <2>1, <2>4, <3>1 DEF AbstractCall, AbstractResult, Outcome, StrongInv, IInv, TypeOK
    <3> QED BY <2>2, <2>3, <2>4, <2>5, <3>2, OneReturns
  <2> QED BY <1>5, <2>6, <2>7
<1> QED BY <1>1, <1>2, <1>3, <1>4, <1>5 DEF Send

\* The steps of receive(): an answer, or the end of the connection, ends a call
\* when call.done() completes, and not before.
LEMMA ReceiverMaps ==
    ASSUME StrongInv,
           \/ \E c \in Calls : ReadHeader(c)
           \/ ReadHeaderFails \/ ReadBody \/ ReadBodyFails \/ Deliver
           \/ Terminate
    PROVE  [Abstract!Next]_(Abstract!vars)
<1>. USE ClientAssumption DEF client, calls, users, recvr, net, table, flags, done, local,
         UnlockSending
<1>0. \A d \in Calls : ret[d] \in {"nil", "err"} => signals[d] # 0
  BY DEF StrongInv, OutcomeInv, IInv, TokenInv
<1>1. CASE \/ \E c \in Calls : ReadHeader(c)
           \/ ReadHeaderFails \/ TerminateLockSending \/ TerminateLockMu \/ TerminateUnlock
  <2>1. UNCHANGED <<signals, ret, callErr, reply, pc, conn>>
    BY <1>1 DEF ReadHeader, ReadHeaderFails, TerminateLockSending, TerminateLockMu,
       TerminateUnlock
  <2>2. \A d \in Calls : /\ AbstractCall(d)' = AbstractCall(d)
                         /\ AbstractResult(d)' = AbstractResult(d)
    BY <2>1 DEF AbstractCall, AbstractResult, Outcome
  <2> QED BY <2>1, <2>2, SameCalls
<1>2. CASE ReadBody \/ ReadBodyFails
  <2>1. UNCHANGED <<signals, ret, pc, conn>>
    BY <1>2 DEF ReadBody, ReadBodyFails
  <2>2. \A d \in Calls : signals[d] # 0 => callErr'[d] = callErr[d] /\ reply'[d] = reply[d]
    BY <1>2 DEF ReadBody, ReadBodyFails, StrongInv, IInv, TypeOK, TokenInv
  <2>3. \A d \in Calls : /\ AbstractCall(d)' = AbstractCall(d)
                         /\ AbstractResult(d)' = AbstractResult(d)
    BY <1>0, <2>1, <2>2, SameCall DEF StrongInv
  <2> QED BY <2>1, <2>3, SameCalls
<1>3. CASE Deliver
  <2>1. PICK c : c = rcvCall
    OBVIOUS
  <2>2. /\ c \in Calls /\ signals[c] = 0 /\ pc[c] # "idle"
        /\ callErr[c] = "err" \/ reply[c] = c
    BY <1>3, <2>1 DEF Deliver, StrongInv, OutcomeInv, IInv, TypeOK, TokenInv, Unregistered
  <2>3. /\ UNCHANGED <<ret, callErr, reply, pc, conn>>
        /\ \A d \in Calls : signals'[d] = IF d = c THEN 1 ELSE signals[d]
    BY <1>3, <2>1, <2>2 DEF Deliver, Done, StrongInv, IInv, TypeOK
  <2>4. \A d \in Calls : AbstractResult(d)' = AbstractResult(d)
    BY <2>3 DEF AbstractResult, Outcome
  <2>5. \A d \in Calls \ {c} : AbstractCall(d)' = AbstractCall(d)
    BY <2>3 DEF AbstractCall, Outcome
  <2>6. AbstractCall(c) = "open" /\ AbstractCall(c)' \in {"answer", "error"}
    BY <2>2, <2>3 DEF AbstractCall, Outcome
  <2> QED BY <2>2, <2>3, <2>4, <2>5, <2>6, OneEnds
<1>4. ASSUME NEW s \in todo, TerminateCall(s) PROVE Abstract!Next
  <2>1. PICK c : c = pending[s]
    OBVIOUS
  <2>2. c \in Calls /\ InPending(c) /\ ToSignal(c)
    BY <1>4, <2>1 DEF StrongInv, IInv, TypeOK, SeqInv, InPending, ToSignal
  <2>3. signals[c] = 0 /\ pc[c] # "idle" /\ ret[c] \in {"none", "ctx"}
    <3>1. signals[c] = 0
      BY <2>2 DEF StrongInv, IInv, TokenInv
    <3>2. pc[c] # "idle"
      BY <2>2 DEF StrongInv, IInv, TypeOK, SeqInv, Unregistered, InPending
    <3> QED BY <1>0, <2>2, <3>1, <3>2 DEF StrongInv, IInv, TypeOK
  <2>4. /\ UNCHANGED <<ret, reply, pc, conn>>
        /\ \A d \in Calls : /\ signals'[d] = IF d = c THEN 1 ELSE signals[d]
                            /\ callErr'[d] = IF d = c THEN rcvErr ELSE callErr[d]
    BY <1>4, <2>1, <2>2, <2>3 DEF TerminateCall, Done, StrongInv, IInv, TypeOK
  <2>5. rcvErr = "nil" => conn # "up"
    BY <1>4 DEF TerminateCall, StrongInv, OutcomeInv
  <2>6. \A d \in Calls : AbstractResult(d)' = AbstractResult(d)
    BY <2>3, <2>4 DEF AbstractResult, Outcome
  <2>7. \A d \in Calls \ {c} : AbstractCall(d)' = AbstractCall(d)
    BY <2>4 DEF AbstractCall, Outcome
  <2>8. /\ AbstractCall(c) = "open" /\ AbstractCall(c)' \in {"answer", "error", "nothing"}
        /\ AbstractCall(c)' = "nothing" => conn # "up"
    BY <2>2, <2>3, <2>4, <2>5 DEF AbstractCall, Outcome, StrongInv, IInv, TypeOK
  <2> QED BY <2>2, <2>4, <2>6, <2>7, <2>8, OneEnds
<1> QED BY <1>1, <1>2, <1>3, <1>4 DEF Terminate

\* The client implements RpcCalls: a caller never sees two outcomes, nor an outcome
\* its call did not have, and a result without reply or error betrays a dead
\* connection.
THEOREM Implementation == Spec => ImplementsRpcCalls
<1>1. Init => Abstract!Init
  <2>1. SUFFICES ASSUME Init PROVE Abstract!Init
    OBVIOUS
  <2>2. \A c \in Calls : AbstractCall(c) = "idle" /\ AbstractResult(c) = "none"
    BY <2>1 DEF Init, AbstractCall, AbstractResult
  <2> QED BY <2>1, <2>2 DEF Init, Abstract!Init
<1>2. StrongInv /\ [Next]_vars => [Abstract!Next]_(Abstract!vars)
  <2>1. SUFFICES ASSUME StrongInv, [Next]_vars PROVE [Abstract!Next]_(Abstract!vars)
    OBVIOUS
  <2>2. CASE Close \/ ConnLost \/ UNCHANGED vars
    <3>1. UNCHANGED <<signals, ret, callErr, reply, pc>> /\ (conn' = "up" => conn = "up")
      BY <2>2 DEF Close, ConnLost, vars, calls, users, recvr, net, done
    <3>2. \A c \in Calls : /\ AbstractCall(c)' = AbstractCall(c)
                           /\ AbstractResult(c)' = AbstractResult(c)
      BY <3>1 DEF AbstractCall, AbstractResult, Outcome
    <3> QED BY <3>1, <3>2, SameCalls
  <2> QED BY <2>1, <2>2, CallerMaps, ReceiverMaps DEF Next, Terminated
<1> QED BY StrongInvariant, <1>1, <1>2, PTL DEF Spec, ImplementsRpcCalls, Abstract!Spec
==============================================================================
