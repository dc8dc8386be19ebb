--------------------------- MODULE RpcServerProofs ---------------------------
(***************************************************************************)
(* Safety of a connection of the RPC server for every finite set of        *)
(* requests: IInv is inductive, and the invariants that RpcServer states   *)
(* follow from it.                                                         *)
(***************************************************************************)
EXTENDS RpcServer, FiniteSetTheorems, TLAPS

\* The handlers that run are finitely many, so that they can be counted.
LEMMA ActiveFinite == IsFiniteSet(Active) /\ Cardinality(Active) \in Nat
<1>1. Active \subseteq Requests
  BY DEF Active
<1> QED BY <1>1, ServerAssumption, FS_Subset, FS_CardinalityType

\* A union has at most as many elements as its parts together.
LEMMA UnionBound ==
    ASSUME NEW S, NEW T, IsFiniteSet(S), IsFiniteSet(T)
    PROVE  /\ IsFiniteSet(S \cup T)
           /\ Cardinality(S \cup T) <= Cardinality(S) + Cardinality(T)
<1>1. S \cap T \subseteq S
  OBVIOUS
<1>2. /\ Cardinality(S \cap T) \in Nat
      /\ Cardinality(S) \in Nat /\ Cardinality(T) \in Nat
  BY <1>1, FS_Subset, FS_CardinalityType
<1>3. /\ IsFiniteSet(S \cup T)
      /\ Cardinality(S \cup T) = Cardinality(S) + Cardinality(T) - Cardinality(S \cap T)
  BY FS_Union
<1>. DEFINE n == Cardinality(S \cap T)
<1>. HIDE DEF n
<1>4. n \in Nat
  BY <1>2 DEF n
<1>5. Cardinality(S \cup T) = Cardinality(S) + Cardinality(T) - n
  BY <1>3 DEF n
<1> QED BY <1>2, <1>3, <1>4, <1>5

\* wg.Done() is called only while a handler runs.
LEMMA CountPositive ==
    ASSUME IInv, NEW r \in Active
    PROVE  wg - 1 \in Nat
<1>1. IsFiniteSet(Active \ {r}) /\ Cardinality(Active \ {r}) = Cardinality(Active) - 1
  BY ActiveFinite, FS_RemoveElement
<1>2. Cardinality(Active \ {r}) \in Nat
  BY <1>1, FS_CardinalityType
<1> QED BY <1>1, <1>2 DEF IInv, CountInv

\* The initial state satisfies the inductive invariant.
LEMMA InitIInv == Init => IInv
<1>. SUFFICES ASSUME Init PROVE IInv
  OBVIOUS
<1>. USE ServerAssumption DEF Init
<1>1. TypeOK
  BY DEF TypeOK
<1>2. LockInv
  BY DEF LockInv, Goroutines
<1>3. CountInv
  <2>1. Active = {}
    BY DEF Active
  <2> QED BY <2>1, FS_EmptySet DEF CountInv
<1>4. RequestInv /\ AnswerInv
  BY DEF RequestInv, AnswerInv, TimedOut
<1> QED BY <1>1, <1>2, <1>3, <1>4 DEF IInv

\* What the peer does changes nothing that the server relies on.
LEMMA PeerPreserves ==
    ASSUME IInv,
           \/ PeerCloses \/ Reset
           \/ \E r \in Requests : ClientSends(r)
    PROVE  IInv'
<1>. USE ServerAssumption DEF peer, serve, request
<1>1. CASE PeerCloses
  <2>1. TypeOK'
    BY <1>1 DEF IInv, TypeOK, PeerCloses
  <2>2. LockInv'
    BY <1>1 DEF IInv, TypeOK, LockInv, Goroutines, PeerCloses
  <2>3. CountInv'
    <3>1. Active' = Active
      BY <1>1 DEF IInv, TypeOK, Active, PeerCloses
    <3> QED BY <1>1, <3>1 DEF IInv, CountInv, PeerCloses
  <2>4. RequestInv'
    BY <1>1 DEF IInv, TypeOK, RequestInv, PeerCloses
  <2>5. AnswerInv'
    BY <1>1 DEF IInv, TypeOK, RequestInv, AnswerInv, TimedOut, PeerCloses
  <2> QED BY <2>1, <2>2, <2>3, <2>4, <2>5 DEF IInv
<1>2. CASE Reset
  <2>1. TypeOK'
    BY <1>2 DEF IInv, TypeOK, Reset
  <2>2. LockInv'
    BY <1>2 DEF IInv, TypeOK, LockInv, Goroutines, Reset
  <2>3. CountInv'
    <3>1. Active' = Active
      BY <1>2 DEF IInv, TypeOK, Active, Reset
    <3> QED BY <1>2, <3>1 DEF IInv, CountInv, Reset
  <2>4. RequestInv'
    BY <1>2 DEF IInv, TypeOK, RequestInv, Reset
  <2>5. AnswerInv'
    BY <1>2 DEF IInv, TypeOK, RequestInv, AnswerInv, TimedOut, Reset
  <2> QED BY <2>1, <2>2, <2>3, <2>4, <2>5 DEF IInv
<1>3. ASSUME NEW r \in Requests, ClientSends(r) PROVE IInv'
  <2>1. TypeOK'
    BY <1>3 DEF IInv, TypeOK, ClientSends
  <2>2. LockInv'
    BY <1>3 DEF IInv, TypeOK, LockInv, Goroutines, ClientSends
  <2>3. CountInv'
    <3>1. Active' = Active
      BY <1>3 DEF IInv, TypeOK, Active, ClientSends
    <3> QED BY <1>3, <3>1 DEF IInv, CountInv, ClientSends
  <2>4. RequestInv'
    BY <1>3 DEF IInv, TypeOK, RequestInv, ClientSends
  <2>5. AnswerInv'
    BY <1>3 DEF IInv, TypeOK, RequestInv, AnswerInv, TimedOut, ClientSends
  <2> QED BY <2>1, <2>2, <2>3, <2>4, <2>5 DEF IInv
<1> QED BY <1>1, <1>2, <1>3

\* The Option is read, or refused.
LEMMA OptionPreserves ==
    ASSUME IInv, ReadOption
    PROVE  IInv'
<1>. USE ServerAssumption DEF peer, serve, request
<1>1. CASE OptionRefused
  <2>1. TypeOK'
    BY <1>1 DEF IInv, TypeOK, OptionRefused
  <2>2. LockInv'
    BY <1>1 DEF IInv, TypeOK, LockInv, Goroutines, OptionRefused
  <2>3. CountInv'
    <3>1. Active' = Active
      BY <1>1 DEF IInv, TypeOK, Active, OptionRefused
    <3> QED BY <1>1, <3>1 DEF IInv, CountInv, OptionRefused
  <2>4. RequestInv'
    BY <1>1 DEF IInv, TypeOK, RequestInv, OptionRefused
  <2>5. AnswerInv'
    BY <1>1 DEF IInv, TypeOK, RequestInv, AnswerInv, TimedOut, OptionRefused
  <2> QED BY <2>1, <2>2, <2>3, <2>4, <2>5 DEF IInv
<1>2. CASE OptionAccepted
  <2>1. TypeOK'
    BY <1>2 DEF IInv, TypeOK, OptionAccepted, InFlight
  <2>2. LockInv'
    BY <1>2 DEF IInv, TypeOK, LockInv, Goroutines, OptionAccepted, InFlight
  <2>3. CountInv'
    <3>1. Active' = Active
      BY <1>2 DEF IInv, TypeOK, Active, OptionAccepted, InFlight
    <3> QED BY <1>2, <3>1 DEF IInv, CountInv, OptionAccepted, InFlight
  <2>4. RequestInv'
    BY <1>2 DEF IInv, TypeOK, RequestInv, OptionAccepted, InFlight
  <2>5. AnswerInv'
    BY <1>2 DEF IInv, TypeOK, RequestInv, AnswerInv, TimedOut, OptionAccepted, InFlight
  <2> QED BY <2>1, <2>2, <2>3, <2>4, <2>5 DEF IInv
<1> QED BY <1>1, <1>2 DEF ReadOption

\* Every step of the loop that reads requests.
LEMMA LoopPreserves ==
    ASSUME IInv, ServeLoop
    PROVE  IInv'
<1>. USE ServerAssumption DEF peer, serve, request
<1>1. ASSUME NEW r \in Requests, Spawn(r) PROVE IInv'
  <2>1. TypeOK'
    BY <1>1 DEF IInv, TypeOK, Spawn
  <2>2. LockInv'
    BY <1>1 DEF IInv, TypeOK, LockInv, RequestInv, Goroutines, Spawn
  <2>3. CountInv'
    <3>1. Active' = Active \cup {r} /\ r \notin Active
      BY <1>1 DEF IInv, TypeOK, RequestInv, Active, Spawn
    <3>2. Cardinality(Active') = Cardinality(Active) + 1
      BY <3>1, ActiveFinite, FS_AddElement
    <3> QED BY <1>1, <3>2 DEF IInv, CountInv, Spawn
  <2>4. RequestInv'
    BY <1>1 DEF IInv, TypeOK, RequestInv, Spawn
  <2>5. AnswerInv'
    BY <1>1 DEF IInv, TypeOK, RequestInv, AnswerInv, TimedOut, Spawn
  <2> QED BY <2>1, <2>2, <2>3, <2>4, <2>5 DEF IInv
<1>2. ASSUME NEW r \in Requests, Refuse(r) PROVE IInv'
  <2>1. TypeOK'
    BY <1>2 DEF IInv, TypeOK, Refuse
  <2>2. LockInv'
    BY <1>2 DEF IInv, TypeOK, LockInv, Goroutines, Refuse
  <2>3. CountInv'
    <3>1. Active' = Active
      BY <1>2 DEF IInv, TypeOK, Active, Refuse
    <3> QED BY <1>2, <3>1 DEF IInv, CountInv, Refuse
  <2>4. RequestInv'
    BY <1>2 DEF IInv, TypeOK, RequestInv, Refuse
  <2>5. AnswerInv'
    BY <1>2 DEF IInv, TypeOK, RequestInv, AnswerInv, TimedOut, Refuse
  <2> QED BY <2>1, <2>2, <2>3, <2>4, <2>5 DEF IInv
<1>3. CASE RefuseEOF
  <2>1. TypeOK'
    BY <1>3 DEF IInv, TypeOK, RefuseEOF, InFlight
  <2>2. LockInv'
    BY <1>3 DEF IInv, TypeOK, LockInv, Goroutines, RefuseEOF, InFlight
  <2>3. CountInv'
    <3>1. Active' = Active
      BY <1>3 DEF IInv, TypeOK, Active, RefuseEOF, InFlight
    <3> QED BY <1>3, <3>1 DEF IInv, CountInv, RefuseEOF, InFlight
  <2>4. RequestInv'
    BY <1>3 DEF IInv, TypeOK, RequestInv, RefuseEOF, InFlight
  <2>5. AnswerInv'
    BY <1>3 DEF IInv, TypeOK, RequestInv, AnswerInv, TimedOut, RefuseEOF, InFlight
  <2> QED BY <2>1, <2>2, <2>3, <2>4, <2>5 DEF IInv
<1>4. CASE ReadFails
  <2>1. TypeOK'
    BY <1>4 DEF IInv, TypeOK, ReadFails, InFlight
  <2>2. LockInv'
    BY <1>4 DEF IInv, TypeOK, LockInv, Goroutines, ReadFails, InFlight
  <2>3. CountInv'
    <3>1. Active' = Active
      BY <1>4 DEF IInv, TypeOK, Active, ReadFails, InFlight
    <3> QED BY <1>4, <3>1 DEF IInv, CountInv, ReadFails, InFlight
  <2>4. RequestInv'
    BY <1>4 DEF IInv, TypeOK, RequestInv, ReadFails, InFlight
  <2>5. AnswerInv'
    BY <1>4 DEF IInv, TypeOK, RequestInv, AnswerInv, TimedOut, ReadFails, InFlight
  <2> QED BY <2>1, <2>2, <2>3, <2>4, <2>5 DEF IInv
<1>5. CASE LockRefusal
  <2>1. TypeOK'
    BY <1>5 DEF IInv, TypeOK, Goroutines, LockRefusal, Lock
  <2>2. LockInv'
    BY <1>5 DEF IInv, TypeOK, LockInv, Goroutines, LockRefusal, Lock
  <2>3. CountInv'
    <3>1. Active' = Active
      BY <1>5 DEF IInv, TypeOK, Active, LockRefusal, Lock
    <3> QED BY <1>5, <3>1 DEF IInv, CountInv, LockRefusal, Lock
  <2>4. RequestInv'
    BY <1>5 DEF IInv, TypeOK, RequestInv, LockRefusal, Lock
  <2>5. AnswerInv'
    BY <1>5 DEF IInv, TypeOK, RequestInv, AnswerInv, TimedOut, LockRefusal, Lock
  <2> QED BY <2>1, <2>2, <2>3, <2>4, <2>5 DEF IInv
<1>6. CASE SendRefusal
  <2>1. TypeOK'
    BY <1>6 DEF IInv, TypeOK, SendRefusal, WriteResponse
  <2>2. LockInv'
    BY <1>6 DEF IInv, TypeOK, LockInv, Goroutines, SendRefusal, WriteResponse
  <2>3. CountInv'
    <3>1. Active' = Active
      BY <1>6 DEF IInv, TypeOK, Active, SendRefusal, WriteResponse
    <3> QED BY <1>6, <3>1 DEF IInv, CountInv, SendRefusal, WriteResponse
  <2>4. RequestInv'
    BY <1>6 DEF IInv, TypeOK, RequestInv, SendRefusal, WriteResponse
  <2>5. AnswerInv'
    BY <1>6 DEF IInv, TypeOK, RequestInv, AnswerInv, TimedOut, SendRefusal, WriteResponse
  <2> QED BY <2>1, <2>2, <2>3, <2>4, <2>5 DEF IInv
<1>7. CASE Finish
  <2>1. TypeOK'
    BY <1>7 DEF IInv, TypeOK, Finish
  <2>2. LockInv'
    BY <1>7 DEF IInv, TypeOK, LockInv, Goroutines, Finish
  <2>3. CountInv'
    <3>1. Active' = Active
      BY <1>7 DEF Active, Finish
    <3>2. Active = {}
      BY <1>7, ActiveFinite, FS_EmptySet DEF IInv, CountInv, Finish
    <3> QED BY <1>7, <3>1, <3>2 DEF IInv, CountInv, Finish
  <2>4. RequestInv'
    BY <1>7 DEF IInv, TypeOK, RequestInv, Finish
  <2>5. AnswerInv'
    BY <1>7 DEF IInv, TypeOK, RequestInv, AnswerInv, TimedOut, Finish
  <2> QED BY <2>1, <2>2, <2>3, <2>4, <2>5 DEF IInv
<1> QED BY <1>1, <1>2, <1>3, <1>4, <1>5, <1>6, <1>7 DEF ServeLoop

\* Every step of handleRequest.
LEMMA HandlerPreserves ==
    ASSUME IInv, NEW r \in Requests, HandleRequest(r)
    PROVE  IInv'
<1>. USE ServerAssumption DEF peer, serve, request
<1>1. CASE LockReply(r)
  <2>1. TypeOK'
    BY <1>1 DEF IInv, TypeOK, Goroutines, LockReply, HandlerStep, Lock
  <2>2. LockInv'
    BY <1>1 DEF IInv, TypeOK, LockInv, Goroutines, LockReply, HandlerStep, Lock
  <2>3. CountInv'
    <3>1. Active' = Active
      BY <1>1 DEF IInv, TypeOK, Active, LockReply, HandlerStep, Lock
    <3> QED BY <1>1, <3>1 DEF IInv, CountInv, LockReply, HandlerStep, Lock
  <2>4. RequestInv'
    BY <1>1 DEF IInv, TypeOK, RequestInv, LockReply, HandlerStep, Lock
  <2>5. AnswerInv'
    BY <1>1 DEF IInv, TypeOK, RequestInv, AnswerInv, TimedOut, LockReply, HandlerStep, Lock
  <2> QED BY <2>1, <2>2, <2>3, <2>4, <2>5 DEF IInv
<1>2. CASE SendReply(r)
  <2>1. TypeOK'
    BY <1>2 DEF IInv, TypeOK, SendReply, HandlerStep, WriteResponse
  <2>2. LockInv'
    BY <1>2 DEF IInv, TypeOK, LockInv, Goroutines, SendReply, HandlerStep, WriteResponse
  <2>3. CountInv'
    <3>1. Active' = Active
      BY <1>2 DEF IInv, TypeOK, Active, SendReply, HandlerStep, WriteResponse
    <3> QED BY <1>2, <3>1 DEF IInv, CountInv, SendReply, HandlerStep, WriteResponse
  <2>4. RequestInv'
    BY <1>2 DEF IInv, TypeOK, RequestInv, SendReply, HandlerStep, WriteResponse
  <2>5. AnswerInv'
    BY <1>2 DEF IInv, TypeOK, RequestInv, AnswerInv, TimedOut, SendReply, HandlerStep, WriteResponse
  <2> QED BY <2>1, <2>2, <2>3, <2>4, <2>5 DEF IInv
<1>3. CASE SignalReply(r)
  <2>1. TypeOK'
    BY <1>3 DEF IInv, TypeOK, SignalReply, HandlerStep
  <2>2. LockInv'
    BY <1>3 DEF IInv, TypeOK, LockInv, Goroutines, SignalReply, HandlerStep
  <2>3. CountInv'
    <3>1. Active' = Active
      BY <1>3 DEF IInv, TypeOK, Active, SignalReply, HandlerStep
    <3> QED BY <1>3, <3>1 DEF IInv, CountInv, SignalReply, HandlerStep
  <2>4. RequestInv'
    BY <1>3 DEF IInv, TypeOK, RequestInv, SignalReply, HandlerStep
  <2>5. AnswerInv'
    BY <1>3 DEF IInv, TypeOK, RequestInv, AnswerInv, TimedOut, SignalReply, HandlerStep
  <2> QED BY <2>1, <2>2, <2>3, <2>4, <2>5 DEF IInv
<1>4. CASE TakeCalled(r)
  <2>1. TypeOK'
    BY <1>4 DEF IInv, TypeOK, TakeCalled
  <2>2. LockInv'
    BY <1>4 DEF IInv, TypeOK, LockInv, Goroutines, TakeCalled
  <2>3. CountInv'
    <3>1. Active' = Active
      BY <1>4 DEF IInv, TypeOK, Active, TakeCalled
    <3> QED BY <1>4, <3>1 DEF IInv, CountInv, TakeCalled
  <2>4. RequestInv'
    BY <1>4 DEF IInv, TypeOK, RequestInv, TakeCalled
  <2>5. AnswerInv'
    BY <1>4 DEF IInv, TypeOK, RequestInv, AnswerInv, TimedOut, TakeCalled
  <2> QED BY <2>1, <2>2, <2>3, <2>4, <2>5 DEF IInv
<1>5. CASE TakeSent(r)
  <2>1. TypeOK'
    <3>1. r \in Active
      BY <1>5 DEF Active, TakeSent, HandlerStep
    <3>2. wg - 1 \in Nat
      BY <3>1, CountPositive
    <3> QED BY <1>5, <3>2 DEF IInv, TypeOK, TakeSent, HandlerStep
  <2>2. LockInv'
    BY <1>5 DEF IInv, TypeOK, LockInv, Goroutines, TakeSent, HandlerStep
  <2>3. CountInv'
    <3>1. Active' = Active \ {r} /\ r \in Active
      BY <1>5 DEF IInv, TypeOK, Active, TakeSent, HandlerStep
    <3>2. Cardinality(Active') = Cardinality(Active) - 1
      BY <3>1, ActiveFinite, FS_RemoveElement
    <3> QED BY <1>5, <3>1, <3>2 DEF IInv, CountInv, TakeSent, HandlerStep
  <2>4. RequestInv'
    BY <1>5 DEF IInv, TypeOK, RequestInv, TakeSent, HandlerStep
  <2>5. AnswerInv'
    BY <1>5 DEF IInv, TypeOK, RequestInv, AnswerInv, TimedOut, TakeSent, HandlerStep
  <2> QED BY <2>1, <2>2, <2>3, <2>4, <2>5 DEF IInv
<1>6. CASE TimeUp(r)
  <2>1. TypeOK'
    BY <1>6 DEF IInv, TypeOK, TimeUp, HandlerStep
  <2>2. LockInv'
    BY <1>6 DEF IInv, TypeOK, LockInv, Goroutines, TimeUp, HandlerStep
  <2>3. CountInv'
    <3>1. Active' = Active
      BY <1>6 DEF IInv, TypeOK, Active, TimeUp, HandlerStep
    <3> QED BY <1>6, <3>1 DEF IInv, CountInv, TimeUp, HandlerStep
  <2>4. RequestInv'
    BY <1>6 DEF IInv, TypeOK, RequestInv, TimeUp, HandlerStep
  <2>5. AnswerInv'
    BY <1>6 DEF IInv, TypeOK, RequestInv, AnswerInv, TimedOut, TimeUp, HandlerStep
  <2> QED BY <2>1, <2>2, <2>3, <2>4, <2>5 DEF IInv
<1>7. CASE LockTimeout(r)
  <2>1. TypeOK'
    BY <1>7 DEF IInv, TypeOK, Goroutines, LockTimeout, HandlerStep, Lock
  <2>2. LockInv'
    BY <1>7 DEF IInv, TypeOK, LockInv, Goroutines, LockTimeout, HandlerStep, Lock
  <2>3. CountInv'
    <3>1. Active' = Active
      BY <1>7 DEF IInv, TypeOK, Active, LockTimeout, HandlerStep, Lock
    <3> QED BY <1>7, <3>1 DEF IInv, CountInv, LockTimeout, HandlerStep, Lock
  <2>4. RequestInv'
    BY <1>7 DEF IInv, TypeOK, RequestInv, LockTimeout, HandlerStep, Lock
  <2>5. AnswerInv'
    BY <1>7 DEF IInv, TypeOK, RequestInv, AnswerInv, TimedOut, LockTimeout, HandlerStep, Lock
  <2> QED BY <2>1, <2>2, <2>3, <2>4, <2>5 DEF IInv
<1>8. CASE SendTimeout(r)
  <2>1. TypeOK'
    <3>1. r \in Active
      BY <1>8 DEF Active, SendTimeout, HandlerStep, WriteResponse
    <3>2. wg - 1 \in Nat
      BY <3>1, CountPositive
    <3> QED BY <1>8, <3>2 DEF IInv, TypeOK, SendTimeout, HandlerStep, WriteResponse
  <2>2. LockInv'
    BY <1>8 DEF IInv, TypeOK, LockInv, Goroutines, SendTimeout, HandlerStep, WriteResponse
  <2>3. CountInv'
    <3>1. Active' = Active \ {r} /\ r \in Active
      BY <1>8 DEF IInv, TypeOK, Active, SendTimeout, HandlerStep, WriteResponse
    <3>2. Cardinality(Active') = Cardinality(Active) - 1
      BY <3>1, ActiveFinite, FS_RemoveElement
    <3> QED BY <1>8, <3>1, <3>2 DEF IInv, CountInv, SendTimeout, HandlerStep, WriteResponse
  <2>4. RequestInv'
    BY <1>8 DEF IInv, TypeOK, RequestInv, SendTimeout, HandlerStep, WriteResponse
  <2>5. AnswerInv'
    BY <1>8 DEF IInv, TypeOK, RequestInv, AnswerInv, TimedOut, SendTimeout, HandlerStep,
       WriteResponse
  <2> QED BY <2>1, <2>2, <2>3, <2>4, <2>5 DEF IInv
<1> QED BY <1>1, <1>2, <1>3, <1>4, <1>5, <1>6, <1>7, <1>8 DEF HandleRequest

\* Every step of the goroutine that runs the method.
LEMMA MethodPreserves ==
    ASSUME IInv, NEW r \in Requests, MethodReturns(r) \/ AfterMethod(r)
    PROVE  IInv'
<1>. USE ServerAssumption DEF peer, serve, request
<1>1. CASE MethodReturns(r)
  <2>1. TypeOK'
    BY <1>1 DEF IInv, TypeOK, MethodReturns, MethodStep
  <2>2. LockInv'
    BY <1>1 DEF IInv, TypeOK, LockInv, Goroutines, MethodReturns, MethodStep
  <2>3. CountInv'
    <3>1. Active' = Active
      BY <1>1 DEF IInv, TypeOK, Active, MethodReturns, MethodStep
    <3> QED BY <1>1, <3>1 DEF IInv, CountInv, MethodReturns, MethodStep
  <2>4. RequestInv'
    BY <1>1 DEF IInv, TypeOK, RequestInv, MethodReturns, MethodStep
  <2>5. AnswerInv'
    BY <1>1 DEF IInv, TypeOK, RequestInv, AnswerInv, TimedOut, MethodReturns, MethodStep
  <2> QED BY <2>1, <2>2, <2>3, <2>4, <2>5 DEF IInv
<1>2. CASE SetError(r)
  <2>1. TypeOK'
    BY <1>2 DEF IInv, TypeOK, SetError, MethodStep
  <2>2. LockInv'
    BY <1>2 DEF IInv, TypeOK, LockInv, Goroutines, SetError, MethodStep
  <2>3. CountInv'
    <3>1. Active' = Active
      BY <1>2 DEF IInv, TypeOK, Active, SetError, MethodStep
    <3> QED BY <1>2, <3>1 DEF IInv, CountInv, SetError, MethodStep
  <2>4. RequestInv'
    BY <1>2 DEF IInv, TypeOK, RequestInv, SetError, MethodStep
  <2>5. AnswerInv'
    BY <1>2 DEF IInv, TypeOK, RequestInv, AnswerInv, TimedOut, SetError, MethodStep
  <2> QED BY <2>1, <2>2, <2>3, <2>4, <2>5 DEF IInv
<1>3. CASE LockError(r)
  <2>1. TypeOK'
    BY <1>3 DEF IInv, TypeOK, Goroutines, LockError, MethodStep, Lock
  <2>2. LockInv'
    BY <1>3 DEF IInv, TypeOK, LockInv, Goroutines, LockError, MethodStep, Lock
  <2>3. CountInv'
    <3>1. Active' = Active
      BY <1>3 DEF IInv, TypeOK, Active, LockError, MethodStep, Lock
    <3> QED BY <1>3, <3>1 DEF IInv, CountInv, LockError, MethodStep, Lock
  <2>4. RequestInv'
    BY <1>3 DEF IInv, TypeOK, RequestInv, LockError, MethodStep, Lock
  <2>5. AnswerInv'
    BY <1>3 DEF IInv, TypeOK, RequestInv, AnswerInv, TimedOut, LockError, MethodStep, Lock
  <2> QED BY <2>1, <2>2, <2>3, <2>4, <2>5 DEF IInv
<1>4. CASE SendError(r)
  <2>1. TypeOK'
    BY <1>4 DEF IInv, TypeOK, SendError, MethodStep, WriteResponse
  <2>2. LockInv'
    BY <1>4 DEF IInv, TypeOK, LockInv, Goroutines, SendError, MethodStep, WriteResponse
  <2>3. CountInv'
    <3>1. Active' = Active
      BY <1>4 DEF IInv, TypeOK, Active, SendError, MethodStep, WriteResponse
    <3> QED BY <1>4, <3>1 DEF IInv, CountInv, SendError, MethodStep, WriteResponse
  <2>4. RequestInv'
    BY <1>4 DEF IInv, TypeOK, RequestInv, SendError, MethodStep, WriteResponse
  <2>5. AnswerInv'
    <3>. DEFINE new == [to |-> r, by |-> "method", err |-> hErr[r], body |-> "invalid"]
    <3>1. answers' = answers \cup {new}
      BY <1>4 DEF SendError, MethodStep, WriteResponse
    <3>2. \A a \in answers : ~(a.to = r /\ a.by = "method")
      BY <1>4 DEF IInv, AnswerInv, TimedOut, SendError, MethodStep, WriteResponse
    <3>3. stage[r] = "served" /\ fails[r] /\ hErr[r] # "nil" /\ r # None
      BY <1>4 DEF IInv, TypeOK, RequestInv, SendError, MethodStep, WriteResponse
    <3>4. /\ UNCHANGED <<stage, handler, timeout, fails, loopReq>>
          /\ method' = [method EXCEPT ![r] = "signal"] /\ method[r] = "erring"
      BY <1>4 DEF SendError, MethodStep, WriteResponse
    <3>. HIDE DEF new
    <3>5. new.to = r /\ new.by = "method" /\ new.err = hErr[r]
      BY DEF new
    <3>6. /\ method'[r] = "signal" /\ \A q \in Requests \ {r} : method'[q] = method[q]
          /\ r \in Requests
      BY <3>4 DEF IInv, TypeOK
    <3>7. \A q \in Requests : TimedOut(q) => TimedOut(q)'
      BY <1>4, <3>4, <3>6 DEF IInv, TypeOK, RequestInv, TimedOut, SendError, MethodStep
    <3>8. \A b \in answers' : b.to # None =>
            /\ b.by = "reply" =>
                 stage'[b.to] = "served" /\ handler'[b.to] \notin {"reply", "replying"}
            /\ b.by = "timeout" => handler'[b.to] = "done" /\ TimedOut(b.to)'
                                     /\ stage'[b.to] = "served"
            /\ b.by = "method" => method'[b.to] \in {"signal", "done"} /\ fails'[b.to]
                                    /\ stage'[b.to] = "served"
            /\ b.by = "loop" => stage'[b.to] = "refused" /\ loopReq' # b.to
      <4>1. \A b \in answers : b.to # None => b.to \in Requests
        BY DEF IInv, TypeOK
      <4> QED BY <3>1, <3>3, <3>4, <3>5, <3>6, <3>7, <4>1 DEF IInv, AnswerInv
    <3>9. \A b, d \in answers' : b.to = d.to /\ b.to # None /\ b.by = d.by => b = d
      BY <3>1, <3>2, <3>5 DEF IInv, AnswerInv
    <3>10. \A q \in Requests : fails'[q] /\ method'[q] \in {"signal", "done"} =>
            \E b \in answers' : b.to = q /\ b.err # "nil"
      BY <3>1, <3>3, <3>4, <3>5, <3>6 DEF IInv, AnswerInv
    <3> QED BY <3>8, <3>9, <3>10 DEF AnswerInv, TimedOut
  <2> QED BY <2>1, <2>2, <2>3, <2>4, <2>5 DEF IInv
<1>5. CASE SignalError(r)
  <2>1. TypeOK'
    BY <1>5 DEF IInv, TypeOK, SignalError, MethodStep
  <2>2. LockInv'
    BY <1>5 DEF IInv, TypeOK, LockInv, Goroutines, SignalError, MethodStep
  <2>3. CountInv'
    <3>1. Active' = Active
      BY <1>5 DEF IInv, TypeOK, Active, SignalError, MethodStep
    <3> QED BY <1>5, <3>1 DEF IInv, CountInv, SignalError, MethodStep
  <2>4. RequestInv'
    BY <1>5 DEF IInv, TypeOK, RequestInv, SignalError, MethodStep
  <2>5. AnswerInv'
    BY <1>5 DEF IInv, TypeOK, RequestInv, AnswerInv, TimedOut, SignalError, MethodStep
  <2> QED BY <2>1, <2>2, <2>3, <2>4, <2>5 DEF IInv
<1> QED BY <1>1, <1>2, <1>3, <1>4, <1>5 DEF AfterMethod

\* A step that changes nothing preserves the invariant.
LEMMA StutterPreserves == IInv /\ UNCHANGED vars => IInv'
BY DEF IInv, TypeOK, LockInv, CountInv, RequestInv, AnswerInv, TimedOut, Active, vars, peer, serve,
       request

\* Who holds sending, what wg counts, how far every request has come and what its
\* answers tell about that.
THEOREM Invariant == Spec => []IInv
<1>1. IInv /\ [Next]_vars => IInv'
  <2>. SUFFICES ASSUME IInv, Next PROVE IInv'
    BY StutterPreserves
  <2>1. CASE PeerCloses \/ Reset \/ \E r \in Requests : ClientSends(r)
    BY <2>1, PeerPreserves
  <2>2. CASE ReadOption
    BY <2>2, OptionPreserves
  <2>3. CASE ServeLoop
    BY <2>3, LoopPreserves
  <2>4. ASSUME NEW r \in Requests, HandleRequest(r) PROVE IInv'
    BY <2>4, HandlerPreserves
  <2>5. ASSUME NEW r \in Requests, MethodReturns(r) \/ AfterMethod(r) PROVE IInv'
    BY <2>5, MethodPreserves
  <2> QED BY <2>1, <2>2, <2>3, <2>4, <2>5 DEF Next
<1> QED BY InitIInv, <1>1, PTL DEF Spec

\* The variables keep their types; wg never becomes negative, which would panic.
THEOREM TypeCorrect == Spec => []TypeOK
BY Invariant, PTL DEF IInv

\* Responses are written to the connection one at a time.
THEOREM ResponsesNotMixed == Spec => []OneWriter
<1>1. ASSUME IInv, NEW g \in Writing PROVE sending = g
  BY <1>1, ServerAssumption DEF IInv, LockInv, Writing, Goroutines
<1>2. IInv => OneWriter
  BY <1>1 DEF OneWriter
<1> QED BY Invariant, <1>2, PTL

\* For a method that failed a response with an error is handed to cc.Write, whatever the
\* two goroutines write into the header they share; the connection may be closed by then.
THEOREM FailuresReported == Spec => []FailureReported
<1>1. IInv => FailureReported
  BY DEF IInv, AnswerInv, TimedOut, FailureReported
<1> QED BY Invariant, <1>1, PTL

\* The answers to a request differ in who sent them, and of the possible senders
\* only the reply itself is always one: the others need a failure or a time limit.
THEOREM AnswersBounded == Spec => []AnswerBound
<1>1. ASSUME IInv, NEW r \in Requests
      PROVE  Cardinality({a \in answers : a.to = r})
                <= 1 + (IF fails[r] THEN 1 ELSE 0)
                     + (IF TimedOut(r) THEN 1 ELSE 0)
  <2>. DEFINE A == {a \in answers : a.to = r}
              M == IF fails[r] THEN {"method"} ELSE {}
              T == IF TimedOut(r) THEN {"timeout"} ELSE {}
              First == IF stage[r] = "refused" THEN {"loop"} ELSE {"reply"}
              by == [a \in A |-> a.by]
  <2>1. \A a \in A : a.by \in First \cup M \cup T
    BY <1>1, ServerAssumption DEF IInv, TypeOK, AnswerInv, TimedOut
  <2>2. \A a, b \in A : a.by = b.by => a = b
    BY <1>1, ServerAssumption DEF IInv, AnswerInv, TimedOut
  <2>3. by \in Injection(A, First \cup M \cup T)
    BY <2>1, <2>2 DEF Injection, IsInjective
  <2>4. /\ IsFiniteSet(First) /\ Cardinality(First) = 1
        /\ IsFiniteSet(M) /\ Cardinality(M) = IF fails[r] THEN 1 ELSE 0
        /\ IsFiniteSet(T)
        /\ Cardinality(T) = IF TimedOut(r) THEN 1 ELSE 0
    BY FS_Singleton, FS_EmptySet
  <2>. HIDE DEF A, M, T, First, by
  <2>5. /\ IsFiniteSet(First \cup M)
        /\ Cardinality(First \cup M) <= Cardinality(First) + Cardinality(M)
    BY <2>4, UnionBound
  <2>6. /\ IsFiniteSet(First \cup M \cup T)
        /\ Cardinality(First \cup M \cup T) <= Cardinality(First \cup M) + Cardinality(T)
    BY <2>4, <2>5, UnionBound
  <2>7. IsFiniteSet(A) /\ Cardinality(A) <= Cardinality(First \cup M \cup T)
    BY <2>3, <2>6, FS_Injection
  <2>8. /\ Cardinality(A) \in Nat /\ Cardinality(First \cup M) \in Nat
        /\ Cardinality(First \cup M \cup T) \in Nat
    BY <2>5, <2>6, <2>7, FS_CardinalityType
  <2>9. Cardinality(A) <= 1 + (IF fails[r] THEN 1 ELSE 0)
                            + (IF TimedOut(r) THEN 1 ELSE 0)
    BY <2>4, <2>5, <2>6, <2>7, <2>8
  <2> QED BY <2>9 DEF A
<1>2. IInv => AnswerBound
  BY <1>1 DEF AnswerBound
<1> QED BY Invariant, <1>2, PTL

\* ServeConn leaves no handleRequest behind, and of the goroutines that run methods only
\* those of failed ones and of those over their time.
THEOREM HandlersAwaited == Spec => []ClosesAfterHandlers
<1>1. ASSUME IInv, loop = "done", NEW r \in Requests
      PROVE  /\ handler[r] \in {"none", "done"}
             /\ method[r] \in {"none", "done"} \/ fails[r] \/ timeout
  <2>1. r \notin Active
    BY <1>1 DEF IInv, CountInv
  <2>2. handler[r] \in {"none", "done"}
    BY <2>1 DEF Active
  <2>3. method[r] = "running" => timeout
    BY <1>1, <2>2 DEF IInv, RequestInv
  <2>4. method[r] \in {"failed", "error", "erring", "signal"} => fails[r]
    BY <1>1 DEF IInv, RequestInv
  <2>5. method[r] \in {"none", "running", "failed", "error", "erring", "signal", "done"}
    BY <1>1 DEF IInv, TypeOK
  <2> QED BY <2>2, <2>3, <2>4, <2>5
<1>2. IInv => ClosesAfterHandlers
  BY <1>1 DEF ClosesAfterHandlers
<1> QED BY Invariant, <1>2, PTL
==============================================================================
