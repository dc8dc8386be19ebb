---------------------------- MODULE XClientProofs ----------------------------
(***************************************************************************)
(* Safety of the XClient for all sets of users and servers: IInv is        *)
(* inductive, and the invariants that XClient states follow from it.       *)
(***************************************************************************)
EXTENDS XClient, TLAPS

\* The initial state satisfies the inductive invariant.
LEMMA InitIInv == Init => IInv
<1>. SUFFICES ASSUME Init PROVE IInv
  OBVIOUS
<1>. USE XClientAssumption DEF Init
<1>1. TypeOK
  BY DEF TypeOK
<1>2. DialInv
  BY DEF DialInv
<1>3. TasksInv
  BY DEF TasksInv, Goroutines
<1>4. AvailableIsCached
  BY DEF AvailableIsCached
<1> QED BY <1>1, <1>2, <1>3, <1>4 DEF IInv

\* A user's call begins.
LEMMA SelectPreserves ==
    ASSUME IInv, NEW u \in Users, 
           SelectFails(u) \/ \E a \in Addrs : Select(u, a)
    PROVE  IInv'
<1>. USE XClientAssumption DEF xclient, calls, dials, broadcast, closes
<1>1. CASE SelectFails(u)
  <2>1. TypeOK'
    BY <1>1 DEF IInv, TypeOK, DialInv, Goroutines, SelectFails, Return
  <2>2. DialInv'
    BY <1>1 DEF IInv, TypeOK, DialInv, Dialled, TasksInv, Goroutines, SelectFails, Return
  <2>3. TasksInv'
    BY <1>1 DEF IInv, TypeOK, TasksInv, Goroutines, SelectFails, Return
  <2>4. AvailableIsCached'
    BY <1>1 DEF IInv, TypeOK, DialInv, Dialled, AvailableIsCached, SelectFails, Return
  <2> QED BY <2>1, <2>2, <2>3, <2>4 DEF IInv
<1>2. ASSUME NEW a \in Addrs, Select(u, a) PROVE IInv'
  <2>1. TypeOK'
    BY <1>2 DEF IInv, TypeOK, DialInv, Goroutines, Select, Go
  <2>2. DialInv'
    BY <1>2 DEF IInv, TypeOK, DialInv, Dialled, TasksInv, Goroutines, Select, Go
  <2>3. TasksInv'
    BY <1>2 DEF IInv, TypeOK, TasksInv, Goroutines, Select, Go
  <2>4. AvailableIsCached'
    BY <1>2 DEF IInv, TypeOK, DialInv, Dialled, AvailableIsCached, Select, Go
  <2> QED BY <2>1, <2>2, <2>3, <2>4 DEF IInv
<1> QED BY <1>1, <1>2

\* Every step of dial and dialTimeOut.
LEMMA DialPreserves ==
    ASSUME IInv, NEW g \in Goroutines, Dial(g)
    PROVE  IInv'
<1>. USE XClientAssumption DEF xclient, calls, dials, broadcast, closes
<1>1. CASE LookupNone(g)
  <2>1. TypeOK'
    BY <1>1 DEF IInv, TypeOK, DialInv, Goroutines, LookupNone, Go, Cached
  <2>2. DialInv'
    BY <1>1 DEF IInv, TypeOK, DialInv, Dialled, TasksInv, Goroutines, LookupNone, Go,
       Cached
  <2>3. TasksInv'
    BY <1>1 DEF IInv, TypeOK, TasksInv, Goroutines, LookupNone, Go, Cached
  <2>4. AvailableIsCached'
    BY <1>1 DEF IInv, TypeOK, DialInv, Dialled, AvailableIsCached, LookupNone, Go, Cached
  <2> QED BY <2>1, <2>2, <2>3, <2>4 DEF IInv
<1>2. CASE LookupAvailable(g)
  <2>1. TypeOK'
    BY <1>2 DEF IInv, TypeOK, DialInv, Goroutines, LookupAvailable, Go, Cached
  <2>2. DialInv'
    BY <1>2 DEF IInv, TypeOK, DialInv, Dialled, TasksInv, Goroutines, LookupAvailable,
       Go, Cached
  <2>3. TasksInv'
    BY <1>2 DEF IInv, TypeOK, TasksInv, Goroutines, LookupAvailable, Go, Cached
  <2>4. AvailableIsCached'
    BY <1>2 DEF IInv, TypeOK, DialInv, Dialled, AvailableIsCached, LookupAvailable, Go,
       Cached
  <2> QED BY <2>1, <2>2, <2>3, <2>4 DEF IInv
<1>3. CASE LookupUnavailable(g)
  <2>1. TypeOK'
    BY <1>3 DEF IInv, TypeOK, DialInv, Goroutines, LookupUnavailable, Go, Cached
  <2>2. DialInv'
    BY <1>3 DEF IInv, TypeOK, DialInv, Dialled, TasksInv, Goroutines, LookupUnavailable,
       Go, Cached
  <2>3. TasksInv'
    BY <1>3 DEF IInv, TypeOK, TasksInv, Goroutines, LookupUnavailable, Go, Cached
  <2>4. AvailableIsCached'
    BY <1>3 DEF IInv, TypeOK, DialInv, Dialled, AvailableIsCached, LookupUnavailable,
       Go, Cached
  <2> QED BY <2>1, <2>2, <2>3, <2>4 DEF IInv
<1>4. CASE Drop(g)
  <2>1. TypeOK'
    BY <1>4 DEF IInv, TypeOK, DialInv, Goroutines, Drop, Go
  <2>2. DialInv'
    BY <1>4 DEF IInv, TypeOK, DialInv, Dialled, TasksInv, Goroutines, Drop, Go
  <2>3. TasksInv'
    BY <1>4 DEF IInv, TypeOK, TasksInv, Goroutines, Drop, Go
  <2>4. AvailableIsCached'
    BY <1>4 DEF IInv, TypeOK, DialInv, Dialled, AvailableIsCached, Drop, Go
  <2> QED BY <2>1, <2>2, <2>3, <2>4 DEF IInv
<1>5. CASE ConnectFails(g)
  <2>1. TypeOK'
    BY <1>5 DEF IInv, TypeOK, DialInv, Goroutines, ConnectFails, Return
  <2>2. DialInv'
    BY <1>5 DEF IInv, TypeOK, DialInv, Dialled, TasksInv, Goroutines, ConnectFails, Return
  <2>3. TasksInv'
    BY <1>5 DEF IInv, TypeOK, TasksInv, Goroutines, ConnectFails, Return
  <2>4. AvailableIsCached'
    BY <1>5 DEF IInv, TypeOK, DialInv, Dialled, AvailableIsCached, ConnectFails, Return
  <2> QED BY <2>1, <2>2, <2>3, <2>4 DEF IInv
<1>6. CASE Connect(g)
  <2>1. TypeOK'
    BY <1>6 DEF IInv, TypeOK, DialInv, Goroutines, Connect, Go
  <2>2. DialInv'
    BY <1>6 DEF IInv, TypeOK, DialInv, Dialled, TasksInv, Goroutines, Connect, Go
  <2>3. TasksInv'
    BY <1>6 DEF IInv, TypeOK, TasksInv, Goroutines, Connect, Go
  <2>4. AvailableIsCached'
    BY <1>6 DEF IInv, TypeOK, DialInv, Dialled, AvailableIsCached, Connect, Go
  <2> QED BY <2>1, <2>2, <2>3, <2>4 DEF IInv
<1>7. CASE DialReturns(g)
  <2>1. TypeOK'
    BY <1>7 DEF IInv, TypeOK, DialInv, Goroutines, DialReturns, Go
  <2>2. DialInv'
    BY <1>7 DEF IInv, TypeOK, DialInv, Dialled, TasksInv, Goroutines, DialReturns, Go
  <2>3. TasksInv'
    BY <1>7 DEF IInv, TypeOK, TasksInv, Goroutines, DialReturns, Go
  <2>4. AvailableIsCached'
    BY <1>7 DEF IInv, TypeOK, DialInv, Dialled, AvailableIsCached, DialReturns, Go
  <2> QED BY <2>1, <2>2, <2>3, <2>4 DEF IInv
<1>8. CASE DialFails(g)
  <2>1. TypeOK'
    BY <1>8 DEF IInv, TypeOK, DialInv, Goroutines, DialFails, Return
  <2>2. DialInv'
    BY <1>8 DEF IInv, TypeOK, DialInv, Dialled, TasksInv, Goroutines, DialFails, Return
  <2>3. TasksInv'
    BY <1>8 DEF IInv, TypeOK, TasksInv, Goroutines, DialFails, Return
  <2>4. AvailableIsCached'
    BY <1>8 DEF IInv, TypeOK, DialInv, Dialled, AvailableIsCached, DialFails, Return
  <2> QED BY <2>1, <2>2, <2>3, <2>4 DEF IInv
<1>9. CASE Store(g)
  <2>1. TypeOK'
    BY <1>9 DEF IInv, TypeOK, DialInv, Goroutines, Store
  <2>2. DialInv'
    BY <1>9 DEF IInv, TypeOK, DialInv, Dialled, TasksInv, Goroutines, Store
  <2>3. TasksInv'
    BY <1>9 DEF IInv, TypeOK, TasksInv, Goroutines, Store
  <2>4. AvailableIsCached'
    BY <1>9 DEF IInv, TypeOK, DialInv, Dialled, AvailableIsCached, Store
  <2> QED BY <2>1, <2>2, <2>3, <2>4 DEF IInv
<1> QED BY <1>1, <1>2, <1>3, <1>4, <1>5, <1>6, <1>7, <1>8, <1>9 DEF Dial

\* A Client is created, or its connection ends.
LEMMA ClientPreserves ==
    ASSUME IInv, NEW g \in Goroutines, 
           NewClient(g) \/ NewClientFails(g) \/ ReceiveEnds(g)
    PROVE  IInv'
<1>. USE XClientAssumption DEF xclient, calls, dials, broadcast, closes
<1>1. CASE NewClient(g)
  <2>1. TypeOK'
    BY <1>1 DEF IInv, TypeOK, DialInv, Goroutines, NewClient
  <2>2. DialInv'
    BY <1>1 DEF IInv, TypeOK, DialInv, Dialled, TasksInv, Goroutines, NewClient
  <2>3. TasksInv'
    BY <1>1 DEF IInv, TypeOK, TasksInv, Goroutines, NewClient
  <2>4. AvailableIsCached'
    BY <1>1 DEF IInv, TypeOK, DialInv, Dialled, AvailableIsCached, NewClient
  <2> QED BY <2>1, <2>2, <2>3, <2>4 DEF IInv
<1>2. CASE NewClientFails(g)
  <2>1. TypeOK'
    BY <1>2 DEF IInv, TypeOK, DialInv, Goroutines, NewClientFails
  <2>2. DialInv'
    BY <1>2 DEF IInv, TypeOK, DialInv, Dialled, TasksInv, Goroutines, NewClientFails
  <2>3. TasksInv'
    BY <1>2 DEF IInv, TypeOK, TasksInv, Goroutines, NewClientFails
  <2>4. AvailableIsCached'
    BY <1>2 DEF IInv, TypeOK, DialInv, Dialled, AvailableIsCached, NewClientFails
  <2> QED BY <2>1, <2>2, <2>3, <2>4 DEF IInv
<1>3. CASE ReceiveEnds(g)
  <2>1. TypeOK'
    BY <1>3 DEF IInv, TypeOK, DialInv, Goroutines, ReceiveEnds
  <2>2. DialInv'
    BY <1>3 DEF IInv, TypeOK, DialInv, Dialled, TasksInv, Goroutines, ReceiveEnds
  <2>3. TasksInv'
    BY <1>3 DEF IInv, TypeOK, TasksInv, Goroutines, ReceiveEnds
  <2>4. AvailableIsCached'
    BY <1>3 DEF IInv, TypeOK, DialInv, Dialled, AvailableIsCached, ReceiveEnds
  <2> QED BY <2>1, <2>2, <2>3, <2>4 DEF IInv
<1> QED BY <1>1, <1>2, <1>3

\* A call is sent and returns.
LEMMA CallPreserves ==
    ASSUME IInv, NEW g \in Goroutines, CallStep(g)
    PROVE  IInv'
<1>. USE XClientAssumption DEF xclient, calls, dials, broadcast, closes
<1>1. CASE CallRefused(g)
  <2>1. TypeOK'
    BY <1>1 DEF IInv, TypeOK, DialInv, Goroutines, CallRefused, Return
  <2>2. DialInv'
    BY <1>1 DEF IInv, TypeOK, DialInv, Dialled, TasksInv, Goroutines, CallRefused, Return
  <2>3. TasksInv'
    BY <1>1 DEF IInv, TypeOK, TasksInv, Goroutines, CallRefused, Return
  <2>4. AvailableIsCached'
    BY <1>1 DEF IInv, TypeOK, DialInv, Dialled, AvailableIsCached, CallRefused, Return
  <2> QED BY <2>1, <2>2, <2>3, <2>4 DEF IInv
<1>2. CASE CallSent(g)
  <2>1. TypeOK'
    BY <1>2 DEF IInv, TypeOK, DialInv, Goroutines, CallSent, Go
  <2>2. DialInv'
    BY <1>2 DEF IInv, TypeOK, DialInv, Dialled, TasksInv, Goroutines, CallSent, Go
  <2>3. TasksInv'
    BY <1>2 DEF IInv, TypeOK, TasksInv, Goroutines, CallSent, Go
  <2>4. AvailableIsCached'
    BY <1>2 DEF IInv, TypeOK, DialInv, Dialled, AvailableIsCached, CallSent, Go
  <2> QED BY <2>1, <2>2, <2>3, <2>4 DEF IInv
<1>3. CASE CallReturns(g)
  <2>1. TypeOK'
    BY <1>3 DEF IInv, TypeOK, DialInv, Goroutines, CallReturns, Return
  <2>2. DialInv'
    BY <1>3 DEF IInv, TypeOK, DialInv, Dialled, TasksInv, Goroutines, CallReturns, Return
  <2>3. TasksInv'
    BY <1>3 DEF IInv, TypeOK, TasksInv, Goroutines, CallReturns, Return
  <2>4. AvailableIsCached'
    BY <1>3 DEF IInv, TypeOK, DialInv, Dialled, AvailableIsCached, CallReturns, Return
  <2> QED BY <2>1, <2>2, <2>3, <2>4 DEF IInv
<1>4. CASE CallCancelled(g)
  <2>1. TypeOK'
    BY <1>4 DEF IInv, TypeOK, DialInv, Goroutines, CallCancelled, Return
  <2>2. DialInv'
    BY <1>4 DEF IInv, TypeOK, DialInv, Dialled, TasksInv, Goroutines, CallCancelled,
       Return
  <2>3. TasksInv'
    BY <1>4 DEF IInv, TypeOK, TasksInv, Goroutines, CallCancelled, Return
  <2>4. AvailableIsCached'
    BY <1>4 DEF IInv, TypeOK, DialInv, Dialled, AvailableIsCached, CallCancelled, Return
  <2> QED BY <2>1, <2>2, <2>3, <2>4 DEF IInv
<1> QED BY <1>1, <1>2, <1>3, <1>4 DEF CallStep

\* BroadCast and the critical section of its goroutines.
LEMMA BroadCastPreserves ==
    ASSUME IInv, BroadCast \/ BroadCastFails \/ BroadCastReturns \/ \E a \in Addrs : Section(a)
    PROVE  IInv'
<1>. USE XClientAssumption DEF xclient, calls, dials, broadcast, closes
<1>1. CASE BroadCast
  <2>. PICK servers \in SUBSET Addrs :
         /\ targets' = servers
         /\ pc' = [g \in Goroutines |-> IF g \in servers THEN "lookup" ELSE pc[g]]
         /\ addr' = [g \in Goroutines |-> IF g \in servers THEN g ELSE addr[g]]
    BY <1>1 DEF BroadCast
  <2>1. TypeOK'
    <3>1. addr' \in [Goroutines -> Addrs \cup {None}]
      BY DEF IInv, TypeOK, Goroutines
    <3>2. \A g \in servers : pc[g] = "idle"
      BY <1>1 DEF IInv, TasksInv, BroadCast
    <3>3. \A g \in Goroutines : used'[g] # None <=> pc'[g] \in {"call", "sent"}
      BY <1>1, <3>2 DEF IInv, TypeOK, BroadCast
    <3>4. /\ targets' \subseteq Addrs
          /\ pc' \in [Goroutines ->
                {"idle", "lookup", "drop", "connect", "await", "store", "call",
                 "sent", "section", "returned", "panicked"}]
      BY DEF IInv, TypeOK
    <3> QED BY <1>1, <3>1, <3>3, <3>4 DEF IInv, TypeOK, BroadCast
  <2>2. DialInv'
    BY <1>1 DEF IInv, TypeOK, DialInv, Dialled, TasksInv, Goroutines, BroadCast
  <2>3. TasksInv'
    BY <1>1 DEF IInv, TypeOK, TasksInv, Goroutines, BroadCast
  <2>4. AvailableIsCached'
    BY <1>1 DEF IInv, TypeOK, DialInv, Dialled, AvailableIsCached, TasksInv, Goroutines,
       BroadCast
  <2> QED BY <2>1, <2>2, <2>3, <2>4 DEF IInv
<1>2. CASE BroadCastFails
  <2>1. TypeOK'
    BY <1>2 DEF IInv, TypeOK, DialInv, Goroutines, BroadCastFails
  <2>2. DialInv'
    BY <1>2 DEF IInv, TypeOK, DialInv, Dialled, TasksInv, Goroutines, BroadCastFails
  <2>3. TasksInv'
    BY <1>2 DEF IInv, TypeOK, TasksInv, Goroutines, BroadCastFails
  <2>4. AvailableIsCached'
    BY <1>2 DEF IInv, TypeOK, DialInv, Dialled, AvailableIsCached, BroadCastFails
  <2> QED BY <2>1, <2>2, <2>3, <2>4 DEF IInv
<1>3. CASE BroadCastReturns
  <2>1. TypeOK'
    BY <1>3 DEF IInv, TypeOK, DialInv, Goroutines, BroadCastReturns
  <2>2. DialInv'
    BY <1>3 DEF IInv, TypeOK, DialInv, Dialled, TasksInv, Goroutines, BroadCastReturns
  <2>3. TasksInv'
    BY <1>3 DEF IInv, TypeOK, TasksInv, Goroutines, BroadCastReturns
  <2>4. AvailableIsCached'
    BY <1>3 DEF IInv, TypeOK, DialInv, Dialled, AvailableIsCached, BroadCastReturns
  <2> QED BY <2>1, <2>2, <2>3, <2>4 DEF IInv
<1>4. ASSUME NEW a \in Addrs, SectionError(a) PROVE IInv'
  <2>1. TypeOK'
    BY <1>4 DEF IInv, TypeOK, DialInv, Goroutines, SectionError, Go
  <2>2. DialInv'
    BY <1>4 DEF IInv, TypeOK, DialInv, Dialled, TasksInv, Goroutines, SectionError, Go
  <2>3. TasksInv'
    BY <1>4 DEF IInv, TypeOK, TasksInv, Goroutines, SectionError, Go
  <2>4. AvailableIsCached'
    BY <1>4 DEF IInv, TypeOK, DialInv, Dialled, AvailableIsCached, SectionError, Go
  <2> QED BY <2>1, <2>2, <2>3, <2>4 DEF IInv
<1>5. ASSUME NEW a \in Addrs, SectionNoReply(a) PROVE IInv'
  <2>1. TypeOK'
    BY <1>5 DEF IInv, TypeOK, DialInv, Goroutines, SectionNoReply, Go
  <2>2. DialInv'
    BY <1>5 DEF IInv, TypeOK, DialInv, Dialled, TasksInv, Goroutines, SectionNoReply, Go
  <2>3. TasksInv'
    BY <1>5 DEF IInv, TypeOK, TasksInv, Goroutines, SectionNoReply, Go
  <2>4. AvailableIsCached'
    BY <1>5 DEF IInv, TypeOK, DialInv, Dialled, AvailableIsCached, SectionNoReply, Go
  <2> QED BY <2>1, <2>2, <2>3, <2>4 DEF IInv
<1>6. ASSUME NEW a \in Addrs, SectionReply(a) PROVE IInv'
  <2>1. TypeOK'
    BY <1>6 DEF IInv, TypeOK, DialInv, Goroutines, SectionReply
  <2>2. DialInv'
    BY <1>6 DEF IInv, TypeOK, DialInv, Dialled, TasksInv, Goroutines, SectionReply
  <2>3. TasksInv'
    BY <1>6 DEF IInv, TypeOK, TasksInv, Goroutines, SectionReply
  <2>4. AvailableIsCached'
    BY <1>6 DEF IInv, TypeOK, DialInv, Dialled, AvailableIsCached, SectionReply
  <2> QED BY <2>1, <2>2, <2>3, <2>4 DEF IInv
<1> QED BY <1>1, <1>2, <1>3, <1>4, <1>5, <1>6 DEF Section

\* XClient.Close.
LEMMA ClosePreserves ==
    ASSUME IInv, Close \/ CloseStep
    PROVE  IInv'
<1>. USE XClientAssumption DEF xclient, calls, dials, broadcast, closes
<1>1. CASE Close
  <2>1. TypeOK'
    BY <1>1 DEF IInv, TypeOK, DialInv, Goroutines, Close
  <2>2. DialInv'
    BY <1>1 DEF IInv, TypeOK, DialInv, Dialled, TasksInv, Goroutines, Close
  <2>3. TasksInv'
    BY <1>1 DEF IInv, TypeOK, TasksInv, Goroutines, Close
  <2>4. AvailableIsCached'
    BY <1>1 DEF IInv, TypeOK, DialInv, Dialled, AvailableIsCached, Close
  <2> QED BY <2>1, <2>2, <2>3, <2>4 DEF IInv
<1>2. ASSUME NEW a \in Addrs, CloseVisit(a) PROVE IInv'
  <2>1. TypeOK'
    BY <1>2 DEF IInv, TypeOK, DialInv, Goroutines, CloseVisit
  <2>2. DialInv'
    BY <1>2 DEF IInv, TypeOK, DialInv, Dialled, TasksInv, Goroutines, CloseVisit
  <2>3. TasksInv'
    BY <1>2 DEF IInv, TypeOK, TasksInv, Goroutines, CloseVisit
  <2>4. AvailableIsCached'
    BY <1>2 DEF IInv, TypeOK, DialInv, Dialled, AvailableIsCached, CloseVisit
  <2> QED BY <2>1, <2>2, <2>3, <2>4 DEF IInv
<1>3. CASE CloseDelete
  <2>1. TypeOK'
    BY <1>3 DEF IInv, TypeOK, DialInv, Goroutines, CloseDelete
  <2>2. DialInv'
    BY <1>3 DEF IInv, TypeOK, DialInv, Dialled, TasksInv, Goroutines, CloseDelete
  <2>3. TasksInv'
    BY <1>3 DEF IInv, TypeOK, TasksInv, Goroutines, CloseDelete
  <2>4. AvailableIsCached'
    BY <1>3 DEF IInv, TypeOK, DialInv, Dialled, AvailableIsCached, CloseDelete
  <2> QED BY <2>1, <2>2, <2>3, <2>4 DEF IInv
<1>4. CASE CloseEnds
  <2>1. TypeOK'
    BY <1>4 DEF IInv, TypeOK, DialInv, Goroutines, CloseEnds
  <2>2. DialInv'
    BY <1>4 DEF IInv, TypeOK, DialInv, Dialled, TasksInv, Goroutines, CloseEnds
  <2>3. TasksInv'
    BY <1>4 DEF IInv, TypeOK, TasksInv, Goroutines, CloseEnds
  <2>4. AvailableIsCached'
    BY <1>4 DEF IInv, TypeOK, DialInv, Dialled, AvailableIsCached, CloseEnds
  <2> QED BY <2>1, <2>2, <2>3, <2>4 DEF IInv
<1> QED BY <1>1, <1>2, <1>3, <1>4 DEF CloseStep

\* A step that changes nothing preserves the invariant.
LEMMA StutterPreserves == IInv /\ UNCHANGED vars => IInv'
BY DEF IInv, TypeOK, DialInv, Dialled, TasksInv, AvailableIsCached, vars, xclient, calls,
       dials, broadcast, closes

\* What the map, the dials and the goroutines of BroadCast know of each other.
THEOREM Invariant == Spec => []IInv
<1>1. IInv /\ [Next]_vars => IInv'
  <2>. SUFFICES ASSUME IInv, Next PROVE IInv'
    BY StutterPreserves
  <2>1. ASSUME NEW u \in Users, SelectFails(u) \/ \E a \in Addrs : Select(u, a) PROVE IInv'
    BY <2>1, SelectPreserves
  <2>2. ASSUME NEW g \in Goroutines, Dial(g) PROVE IInv'
    BY <2>2, DialPreserves
  <2>3. ASSUME NEW g \in Goroutines, NewClient(g) \/ NewClientFails(g) \/ ReceiveEnds(g)
        PROVE  IInv'
    BY <2>3, ClientPreserves
  <2>4. ASSUME NEW g \in Goroutines, CallStep(g) PROVE IInv'
    BY <2>4, CallPreserves
  <2>5. CASE BroadCast \/ BroadCastFails \/ BroadCastReturns \/ \E a \in Addrs : Section(a)
    BY <2>5, BroadCastPreserves
  <2>6. CASE Close \/ CloseStep
    BY <2>6, ClosePreserves
  <2>7. CASE MapThrow
    BY <2>7 DEF MapThrow, IInv, TypeOK, DialInv, Dialled, TasksInv, AvailableIsCached,
                xclient, calls, dials, broadcast, closes
  <2>8. CASE Terminated
    BY <2>8, StutterPreserves DEF Terminated
  <2> QED BY <2>1, <2>2, <2>3, <2>4, <2>5, <2>6, <2>7, <2>8 DEF Next, Running
<1> QED BY InitIInv, <1>1, PTL DEF Spec

\* The variables keep their types; a call in progress has a Client.
THEOREM TypeCorrect == Spec => []TypeOK
BY Invariant, PTL DEF IInv

\* A dial that failed leaves no connection and no Client behind.
THEOREM NothingLeftBehind == Spec => []FailedDialsVanish
<1>1. IInv => FailedDialsVanish
  BY XClientAssumption DEF IInv, TypeOK, DialInv, Dialled, FailedDialsVanish
<1> QED BY Invariant, <1>1, PTL

\* An available Client is in the map unless another goroutine interfered.
THEOREM ClientsKept == Spec => []AvailableIsCached
BY Invariant, PTL DEF IInv

\* BroadCast reports a failure if and only if there was one, and its cause.
THEOREM FailureReported == Spec => []FirstErrorReported
<1>1. IInv => FirstErrorReported
  BY DEF IInv, TypeOK, TasksInv, FirstErrorReported
<1> QED BY Invariant, <1>1, PTL
==============================================================================
