--------------------------- MODULE CacheGroupProofs ---------------------------
(***************************************************************************)
(* Safety of the distributed cache for all sets of nodes, keys and         *)
(* requests, for every assignment of keys to nodes, whatever escaping does *)
(* to a key, and with or without the second Lock of singleflight.Do: IInv  *)
(* is inductive, and the invariants that CacheGroup states follow from it. *)
(***************************************************************************)
EXTENDS CacheGroup, TLAPS

\* A goroutine has a node and a key.  If it does not run on the owner of its key, the
\* goroutine it starts there serves the escaped key.
LEMMA Places ==
    ASSUME TypeOK, NEW g \in Goroutines
    PROVE  /\ At(g) \in Nodes /\ KeyOf(g) \in Keys /\ g # None
           /\ Escaped[KeyOf(g)] \in Keys
           /\ Owner[KeyOf(g)] # At(g) =>
                /\ Remote(g) \in Goroutines
                /\ At(Remote(g)) = Owner[KeyOf(g)]
                /\ KeyOf(Remote(g)) = Escaped[KeyOf(g)]
<1>1. PICK t \in Requests, i \in 0..2 : g = <<t, i>>
  BY DEF Goroutines
<1>2. g[1] = t /\ g[2] = i /\ Remote(g) = <<t, i + 1>>
  BY <1>1 DEF Remote
<1>3. key[t] \in Keys /\ home[t] \in Nodes
  BY DEF TypeOK
<1>4. /\ Escaped[key[t]] \in Keys /\ Escaped[Escaped[key[t]]] = Escaped[key[t]]
      /\ Owner[key[t]] \in Nodes /\ Owner[Escaped[key[t]]] \in Nodes
  BY <1>3, GroupAssumption
<1>5. g # None
  BY GroupAssumption DEF Goroutines
<1>6. Remote(g)[1] = t /\ Remote(g)[2] = i + 1
  BY <1>2
<1>7. CASE i = 0
  BY <1>2, <1>3, <1>4, <1>5, <1>6, <1>7 DEF At, KeyOf, Goroutines
<1>8. CASE i = 1
  BY <1>2, <1>3, <1>4, <1>5, <1>6, <1>8 DEF At, KeyOf, Goroutines
<1>9. CASE i = 2
  BY <1>2, <1>3, <1>4, <1>5, <1>9 DEF At, KeyOf
<1> QED BY <1>7, <1>8, <1>9

\* No step changes which key a request is for, nor where.
LEMMA PlacesStay == UNCHANGED request => \A g : KeyOf(g)' = KeyOf(g) /\ At(g)' = At(g)
BY DEF KeyOf, At, request

\* Results are changed by a step that has one, and by no other.
LEMMA AnswerKept ==
    ASSUME IInv, NEW g \in Goroutines, UNCHANGED <<request, val>>,
           pc[g] \notin {"forget", "returned"},
           NEW to \in {"get", "do", "create", "wait", "load", "local", "panicked"},
           pc' = [pc EXCEPT ![g] = to]
    PROVE  AnswerInv'
<1>1. \A h \in Goroutines : /\ KeyOf(h)' = KeyOf(h) /\ At(h)' = At(h)
                            /\ val'[h] = val[h]
  BY PlacesStay
<1>2. \A h \in Goroutines : pc'[h] = IF h = g THEN to ELSE pc[h]
  BY DEF IInv, TypeOK
<1>3. val[g] = "none"
  BY DEF IInv, AnswerInv
<1>4. SUFFICES ASSUME NEW h \in Goroutines
               PROVE  /\ pc'[h] \in {"ask", "hung"} => Owner[KeyOf(h)'] # At(h)'
                      /\ pc'[h] \in {"forget", "returned"} => val'[h] # "none"
                      /\ val'[h] # "none" => pc'[h] \in {"forget", "returned"} /\ Right(h)'
  BY DEF AnswerInv
<1>5. CASE h = g
  BY <1>1, <1>2, <1>3, <1>5
<1>6. CASE h # g
  <2>1. pc'[h] = pc[h]
    BY <1>2, <1>6
  <2>2. Right(h)' <=> Right(h)
    BY <1>1 DEF Right
  <2> QED BY <1>1, <2>1, <2>2 DEF IInv, AnswerInv
<1> QED BY <1>5, <1>6

\* A right result, once it is there, is a result.
LEMMA AnswerGiven ==
    ASSUME IInv, NEW g \in Goroutines, UNCHANGED request,
           NEW to \in {"forget", "returned"}, pc' = [pc EXCEPT ![g] = to],
           NEW v, v # "none", val' = [val EXCEPT ![g] = v],
           \/ v = Source(KeyOf(g))
           \/ Owner[KeyOf(g)] # At(g) /\ v = Served(Source(Escaped[KeyOf(g)]))
    PROVE  AnswerInv'
<1>1. \A h \in Goroutines : KeyOf(h)' = KeyOf(h) /\ At(h)' = At(h)
  BY PlacesStay
<1>2. \A h \in Goroutines : /\ pc'[h] = IF h = g THEN to ELSE pc[h]
                            /\ val'[h] = IF h = g THEN v ELSE val[h]
  BY DEF IInv, TypeOK
<1>3. SUFFICES ASSUME NEW h \in Goroutines
               PROVE  /\ pc'[h] \in {"ask", "hung"} => Owner[KeyOf(h)'] # At(h)'
                      /\ pc'[h] \in {"forget", "returned"} => val'[h] # "none"
                      /\ val'[h] # "none" => pc'[h] \in {"forget", "returned"} /\ Right(h)'
  BY DEF AnswerInv
<1>4. CASE h = g
  <2>1. Right(h)'
    BY <1>1, <1>2, <1>4 DEF Right
  <2> QED BY <1>2, <1>4, <2>1
<1>5. CASE h # g
  <2>1. pc'[h] = pc[h] /\ val'[h] = val[h]
    BY <1>2, <1>5
  <2>2. Right(h)' <=> Right(h)
    BY <1>1, <2>1 DEF Right
  <2> QED BY <1>1, <2>1, <2>2 DEF IInv, AnswerInv
<1> QED BY <1>4, <1>5

\* The initial state satisfies the inductive invariant.
LEMMA InitIInv == Init => IInv
<1>. SUFFICES ASSUME Init PROVE IInv
  OBVIOUS
<1>1. TypeOK
  BY DEF Init, TypeOK
<1>. USE GroupAssumption DEF Init
<1>2. FlightInv
  <2>1. \A g \in Goroutines : pc[g] = "idle"
    OBVIOUS
  <2> QED BY <2>1 DEF FlightInv, Leading, Loading
<1>3. CallsForgotten
  BY DEF CallsForgotten
<1>4. AnswerInv
  BY DEF AnswerInv
<1>5. OnlyRealKeysCached
  BY DEF OnlyRealKeysCached
<1> QED BY <1>1, <1>2, <1>3, <1>4, <1>5 DEF IInv

\* Nodes come and go, users ask.
LEMMA NodePreserves ==
    ASSUME IInv, NEW n \in Nodes,
           Register(n) \/ Listen(n) \/ Unreachable(n)
    PROVE  IInv'
<1>. USE GroupAssumption DEF node, flight, request
<1>1. TypeOK
  BY DEF IInv
<1>2. \A h \in Goroutines : At(h) \in Nodes /\ KeyOf(h) \in Keys /\ h # None
  BY <1>1, Places
<1>3. CASE Register(n)
  <2>1. UNCHANGED request /\ \A h : KeyOf(h)' = KeyOf(h) /\ At(h)' = At(h)
    BY <1>3, PlacesStay DEF Register
  <2>2. TypeOK'
    BY <1>3, <1>2 DEF IInv, TypeOK, Register
  <2>3. FlightInv'
    BY <1>3, <1>2, <2>1 DEF IInv, TypeOK, FlightInv, CallsForgotten, Leading, Loading, Register
  <2>4. CallsForgotten'
    BY <1>3, <1>2, <2>1 DEF IInv, TypeOK, FlightInv, CallsForgotten, Leading, Loading, Register
  <2>5. AnswerInv' /\ OnlyRealKeysCached'
    BY <1>3, <1>2, <2>1 DEF IInv, TypeOK, FlightInv, AnswerInv, OnlyRealKeysCached,
       Right, Register
  <2> QED BY <2>2, <2>3, <2>4, <2>5 DEF IInv
<1>4. CASE Listen(n)
  <2>1. UNCHANGED request /\ \A h : KeyOf(h)' = KeyOf(h) /\ At(h)' = At(h)
    BY <1>4, PlacesStay DEF Listen
  <2>2. TypeOK'
    BY <1>4, <1>2 DEF IInv, TypeOK, Listen
  <2>3. FlightInv'
    BY <1>4, <1>2, <2>1 DEF IInv, TypeOK, FlightInv, CallsForgotten, Leading, Loading, Listen
  <2>4. CallsForgotten'
    BY <1>4, <1>2, <2>1 DEF IInv, TypeOK, FlightInv, CallsForgotten, Leading, Loading, Listen
  <2>5. AnswerInv' /\ OnlyRealKeysCached'
    BY <1>4, <1>2, <2>1 DEF IInv, TypeOK, FlightInv, AnswerInv, OnlyRealKeysCached,
       Right, Listen
  <2> QED BY <2>2, <2>3, <2>4, <2>5 DEF IInv
<1>5. CASE Unreachable(n)
  <2>1. UNCHANGED request /\ \A h : KeyOf(h)' = KeyOf(h) /\ At(h)' = At(h)
    BY <1>5, PlacesStay DEF Unreachable
  <2>2. TypeOK'
    BY <1>5, <1>2 DEF IInv, TypeOK, Unreachable
  <2>3. FlightInv'
    BY <1>5, <1>2, <2>1 DEF IInv, TypeOK, FlightInv, CallsForgotten, Leading, Loading, Unreachable
  <2>4. CallsForgotten'
    BY <1>5, <1>2, <2>1 DEF IInv, TypeOK, FlightInv, CallsForgotten, Leading, Loading, Unreachable
  <2>5. AnswerInv' /\ OnlyRealKeysCached'
    BY <1>5, <1>2, <2>1 DEF IInv, TypeOK, FlightInv, AnswerInv, OnlyRealKeysCached,
       Right, Unreachable
  <2> QED BY <2>2, <2>3, <2>4, <2>5 DEF IInv
<1> QED BY <1>3, <1>4, <1>5

LEMMA ArrivePreserves ==
    ASSUME IInv, NEW t \in Requests, Arrive(t)
    PROVE  IInv'
<1>. USE GroupAssumption DEF node, flight, request
<1>1. \A h \in Goroutines : At(h) \in Nodes /\ KeyOf(h) \in Keys /\ h # None
  BY Places DEF IInv
<1>. DEFINE g == <<t, 0>>
<1>2. /\ g \in Goroutines /\ pc[g] = "idle" /\ pc' = [pc EXCEPT ![g] = "get"]
      /\ UNCHANGED <<node, main, flight, request, leader, val>>
  BY DEF Goroutines, Arrive, Go
<1>. HIDE DEF g
<1>3. \A h : KeyOf(h)' = KeyOf(h) /\ At(h)' = At(h)
  BY <1>2, PlacesStay
<1>4. TypeOK'
  BY <1>1, <1>2 DEF IInv, TypeOK
<1>5. FlightInv'
  BY <1>1, <1>2, <1>3 DEF IInv, TypeOK, FlightInv, CallsForgotten, Leading, Loading
<1>6. CallsForgotten'
  <2>1. \A h \in Goroutines : Leading(h) => Leading(h)'
    BY <1>2 DEF IInv, TypeOK, Leading, Loading
  <2>2. UNCHANGED m
    BY <1>2
  <2> QED BY <1>1, <1>3, <2>1, <2>2 DEF IInv, TypeOK, CallsForgotten
<1>7. AnswerInv' /\ OnlyRealKeysCached'
  BY <1>1, <1>2, <1>3 DEF IInv, TypeOK, AnswerInv, OnlyRealKeysCached, Right
<1> QED BY <1>4, <1>5, <1>6, <1>7 DEF IInv

\* The cache and singleflight.Do.
LEMMA FlightPreserves ==
    ASSUME IInv, NEW g \in Goroutines,
           \/ CacheHit(g) \/ CacheMiss(g)
           \/ Join(g) \/ Lead(g) \/ Create(g) \/ Forget(g) \/ Share(g)
    PROVE  IInv'
<1>. USE GroupAssumption DEF node, flight, request
<1>1. TypeOK
  BY DEF IInv
<1>2. \A h \in Goroutines : At(h) \in Nodes /\ KeyOf(h) \in Keys /\ h # None
  BY <1>1, Places
<1>3. CASE CacheHit(g)
  <2>1. UNCHANGED request /\ \A h : KeyOf(h)' = KeyOf(h) /\ At(h)' = At(h)
    BY <1>3, PlacesStay DEF CacheHit
  <2>2. TypeOK'
    BY <1>3, <1>2 DEF IInv, TypeOK, CacheHit, Go
  <2>3. FlightInv'
    BY <1>3, <1>2, <2>1 DEF IInv, TypeOK, FlightInv, CallsForgotten, Leading, Loading, CacheHit, Go
  <2>4. CallsForgotten'
    BY <1>3, <1>2, <2>1 DEF IInv, TypeOK, FlightInv, CallsForgotten, Leading, Loading, CacheHit, Go
  <2>5. AnswerInv'
    <3>1. KeyOf(g) = Source(KeyOf(g)) /\ KeyOf(g) # "none"
      BY <1>2, <1>3 DEF IInv, OnlyRealKeysCached, Source, CacheHit
    <3> QED BY <1>3, <3>1, AnswerGiven DEF CacheHit, Go
  <2>6. OnlyRealKeysCached'
    BY <1>3 DEF IInv, OnlyRealKeysCached, CacheHit
  <2> QED BY <2>2, <2>3, <2>4, <2>5, <2>6 DEF IInv
<1>4. CASE CacheMiss(g)
  <2>1. UNCHANGED request /\ \A h : KeyOf(h)' = KeyOf(h) /\ At(h)' = At(h)
    BY <1>4, PlacesStay DEF CacheMiss
  <2>2. TypeOK'
    BY <1>4, <1>2 DEF IInv, TypeOK, CacheMiss, Go
  <2>3. FlightInv'
    BY <1>4, <1>2, <2>1 DEF IInv, TypeOK, FlightInv, CallsForgotten, Leading, Loading, CacheMiss,
       Go
  <2>4. CallsForgotten'
    BY <1>4, <1>2, <2>1 DEF IInv, TypeOK, FlightInv, CallsForgotten, Leading, Loading, CacheMiss,
       Go
  <2>5. AnswerInv'
    BY <1>4, AnswerKept DEF CacheMiss, Go
  <2>6. OnlyRealKeysCached'
    BY <1>4 DEF IInv, OnlyRealKeysCached, CacheMiss
  <2> QED BY <2>2, <2>3, <2>4, <2>5, <2>6 DEF IInv
<1>5. CASE Join(g)
  <2>1. UNCHANGED request /\ \A h : KeyOf(h)' = KeyOf(h) /\ At(h)' = At(h)
    BY <1>5, PlacesStay DEF Join
  <2>2. TypeOK'
    BY <1>5, <1>2 DEF IInv, TypeOK, Join, Go
  <2>3. FlightInv'
    BY <1>5, <1>2, <2>1 DEF IInv, TypeOK, FlightInv, CallsForgotten, Leading, Loading, Join, Go
  <2>4. CallsForgotten'
    BY <1>5, <1>2, <2>1 DEF IInv, TypeOK, FlightInv, CallsForgotten, Leading, Loading, Join, Go
  <2>5. AnswerInv'
    BY <1>5, AnswerKept DEF Join, Go
  <2>6. OnlyRealKeysCached'
    BY <1>5 DEF IInv, OnlyRealKeysCached, Join
  <2> QED BY <2>2, <2>3, <2>4, <2>5, <2>6 DEF IInv
<1>6. CASE Lead(g)
  <2>1. UNCHANGED request /\ \A h : KeyOf(h)' = KeyOf(h) /\ At(h)' = At(h)
    BY <1>6, PlacesStay DEF Lead
  <2>2. TypeOK'
    BY <1>6, <1>2 DEF IInv, TypeOK, Lead, Go
  <2>3. FlightInv'
    BY <1>6, <1>2, <2>1 DEF IInv, TypeOK, FlightInv, CallsForgotten, Leading, Loading, Lead, Go
  <2>4. CallsForgotten'
    BY <1>6, <1>2, <2>1 DEF IInv, TypeOK, FlightInv, CallsForgotten, Leading, Loading, Lead, Go
  <2>5. AnswerInv'
    BY <1>6, AnswerKept DEF Lead, Go
  <2>6. OnlyRealKeysCached'
    BY <1>6 DEF IInv, OnlyRealKeysCached, Lead
  <2> QED BY <2>2, <2>3, <2>4, <2>5, <2>6 DEF IInv
<1>7. CASE Create(g)
  <2>1. UNCHANGED request /\ \A h : KeyOf(h)' = KeyOf(h) /\ At(h)' = At(h)
    BY <1>7, PlacesStay DEF Create
  <2>2. TypeOK'
    BY <1>7, <1>2 DEF IInv, TypeOK, Create, Go
  <2>3. FlightInv'
    BY <1>7, <1>2, <2>1 DEF IInv, TypeOK, FlightInv, CallsForgotten, Leading, Loading, Create, Go
  <2>4. CallsForgotten'
    BY <1>7, <1>2, <2>1 DEF IInv, TypeOK, FlightInv, CallsForgotten, Leading, Loading, Create, Go
  <2>5. AnswerInv'
    BY <1>7, AnswerKept DEF Create, Go
  <2>6. OnlyRealKeysCached'
    BY <1>7 DEF IInv, OnlyRealKeysCached, Create
  <2> QED BY <2>2, <2>3, <2>4, <2>5, <2>6 DEF IInv
<1>8. CASE Forget(g)
  <2>1. UNCHANGED request /\ \A h : KeyOf(h)' = KeyOf(h) /\ At(h)' = At(h)
    BY <1>8, PlacesStay DEF Forget
  <2>2. TypeOK'
    BY <1>8, <1>2 DEF IInv, TypeOK, Forget, Go
  <2>3. FlightInv'
    BY <1>8, <1>2, <2>1 DEF IInv, TypeOK, FlightInv, CallsForgotten, Leading, Loading, Forget, Go
  <2>4. CallsForgotten'
    BY <1>8, <1>2, <2>1 DEF IInv, TypeOK, FlightInv, CallsForgotten, Leading, Loading, Forget, Go
  <2>5. AnswerInv' /\ OnlyRealKeysCached'
    BY <1>8, <1>2, <2>1 DEF IInv, TypeOK, FlightInv, AnswerInv, OnlyRealKeysCached,
       Right, Forget, Go
  <2> QED BY <2>2, <2>3, <2>4, <2>5 DEF IInv
<1>9. CASE Share(g)
  <2>1. UNCHANGED request /\ \A h : KeyOf(h)' = KeyOf(h) /\ At(h)' = At(h)
    BY <1>9, PlacesStay DEF Share
  <2>2. TypeOK'
    BY <1>9, <1>2 DEF IInv, TypeOK, Share, Go
  <2>3. FlightInv'
    BY <1>9, <1>2, <2>1 DEF IInv, TypeOK, FlightInv, CallsForgotten, Leading, Loading, Share, Go
  <2>4. CallsForgotten'
    BY <1>9, <1>2, <2>1 DEF IInv, TypeOK, FlightInv, CallsForgotten, Leading, Loading, Share, Go
  <2>5. AnswerInv' /\ OnlyRealKeysCached'
    BY <1>9, <1>2, <2>1 DEF IInv, TypeOK, FlightInv, AnswerInv, OnlyRealKeysCached,
       Right, Share, Go
  <2> QED BY <2>2, <2>3, <2>4, <2>5 DEF IInv
<1> QED BY <1>3, <1>4, <1>5, <1>6, <1>7, <1>8, <1>9

\* The function that load passes to Do.
LEMMA LoadPreserves ==
    ASSUME IInv, NEW g \in Goroutines,
           \/ AskPeer(g) \/ PeerAnswers(g) \/ PeerAnswerBroken(g) \/ PeerFails(g)
           \/ PeerAskedAgain(g) \/ LoadHere(g) \/ GetLocally(g)
    PROVE  IInv'
<1>. USE GroupAssumption DEF node, flight, request
<1>1. TypeOK
  BY DEF IInv
<1>2. \A h \in Goroutines : At(h) \in Nodes /\ KeyOf(h) \in Keys /\ h # None
  BY <1>1, Places
<1>3. CASE AskPeer(g)
  <2>1. UNCHANGED request /\ \A h : KeyOf(h)' = KeyOf(h) /\ At(h)' = At(h)
    BY <1>3, PlacesStay DEF AskPeer
  <2>2. TypeOK'
    BY <1>3, <1>2 DEF IInv, TypeOK, AskPeer, PicksPeer
  <2>3. FlightInv'
    BY <1>3, <1>2, <2>1 DEF IInv, TypeOK, FlightInv, CallsForgotten, Leading, Loading, AskPeer,
       PicksPeer
  <2>4. CallsForgotten'
    <3>1. \A h \in Goroutines : Leading(h) => Leading(h)'
      BY <1>3, <1>2 DEF IInv, TypeOK, Leading, Loading, AskPeer, PicksPeer
    <3>2. UNCHANGED m
      BY <1>3 DEF AskPeer
    <3> QED BY <1>2, <2>1, <3>1, <3>2 DEF IInv, TypeOK, CallsForgotten, Leading, Loading
  <2>5. AnswerInv' /\ OnlyRealKeysCached'
    BY <1>3, <1>2, <2>1 DEF IInv, TypeOK, FlightInv, AnswerInv, OnlyRealKeysCached,
       Right, AskPeer, PicksPeer
  <2> QED BY <2>2, <2>3, <2>4, <2>5 DEF IInv
<1>4. CASE PeerAnswers(g)
  <2>1. UNCHANGED request /\ \A h : KeyOf(h)' = KeyOf(h) /\ At(h)' = At(h)
    BY <1>4, PlacesStay DEF PeerAnswers
  <2>2. TypeOK'
    <3>1. Remote(g) \in Goroutines
      BY <1>1, <1>4, Places DEF IInv, AnswerInv, PeerAnswers
    <3>2. Served(val[Remote(g)]) \in Keys \cup {"none", "empty", "err"}
      BY <1>1, <3>1 DEF TypeOK, Served
    <3>3. val' \in [Goroutines -> Keys \cup {"none", "empty", "err"}]
      BY <1>1, <1>4, <3>2 DEF TypeOK, PeerAnswers, Publish
    <3> QED BY <1>4, <3>3 DEF IInv, TypeOK, PeerAnswers, Go
  <2>3. FlightInv'
    BY <1>4, <1>2, <2>1 DEF IInv, TypeOK, FlightInv, CallsForgotten, Leading, Loading,
       PeerAnswers, Go
  <2>4. CallsForgotten'
    BY <1>4, <1>2, <2>1 DEF IInv, TypeOK, FlightInv, CallsForgotten, Leading, Loading,
       PeerAnswers, Go
  <2>5. AnswerInv'
    <3>1. /\ At(Remote(g)) = Owner[KeyOf(g)] /\ KeyOf(Remote(g)) = Escaped[KeyOf(g)]
          /\ Remote(g) \in Goroutines /\ Owner[KeyOf(g)] # At(g)
      BY <1>1, <1>4, Places DEF IInv, AnswerInv, PeerAnswers
    <3>2. Right(Remote(g)) /\ val[Remote(g)] # "none"
      BY <1>4, <3>1 DEF IInv, AnswerInv, PeerAnswers
    <3>3. Escaped[Escaped[KeyOf(g)]] = Escaped[KeyOf(g)]
      BY <1>2
    <3>4. Served(val[Remote(g)]) = Served(Source(Escaped[KeyOf(g)]))
      BY <3>1, <3>2, <3>3 DEF Right, Served
    <3>5. Served(val[Remote(g)]) # "none"
      BY <3>2 DEF Served
    <3> QED BY <1>4, <3>1, <3>4, <3>5, AnswerGiven DEF PeerAnswers, Go, Publish
  <2>6. OnlyRealKeysCached'
    BY <1>4 DEF IInv, OnlyRealKeysCached, PeerAnswers
  <2> QED BY <2>2, <2>3, <2>4, <2>5, <2>6 DEF IInv
<1>5. CASE PeerAnswerBroken(g)
  <2>1. UNCHANGED request /\ \A h : KeyOf(h)' = KeyOf(h) /\ At(h)' = At(h)
    BY <1>5, PlacesStay DEF PeerAnswerBroken
  <2>2. TypeOK'
    BY <1>5, <1>2 DEF IInv, TypeOK, PeerAnswerBroken, Go
  <2>3. FlightInv'
    BY <1>5, <1>2, <2>1 DEF IInv, TypeOK, FlightInv, CallsForgotten, Leading, Loading,
       PeerAnswerBroken, Go
  <2>4. CallsForgotten'
    BY <1>5, <1>2, <2>1 DEF IInv, TypeOK, FlightInv, CallsForgotten, Leading, Loading,
       PeerAnswerBroken, Go
  <2>5. AnswerInv'
    BY <1>5, AnswerKept DEF PeerAnswerBroken, Go
  <2>6. OnlyRealKeysCached'
    BY <1>5 DEF IInv, OnlyRealKeysCached, PeerAnswerBroken
  <2> QED BY <2>2, <2>3, <2>4, <2>5, <2>6 DEF IInv
<1>6. CASE PeerFails(g)
  <2>1. UNCHANGED request /\ \A h : KeyOf(h)' = KeyOf(h) /\ At(h)' = At(h)
    BY <1>6, PlacesStay DEF PeerFails
  <2>2. TypeOK'
    BY <1>6, <1>2 DEF IInv, TypeOK, PeerFails, Go, PicksPeer
  <2>3. FlightInv'
    BY <1>6, <1>2, <2>1 DEF IInv, TypeOK, FlightInv, CallsForgotten, Leading, Loading, PeerFails,
       Go, PicksPeer
  <2>4. CallsForgotten'
    <3>1. \A h \in Goroutines : Leading(h) => Leading(h)'
      BY <1>6, <1>2 DEF IInv, TypeOK, Leading, Loading, PeerFails, Go, PicksPeer
    <3>2. UNCHANGED m
      BY <1>6 DEF PeerFails
    <3> QED BY <1>2, <2>1, <3>1, <3>2 DEF IInv, TypeOK, CallsForgotten, Leading, Loading
  <2>5. AnswerInv'
    BY <1>6, AnswerKept DEF PeerFails, Go, PicksPeer
  <2>6. OnlyRealKeysCached'
    BY <1>6 DEF IInv, OnlyRealKeysCached, PeerFails
  <2> QED BY <2>2, <2>3, <2>4, <2>5, <2>6 DEF IInv
<1>7. CASE LoadHere(g)
  <2>1. UNCHANGED request /\ \A h : KeyOf(h)' = KeyOf(h) /\ At(h)' = At(h)
    BY <1>7, PlacesStay DEF LoadHere
  <2>2. TypeOK'
    BY <1>7, <1>2 DEF IInv, TypeOK, LoadHere, Go
  <2>3. FlightInv'
    BY <1>7, <1>2, <2>1 DEF IInv, TypeOK, FlightInv, CallsForgotten, Leading, Loading, LoadHere, Go
  <2>4. CallsForgotten'
    BY <1>7, <1>2, <2>1 DEF IInv, TypeOK, FlightInv, CallsForgotten, Leading, Loading, LoadHere, Go
  <2>5. AnswerInv'
    BY <1>7, AnswerKept DEF LoadHere, Go
  <2>6. OnlyRealKeysCached'
    BY <1>7 DEF IInv, OnlyRealKeysCached, LoadHere
  <2> QED BY <2>2, <2>3, <2>4, <2>5, <2>6 DEF IInv
<1>8. CASE GetLocally(g)
  <2>1. UNCHANGED request /\ \A h : KeyOf(h)' = KeyOf(h) /\ At(h)' = At(h)
    BY <1>8, PlacesStay DEF GetLocally
  <2>2. TypeOK'
    <3>1. main' \in [Nodes -> SUBSET Keys]
      <4>1. main \in [Nodes -> SUBSET Keys] /\ KeyOf(g) \in Keys
        BY <1>2 DEF IInv, TypeOK
      <4>2. \/ UNCHANGED main
            \/ \E evicted : main' = [main EXCEPT ![At(g)] = (@ \cup {KeyOf(g)}) \ evicted]
        BY <1>8 DEF GetLocally
      <4> QED BY <4>1, <4>2
    <3>2. val' \in [Goroutines -> Keys \cup {"none", "empty", "err"}]
      BY <1>8, <1>2 DEF IInv, TypeOK, GetLocally, Publish
    <3>3. /\ pc' = [pc EXCEPT ![g] = "forget"]
          /\ UNCHANGED <<registered, up, mu, m, request, leader>>
      BY <1>8 DEF GetLocally, Go
    <3> QED BY <3>1, <3>2, <3>3 DEF IInv, TypeOK
  <2>3. FlightInv'
    BY <1>8, <1>2, <2>1 DEF IInv, TypeOK, FlightInv, CallsForgotten, Leading, Loading,
       GetLocally, Go, Publish
  <2>4. CallsForgotten'
    BY <1>8, <1>2, <2>1 DEF IInv, TypeOK, FlightInv, CallsForgotten, Leading, Loading,
       GetLocally, Go, Publish
  <2>5. AnswerInv'
    <3>1. CASE KeyOf(g) \in Present
      <4>1. val' = [val EXCEPT ![g] = KeyOf(g)]
        BY <1>8, <3>1 DEF GetLocally, Publish
      <4>2. KeyOf(g) = Source(KeyOf(g)) /\ KeyOf(g) # "none"
        BY <1>2, <3>1 DEF Source
      <4> QED BY <1>8, <3>1, <4>1, <4>2, AnswerGiven DEF GetLocally, Go
    <3>2. CASE KeyOf(g) \notin Present
      <4>1. val' = [val EXCEPT ![g] = "err"]
        BY <1>8, <3>2 DEF GetLocally, Publish
      <4>2. Source(KeyOf(g)) = "err"
        BY <3>2 DEF Source
      <4> QED BY <1>8, <3>2, <4>1, <4>2, AnswerGiven DEF GetLocally, Go
    <3> QED BY <3>1, <3>2
  <2>6. OnlyRealKeysCached'
    <3>1. \/ UNCHANGED main
          \/ /\ KeyOf(g) \in Present
             /\ \E evicted : main' = [main EXCEPT ![At(g)] = (@ \cup {KeyOf(g)}) \ evicted]
      BY <1>8 DEF GetLocally
    <3>2. main \in [Nodes -> SUBSET Keys] /\ \A n \in Nodes : main[n] \subseteq Present
      BY <1>1 DEF IInv, TypeOK, OnlyRealKeysCached
    <3>3. \A n \in Nodes : main'[n] \subseteq Present
      <4>1. CASE UNCHANGED main
        BY <3>2, <4>1
      <4>2. ASSUME KeyOf(g) \in Present, NEW evicted,
                   main' = [main EXCEPT ![At(g)] = (@ \cup {KeyOf(g)}) \ evicted]
            PROVE  \A n \in Nodes : main'[n] \subseteq Present
        <5>1. ASSUME NEW n \in Nodes PROVE main'[n] \subseteq main[n] \cup {KeyOf(g)}
          BY <3>2, <4>2
        <5> QED BY <3>2, <4>2, <5>1
      <4> QED BY <3>1, <4>1, <4>2
    <3> QED BY <3>3 DEF OnlyRealKeysCached
  <2> QED BY <2>2, <2>3, <2>4, <2>5, <2>6 DEF IInv
<1>9. CASE PeerAskedAgain(g)
  <2>1. UNCHANGED request /\ \A h : KeyOf(h)' = KeyOf(h) /\ At(h)' = At(h)
    BY <1>9, PlacesStay DEF PeerAskedAgain
  <2>2. /\ Owner[KeyOf(g)] # At(g) /\ KeyOf(Remote(g)) = Escaped[KeyOf(g)]
        /\ Remote(g) \in Goroutines
    BY <1>1, <1>9, Places DEF IInv, AnswerInv, PeerAskedAgain
  <2>3. /\ UNCHANGED <<node, main, flight, request, leader>>
        /\ pc[g] = "ask"
        /\ \/ /\ KeyOf(Remote(g)) \in main[At(Remote(g))]
              /\ pc' = [pc EXCEPT ![g] = "forget"]
              /\ val' = [val EXCEPT ![g] = KeyOf(Remote(g))]
           \/ /\ pc' = [pc EXCEPT ![g] = "hung"]
              /\ UNCHANGED val
    BY <1>9 DEF PeerAskedAgain, Go, Publish
  <2>4. TypeOK'
    <3>1. KeyOf(Remote(g)) \in Keys
      BY <1>2, <2>2
    <3>2. val' \in [Goroutines -> Keys \cup {"none", "empty", "err"}]
      BY <1>1, <2>3, <3>1 DEF TypeOK
    <3>3. pc' = [pc EXCEPT ![g] = "forget"] \/ pc' = [pc EXCEPT ![g] = "hung"]
      BY <2>3
    <3> QED BY <1>1, <2>3, <3>2, <3>3 DEF TypeOK
  <2>5. FlightInv'
    BY <1>2, <2>1, <2>3 DEF IInv, TypeOK, FlightInv, CallsForgotten, Leading, Loading
  <2>6. CallsForgotten'
    <3>1. \A h \in Goroutines : Leading(h) => Leading(h)'
      BY <2>3 DEF IInv, TypeOK, Leading, Loading
    <3> QED BY <1>2, <2>1, <2>3, <3>1 DEF IInv, TypeOK, CallsForgotten
  <2>7. AnswerInv'
    <3>1. CASE /\ KeyOf(Remote(g)) \in main[At(Remote(g))]
               /\ pc' = [pc EXCEPT ![g] = "forget"]
               /\ val' = [val EXCEPT ![g] = KeyOf(Remote(g))]
      <4>1. KeyOf(Remote(g)) \in Present
        BY <1>2, <2>2, <3>1 DEF IInv, OnlyRealKeysCached
      <4>2. /\ KeyOf(Remote(g)) = Served(Source(Escaped[KeyOf(g)]))
            /\ KeyOf(Remote(g)) # "none"
        BY <1>2, <2>2, <4>1 DEF Source, Served
      <4> QED BY <2>2, <2>3, <3>1, <4>2, AnswerGiven
    <3>2. CASE pc' = [pc EXCEPT ![g] = "hung"] /\ UNCHANGED val
      BY <1>2, <2>1, <2>2, <2>3, <3>2 DEF IInv, TypeOK, AnswerInv, Right
    <3> QED BY <2>3, <3>1, <3>2
  <2>8. OnlyRealKeysCached'
    BY <2>3 DEF IInv, OnlyRealKeysCached
  <2> QED BY <2>4, <2>5, <2>6, <2>7, <2>8 DEF IInv
<1> QED BY <1>3, <1>4, <1>5, <1>6, <1>7, <1>8, <1>9

\* A step that changes nothing preserves the invariant.
LEMMA StutterPreserves == IInv /\ UNCHANGED vars => IInv'
<1>. SUFFICES ASSUME IInv, UNCHANGED vars PROVE IInv'
  OBVIOUS
<1>1. \A g : KeyOf(g)' = KeyOf(g) /\ At(g)' = At(g)
  BY PlacesStay DEF vars
<1>2. UNCHANGED <<registered, up, main, mu, m, pc, key, home, leader, val>>
  BY DEF vars, node, flight, request
<1>3. TypeOK' /\ OnlyRealKeysCached'
  BY <1>2 DEF IInv, TypeOK, OnlyRealKeysCached
<1>4. FlightInv' /\ CallsForgotten'
  BY <1>1, <1>2 DEF IInv, FlightInv, CallsForgotten, Leading, Loading
<1>5. AnswerInv'
  BY <1>1, <1>2 DEF IInv, AnswerInv, Right
<1> QED BY <1>3, <1>4, <1>5 DEF IInv

\* Whose calls are in flight, who waits for which of them, and that results are right.
THEOREM Invariant == Spec => []IInv
<1>1. IInv /\ [Next]_vars => IInv'
  <2>. SUFFICES ASSUME IInv, Next PROVE IInv'
    BY StutterPreserves
  <2>1. ASSUME NEW n \in Nodes, Register(n) \/ Listen(n) \/ Unreachable(n) PROVE IInv'
    BY <2>1, NodePreserves
  <2>3. ASSUME NEW t \in Requests, Arrive(t) PROVE IInv'
    BY <2>3, ArrivePreserves
  <2>2. ASSUME NEW g \in Goroutines, Step(g) PROVE IInv'
    BY <2>2, FlightPreserves, LoadPreserves DEF Step
  <2> QED BY <2>1, <2>2, <2>3 DEF Next
<1> QED BY InitIInv, <1>1, PTL DEF Spec

\* The variables keep their types; a server only answers once it has its peers.
THEOREM TypeCorrect == Spec => []TypeOK
BY Invariant, PTL DEF IInv

\* One goroutine at a time loads a key on a node.
THEOREM LoadedOnce == Spec => []OneLoader
<1>1. IInv => OneLoader
  BY DEF IInv, FlightInv, Leading, OneLoader
<1> QED BY Invariant, <1>1, PTL

\* Calls leave the map of singleflight, unless their goroutine panicked.
THEOREM NoStaleCalls == Spec => []CallsForgotten
BY Invariant, PTL DEF IInv

\* Whoever loads, waits or asks another node gets the right result.
THEOREM AnswersRight == Spec => []RightAnswer
<1>1. IInv => RightAnswer
  BY DEF IInv, AnswerInv, RightAnswer
<1> QED BY Invariant, <1>1, PTL

\* No node caches a key that the data source does not have.
THEOREM CacheReal == Spec => []OnlyRealKeysCached
BY Invariant, PTL DEF IInv
==============================================================================
