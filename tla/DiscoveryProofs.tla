--------------------------- MODULE DiscoveryProofs ---------------------------
(***************************************************************************)
(* Safety of the discovery and the registry, for all sets of servers and   *)
(* callers, all time limits with the margin, and both values of reads:     *)
(* IInv is inductive, and the properties follow from it.                   *)
(***************************************************************************)
EXTENDS Discovery, TLAPS

\* The initial state satisfies the inductive invariant.
LEMMA InitIInv == Init => IInv
<1>. SUFFICES ASSUME Init PROVE IInv
  OBVIOUS
<1>. USE RegistryAssumption, DiscoveryAssumption DEF Init, RegistryInit
<1>1. RegistryInv
  BY DEF RegistryInv, RegistryTypeOK, TimesInv, LeaseInv, Beating
<1>2. TypeOK
  BY <1>1 DEF TypeOK, RegistryInv
<1>3. MutexInv /\ ListInv
  BY DEF MutexInv, ListInv
<1> QED BY <1>1, <1>2, <1>3 DEF IInv

\* The last heartbeat of a server whose heartbeats go on is not older than a lease.
LEMMA InTimeNow ==
    ASSUME RegistryInv, NEW a \in known, Beating(a)
    PROVE  Timeout = 0 \/ heard[a] + Timeout > now
<1>. USE RegistryAssumption, MarginAssumption
<1>1. a \in Servers /\ heard[a] \in Nat /\ now \in Nat
  BY DEF RegistryInv, RegistryTypeOK, LeaseInv
<1>2. now <= heard[a] + Period + 2 * MaxDelay
  <2>1. CASE beat[a] = "post"
    <3>1. sent[a] \in Nat
      BY <1>1, <2>1 DEF RegistryInv, RegistryTypeOK, TimesInv, Beating
    <3>2. now <= sent[a] + MaxDelay /\ sent[a] <= heard[a] + Period + MaxDelay
      BY <1>1, <2>1 DEF RegistryInv, TimesInv, LeaseInv
    <3> QED BY <1>1, <3>1, <3>2
  <2>2. CASE beat[a] = "answered"
    <3>1. sent[a] \in Nat
      BY <1>1, <2>2 DEF RegistryInv, RegistryTypeOK, TimesInv, Beating
    <3>2. now <= sent[a] + MaxDelay /\ sent[a] <= heard[a]
      BY <1>1, <2>2 DEF RegistryInv, TimesInv, LeaseInv
    <3> QED BY <1>1, <3>1, <3>2
  <2>3. CASE beat[a] = "wait"
    <3>1. now <= heard[a] + Period + MaxDelay
      BY <2>3 DEF RegistryInv, LeaseInv
    <3> QED BY <1>1, <3>1
  <2> QED BY <2>1, <2>2, <2>3 DEF Beating
<1> QED BY <1>1, <1>2

\* Then its lease has not run out either, if it has one.
LEMMA LeaseHolds ==
    ASSUME RegistryInv, NEW a \in known, Beating(a), reads = "request"
    PROVE  Alive(a)
<1>1. heard[a] \in Nat /\ servers[a] = heard[a]
  BY DEF RegistryInv, RegistryTypeOK, LeaseInv
<1>2. servers[a] # None
  BY <1>1, RegistryAssumption
<1> QED BY <1>1, <1>2, InTimeNow DEF Alive

\* Listing the servers drops only leases that nobody keeps up.
LEMMA DropPreserves ==
    ASSUME RegistryInv, DropExpired, UNCHANGED <<now, reads, up, heard, known, beats, posts>>
    PROVE  RegistryInv'
<1>. USE RegistryAssumption DEF beats
<1>1. RegistryTypeOK'
  BY DEF RegistryInv, RegistryTypeOK, DropExpired
<1>2. TimesInv'
  BY DEF RegistryInv, RegistryTypeOK, TimesInv, DropExpired, Beating
<1>3. \A a \in known : Beating(a) /\ reads = "request" => servers'[a] = servers[a]
  BY LeaseHolds DEF RegistryInv, RegistryTypeOK, DropExpired
<1>4. LeaseInv'
  BY <1>3 DEF RegistryInv, LeaseInv, Beating
<1> QED BY <1>1, <1>2, <1>4 DEF RegistryInv

\* The goroutine of HeartBeat takes a step, or dies with its server.
LEMMA BeatPreserves ==
    ASSUME RegistryInv, NEW a \in Servers, BeatStep(a) \/ ServerDies(a)
    PROVE  RegistryInv'
<1>. USE RegistryAssumption DEF registry
<1>1. CASE HeartBeat(a)
  <2>1. RegistryTypeOK'
    BY <1>1 DEF RegistryInv, RegistryTypeOK, HeartBeat, SendHeartbeat
  <2>2. TimesInv'
    BY <1>1 DEF RegistryInv, RegistryTypeOK, TimesInv, Beating, HeartBeat, SendHeartbeat
  <2>3. LeaseInv'
    BY <1>1 DEF RegistryInv, RegistryTypeOK, TimesInv, LeaseInv, Beating, HeartBeat,
       SendHeartbeat
  <2> QED BY <2>1, <2>2, <2>3 DEF RegistryInv
<1>2. CASE HeartbeatOk(a)
  <2>1. RegistryTypeOK'
    BY <1>2 DEF RegistryInv, RegistryTypeOK, HeartbeatOk
  <2>2. TimesInv'
    BY <1>2 DEF RegistryInv, RegistryTypeOK, TimesInv, Beating, HeartbeatOk
  <2>3. LeaseInv'
    BY <1>2 DEF RegistryInv, RegistryTypeOK, TimesInv, LeaseInv, Beating, HeartbeatOk
  <2> QED BY <2>1, <2>2, <2>3 DEF RegistryInv
<1>3. CASE HeartbeatFails(a)
  <2>1. RegistryTypeOK'
    BY <1>3 DEF RegistryInv, RegistryTypeOK, HeartbeatFails, Ended
  <2>2. TimesInv'
    BY <1>3 DEF RegistryInv, RegistryTypeOK, TimesInv, Beating, HeartbeatFails, Ended
  <2>3. LeaseInv'
    BY <1>3 DEF RegistryInv, RegistryTypeOK, LeaseInv, Beating, HeartbeatFails, Ended
  <2> QED BY <2>1, <2>2, <2>3 DEF RegistryInv
<1>4. CASE TickerFires(a)
  <2>1. due[a] \in Nat
    BY <1>4 DEF RegistryInv, RegistryTypeOK, TimesInv, TickerFires
  <2>2. RegistryTypeOK'
    BY <1>4, <2>1 DEF RegistryInv, RegistryTypeOK, TickerFires, SendHeartbeat
  <2>3. TimesInv'
    BY <1>4, <2>1 DEF RegistryInv, RegistryTypeOK, TimesInv, Beating, TickerFires,
       SendHeartbeat
  <2>4. LeaseInv'
    BY <1>4, <2>1 DEF RegistryInv, RegistryTypeOK, LeaseInv, Beating, TickerFires,
       SendHeartbeat
  <2> QED BY <2>2, <2>3, <2>4 DEF RegistryInv
<1>5. CASE ServerDies(a)
  <2>1. RegistryTypeOK'
    BY <1>5 DEF RegistryInv, RegistryTypeOK, ServerDies, Ended
  <2>2. TimesInv'
    BY <1>5 DEF RegistryInv, RegistryTypeOK, TimesInv, Beating, ServerDies, Ended
  <2>3. LeaseInv'
    BY <1>5 DEF RegistryInv, RegistryTypeOK, LeaseInv, Beating, ServerDies, Ended
  <2> QED BY <2>1, <2>2, <2>3 DEF RegistryInv
<1> QED BY <1>1, <1>2, <1>3, <1>4, <1>5 DEF BeatStep

\* The registry handles a heartbeat.
LEMMA ServePostPreserves ==
    ASSUME RegistryInv, NEW a \in Servers, ServePost(a)
    PROVE  RegistryInv'
<1>. USE RegistryAssumption DEF ServePost
<1>1. CASE reads = "request" /\ PutServer(a)
  <2>1. RegistryTypeOK'
    BY <1>1 DEF RegistryInv, RegistryTypeOK, PutServer
  <2>2. TimesInv'
    BY <1>1 DEF RegistryInv, RegistryTypeOK, TimesInv, Beating, PutServer
  <2>3. LeaseInv'
    BY <1>1 DEF RegistryInv, RegistryTypeOK, TimesInv, LeaseInv, Beating, PutServer
  <2> QED BY <2>1, <2>2, <2>3 DEF RegistryInv
<1>2. CASE reads = "answer" /\ UNCHANGED servers
  <2>1. RegistryTypeOK'
    BY <1>2 DEF RegistryInv, RegistryTypeOK
  <2>2. TimesInv'
    BY <1>2 DEF RegistryInv, RegistryTypeOK, TimesInv, Beating
  <2>3. LeaseInv'
    BY <1>2 DEF RegistryInv, RegistryTypeOK, TimesInv, LeaseInv, Beating
  <2> QED BY <2>1, <2>2, <2>3 DEF RegistryInv
<1> QED BY <1>1, <1>2

\* Every step that is not the clock's preserves the registry's part.
LEMMA RegistryStepPreserves == RegistryInv /\ RegistryStep => RegistryInv'
<1>. SUFFICES ASSUME RegistryInv, RegistryStep PROVE RegistryInv'
  OBVIOUS
<1>1. ASSUME NEW a \in Servers, BeatStep(a) \/ ServerDies(a) PROVE RegistryInv'
  BY <1>1, BeatPreserves
<1>2. ASSUME NEW a \in Servers, ServePost(a) PROVE RegistryInv'
  BY <1>2, ServePostPreserves
<1>3. CASE ServeOtherGet
  BY <1>3, DropPreserves DEF ServeOtherGet
<1>4. CASE RegistryDies
  <2>. USE RegistryAssumption, <1>4 DEF RegistryDies, beats
  <2>1. RegistryTypeOK'
    BY DEF RegistryInv, RegistryTypeOK
  <2>2. TimesInv'
    BY DEF RegistryInv, RegistryTypeOK, TimesInv, Beating
  <2>3. LeaseInv'
    BY DEF LeaseInv
  <2> QED BY <2>1, <2>2, <2>3 DEF RegistryInv
<1>5. CASE RegistryStarts
  BY <1>5 DEF RegistryStarts, beats, RegistryInv, RegistryTypeOK, TimesInv, LeaseInv,
     Beating
<1> QED BY <1>1, <1>2, <1>3, <1>4, <1>5 DEF RegistryStep

\* Time passes at the registry and its servers.
LEMMA TickPreserves == RegistryInv /\ Tick => RegistryInv'
<1>. SUFFICES ASSUME RegistryInv, Tick PROVE RegistryInv'
  OBVIOUS
<1>. USE RegistryAssumption DEF Tick, InTime, registry, beats
<1>1. RegistryTypeOK'
  BY DEF RegistryInv, RegistryTypeOK
<1>2. TimesInv'
  BY DEF RegistryInv, RegistryTypeOK, TimesInv, Beating
<1>3. LeaseInv'
  BY DEF RegistryInv, RegistryTypeOK, TimesInv, LeaseInv, Beating
<1> QED BY <1>1, <1>2, <1>3 DEF RegistryInv

\* A lease is never moved back, and the clock neither.
LEMMA LeasesGrow ==
    ASSUME RegistryInv, RegistryStep
    PROVE  /\ now' = now
           /\ \A a \in Servers : heard[a] # None => heard'[a] \in Nat /\ heard'[a] >= heard[a]
<1>. USE DEF RegistryInv, RegistryTypeOK, TimesInv
<1>1. ASSUME NEW a \in Servers, BeatStep(a) \/ ServerDies(a)
      PROVE  now' = now /\ heard' = heard
  BY <1>1 DEF BeatStep, HeartBeat, HeartbeatOk, HeartbeatFails, TickerFires, ServerDies,
     registry
<1>2. ASSUME NEW a \in Servers, ServePost(a)
      PROVE  /\ now' = now
             /\ \A b \in Servers :
                  heard[b] # None => heard'[b] \in Nat /\ heard'[b] >= heard[b]
  BY <1>2, RegistryAssumption DEF ServePost, PutServer
<1>3. ASSUME ServeOtherGet \/ RegistryDies \/ RegistryStarts
      PROVE  now' = now /\ heard' = heard
  BY <1>3 DEF ServeOtherGet, RegistryDies, RegistryStarts
<1> QED BY <1>1, <1>2, <1>3 DEF RegistryStep

\* A caller locks d.mu, and its GET ends in one way or another.
LEMMA RefreshPreserves ==
    ASSUME IInv, NEW g \in Callers,
           \/ RefreshSkipped(g) \/ BeginRefresh(g)
           \/ OtherAnswer(g) \/ RefreshFails(g) \/ RefreshDone(g)
    PROVE  IInv'
<1>. USE RegistryAssumption, DiscoveryAssumption DEF IInv, discovery
<1>1. CASE RefreshSkipped(g)
  <2>. USE <1>1 DEF RefreshSkipped, Go
  <2>1. RegistryInv'
    BY DEF registryVars, registry, beats, RegistryInv, RegistryTypeOK, TimesInv, LeaseInv,
       Beating
  <2>2. TypeOK'
    BY <2>1 DEF RegistryInv, RegistryTypeOK, TypeOK, Returned, registryVars, registry
  <2>3. MutexInv'
    BY DEF MutexInv, TypeOK, Returned
  <2>4. ListInv'
    BY DEF ListInv, MutexInv, TypeOK, Returned, RegistryInv, RegistryTypeOK, TimesInv,
       WasAlive, Fresh, registryVars, registry
  <2> QED BY <2>1, <2>2, <2>3, <2>4 DEF IInv
<1>2. CASE BeginRefresh(g)
  <2>. USE <1>2 DEF BeginRefresh, Go
  <2>1. RegistryInv'
    BY DEF registryVars, registry, beats, RegistryInv, RegistryTypeOK, TimesInv, LeaseInv,
       Beating
  <2>2. TypeOK'
    BY <2>1 DEF RegistryInv, RegistryTypeOK, TypeOK, Returned, registryVars, registry
  <2>3. MutexInv'
    BY DEF MutexInv, TypeOK, Returned
  <2>4. ListInv'
    BY DEF ListInv, MutexInv, TypeOK, Returned, RegistryInv, RegistryTypeOK, TimesInv,
       WasAlive, Fresh, registryVars, registry
  <2> QED BY <2>1, <2>2, <2>3, <2>4 DEF IInv
<1>3. CASE OtherAnswer(g)
  <2>. USE <1>3 DEF OtherAnswer, Go
  <2>1. RegistryInv'
    BY DEF registryVars, registry, beats, RegistryInv, RegistryTypeOK, TimesInv, LeaseInv,
       Beating
  <2>2. TypeOK'
    BY <2>1 DEF RegistryInv, RegistryTypeOK, TypeOK, Returned, registryVars, registry
  <2>3. MutexInv'
    BY DEF MutexInv, TypeOK, Returned
  <2>4. ListInv'
    BY DEF ListInv, MutexInv, TypeOK, Returned, RegistryInv, RegistryTypeOK, TimesInv,
       WasAlive, Fresh, registryVars, registry
  <2> QED BY <2>1, <2>2, <2>3, <2>4 DEF IInv
<1>4. CASE RefreshFails(g)
  <2>. USE <1>4 DEF RefreshFails, Leave
  <2>1. RegistryInv'
    BY DEF registryVars, registry, beats, RegistryInv, RegistryTypeOK, TimesInv, LeaseInv,
       Beating
  <2>2. TypeOK'
    BY <2>1 DEF RegistryInv, TypeOK, Returned, registryVars, registry
  <2>3. MutexInv'
    BY DEF MutexInv, TypeOK, Returned
  <2>4. ListInv'
    BY DEF ListInv, MutexInv, TypeOK, Returned, RegistryInv, RegistryTypeOK, TimesInv,
       WasAlive, Fresh, registryVars, registry
  <2> QED BY <2>1, <2>2, <2>3, <2>4 DEF IInv
<1>5. CASE RefreshDone(g)
  <2>. USE <1>5 DEF RefreshDone, Go, Leave
  <2>1. RegistryInv'
    BY DEF registryVars, registry, beats, RegistryInv, RegistryTypeOK, TimesInv, LeaseInv,
       Beating
  <2>2. TypeOK'
    BY <2>1 DEF RegistryInv, RegistryTypeOK, TypeOK, Returned, registryVars, registry
  <2>3. MutexInv'
    BY DEF MutexInv, TypeOK, Returned
  <2>4. ListInv'
    BY DEF ListInv, MutexInv, TypeOK, Returned, RegistryInv, RegistryTypeOK, TimesInv,
       WasAlive, Fresh, registryVars, registry
  <2> QED BY <2>1, <2>2, <2>3, <2>4 DEF IInv
<1> QED BY <1>1, <1>2, <1>3, <1>4, <1>5

\* A caller chooses from the list.
LEMMA PickPreserves ==
    ASSUME IInv, NEW g \in Callers, PickStep(g)
    PROVE  IInv'
<1>. USE RegistryAssumption, DiscoveryAssumption DEF IInv, discovery
<1>1. CASE GetRandom(g)
  <2>. USE <1>1 DEF GetRandom, Pick, Go
  <2>1. RegistryInv'
    BY DEF registryVars, registry, beats, RegistryInv, RegistryTypeOK, TimesInv, LeaseInv,
       Beating
  <2>2. TypeOK'
    BY <2>1 DEF RegistryInv, TypeOK, Returned, registryVars, registry
  <2>3. MutexInv'
    BY DEF MutexInv, TypeOK, Returned
  <2>4. ListInv'
    BY DEF ListInv, MutexInv, TypeOK, Returned, RegistryInv, RegistryTypeOK, TimesInv,
       WasAlive, Fresh, registryVars, registry
  <2> QED BY <2>1, <2>2, <2>3, <2>4 DEF IInv
<1>2. CASE GetRoundRobin(g)
  <2>. USE <1>2 DEF GetRoundRobin, Pick, Go
  <2>1. RegistryInv'
    BY DEF registryVars, registry, beats, RegistryInv, RegistryTypeOK, TimesInv, LeaseInv,
       Beating
  <2>2. TypeOK'
    BY <2>1 DEF RegistryInv, TypeOK, Returned, registryVars, registry
  <2>3. MutexInv'
    BY DEF MutexInv, TypeOK, Returned
  <2>4. ListInv'
    BY DEF ListInv, MutexInv, TypeOK, Returned, RegistryInv, RegistryTypeOK, TimesInv,
       WasAlive, Fresh, registryVars, registry
  <2> QED BY <2>1, <2>2, <2>3, <2>4 DEF IInv
<1>3. CASE RoundRobinPanics(g)
  <2>. USE <1>3 DEF RoundRobinPanics, Pick, Go
  <2>1. RegistryInv'
    BY DEF registryVars, registry, beats, RegistryInv, RegistryTypeOK, TimesInv, LeaseInv,
       Beating
  <2>2. TypeOK'
    BY <2>1 DEF RegistryInv, TypeOK, Returned, registryVars, registry
  <2>3. MutexInv'
    BY DEF MutexInv, TypeOK, Returned
  <2>4. ListInv'
    BY DEF ListInv, MutexInv, TypeOK, Returned, RegistryInv, RegistryTypeOK, TimesInv,
       WasAlive, Fresh, registryVars, registry
  <2> QED BY <2>1, <2>2, <2>3, <2>4 DEF IInv
<1>4. CASE GetFails(g)
  <2>. USE <1>4 DEF GetFails, Pick, Go
  <2>1. RegistryInv'
    BY DEF registryVars, registry, beats, RegistryInv, RegistryTypeOK, TimesInv, LeaseInv,
       Beating
  <2>2. TypeOK'
    BY <2>1 DEF RegistryInv, TypeOK, Returned, registryVars, registry
  <2>3. MutexInv'
    BY DEF MutexInv, TypeOK, Returned
  <2>4. ListInv'
    BY DEF ListInv, MutexInv, TypeOK, Returned, RegistryInv, RegistryTypeOK, TimesInv,
       WasAlive, Fresh, registryVars, registry
  <2> QED BY <2>1, <2>2, <2>3, <2>4 DEF IInv
<1>5. CASE GetAll(g)
  <2>. USE <1>5 DEF GetAll, Pick, Go
  <2>1. RegistryInv'
    BY DEF registryVars, registry, beats, RegistryInv, RegistryTypeOK, TimesInv, LeaseInv,
       Beating
  <2>2. TypeOK'
    BY <2>1 DEF RegistryInv, TypeOK, Returned, registryVars, registry
  <2>3. MutexInv'
    BY DEF MutexInv, TypeOK, Returned
  <2>4. ListInv'
    BY DEF ListInv, MutexInv, TypeOK, Returned, RegistryInv, RegistryTypeOK, TimesInv,
       WasAlive, Fresh, registryVars, registry
  <2> QED BY <2>1, <2>2, <2>3, <2>4 DEF IInv
<1> QED BY <1>1, <1>2, <1>3, <1>4, <1>5 DEF PickStep

\* The registry answers a GET with the servers whose leases have not run out.
LEMMA ServeGetPreserves ==
    ASSUME IInv, NEW g \in Callers, ServeGet(g)
    PROVE  IInv'
<1>. USE RegistryAssumption, DiscoveryAssumption DEF IInv, ServeGet, Go, discovery
<1>1. RegistryInv'
  BY DropPreserves
<1>2. TypeOK'
  BY <1>1 DEF RegistryInv, RegistryTypeOK, TypeOK, Returned, AliveServers
<1>3. MutexInv'
  BY DEF MutexInv, TypeOK, Returned
<1>4. WasAlive(AliveServers, now)
  BY DEF WasAlive, AliveServers, Alive, RegistryInv, TimesInv
<1>5. ListInv'
  BY <1>4 DEF ListInv, MutexInv, TypeOK, RegistryInv, RegistryTypeOK, WasAlive, Fresh
<1> QED BY <1>1, <1>2, <1>3, <1>5

\* The user replaces the list.
LEMMA UpdatePreserves ==
    ASSUME IInv, NEW g \in Callers, NEW ss \in SUBSET Servers, Update(g, ss)
    PROVE  IInv'
<1>. USE RegistryAssumption, DiscoveryAssumption DEF IInv, Update, Go
<1>1. RegistryInv'
  BY DEF registryVars, registry, beats, RegistryInv, RegistryTypeOK, TimesInv, LeaseInv,
     Beating
<1>2. TypeOK'
  BY <1>1 DEF RegistryInv, TypeOK, Returned
<1>3. MutexInv'
  BY DEF MutexInv, TypeOK, Returned
<1>4. ListInv'
  BY DEF ListInv, MutexInv, TypeOK, Returned, RegistryInv, RegistryTypeOK, WasAlive,
     Fresh, registryVars, registry
<1> QED BY <1>1, <1>2, <1>3, <1>4

\* A step of the registry or a server leaves the discovery's part true, because leases
\* only grow.
LEMMA OutsidePreserves ==
    ASSUME IInv, RegistryStep, UNCHANGED <<discovery, callers>>
    PROVE  IInv'
<1>. USE RegistryAssumption, DiscoveryAssumption DEF IInv, discovery, callers
<1>1. RegistryInv'
  BY RegistryStepPreserves
<1>2. TypeOK' /\ MutexInv'
  BY <1>1 DEF RegistryInv, TypeOK, MutexInv, Returned
<1>3. /\ now' = now
      /\ \A a \in Servers : heard[a] # None => heard'[a] \in Nat /\ heard'[a] >= heard[a]
  BY LeasesGrow
<1>4. ASSUME NEW ss \in SUBSET Servers, NEW time \in Nat, WasAlive(ss, time)
      PROVE  WasAlive(ss, time)'
  BY <1>3, <1>4 DEF WasAlive, RegistryInv, RegistryTypeOK
<1>5. listed # None => WasAlive(list, listed)'
  BY <1>4 DEF TypeOK, ListInv
<1>6. \A g \in Callers : pc[g] = "answered" => WasAlive(answer[g], served[g])'
  BY <1>4 DEF TypeOK, ListInv
<1>7. ListInv'
  BY <1>3, <1>5, <1>6 DEF ListInv, Fresh
<1> QED BY <1>1, <1>2, <1>7

\* Time passes.
LEMMA PassPreserves == IInv /\ Pass => IInv'
<1>. SUFFICES ASSUME IInv, Pass PROVE IInv'
  OBVIOUS
<1>. USE RegistryAssumption, DiscoveryAssumption DEF IInv, Pass, discovery, callers
<1>1. RegistryInv'
  BY TickPreserves
<1>2. TypeOK' /\ MutexInv'
  BY <1>1 DEF RegistryInv, TypeOK, MutexInv, Returned
<1>3. now' = now + 1 /\ heard' = heard
  BY DEF Tick, registry
<1>4. ListInv'
  BY <1>3 DEF ListInv, Fresh, WasAlive, InTime, TypeOK, RegistryInv, RegistryTypeOK
<1> QED BY <1>1, <1>2, <1>4

\* Every step preserves the inductive invariant.
LEMMA NextIInv == IInv /\ [Next]_vars => IInv'
<1>. SUFFICES ASSUME IInv, [Next]_vars PROVE IInv'
  OBVIOUS
<1>1. CASE RegistryStep /\ UNCHANGED <<discovery, callers>>
  BY <1>1, OutsidePreserves
<1>2. CASE Pass
  BY <1>2, PassPreserves
<1>3. ASSUME NEW g \in Callers, CallerStep(g) PROVE IInv'
  BY <1>3, RefreshPreserves, PickPreserves, ServeGetPreserves DEF CallerStep, RefreshStep
<1>4. ASSUME NEW g \in Callers, NEW ss \in SUBSET Servers, Update(g, ss) PROVE IInv'
  BY <1>4, UpdatePreserves
<1>5. CASE UNCHANGED vars
  BY <1>5 DEF vars, registryVars, registry, beats, discovery, callers, IInv, RegistryInv,
     RegistryTypeOK, TimesInv, LeaseInv, Beating, TypeOK, Returned, MutexInv, ListInv,
     Fresh, WasAlive
<1> QED BY <1>1, <1>2, <1>3, <1>4, <1>5 DEF Next

\* The invariant holds in every reachable state, for any servers, callers and limits.
THEOREM Invariant == Spec => []IInv
BY InitIInv, NextIInv, PTL DEF Spec

\* Every variable keeps its type.
THEOREM TypeCorrect == Spec => []TypeOK
<1>1. IInv => TypeOK
  BY DEF IInv
<1> QED BY <1>1, Invariant, PTL

\* The registry is never without a heartbeat of a server whose heartbeats go on for as
\* long as a lease lasts.
THEOREM HeartbeatsCome == Spec => []HeartbeatsInTime
<1>1. IInv => HeartbeatsInTime
  BY InTimeNow DEF IInv, HeartbeatsInTime
<1> QED BY <1>1, Invariant, PTL

\* A server that has gone is offered for a limited time only.
THEOREM DeadServersBounded == Spec => []DeadServersLeave
<1>1. ASSUME IInv, Timeout # 0, listed # None,
             NEW g \in Callers, NEW a \in list, pc[g] = "pick"
      PROVE  heard[a] + Timeout + UpdateTimeout + MaxDelay > checked[g]
  <2>. USE <1>1, RegistryAssumption, DiscoveryAssumption
  <2>1. /\ a \in Servers /\ heard[a] \in Nat /\ listed \in Nat
        /\ lastUpdate \in Nat /\ checked[g] \in Nat
    BY DEF IInv, RegistryInv, RegistryTypeOK, TypeOK, ListInv, WasAlive
  <2>2. heard[a] + Timeout > listed /\ lastUpdate <= listed + MaxDelay
    BY DEF IInv, ListInv, WasAlive
  <2>3. lastUpdate + UpdateTimeout > checked[g]
    BY DEF IInv, ListInv
  <2> QED BY <2>1, <2>2, <2>3
<1>2. IInv => DeadServersLeave
  BY <1>1 DEF DeadServersLeave
<1> QED BY <1>2, Invariant, PTL

\* Two updates of the list are at least UpdateTimeout apart.
THEOREM UpdatesApart == Spec => RefreshesApart
<1>1. ASSUME IInv, [Next]_vars, lastUpdate' # lastUpdate, lastUpdate # None
      PROVE  lastUpdate' >= lastUpdate + UpdateTimeout
  <2>1. PICK g \in Callers : RefreshDone(g)
    BY <1>1 DEF Next, vars, discovery, Pass, CallerStep, RefreshStep, PickStep,
       RefreshSkipped, BeginRefresh, ServeGet, OtherAnswer, RefreshFails, GetRandom,
       GetRoundRobin, RoundRobinPanics, GetFails, GetAll, Update
  <2>2. lastUpdate' = now /\ ~Fresh
    BY <1>1, <2>1 DEF RefreshDone, Go, IInv, ListInv
  <2>3. lastUpdate \in Nat /\ now \in Nat
    BY <1>1 DEF IInv, TypeOK, RegistryInv, RegistryTypeOK
  <2> QED BY <1>1, <2>2, <2>3, DiscoveryAssumption DEF Fresh
<1>2. IInv /\ [Next]_vars =>
        [lastUpdate' # lastUpdate /\ lastUpdate # None
           => lastUpdate' >= lastUpdate + UpdateTimeout]_vars
  BY <1>1
<1> QED BY <1>2, Invariant, PTL DEF Spec, RefreshesApart
==============================================================================
