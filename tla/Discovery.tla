------------------------------ MODULE Discovery ------------------------------
(***************************************************************************)
(* GeeRegistryDiscovery of geeRpc/xclient: a cached list of servers that   *)
(* Get and GetAll renew from the registry when it is older than            *)
(* UpdateTimeout.  Refresh holds d.mu over the whole GET; choosing from the*)
(* list is a second critical section, so that the list may be another one  *)
(* by then.                                                                *)
(*                                                                         *)
(* The list is kept as a set: which server a mode picks does not matter to *)
(* the properties, but that the index of RoundRobinSelect starts at a      *)
(* random number and never wraps does (discovery.go:68).                   *)
(***************************************************************************)
EXTENDS Registry, FiniteSets

CONSTANTS
    Callers,          \* goroutines, each calls one method of the Discovery once
    UpdateTimeout,    \* d.timeout
    MaxIndex          \* the largest index to start with

ASSUME DiscoveryAssumption ==
    /\ UpdateTimeout \in Nat \ {0}
    /\ MaxIndex \in Nat
    /\ None \notin Callers

VARIABLES
    mu,          \* the holder of d.mu, or None; only Refresh keeps it over steps
    list,        \* d.servers
    lastUpdate,  \* d.lastUpdate, None for the zero time
    index,       \* d.index
    \* a caller
    pc,          \* "lock" before Get or GetAll, "update" before Update, "get", "answered",
                 \* "pick", or how it ended: "ok", "err" or "panic"
    answer,      \* the list in the answer to its GET
    \* history
    asked,       \* the time of its GET
    served,      \* when the registry made answer, None before
    listed,      \* when the registry made list; None for a list of the user
    checked      \* when Refresh returned nil

discovery == <<mu, list, lastUpdate, index, listed>>
callers == <<pc, answer, asked, served, checked>>
vars == <<registryVars, discovery, callers>>

Init ==
    /\ RegistryInit
    /\ mu = None
    /\ list = {}
    /\ lastUpdate = None
    /\ index \in 0..MaxIndex
    /\ pc \in [Callers -> {"lock", "update"}]
    /\ answer = [g \in Callers |-> {}]
    /\ asked = [g \in Callers |-> None]
    /\ served = [g \in Callers |-> None]
    /\ listed = None
    /\ checked = [g \in Callers |-> None]

Go(g, from, to) == pc[g] = from /\ pc' = [pc EXCEPT ![g] = to]

\* The locals of Refresh are gone.
Leave(g) ==
    /\ answer' = [answer EXCEPT ![g] = {}]
    /\ asked' = [asked EXCEPT ![g] = None]
    /\ served' = [served EXCEPT ![g] = None]

-----------------------------------------------------------------------------
(* Refresh.                                                                *)

Fresh == lastUpdate # None /\ lastUpdate + UpdateTimeout > now

\* The list is recent enough.
RefreshSkipped(g) ==
    /\ mu = None /\ Fresh
    /\ Go(g, "lock", "pick")
    /\ checked' = [checked EXCEPT ![g] = now]
    /\ UNCHANGED <<registryVars, discovery, answer, asked, served>>

\* MUTANT: d.mu is not locked.
BeginUnlocked(g) ==
    /\ ~Fresh
    /\ Go(g, "lock", "get")
    /\ mu' = g
    /\ asked' = [asked EXCEPT ![g] = now]
    /\ UNCHANGED <<registryVars, list, lastUpdate, index, listed, answer, served, checked>>

\* http.Get, with d.mu locked.
BeginRefresh(g) ==
    /\ mu = None /\ ~Fresh
    /\ Go(g, "lock", "get")
    /\ mu' = g
    /\ asked' = [asked EXCEPT ![g] = now]
    /\ UNCHANGED <<registryVars, list, lastUpdate, index, listed, answer, served, checked>>

\* ServeHTTP for this GET.
ServeGet(g) ==
    /\ up /\ Go(g, "get", "answered")
    /\ answer' = [answer EXCEPT ![g] = AliveServers]
    /\ served' = [served EXCEPT ![g] = now]
    /\ DropExpired
    /\ UNCHANGED <<now, reads, up, heard, known, beats, posts, discovery, asked, checked>>

\* Something between the two answers, a proxy or another server at this port.  The status
\* is not looked at: without the header the list is empty.
OtherAnswer(g) ==
    /\ Go(g, "get", "answered")
    /\ answer' = [answer EXCEPT ![g] = {}]
    /\ served' = [served EXCEPT ![g] = now]
    /\ UNCHANGED <<registryVars, discovery, asked, checked>>

\* MUTANT: this way out does not unlock d.mu.
RefreshFailsLocked(g) ==
    /\ pc[g] \in {"get", "answered"}
    /\ pc' = [pc EXCEPT ![g] = "err"]
    /\ Leave(g)
    /\ UNCHANGED <<registryVars, discovery, checked>>

\* http.Get returns an error, and so do Get and GetAll.
RefreshFails(g) ==
    /\ pc[g] \in {"get", "answered"}
    /\ pc' = [pc EXCEPT ![g] = "err"]
    /\ mu' = None /\ Leave(g)
    /\ UNCHANGED <<registryVars, list, lastUpdate, index, listed, checked>>

RefreshDone(g) ==
    /\ Go(g, "answered", "pick")
    /\ list' = answer[g] /\ listed' = served[g]
    /\ lastUpdate' = now
    /\ checked' = [checked EXCEPT ![g] = now]
    /\ mu' = None /\ Leave(g)
    /\ UNCHANGED <<registryVars, index>>

-----------------------------------------------------------------------------
(* The second critical section, and Update.                                *)

Pick(g, to) ==
    /\ mu = None /\ Go(g, "pick", to)
    /\ checked' = [checked EXCEPT ![g] = None]

\* Get with RandomSelect.
GetRandom(g) ==
    /\ Pick(g, "ok") /\ list # {}
    /\ UNCHANGED <<registryVars, discovery, answer, asked, served>>

\* Get with RoundRobinSelect.
GetRoundRobin(g) ==
    /\ Pick(g, "ok") /\ list # {} /\ index < Cardinality(list)
    /\ index' = index + 1
    /\ UNCHANGED <<registryVars, mu, list, lastUpdate, listed, answer, asked, served>>

\* The index is out of range; defer unlocks d.mu.
RoundRobinPanics(g) ==
    /\ Pick(g, "panic") /\ list # {} /\ index >= Cardinality(list)
    /\ UNCHANGED <<registryVars, discovery, answer, asked, served>>

\* There is no server, or the mode is none of the two.
GetFails(g) ==
    /\ Pick(g, "err")
    /\ UNCHANGED <<registryVars, discovery, answer, asked, served>>

GetAll(g) ==
    /\ Pick(g, "ok")
    /\ UNCHANGED <<registryVars, discovery, answer, asked, served>>

\* Update leaves lastUpdate alone: the next Refresh may replace the user's list at once.
Update(g, servers_) ==
    /\ mu = None
    /\ Go(g, "update", "ok")
    /\ list' = servers_ /\ listed' = None
    /\ UNCHANGED <<registryVars, mu, lastUpdate, index, answer, asked, served, checked>>

-----------------------------------------------------------------------------
RefreshStep(g) ==
    \/ RefreshSkipped(g) \/ BeginRefresh(g)
    \/ ServeGet(g) \/ OtherAnswer(g) \/ RefreshFails(g) \/ RefreshDone(g)

PickStep(g) ==
    GetRandom(g) \/ GetRoundRobin(g) \/ RoundRobinPanics(g) \/ GetFails(g) \/ GetAll(g)

CallerStep(g) == RefreshStep(g) \/ PickStep(g)

\* Time passes on both sides.
Pass ==
    /\ Tick
    /\ \A g \in Callers : pc[g] \in {"get", "answered"} => InTime(asked[g])
    /\ UNCHANGED <<discovery, callers>>

Next ==
    \/ RegistryStep /\ UNCHANGED <<discovery, callers>>
    \/ Pass
    \/ \E g \in Callers :
        CallerStep(g) \/ \E ss \in SUBSET Servers : Update(g, ss)

\* The scheduler runs every goroutine, and a GET ends.
Fairness == \A g \in Callers : WF_vars(CallerStep(g))

Spec == Init /\ [][Next]_vars
FairSpec == Spec /\ Fairness

-----------------------------------------------------------------------------
(* Properties.                                                             *)

Returned == {"ok", "err", "panic"}

TypeOK ==
    /\ RegistryTypeOK
    /\ mu \in Callers \cup {None}
    /\ list \subseteq Servers
    /\ lastUpdate \in Nat \cup {None}
    /\ index \in Nat
    /\ pc \in [Callers -> {"lock", "update", "get", "answered", "pick"} \cup Returned]
    /\ answer \in [Callers -> SUBSET Servers]
    /\ asked \in [Callers -> Nat \cup {None}]
    /\ served \in [Callers -> Nat \cup {None}]
    /\ listed \in Nat \cup {None}
    /\ checked \in [Callers -> Nat \cup {None}]

\* How long a server that has gone can be offered: from its last heartbeat to the moment
\* a Get finds the list recent enough, less than a lease, the age of a list and
\* the time of a GET have passed.  The bound holds although the lease is checked on
\* one machine, the age of the list on another, and the choice is made later
\* under another lock (discovery_gee.go:71).
DeadServersLeave ==
    Timeout # 0 /\ listed # None =>
        \A g \in Callers, a \in list :
            pc[g] = "pick" => heard[a] + Timeout + UpdateTimeout + MaxDelay > checked[g]

\* Many callers that find the list too old ask the registry once: two updates are at
\* least UpdateTimeout apart (discovery_gee.go:31).
RefreshesApart ==
    [][lastUpdate' # lastUpdate /\ lastUpdate # None
        => lastUpdate' >= lastUpdate + UpdateTimeout]_vars

\* Every call returns, if only with an error: no way out of Refresh or Get keeps d.mu,
\* not even a panic (discovery.go:59).
CallsEnd == \A g \in Callers : pc[g] = "lock" ~> pc[g] \in Returned

(***************************************************************************)
(* The inductive invariant.                                                *)
(***************************************************************************)
MutexInv == \A g \in Callers : mu = g <=> pc[g] \in {"get", "answered"}

\* Every server in a list had a lease when the registry made the list.
WasAlive(ss, time) ==
    \A a \in ss : heard[a] # None /\ (Timeout = 0 \/ heard[a] + Timeout > time)

ListInv ==
    /\ listed # None =>
        /\ WasAlive(list, listed)
        /\ lastUpdate # None /\ lastUpdate <= listed + MaxDelay
    /\ lastUpdate # None => lastUpdate <= now
    /\ \A g \in Callers :
        /\ pc[g] \in {"get", "answered"} =>
            /\ ~Fresh
            /\ asked[g] # None /\ asked[g] <= now /\ now <= asked[g] + MaxDelay
        /\ pc[g] = "answered" =>
            /\ served[g] # None /\ asked[g] <= served[g]
            /\ WasAlive(answer[g], served[g])
        /\ pc[g] = "pick" =>
            /\ lastUpdate # None /\ checked[g] # None
            /\ lastUpdate + UpdateTimeout > checked[g]

IInv == RegistryInv /\ TypeOK /\ MutexInv /\ ListInv
==============================================================================
