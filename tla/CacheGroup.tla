----------------------------- MODULE CacheGroup -----------------------------
(***************************************************************************)
(* The distributed cache of geeCache: on every node a Group with its main  *)
(* cache and its singleflight.Group, and the HTTPPool that asks the node a *)
(* key belongs to.                                                         *)
(*                                                                         *)
(* A request t of a user is served by a goroutine <<t, 0>> on the node it  *)
(* was sent to; when this node asks the key's owner, the HTTP server there *)
(* serves it in a goroutine <<t, 1>>.  The key it is asked for need not be *)
(* the same: the client escapes it for a query and puts it into a path,    *)
(* where a space arrives as '+' and every other character as itself.  The  *)
(* node asked may not own that key, and then asks a third, in <<t, 2>>.    *)
(* Every critical section is a step.                                       *)
(*                                                                         *)
(* singleflight.Do locks g.mu a second time on the path that creates a     *)
(* call (line 28).  Relock = TRUE is that code.  Relock = FALSE leaves     *)
(* this Lock out, to check what the line keeps out of reach.               *)
(***************************************************************************)
EXTENDS Naturals, FiniteSets

CONSTANTS
    Nodes,        \* the cache servers
    Keys,         \* keys of the one group
    Present,      \* the keys the data source has
    Owner,        \* the node the hash ring gives for a key, the same on every node
    Escaped,      \* the key that the node asked reads from the path for a key
    Requests,     \* requests of users, each for one key on one node
    Relock,       \* singleflight.go:28 is executed
    None          \* nil

ASSUME GroupAssumption ==
    /\ Present \subseteq Keys
    /\ Owner \in [Keys -> Nodes]
    /\ Escaped \in [Keys -> Keys]
    /\ \A k \in Keys : Escaped[Escaped[k]] = Escaped[k]
    /\ Relock \in BOOLEAN
    /\ None \notin Requests \X (0..2)
    /\ \A k \in Keys : k \notin {"none", "empty", "err"}

Goroutines == Requests \X (0..2)

VARIABLES
    registered, \* the nodes whose Group has its peers
    up,         \* the nodes whose HTTP server answers
    main,       \* the keys in mainCache of every node
    mu,         \* the holder of the singleflight mutex of every node, or None
    m,          \* its map: the goroutine whose call is in flight for a key, or None
    pc,         \* the point a goroutine has reached
    key,        \* the key a user asks for
    home,       \* the node a user asks
    leader,     \* the goroutine whose call a goroutine waits for, or None
    val         \* call.val and call.err: the key whose value it is, "empty", "err" or "none"

node == <<registered, up>>
flight == <<mu, m>>
request == <<key, home>>
vars == <<node, main, flight, pc, request, leader, val>>

Init ==
    /\ registered = {} /\ up = {}
    /\ main = [n \in Nodes |-> {}]
    /\ mu = [n \in Nodes |-> None]
    /\ m = [n \in Nodes |-> [k \in Keys |-> None]]
    /\ pc = [g \in Goroutines |-> "idle"]
    /\ key \in [Requests -> Keys]
    /\ home \in [Requests -> Nodes]
    /\ leader = [g \in Goroutines |-> None]
    /\ val = [g \in Goroutines |-> "none"]

\* The key a goroutine serves, and the node it runs on.
KeyOf(g) == IF g[2] = 0 THEN key[g[1]] ELSE Escaped[key[g[1]]]
At(g) ==
    CASE g[2] = 0 -> home[g[1]]
      [] g[2] = 1 -> Owner[key[g[1]]]
      [] OTHER    -> Owner[Escaped[key[g[1]]]]

Go(g, from, to) == pc[g] = from /\ pc' = [pc EXCEPT ![g] = to]

\* The goroutine that serves, on the owner of its key, what g asks for.
Remote(g) == <<g[1], g[2] + 1>>

-----------------------------------------------------------------------------
(* startCacheServer and the machines.                                      *)

\* Set, RegisterPeerPicker; the API server may be serving requests already.
Register(n) ==
    /\ n \notin registered
    /\ registered' = registered \cup {n}
    /\ UNCHANGED <<up, main, flight, pc, request, leader, val>>

Listen(n) ==
    /\ n \in registered \ up
    /\ up' = up \cup {n}
    /\ UNCHANGED <<registered, main, flight, pc, request, leader, val>>

\* The node becomes unreachable; what it is doing is lost to those who asked.
Unreachable(n) ==
    /\ n \in up
    /\ up' = up \ {n}
    /\ UNCHANGED <<registered, main, flight, pc, request, leader, val>>

-----------------------------------------------------------------------------
(* Group.Get.                                                              *)

\* A user's request on the node of its choice.
Arrive(t) ==
    /\ Go(<<t, 0>>, "idle", "get")
    /\ UNCHANGED <<node, main, flight, request, leader, val>>

CacheHit(g) ==
    /\ KeyOf(g) \in main[At(g)]
    /\ Go(g, "get", "returned")
    /\ val' = [val EXCEPT ![g] = KeyOf(g)]
    /\ UNCHANGED <<node, main, flight, request, leader>>

CacheMiss(g) ==
    /\ KeyOf(g) \notin main[At(g)]
    /\ Go(g, "get", "do")
    /\ UNCHANGED <<node, main, flight, request, leader, val>>

-----------------------------------------------------------------------------
(* singleflight.Do.                                                        *)

\* A call for the key is in flight: wait for it.
Join(g) ==
    /\ mu[At(g)] = None
    /\ m[At(g)][KeyOf(g)] # None
    /\ Go(g, "do", "wait")
    /\ leader' = [leader EXCEPT ![g] = m[At(g)][KeyOf(g)]]
    /\ UNCHANGED <<node, main, flight, request, val>>

\* MUTANT: the map is not consulted.
LeadAlways(g) ==
    /\ mu[At(g)] = None
    /\ Go(g, "do", "create")
    /\ mu' = [mu EXCEPT ![At(g)] = g]
    /\ UNCHANGED <<node, main, m, request, leader, val>>

\* No call is in flight: keep mu locked and create one.
Lead(g) ==
    /\ mu[At(g)] = None
    /\ m[At(g)][KeyOf(g)] = None
    /\ Go(g, "do", "create")
    /\ mu' = [mu EXCEPT ![At(g)] = g]
    /\ UNCHANGED <<node, main, m, request, leader, val>>

\* The second Lock, which waits for the holder of mu, and so for g itself.
Create(g) ==
    /\ Go(g, "create", "load")
    /\ Relock => mu[At(g)] = None
    /\ m' = [m EXCEPT ![At(g)][KeyOf(g)] = g]
    /\ mu' = [mu EXCEPT ![At(g)] = None]
    /\ UNCHANGED <<node, main, request, leader, val>>

\* c.val, c.err and wg.Done(): the result is visible to the waiters.
Publish(g, result) == val' = [val EXCEPT ![g] = result]

\* MUTANT: the entry stays in the map.
ForgetNothing(g) ==
    /\ mu[At(g)] = None
    /\ Go(g, "forget", "returned")
    /\ UNCHANGED <<node, main, flight, request, leader, val>>

\* delete(g.m, key) under g.mu, after which Do and Get return.
Forget(g) ==
    /\ mu[At(g)] = None
    /\ Go(g, "forget", "returned")
    /\ m' = [m EXCEPT ![At(g)][KeyOf(g)] = None]
    /\ UNCHANGED <<node, main, mu, request, leader, val>>

\* MUTANT: a waiter looks at the call before wg.Wait() lets it.
WaitLess(g) ==
    /\ Go(g, "wait", "returned")
    /\ val' = [val EXCEPT ![g] = val[leader[g]]]
    /\ UNCHANGED <<node, main, flight, request, leader>>

\* wg.Wait() returns.
Share(g) ==
    /\ leader[g] # None /\ val[leader[g]] # "none"
    /\ Go(g, "wait", "returned")
    /\ val' = [val EXCEPT ![g] = val[leader[g]]]
    /\ UNCHANGED <<node, main, flight, request, leader>>

-----------------------------------------------------------------------------
(* The function load passes to Do.                                         *)

\* MUTANT: the node asks the owner even if it is the owner.
PicksItself(g) == At(g) \in registered /\ g[2] < 2

\* PickPeer returns a peer.
PicksPeer(g) == At(g) \in registered /\ Owner[KeyOf(g)] # At(g)

\* http.Get reaches the owner, whose server starts a goroutine for Escaped[KeyOf(g)].
AskPeer(g) ==
    /\ PicksPeer(g) /\ Owner[KeyOf(g)] \in up
    /\ pc[g] = "load" /\ pc[Remote(g)] = "idle"
    /\ pc' = [pc EXCEPT ![g] = "ask", ![Remote(g)] = "get"]
    /\ UNCHANGED <<node, main, flight, request, leader, val>>

\* The peer's ServeHTTP drops the error of Get: it answers 200 and no value.
Served(v) == IF v = "err" THEN "empty" ELSE v

PeerAnswers(g) ==
    /\ pc[g] = "ask" /\ pc[Remote(g)] = "returned" /\ Owner[KeyOf(g)] \in up
    /\ Go(g, "ask", "forget")
    /\ Publish(g, Served(val[Remote(g)]))
    /\ UNCHANGED <<node, main, flight, request, leader>>

\* The answer is cut short: Get returns an error and load falls back.
PeerAnswerBroken(g) ==
    /\ pc[g] = "ask" /\ pc[Remote(g)] = "returned"
    /\ Go(g, "ask", "local")
    /\ UNCHANGED <<node, main, flight, request, leader, val>>

\* http.Get fails, because the node asked is not there or because its goroutine
\* panicked: res is nil and the deferred res.Body.Close() panics.  net/http recovers
\* the goroutine; its call stays in the map and is never done.
PeerFails(g) ==
    /\ \/ PicksPeer(g) /\ Owner[KeyOf(g)] \notin up /\ Go(g, "load", "panicked")
       \/ Owner[KeyOf(g)] \notin up /\ Go(g, "ask", "panicked")
       \/ Owner[KeyOf(g)] \notin up /\ Go(g, "hung", "panicked")
       \/ pc[g] = "ask" /\ pc[Remote(g)] = "panicked" /\ Go(g, "ask", "panicked")
    /\ UNCHANGED <<node, main, flight, request, leader, val>>

\* The node asked panicked and the connection was not new: net/http sends a GET again.
\* It finds the key in the cache, or waits for the call the panic left in the map.
PeerAskedAgain(g) ==
    /\ pc[g] = "ask" /\ pc[Remote(g)] = "panicked" /\ Owner[KeyOf(g)] \in up
    /\ IF KeyOf(Remote(g)) \in main[At(Remote(g))]
       THEN Go(g, "ask", "forget") /\ Publish(g, KeyOf(Remote(g)))
       ELSE Go(g, "ask", "hung") /\ UNCHANGED val
    /\ UNCHANGED <<node, main, flight, request, leader>>

LoadHere(g) ==
    /\ ~PicksPeer(g)
    /\ Go(g, "load", "local")
    /\ UNCHANGED <<node, main, flight, request, leader, val>>

\* MUTANT: the error of the getter is not looked at.
GetLocallyUnchecked(g) ==
    /\ Go(g, "local", "forget")
    /\ Publish(g, IF KeyOf(g) \in Present THEN KeyOf(g) ELSE "empty")
    /\ \E evicted \in SUBSET (main[At(g)] \cup {KeyOf(g)}) :
        /\ Cardinality(evicted) <= 1
        /\ main' = [main EXCEPT ![At(g)] = (@ \cup {KeyOf(g)}) \ evicted]
    /\ UNCHANGED <<node, flight, request, leader>>

\* getLocally: the getter, and populateCache, which may evict an entry.
GetLocally(g) ==
    /\ Go(g, "local", "forget")
    /\ IF KeyOf(g) \in Present
       THEN /\ Publish(g, KeyOf(g))
            /\ \E evicted \in SUBSET (main[At(g)] \cup {KeyOf(g)}) :
                /\ Cardinality(evicted) <= 1
                /\ main' = [main EXCEPT ![At(g)] = (@ \cup {KeyOf(g)}) \ evicted]
       ELSE /\ Publish(g, "err")
            /\ UNCHANGED main
    /\ UNCHANGED <<node, flight, request, leader>>

-----------------------------------------------------------------------------
Step(g) ==
    \/ CacheHit(g) \/ CacheMiss(g)
    \/ Join(g) \/ Lead(g) \/ Create(g) \/ Forget(g) \/ Share(g)
    \/ AskPeer(g) \/ PeerAnswers(g) \/ PeerAnswerBroken(g) \/ PeerFails(g)
    \/ PeerAskedAgain(g) \/ LoadHere(g) \/ GetLocally(g)

Next ==
    \/ \E n \in Nodes : Register(n) \/ Listen(n) \/ Unreachable(n)
    \/ \E t \in Requests : Arrive(t)
    \/ \E g \in Goroutines : Step(g)

Spec == Init /\ [][Next]_vars

\* Every goroutine that can run does.  Nodes may stay down, users away.
Fairness == \A g \in Goroutines : WF_vars(Step(g))

FairSpec == Spec /\ Fairness

-----------------------------------------------------------------------------
(* Properties.                                                             *)

TypeOK ==
    /\ registered \subseteq Nodes /\ up \subseteq registered
    /\ main \in [Nodes -> SUBSET Keys]
    /\ mu \in [Nodes -> Goroutines \cup {None}]
    /\ m \in [Nodes -> [Keys -> Goroutines \cup {None}]]
    /\ pc \in [Goroutines -> {"idle", "get", "do", "create", "wait", "load", "ask", "local",
                             "forget", "returned", "panicked", "hung"}]
    /\ key \in [Requests -> Keys]
    /\ home \in [Requests -> Nodes]
    /\ leader \in [Goroutines -> Goroutines \cup {None}]
    /\ val \in [Goroutines -> Keys \cup {"none", "empty", "err"}]

\* The goroutine runs the function that load passes to Do.
Loading(g) == pc[g] \in {"load", "ask", "local", "hung"}

\* Its call is in the map.
Leading(g) == Loading(g) \/ pc[g] \in {"forget", "panicked"}

\* Of all the requests for a key on a node one at a time asks the peer or the data
\* source (singleflight.go:17).
OneLoader ==
    \A g, h \in Goroutines :
        /\ At(g) = At(h) /\ KeyOf(g) = KeyOf(h)
        /\ Loading(g) /\ Loading(h)
        => g = h

\* A call is in the map only while its goroutine works on it, or for ever when
\* that goroutine panicked or waits for a node that panicked (singleflight.go:37).
CallsForgotten ==
    \A n \in Nodes, k \in Keys :
        m[n][k] # None =>
            /\ At(m[n][k]) = n /\ KeyOf(m[n][k]) = k
            /\ Leading(m[n][k])

\* What the data source says of a key.
Source(k) == IF k \in Present THEN k ELSE "err"

\* On the owner of a key the result is the source's.  Another node may instead pass
\* on what the owner said of the escaped key, where an error is an empty value.
Right(g) ==
    \/ val[g] = Source(KeyOf(g))
    \/ Owner[KeyOf(g)] # At(g) /\ val[g] = Served(Source(Escaped[KeyOf(g)]))

\* Whoever gets a result, from a cache, a load, another request's load or another
\* node, gets one the source stands for.  For a key the source has and that escaping
\* leaves alone it is its value, wherever it is asked for; for a key with a space
\* only its owner is sure to give it: any other node may return the value of the key
\* with '+' in its place, or none (http.go:78 reads what http.go:113 escaped).
RightAnswer == \A g \in Goroutines : pc[g] = "returned" => Right(g)

\* Nothing is cached for a key the source does not have: not the error, and not
\* the empty value a peer makes of it.
OnlyRealKeysCached == \A n \in Nodes : main[n] \subseteq Present

(***************************************************************************)
(* The inductive invariant behind the invariants above, for both values of *)
(* Relock.  A goroutine on its way through load is the one whose call is   *)
(* in the map; a goroutine that waits does so for a call of its own key    *)
(* and node; a result exists only once it is right.                        *)
(***************************************************************************)
FlightInv ==
    /\ \A n \in Nodes : mu[n] # None => At(mu[n]) = n /\ pc[mu[n]] = "create"
    /\ \A g \in Goroutines :
        /\ Leading(g) => m[At(g)][KeyOf(g)] = g
        /\ pc[g] = "create" => mu[At(g)] = g /\ m[At(g)][KeyOf(g)] = None
        /\ pc[g] = "wait" => /\ leader[g] # None
                             /\ At(leader[g]) = At(g) /\ KeyOf(leader[g]) = KeyOf(g)

AnswerInv ==
    \A g \in Goroutines :
        /\ pc[g] \in {"ask", "hung"} => Owner[KeyOf(g)] # At(g)
        /\ pc[g] \in {"forget", "returned"} => val[g] # "none"
        /\ val[g] # "none" => pc[g] \in {"forget", "returned"} /\ Right(g)

IInv == TypeOK /\ FlightInv /\ CallsForgotten /\ AnswerInv /\ OnlyRealKeysCached

\* Every Get returns, unless a goroutine panicked on its way: on its own node and key,
\* or on those of a node that is asked because of it.
GetReturns ==
    \A g \in Goroutines :
        pc[g] = "get" ~>
            \/ pc[g] = "returned"
            \/ \E h \in Goroutines, i \in g[2]..2 :
                 /\ pc[h] = "panicked"
                 /\ KeyOf(h) = KeyOf(<<g[1], i>>) /\ At(h) = At(<<g[1], i>>)
==============================================================================
