------------------------------- MODULE HashRing -------------------------------
(***************************************************************************)
(* The consistent hash ring of geeCache/consistenthash, and the HTTPPool   *)
(* of every cache server that asks its ring which server a key belongs to. *)
(*                                                                         *)
(* The hash function is any function: two replicas may get one hash, as    *)
(* they may with crc32.  Map.keys is a sorted slice; what Get finds in it  *)
(* depends on the hashes it holds and not on how often it holds them, so   *)
(* that it is kept as a set, and sort.Search by what it is documented to   *)
(* return.  main.go passes the servers to Set in the order in which Go     *)
(* walks a map: another one in every process.                              *)
(***************************************************************************)
EXTENDS Naturals, Sequences

CONSTANTS
    Servers,    \* the addresses of the cache servers
    Pools,      \* the servers whose HTTPPool is looked at
    Keys,       \* keys of the cache
    Replicas,   \* Map.replicas
    HashSize,   \* the number of values of the hash function
    MaxAdd,     \* bound: servers in one call
    None        \* no peer: "" in Get, nil in PickPeer

Replica == 0 .. Replicas - 1
Hashes == 0 .. HashSize - 1

ASSUME RingAssumption ==
    /\ Pools \subseteq Servers
    /\ Replicas \in Nat \ {0}
    /\ HashSize \in Nat \ {0}
    /\ MaxAdd \in Nat
    /\ None \notin Servers

VARIABLES
    replicaHash,  \* the hash of strconv.Itoa(i) + server
    keyHash,      \* the hash of a key
    keys,         \* Map.keys of every pool, as a set
    hashMap,      \* Map.hashMap of every pool
    added         \* history: the servers in every ring, in the order they were added

vars == <<replicaHash, keyHash, keys, hashMap, added>>

Init ==
    /\ replicaHash \in [Servers -> [Replica -> Hashes]]
    /\ keyHash \in [Keys -> Hashes]
    /\ keys = [p \in Pools |-> {}]
    /\ hashMap = [p \in Pools |-> [h \in {} |-> None]]
    /\ added = [p \in Pools |-> <<>>]

-----------------------------------------------------------------------------
HashesOf(s) == {replicaHash[s][i] : i \in Replica}

In(q) == {q[i] : i \in DOMAIN q}

HashesOfAll(q) == UNION {HashesOf(s) : s \in In(q)}

\* MUTANT: an entry that is there already stays.
FirstWins(old, q) ==
    [h \in DOMAIN old \cup HashesOfAll(q) |->
        IF h \in DOMAIN old THEN old[h] ELSE CHOOSE s \in In(q) : h \in HashesOf(s)]

\* The server of q that assigns hashMap[h] last.
IsLast(q, h, i) ==
    h \in HashesOf(q[i]) /\ \A j \in DOMAIN q : j > i => h \notin HashesOf(q[j])
LastOf(q, h) == q[CHOOSE i \in DOMAIN q : IsLast(q, h, i)]

\* hashMap after the loops of Add.
Assigned(old, q) ==
    [h \in DOMAIN old \cup HashesOfAll(q) |->
        IF h \in HashesOfAll(q) THEN LastOf(q, h) ELSE old[h]]

\* The arguments of one call: every server at most once.
Injective(q) == \A i, j \in DOMAIN q : q[i] = q[j] => i = j
Orders == {q \in UNION {[1 .. n -> Servers] : n \in 1 .. MaxAdd} : Injective(q)}

\* MUTANT: Set adds to the Map there is.
SetKeepsOld(p, q) ==
    /\ keys' = [keys EXCEPT ![p] = @ \cup HashesOfAll(q)]
    /\ hashMap' = [hashMap EXCEPT ![p] = Assigned(@, q)]
    /\ added' = [added EXCEPT ![p] = q]
    /\ UNCHANGED <<replicaHash, keyHash>>

\* HTTPPool.Set: a new Map, and Add.
Set(p, q) ==
    /\ keys' = [keys EXCEPT ![p] = HashesOfAll(q)]
    /\ hashMap' = [hashMap EXCEPT ![p] = Assigned([h \in {} |-> None], q)]
    /\ added' = [added EXCEPT ![p] = q]
    /\ UNCHANGED <<replicaHash, keyHash>>

\* MUTANT: the sorted slice holds the new hashes only.
AddForgets(p, q) ==
    /\ In(q) \cap In(added[p]) = {}
    /\ keys' = [keys EXCEPT ![p] = HashesOfAll(q)]
    /\ hashMap' = [hashMap EXCEPT ![p] = Assigned(@, q)]
    /\ added' = [added EXCEPT ![p] = @ \o q]
    /\ UNCHANGED <<replicaHash, keyHash>>

\* Map.Add to a ring that is in use.
Add(p, q) ==
    /\ In(q) \cap In(added[p]) = {}
    /\ keys' = [keys EXCEPT ![p] = @ \cup HashesOfAll(q)]
    /\ hashMap' = [hashMap EXCEPT ![p] = Assigned(@, q)]
    /\ added' = [added EXCEPT ![p] = @ \o q]
    /\ UNCHANGED <<replicaHash, keyHash>>

Next == \E p \in Pools, q \in Orders : Set(p, q) \/ Add(p, q)

Spec == Init /\ [][Next]_vars

-----------------------------------------------------------------------------
(* Get and PickPeer.                                                       *)

Least(S) == CHOOSE x \in S : \A y \in S : x <= y

\* MUTANT: a hash equal to the key's is passed over.
FoundAbove(ks, h) ==
    LET above == {x \in ks : x > h} IN IF above # {} THEN Least(above) ELSE Least(ks)

\* keys[idx % len(keys)] for the idx of sort.Search: the first hash that is not
\* below h, or the first of all.
Found(ks, h) ==
    LET above == {x \in ks : x >= h} IN IF above # {} THEN Least(above) ELSE Least(ks)

Get(p, k) ==
    IF keys[p] = {} THEN None ELSE hashMap[p][Found(keys[p], keyHash[k])]

PickPeer(p, k) == IF Get(p, k) = p THEN None ELSE Get(p, k)

-----------------------------------------------------------------------------
(* Properties.                                                             *)

\* The way up the ring from a key to a hash, and to the nearest replica of a server.
Up(k, h) == IF h >= keyHash[k] THEN h - keyHash[k] ELSE h + HashSize - keyHash[k]
Distance(s, k) == Least({Up(k, h) : h \in HashesOf(s)})

\* A key belongs to the server whose replica comes next on the ring, over its top
\* if need be; of servers whose replicas coincide there, to the one added last.
NearestOwns ==
    \A p \in Pools, k \in Keys :
        IF added[p] = <<>> THEN Get(p, k) = None
        ELSE \E i \in DOMAIN added[p] :
              /\ Get(p, k) = added[p][i]
              /\ \A j \in DOMAIN added[p] :
                   \/ Distance(added[p][i], k) < Distance(added[p][j], k)
                   \/ Distance(added[p][i], k) = Distance(added[p][j], k) /\ j <= i

\* Two replicas that p's ring keeps under one entry.
Collision(p, h) ==
    \E s, t \in In(added[p]) : s # t /\ h \in HashesOf(s) \cap HashesOf(t)

\* Servers that know the same servers agree on who owns a key, in whatever order
\* they learnt of them (the one that is asked then loads the key itself and asks
\* nobody), unless the replica the key leads to coincides with another server's.
SameServersSameOwner ==
    \A p, o \in Pools, k \in Keys :
        /\ In(added[p]) = In(added[o]) /\ keys[p] # {}
        /\ ~Collision(p, Found(keys[p], keyHash[k]))
        => /\ Get(p, k) = Get(o, k)
           /\ PickPeer(p, k) = o => PickPeer(o, k) = None

\* r is q and more servers after it.
Grows(q, r) == DOMAIN q \subseteq DOMAIN r /\ \A i \in DOMAIN q : r[i] = q[i]

\* A server that joins a ring takes keys, and no key moves between the others.
KeysMoveToNewServersOnly ==
    [][\A p \in Pools, k \in Keys :
         added[p] # <<>> /\ Grows(added[p], added'[p])
         => Get(p, k)' = Get(p, k) \/ Get(p, k)' \notin In(added[p])]_vars

\* A Map with the keys ks and the hashMap map is what the servers of q make it.
RingOf(ks, map, q) ==
    /\ ks = HashesOfAll(q)
    /\ DOMAIN map = ks
    /\ \A h \in ks : \E i \in DOMAIN q : map[h] = q[i] /\ IsLast(q, h, i)

\* The inductive invariant: that goes for every ring.
RingInv ==
    /\ replicaHash \in [Servers -> [Replica -> Hashes]]
    /\ keyHash \in [Keys -> Hashes]
    /\ added \in [Pools -> Seq(Servers)]
    /\ DOMAIN keys = Pools /\ DOMAIN hashMap = Pools
    /\ \A p \in Pools :
        /\ RingOf(keys[p], hashMap[p], added[p])
        /\ Injective(added[p])
===============================================================================
