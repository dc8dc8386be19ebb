---------------------------- MODULE HashRingProofs ----------------------------
(***************************************************************************)
(* The hash ring for every hash function, every number of servers and      *)
(* replicas: whom a key belongs to, and that servers agree on it.          *)
(***************************************************************************)
EXTENDS HashRing, WellFoundedInduction, TLAPS

\* A set of natural numbers has a least element; Least returns it.
LEMMA LeastExists ==
    ASSUME NEW T, T \subseteq Nat, T # {}
    PROVE  Least(T) \in T /\ \A y \in T : Least(T) <= y
<1>1. PICK x \in T : \A y \in T : ~(<<y, x>> \in OpToRel(<, Nat))
  BY NatLessThanWellFounded, WFMin
<1>2. \A y \in T : ~(y < x)
  BY <1>1 DEF OpToRel
<1>3. \E z \in T : \A y \in T : z <= y
  BY <1>2
<1> QED BY <1>3 DEF Least

\* The least element is the only one with its property.
LEMMA LeastIs ==
    ASSUME NEW T, T \subseteq Nat, NEW x \in T, \A y \in T : x <= y
    PROVE  Least(T) = x
<1>1. \A z \in T : (\A y \in T : z <= y) => z = x
  OBVIOUS
<1>2. Least(T) \in T /\ \A y \in T : Least(T) <= y
  BY LeastExists
<1> QED BY <1>1, <1>2

\* Of the servers that assign an entry, one is the last.
LEMMA LastExists ==
    ASSUME NEW q \in Seq(Servers), NEW h, h \in HashesOfAll(q)
    PROVE  \E i \in DOMAIN q : IsLast(q, h, i)
<1>. DEFINE Users == {i \in DOMAIN q : h \in HashesOf(q[i])}
            Left == {Len(q) - i : i \in Users}
<1>1. Users # {}
  BY DEF HashesOfAll, In
<1>2. Left \subseteq Nat /\ Left # {}
  BY <1>1
<1>3. Least(Left) \in Left /\ \A y \in Left : Least(Left) <= y
  BY <1>2, LeastExists
<1>4. PICK i \in Users : Least(Left) = Len(q) - i
  BY <1>3
<1>5. ASSUME NEW j \in Users PROVE j <= i
  <2>1. Len(q) - j \in Left /\ i \in Nat /\ j \in Nat /\ Len(q) \in Nat
    OBVIOUS
  <2>2. Len(q) - i <= Len(q) - j
    BY <1>3, <1>4, <2>1
  <2> QED BY <2>1, <2>2
<1> QED BY <1>5 DEF IsLast

\* LastOf returns the server of the last assignment, and no other.
LEMMA LastIs ==
    ASSUME NEW q \in Seq(Servers), NEW h, NEW i \in DOMAIN q, IsLast(q, h, i)
    PROVE  LastOf(q, h) = q[i]
<1>1. \A j \in DOMAIN q : IsLast(q, h, j) => j = i
  BY DEF IsLast
<1> QED BY <1>1 DEF LastOf

LEMMA LastOwns ==
    ASSUME NEW q \in Seq(Servers), NEW h, h \in HashesOfAll(q)
    PROVE  LastOf(q, h) \in In(q) /\ h \in HashesOf(LastOf(q, h))
BY LastExists, LastIs DEF IsLast, In

\* What Get finds among the hashes is one of them, the first on the way up.
LEMMA FoundIsNearest ==
    ASSUME NEW ks, ks \subseteq Hashes, ks # {}, NEW k \in Keys, keyHash[k] \in Hashes
    PROVE  /\ Found(ks, keyHash[k]) \in ks
           /\ \A y \in ks : Up(k, Found(ks, keyHash[k])) <= Up(k, y)
           /\ \A y \in ks : Up(k, Found(ks, keyHash[k])) = Up(k, y)
                              => y = Found(ks, keyHash[k])
<1>. DEFINE h == keyHash[k]
            above == {x \in ks : x >= h}
            x == Found(ks, h)
<1>0. /\ HashSize \in Nat /\ h \in Nat /\ h < HashSize
      /\ \A y \in ks : y \in Nat /\ y < HashSize
  BY RingAssumption DEF Hashes
<1>1. CASE above # {}
  <2>1. x \in above /\ \A y \in above : x <= y
    BY <1>0, <1>1, LeastExists DEF Found
  <2>2. x \in ks /\ x \in Nat /\ x >= h /\ x < HashSize
    BY <1>0, <2>1
  <2>3. ASSUME NEW y \in ks
        PROVE  Up(k, x) <= Up(k, y) /\ (Up(k, x) = Up(k, y) => y = x)
    <3>1. y \in Nat /\ y < HashSize /\ (y >= h => x <= y)
      BY <1>0, <2>1
    <3> HIDE DEF x, h, above
    <3> QED BY <1>0, <2>2, <3>1 DEF Up, h
  <2> QED BY <2>2, <2>3
<1>2. CASE above = {}
  <2>1. x \in ks /\ \A y \in ks : x <= y
    BY <1>0, <1>2, LeastExists DEF Found
  <2>2. \A y \in ks : y < h
    BY <1>0, <1>2
  <2>3. ASSUME NEW y \in ks
        PROVE  Up(k, x) <= Up(k, y) /\ (Up(k, x) = Up(k, y) => y = x)
    <3>1. y \in Nat /\ y < h /\ x \in Nat /\ x < h /\ x <= y
      BY <1>0, <2>1, <2>2
    <3> HIDE DEF x, h, above
    <3> QED BY <1>0, <3>1 DEF Up, h
  <2> QED BY <2>1, <2>3
<1> QED BY <1>1, <1>2

-----------------------------------------------------------------------------
\* Set and Add leave a ring that depends on the servers it was given only.
LEMMA FillsRing ==
    ASSUME NEW q \in Seq(Servers), NEW r \in Seq(Servers), NEW old,
           NEW ks, RingOf(ks, old, r)
    PROVE  RingOf(ks \cup HashesOfAll(q), Assigned(old, q), r \o q)
<1>1. In(r \o q) = In(r) \cup In(q)
  <2>1. \A i \in DOMAIN r : (r \o q)[i] = r[i] /\ i \in DOMAIN (r \o q)
    OBVIOUS
  <2>2. \A i \in DOMAIN q : (r \o q)[Len(r) + i] = q[i] /\ Len(r) + i \in DOMAIN (r \o q)
    OBVIOUS
  <2>3. \A i \in DOMAIN (r \o q) : i \in DOMAIN r \/ i - Len(r) \in DOMAIN q
    OBVIOUS
  <2>4. \A i \in DOMAIN (r \o q) : (r \o q)[i] \in In(r) \cup In(q)
    BY <2>3 DEF In
  <2>5. \A s \in In(r) \cup In(q) : s \in In(r \o q)
    BY <2>1, <2>2 DEF In
  <2> QED BY <2>4, <2>5 DEF In
<1>2. HashesOfAll(r \o q) = HashesOfAll(r) \cup HashesOfAll(q)
  BY <1>1 DEF HashesOfAll
<1>. DEFINE LastAssigned(s, h, v) == \E i \in DOMAIN s : v = s[i] /\ IsLast(s, h, i)
<1>3. ASSUME NEW h \in HashesOfAll(q) PROVE LastAssigned(r \o q, h, Assigned(old, q)[h])
  <2>1. PICK i \in DOMAIN q : IsLast(q, h, i)
    BY <1>3, LastExists
  <2>2. /\ Len(r) + i \in DOMAIN (r \o q)
        /\ (r \o q)[Len(r) + i] = q[i]
        /\ \A j \in DOMAIN (r \o q) : j > Len(r) + i =>
             j - Len(r) \in DOMAIN q /\ j - Len(r) > i /\ (r \o q)[j] = q[j - Len(r)]
    OBVIOUS
  <2>3. IsLast(r \o q, h, Len(r) + i)
    BY <2>1, <2>2 DEF IsLast
  <2>4. Assigned(old, q)[h] = q[i]
    BY <1>3, <2>1, LastIs DEF Assigned
  <2> QED BY <2>2, <2>3, <2>4
<1>4. ASSUME NEW h \in HashesOfAll(r), h \notin HashesOfAll(q)
      PROVE  LastAssigned(r \o q, h, Assigned(old, q)[h])
  <2>1. PICK i \in DOMAIN r : old[h] = r[i] /\ IsLast(r, h, i)
    BY <1>4 DEF RingOf
  <2>2. /\ i \in DOMAIN (r \o q) /\ (r \o q)[i] = r[i]
        /\ \A j \in DOMAIN (r \o q) :
             \/ j \in DOMAIN r /\ (r \o q)[j] = r[j]
             \/ j - Len(r) \in DOMAIN q /\ (r \o q)[j] = q[j - Len(r)]
    OBVIOUS
  <2>3. \A j \in DOMAIN q : h \notin HashesOf(q[j])
    BY <1>4 DEF HashesOfAll, In
  <2>4. IsLast(r \o q, h, i)
    BY <2>1, <2>2, <2>3 DEF IsLast
  <2>5. Assigned(old, q)[h] = old[h]
    BY <1>4 DEF Assigned, RingOf
  <2> QED BY <2>1, <2>2, <2>4, <2>5
<1>5. ks = HashesOfAll(r) /\ DOMAIN Assigned(old, q) = ks \cup HashesOfAll(q)
  BY DEF RingOf, Assigned
<1> QED BY <1>2, <1>3, <1>4, <1>5 DEF RingOf

\* A ring stays what its servers make it as long as the hash function is the same.
LEMMA RingKept ==
    ASSUME replicaHash' = replicaHash, NEW ks, NEW map, NEW q
    PROVE  RingOf(ks, map, q)' <=> RingOf(ks, map, q)
<1>1. \A s : HashesOf(s)' = HashesOf(s)
  BY DEF HashesOf
<1>2. HashesOfAll(q)' = HashesOfAll(q)
  BY <1>1 DEF HashesOfAll, In
<1>3. \A h, i : IsLast(q, h, i)' = IsLast(q, h, i)
  BY <1>1 DEF IsLast
<1> QED BY <1>2, <1>3 DEF RingOf

\* The arguments of Set and Add are sequences of servers.
LEMMA OrdersAreSequences == \A q \in Orders : q \in Seq(Servers) /\ Injective(q)
BY RingAssumption DEF Orders

\* No server is added twice.
LEMMA JoinInjective ==
    ASSUME NEW q \in Seq(Servers), NEW r \in Seq(Servers),
           Injective(q), Injective(r), In(q) \cap In(r) = {}
    PROVE  Injective(r \o q)
<1>1. \A i \in DOMAIN (r \o q) :
        \/ i \in DOMAIN r /\ (r \o q)[i] = r[i]
        \/ i - Len(r) \in DOMAIN q /\ (r \o q)[i] = q[i - Len(r)]
  OBVIOUS
<1>2. \A i \in DOMAIN r, j \in DOMAIN q : r[i] # q[j]
  BY DEF In
<1>3. SUFFICES ASSUME NEW i \in DOMAIN (r \o q), NEW j \in DOMAIN (r \o q),
                      (r \o q)[i] = (r \o q)[j]
               PROVE  i = j
  BY DEF Injective
<1>4. i \in Nat /\ j \in Nat /\ Len(r) \in Nat
  OBVIOUS
<1> QED BY <1>1, <1>2, <1>3, <1>4 DEF Injective

\* In every reachable state a ring is a function of the servers it was given, in
\* their order: RingInv.
THEOREM RingIsItsServers == Spec => []RingInv
<1>1. Init => RingInv
  <2>1. SUFFICES ASSUME Init PROVE RingInv
    OBVIOUS
  <2>2. \A p \in Pools : HashesOfAll(added[p]) = {}
    BY <2>1 DEF Init, HashesOfAll, In
  <2>3. added \in [Pools -> Seq(Servers)]
    BY <2>1 DEF Init
  <2> QED BY <2>1, <2>2, <2>3 DEF Init, RingInv, RingOf, Injective
<1>2. ASSUME RingInv, NEW p \in Pools, NEW q \in Orders, Set(p, q) \/ Add(p, q)
      PROVE  RingInv'
  <2>1. q \in Seq(Servers) /\ Injective(q) /\ added[p] \in Seq(Servers)
    BY OrdersAreSequences, <1>2 DEF RingInv
  <2>2. RingOf({}, [h \in {} |-> None], <<>>) /\ <<>> \o q = q
    BY <2>1 DEF RingOf, HashesOfAll, In
  <2>3. PICK ks, map, r :
          /\ r \in Seq(Servers)
          /\ keys' = [keys EXCEPT ![p] = ks] /\ hashMap' = [hashMap EXCEPT ![p] = map]
          /\ added' = [added EXCEPT ![p] = r] /\ RingOf(ks, map, r) /\ Injective(r)
    <3>1. CASE Set(p, q)
      <4>1. RingOf({} \cup HashesOfAll(q), Assigned([h \in {} |-> None], q), <<>> \o q)
        BY <2>1, <2>2, FillsRing, <<>> \in Seq(Servers)
      <4>2. {} \cup HashesOfAll(q) = HashesOfAll(q)
        OBVIOUS
      <4> QED BY <2>1, <2>2, <3>1, <4>1, <4>2 DEF Set
    <3>2. CASE Add(p, q)
      <4>1. RingOf(keys[p] \cup HashesOfAll(q), Assigned(hashMap[p], q), added[p] \o q)
        BY <1>2, <2>1, FillsRing DEF RingInv
      <4>2. added[p] \o q \in Seq(Servers)
        BY <2>1
      <4>3. Injective(added[p] \o q)
        BY <1>2, <2>1, <3>2, JoinInjective DEF Add, RingInv
      <4> QED BY <2>1, <3>2, <4>1, <4>2, <4>3 DEF Add
    <3> QED BY <1>2, <3>1, <3>2
  <2>4. UNCHANGED <<replicaHash, keyHash>>
    BY <1>2 DEF Set, Add
  <2>5. ASSUME NEW o \in Pools PROVE RingOf(keys[o], hashMap[o], added[o])'
    <3>1. PICK ks2, map2, r2 : ks2 = keys'[o] /\ map2 = hashMap'[o] /\ r2 = added'[o]
      OBVIOUS
    <3>2. RingOf(ks2, map2, r2)
      BY <1>2, <2>3, <3>1 DEF RingInv
    <3>3. RingOf(ks2, map2, r2)'
      BY <2>4, <3>2, RingKept
    <3> QED BY <3>1, <3>3
  <2>6. \A o \in Pools : Injective(added'[o])
    BY <1>2, <2>3 DEF RingInv
  <2> QED BY <1>2, <2>3, <2>4, <2>5, <2>6 DEF RingInv, Injective
<1>3. RingInv /\ UNCHANGED vars => RingInv'
  <2>1. SUFFICES ASSUME RingInv, UNCHANGED vars, NEW p \in Pools
                 PROVE  RingOf(keys[p], hashMap[p], added[p])'
    BY DEF RingInv, vars, Injective
  <2>2. PICK ks, map, r : ks = keys[p] /\ map = hashMap[p] /\ r = added[p]
    OBVIOUS
  <2>3. RingOf(ks, map, r)'
    BY <2>1, <2>2, RingKept DEF RingInv, vars
  <2> QED BY <2>1, <2>2, <2>3 DEF vars
<1>4. RingInv /\ [Next]_vars => RingInv'
  BY <1>2, <1>3 DEF Next
<1> QED BY <1>1, <1>4, PTL DEF Spec

-----------------------------------------------------------------------------
\* The hash Get finds is a key of the ring, and its entry is the server of q that
\* was added last among those with a replica there.
LEMMA GetIsLast ==
    ASSUME RingInv, NEW p \in Pools, NEW k \in Keys, keys[p] # {}
    PROVE  /\ keys[p] \subseteq Hashes /\ keyHash[k] \in Hashes
           /\ Found(keys[p], keyHash[k]) \in keys[p]
           /\ \E i \in DOMAIN added[p] :
                Get(p, k) = added[p][i] /\ IsLast(added[p], Found(keys[p], keyHash[k]), i)
<1>1. keys[p] \subseteq Hashes /\ keyHash[k] \in Hashes
  <2>1. \A s \in In(added[p]) : s \in Servers
    BY DEF In, RingInv
  <2> QED BY <2>1 DEF RingInv, RingOf, HashesOfAll, HashesOf
<1>2. Found(keys[p], keyHash[k]) \in keys[p]
  BY <1>1, FoundIsNearest
<1> QED BY <1>1, <1>2 DEF RingInv, RingOf, Get

\* Servers that know the same servers agree on the owner of a key and do not send
\* each other's requests around, as long as no two replicas coincide there.
THEOREM ServersAgree == Spec => []SameServersSameOwner
<1>1. ASSUME RingInv, NEW p \in Pools, NEW o \in Pools, NEW k \in Keys,
             In(added[p]) = In(added[o]), keys[p] # {},
             ~Collision(p, Found(keys[p], keyHash[k]))
      PROVE  Get(p, k) = Get(o, k)
  <2>1. keys[p] = keys[o]
    BY <1>1 DEF RingInv, RingOf, HashesOfAll
  <2>2. PICK x : x = Found(keys[p], keyHash[k])
    OBVIOUS
  <2>3. PICK i \in DOMAIN added[p] : Get(p, k) = added[p][i] /\ IsLast(added[p], x, i)
    BY <1>1, <2>2, GetIsLast
  <2>4. PICK j \in DOMAIN added[o] : Get(o, k) = added[o][j] /\ IsLast(added[o], x, j)
    BY <1>1, <2>1, <2>2, GetIsLast
  <2>5. /\ added[p][i] \in In(added[p]) /\ added[o][j] \in In(added[p])
        /\ x \in HashesOf(added[p][i]) /\ x \in HashesOf(added[o][j])
    BY <1>1, <2>3, <2>4 DEF In, IsLast
  <2> QED BY <1>1, <2>2, <2>3, <2>4, <2>5 DEF Collision
<1>2. RingInv => SameServersSameOwner
  <2>1. SUFFICES ASSUME RingInv, NEW p \in Pools, NEW o \in Pools, NEW k \in Keys,
                        In(added[p]) = In(added[o]), keys[p] # {},
                        ~Collision(p, Found(keys[p], keyHash[k]))
                 PROVE  /\ Get(p, k) = Get(o, k)
                        /\ PickPeer(p, k) = o => PickPeer(o, k) = None
    BY DEF SameServersSameOwner
  <2>2. Get(p, k) = Get(o, k)
    BY <1>1, <2>1
  <2> QED BY <2>2, RingAssumption DEF PickPeer
<1> QED BY RingIsItsServers, <1>2, PTL

\* A key belongs to the server with the nearest replica up the ring, and of several
\* with one there to the one that was added last.
THEOREM NearestServerOwns == Spec => []NearestOwns
<1>1. ASSUME RingInv, NEW p \in Pools, NEW k \in Keys, added[p] # <<>>
      PROVE  \E i \in DOMAIN added[p] :
              /\ Get(p, k) = added[p][i]
              /\ \A j \in DOMAIN added[p] :
                   \/ Distance(added[p][i], k) < Distance(added[p][j], k)
                   \/ Distance(added[p][i], k) = Distance(added[p][j], k) /\ j <= i
  <2>. DEFINE q == added[p]
              x == Found(keys[p], keyHash[k])
  <2>1. q \in Seq(Servers) /\ DOMAIN q # {}
    <3>1. q \in Seq(Servers)
      BY <1>1 DEF RingInv
    <3> QED BY <1>1, <3>1
  <2>2. \A j \in DOMAIN q : HashesOf(q[j]) \subseteq keys[p] /\ HashesOf(q[j]) # {}
    <3>1. keys[p] = HashesOfAll(q)
      BY <1>1 DEF RingInv, RingOf
    <3>2. 0 \in Replica
      BY RingAssumption DEF Replica
    <3> QED BY <3>1, <3>2 DEF HashesOfAll, HashesOf, In
  <2>3. keys[p] # {}
    BY <2>1, <2>2
  <2>4. PICK i \in DOMAIN q : Get(p, k) = q[i] /\ IsLast(q, x, i)
    BY <1>1, <2>3, GetIsLast
  <2>5. /\ keys[p] \subseteq Hashes /\ keyHash[k] \in Hashes /\ x \in keys[p]
        /\ \A y \in keys[p] : Up(k, x) <= Up(k, y) /\ (Up(k, x) = Up(k, y) => y = x)
    BY <1>1, <2>3, GetIsLast, FoundIsNearest
  <2>6. \A y \in keys[p] : Up(k, y) \in Nat
    BY <2>5, RingAssumption DEF Up, Hashes
  <2>7. ASSUME NEW j \in DOMAIN q
        PROVE  /\ Distance(q[j], k) \in Nat /\ Distance(q[j], k) >= Up(k, x)
               /\ Distance(q[j], k) = Up(k, x) <=> x \in HashesOf(q[j])
    <3>. DEFINE T == {Up(k, h) : h \in HashesOf(q[j])}
    <3>1. T \subseteq Nat /\ T # {}
      BY <2>2, <2>6
    <3>2. Least(T) \in T /\ \A y \in T : Least(T) <= y
      BY <3>1, LeastExists
    <3>3. Distance(q[j], k) = Least(T)
      BY DEF Distance
    <3>4. PICK h \in HashesOf(q[j]) : Least(T) = Up(k, h)
      BY <3>2
    <3>5. h \in keys[p] /\ Up(k, h) \in Nat /\ Up(k, x) \in Nat /\ Up(k, x) <= Up(k, h)
      BY <2>2, <2>5, <2>6
    <3>6. x \in HashesOf(q[j]) => Least(T) = Up(k, x)
      <4>1. x \in HashesOf(q[j]) => Least(T) <= Up(k, x)
        BY <3>2
      <4> QED BY <3>4, <3>5, <4>1
    <3>7. Least(T) = Up(k, x) => x \in HashesOf(q[j])
      BY <2>5, <3>4, <3>5
    <3> QED BY <3>3, <3>4, <3>5, <3>6, <3>7
  <2>8. x \in HashesOf(q[i]) /\ \A j \in DOMAIN q : x \in HashesOf(q[j]) => j <= i
    BY <2>1, <2>4 DEF IsLast
  <2>9. ASSUME NEW j \in DOMAIN q
        PROVE  \/ Distance(q[i], k) < Distance(q[j], k)
               \/ Distance(q[i], k) = Distance(q[j], k) /\ j <= i
    <3>1. /\ Distance(q[i], k) = Up(k, x)
          /\ Distance(q[j], k) \in Nat /\ Distance(q[j], k) >= Up(k, x)
          /\ Up(k, x) \in Nat
      BY <2>5, <2>6, <2>7, <2>8
    <3>2. CASE x \in HashesOf(q[j])
      BY <2>7, <2>8, <3>1, <3>2
    <3>3. CASE x \notin HashesOf(q[j])
      <4>1. Distance(q[j], k) # Up(k, x)
        BY <2>7, <3>3
      <4> QED BY <3>1, <4>1
    <3> QED BY <3>2, <3>3
  <2> QED BY <2>4, <2>9
<1>2. ASSUME RingInv, NEW p \in Pools, NEW k \in Keys, added[p] = <<>>
      PROVE  Get(p, k) = None
  BY <1>2 DEF RingInv, RingOf, HashesOfAll, In, Get
<1>3. RingInv => NearestOwns
  BY <1>1, <1>2 DEF NearestOwns
<1> QED BY RingIsItsServers, <1>3, PTL

\* A ring that grows gives keys to the new servers and moves none between the old.
THEOREM GrowthIsLocal == Spec => KeysMoveToNewServersOnly
<1>1. ASSUME RingInv, RingInv', [Next]_vars, NEW p \in Pools, NEW k \in Keys,
             added[p] # <<>>, Grows(added[p], added'[p]), Get(p, k)' \in In(added[p])
      PROVE  Get(p, k)' = Get(p, k)
  <2>1. replicaHash' = replicaHash /\ keyHash' = keyHash
    BY <1>1 DEF Next, Set, Add, vars
  <2>2. PICK q, r, ks, ks2, map2 :
          /\ q = added[p] /\ ks = keys[p]
          /\ r = added'[p] /\ ks2 = keys'[p] /\ map2 = hashMap'[p]
    OBVIOUS
  <2>3. RingOf(ks2, map2, r)
    <3>1. RingOf(ks2, map2, r)'
      BY <1>1, <2>2 DEF RingInv
    <3> QED BY <2>1, <3>1, RingKept
  <2>4. /\ q \in Seq(Servers) /\ r \in Seq(Servers) /\ Grows(q, r)
        /\ \A i, j \in DOMAIN r : r[i] = r[j] => i = j
    BY <1>1, <2>2 DEF RingInv, Injective
  <2>5. /\ ks = HashesOfAll(q) /\ ks2 = HashesOfAll(r) /\ ks \subseteq ks2
        /\ ks2 \subseteq Hashes /\ keyHash[k] \in Hashes
    <3>1. ks = HashesOfAll(q) /\ ks2 = HashesOfAll(r)
      BY <1>1, <2>2, <2>3 DEF RingInv, RingOf
    <3>2. In(q) \subseteq In(r) /\ In(r) \subseteq Servers
      BY <2>4 DEF In, Grows
    <3>3. \A s \in Servers : HashesOf(s) \subseteq Hashes
      BY <1>1 DEF RingInv, HashesOf
    <3>4. keyHash[k] \in Hashes
      BY <1>1 DEF RingInv
    <3> QED BY <3>1, <3>2, <3>3, <3>4 DEF HashesOfAll
  <2>6. ks # {}
    <3>1. q # <<>> /\ q \in Seq(Servers)
      BY <1>1, <2>2, <2>4
    <3>2. PICK n \in DOMAIN q : TRUE
      <4>1. Len(q) \in Nat /\ DOMAIN q = 1 .. Len(q) /\ Len(q) # 0
        BY <3>1
      <4>2. 1 \in DOMAIN q
        BY <4>1
      <4> QED BY <4>2
    <3>3. 0 \in Replica
      BY RingAssumption DEF Replica
    <3>4. replicaHash[q[n]][0] \in HashesOf(q[n]) /\ q[n] \in In(q)
      BY <3>2, <3>3 DEF HashesOf, In
    <3> QED BY <2>5, <3>4 DEF HashesOfAll
  <2>7. PICK x, x2 : x = Found(ks, keyHash[k]) /\ x2 = Found(ks2, keyHash[k])
    OBVIOUS
  <2>8. PICK i \in DOMAIN q : Get(p, k) = q[i] /\ IsLast(q, x, i)
    BY <1>1, <2>2, <2>6, <2>7, GetIsLast
  <2>9. /\ x \in ks /\ \A y \in ks : Up(k, x) <= Up(k, y)
        /\ x2 \in ks2 /\ \A y \in ks2 : Up(k, x2) <= Up(k, y)
        /\ \A y \in ks2 : Up(k, x2) = Up(k, y) => y = x2
    <3>1. ks \subseteq Hashes /\ ks2 # {}
      BY <2>5, <2>6
    <3> QED BY <2>5, <2>6, <2>7, <3>1, FoundIsNearest
  <2>10. PICK j \in DOMAIN r : Get(p, k)' = r[j] /\ IsLast(r, x2, j)
    <3>1. Get(p, k)' = map2[x2]
      BY <2>1, <2>2, <2>5, <2>6, <2>7 DEF Get
    <3> QED BY <2>3, <2>9, <3>1 DEF RingOf
  <2>11. j \in DOMAIN q /\ q[j] = r[j]
    <3>1. PICK m \in DOMAIN q : q[m] = r[j]
      BY <1>1, <2>2, <2>10 DEF In
    <3>2. m \in DOMAIN r /\ r[m] = q[m]
      BY <2>4 DEF Grows
    <3> QED BY <2>4, <3>1, <3>2
  <2>12. x2 = x
    <3>1. x2 \in ks
      BY <2>5, <2>10, <2>11 DEF IsLast, HashesOfAll, In
    <3>2. Up(k, x) \in Nat /\ Up(k, x2) \in Nat
      BY <2>5, <2>9, RingAssumption DEF Up, Hashes
    <3> QED BY <2>5, <2>9, <3>1, <3>2
  <2>13. i = j
    <3>1. i \in DOMAIN r /\ r[i] = q[i] /\ i \in Nat /\ j \in Nat
      BY <2>4, <2>11 DEF Grows
    <3>2. ~(i > j)
      BY <2>8, <2>10, <2>12, <3>1 DEF IsLast
    <3>3. ~(j > i)
      BY <2>8, <2>10, <2>11, <2>12, <3>1 DEF IsLast
    <3> QED BY <3>1, <3>2, <3>3
  <2> QED BY <2>8, <2>10, <2>11, <2>13
<1>2. RingInv /\ RingInv' /\ [Next]_vars
        => [\A p \in Pools, k \in Keys :
              added[p] # <<>> /\ Grows(added[p], added'[p])
              => Get(p, k)' = Get(p, k) \/ Get(p, k)' \notin In(added[p])]_vars
  BY <1>1
<1> QED BY RingIsItsServers, <1>2, PTL DEF Spec, KeysMoveToNewServersOnly
===============================================================================
